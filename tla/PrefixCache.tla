---------------------------- MODULE PrefixCache ----------------------------
(***************************************************************************)
(* Automatic prefix caching: CachedBlockAllocator with its LRU evictor and *)
(* the caching paths of BlockSpaceManagerV1 (core/block_manager_v1.py),    *)
(* driven by steps of the engine - schedule(), the cache operations and    *)
(* the model on the worker, the processing of the outputs - and followed   *)
(* down to the contents of the KV cache.                                   *)
(***************************************************************************)
EXTENDS KVCache, FiniteSets, SequencesExt

CONSTANTS
    NumGroups,          \* requests 1 .. NumGroups, in their order of arrival
    NumGpuBlocks, NumCpuBlocks,
    TokenIds,           \* what the model may sample
    Workloads           \* group -> [prompt, best_of, max_tokens]

Groups == 1 .. NumGroups
Devices == {"gpu", "cpu"}
GpuBlocks == 1 .. NumGpuBlocks
CpuBlocks == NumGpuBlocks + 1 .. NumGpuBlocks + NumCpuBlocks
Blocks == GpuBlocks \cup CpuBlocks
DeviceOf(b) == IF b \in GpuBlocks THEN "gpu" ELSE "cpu"
NumBlocksOf(d) == IF d = "gpu" THEN NumGpuBlocks ELSE NumCpuBlocks
FirstBlock(d) == IF d = "gpu" THEN 1 ELSE NumGpuBlocks + 1

PrefixAssumption ==
    /\ NumGroups \in Nat /\ NumGpuBlocks \in Nat \ {0} /\ NumCpuBlocks \in Nat
    /\ \A load \in Workloads : \A g \in Groups :
           /\ Len(load[g].prompt) > 0 /\ load[g].best_of > 0 /\ load[g].max_tokens > 0
           \* a group that was swapped out fits again: AllocStatus.NEVER is no answer
           /\ LET full == Len(load[g].prompt) \div BlockSize
                  most == NumBlocks(Len(load[g].prompt) + load[g].max_tokens - 1)
              IN full + load[g].best_of * (most - full + 1) <= NumGpuBlocks

VARIABLES
    load,       \* the requests of this behaviour
    status,     \* "new", or the status of the unfinished sequences of a group
    outputs,    \* group -> one output per sequence (one sequence until the fork)
    tables,     \* group -> one block table per sequence, <<>> without blocks
    mem,        \* both allocators and their blocks
    kv,         \* contents of the caches of both devices
    step        \* the engine step in progress

vars == <<load, status, outputs, tables, mem, kv, step>>

-----------------------------------------------------------------------------
\* Sequences.

SeqsOf(g) == 1 .. Len(outputs[g])
Tokens(g, k) == load[g].prompt \o outputs[g][k]
LenOf(g, k) == Len(Tokens(g, k))
InStatus(st) == {g \in Groups : status[g] = st}

\* hash_of_block of the idx-th block: the tokens up to the end of the block,
\* of which the prompt is a part of its own (get_prefix_token_ids).
HashOfBlock(g, k, idx) ==
    LET n == Min({idx * BlockSize, LenOf(g, k)})
    IN [tokens |-> SubSeq(Tokens(g, k), 1, n), split |-> Min({Len(load[g].prompt), n}),
        ctr |-> 0]

IsLastBlockFull(g, k) == LenOf(g, k) % BlockSize = 0

-----------------------------------------------------------------------------
\* CachedBlockAllocator.  An operation takes the allocators m and returns them
\* with the block concerned; a failed assertion or KeyError clears m.ok.

Reply(m, b) == [m |-> m, b |-> b]
Failed(m, d) == Reply([m EXCEPT !.ok = FALSE], FirstBlock(d))

\* next(default_hash_ctr), up to renaming: a number no block carries.
NextDefaultHash(m) ==
    LET used == {m.hash[b].ctr : b \in Blocks}
    IN [tokens |-> <<>>, split |-> 0,
        ctr |-> CHOOSE c \in 1 .. Cardinality(Blocks) + 1 :
                    c \notin used /\ \A x \in 1 .. c - 1 : x \in used]

\* LRUEvictor.evict: of the blocks at the front that are as old as the first,
\* the one with the most hashed tokens.
Victim(m, d) ==
    LET older(acc, b) ==
            IF acc.stop \/ m.last[acc.b] < m.last[b] THEN [acc EXCEPT !.stop = TRUE]
            ELSE IF m.hashed[acc.b] < m.hashed[b] THEN [acc EXCEPT !.b = b] ELSE acc
    IN FoldLeft(older, [b |-> m.evictor[d][1], stop |-> FALSE], m.evictor[d]).b

Named(m, b, h, n) == Reply([m EXCEPT !.hash[b] = h, !.hashed[b] = n], b)

\* Mutant: an evicted block keeps its computed flag.
MutEvict(m, d, b) == [m EXCEPT !.evictor[d] = Remove(@, b)]

Evict(m, d, b) == [m EXCEPT !.evictor[d] = Remove(@, b), !.computed[b] = FALSE]

Evicting(m, d, b, h, n) == Named(Evict(m, d, b), b, h, n)

AllocateBlock(m, d, h, n) ==
    IF m.current[d] < NumBlocksOf(d)
    THEN Named([m EXCEPT !.current[d] = @ + 1], FirstBlock(d) + m.current[d], h, n)
    ELSE IF m.evictor[d] = <<>> THEN Failed(m, d)
    ELSE Evicting(m, d, Victim(m, d), h, n)

\* The dictionaries are keyed by hash: the block of each device under hash h.
Evictable(m, d, h) == {b \in ToSet(m.evictor[d]) : m.hash[b] = h}
Cached(m, d, h) == {b \in m.cached[d] : m.hash[b] = h}
ContainsBlock(m, d, h) == Evictable(m, d, h) \cup Cached(m, d, h) # {}

Hold(d, r) ==
    Reply([r.m EXCEPT !.cached[d] = @ \cup {r.b}, !.ref[r.b] = @ + 1], r.b)

Revive(m, d, b) ==
    IF m.ref[b] # 0 THEN Failed(m, d)
    ELSE Hold(d, Reply([m EXCEPT !.evictor[d] = Remove(@, b)], b))

Allocate(m, d, h, n) ==
    LET evictable == Evictable(m, d, h)
        cached == Cached(m, d, h)
    IN IF evictable # {} /\ cached # {} THEN Failed(m, d)
       ELSE IF evictable # {} THEN Revive(m, d, CHOOSE b \in evictable : TRUE)
       ELSE Hold(d, IF cached # {} THEN Reply(m, CHOOSE b \in cached : TRUE)
                    ELSE AllocateBlock(m, d, h, n))

Free(m, b) ==
    LET d == DeviceOf(b) IN
    IF m.ref[b] = 0 THEN [m EXCEPT !.ok = FALSE]
    ELSE IF m.ref[b] > 1 THEN [m EXCEPT !.ref[b] = @ - 1]
    ELSE IF Evictable(m, d, m.hash[b]) # {} \/ b \notin m.cached[d]
    THEN [m EXCEPT !.ok = FALSE]
    ELSE [m EXCEPT !.ref[b] = 0, !.evictor[d] = Append(@, b), !.cached[d] = @ \ {b}]

UpdateHash(m, h, b) ==
    IF ContainsBlock(m, "gpu", h) THEN [m EXCEPT !.ok = FALSE]
    ELSE [m EXCEPT !.hash[b] = h]

NumFree(m, d) == NumBlocksOf(d) - m.current[d] + Len(m.evictor[d])

-----------------------------------------------------------------------------
\* BlockSpaceManagerV1 with enable_caching.

\* What an operation on a table works on: allocators, table, copies ordered.
Work(m, t, cow) == [m |-> m, t |-> t, cow |-> cow]

CanAllocate(g) == NumFree(mem, "gpu") >= NumBlocks(LenOf(g, 1))

AddBlock(t, r) == Work(r.m, Append(t, r.b), {})

AllocateTable(g) ==
    LET add(acc, idx) ==
            AddBlock(acc.t, Allocate(acc.m, "gpu", HashOfBlock(g, 1, idx), idx * BlockSize))
    IN FoldLeft(add, Work(mem, <<>>, {}), [i \in 1 .. NumBlocks(LenOf(g, 1)) |-> i])

CanAppendSlots(g) == Len(outputs[g]) <= NumFree(mem, "gpu")

\* A block that is not full is expected to have one reference.
Unshared(r) == IF r.m.ref[r.b] = 1 THEN r ELSE Failed(r.m, "gpu")

AllocateLastBlock(m, g, k) ==
    LET idx == NumBlocks(LenOf(g, k)) IN
    IF IsLastBlockFull(g, k)
    THEN Allocate(m, "gpu", HashOfBlock(g, k, idx), idx * BlockSize)
    ELSE Unshared(Allocate(m, "gpu", NextDefaultHash(m), idx * BlockSize))

PromoteLastBlock(m, b, h) ==
    IF ContainsBlock(m, "gpu", h) THEN Allocate(Free(m, b), "gpu", h, 0)
    ELSE Reply(UpdateHash(m, h, b), b)

SetLast(t, r) == Work(r.m, [t EXCEPT ![Len(t)] = r.b], {})
CopyLast(t, b, r) == Work(Free(r.m, b), [t EXCEPT ![Len(t)] = r.b], {<<b, r.b>>})

\* append_slots for one sequence of idx logical blocks: a new block, or the
\* last one - in place, or copied when it is shared.
AppendSlot(m, t, g, k, idx) ==
    IF Len(t) < idx THEN AddBlock(t, AllocateLastBlock(m, g, k))
    ELSE IF m.ref[t[idx]] > 1 THEN CopyLast(t, t[idx], AllocateLastBlock(m, g, k))
    ELSE IF ~IsLastBlockFull(g, k) THEN Work(m, t, {})
    ELSE SetLast(t, PromoteLastBlock(m, t[idx], HashOfBlock(g, k, idx)))

\* _append_slots of the scheduler: one after the other, for the tables ts of g.
AppendSlots(m, ts, g) ==
    LET merge(acc, k, w) == Work(w.m, [acc.t EXCEPT ![k] = w.t], acc.cow \cup w.cow)
        serve(acc, k) ==
            merge(acc, k, AppendSlot(acc.m, acc.t[k], g, k, NumBlocks(LenOf(g, k))))
    IN FoldLeft(serve, Work(m, ts, {}), [k \in 1 .. Len(ts) |-> k])

\* swap_in and swap_out: every block of the tables of g gets one on device d,
\* under the same hash, and loses a reference; the pairs are the transfers.
Swap(g, d) ==
    LET target(acc, b) ==
            LET seen == {p \in acc.cow : p[1] = b} IN
            IF seen = {} THEN Allocate(acc.m, d, acc.m.hash[b], acc.m.hashed[b])
            ELSE Hold(d, Reply(acc.m, (CHOOSE p \in seen : TRUE)[2]))
        put(acc, b, r) == Work(Free(r.m, b), Append(acc.t, r.b), acc.cow \cup {<<b, r.b>>})
        move(acc, b) == put(acc, b, target(acc, b))
        add(acc, w) == Work(w.m, Append(acc.t, w.t), w.cow)
        table(acc, t) == add(acc, FoldLeft(move, Work(acc.m, <<>>, acc.cow), t))
    IN FoldLeft(table, Work(mem, <<>>, {}), tables[g])

PhysicalBlocks(g) == UNION {ToSet(tables[g][k]) : k \in 1 .. Len(tables[g])}
CanSwapIn(g) == NumFree(mem, "gpu") >= Cardinality(PhysicalBlocks(g)) + Len(outputs[g])
CanSwapOut(g) == NumFree(mem, "cpu") >= Cardinality(PhysicalBlocks(g))

\* free for every sequence of g; a table is freed as a set, in any order.
FreeOrders(g) ==
    LET perms == [k \in 1 .. Len(tables[g]) |-> SetToSeqs(ToSet(tables[g][k]))]
    IN {f \in [1 .. Len(tables[g]) -> UNION {perms[k] : k \in DOMAIN perms}] :
            \A k \in DOMAIN f : f[k] \in perms[k]}
FreeAll(m, orders) == FoldLeft(Free, m, FlattenSeq(orders))

\* The blocks from the last computed one up to the last but one full block.
\* mark_blocks_as_computed, sequence after sequence.
MarkComputed(m, g) ==
    LET mark(acc, k) ==
            LET t == tables[g][k]
                full == {i \in 1 .. Len(t) : i <= LenOf(g, k) \div BlockSize - 1}
                new == {i \in full : \A j \in full : j >= i => ~acc.computed[t[j]]}
            IN [acc EXCEPT !.computed =
                    [b \in Blocks |-> @[b] \/ \E i \in new : t[i] = b]]
    IN FoldLeft(mark, m, [k \in SeqsOf(g) |-> k])

\* get_all_computed_blocks of the one sequence of a prompt: how many.
ComputedBlocks(g) ==
    LET t == tables[g][1]
        n == {i \in 0 .. Len(t) - 1 : \A j \in 1 .. i : mem.computed[t[j]]}
    IN CHOOSE i \in n : \A j \in n : j <= i

\* access_all_blocks_in_seq for every sequence of the batch at one time; only
\* the order of the times matters.
AccessBlocks(m, B) ==
    LET now == Cardinality(Blocks)
        last == [b \in Blocks |-> IF b \in B THEN now ELSE m.last[b]]
    IN [m EXCEPT !.last = [b \in Blocks |->
            Cardinality({last[c] : c \in {c \in Blocks : last[c] < last[b]}})]]

-----------------------------------------------------------------------------
\* A step of the engine.

Idle == [mode |-> "idle", todo |-> {}, batch |-> <<>>, prompt |-> FALSE,
         context |-> <<>>, swap_in |-> {}, swap_out |-> {}, copy |-> {},
         preempted |-> FALSE]

Init ==
    /\ load \in Workloads
    /\ status = [g \in Groups |-> "new"]
    /\ outputs = [g \in Groups |-> <<(<<>>)>>]
    /\ tables = [g \in Groups |-> <<>>]
    /\ mem = [hash |-> [b \in Blocks |-> [tokens |-> <<>>, split |-> 0, ctr |-> 0]],
              hashed |-> [b \in Blocks |-> 0], ref |-> [b \in Blocks |-> 0],
              last |-> [b \in Blocks |-> 0], computed |-> [b \in Blocks |-> FALSE],
              current |-> [d \in Devices |-> 0], cached |-> [d \in Devices |-> {}],
              evictor |-> [d \in Devices |-> <<>>], ok |-> TRUE]
    /\ kv = [b \in Blocks |-> BlankBlock]
    /\ step = Idle

\* add_request
Arrive(g) ==
    /\ step.mode = "idle" /\ status[g] = "new"
    /\ \A h \in Groups : h < g => status[h] # "new"
    /\ status' = [status EXCEPT ![g] = "waiting"]
    /\ UNCHANGED <<load, outputs, tables, mem, kv, step>>

\* abort_seq_group, between two steps
Abort(g) ==
    /\ step.mode = "idle" /\ status[g] \in {"waiting", "running", "swapped"}
    /\ status' = [status EXCEPT ![g] = "ended"]
    /\ \E orders \in FreeOrders(g) : mem' = FreeAll(mem, orders)
    /\ tables' = [tables EXCEPT ![g] = <<>>]
    /\ UNCHANGED <<load, outputs, kv, step>>

\* One iteration of _schedule_prefills, which _schedule_default calls first
\* and only when nothing is swapped out.
Prefill(g) ==
    /\ step.mode \in {"idle", "prefill"}
    /\ InStatus("swapped") = {} /\ status[g] = "waiting"
    /\ g = Min(InStatus("waiting")) /\ CanAllocate(g)
    /\ \E w \in {AllocateTable(g)} :
       /\ mem' = w.m
       /\ tables' = [tables EXCEPT ![g] = <<w.t>>]
    /\ status' = [status EXCEPT ![g] = "running"]
    /\ step' = [step EXCEPT !.mode = "prefill", !.prompt = TRUE,
                            !.batch = Append(@, g)]
    /\ UNCHANGED <<load, outputs, kv>>

\* No prompt can be scheduled: the running groups are, oldest first.
BeginDecode ==
    /\ step.mode = "idle" /\ InStatus("running") \cup InStatus("swapped") # {}
    /\ InStatus("swapped") = {} /\ InStatus("waiting") # {}
           => ~CanAllocate(Min(InStatus("waiting")))
    /\ step' = [step EXCEPT !.mode = "decode", !.todo = InStatus("running")]
    /\ UNCHANGED <<load, status, outputs, tables, mem, kv>>

Decode(g) ==
    /\ step.mode = "decode" /\ g \in step.todo /\ g = Min(step.todo)
    /\ CanAppendSlots(g)
    /\ \E w \in {AppendSlots(mem, tables[g], g)} :
       /\ mem' = w.m
       /\ tables' = [tables EXCEPT ![g] = w.t]
       /\ step' = [step EXCEPT !.todo = @ \ {g}, !.batch = Append(@, g),
                               !.copy = @ \cup w.cow]
    /\ UNCHANGED <<load, status, outputs, kv>>

\* _preempt of the last running group, or of g itself: by recomputation when
\* it has one sequence, else by swapping, which needs room on the CPU.
PreemptByRecompute(v) ==
    /\ Len(outputs[v]) = 1
    /\ \E orders \in FreeOrders(v) : mem' = FreeAll(mem, orders)
    /\ tables' = [tables EXCEPT ![v] = <<>>]
    /\ status' = [status EXCEPT ![v] = "waiting"]
    /\ step' = [step EXCEPT !.todo = @ \ {v}, !.preempted = TRUE]

PreemptBySwap(v) ==
    /\ Len(outputs[v]) > 1 /\ CanSwapOut(v)
    /\ \E w \in {Swap(v, "cpu")} :
       /\ mem' = w.m
       /\ tables' = [tables EXCEPT ![v] = w.t]
       /\ step' = [step EXCEPT !.todo = @ \ {v}, !.preempted = TRUE,
                               !.swap_out = @ \cup w.cow]
    /\ status' = [status EXCEPT ![v] = "swapped"]

\* "Aborted due to the lack of CPU swap space."
SwapFails(v) ==
    /\ Len(outputs[v]) > 1 /\ ~CanSwapOut(v)
    /\ step' = [step EXCEPT !.mode = "failed"]
    /\ UNCHANGED <<status, tables, mem>>

Preempt(g) ==
    /\ step.mode = "decode" /\ g \in step.todo /\ g = Min(step.todo)
    /\ ~CanAppendSlots(g)
    /\ LET v == Max(step.todo)
       IN PreemptByRecompute(v) \/ PreemptBySwap(v) \/ SwapFails(v)
    /\ UNCHANGED <<load, outputs, kv>>

\* The next group of _schedule_swapped, when this step has preempted nobody.
MaySwapIn(g) ==
    /\ ~step.preempted
    /\ status[g] = "swapped" /\ g = Min(InStatus("swapped")) /\ CanSwapIn(g)

\* One iteration of _schedule_swapped.
SwapIn(g) ==
    /\ step.mode = "decode" /\ step.todo = {} /\ MaySwapIn(g)
    /\ \E s \in {Swap(g, "gpu")} : \E w \in {AppendSlots(s.m, s.t, g)} :
          /\ mem' = w.m
          /\ tables' = [tables EXCEPT ![g] = w.t]
          /\ step' = [step EXCEPT !.batch = Append(@, g), !.copy = @ \cup w.cow,
                                  !.swap_in = @ \cup s.cow]
    /\ status' = [status EXCEPT ![g] = "running"]
    /\ UNCHANGED <<load, outputs, kv>>

\* The rest of schedule(): the metadata of the batch, its computed prefixes,
\* and the flags of the blocks it will have computed.  A prefill may end
\* before the queue does: the budget of tokens is used up.
Commit ==
    /\ \/ step.mode = "prefill"
       \/ /\ step.mode = "decode" /\ step.todo = {}
          /\ ~ \E g \in Groups : MaySwapIn(g)
    /\ LET batch == ToSet(step.batch)
           accessed == AccessBlocks(mem, UNION {PhysicalBlocks(g) : g \in batch})
       IN /\ mem' = FoldLeft(MarkComputed, accessed, step.batch)
          /\ step' = [step EXCEPT !.mode = "run",
                !.context = [g \in batch |->
                    [k \in SeqsOf(g) |-> IF step.prompt THEN ComputedBlocks(g) * BlockSize
                                         ELSE LenOf(g, k) - 1]]]
    /\ UNCHANGED <<load, status, outputs, tables, kv>>

\* cache_swap of the worker.
CacheSwap == Transfer(Transfer(Transfer(kv, step.swap_in), step.swap_out), step.copy)

\* The tokens of the batch whose keys and values are computed.
NewTokens ==
    UNION {UNION {Writes(tables[g][k], Tokens(g, k),
                         step.context[g][k] + 1 .. LenOf(g, k)) : k \in SeqsOf(g)} :
               g \in ToSet(step.batch)}

\* The cache the attention of the step reads.
CacheRead == ReshapeAndCache(CacheSwap, NewTokens)

\* execute_model on the worker; a step without groups and transfers is skipped.
Execute ==
    /\ step.mode = "run"
    /\ kv' = CacheRead
    /\ step' = IF step.batch = <<>> THEN Idle
               ELSE [Idle EXCEPT !.mode = "output", !.batch = step.batch]
    /\ UNCHANGED <<load, status, outputs, tables, mem>>

\* One iteration of _process_model_outputs: the samples of a prompt fork its
\* sequence, and a group whose outputs are complete is freed.
ProcessOutput(g, new) ==
    LET parent == outputs[g][1]
        forks == IF parent = <<>> THEN load[g].best_of - 1 ELSE 0
        olds == outputs[g] \o [i \in 1 .. forks |-> parent]
        outs == [k \in 1 .. Len(olds) |-> Append(olds[k], new[k])]
        forked == [mem EXCEPT !.ref = [b \in Blocks |->
                     @[b] + IF b \in ToSet(tables[g][1]) THEN forks ELSE 0]]
        tabs == tables[g] \o [i \in 1 .. forks |-> tables[g][1]]
    IN
    /\ step.mode = "output" /\ g = Head(step.batch)
    /\ outputs' = [outputs EXCEPT ![g] = outs]
    /\ IF Len(outs[1]) < load[g].max_tokens
       THEN /\ mem' = forked
            /\ tables' = [tables EXCEPT ![g] = tabs]
            /\ UNCHANGED status
       ELSE /\ \E orders \in [1 .. Len(tabs) -> UNION {SetToSeqs(ToSet(tabs[k])) :
                                                          k \in DOMAIN tabs}] :
                  /\ \A k \in DOMAIN tabs : ToSet(orders[k]) = ToSet(tabs[k])
                  /\ mem' = FreeAll(forked, orders)
            /\ tables' = [tables EXCEPT ![g] = <<>>]
            /\ status' = [status EXCEPT ![g] = "ended"]
    /\ step' = IF Len(step.batch) = 1 THEN Idle ELSE [step EXCEPT !.batch = Tail(@)]
    /\ UNCHANGED <<load, kv>>

Next ==
    \/ \E g \in Groups : \/ Arrive(g) \/ Abort(g)
                         \/ Prefill(g) \/ Decode(g) \/ Preempt(g) \/ SwapIn(g)
    \/ BeginDecode \/ Commit \/ Execute
    \/ \E g \in Groups : \E new \in [1 .. load[g].best_of -> TokenIds] :
           ProcessOutput(g, new)

Spec == Init /\ [][Next]_vars

-----------------------------------------------------------------------------
\* Properties.

\* Every position that the attention of a step reads - the cached prefix of a
\* prompt, the context of a decode, the tokens of the step itself - holds the
\* keys and values of that very sequence: no eviction, sharing, copy, swap or
\* early computed flag makes a request read the cache of another text.
ReadsOwnPrefix ==
    step.mode = "run" =>
        \A g \in ToSet(step.batch) : \A k \in SeqsOf(g) :
            Holds(CacheRead, tables[g][k], Tokens(g, k), 1 .. LenOf(g, k))

\* No two threads of a kernel disagree: blocks are copied from blocks the
\* step does not overwrite, and shared slots get one value.
StepIsRaceFree ==
    step.mode = "run" =>
        /\ RaceFree(step.copy, UNION {PhysicalBlocks(g) : g \in ToSet(step.batch)})
        /\ WritesAgree(NewTokens)

\* Outside a running step, a block marked computed holds what its hash says,
\* whether it is in use or waits in the evictor: mark_blocks_as_computed runs
\* ahead of the model, by one step and no more.
ComputedHoldsHash ==
    step.mode # "run" =>
        \A b \in GpuBlocks : mem.computed[b] =>
            \A o \in Slots : kv[b][o] =
                SubSeq(mem.hash[b].tokens, 1, mem.hashed[b] - BlockSize + o)

\* compute_full_blocks_in_seq stops at the first computed block from the end:
\* all blocks before it are computed too, so nothing is left unmarked.
ComputedIsPrefix ==
    step.mode = "idle" =>
        \A g \in InStatus("running") : \A k \in SeqsOf(g) :
            LET t == tables[g][k]
            IN \A i, j \in 1 .. Len(t) :
                   i < j /\ mem.computed[t[j]] => mem.computed[t[i]]

\* What makes the cache sound.
CacheInv == ReadsOwnPrefix /\ ComputedHoldsHash /\ ComputedIsPrefix

\* References to a block, one for each table it is in.
References(b) ==
    Cardinality(UNION {{<<g, k>> : k \in {k \in DOMAIN tables[g] :
                                              b \in ToSet(tables[g][k])}} : g \in Groups})

\* The dictionaries of the allocators: a hash is found once on a device, a
\* block is counted once for each table, and is in use, waiting for eviction
\* or never allocated; no assertion of the allocators fails.
AllocatorInv ==
    /\ mem.ok
    /\ \A b \in Blocks : mem.ref[b] = References(b)
    /\ \A d \in Devices :
        LET blocks == FirstBlock(d) .. FirstBlock(d) + mem.current[d] - 1
            evictable == ToSet(mem.evictor[d])
        IN /\ mem.cached[d] = {b \in blocks : mem.ref[b] > 0}
           /\ evictable = blocks \ mem.cached[d]
           /\ \A b, c \in blocks : mem.hash[b] = mem.hash[c] => b = c
=============================================================================
