--------------------------- MODULE BlockManagerV2 ---------------------------
(***************************************************************************)
(* BlockSpaceManagerV2 with its BlockTables over either allocator of       *)
(* core/block - naive or prefix caching - with lookahead slots and the     *)
(* null block of a sliding window, driven by steps of the engine and       *)
(* followed down to the contents of the KV cache.  The order of evictions  *)
(* depends on access times: any evictable block may be the victim here.    *)
(***************************************************************************)
EXTENDS KVCache, FiniteSets, SequencesExt

CONSTANTS
    NumGroups,      \* requests 1 .. NumGroups, in their order of arrival
    MaxBlocks,      \* of the largest pool of a configuration
    TokenIds,       \* what the model may sample
    Configs         \* [blocks, watermark, caching, window, lookahead, reqs], where
                    \* reqs is a sequence of [prompt, best_of, max_tokens]

Groups == 1 .. NumGroups
Blocks == 1 .. MaxBlocks

V2Assumption ==
    /\ NumGroups \in Nat /\ MaxBlocks \in Nat \ {0}
    /\ \A c \in Configs :
        /\ c.blocks \in Blocks /\ Len(c.reqs) = NumGroups
        /\ c.watermark \in Nat /\ c.window \in Nat /\ c.lookahead \in Nat
        /\ c.caching => c.window = 0        \* _verify_cache_config

VARIABLES
    config,     \* the engine's arguments and the requests of this behaviour
    status,     \* "new", or the status of the unfinished sequences of a group
    outputs,    \* group -> one output per sequence (one sequence until the fork)
    tables,     \* group -> one BlockTable per sequence, <<>> without blocks
    mem,        \* the GPU allocator
    kv,         \* contents of the GPU cache
    step        \* the engine step in progress

vars == <<config, status, outputs, tables, mem, kv, step>>

SeqsOf(g) == 1 .. Len(outputs[g])
Tokens(g, k) == config.reqs[g].prompt \o outputs[g][k]
LenOf(g, k) == Len(Tokens(g, k))
InStatus(st) == {g \in Groups : status[g] = st}

-----------------------------------------------------------------------------
\* The allocators.  An operation takes the allocator m and returns the set of
\* its outcomes, with the block concerned; an error clears m.ok.  hash[b] is
\* the text whose content hash maps to b in _cached_blocks, <<>> if none does;
\* computed[b] is the flag of _blocks[b].

Reply(m, b) == [m |-> m, b |-> b]

\* NaiveBlockAllocator._allocate_new_block_id
AllocateFree(m) ==
    LET b == Min(m.free)
    IN Reply([m EXCEPT !.free = @ \ {b}, !.ref[b] = 1, !.computed[b] = FALSE], b)

\* "The block comes from evictor already contain computed result."
Evict(m, b) ==
    Reply([m EXCEPT !.evictor = @ \ {b}, !.ref[b] = 1, !.hash[b] = <<>>,
                    !.computed[b] = TRUE], b)

AllocateMutable(m) ==
    IF m.free # {} THEN {AllocateFree(m)}
    ELSE IF m.evictor # {} THEN {Evict(m, b) : b \in m.evictor}
    ELSE {Reply([m EXCEPT !.ok = FALSE], 1)}        \* NoFreeBlocksError

CachedBlocks(m, h) == {b \in Blocks : h # <<>> /\ m.hash[b] = h}

\* _incr_refcount_cached_block: a block nobody used counts as computed.
IncrRefcountCachedBlock(m, b) ==
    Reply([m EXCEPT !.ref[b] = @ + 1, !.evictor = @ \ {b},
                    !.computed[b] = @ \/ m.ref[b] = 0], b)

Free(m, b) ==
    IF b = m.null THEN m
    ELSE IF m.ref[b] > 1 THEN [m EXCEPT !.ref[b] = @ - 1]
    ELSE IF m.hash[b] # <<>> THEN [m EXCEPT !.ref[b] = 0, !.evictor = @ \cup {b}]
    ELSE [m EXCEPT !.ref[b] = 0, !.free = @ \cup {b}]

\* promote_to_immutable_block
PromoteToImmutable(m, b, h) ==
    LET cached == CachedBlocks(m, h) IN
    IF h = <<>> THEN Reply(m, b)
    ELSE IF cached = {} THEN Reply([m EXCEPT !.hash[b] = h], b)
    ELSE IncrRefcountCachedBlock(Free(m, b), CHOOSE c \in cached : TRUE)

AllocateImmutable(m, h) ==
    LET cached == CachedBlocks(m, h) IN
    IF cached # {} THEN {IncrRefcountCachedBlock(m, CHOOSE c \in cached : TRUE)}
    ELSE {PromoteToImmutable(r.m, r.b, h) : r \in AllocateMutable(m)}

\* Mutant: a shared block is extended in place.
MutCopyOnWrite(m, b) == {Reply(m, b)}

\* cow_block_if_not_appendable
CopyOnWrite(m, b) ==
    IF m.ref[b] > 1 THEN AllocateMutable(Free(m, b)) ELSE {Reply(m, b)}

NumFree(m) == Cardinality(m.free) + Cardinality(m.evictor)

\* An allocator of n blocks, none of them allocated
EmptyAllocator(n) ==
    [free |-> 1 .. n, evictor |-> {}, ref |-> [b \in Blocks |-> 0],
     hash |-> [b \in Blocks |-> <<>>], computed |-> [b \in Blocks |-> FALSE],
     null |-> 0, ok |-> TRUE]

\* fork, n times, of a table with these blocks
ForkBlocks(m, blocks, n) ==
    [m EXCEPT !.ref = [b \in Blocks |-> @[b] + IF b \in blocks THEN n ELSE 0]]

-----------------------------------------------------------------------------
\* BlockTable: its blocks and _num_full_slots; cow is what the operation adds
\* to the copy-on-writes of the allocator.

Work(m, blocks, full, cow) == [m |-> m, blocks |-> blocks, full |-> full, cow |-> cow]

\* f(outcome, i) for i in 1 .. n, over every outcome so far.
ForEach(f(_, _), n, outcomes) ==
    FoldLeft(LAMBDA acc, i : UNION {f(w, i) : w \in acc}, outcomes, [i \in 1 .. n |-> i])

\* The content hash of the idx-th block once n tokens are in the table.
ContentHash(tokens, idx, n) ==
    IF config.caching /\ idx * BlockSize <= n THEN SubSeq(tokens, 1, idx * BlockSize) ELSE <<>>

\* allocate of the tokens of a prompt.
AllocateTable(m, tokens) ==
    LET n == Len(tokens)
        next(w, idx) ==
            {Work(r.m, Append(w.blocks, r.b), n, {}) :
                r \in AllocateImmutable(w.m, ContentHash(tokens, idx, n))}
    IN ForEach(next, NumBlocks(n), {Work(m, <<>>, n, {})})

MaxBlockSlidingWindow == config.window \div BlockSize + 2

\* allocate_or_get_null_block
GetNullBlock(m) ==
    IF config.window = 0 \/ m.null # 0 THEN {m}
    ELSE {[r.m EXCEPT !.null = r.b] : r \in AllocateMutable(m)}

\* The blocks in front that the window has left behind become the null block.
DropBlocks(m, blocks, computed) ==
    LET end == IF config.window = 0 THEN 0
               ELSE Min({computed \div BlockSize - MaxBlockSlidingWindow, Len(blocks)})
        drop(w, idx) == {Work(Free(w.m, w.blocks[idx]), [w.blocks EXCEPT ![idx] = w.m.null],
                              w.full, {})}
    IN ForEach(drop, end, {Work(m, blocks, 0, {})})

\* ensure_num_empty_slots
EnsureSlots(w, n) ==
    LET empty == Len(w.blocks) * BlockSize - w.full
        next(v, i) == {[v EXCEPT !.m = r.m, !.blocks = Append(@, r.b)] :
                           r \in AllocateMutable(v.m)}
    IN IF empty >= n THEN {w} ELSE ForEach(next, NumBlocks(n - empty), {w})

\* Block.append_token_ids on the idx-th block, after which n tokens are in.
AppendToBlock(w, idx, tokens, n) ==
    LET b == w.blocks[idx]
        put(c, r) == [w EXCEPT !.m = r.m, !.blocks[idx] = r.b,
                         !.cow = IF c.b = b THEN @ ELSE @ \cup {<<b, c.b>>}]
    IN {put(c, PromoteToImmutable(c.m, c.b, ContentHash(tokens, idx, n))) :
            c \in CopyOnWrite(w.m, b)}

\* _chunk_token_blocks_for_append: always a first chunk, though it be empty.
ChunkCount(full, n) ==
    1 + NumBlocks(Max({0, n - (BlockSize - (full % BlockSize))}))

\* append_token_ids of the tokens not yet in the table.
AppendTokens(m, t, tokens, computed) ==
    LET n == Len(tokens)
        first == t.full \div BlockSize
        last == Min({first + ChunkCount(t.full, n - t.full), NumBlocks(n + config.lookahead)})
        start == UNION {DropBlocks(m0, t.blocks, computed) : m0 \in GetNullBlock(m)}
        ensured == UNION {EnsureSlots([w EXCEPT !.full = t.full],
                                      n - t.full + config.lookahead) : w \in start}
        next(w, i) == AppendToBlock(w, first + i, tokens, n)
    IN {[w EXCEPT !.full = n] : w \in ForEach(next, last - first, ensured)}

-----------------------------------------------------------------------------
\* BlockSpaceManagerV2.

RequiredBlocks(g) ==
    LET n == NumBlocks(LenOf(g, 1))
    IN IF config.window = 0 THEN n ELSE Min({n, MaxBlockSlidingWindow})

NeverFits(g) == config.blocks - RequiredBlocks(g) < config.watermark
CanAllocate(g) == ~NeverFits(g) /\ NumFree(mem) - RequiredBlocks(g) >= config.watermark

\* Mutant: the lookahead slots are not counted.
MutTouchedBlocks(g, k) == ChunkCount(tables[g][k].full, LenOf(g, k) - tables[g][k].full)

\* get_num_blocks_touched_by_append_slots
TouchedBlocks(g, k) ==
    ChunkCount(tables[g][k].full, LenOf(g, k) - tables[g][k].full + config.lookahead)

CanAppendSlots(g) ==
    FoldLeft(LAMBDA n, k : n + TouchedBlocks(g, k), 0, [k \in SeqsOf(g) |-> k]) <= NumFree(mem)

Table(w) == [blocks |-> w.blocks, full |-> w.full]

\* append_slots, sequence after sequence of g.
AppendSlots(g) ==
    LET merge(acc, w) == [m |-> w.m, ts |-> Append(acc.ts, Table(w)), cow |-> acc.cow \cup w.cow]
        serve(acc, k) == {merge(acc, w) : w \in
            AppendTokens(acc.m, tables[g][k], Tokens(g, k), LenOf(g, k) - 1)}
    IN ForEach(serve, Len(tables[g]), {[m |-> mem, ts |-> <<>>, cow |-> {}]})

\* BlockTable.fork for every new sequence: the tables of a group
ForkTables(ts, n) == ts \o [i \in 1 .. n |-> ts[1]]

FreeTables(m, ts) ==
    FoldLeft(LAMBDA acc, t : FoldLeft(Free, acc, t.blocks), m, ts)

\* get_common_computed_block_ids of the one sequence of a prompt: how many.
ComputedBlocks(g) ==
    LET t == tables[g][1].blocks
        n == {i \in 0 .. Len(t) - 1 : \A j \in 1 .. i : mem.computed[t[j]]}
    IN IF config.caching THEN Max(n) ELSE 0

-----------------------------------------------------------------------------
\* A step of the engine.

Idle == [mode |-> "idle", todo |-> {}, batch |-> <<>>, prompt |-> FALSE,
         context |-> <<>>, copy |-> {}]

Init ==
    /\ config \in Configs
    /\ status = [g \in Groups |-> "new"]
    /\ outputs = [g \in Groups |-> <<(<<>>)>>]
    /\ tables = [g \in Groups |-> <<>>]
    /\ mem = EmptyAllocator(config.blocks)
    /\ kv = [b \in Blocks |-> BlankBlock]
    /\ step = Idle

\* add_request
Arrive(g) ==
    /\ step.mode = "idle" /\ status[g] = "new"
    /\ \A h \in Groups : h < g => status[h] # "new"
    /\ status' = [status EXCEPT ![g] = "waiting"]
    /\ UNCHANGED <<config, outputs, tables, mem, kv, step>>

\* free for every sequence of g
FreeGroup(g, st) ==
    /\ status' = [status EXCEPT ![g] = st]
    /\ mem' = FreeTables(mem, tables[g])
    /\ tables' = [tables EXCEPT ![g] = <<>>]

\* abort_seq_group, between two steps
Abort(g) ==
    /\ step.mode = "idle" /\ status[g] \in {"waiting", "running"}
    /\ FreeGroup(g, "ended")
    /\ UNCHANGED <<config, outputs, kv, step>>

IsNextPrompt(g) ==
    step.mode \in {"idle", "prefill"} /\ status[g] = "waiting" /\ g = Min(InStatus("waiting"))

\* One iteration of _schedule_prefills.
Prefill(g) ==
    /\ IsNextPrompt(g) /\ CanAllocate(g)
    /\ \E w \in AllocateTable(mem, Tokens(g, 1)) :
       /\ mem' = w.m
       /\ tables' = [tables EXCEPT ![g] = <<Table(w)>>]
    /\ status' = [status EXCEPT ![g] = "running"]
    /\ step' = [step EXCEPT !.mode = "prefill", !.prompt = TRUE, !.batch = Append(@, g)]
    /\ UNCHANGED <<config, outputs, kv>>

\* AllocStatus.NEVER: FINISHED_IGNORED
Ignore(g) ==
    /\ IsNextPrompt(g) /\ NeverFits(g)
    /\ status' = [status EXCEPT ![g] = "ended"]
    /\ UNCHANGED <<config, outputs, tables, mem, kv, step>>

\* No prompt can be scheduled: the running groups are, oldest first.
BeginDecode ==
    /\ step.mode = "idle" /\ InStatus("running") # {}
    /\ InStatus("waiting") # {} =>
           LET g == Min(InStatus("waiting")) IN ~CanAllocate(g) /\ ~NeverFits(g)
    /\ step' = [step EXCEPT !.mode = "decode", !.todo = InStatus("running")]
    /\ UNCHANGED <<config, status, outputs, tables, mem, kv>>

Decode(g) ==
    /\ step.mode = "decode" /\ g \in step.todo /\ g = Min(step.todo)
    /\ CanAppendSlots(g)
    /\ \E w \in AppendSlots(g) :
       /\ mem' = w.m
       /\ tables' = [tables EXCEPT ![g] = w.ts]
       /\ step' = [step EXCEPT !.todo = @ \ {g}, !.batch = Append(@, g),
                               !.copy = @ \cup w.cow]
    /\ UNCHANGED <<config, status, outputs, kv>>

\* _preempt of the last running group, or of g itself: several sequences would
\* have to be swapped out, which this manager never can.
Preempt(g) ==
    LET v == Max(step.todo) IN
    /\ step.mode = "decode" /\ g \in step.todo /\ g = Min(step.todo)
    /\ ~CanAppendSlots(g)
    /\ IF Len(outputs[v]) = 1
       THEN /\ FreeGroup(v, "waiting")
            /\ step' = [step EXCEPT !.todo = @ \ {v}]
       ELSE /\ step' = [step EXCEPT !.mode = "failed"]
            /\ UNCHANGED <<status, mem, tables>>
    /\ UNCHANGED <<config, outputs, kv>>

\* The metadata of the batch; mark_blocks_as_computed does nothing here.
Commit ==
    /\ \/ step.mode = "prefill"
       \/ step.mode = "decode" /\ step.todo = {}
    /\ step' = [step EXCEPT !.mode = "run",
            !.context = [g \in ToSet(step.batch) |->
                [k \in SeqsOf(g) |-> IF step.prompt THEN ComputedBlocks(g) * BlockSize
                                     ELSE LenOf(g, k) - 1]]]
    /\ UNCHANGED <<config, status, outputs, tables, mem, kv>>

\* The tokens of the batch whose keys and values are computed, and the cache
\* its attention reads, after the copies.
NewTokens ==
    UNION {UNION {Writes(tables[g][k].blocks, Tokens(g, k),
                         step.context[g][k] + 1 .. LenOf(g, k)) : k \in SeqsOf(g)} :
               g \in ToSet(step.batch)}
CacheRead == ReshapeAndCache(Transfer(kv, step.copy), NewTokens)

Execute ==
    /\ step.mode = "run"
    /\ kv' = CacheRead
    /\ step' = IF step.batch = <<>> THEN Idle
               ELSE [Idle EXCEPT !.mode = "output", !.batch = step.batch,
                                 !.prompt = step.prompt]
    /\ UNCHANGED <<config, status, outputs, tables, mem>>

\* The tokens a step may add to a sequence of g: one, or several when the one
\* sequence of a group has lookahead slots for the drafted ones.
NewOutputs(g) ==
    LET n == IF step.prompt \/ config.reqs[g].best_of > 1 THEN 1
             ELSE Min({1 + config.lookahead,
                       config.reqs[g].max_tokens - Len(outputs[g][1])})
    IN UNION {[1 .. m -> TokenIds] : m \in 1 .. n}

\* The keys and values of the drafted tokens were computed with the step.
Drafted(g, tokens, n) == Writes(tables[g][1].blocks, tokens, n + 1 .. Len(tokens) - 1)

\* One iteration of _process_model_outputs: the samples of a prompt fork its
\* sequence, and a group whose outputs are complete is freed.
ProcessOutput(g, new) ==
    LET parent == outputs[g][1]
        forks == IF parent = <<>> THEN config.reqs[g].best_of - 1 ELSE 0
        olds == outputs[g] \o [i \in 1 .. forks |-> parent]
        outs == [k \in 1 .. Len(olds) |-> olds[k] \o new[k]]
        forked == ForkBlocks(mem, ToSet(tables[g][1].blocks), forks)
        tabs == ForkTables(tables[g], forks)
    IN
    /\ step.mode = "output" /\ g = Head(step.batch)
    /\ outputs' = [outputs EXCEPT ![g] = outs]
    /\ kv' = ReshapeAndCache(kv, Drafted(g, config.reqs[g].prompt \o outs[1], LenOf(g, 1)))
    /\ IF Len(outs[1]) < config.reqs[g].max_tokens
       THEN /\ mem' = forked
            /\ tables' = [tables EXCEPT ![g] = tabs]
            /\ UNCHANGED status
       ELSE /\ mem' = FreeTables(forked, tabs)
            /\ tables' = [tables EXCEPT ![g] = <<>>]
            /\ status' = [status EXCEPT ![g] = "ended"]
    /\ step' = IF Len(step.batch) = 1 THEN Idle ELSE [step EXCEPT !.batch = Tail(@)]
    /\ UNCHANGED config

Next ==
    \/ \E g \in Groups : \/ Arrive(g) \/ Abort(g)
                         \/ Prefill(g) \/ Ignore(g) \/ Decode(g) \/ Preempt(g)
    \/ BeginDecode \/ Commit \/ Execute
    \/ \E g \in Groups :
           /\ step.mode = "output" /\ g = Head(step.batch)
           /\ \E new \in [1 .. config.reqs[g].best_of -> NewOutputs(g)] : ProcessOutput(g, new)

Spec == Init /\ [][Next]_vars

-----------------------------------------------------------------------------
\* Properties.

\* What the attention reads, of the window if there is one.
Attended(g, k) ==
    (IF config.window = 0 THEN 1 ELSE Max({1, LenOf(g, k) - config.window + 1})) .. LenOf(g, k)

\* Every position that the attention of a step reads holds the keys and values
\* of that very sequence, whatever was shared, copied, promoted or dropped.
ReadsOwnPrefix ==
    step.mode = "run" =>
        \A g \in ToSet(step.batch) : \A k \in SeqsOf(g) :
            Holds(CacheRead, tables[g][k].blocks, Tokens(g, k), Attended(g, k))

\* No two threads of a kernel disagree, in spite of blocks that are copied to,
\* promoted away and allocated again within one step.
StepIsRaceFree ==
    step.mode = "run" =>
        /\ RaceFree(step.copy, UNION {UNION {ToSet(tables[g][k].blocks) : k \in SeqsOf(g)} :
                                         g \in ToSet(step.batch)})
        /\ WritesAgree(NewTokens)

References(b) ==
    LET entries(g) == UNION {{<<g, k, i>> : i \in {i \in DOMAIN tables[g][k].blocks :
                                        tables[g][k].blocks[i] = b}} : k \in DOMAIN tables[g]}
    IN Cardinality(UNION {entries(g) : g \in Groups})

\* What can_allocate and can_append_slots promise: no allocation fails, a block
\* is counted once for each table entry, is free, evictable or in use, and a
\* text is found in one block; a scheduled sequence has its lookahead slots.
NothingRunsOut ==
    /\ mem.ok
    /\ \A b \in Blocks \ {mem.null} : mem.ref[b] = References(b)
    /\ {b \in 1 .. config.blocks : mem.ref[b] = 0} = mem.free \cup mem.evictor
    /\ mem.free \cap mem.evictor = {}
    /\ mem.evictor = {b \in Blocks : mem.ref[b] = 0 /\ mem.hash[b] # <<>>}
    /\ \A b, c \in Blocks : mem.hash[b] = mem.hash[c] /\ b # c => mem.hash[b] = <<>>
    /\ step.mode = "run" =>
        \A g \in ToSet(step.batch) : \A k \in SeqsOf(g) :
            Len(tables[g][k].blocks) * BlockSize >=
                LenOf(g, k) + IF step.prompt THEN 0 ELSE config.lookahead
=============================================================================
