--------------------------- MODULE BlockManagerV1 ---------------------------
(***************************************************************************)
(* The paged KV-cache block manager of the engine: UncachedBlockAllocator  *)
(* and BlockSpaceManagerV1 (core/block_manager_v1.py), driven by the calls *)
(* the scheduler and the output processor make for a group of sequences.   *)
(* The free list is a LIFO list in the code; which free block is handed    *)
(* out is immaterial up to renaming, so it is a set here.  An absent entry *)
(* of block_tables is <<>>: a sequence has at least one prompt token,      *)
(* hence no empty table.                                                   *)
(***************************************************************************)
EXTENDS Integers, Sequences, FiniteSets, Functions

CONSTANTS
    Groups,             \* sequence groups (requests)
    BestOf,             \* sequences a group has after its first output
    GpuBlocks,          \* physical blocks of the GPU allocator
    CpuBlocks,          \* physical blocks of the CPU allocator
    BlockSize,          \* tokens in a block
    Watermark,          \* watermark_blocks
    SlidingWindow,      \* block_sliding_window, 0 for None
    BeamGroups,         \* groups with sampling_params.use_beam_search
    PromptLens,         \* lengths of prompts (input)
    MaxLen              \* bound: tokens of a sequence

Index == 1 .. BestOf
Seqs == Groups \X Index
Blocks == GpuBlocks \cup CpuBlocks

ASSUME BlockManagerAssumption ==
    /\ IsFiniteSet(Groups) /\ IsFiniteSet(GpuBlocks) /\ IsFiniteSet(CpuBlocks)
    /\ GpuBlocks \cap CpuBlocks = {}
    /\ BestOf \in Nat \ {0} /\ BlockSize \in Nat \ {0} /\ MaxLen \in Nat
    /\ Watermark \in Nat /\ SlidingWindow \in Nat /\ BeamGroups \subseteq Groups
    /\ PromptLens \subseteq 1 .. MaxLen

VARIABLES
    free_blocks,    \* free blocks of both allocators
    ref_count,      \* PhysicalTokenBlock.ref_count
    block_tables,   \* BlockSpaceManagerV1.block_tables
    status,         \* Sequence.status; "none": not in seqs_dict
    length,         \* tokens of a sequence, prompt and output
    sampled,        \* group: its running sequences hold a token with no slot
    todo,           \* sequences the loop of _append_slots has still to serve
    error           \* the exception that ended the engine, or "none"

vars == <<free_blocks, ref_count, block_tables, status, length, sampled, todo,
          error>>

Statuses == {"none", "WAITING", "RUNNING", "SWAPPED", "FINISHED"}
Errors == {"none", "OutOfMemory", "DoubleFree", "NoSwapSpace", "Assert", "KeyError"}

-----------------------------------------------------------------------------
\* Sequence groups.

SeqsOf(g) == {s \in Seqs : s[1] = g /\ status[s] # "none"}
SeqsWith(g, st) == {s \in SeqsOf(g) : status[s] = st}
UnfinishedSeqs(g) == {s \in SeqsOf(g) : status[s] # "FINISHED"}
NumSeqs(g) == Cardinality(SeqsOf(g))

\* len(seq.logical_token_blocks)
LogicalBlocks(n) == (n + BlockSize - 1) \div BlockSize

GetMaxNumRunningSeqs(g) ==
    IF g \in BeamGroups \/ BestOf > NumSeqs(g) THEN BestOf
    ELSE Cardinality(UnfinishedSeqs(g))

\* The blocks a table refers to.
Entries(table) == Range(table)

\* blocks_to_free of _free_block_table: only the last window of a table counts.
Live(table) ==
    IF SlidingWindow = 0 \/ Len(table) <= SlidingWindow THEN Entries(table)
    ELSE Entries(SubSeq(table, Len(table) - SlidingWindow + 1, Len(table)))

\* How many sequences of U hold block b through the live part of their table.
Uses(U, b) == Cardinality({s \in U : b \in Live(block_tables[s])})

\* _get_physical_blocks
PhysicalBlocks(g) == UNION {Entries(block_tables[s]) : s \in UnfinishedSeqs(g)}

-----------------------------------------------------------------------------
\* Allocators.

FreeGpu == free_blocks \cap GpuBlocks
FreeCpu == free_blocks \cap CpuBlocks

\* The scheduler and the output processor run one at a time: their calls on a
\* group come between two loops of _append_slots, and none after an exception.
Idle == error = "none" /\ todo = {}

Fail(e) == /\ error' = e
           /\ UNCHANGED <<free_blocks, ref_count, block_tables, status, length,
                          sampled, todo>>

\* Mutant: a block goes back to the free list whenever it is freed.
MutDropRefs(n) ==
    /\ ref_count' = [b \in Blocks |-> ref_count[b] - n[b]]
    /\ free_blocks' = free_blocks \cup {b \in Blocks : n[b] > 0}

\* n[b] calls of free() on every block b: a block whose count reaches zero
\* goes back to the free list.
DropRefs(n) ==
    /\ ref_count' = [b \in Blocks |-> ref_count[b] - n[b]]
    /\ free_blocks' = free_blocks \cup {b \in Blocks : n[b] > 0 /\ ref_count[b] = n[b]}

\* "Double free!": some block is freed more often than it is referenced.
DoubleFrees(n) == \E b \in Blocks : n[b] > ref_count[b]

\* Mutant: all entries of a table are freed, those outside the window too.
MutFreesWholeTable(U) ==
    [b \in Blocks |-> Cardinality({s \in U : b \in Entries(block_tables[s])})]

\* block_manager.free(seq) for every sequence of U.
Frees(U) == [b \in Blocks |-> Uses(U, b)]

WithoutTables(U) == [s \in Seqs |-> IF s \in U THEN <<>> ELSE block_tables[s]]
WithStatus(U, st) == [s \in Seqs |-> IF s \in U THEN st ELSE status[s]]

\* One way to hand out |S| distinct blocks of F: the free list is popped once
\* for every element of S.
Fresh(S, F) == CHOOSE m \in Injection(S, F) : TRUE
CanFresh(S, F) == Cardinality(S) <= Cardinality(F)

-----------------------------------------------------------------------------
Init ==
    /\ free_blocks = Blocks
    /\ ref_count = [b \in Blocks |-> 0]
    /\ block_tables = [s \in Seqs |-> <<>>]
    /\ status = [s \in Seqs |-> "none"]
    /\ length = [s \in Seqs |-> 0]
    /\ sampled = [g \in Groups |-> FALSE]
    /\ todo = {}
    /\ error = "none"

\* add_request: a group starts with the one sequence of its prompt.
Submit(g, n) ==
    /\ Idle
    /\ SeqsOf(g) = {}
    /\ status' = [status EXCEPT ![<<g, 1>>] = "WAITING"]
    /\ length' = [length EXCEPT ![<<g, 1>>] = n]
    /\ sampled' = [sampled EXCEPT ![g] = FALSE]
    /\ UNCHANGED <<free_blocks, ref_count, block_tables, todo, error>>

\* min(num_prompt_blocks, block_sliding_window)
RequiredBlocks(g) ==
    LET n == LogicalBlocks(length[CHOOSE s \in SeqsWith(g, "WAITING") : TRUE])
    IN  IF SlidingWindow # 0 /\ SlidingWindow < n THEN SlidingWindow ELSE n

AllocStatus(total, free, required, never) ==
    IF never THEN "NEVER"
    ELSE IF free - required >= Watermark THEN "OK" ELSE "LATER"

CanAllocate(g) ==
    AllocStatus(Cardinality(GpuBlocks), Cardinality(FreeGpu), RequiredBlocks(g),
                Cardinality(GpuBlocks) - RequiredBlocks(g) < Watermark)

\* The prompt's table: a fresh block for each logical block, blocks of the
\* first window again beyond it.  ref_count is set to seq_group.num_seqs(),
\* which counts the finished sequences of the group too.
Allocate(g) ==
    /\ Idle
    /\ SeqsWith(g, "WAITING") # {}
    /\ CanAllocate(g) = "OK"
    /\ LET waiting == SeqsWith(g, "WAITING")
           n == LogicalBlocks(length[CHOOSE s \in waiting : TRUE])
           k == RequiredBlocks(g)
           new == Fresh(1 .. k, FreeGpu)
           table == [i \in 1 .. n |-> IF i <= k THEN new[i] ELSE new[((i - 1) % k) + 1]]
       IN /\ free_blocks' = free_blocks \ Entries(new)
          /\ ref_count' = [b \in Blocks |->
                 IF b \in Entries(new) THEN NumSeqs(g) ELSE ref_count[b]]
          /\ block_tables' = [s \in Seqs |->
                 IF s \in waiting THEN table ELSE block_tables[s]]
          /\ status' = WithStatus(waiting, "RUNNING")
    /\ UNCHANGED <<length, sampled, todo, error>>

\* A prompt that can never be allocated is dropped (FINISHED_IGNORED).
IgnorePrompt(g) ==
    /\ Idle
    /\ SeqsWith(g, "WAITING") # {}
    /\ CanAllocate(g) = "NEVER"
    /\ status' = WithStatus(SeqsWith(g, "WAITING"), "FINISHED")
    /\ UNCHANGED <<free_blocks, ref_count, block_tables, length, sampled, todo, error>>

\* One output of the model: every running sequence gets a token; the first
\* output forks the prompt's sequence into BestOf sequences.
Sample(g) ==
    LET running == SeqsWith(g, "RUNNING")
        p == CHOOSE s \in running : TRUE
        children == IF NumSeqs(g) < BestOf
                      THEN {s \in Seqs : s[1] = g /\ status[s] = "none"} ELSE {}
    IN
    /\ Idle /\ running # {} /\ ~sampled[g]
    /\ \A s \in running : length[s] < MaxLen
    /\ status' = WithStatus(children, "RUNNING")
    /\ length' = [s \in Seqs |->
           IF s \in running THEN length[s] + 1
           ELSE IF s \in children THEN length[p] + 1 ELSE length[s]]
    /\ block_tables' = [s \in Seqs |->
           IF s \in children THEN block_tables[p] ELSE block_tables[s]]
    /\ ref_count' = [b \in Blocks |->
           IF b \in Entries(block_tables[p])
             THEN ref_count[b] + Cardinality(children) ELSE ref_count[b]]
    /\ sampled' = [sampled EXCEPT ![g] = TRUE]
    /\ UNCHANGED <<free_blocks, todo, error>>

\* Beam search: candidate p survives twice, candidate d is dropped.  The fork
\* comes first, then d is freed; the new sequence takes d's place.
BeamReplace(p, d) ==
    /\ Idle
    /\ p[1] \in BeamGroups /\ p # d /\ p[1] = d[1] /\ sampled[p[1]]
    /\ status[p] = "RUNNING" /\ status[d] = "RUNNING"
    /\ LET forked == [b \in Blocks |-> IF b \in Entries(block_tables[p])
                                         THEN ref_count[b] + 1 ELSE ref_count[b]]
           freed == Live(block_tables[d])
       IN IF \E b \in freed : forked[b] = 0 THEN Fail("DoubleFree")
          ELSE /\ ref_count' = [b \in Blocks |->
                      IF b \in freed THEN forked[b] - 1 ELSE forked[b]]
               /\ free_blocks' = free_blocks \cup {b \in freed : forked[b] = 1}
               /\ block_tables' = [block_tables EXCEPT ![d] = block_tables[p]]
               /\ length' = [length EXCEPT ![d] = length[p]]
               /\ UNCHANGED <<status, sampled, todo, error>>

\* A sequence finishes while outputs are processed: free(seq).
Finish(s) ==
    /\ Idle
    /\ status[s] = "RUNNING" /\ sampled[s[1]]
    /\ IF DoubleFrees(Frees({s})) THEN Fail("DoubleFree")
       ELSE /\ DropRefs(Frees({s}))
            /\ block_tables' = WithoutTables({s})
            /\ status' = WithStatus({s}, "FINISHED")
            /\ UNCHANGED <<length, sampled, todo, error>>

\* abort_seq_group: every unfinished sequence is freed.
Abort(g) ==
    LET U == UnfinishedSeqs(g) IN
    /\ Idle /\ U # {}
    /\ IF DoubleFrees(Frees(U)) THEN Fail("DoubleFree")
       ELSE /\ DropRefs(Frees(U))
            /\ block_tables' = WithoutTables(U)
            /\ status' = WithStatus(U, "FINISHED")
            /\ UNCHANGED <<length, sampled, todo, error>>

\* A finished group leaves the scheduler and its sequences are forgotten.  Ids
\* are never used again in the code, so the model reuses a name only when no
\* table is left under it.
Retire(g) ==
    /\ Idle
    /\ SeqsOf(g) # {} /\ UnfinishedSeqs(g) = {}
    /\ \A s \in SeqsOf(g) : block_tables[s] = <<>>
    /\ status' = WithStatus(SeqsOf(g), "none")
    /\ length' = [s \in Seqs |-> IF s[1] = g THEN 0 ELSE length[s]]
    /\ UNCHANGED <<free_blocks, ref_count, block_tables, sampled, todo, error>>

-----------------------------------------------------------------------------
\* Decoding: _append_slots, one iteration of its loop per step.

\* Mutant: one free block is taken to be enough for the whole group.
MutCanAppendSlots(g) == FreeGpu # {}

CanAppendSlots(g) == Cardinality(SeqsWith(g, "RUNNING")) <= Cardinality(FreeGpu)

BeginAppendSlots(g) ==
    /\ Idle
    /\ SeqsWith(g, "RUNNING") # {} /\ sampled[g]
    /\ CanAppendSlots(g)
    /\ todo' = SeqsWith(g, "RUNNING")
    /\ sampled' = [sampled EXCEPT ![g] = FALSE]
    /\ UNCHANGED <<free_blocks, ref_count, block_tables, status, length, error>>

\* Copy-on-write: the last block of table is shared, s moves to a fresh one.
CopyOnWrite(s, table) ==
    LET last == table[Len(table)] IN
    IF FreeGpu = {} THEN Fail("OutOfMemory")
    ELSE IF ref_count[last] = 0 THEN Fail("DoubleFree")
    ELSE LET b == Fresh({1}, FreeGpu)[1]
         IN /\ block_tables' = [block_tables EXCEPT ![s] = [table EXCEPT ![Len(table)] = b]]
            /\ ref_count' = [ref_count EXCEPT ![b] = 1, ![last] = @ - 1]
            /\ free_blocks' = (free_blocks \ {b})
                                \cup (IF ref_count[last] = 1 THEN {last} ELSE {})
            /\ todo' = todo \ {s}
            /\ UNCHANGED <<status, length, sampled, error>>

\* Mutant: off by one, two sequences write to the same block.
MutIsShared(b) == ref_count[b] > 2

IsShared(b) == ref_count[b] # 1

\* The token goes to the last block of table: in place if nobody shares it.
WriteToLast(s, table) ==
    LET last == table[Len(table)] IN
    IF last \notin GpuBlocks THEN Fail("Assert")
    ELSE IF IsShared(last) THEN CopyOnWrite(s, table)
    ELSE /\ block_tables' = [block_tables EXCEPT ![s] = table]
         /\ todo' = todo \ {s}
         /\ UNCHANGED <<free_blocks, ref_count, status, length, sampled, error>>

NewBlock(s, table) ==
    IF FreeGpu = {} THEN Fail("OutOfMemory")
    ELSE LET b == Fresh({1}, FreeGpu)[1]
         IN /\ block_tables' = [block_tables EXCEPT ![s] = Append(table, b)]
            /\ ref_count' = [ref_count EXCEPT ![b] = 1]
            /\ free_blocks' = free_blocks \ {b}
            /\ todo' = todo \ {s}
            /\ UNCHANGED <<status, length, sampled, error>>

\* append_slots: a table that already covers the logical blocks takes the token
\* in its last block; otherwise it grows by one block, which must be enough.
AppendSlot(s) ==
    LET table == block_tables[s]
        n == LogicalBlocks(length[s])
    IN
    /\ error = "none" /\ s \in todo
    /\ IF table = <<>> THEN Fail("KeyError")
       ELSE IF Len(table) >= n THEN WriteToLast(s, table)
       ELSE IF Len(table) # n - 1 THEN Fail("Assert")
       ELSE IF SlidingWindow # 0 /\ Len(table) >= SlidingWindow
         THEN WriteToLast(s, Append(table, table[(Len(table) % SlidingWindow) + 1]))
       ELSE NewBlock(s, table)

-----------------------------------------------------------------------------
\* Preemption.

\* Occurrences of a block in the tables of U: swap_out and swap_in free a
\* block once for every entry that refers to it.
Occurrences(U, b) ==
    Cardinality(UNION {{s} \X {i \in DOMAIN block_tables[s] : block_tables[s][i] = b} :
                         s \in U})

\* Mutant: the last entry of a table is lost.
MutMoved(table, m) == [i \in 1 .. Len(table) - 1 |-> m[table[i]]]

Moved(table, m) == [i \in DOMAIN table |-> m[table[i]]]

\* The count of the new block that replaces o: one for every entry.
MovedRefs(U, o) == Occurrences(U, o)

\* Move the tables of U to the blocks m chooses on the other device.
MoveTables(U, m, to) ==
    /\ block_tables' = [s \in Seqs |->
           IF s \in U THEN Moved(block_tables[s], m) ELSE block_tables[s]]
    /\ ref_count' = [b \in Blocks |->
           IF b \in Entries(m) THEN MovedRefs(U, CHOOSE o \in DOMAIN m : m[o] = b)
           ELSE ref_count[b] - Occurrences(U, b)]
    /\ free_blocks' = (free_blocks \ Entries(m))
          \cup {b \in DOMAIN m : ref_count[b] = Occurrences(U, b)}
    /\ status' = WithStatus(U, to)

\* The same block is freed again although its count is already zero.
DoubleFreesMoving(U) == \E b \in Blocks : Occurrences(U, b) > ref_count[b]

PreemptByRecompute(g) ==
    LET U == SeqsWith(g, "RUNNING") IN
    /\ Idle /\ U # {} /\ sampled[g]
    /\ GetMaxNumRunningSeqs(g) = 1
    /\ IF Cardinality(U) # 1 THEN Fail("Assert")
       ELSE IF DoubleFrees(Frees(U)) THEN Fail("DoubleFree")
       ELSE /\ DropRefs(Frees(U))
            /\ block_tables' = WithoutTables(U)
            /\ status' = WithStatus(U, "WAITING")
            /\ sampled' = [sampled EXCEPT ![g] = FALSE]
            /\ UNCHANGED <<length, todo, error>>

CanSwapOut(g) == CanFresh(PhysicalBlocks(g), FreeCpu)

PreemptBySwap(g) ==
    LET U == SeqsWith(g, "RUNNING") IN
    /\ Idle /\ U # {} /\ sampled[g]
    /\ GetMaxNumRunningSeqs(g) # 1
    /\ IF ~CanSwapOut(g) THEN Fail("NoSwapSpace")
       ELSE IF DoubleFreesMoving(U) THEN Fail("DoubleFree")
       ELSE /\ MoveTables(U, Fresh(PhysicalBlocks(g), FreeCpu), "SWAPPED")
            /\ UNCHANGED <<length, sampled, todo, error>>

\* One free block more for every sequence, for the slot appended right after.
CanSwapIn(g) ==
    LET required == Cardinality(PhysicalBlocks(g))
                      + Cardinality(SeqsWith(g, "SWAPPED"))
    IN  AllocStatus(Cardinality(GpuBlocks), Cardinality(FreeGpu), required,
                    Cardinality(GpuBlocks) < required)

\* _schedule_swapped: swap in, then _append_slots.
SwapIn(g) ==
    LET U == SeqsWith(g, "SWAPPED") IN
    /\ Idle /\ U # {}
    /\ CanSwapIn(g) = "OK"
    /\ IF DoubleFreesMoving(U) THEN Fail("DoubleFree")
       ELSE /\ MoveTables(U, Fresh(PhysicalBlocks(g), FreeGpu), "RUNNING")
            /\ todo' = U
            /\ sampled' = [sampled EXCEPT ![g] = FALSE]
            /\ UNCHANGED <<length, error>>

\* A group that can never come back is marked FINISHED_IGNORED; its CPU blocks
\* are not freed.
IgnoreSwapped(g) ==
    /\ Idle
    /\ SeqsWith(g, "SWAPPED") # {}
    /\ CanSwapIn(g) = "NEVER"
    /\ status' = WithStatus(SeqsOf(g), "FINISHED")
    /\ UNCHANGED <<free_blocks, ref_count, block_tables, length, sampled, todo, error>>

-----------------------------------------------------------------------------
Next ==
    \/ \E g \in Groups :
          \/ \E n \in PromptLens : Submit(g, n)
          \/ Allocate(g) \/ IgnorePrompt(g)
          \/ Sample(g) \/ Abort(g) \/ Retire(g)
          \/ BeginAppendSlots(g)
          \/ PreemptByRecompute(g) \/ PreemptBySwap(g)
          \/ SwapIn(g) \/ IgnoreSwapped(g)
    \/ \E s \in Seqs : Finish(s) \/ AppendSlot(s)
    \/ \E p, d \in Seqs : BeamReplace(p, d)

Spec == Init /\ [][Next]_vars

-----------------------------------------------------------------------------
TypeOK ==
    /\ free_blocks \subseteq Blocks
    /\ ref_count \in [Blocks -> Nat]
    /\ block_tables \in [Seqs -> Seq(Blocks)]
    /\ status \in [Seqs -> Statuses]
    /\ length \in [Seqs -> 0 .. MaxLen]
    /\ sampled \in [Groups -> BOOLEAN]
    /\ todo \subseteq Seqs
    /\ error \in Errors

\* The free list holds exactly the blocks nobody references.
FreeIffUnreferenced == \A b \in Blocks : b \in free_blocks <=> ref_count[b] = 0

\* No table refers to a block more often than the block's count says, so that
\* freeing all tables but one never frees a block the last one still uses.
RefCountCoversTables == \A b \in Blocks : Uses(Seqs, b) <= ref_count[b]

\* Without a sliding window a table never lists a block twice.
TablesInjective == \A s \in Seqs : IsInjective(block_tables[s])

\* All unfinished sequences of a group wait, run or are swapped together.
UniformStatus ==
    \A r, s \in Seqs :
        r[1] = s[1] /\ {status[r], status[s]} \subseteq {"WAITING", "RUNNING", "SWAPPED"}
          => status[r] = status[s]

\* What every step preserves; the reason NoUseAfterFree holds.
IndInv ==
    /\ TypeOK
    /\ FreeIffUnreferenced
    /\ RefCountCoversTables
    /\ TablesInjective
    /\ UniformStatus

\* A block a sequence writes or reads is never handed out to another one.
NoUseAfterFree ==
    \A s \in Seqs : Live(block_tables[s]) \cap free_blocks = {}

\* Once its slot is appended, the last block of a running sequence, the one
\* the model runner writes, is in no other table.
WriteIsExclusive ==
    \A s \in Seqs :
        status[s] = "RUNNING" /\ ~sampled[s[1]] /\ s \notin todo =>
            LET t == block_tables[s] IN
            /\ Len(t) = LogicalBlocks(length[s])
            /\ \A r \in Seqs \ {s} : t[Len(t)] \notin Live(block_tables[r])

\* The admission checks are strong enough: once can_allocate, can_append_slots
\* and can_swap_in have agreed, no allocation finds the free list empty and no
\* block is freed twice.
NoAllocatorError == error \in {"none", "NoSwapSpace"}

\* What an appended slot may rely on: it is there, and it is nobody else's.
SlotsInv == WriteIsExclusive /\ NoAllocatorError

\* Swapping moves blocks and keeps which positions of which tables share one.
SwapKeepsSharing ==
    [][\A r, s \in Seqs :
          status[r] # status'[r] /\ status[s] # status'[s]
          /\ {status'[r], status'[s], status[r], status[s]} = {"RUNNING", "SWAPPED"}
          /\ r[1] = s[1]
          => \A i \in DOMAIN block_tables[r], j \in DOMAIN block_tables[s] :
                /\ i \in DOMAIN block_tables'[r] /\ j \in DOMAIN block_tables'[s]
                /\ block_tables[r][i] = block_tables[s][j]
                     <=> block_tables'[r][i] = block_tables'[s][j]]_vars
=============================================================================
