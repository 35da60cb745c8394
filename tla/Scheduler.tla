----------------------------- MODULE Scheduler -----------------------------
(***************************************************************************)
(* The scheduler (core/scheduler.py) and what a step of the engine does to *)
(* its groups (single_step.py, stop_checker.py, sequence.py): the queues,  *)
(* the three scheduling loops in the order of both policies, the budget,   *)
(* preemption, and the end of sequences, which this fork of vLLM defers by *)
(* one step.  schedule() is synchronous; each iteration of its loops is    *)
(* one action, and requests come and go only between two steps.  Blocks    *)
(* are counted with a block size of one token.  The running and swapped    *)
(* queues are sorted by arrival on each use, so they are sets here; a      *)
(* group is the number of its arrival.                                     *)
(***************************************************************************)
EXTENDS Lists, SequencesExt, FiniteSetsExt

CONSTANTS
    NumGroups,          \* requests that may arrive
    Configs             \* engines: a policy, its limits, and what it is asked

VARIABLES
    config,     \* the engine of the behaviour, one of Configs
    group,      \* [Groups -> SequenceGroup], see New
    arrived,    \* groups 1 .. arrived have been added
    waiting,    \* Scheduler.waiting
    running,    \* Scheduler.running
    swapped,    \* Scheduler.swapped
    phase,      \* where the step is; "idle": between two steps
    todo,       \* what the loop over running or swapped has not looked at
    plan,       \* what the step has decided and counted so far, see NewPlan
    lost,       \* blocks no table points to any more, per device
    reported,   \* groups for which a final RequestOutput was made
    error       \* the exception that ended the engine, or "none"

queues == <<waiting, running, swapped>>
vars == <<config, group, arrived, queues, phase, todo, plan, lost, reported, error>>

PromptLens == config.prompt_lens        \* lengths of the prompts
BestOfs == config.best_ofs              \* best_of of the sampling parameters
MaxTokens == config.max_tokens          \* max_tokens of them
MaxModelLen == config.max_model_len
MaxBatchedTokens == config.max_num_batched_tokens
MaxNumSeqs == config.max_num_seqs
GpuBlocks == config.gpu_blocks
CpuBlocks == config.cpu_blocks
Watermark == config.watermark
Chunked == config.chunked               \* chunked_prefill_enabled

\* What SchedulerConfig and the worker's check of the cache size enforce.
ASSUME SchedulerAssumption ==
    /\ NumGroups \in Nat
    /\ \A c \in Configs :
        /\ c.prompt_lens \subseteq Nat \ {0}
        /\ c.best_ofs \subseteq Nat \ {0}
        /\ {c.max_tokens, c.max_model_len, c.max_num_seqs} \subseteq Nat \ {0}
        /\ {c.gpu_blocks, c.cpu_blocks, c.watermark} \subseteq Nat
        /\ c.chunked \in BOOLEAN
        /\ c.max_num_batched_tokens \in Nat
        /\ c.max_num_batched_tokens >= c.max_num_seqs
        /\ c.chunked \/ c.max_num_batched_tokens >= c.max_model_len
        /\ c.max_model_len <= c.gpu_blocks

Groups == 1 .. NumGroups

Phases == {"idle", "prefill", "running", "swapped", "commit", "exec"}
Errors == {"none", "no swap space", "budget", "prefill of several sequences"}

-----------------------------------------------------------------------------
\* Sequence groups.  Sequence 1 is the one of the prompt, the others are
\* forked from it when the first token is sampled.  All live sequences of a
\* group have the same length.

New(len, n) ==
    [status   |-> "waiting",    \* of the live sequences
     best_of  |-> n,
     seqs     |-> 1,            \* num_seqs()
     live     |-> {1},          \* sequences that have not finished
     flagged  |-> {},           \* live ones with a real_stop_status
     len      |-> len,          \* get_len() of a live sequence
     out      |-> 0,            \* get_output_len() of it
     computed |-> 0,            \* _num_computed_tokens of it
     decode   |-> FALSE,        \* its _stage is DECODE
     slots    |-> 0,            \* blocks in the table of a live sequence
     prefix   |-> 0,            \* the first of them, shared by all
     refs     |-> 0]            \* ref_count of the shared ones

\* Not there yet, or ended: nothing of it is looked at any more.
Ended == [New(1, 1) EXCEPT !.status = "finished", !.live = {}]

LiveSeqs(g) == Cardinality(group[g].live)

\* Every sequence should be in the same stage: the first one decides.
IsPrefill(g) == 1 \in group[g].live /\ ~group[g].decode

MaxNumRunningSeqs(g) ==
    IF group[g].best_of > group[g].seqs THEN group[g].best_of ELSE LiveSeqs(g)

\* Blocks of a group that is on one of the devices
BlocksOf(r) == r.prefix + Cardinality(r.live) * (r.slots - r.prefix)
Blocks(g) == BlocksOf(group[g])
Total(f) == SumUpTo(f, NumGroups)
BlocksIn(status) == [g \in Groups |-> IF group[g].status = status THEN Blocks(g) ELSE 0]
Held(status) == Total(BlocksIn(status))
FreeGpu == GpuBlocks - lost.gpu - Held("running")
FreeCpu == CpuBlocks - lost.cpu - Held("swapped")

\* The sequences flagged by the step before end, and their tables are freed.
Finalised(r) ==
    [r EXCEPT !.live = @ \ r.flagged, !.flagged = {},
              !.refs = @ - Cardinality(r.flagged)]

\* What freeing all tables of a group leaves behind: its shared blocks, when
\* allocate counted sequences that had finished before.
Leak(r) == IF r.refs > Cardinality(r.live) THEN r.prefix ELSE 0

-----------------------------------------------------------------------------
\* The budget, the tokens and sequences counted per request.

NewPlan ==
    [prefills    |-> {},    \* groups scheduled from waiting
     scheduled   |-> {},    \* groups scheduled, all of them
     chunk       |-> [g \in Groups |-> 0],      \* token_chunk_size
     tokens      |-> [g \in Groups |-> 0],      \* num_batched_tokens
     seqs        |-> [g \in Groups |-> 0],      \* num_curr_seqs
     preempted   |-> <<>>,
     swapped_out |-> {},
     ignored     |-> {},
     infeasible  |-> {}]

RemainingTokens == MaxBatchedTokens - Total(plan.tokens)

\* The plan with group g scheduled, and counted.
Scheduled(g, chunk, tokens, seqs) ==
    [plan EXCEPT !.scheduled = @ \cup {g}, !.chunk = [@ EXCEPT ![g] = chunk],
                 !.tokens = [@ EXCEPT ![g] = tokens], !.seqs = [@ EXCEPT ![g] = seqs]]

\* The budget is not looked at.
MutCanSchedule(new, seqs) == new > 0
\* can_schedule, and the test for 0 before it
CanSchedule(new, seqs) ==
    /\ new > 0
    /\ Total(plan.tokens) + new <= MaxBatchedTokens
    /\ Total(plan.seqs) + seqs <= MaxNumSeqs

\* _get_num_new_tokens
NumNewTokens(g, chunking) ==
    LET each == IF group[g].decode THEN 1 ELSE group[g].len - group[g].computed
    IN IF chunking /\ LiveSeqs(g) = 1 THEN Min({each, RemainingTokens})
       ELSE LiveSeqs(g) * each

PromptLimit ==
    IF Chunked THEN MaxModelLen ELSE Min({MaxModelLen, MaxBatchedTokens})

Preempts == plan.preempted # <<>> \/ plan.swapped_out # {}

\* Where the step goes on after the loop it is in.
AfterRunning ==
    IF ~Preempts THEN "swapped" ELSE IF Chunked THEN "prefill" ELSE "commit"
MutAfterSwapped == "commit"
AfterSwapped == IF Chunked THEN "prefill" ELSE "commit"
AfterPrefill == IF ~Chunked /\ plan.prefills = {} THEN "running" ELSE "commit"

At(where) == phase = where /\ error = "none"

GoOn(next) ==
    /\ phase' = next
    /\ todo' = CASE next = "running" -> running [] next = "swapped" -> swapped
                 [] OTHER -> {}
    /\ UNCHANGED <<group, arrived, queues, plan, lost, reported, error>>

Fail(what) ==
    /\ error' = what
    /\ UNCHANGED <<group, arrived, queues, phase, todo, plan, lost, reported>>

-----------------------------------------------------------------------------
\* Between two steps.

AddSeqGroup(len, n) ==
    /\ At("idle") /\ arrived < NumGroups
    /\ arrived' = arrived + 1
    /\ group' = [group EXCEPT ![arrived + 1] = New(len, n)]
    /\ waiting' = Append(waiting, arrived + 1)
    /\ UNCHANGED <<running, swapped, phase, todo, plan, lost, reported, error>>

\* abort_seq_group, for one id
AbortSeqGroup(g) ==
    /\ At("idle")
    /\ group[g].live # {}
    /\ waiting' = Select(waiting, Groups \ {g})
    /\ running' = running \ {g}
    /\ swapped' = swapped \ {g}
    /\ group' = [group EXCEPT ![g] = Ended]
    /\ lost' = IF g \in running THEN [lost EXCEPT !.gpu = @ + Leak(group[g])]
               ELSE lost
    /\ UNCHANGED <<arrived, phase, todo, plan, reported, error>>

\* step() while has_unfinished_requests(): the groups in running are counted
\* before the first prefill (_schedule_default), or when they are scheduled.
CountRunning ==
    [g \in Groups |-> IF ~Chunked /\ g \in running THEN MaxNumRunningSeqs(g) ELSE 0]

Schedule ==
    /\ At("idle")
    /\ waiting # <<>> \/ running # {} \/ swapped # {}
    /\ plan' = [NewPlan EXCEPT !.seqs = CountRunning]
    /\ IF ~Chunked /\ swapped = {}
       THEN phase' = "prefill" /\ todo' = {}
       ELSE phase' = "running" /\ todo' = running
    /\ UNCHANGED <<group, arrived, queues, lost, reported, error>>

-----------------------------------------------------------------------------
\* _schedule_prefills

\* can_allocate answers OK
CanAllocate(g) == FreeGpu - group[g].len >= Watermark

\* can_allocate answers NEVER, and without the watermark
MutNeverFits(g) == GpuBlocks < group[g].len
NeverFits(g) == GpuBlocks - group[g].len < Watermark

\* The rest of the waiting queue has to wait for another step.
PrefillStops ==
    waiting # <<>> =>
        LET g == Head(waiting)
            new == NumNewTokens(g, Chunked)
        IN /\ new <= PromptLimit /\ ~NeverFits(g)
           /\ ~(CanAllocate(g) /\ CanSchedule(new, MaxNumRunningSeqs(g)))

\* Too long for the model, or for the cache: FINISHED_IGNORED
IgnorePrompt ==
    LET g == Head(waiting) IN
    /\ At("prefill") /\ waiting # <<>>
    /\ NumNewTokens(g, Chunked) > PromptLimit \/ NeverFits(g)
    /\ waiting' = Tail(waiting)
    /\ group' = [group EXCEPT ![g] = Ended]
    /\ plan' = [plan EXCEPT !.ignored = @ \cup {g}]
    /\ UNCHANGED <<arrived, running, swapped, phase, todo, lost, reported, error>>

\* _allocate_and_set_running
Allocated(r) ==
    [r EXCEPT !.status = "running", !.slots = r.len, !.prefix = r.len, !.refs = r.seqs]

Prefill ==
    LET g == Head(waiting)
        new == NumNewTokens(g, Chunked)
    IN
    /\ At("prefill") /\ waiting # <<>>
    /\ new <= PromptLimit /\ ~NeverFits(g)
    /\ CanAllocate(g) /\ CanSchedule(new, MaxNumRunningSeqs(g))
    /\ waiting' = Tail(waiting)
    /\ group' = [group EXCEPT ![g] = Allocated(@)]
    /\ plan' = [Scheduled(g, new, new, MaxNumRunningSeqs(g)) EXCEPT !.prefills = @ \cup {g}]
    /\ UNCHANGED <<arrived, running, swapped, phase, todo, lost, reported, error>>

PrefillDone == At("prefill") /\ PrefillStops /\ GoOn(AfterPrefill)

-----------------------------------------------------------------------------
\* _schedule_running, in the order of arrival

CanAppendSlots(g) == LiveSeqs(g) <= FreeGpu

Victim == Max(todo)

\* A latecomer is put back behind those that never ran.
MutRequeue(preempted, v) == <<v>> \o preempted
Requeue(preempted, v) == Append(preempted, v)

\* _preempt_by_recompute
Recomputed(r) ==
    [r EXCEPT !.status = "waiting", !.computed = 0, !.decode = FALSE,
              !.slots = 0, !.prefix = 0, !.refs = 0]

RunningStops == todo # {} => NumNewTokens(Min(todo), Chunked) = 0

\* No slot for every sequence of g: another group makes room, or g itself.
\* The budget gives back what it counted for g.
Preempt ==
    LET g == Min(todo)
        v == Victim
        counted == [plan EXCEPT !.tokens = [@ EXCEPT ![g] = 0], !.seqs = [@ EXCEPT ![g] = 0]]
    IN
    /\ At("running") /\ ~RunningStops
    /\ ~CanAppendSlots(g)
    /\ IF MaxNumRunningSeqs(v) = 1 THEN
          /\ todo' = todo \ {v}
          /\ group' = [group EXCEPT ![v] = Recomputed(@)]
          /\ lost' = [lost EXCEPT !.gpu = @ + Leak(group[v])]
          /\ plan' = [counted EXCEPT !.preempted = Requeue(@, v)]
          /\ UNCHANGED error
       ELSE IF Blocks(v) <= FreeCpu THEN            \* can_swap_out
          /\ todo' = todo \ {v}
          /\ group' = [group EXCEPT ![v] = [@ EXCEPT !.status = "swapped"]]
          /\ plan' = [counted EXCEPT !.swapped_out = @ \cup {v}]
          /\ UNCHANGED <<lost, error>>
       ELSE                                         \* RuntimeError
          /\ error' = "no swap space"
          /\ UNCHANGED <<todo, group, lost, plan>>
    /\ UNCHANGED <<arrived, queues, phase, reported>>

\* _append_slots, and the budget of the running loop
Appended(r) == [r EXCEPT !.status = "running", !.slots = r.len]

AppendSlots ==
    LET g == Min(todo)
        new == NumNewTokens(g, Chunked)
    IN
    /\ At("running") /\ ~RunningStops
    /\ CanAppendSlots(g)
    /\ todo' = todo \ {g}
    /\ group' = [group EXCEPT ![g] = Appended(@)]
    /\ plan' = Scheduled(g, IF IsPrefill(g) THEN new ELSE 1, new,
                         IF Chunked THEN MaxNumRunningSeqs(g) ELSE plan.seqs[g])
    /\ UNCHANGED <<arrived, queues, phase, lost, reported, error>>

RunningDone == At("running") /\ RunningStops /\ GoOn(AfterRunning)

-----------------------------------------------------------------------------
\* _schedule_swapped, in the order of arrival; neither policy lets it chunk

\* What can_swap_in wants: the blocks of the group and one more per sequence
Required(g) == Blocks(g) + LiveSeqs(g)

\* can_swap_in answers OK
CanSwapIn(g) == FreeGpu - Required(g) >= Watermark

SwappedStops ==
    todo # {} =>
        LET g == Min(todo) IN
        /\ Required(g) <= GpuBlocks
        /\ ~(CanSwapIn(g) /\ CanSchedule(NumNewTokens(g, FALSE), MaxNumRunningSeqs(g)))

\* It can never be swapped in: FINISHED_IGNORED, and its tables stay behind
FailSwapped ==
    LET g == Min(todo) IN
    /\ At("swapped") /\ todo # {}
    /\ Required(g) > GpuBlocks
    /\ todo' = todo \ {g}
    /\ swapped' = swapped \ {g}
    /\ lost' = [lost EXCEPT !.cpu = @ + Blocks(g)]
    /\ group' = [group EXCEPT ![g] = Ended]
    /\ plan' = [plan EXCEPT !.infeasible = @ \cup {g}]
    /\ UNCHANGED <<arrived, waiting, running, phase, reported, error>>

\* _swap_in and _append_slots
SwapIn ==
    LET g == Min(todo)
        new == NumNewTokens(g, FALSE)
    IN
    /\ At("swapped") /\ todo # {}
    /\ Required(g) <= GpuBlocks
    /\ CanSwapIn(g) /\ CanSchedule(new, MaxNumRunningSeqs(g))
    /\ todo' = todo \ {g}
    /\ swapped' = swapped \ {g}
    /\ group' = [group EXCEPT ![g] = Appended(@)]
    /\ plan' = Scheduled(g, IF IsPrefill(g) THEN new ELSE 1, new, MaxNumRunningSeqs(g))
    /\ UNCHANGED <<arrived, waiting, running, phase, lost, reported, error>>

SwappedDone == At("swapped") /\ SwappedStops /\ GoOn(AfterSwapped)

-----------------------------------------------------------------------------
\* The end of _schedule_default and _schedule_chunked_prefill, and schedule().

OverBudget ==
    Total(plan.tokens) > MaxBatchedTokens \/ Total(plan.seqs) > MaxNumSeqs

\* waiting.extendleft(preempted), and a preempted group that is forgotten
MutExtendLeft(q, preempted) == q
ExtendLeft(q, preempted) == Reverse(preempted) \o q

\* Groups whose RequestOutput is made although they are not scheduled; the
\* chunked policy leaves the infeasible ones out.
MutIgnoredSeqGroups == plan.ignored
IgnoredSeqGroups ==
    IF Chunked THEN plan.ignored ELSE plan.ignored \cup plan.infeasible

Commit ==
    /\ At("commit")
    /\ IF OverBudget THEN Fail("budget")
       ELSE IF \E g \in plan.scheduled : IsPrefill(g) /\ group[g].seqs > 1
       THEN Fail("prefill of several sequences")        \* AssertionError
       ELSE
          /\ waiting' = ExtendLeft(waiting, plan.preempted)
          /\ running' = (running \cup plan.scheduled)
                        \ (ToSet(plan.preempted) \cup plan.swapped_out)
          /\ swapped' = swapped \cup plan.swapped_out
          /\ reported' = reported \cup IgnoredSeqGroups
          /\ IF plan.scheduled = {} THEN phase' = "idle" /\ plan' = NewPlan
             ELSE phase' = "exec" /\ UNCHANGED plan
          /\ UNCHANGED <<group, arrived, todo, lost, error>>

-----------------------------------------------------------------------------
\* The workers compute the scheduled tokens, and _process_model_outputs.

\* do_sample: not in the middle of a prompt
DoSample(g) == IsPrefill(g) => group[g].computed + plan.chunk[g] >= group[g].len

\* update_num_computed_tokens
Computed(r, chunk) ==
    [r EXCEPT !.computed = @ + chunk,
              !.decode = @ \/ r.computed + chunk = r.len]

\* One token for each sequence that was not flagged; a prompt gets best_of of
\* them and is forked.  Those in stop are flagged by the stop checker.
MustStop(r) == r.len > MaxModelLen \/ r.out = MaxTokens
Fork(r, prefill) ==
    IF prefill /\ r.best_of > r.seqs
    THEN [r EXCEPT !.seqs = r.best_of, !.live = 1 .. r.best_of,
                   !.refs = r.best_of]
    ELSE r
Sampled(r, prefill, stop) ==
    LET kept == Fork(Finalised(r), prefill)
        next == [kept EXCEPT !.len = @ + 1, !.out = @ + 1]
    IN IF kept.live = {} THEN Ended
       ELSE [next EXCEPT !.flagged = IF MustStop(next) THEN next.live
                                     ELSE next.live \cap stop]

\* Which sequences the stop checker may flag in a group
Stops(g) == SUBSET (1 .. group[g].best_of)

Execute ==
    /\ At("exec")
    /\ \E stop \in [plan.scheduled -> UNION {Stops(g) : g \in plan.scheduled}] :
          group' = [g \in Groups |->
              IF g \notin plan.scheduled THEN group[g]
              ELSE LET r == Computed(group[g], plan.chunk[g]) IN
                   IF DoSample(g) THEN Sampled(r, IsPrefill(g), stop[g]) ELSE r]
    /\ LET ended == {g \in plan.scheduled : group'[g].live = {}} IN
          /\ running' = running \ ended            \* free_finished_seq_groups
          /\ reported' = reported \cup ended
          /\ lost' = [lost EXCEPT !.gpu = @ + Total(
                        [g \in Groups |-> IF g \in ended THEN Leak(group[g]) ELSE 0])]
    /\ phase' = "idle" /\ plan' = NewPlan
    /\ UNCHANGED <<arrived, waiting, swapped, todo, error>>

-----------------------------------------------------------------------------
Init ==
    /\ config \in Configs
    /\ group = [g \in Groups |-> Ended]
    /\ arrived = 0
    /\ waiting = <<>> /\ running = {} /\ swapped = {}
    /\ phase = "idle" /\ todo = {} /\ plan = NewPlan
    /\ lost = [gpu |-> 0, cpu |-> 0]
    /\ reported = {}
    /\ error = "none"

Step ==
    \/ Schedule
    \/ IgnorePrompt \/ Prefill \/ PrefillDone
    \/ Preempt \/ AppendSlots \/ RunningDone
    \/ FailSwapped \/ SwapIn \/ SwappedDone
    \/ Commit \/ Execute

Next ==
    /\ \/ \E len \in PromptLens, n \in BestOfs : AddSeqGroup(len, n)
       \/ \E g \in Groups : AbortSeqGroup(g)
       \/ Step
    /\ UNCHANGED config

Spec == Init /\ [][Next]_vars

\* The engine is stepped as long as it has requests; nobody has to abort.
FairSpec == Spec /\ WF_vars(Step /\ UNCHANGED config)

-----------------------------------------------------------------------------
\* Every variable has its type.
GroupType ==
    [status : {"waiting", "running", "swapped", "finished"},
     best_of : BestOfs \cup {1}, seqs : BestOfs \cup {1},
     live : SUBSET Nat, flagged : SUBSET Nat,
     len : Nat, out : 0 .. MaxTokens, computed : Int,
     decode : BOOLEAN, slots : Nat, prefix : Nat, refs : Nat]

PlanType ==
    [prefills : SUBSET Groups, scheduled : SUBSET Groups,
     chunk : [Groups -> Int], tokens : [Groups -> Int], seqs : [Groups -> Nat],
     preempted : Seq(Groups), swapped_out : SUBSET Groups,
     ignored : SUBSET Groups, infeasible : SUBSET Groups]

TypeOK ==
    /\ config \in Configs
    /\ group \in [Groups -> GroupType]
    /\ arrived \in 0 .. NumGroups
    /\ waiting \in Seq(Groups)
    /\ running \subseteq Groups /\ swapped \subseteq Groups
    /\ phase \in Phases
    /\ todo \subseteq Groups
    /\ plan \in PlanType
    /\ lost \in [gpu : Nat, cpu : Nat]
    /\ reported \subseteq Groups
    /\ error \in Errors

Unfinished == {g \in Groups : group[g].live # {}}
Between == At("idle")
Single == BestOfs = {1}

\* Between two steps every unfinished group is in exactly one queue, the one
\* of the status of its sequences, and no other group is in any: a group that
\* fell out of the queues of a step would never be answered, one that is in
\* two would be run twice.
QueuesPartition ==
    Between =>
        /\ \A g \in Unfinished :
              /\ (group[g].status = "waiting") = Contains(waiting, g)
              /\ (group[g].status = "running") = (g \in running)
              /\ (group[g].status = "swapped") = (g \in swapped)
        /\ ToSet(waiting) \cup running \cup swapped = Unfinished
        /\ IsInjective(waiting)

\* No step takes more blocks than a device has, whatever it preempts, swaps,
\* allocates and appends one after the other: the allocator never runs dry.
MemoryRespected == FreeGpu >= 0 /\ FreeCpu >= 0

\* The sequences that run never outnumber max_num_seqs, also once prompts are
\* forked into best_of sequences and swapped groups are back.  (Not claimed of
\* several sequences under the chunked policy, whose budget may go below 0.)
LiveIn(S) == [g \in Groups |-> IF g \in S THEN LiveSeqs(g) ELSE 0]
SeqsWithinLimit ==
    Between /\ (~Chunked \/ Single) => Total(LiveIn(running)) <= MaxNumSeqs

\* "We don't sort waiting queue because we assume it is sorted."
WaitingSorted ==
    \A i, j \in DOMAIN waiting : i < j => waiting[i] < waiting[j]

\* First come, first served under the default policy and with one sequence per
\* request: between two steps no group waits that came before one that runs,
\* although victims return to the queue they came from.
NoOvertaking ==
    Between /\ Single /\ ~Chunked => \A w \in ToSet(waiting), r \in running : r < w

\* With one sequence per request no exception ends the engine: neither an
\* assertion of schedule() nor the lack of swap space.
NeverFails == Single => error = "none"

-----------------------------------------------------------------------------
\* What holds in the middle of a step, too, and makes the rest inductive.

\* A group has the sequences its status allows, and blocks for all their
\* tokens but the last: for that too, once the step has scheduled it.
GroupInv(r) ==
    /\ r.live \subseteq 1 .. r.best_of /\ r.flagged \subseteq r.live /\ r.len >= 1
    /\ r.status = "finished" <=> r.live = {}
    /\ r.seqs = r.best_of \/ (r.seqs = 1 /\ r.live = {1} /\ r.flagged = {} /\ ~r.decode)
    /\ r.out = MaxTokens => r.flagged = r.live
    /\ r.status = "waiting" => ~r.decode /\ r.computed = 0
    /\ r.status \in {"running", "swapped"} =>
          /\ r.prefix <= r.slots /\ r.slots <= r.len /\ r.len <= r.slots + 1
          /\ r.seqs # r.best_of => r.prefix = r.len
          /\ Cardinality(r.live) <= r.refs
GroupsInv == \A g \in Groups :
    GroupInv(group[g]) /\ (g \in plan.scheduled => group[g].slots = group[g].len)

\* The queues and the plan say where each group is.
Preempted == ToSet(plan.preempted)
OnGpu == (running \cup plan.scheduled) \ (Preempted \cup plan.swapped_out)
QueuesAgree ==
    /\ IsInjective(waiting) /\ IsInjective(plan.preempted)
    /\ \A g \in Groups :
          /\ group[g].status = "waiting" <=> g \in ToSet(waiting) \cup Preempted
          /\ group[g].status = "running" <=> g \in OnGpu
          /\ group[g].status = "swapped" <=> g \in swapped \cup plan.swapped_out
          /\ g > arrived => group[g].status = "finished"
    /\ plan.scheduled \cap (Preempted \cup plan.swapped_out) = {}
    /\ phase = "idle" => plan = NewPlan
    /\ phase = "exec" => /\ running = OnGpu
                         /\ Preempted \subseteq ToSet(waiting) /\ plan.swapped_out \subseteq swapped
    /\ phase \notin {"idle", "exec"} => ToSet(waiting) \cap Preempted = {}
    /\ phase = "running" => todo = OnGpu \ plan.scheduled
    /\ phase = "swapped" => todo \subseteq swapped /\ ~Preempts
    /\ phase = "prefill" /\ ~Chunked => plan.scheduled = plan.prefills /\ ~Preempts

\* Whoever is on the GPU is within the limit, counted with the sequences it
\* is forked into; a step that may still add groups has counted them all, or
\* has no token left to give.
Forked(S) == [g \in Groups |-> IF g \in S THEN MaxNumRunningSeqs(g) ELSE 0]
GpuInLimit == Total(Forked(OnGpu)) <= MaxNumSeqs
CountsInLimit == Total(plan.seqs) <= MaxNumSeqs
Adding == phase \in {"prefill", "swapped"} \/ (phase = "running" /\ ~Chunked)
AllCounted ==
    Adding /\ (Chunked \/ ~Preempts) =>
        \/ \A g \in OnGpu : MaxNumRunningSeqs(g) <= plan.seqs[g]
        \/ Chunked /\ RemainingTokens <= 0
OthersNotCounted == phase = "prefill" => \A g \in Groups \ OnGpu : plan.seqs[g] = 0
SeqsInv ==
    ~Chunked \/ Single => GpuInLimit /\ CountsInLimit /\ AllCounted /\ OthersNotCounted

\* With one sequence per request nothing is swapped or left behind, a prompt
\* lacks tokens until it is decoded, and the budget of tokens is kept.
NothingSwapped ==
    /\ swapped = {} /\ plan.swapped_out = {} /\ plan.infeasible = {}
    /\ lost = [gpu |-> 0, cpu |-> 0] /\ error = "none"
TokensInLimit == Total(plan.tokens) <= MaxBatchedTokens
LacksTokens(r) ==
    r.refs <= 1 /\ (r.status # "finished" /\ ~r.decode => r.computed \in 0 .. r.len - 1)
SinglePlan(g) ==
    /\ g \in plan.scheduled /\ ~group[g].decode =>
          IF Chunked THEN plan.chunk[g] \in 1 .. group[g].len - group[g].computed
          ELSE plan.chunk[g] = group[g].len - group[g].computed
    /\ plan.tokens[g] >= 0 /\ (g \notin plan.scheduled => plan.tokens[g] = 0)
    /\ ~Chunked /\ g \in OnGpu \ plan.scheduled => group[g].decode
    /\ phase = "running" /\ ~Chunked => plan.tokens[g] <= 1
    /\ Chunked => plan.seqs[g] = IF g \in plan.scheduled THEN 1 ELSE 0
SingleInv ==
    Single => /\ NothingSwapped /\ TokensInLimit
              /\ \A g \in Groups : LacksTokens(group[g]) /\ SinglePlan(g)

\* With one sequence per request the default policy keeps the queues in the
\* order of arrival: those on the GPU, then those preempted, the last of them
\* first, then those waiting.
OrderInv ==
    Single /\ ~Chunked =>
        /\ WaitingSorted
        /\ \A r \in OnGpu, w \in ToSet(waiting) : r < w
        /\ phase = "running" => \A r \in plan.scheduled, g \in todo : r < g
        /\ phase \notin {"idle", "exec"} =>
              /\ \A i, j \in DOMAIN plan.preempted : i < j => plan.preempted[j] < plan.preempted[i]
              /\ \A p \in Preempted : /\ \A r \in OnGpu : r < p
                                      /\ \A w \in ToSet(waiting) : p < w

\* What was ignored is in the outputs by the time the rest is computed.
ReportedInv ==
    phase = "exec" /\ (~Chunked \/ Single) => plan.ignored \cup plan.infeasible \subseteq reported

\* A step that has done nothing so far has something left to do.
NothingDone == plan.scheduled = {} /\ ~Preempts /\ plan.ignored = {} /\ plan.infeasible = {}
RoomInv ==
    Single /\ NothingDone /\ phase \notin {"idle", "exec"} =>
        /\ waiting # <<>> \/ running # {}
        /\ CASE phase = "prefill" -> Chunked => running = {}
             [] phase = "running" -> Chunked \/ running # {}
             [] phase = "swapped" -> Chunked /\ running = {}
             [] OTHER -> FALSE

\* What holds of the queues, the devices and the limits under both policies.
QueuesInv ==
    /\ TypeOK /\ QueuesPartition /\ MemoryRespected /\ SeqsWithinLimit /\ NeverFails
    /\ GroupsInv /\ QueuesAgree /\ SeqsInv /\ SingleInv /\ OrderInv /\ ReportedInv /\ RoomInv

\* "Every sequence should be in the same stage": a group that runs as a decode
\* has the keys and values of all tokens but the last.
SameStage ==
    At("exec") => \A g \in plan.scheduled : IsPrefill(g) \/ group[g].decode

\* Every group that ended, otherwise than by an abort, is in the outputs of
\* the step that ended it: somebody waits for it.  (Not so for several sequences
\* under the chunked policy.)
EndedIsReported ==
    [][~Chunked \/ Single => \A g \in Groups :
          At("exec") \/ At("commit") =>
              (Between' /\ (g \in plan.ignored \cup plan.infeasible
                            \/ (g \in plan.scheduled /\ g \notin Unfinished'))
                 => g \in reported')]_vars

\* A step that schedules nothing while there are requests has preempted or
\* ended one: the queues never block each other.
EmptyStepMadeRoom ==
    [][Single /\ At("commit") /\ plan.scheduled = {} =>
          Preempts \/ plan.ignored # {} \/ plan.infeasible # {}]_vars

\* Every request of one sequence ends, however often its group is preempted.
EveryGroupEnds ==
    \A g \in Groups : Single /\ g \in Unfinished ~> g \notin Unfinished
=============================================================================
