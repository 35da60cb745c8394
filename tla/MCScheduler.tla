---------------------------- MODULE MCScheduler ----------------------------
(* Instances of Scheduler for TLC. *)
EXTENDS Scheduler

Engine ==
    [prompt_lens |-> {1, 2}, best_ofs |-> {1}, max_tokens |-> 4, max_model_len |-> 5,
     max_num_batched_tokens |-> 5, max_num_seqs |-> 3,
     gpu_blocks |-> 6, cpu_blocks |-> 0, watermark |-> 0, chunked |-> FALSE]

\* One sequence per request, with a prompt longer than the model allows.
Fcfs == [Engine EXCEPT !.prompt_lens = {1, 2, 6}]
\* Requests of one and of two sequences, which are recomputed and swapped.
Swapping == [Fcfs EXCEPT !.best_ofs = {1, 2}, !.max_num_seqs = 4, !.cpu_blocks = 5, !.watermark = 1]
\* Prompts longer than the budget; a preempted group may never fit again.
ChunkedPrefill ==
    [Engine EXCEPT !.chunked = TRUE, !.prompt_lens = {1, 4}, !.max_num_batched_tokens = 3,
                   !.max_num_seqs = 2, !.gpu_blocks = 8, !.watermark = 3]
ConfigsServe == {Fcfs, Swapping, ChunkedPrefill}

-----------------------------------------------------------------------------
\* Engines for the claims below.
Pairs == [Engine EXCEPT !.best_ofs = {2}, !.max_num_seqs = 4, !.cpu_blocks = 6]
ConfigsPairs == {Pairs}
ConfigsSwapping == {Swapping}
ConfigsChunkedPairs == {[Pairs EXCEPT !.chunked = TRUE]}
ConfigsLong == {[Engine EXCEPT !.max_tokens = 6]}
ConfigsRoomy == {[Engine EXCEPT !.max_tokens = 5, !.gpu_blocks = 9]}
ConfigsChunked == {[Engine EXCEPT !.chunked = TRUE, !.prompt_lens = {1, 4}, !.max_num_batched_tokens = 3]}
ConfigsChunkedMixed ==
    {[Engine EXCEPT !.chunked = TRUE, !.best_ofs = {1, 2}, !.prompt_lens = {1, 3, 5}, !.max_model_len = 8,
                    !.max_num_batched_tokens = 4, !.max_num_seqs = 4, !.gpu_blocks = 10, !.cpu_blocks = 9]}

-----------------------------------------------------------------------------
\* Claims of comments, documents and tests that the code does not keep.

\* Without sequences that finished before the others of their group, every
\* block of a group that has ended can be allocated again.
NothingLost == lost = [gpu |-> 0, cpu |-> 0]

\* LATER is answered only when another group can make room for a swapped one.
SwappedWaitsForRoom ==
    [][At("commit") /\ Between' => Preempts \/ running \cup ToSet(waiting) \cup plan.scheduled # {}
                                    \/ swapped = {}]_vars

\* The chunked policy reports the groups it cannot swap in, too.
InfeasibleIsReported ==
    [][At("commit") /\ Between' => plan.infeasible \subseteq reported']_vars

\* "Prefill has only 1 sequence."
PrefillHasOneSequence == error # "prefill of several sequences"

\* The assertion of _schedule_default and _schedule_chunked_prefill that the
\* batch keeps to the budget.
NeverOverBudget == error # "budget"

\* The tokens of a sequence that is run never exceed max_model_len.
RunsWithinModel ==
    At("exec") => \A g \in plan.scheduled :
        (IF IsPrefill(g) THEN group[g].computed + plan.chunk[g] ELSE group[g].len)
            <= MaxModelLen

\* "The ignored sequences are the sequences whose prompt lengths are longer
\* than the model's length cap": none that was accepted before.
IgnoredIsTooLong ==
    [][\A g \in (plan'.ignored \ plan.ignored) \cup (plan'.infeasible \ plan.infeasible) :
          group[g].len - group[g].out > PromptLimit]_vars
=============================================================================
