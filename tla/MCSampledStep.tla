--------------------------- MODULE MCSampledStep ---------------------------
EXTENDS SampledStep

Req(prompt, best_of, type, plp, max_tokens) ==
    [prompt |-> prompt, cached |-> 0, best_of |-> best_of, type |-> type,
     prompt_logprobs |-> plp, logprobs |-> TRUE, max_tokens |-> max_tokens]
Engine(reqs) == [chunked |-> FALSE, budget |-> 9, preemptions |-> 0, reqs |-> reqs]

Greedy(prompt, max_tokens) == Req(prompt, 1, "greedy", None, max_tokens)
Twice(prompt, type, max_tokens) == Req(prompt, 2, type, None, max_tokens)

\* Batches of all types, with prompt log probabilities before and after others
\* and forks; prompts cut by the budget; a recomputed request; cached prompts.
ConfigsBatches ==
    {Engine(<<Req(2, 1, "random", 1, 2), Twice(1, "seeded", 2), Req(3, 1, "greedy", 1, 1)>>),
     Engine(<<Twice(2, "seeded", 3), Greedy(1, 2), Req(1, 1, "seeded", None, 3)>>),
     Engine(<<Twice(2, "random", 2), Req(3, 2, "random", 1, 2), Greedy(2, 3)>>),
     Engine(<<[Greedy(3, 2) EXCEPT !.cached = 2], Req(2, 1, "greedy", 1, 2), Greedy(1, 3)>>),
     [Engine(<<Greedy(1, 3), Greedy(2, 3), Greedy(1, 2)>>) EXCEPT !.preemptions = 2],
     [Engine(<<Req(3, 1, "greedy", 1, 2), Req(2, 1, "random", None, 3), Req(5, 1, "seeded", 1, 2)>>)
        EXCEPT !.chunked = TRUE, !.budget = 3]}

\* SeaKR sends a greedy request and one of several samples for every step of a
\* question, and many questions at a time.
ConfigsQuestions == {Engine(<<Greedy(2, 2), Twice(2, "seeded", 2), Greedy(1, 2)>>)}

\* What makes a step fail, one each.
ConfigsRecompute == {[Engine(<<Greedy(1, 2), Greedy(2, 2), Greedy(1, 1)>>) EXCEPT !.preemptions = 1]}
ConfigsMixed == {[Engine(<<Greedy(1, 2), Greedy(3, 2), Greedy(1, 1)>>) EXCEPT !.chunked = TRUE, !.budget = 2]}
ConfigsZero == {Engine(<<Req(2, 1, "greedy", 0, 2), Greedy(1, 2), Greedy(1, 1)>>)}
ConfigsCached == {Engine(<<[Req(3, 1, "greedy", 1, 2) EXCEPT !.cached = 2], Greedy(1, 2), Greedy(1, 1)>>)}
ConfigsNoLogprobs == {Engine(<<[Greedy(1, 1) EXCEPT !.logprobs = FALSE], Greedy(1, 2), Greedy(1, 1)>>)}

\* A seeded prompt cut by the budget while another is decoded; one that is
\* preempted in between.
ConfigsSeeds == {[Engine(<<Req(1, 1, "seeded", None, 3), Req(4, 1, "seeded", None, 2), Greedy(1, 1)>>)
                    EXCEPT !.chunked = TRUE, !.budget = 3]}
ConfigsCut == {[Engine(<<Greedy(1, 3), Req(3, 1, "greedy", 1, 2), Greedy(1, 1)>>)
                    EXCEPT !.chunked = TRUE, !.budget = 3, !.preemptions = 1]}
=============================================================================
