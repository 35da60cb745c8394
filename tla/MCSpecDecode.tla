--------------------------- MODULE MCSpecDecode ---------------------------
EXTENDS SpecDecode

\* A target model whose greedy choice depends on every token of the context.
Weigh(context, tokens) ==
    LET weight == FoldLeftDomain(LAMBDA sum, i : IF context[i] = Missing THEN sum ELSE sum + i * context[i],
                                 0, context)
    IN  SetToSortSeq(tokens, <)[1 + (weight % Cardinality(tokens))]

Req(prompt, max_tokens) ==
    [prompt |-> prompt, greedy |-> FALSE, max_tokens |-> max_tokens, min_tokens |-> 0,
     ignore_eos |-> FALSE]
Greedy(prompt, max_tokens) == [Req(prompt, max_tokens) EXCEPT !.greedy = TRUE]

Draft(k, reqs) ==
    [method |-> "draft", k |-> k, draft_len |-> 99, target_len |-> 99, disable_at |-> 99,
     lookup_min |-> 1, lookup_max |-> 2, preemptions |-> 0, reqs |-> reqs]
Ngram(k, reqs) == [Draft(k, reqs) EXCEPT !.method = "ngram"]

Unstopped(req) == [req EXCEPT !.ignore_eos = TRUE]

\* Sampled and greedy requests with preemption; three requests of which the first is
\* too long for the draft model, so that the batch is rearranged; a target that is
\* full before max_tokens is reached; n-grams that are found for some, with
\* speculation off while three requests run.
ConfigsServe ==
    {[Draft(2, <<Req(<<1>>, 3), Unstopped(Greedy(<<1, 2>>, 5)), Unstopped(Greedy(<<2, 2>>, 3))>>)
        EXCEPT !.preemptions = 1],
     [Draft(1, <<Unstopped(Req(<<1, 2, 2, 1>>, 3)), Req(<<1>>, 3), Unstopped(Req(<<2>>, 3))>>)
        EXCEPT !.draft_len = 4],
     [Draft(1, <<Unstopped(Req(<<2, 1>>, 5)), [Req(<<1>>, 4) EXCEPT !.min_tokens = 2],
                 Unstopped(Req(<<2>>, 3))>>)
        EXCEPT !.target_len = 5, !.draft_len = 5],
     [Ngram(2, <<Unstopped(Req(<<1, 2, 1>>, 4)), [Req(<<1, 2>>, 3) EXCEPT !.min_tokens = 2],
                 Unstopped(Req(<<2>>, 4))>>)
        EXCEPT !.target_len = 5, !.draft_len = 5, !.disable_at = 3, !.preemptions = 1]}

\* Speculation is switched off for a while; requests outgrow the draft model or the
\* target model.
ConfigsDisabled == {[Draft(2, <<Unstopped(Greedy(<<1>>, 5)), Greedy(<<2>>, 2), Greedy(<<2, 2>>, 2)>>)
                       EXCEPT !.disable_at = 2]}
ConfigsOutgrown == {[Draft(1, <<Unstopped(Req(<<1>>, 4)), Greedy(<<1>>, 1), Greedy(<<1>>, 1)>>)
                       EXCEPT !.draft_len = 4]}
ConfigsFull == {[Ngram(2, <<Unstopped(Req(<<1, 1>>, 4)), Greedy(<<1>>, 1), Greedy(<<1>>, 1)>>)
                   EXCEPT !.target_len = 4, !.draft_len = 4]}
=============================================================================
