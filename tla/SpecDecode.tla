---------------------------- MODULE SpecDecode ----------------------------
(***************************************************************************)
(* Speculative decoding (spec_decode/): a proposer guesses k tokens for    *)
(* the sequences of a batch, the target model scores all of them at once   *)
(* in an expanded batch, the rejection sampler keeps a prefix of each      *)
(* guess and one token of the target, and the multi-step output processor  *)
(* appends what is left.  Both models keep keys and values by position in  *)
(* blocks of the same tables, so what either reads is what was written at  *)
(* a position last, be it of a guess that was rejected.                    *)
(* A cell of the tensors is a token with the context its verdict is of.    *)
(***************************************************************************)
EXTENDS Integers, SequencesExt, Lists

CONSTANTS
    NumRequests,
    NumTokens,          \* the vocabulary is 1 .. NumTokens
    Eos,                \* eos_token_id
    Configs,            \* [method, k, draft_len, target_len, disable_at, lookup_min,
                        \* lookup_max, preemptions, reqs], where reqs is a sequence
                        \* of [prompt, greedy, max_tokens, min_tokens, ignore_eos]
    Likeliest(_, _),    \* of a set of tokens the one with the highest logit in a context
    Missing,            \* what a model reads where nothing was written
    None,               \* no proposal
    NoToken             \* the -1 of the tensors

Requests == 1 .. NumRequests
Tokens == 1 .. NumTokens

ASSUME SpecDecodeAssumption ==
    /\ NumRequests \in Nat /\ NumTokens \in Nat \ {0} /\ Eos \in Tokens
    /\ Missing \notin Tokens /\ None \notin Seq(Tokens)
    /\ NoToken \notin [token : Tokens, context : Seq(Tokens)]
    /\ \A c \in Configs :
        /\ c.method \in {"draft", "ngram"} /\ c.k \in Nat \ {0} /\ c.disable_at \in Nat \ {0}
        /\ c.draft_len \in 1 .. c.target_len /\ c.preemptions \in Nat
        /\ c.lookup_max \in Nat /\ c.lookup_min \in 1 .. c.lookup_max
        /\ Len(c.reqs) = NumRequests
        /\ \A r \in Requests :
            /\ c.reqs[r].prompt \in Seq(Tokens) /\ Len(c.reqs[r].prompt) \in 1 .. c.target_len
            /\ c.reqs[r].max_tokens \in Nat \ {0}
            /\ c.reqs[r].min_tokens \in 0 .. c.reqs[r].max_tokens

VARIABLES
    config,
    waiting,    \* requests to be prefilled, in order
    running,    \* requests that decode, in order
    out,        \* request -> its output tokens
    given,      \* request -> for each of them, the context the target judged it in
    target_kv,  \* request -> position -> token, the cache of the target model
    draft_kv,   \* and that of the draft model
    preempted,  \* preemptions so far
    passes,     \* proposer passes of the last step that communicate: those of the
                \* driver and those that the other ranks take part in
    failed      \* an assertion has failed in the output processor

vars == <<config, waiting, running, out, given, target_kv, draft_kv, preempted, passes, failed>>

Params(r) == config.reqs[r]
Prompt(r) == Params(r).prompt
Text(r) == Prompt(r) \o out[r]
UsesKv == config.method = "draft"

\* Where x is in s.
Place(s, x) == CHOOSE i \in DOMAIN s : s[i] = x
AtMost(a, b) == IF a < b THEN a ELSE b

Init ==
    /\ config \in Configs
    /\ waiting = [r \in Requests |-> r]
    /\ running = <<>>
    /\ out = [r \in Requests |-> <<>>]
    /\ given = [r \in Requests |-> <<>>]
    /\ target_kv = [r \in Requests |-> <<>>]
    /\ draft_kv = [r \in Requests |-> <<>>]
    /\ preempted = 0
    /\ passes = [driver |-> 0, others |-> 0]
    /\ failed = FALSE

-----------------------------------------------------------------------------
\* The models.

Read(kv, n) == [i \in 1 .. n |-> IF i \in DOMAIN kv THEN kv[i] ELSE Missing]

\* The cache after what is new was written to it.
Over(kv, new) == [i \in DOMAIN kv \cup DOMAIN new |-> IF i \in DOMAIN new THEN new[i] ELSE kv[i]]

\* The same after the tokens of text from position `first` on went through the model.
Written(kv, text, first) == Over(kv, [i \in first .. Len(text) |-> text[i]])

\* Tokens the target model may give in a context: min_tokens masks the EOS.
Allowed(r, context) ==
    IF Len(context) - Len(Prompt(r)) < Params(r).min_tokens THEN Tokens \ {Eos} ELSE Tokens
Target(r, context) ==
    {t \in Allowed(r, context) :
        Params(r).greedy => t = Likeliest(context, Allowed(r, context))}

-----------------------------------------------------------------------------
\* Proposals.

\* Where the last n tokens occur before: the window at the end is not compared.
Matches(text, n) ==
    {i \in 1 .. Len(text) - n : SubSeq(text, i, i + n - 1) = SubSeq(text, Len(text) - n + 1, Len(text))}

\* What follows the first occurrence of the longest n-gram that occurs at all.
Lookup(text) ==
    LET sizes == {n \in config.lookup_min .. AtMost(config.lookup_max, Len(text) - 1) :
                    Matches(text, n) # {}}
        n == Max(sizes)
        start == Min(Matches(text, n)) + n
    IN  IF sizes = {} THEN None
        ELSE [j \in 1 .. config.k |-> text[AtMost(start + j - 1, Len(text))]]

\* Top1Proposer: k tokens or none.
Drafted(r) == Len(Text(r)) + config.k < config.draft_len
Proposed(r) ==
    IF ~UsesKv THEN {Lookup(Text(r))}
    ELSE IF Drafted(r) THEN [1 .. config.k -> Tokens] ELSE {None}
Proposals(batch) == OneOfEach([i \in DOMAIN batch |-> Proposed(batch[i])])

\* The indices of the batch with a proposal, and those without.
SpecIndices(p) == Select([i \in DOMAIN p |-> i], {i \in DOMAIN p : p[i] # None})
NonSpecIndices(p) == Select([i \in DOMAIN p |-> i], {i \in DOMAIN p : p[i] = None})
OriginalIndices(p) == SpecIndices(p) \o NonSpecIndices(p)

-----------------------------------------------------------------------------
\* Scoring by batch expansion.

\* Every prefix of a proposal, the empty one too.
TokenIdsToScore(tokens) == [j \in 1 .. config.k + 1 |-> SubSeq(tokens, 1, j - 1)]

\* Each of them as a sequence of its own.
TargetRows(r, tokens) ==
    [j \in 1 .. config.k + 1 |-> [req |-> r, text |-> Text(r) \o TokenIdsToScore(tokens)[j]]]

\* chain.from_iterable: the rows of the first proposal, those of the second, ...
ScoringInput(batch, p) ==
    LET spec == SpecIndices(p)
        size == config.k + 1
    IN  [x \in 1 .. Len(spec) * size |->
            LET i == spec[(x - 1) \div size + 1]
            IN  TargetRows(batch[i], p[i])[((x - 1) % size) + 1]]

\* Then the requests without a proposal.
Expanded(batch, p) ==
    ScoringInput(batch, p) \o
    [m \in DOMAIN NonSpecIndices(p) |->
        [req |-> batch[NonSpecIndices(p)[m]], text |-> Text(batch[NonSpecIndices(p)[m]])]]

\* The one query token of each row is written before any row attends.
Scored(rows, r) ==
    LET mine == {x \in DOMAIN rows : rows[x].req = r}
    IN  Over(target_kv[r],
             [n \in {Len(rows[x].text) : x \in mine} |->
                 Last(rows[CHOOSE x \in mine : Len(rows[x].text) = n].text)])
ContextOf(row, rows) == Read(Scored(rows, row.req), Len(row.text))

\* The rows of proposals, and the others.
SplitScoringOutput(contexts, scoring) ==
    <<SubSeq(contexts, 1, scoring), SubSeq(contexts, scoring + 1, Len(contexts))>>

\* _contract_batch: the contexts of the rows, k + 1 for a request with a proposal
\* and one for the others, back at the places of the batch.
ContractBatch(contexts, p) ==
    LET spec == SpecIndices(p)
        size == config.k + 1
        split == SplitScoringOutput(contexts, Len(spec) * size)
    IN  [i \in DOMAIN p |->
           IF p[i] = None THEN <<split[2][Place(NonSpecIndices(p), i)]>>
           ELSE [j \in 1 .. size |-> split[1][(Place(spec, i) - 1) * size + j]]]

Scores(batch, p) ==
    LET rows == Expanded(batch, p)
    IN  ContractBatch([x \in DOMAIN rows |-> ContextOf(rows[x], rows)], p)

-----------------------------------------------------------------------------
\* Verification.

\* The first token that is not accepted, k + 1 when all are.
Limit(accepted) == Min({j \in 1 .. config.k : ~accepted[j]} \cup {config.k + 1})

\* A token is accepted with probability min(1, q/p), and a token that replaces it is
\* drawn where q > p: what can be accepted has q > 0, what can be rejected q < 1.
MayJudge(r, tokens, contexts, accepted, token) ==
    /\ \A j \in 1 .. config.k :
        IF accepted[j] THEN tokens[j] \in Target(r, contexts[j])
        ELSE Target(r, contexts[j]) \ {tokens[j]} # {}
    /\ token \in Target(r, contexts[Limit(accepted)])
    /\ Limit(accepted) <= config.k => token # tokens[Limit(accepted)]

Cell(token, context) == [token |-> token, context |-> context]

\* Mutant: every proposer gets the bonus.
MutBonusEnabled == TRUE
\* The draft model never sees a bonus token, and would miss it in its cache.
BonusEnabled == ~UsesKv

\* Mutant: the recovered token is not filled in.
MutCreateOutput(tokens, contexts, accepted, token) ==
    LET limit == Limit(accepted)
    IN  [j \in 1 .. config.k + 1 |->
           IF j < limit THEN Cell(tokens[j], contexts[j])
           ELSE IF j = limit /\ j = config.k + 1 /\ BonusEnabled THEN Cell(token, contexts[j])
           ELSE NoToken]

\* _create_output: the accepted prefix, then the recovered token or the bonus.
CreateOutput(tokens, contexts, accepted, token) ==
    LET limit == Limit(accepted)
    IN  [j \in 1 .. config.k + 1 |->
           IF j < limit THEN Cell(tokens[j], contexts[j])
           ELSE IF j = limit /\ (j <= config.k \/ BonusEnabled) THEN Cell(token, contexts[j])
           ELSE NoToken]

\* What the rejection sampler may make of a proposal.
Judged(r, tokens, contexts) ==
    {CreateOutput(tokens, contexts, v[1], v[2]) :
        v \in {v \in [1 .. config.k -> BOOLEAN] \X Tokens : MayJudge(r, tokens, contexts, v[1], v[2])}}

\* A request without proposal has the target's token in the first column only.
Plain(r, context) ==
    {[j \in 1 .. config.k + 1 |-> IF j = 1 THEN Cell(token, context) ELSE NoToken] :
        token \in Target(r, context)}

\* Mutant: accepted_token_ids = accepted_token_ids[original_indices].
MutRearranged(cells, indices) == [i \in DOMAIN cells |-> cells[indices[i]]]
\* accepted_token_ids[original_indices] = accepted_token_ids: row m goes to
\* place indices[m].
Rearranged(cells, indices) ==
    [i \in Range(indices) |-> cells[Place(indices, i)]]

\* The speculative requests come first, then the others, and each at its place again.
VerifyTokens(batch, p, scores) ==
    LET order == OriginalIndices(p)
        outputs == [m \in DOMAIN order |->
                      LET i == order[m] IN IF p[i] = None THEN Plain(batch[i], scores[i][1])
                                           ELSE Judged(batch[i], p[i], scores[i])]
    IN  {Rearranged(cells, order) : cells \in OneOfEach(outputs)}

\* _create_output_sampler_list: steps up to the first without any token.
SampledSteps(cells) ==
    LET empty == {j \in 1 .. config.k + 1 : \A i \in DOMAIN cells : cells[i][j] = NoToken}
        steps == Min(empty \cup {config.k + 2}) - 1
    IN  [i \in DOMAIN cells |-> SubSeq(cells[i], 1, steps)]

-----------------------------------------------------------------------------
\* The multi-step output processor.

\* maybe_stop_sequence would stop a sequence with these output tokens.
Stops(r, tokens) ==
    /\ Len(tokens) >= Params(r).min_tokens
    /\ \/ Last(tokens) = Eos /\ ~Params(r).ignore_eos
       \/ Len(Prompt(r)) + Len(tokens) > config.target_len
       \/ Len(tokens) = Params(r).max_tokens

CutToMaxTokens(r, cells) ==
    SubSeq(cells, 1, AtMost(Len(cells), Params(r).max_tokens - Len(out[r])))
CutAfterEos(r, cells) ==
    LET eos == {j \in DOMAIN cells : cells[j].token = Eos}
    IN  IF Params(r).ignore_eos \/ eos = {} THEN cells ELSE SubSeq(cells, 1, Min(eos))
TokensOf(cells) == [j \in DOMAIN cells |-> cells[j].token]

\* Mutant: the loop does not look whether the sequence is finished.
MutUpToStop(r, cells) == cells
\* Tokens are appended one by one until one of them stops the sequence.
UpToStop(r, cells) ==
    LET stops == {j \in DOMAIN cells : Stops(r, out[r] \o TokensOf(SubSeq(cells, 1, j)))}
    IN  IF stops = {} THEN cells ELSE SubSeq(cells, 1, Min(stops))

Valid(cells) == Select(cells, Range(cells) \ {NoToken})
Appended(r, cells) == UpToStop(r, CutAfterEos(r, CutToMaxTokens(r, Valid(cells))))

\* The step ends: cells[i] is the output of batch[i], target[i] and draft[i] are its
\* caches.  The blocks of those that stop or have been preempted are free.
ProcessOutputs(batch, running_now, cells, target, draft) ==
    LET more == [r \in Requests |->
                    IF r \in Range(batch) THEN Appended(r, cells[Place(batch, r)]) ELSE <<>>]
        stopped == {r \in Range(batch) : more[r] # <<>> /\ Stops(r, out[r] \o TokensOf(more[r]))}
        Kept(kv, new) == [r \in Requests |->
                            IF r \in stopped \/ r \notin Range(running_now) THEN <<>>
                            ELSE IF r \in Range(batch) THEN new[Place(batch, r)] ELSE kv[r]]
    IN  /\ failed' = \E i \in DOMAIN batch : Valid(cells[i]) = <<>>  \* assert valid_samples
        /\ out' = [r \in Requests |-> out[r] \o TokensOf(more[r])]
        /\ given' = [r \in Requests |-> given[r] \o [j \in DOMAIN more[r] |-> more[r][j].context]]
        /\ target_kv' = Kept(target_kv, target)
        /\ draft_kv' = Kept(draft_kv, draft)
        /\ running' = Select(running_now, Requests \ stopped)

-----------------------------------------------------------------------------
\* SpecDecodeWorker.execute_model.

\* Non-driver ranks call execute_model of their proposer so many times, whatever
\* the driver does; that of ngram_worker.py does nothing.
Passes(driver, lookahead) ==
    passes' = IF UsesKv THEN [driver |-> driver, others |-> Max({lookahead, 1})]
              ELSE [driver |-> 0, others |-> 0]

ShouldDisable(queue_size) == queue_size >= config.disable_at

\* _run_no_spec: one token for each, by the target, and the proposer runs along
\* unless speculation is off; first[i] is where the tokens that are new begin.
RunNoSpec(batch, running_now, first, lookahead) ==
    LET skip_proposer == ShouldDisable(Len(running_now))
        target == [i \in DOMAIN batch |-> Written(target_kv[batch[i]], Text(batch[i]), first[i])]
        draft == [i \in DOMAIN batch |->
                    IF skip_proposer \/ ~UsesKv THEN draft_kv[batch[i]]
                    ELSE Written(draft_kv[batch[i]], Text(batch[i]), first[i])]
        context == [i \in DOMAIN batch |-> Read(target[i], Len(Text(batch[i])))]
    IN  /\ \E token \in OneOfEach([i \in DOMAIN batch |-> Target(batch[i], context[i])]) :
            ProcessOutputs(batch, running_now,
                [i \in DOMAIN batch |-> <<Cell(token[i], context[i])>>], target, draft)
        /\ Passes(IF skip_proposer THEN 0 ELSE 1, lookahead)

\* The draft model ran on the last token and on all proposed ones but the last.
DraftKvAfter(r, tokens) ==
    LET seen == Text(r) \o SubSeq(tokens, 1, config.k - 1)
    IN  Written(draft_kv[r], seen, Len(Text(r)))

RunSpeculativeStep(batch) ==
    \E p \in Proposals(batch) :
      LET rows == Expanded(batch, p)
          scores == Scores(batch, p)
          target == [i \in DOMAIN batch |-> Scored(rows, batch[i])]
          draft == [i \in DOMAIN batch |-> IF p[i] = None \/ ~UsesKv THEN draft_kv[batch[i]]
                                           ELSE DraftKvAfter(batch[i], p[i])]
      IN  /\ \E cells \in VerifyTokens(batch, p, scores) :
                ProcessOutputs(batch, batch, SampledSteps(cells), target, draft)
          /\ Passes(IF SpecIndices(p) = <<>> THEN 0 ELSE config.k, config.k)

\* A prompt, or what a preempted request is recomputed from, has no lookahead slots.
Prefill(n) ==
    /\ n \in 1 .. Len(waiting)
    /\ waiting' = SubSeq(waiting, n + 1, Len(waiting))
    /\ RunNoSpec(SubSeq(waiting, 1, n), running \o SubSeq(waiting, 1, n),
                 [i \in 1 .. n |-> 1], 0)
    /\ UNCHANGED <<config, preempted>>

\* All running requests decode; the scheduler may take blocks from the last of
\* them first, whose caches are then lost.
Decode(victims) ==
    /\ victims \in 0 .. config.preemptions - preempted
    /\ victims < Len(running)
    /\ preempted' = preempted + victims
    /\ LET batch == SubSeq(running, 1, Len(running) - victims)
       IN  /\ waiting' = SubSeq(running, Len(batch) + 1, Len(running)) \o waiting
           /\ IF ShouldDisable(Len(batch))
              THEN RunNoSpec(batch, batch, [i \in DOMAIN batch |-> Len(Text(batch[i]))], config.k)
              ELSE RunSpeculativeStep(batch)
    /\ UNCHANGED config

Idle == waiting = <<>> /\ running = <<>> /\ UNCHANGED vars

Next ==
    \/ ~failed /\ \E n \in Requests : Prefill(n)
    \/ ~failed /\ \E victims \in 0 .. NumRequests - 1 : Decode(victims)
    \/ Idle

Spec == Init /\ [][Next]_vars

-----------------------------------------------------------------------------
\* Properties.

Ended(r) == r \notin Range(waiting) \cup Range(running)

(***************************************************************************)
(* Speculation is lossless ("Only lossless rejection sampling is           *)
(* supported", spec_decode_worker.py): every output token was judged by    *)
(* the target model in the context of exactly the tokens before it - not   *)
(* of another request of the mixed batch, not of a rejected guess still in *)
(* the cache, not of a hole - and the target may give it there.            *)
(***************************************************************************)
Lossless ==
    \A r \in Requests : \A j \in DOMAIN out[r] :
        LET before == Prompt(r) \o SubSeq(out[r], 1, j - 1)
        IN  given[r][j] = before /\ out[r][j] \in Target(r, before)

(***************************************************************************)
(* A request the draft model will be asked to guess for has all keys but   *)
(* those of its last token in the draft model's cache, whatever was        *)
(* guessed, accepted, rejected and replaced before ("so that the KV cache  *)
(* is consistent between the two", _run_no_spec).                          *)
(***************************************************************************)
DraftKvComplete ==
    \A r \in Range(running) : UsesKv /\ Drafted(r) =>
        LET n == Len(Text(r)) - 1 IN Read(draft_kv[r], n) = SubSeq(Text(r), 1, n)

(***************************************************************************)
(* A request ends with the token that stops it and not before: tokens that *)
(* the step accepted behind an EOS, max_tokens or the longest length are   *)
(* dropped (multi_step.py, _process_seq_outputs).                          *)
(***************************************************************************)
EndsAtFirstStop ==
    \A r \in Requests :
        /\ \A j \in 1 .. Len(out[r]) - 1 : ~Stops(r, SubSeq(out[r], 1, j))
        /\ Ended(r) <=> out[r] # <<>> /\ Stops(r, out[r])

\* What a request is given is what the target model alone could have given it.
OutputIsTargets == Lossless /\ EndsAtFirstStop

(***************************************************************************)
(* Every step gives every request of its batch a token, however its guess  *)
(* was judged and whatever the batch was mixed of ("it is guaranteed one   *)
(* correct token will be emitted", rejection_sampler.py; the assertion of  *)
(* multi_step.py).  With it, and without deadlock, max_tokens ends them.   *)
(***************************************************************************)
EveryStepEmits == ~failed

-----------------------------------------------------------------------------
\* Claims that the code does not keep.

\* The ranks of a proposer that runs under tensor parallelism take part in as many
\* passes as its driver makes ("the non-driver workers won't know unless we
\* perform a communication to inform them", execute_model).
RanksAgree == passes.driver = passes.others

\* "If a speculative sequence length would exceed the max model length, then no
\* speculation is produced for that sequence" (score_proposals).
WithinModelLen == \A r \in Requests : \A n \in DOMAIN target_kv[r] : n <= config.target_len
=============================================================================
