---------------------------- MODULE SampledStep ----------------------------
(***************************************************************************)
(* How the rows of a batch find their way through a step of the engine:    *)
(* the model runner lays out the query tokens, the sampling metadata picks *)
(* rows of the hidden states, the sampler works on its own numbering of    *)
(* them - for tokens, log probabilities, generators, energy scores and EOS *)
(* embeddings - and the output processor hands the results to sequences,   *)
(* of which an ended one is run once more for its embedding.               *)
(* A row is named by the sequence and the position of the token it is of.  *)
(***************************************************************************)
EXTENDS Integers, FiniteSets, SequencesExt

CONSTANTS
    NumRequests,
    Configs,        \* [chunked, budget, preemptions, reqs], where reqs is a
                    \* sequence of [prompt, cached, best_of, type, prompt_logprobs,
                    \* logprobs, max_tokens]; prompt and cached count tokens
    None            \* prompt_logprobs that is not set; no embedding; no generator

Requests == 1 .. NumRequests
Types == {"greedy", "random", "seeded"}

ASSUME SampledStepAssumption ==
    /\ NumRequests \in Nat
    /\ \A c \in Configs :
        /\ c.chunked \in BOOLEAN /\ c.budget \in Nat \ {0} /\ c.preemptions \in Nat
        /\ Len(c.reqs) = NumRequests
        /\ \A r \in Requests :
            /\ c.reqs[r].prompt \in Nat \ {0} /\ c.reqs[r].cached \in 0 .. c.reqs[r].prompt - 1
            /\ c.reqs[r].best_of \in Nat \ {0} /\ c.reqs[r].max_tokens \in Nat \ {0}
            /\ c.reqs[r].type \in Types
            /\ c.reqs[r].type = "greedy" => c.reqs[r].best_of = 1
            /\ c.preemptions > 0 => c.reqs[r].best_of = 1       \* see Preempt
            /\ c.chunked => c.reqs[r].cached = 0                \* a RuntimeError otherwise

VARIABLES
    config,
    arrived,    \* requests add_request has been called for
    seqs,       \* the Sequences, numbered by the seq_counter
    groups,     \* request -> its sequences in the order they were added
    prompts,    \* request -> its prompt_logprobs: the rows and positions they are of
    preempted,  \* preemptions so far
    failed      \* an exception has left step()

vars == <<config, arrived, seqs, groups, prompts, preempted, failed>>

Params(r) == config.reqs[r]
NewSeq(r) == [req |-> r, out |-> <<>>, computed |-> 0, prefill |-> TRUE, status |-> "waiting",
              real_stop |-> FALSE, hist |-> <<>>, eos_embedding |-> None]

Init ==
    /\ config \in Configs
    /\ arrived = {}
    /\ seqs = <<>>
    /\ groups = [r \in Requests |-> <<>>]
    /\ prompts = [r \in Requests |-> <<>>]
    /\ preempted = 0
    /\ failed = FALSE

LenOf(s) == Params(seqs[s].req).prompt + Len(seqs[s].out)
InStatus(r, st) == SelectSeq(groups[r], LAMBDA s : seqs[s].status = st)
ByArrival(S) == SetToSortSeq(S, <)
Queue(st) == ByArrival({r \in arrived : InStatus(r, st) # <<>>})

\* SequenceGroup.is_prefill looks at the first sequence.
IsPrefill(r) == seqs[groups[r][1]].prefill

-----------------------------------------------------------------------------
\* A batch: what the metadata of the scheduled groups says.

\* The query tokens a group can use of what is left of the budget.
NumNewTokens(r, left) ==
    IF ~IsPrefill(r) THEN Len(InStatus(r, "running"))
    ELSE LET n == LenOf(groups[r][1]) - seqs[groups[r][1]].computed
         IN IF config.chunked /\ left < n THEN left ELSE n

Entry(r, chunk) ==
    LET first == seqs[groups[r][1]]
        live == SelectSeq(groups[r], LAMBDA s : seqs[s].status \in {"waiting", "running"})
    IN [req |-> r, ids |-> live, is_prompt |-> first.prefill, chunk |-> chunk,
        do_sample |-> ~(config.chunked /\ first.prefill
                        /\ first.computed + chunk < LenOf(groups[r][1]))]

\* Groups take their tokens one after the other, until one gets none.
Schedule(rs) ==
    FoldLeft(LAMBDA acc, r :
        LET n == NumNewTokens(r, acc.left)
        IN IF acc.stop \/ n = 0 \/ n > acc.left THEN [acc EXCEPT !.stop = TRUE]
           ELSE [acc EXCEPT !.left = @ - n, !.batch = Append(@, Entry(r, n))],
        [left |-> config.budget, stop |-> FALSE, batch |-> <<>>], rs).batch

IsPromptEntry(e) == e.is_prompt
IsDecodeEntry(e) == ~e.is_prompt

\* schedule: prompts alone, or else everything that runs; with chunked prefill
\* what runs is served first and the prompts are put in front.
Batch ==
    IF config.chunked
    THEN LET b == Schedule(Queue("running") \o Queue("waiting"))
             new == SelectSeq(b, LAMBDA e : InStatus(e.req, "waiting") # <<>>)
             old == SelectSeq(b, LAMBDA e : InStatus(e.req, "waiting") = <<>>)
         IN new \o SelectSeq(old, IsPromptEntry) \o SelectSeq(old, IsDecodeEntry)
    ELSE Schedule(IF Queue("waiting") # <<>> THEN Queue("waiting") ELSE Queue("running"))

-----------------------------------------------------------------------------
\* The rows of the model and of the logits.  Sequences count from 1.

Before(b, i, Count(_)) == FoldLeft(LAMBDA n, e : n + Count(e), 0, SubSeq(b, 1, i - 1))
Range0(from, n) == [k \in 1 .. n |-> from + k - 1]

\* _prepare_model_input: the first query token, after the context.
Context(e) == IF ~e.is_prompt THEN LenOf(e.ids[1]) - 1
              ELSE IF Params(e.req).cached > 0 THEN Params(e.req).cached
              ELSE seqs[e.ids[1]].computed
SeqLen(e) == IF e.is_prompt THEN seqs[e.ids[1]].computed + e.chunk ELSE LenOf(e.ids[1])
QueryLen(e) == SeqLen(e) - Context(e)

InputRows(b) ==
    FlattenSeq([i \in DOMAIN b |->
        IF b[i].is_prompt
        THEN [k \in 1 .. QueryLen(b[i]) |-> <<b[i].ids[1], Context(b[i]) + k>>]
        ELSE [k \in DOMAIN b[i].ids |-> <<b[i].ids[k], LenOf(b[i].ids[k])>>]])

\* _prepare_seq_groups
PromptLogprobLen(e) == IF ~e.is_prompt THEN 0
                       ELSE IF e.do_sample THEN QueryLen(e) - 1 ELSE QueryLen(e)
SampleLen(e) == IF e.do_sample THEN Len(e.ids) ELSE 0
WantsPromptLogprobs(e) == Params(e.req).prompt_logprobs # None

OutputCount(e) == PromptLogprobLen(e) + SampleLen(e)
LogitCount(e) == (IF WantsPromptLogprobs(e) THEN PromptLogprobLen(e) ELSE 0) + SampleLen(e)

\* prompt_logprobs = 0 is false here, and not None below.
SelectsPrompt(e) == WantsPromptLogprobs(e) /\ Params(e.req).prompt_logprobs > 0

SelectedTokenIndices(b) ==
    FlattenSeq([i \in DOMAIN b |->
        LET first == Before(b, i, OutputCount) + 1
        IN (IF SelectsPrompt(b[i]) THEN Range0(first, PromptLogprobLen(b[i])) ELSE <<>>)
           \o Range0(first + PromptLogprobLen(b[i]), SampleLen(b[i]))])

Logits(b) ==
    LET rows == InputRows(b) IN
    LET sel == SelectedTokenIndices(b)
    IN [k \in DOMAIN sel |-> rows[sel[k]]]

MutPromptLogprobIndices(b, i) ==
    Range0(Before(b, i, OutputCount) + 1,
           IF WantsPromptLogprobs(b[i]) THEN PromptLogprobLen(b[i]) ELSE 0)
PromptLogprobIndices(b, i) ==
    Range0(Before(b, i, LogitCount) + 1,
           IF WantsPromptLogprobs(b[i]) THEN PromptLogprobLen(b[i]) ELSE 0)
SampleIndices(b, i) ==
    Range0(Before(b, i, LogitCount) + 1 + Len(PromptLogprobIndices(b, i)), SampleLen(b[i]))

-----------------------------------------------------------------------------
\* The sampler.  Sample k of group i has a parent among the group's sequences.

SampleCount(e) == IF ~e.do_sample THEN 0
                  ELSE IF e.is_prompt THEN Params(e.req).best_of ELSE Len(e.ids)
Parent(e, k) == IF e.is_prompt THEN 1 ELSE k

\* _sample_with_torch gathers the rows of each type; _greedy_sample and
\* _random_sample count through them by the groups that are sampled.
OfType(b, ty) == SelectSeq([i \in DOMAIN b |-> i], LAMBDA i : Params(b[i].req).type = ty)
TypeOffset(b, i, Count(_)) ==
    FoldLeft(LAMBDA n, j : n + Count(b[j]), 0,
             SelectSeq(OfType(b, Params(b[i].req).type), LAMBDA j : j < i))

TokenIndex(b, i, k) ==
    LET ofType == OfType(b, Params(b[i].req).type)
        indices == FlattenSeq([n \in DOMAIN ofType |-> SampleIndices(b, ofType[n])])
    IN indices[TypeOffset(b, i, SampleLen) + Parent(b[i], k)]

\* _multinomial draws with the generators of all seeded groups in turn.
SeqCount(e) == Len(e.ids)
GeneratorOf(b, i, k) ==
    IF Params(b[i].req).type # "seeded" THEN None
    ELSE LET row == TypeOffset(b, i, SampleLen) + Parent(b[i], k)
             j == CHOOSE j \in DOMAIN b :
                    /\ Params(b[j].req).type = "seeded"
                    /\ TypeOffset(b, j, SeqCount) < row
                    /\ row <= TypeOffset(b, j, SeqCount) + Len(b[j].ids)
         IN b[j].req

\* SamplingTensors: whose temperature, penalties and seeds a row gets.
ParamRows(b) ==
    FlattenSeq([i \in DOMAIN b |->
        [k \in 1 .. LogitCount(b[i]) |-> b[i].req]])

\* _get_next_prompt_tokens: positions of the tokens that prompt_logprobs are of.
NextPromptTokens(e) ==
    IF ~(e.is_prompt /\ WantsPromptLogprobs(e)) THEN <<>>
    ELSE LET from == seqs[e.ids[1]].computed + 2
             upto == seqs[e.ids[1]].computed + QueryLen(e) + 1
             end == IF upto < Params(e.req).prompt THEN upto ELSE Params(e.req).prompt
         IN Range0(from, IF end < from THEN 0 ELSE end - from + 1)

MutTopCount(e) == SampleLen(e)
\* _get_logprobs: the rows of the top log probabilities, counted on their own.
TopCount(e) == Len(NextPromptTokens(e)) + SampleLen(e)
TopIndex(b, i, k) ==
    Before(b, i, TopCount) + Len(NextPromptTokens(b[i])) + Parent(b[i], k)

MutDecodeSamples(e) == IF e.is_prompt THEN 0 ELSE 1
\* forward: energy_score and eos_embedding are read at i_embedding, which
\* counts the samples of the groups that decode.
DecodeSamples(e) == IF e.is_prompt THEN 0 ELSE SampleCount(e)
EmbeddingIndex(b, i, k) == Before(b, i, DecodeSamples) + (IF b[i].is_prompt THEN 1 ELSE k)

EndsWithEos(s) == seqs[s].out # <<>> /\ Last(seqs[s].out) = "eos"
MutHasEmbedding(e, k) == ~e.is_prompt /\ EndsWithEos(e.ids[1])
HasEmbedding(e, k) == ~e.is_prompt /\ EndsWithEos(e.ids[k])

\* What sample k of group i brings.
Sample(b, i, k, logits, params, tok) ==
    LET parent == b[i].ids[Parent(b[i], k)]
    IN [parent |-> parent, token |-> tok,
        eos_embedding |-> IF HasEmbedding(b[i], k) THEN logits[EmbeddingIndex(b, i, k)] ELSE None,
        note |-> [own |-> <<parent, LenOf(parent)>>,
                  token |-> logits[TokenIndex(b, i, k)],
                  params |-> params[TokenIndex(b, i, k)],
                  generator |-> GeneratorOf(b, i, k),
                  logprob |-> logits[SampleIndices(b, i)[1] + Parent(b[i], k) - 1],
                  top |-> logits[TopIndex(b, i, k)],
                  energy |-> logits[EmbeddingIndex(b, i, k)]]]

\* The prompt log probabilities of group i: of which row, for which token.
PromptLogprobs(b, i, logits) ==
    LET next == NextPromptTokens(b[i])
    IN [k \in DOMAIN next |-> <<logits[PromptLogprobIndices(b, i)[k]],
                                logits[Before(b, i, TopCount) + k], next[k]>>]

\* The assertions on the way; the last one is execute_model's on eos_indices.
StepFails(b) ==
    \/ Len(SelectedTokenIndices(b)) # FoldLeft(LAMBDA n, e : n + LogitCount(e), 0, b)
    \/ \E i \in DOMAIN b :
        /\ b[i].is_prompt /\ WantsPromptLogprobs(b[i])
        /\ Len(NextPromptTokens(b[i])) # PromptLogprobLen(b[i])
    \/ \E i \in DOMAIN b : \E k \in 1 .. SampleCount(b[i]) :
        /\ HasEmbedding(b[i], k)
        /\ LET row == InputRows(b)[EmbeddingIndex(b, i, k)]
               position == row[2] - Params(seqs[row[1]].req).prompt
           IN ~(position > 0 /\ seqs[row[1]].out[position] = "eos")

-----------------------------------------------------------------------------
\* The output processor.

\* append_token_id, _add_energy_score and maybe_stop_sequence_for_eos: a
\* sequence at its limit gets EOS for its last token, and is run once more.
AppendToken(q, sample) ==
    LET full == Len(q.out) + 1 = Params(q.req).max_tokens
        tok == IF full THEN "eos" ELSE sample.token
    IN [q EXCEPT !.out = Append(@, tok), !.hist = Append(@, sample.note),
                 !.real_stop = (tok = "eos")]

\* A sequence that ends takes the embedding of its sample, which is dropped.
SampleOf(samples, s) == CHOOSE m \in ToSet(samples) : m.parent = s

ProcessingFails(b, results) ==
    \E i \in DOMAIN b : b[i].do_sample /\
        \E s \in ToSet(b[i].ids) : seqs[s].real_stop /\ SampleOf(results[i], s).eos_embedding = None

\* The group after its samples: the samples of a parent but the last are
\* forks, numbered from next on.
ProcessGroup(st, e, samples) ==
    LET ended == {s \in ToSet(e.ids) : st.seqs[s].real_stop}
        rest == SelectSeq(samples, LAMBDA m : m.parent \notin ended)
        LastOf(k) == \A j \in k + 1 .. Len(rest) : rest[j].parent # rest[k].parent
        forks == SelectSeq([k \in DOMAIN rest |-> k], LAMBDA k : ~LastOf(k))
        next == Len(st.seqs)
        children == [n \in DOMAIN forks |->
                        AppendToken(st.seqs[rest[forks[n]].parent], rest[forks[n]])]
        After(s) ==
            IF s \in ended
            THEN [st.seqs[s] EXCEPT !.status = "finished", !.real_stop = FALSE,
                                    !.eos_embedding = SampleOf(samples, s).eos_embedding]
            ELSE IF \E k \in DOMAIN rest : rest[k].parent = s
            THEN AppendToken(st.seqs[s], Last(SelectSeq(rest, LAMBDA m : m.parent = s)))
            ELSE st.seqs[s]
    IN IF ~e.do_sample THEN st
       ELSE [seqs |-> [s \in 1 .. next |-> After(s)] \o children,
             groups |-> [st.groups EXCEPT ![e.req] = @ \o Range0(next + 1, Len(forks))]]

\* update_num_computed_tokens, after the waiting ones have been set running.
Advance(b) ==
    [s \in DOMAIN seqs |->
        IF \E i \in DOMAIN b : s \in ToSet(b[i].ids)
        THEN LET e == b[CHOOSE i \in DOMAIN b : s \in ToSet(b[i].ids)]
                 n == seqs[s].computed + (IF e.is_prompt THEN e.chunk ELSE 1)
             IN [seqs[s] EXCEPT !.status = "running", !.computed = n,
                                !.prefill = @ /\ n < LenOf(s)]
        ELSE seqs[s]]

Apply(b, results) ==
    FoldLeft(LAMBDA st, i : ProcessGroup(st, b[i], results[i]),
             [seqs |-> Advance(b), groups |-> groups], [i \in DOMAIN b |-> i])

\* compute_uncertainty takes the length of the log probabilities of a finished
\* request, which are None when they have not been asked for.
OutputFails(st, b) ==
    \E i \in DOMAIN b :
        /\ ~Params(b[i].req).logprobs
        /\ \A s \in ToSet(st.groups[b[i].req]) : st.seqs[s].status = "finished"

-----------------------------------------------------------------------------
\* add_request
Arrive(r) ==
    /\ r \notin arrived /\ \A o \in Requests : o < r => o \in arrived
    /\ arrived' = arrived \cup {r}
    /\ seqs' = Append(seqs, NewSeq(r))
    /\ groups' = [groups EXCEPT ![r] = <<Len(seqs) + 1>>]
    /\ UNCHANGED <<config, prompts, preempted, failed>>

\* _preempt_by_recompute of the last that runs.
Preempt(r) ==
    /\ preempted < config.preemptions
    /\ Queue("running") # <<>> /\ Last(Queue("running")) = r
    /\ preempted' = preempted + 1
    /\ seqs' = [seqs EXCEPT ![groups[r][1]].status = "waiting", ![groups[r][1]].computed = 0,
                            ![groups[r][1]].prefill = TRUE]
    /\ UNCHANGED <<config, arrived, groups, prompts, failed>>

\* The tokens that come out of the model are chosen for the samples.
Tokens(b) == [{<<i, k>> \in (DOMAIN b) \X (1 .. Len(seqs) + 3) : k <= SampleCount(b[i])}
                -> {"t", "eos"}]

Fail ==
    /\ failed' = TRUE
    /\ UNCHANGED <<seqs, groups, prompts>>

\* Apply the results, unless an exception ends the step.
Finish(b, results, plps) ==
    IF ProcessingFails(b, results) THEN Fail
    ELSE \E st \in {Apply(b, results)} :
        IF OutputFails(st, b) THEN Fail
        ELSE /\ seqs' = st.seqs /\ groups' = st.groups
             /\ prompts' = [r \in Requests |->
                    IF \E i \in DOMAIN b : b[i].req = r
                    THEN prompts[r] \o plps[CHOOSE i \in DOMAIN b : b[i].req = r]
                    ELSE prompts[r]]
             /\ UNCHANGED failed

Step ==
    /\ UNCHANGED <<config, arrived, preempted>>
    /\ \E b \in {Batch} :
        /\ b # <<>>
        /\ IF StepFails(b) THEN Fail
           ELSE \E logits \in {Logits(b)}, params \in {ParamRows(b)}, toks \in Tokens(b) :
                    \E results \in {[i \in DOMAIN b |-> [k \in 1 .. SampleCount(b[i]) |->
                                        Sample(b, i, k, logits, params, toks[<<i, k>>])]]} :
                        Finish(b, results, [i \in DOMAIN b |-> PromptLogprobs(b, i, logits)])

Next ==
    /\ ~failed
    /\ \/ \E r \in Requests : Arrive(r)
       \/ \E r \in arrived : Preempt(r)
       \/ Step

Spec == Init /\ [][Next]_vars

-----------------------------------------------------------------------------
\* Properties.

Seqs == DOMAIN seqs

\* Every token of a sequence is drawn from the row of the token before it, with
\* the parameters - and but for chunked prefill the generator - of its own
\* request; its log probabilities, the other candidates' included, are of that row.
SampledFromOwnRow ==
    \A s \in Seqs : \A k \in DOMAIN seqs[s].hist :
        LET n == seqs[s].hist[k]
        IN /\ n.token = n.own /\ n.logprob = n.own /\ n.top = n.own
           /\ n.params = seqs[s].req
           /\ config.chunked \/ n.generator \in {None, seqs[s].req}

\* A seeded request is drawn with the generator it has seeded.
SeededByOwn ==
    \A s \in Seqs : \A k \in DOMAIN seqs[s].hist :
        seqs[s].hist[k].generator \in {None, seqs[s].req}

\* The energy score of a token is that of the logits it is drawn from.
EnergyOfOwnRow ==
    \A s \in Seqs : \A k \in DOMAIN seqs[s].hist :
        seqs[s].hist[k].energy = seqs[s].hist[k].own

\* A sequence that has ended has the embedding of its own EOS token, although
\* its last token has been another when it stopped.
EndsWithOwnEmbedding ==
    \A s \in Seqs : seqs[s].status = "finished" =>
        /\ Last(seqs[s].out) = "eos"
        /\ seqs[s].eos_embedding = <<s, LenOf(s)>>

\* Whatever a sequence is given by the sampler is its own.
ResultsAreOwn == SampledFromOwnRow /\ EndsWithOwnEmbedding

\* Once a request has a token, its prompt log probabilities cover the prompt
\* but for its first token, each from the row of the token before it.
PromptLogprobsComplete ==
    \A r \in arrived :
        Params(r).prompt_logprobs # None /\ seqs[groups[r][1]].out # <<>> =>
            prompts[r] = [k \in 1 .. Params(r).prompt - 1 |->
                            <<<<groups[r][1], k>>, <<groups[r][1], k>>, k + 1>>]

\* No step ends by an exception.
NeverFails == ~failed

\* Where prompts are not cut, nothing is recomputed, and what is asked for is
\* none of the cases below, whatever the batch.
PlainStepsSucceed ==
    /\ ~config.chunked /\ config.preemptions = 0
    /\ \A r \in Requests :
        /\ Params(r).logprobs /\ Params(r).prompt_logprobs # 0
        /\ Params(r).cached > 0 => Params(r).prompt_logprobs = None
    => NeverFails
=============================================================================
