--------------------------- MODULE CompletionServer ---------------------------
(***************************************************************************)
(* One HTTP request from its validation to its answer: the handlers of the *)
(* OpenAI server (entrypoints/openai/serving_*.py) and of the demo server  *)
(* (entrypoints/api_server.py).  The prompts of a completion are streams   *)
(* of one engine, merged by MergeIterators; a chat and /generate read      *)
(* their only stream, which is taken for a merge of one.  The engine gives *)
(* each running sequence a token per step and puts the output of the       *)
(* request in its stream; text comes from Detokenizer.                     *)
(***************************************************************************)
EXTENDS FiniteSets, MergeIterators, Detokenizer

CONSTANT
    Cases       \* pairs of what the server was started with and what a client sends it

ASSUME CasesAssumption ==
    \A c \in Cases :
        /\ c[2].kind \in {"completion", "chat", "embedding", "generate"}
        /\ c[2].prompts \in Seq(Seq(DOMAIN BytesOf)) /\ DOMAIN c[2].prompts \subseteq Iterators
        /\ c[2].truncate = None \/ c[2].truncate \in Nat \ {0}

VARIABLES
    config,     \* ModelConfig, SchedulerConfig, ...: what the request meets
    req,        \* the request
    stage,      \* "start", "serving", then how it came out
    connected,  \* the client is still there
    aborted,    \* prompts whose request was aborted
    error,      \* what a stream raises: "none", "value" (ValueError), "other"
    computed,   \* tokens of each prompt the engine has computed
    seqs,       \* the sequences of each prompt
    outputs,    \* the RequestOutputs of each prompt, all of them
    final,      \* final_res_batch, the place of a result in outputs
    sent        \* what has been streamed for each choice

requestVars == <<config, req, stage, connected, aborted, error>>
engineVars == <<computed, seqs, outputs>>
serverVars == <<vars, requestVars, engineVars, final, sent>>

-----------------------------------------------------------------------------
\* What the request asks for.

BestOf(r) == IF r.bestOf = None THEN r.n ELSE r.bestOf

\* echo_without_generation
EchoesOnly(r) == r.kind = "completion" /\ r.echo /\ r.maxTokens = 0

\* to_sampling_params, and the fields SamplingParams computes
SamplingParams(r, maxTokens) ==
    LET logprobs == IF r.kind # "chat" THEN r.logprobs
                    ELSE IF r.logprobs = 0 THEN None ELSE r.topLogprobs
        longest == Max({Len(r.stop[k]) : k \in DOMAIN r.stop})
    IN [n |-> r.n, bestOf |-> BestOf(r), logprobs |-> logprobs,
        promptLogprobs |-> IF ~r.echo THEN None
                           ELSE IF r.kind = "chat" THEN r.topLogprobs ELSE logprobs,
        maxTokens |-> IF EchoesOnly(r) THEN 1 ELSE maxTokens,
        minTokens |-> r.minTokens, ignoreEos |-> r.ignoreEos,
        stop |-> r.stop, includeStop |-> r.includeStop, stopTokens |-> r.stopTokens,
        buffer |-> IF r.stop = <<>> \/ r.includeStop THEN 0 ELSE longest - 1,
        skip |-> r.skip, spaces |-> r.spaces]

\* _verify_args, _verify_beam_search, _verify_greedy_sampling.  The ranges of
\* the other parameters are one flag.
Verified(r, p) ==
    /\ p.n >= 1 /\ p.bestOf >= p.n
    /\ p.maxTokens # None => p.maxTokens >= 1 /\ p.minTokens <= p.maxTokens
    /\ p.logprobs # None => p.logprobs >= 0
    /\ \A k \in DOMAIN p.stop : p.stop[k] # <<>>
    /\ IF r.beam THEN p.bestOf > 1 ELSE r.greedy => p.bestOf = 1
    /\ r.inRange

\* The token ids of a prompt, cut on the left.
TokenIds(r, prompt) == IF r.truncate = None THEN prompt ELSE LastOf(prompt, r.truncate)

\* _validate_prompt_and_tokenize for each prompt: the first one replaces a
\* max_tokens that is not given, for all.
Admission(r) ==
    LET len(p) == Len(TokenIds(r, p))
        admit(acc, p) ==
            LET asked == IF acc.maxTokens = None THEN config.maxModelLen - len(p)
                         ELSE acc.maxTokens
            IN IF r.kind = "embedding"
               THEN [acc EXCEPT !.ok = @ /\ p # <<>> /\ len(p) <= config.maxModelLen]
               ELSE [ok |-> /\ acc.ok /\ p # <<>>
                            /\ acc.maxTokens = None => len(p) < config.maxModelLen
                            /\ len(p) + asked <= config.maxModelLen,
                     maxTokens |-> asked]
    IN FoldLeft(admit, [ok |-> TRUE, maxTokens |-> r.maxTokens], r.prompts)

\* A completion makes its SamplingParams before it looks at the prompts, a
\* chat afterwards.
ParamsOf(r) ==
    SamplingParams(r, IF r.kind = "chat" THEN Admission(r).maxTokens ELSE r.maxTokens)

\* The request passes validation; for /generate there is none but that of
\* SamplingParams.
Valid(r) ==
    /\ r.model # "unknown" /\ ~r.unsupported
    /\ r.kind # "embedding" => Verified(r, ParamsOf(r))
    /\ r.kind = "chat" => (r.logprobs # 0 => r.topLogprobs \notin {None, 0})
    /\ r.kind # "generate" => r.prompts # <<>> /\ Admission(r).ok

\* prompt[0][0] of [[]]
IndexesNothing(r) ==
    /\ r.kind \in {"completion", "embedding"} /\ r.asLists
    /\ r.prompts # <<>> /\ r.prompts[1] = <<>>
    /\ r.model # "unknown" /\ ~r.unsupported
    /\ r.kind = "completion" => Verified(r, ParamsOf(r))

\* The answer is streamed as it is made.
Streams(r) ==
    /\ r.stream
    /\ r.kind = "completion" => r.bestOf \in {None, r.n} /\ ~r.beam
    /\ r.kind # "embedding"

\* The handler asks whether the client is still there.
ChecksClient(r) == r.kind \in {"completion", "embedding"} \/ ~r.stream

Prompts == DOMAIN req.prompts
Ids(i) == TokenIds(req, req.prompts[i])

-----------------------------------------------------------------------------
\* The engine.

\* _create_sequence_group_with_sampling and add_request raise ValueError.
EngineRefuses ==
    LET tooMany(k) == k # None /\ k > config.maxLogprobs
    IN \/ req.kind # "embedding" /\ (tooMany(ParamsOf(req).logprobs)
                                     \/ tooMany(ParamsOf(req).promptLogprobs))
       \/ req.model = "lora" /\ ~config.lora

\* The scheduler ignores the prompt (_schedule_prefills): blocks for it there
\* will never be, or it is longer than the limit.  With chunked prefill only
\* the part that is left of the budget of the step is compared with the limit.
Ignored(i) ==
    \/ Len(Ids(i)) > config.cacheTokens
    \/ ~config.chunked /\ Len(Ids(i)) > config.promptLimit

MayBeIgnored(i) ==
    Ignored(i) \/ (config.chunked /\ Min({Len(Ids(i)), config.budget}) > config.promptLimit)

Serves(i) ==
    /\ stage # "start" /\ error = "none" /\ ~EngineRefuses
    /\ i \in Prompts \ aborted /\ producer[i] = "runs"

\* The reason an output gives for the end of a sequence; None as long as it runs.
ReasonOf(s) == IF s.status = "running" THEN None ELSE s.status

\* from_seq_group: the best n sequences, in whatever order.
OutputsOf(new) ==
    {[choices |-> [c \in top |-> [text |-> OutputTextToReturn(new[c], ParamsOf(req)),
                                  reason |-> ReasonOf(new[c])]],
      finished |-> \A c \in DOMAIN new : IsFinished(new[c])] :
     top \in IF Len(new) = 1 THEN {{1}} ELSE kSubset(req.n, DOMAIN new)}

\* compute_uncertainty reads the log probabilities of a finished request, and
\* eigen_alpha if there are several choices and one is not blank.
UncertaintyFails(o) ==
    \/ ParamsOf(req).logprobs = None
    \/ /\ ~config.eigenAlpha /\ Cardinality(DOMAIN o.choices) > 1
       /\ \E c \in DOMAIN o.choices : Range(o.choices[c].text) \ {"_"} # {}

\* Embeddings are asked for, or are all the model makes.
IsEmbedding == req.kind = "embedding" \/ config.embedding

\* The output of a step is put in the stream, or the step ends the engine.
Emit(i, new) ==
    /\ seqs' = [seqs EXCEPT ![i] = new]
    /\ \E o \in OutputsOf(new) :
          IF o.finished /\ UncertaintyFails(o)
          THEN error' = "other" /\ UNCHANGED <<vars, outputs>>
          ELSE /\ outputs' = [outputs EXCEPT ![i] = Append(@, o)]
               /\ IF o.finished THEN ProduceLast(i) ELSE Produce(i)
               /\ UNCHANGED error
    /\ UNCHANGED <<config, req, stage, connected, aborted, final, sent>>

IgnorePrompt(i) ==
    /\ Serves(i) /\ computed[i] = 0 /\ MayBeIgnored(i) /\ req.kind # "embedding"
    /\ Emit(i, <<[NewSequence EXCEPT !.status = "length"]>>)
    /\ UNCHANGED computed

\* A step computes something for the prompt.  It attaches a score to each
\* output (_attach_jacobian_score), for which an engine in a Ray actor lacks the
\* attributes that were set on its handle (from_engine_args).
Computes(i) == Serves(i) /\ ~Ignored(i) /\ ~config.actor

AttributeMissing(i) ==
    /\ Serves(i) /\ ~Ignored(i) /\ config.actor
    /\ error' = "other"
    /\ UNCHANGED <<vars, config, req, stage, connected, aborted, engineVars, final, sent>>

\* A chunk of the prompt that is not its last.
PrefillPart(i) ==
    /\ Computes(i) /\ ~IsEmbedding /\ config.chunked
    /\ \E k \in computed[i] + 1 .. Len(Ids(i)) - 1 : computed' = [computed EXCEPT ![i] = k]
    /\ Emit(i, seqs[i])

\* The sequences after the first sample: the parent has been forked.
Forked(i) ==
    IF computed[i] = Len(Ids(i)) THEN seqs[i]
    ELSE [c \in 1 .. BestOf(req) |-> Head(seqs[i])]

\* What may be sampled for a sequence: no end before min_tokens, and eos for
\* one whose end is put off.
Candidates(s) ==
    IF IsFinished(s) \/ s.real # "none" THEN {Eos}
    ELSE IF Len(s.out) < req.minTokens THEN req.vocab \ (req.stopTokens \cup {Eos})
    ELSE req.vocab

\* One step of the sequences of prompt i.
Step(i) ==
    LET old == Forked(i)
        advance(s, t) ==
            IF IsFinished(s) THEN s
            ELSE IF s.real # "none" THEN TakeRealStatus(s)
            ELSE TakeToken(s, t, Ids(i), ParamsOf(req), config.maxModelLen)
    IN /\ Computes(i) /\ ~IsEmbedding
       /\ \E new \in
             {[c \in DOMAIN old |-> advance(old[c], t[c])] :
              t \in {t \in [DOMAIN old -> req.vocab \cup {Eos}] :
                        \A c \in DOMAIN old : t[c] \in Candidates(old[c])}} : Emit(i, new)
       /\ computed' = [computed EXCEPT ![i] = Len(Ids(i))]

\* compute_uncertainty takes the embedding for a list of completions; an
\* ignored request for an embedding has no sampling parameters.
StepEmbedding(i) ==
    /\ Serves(i) /\ IsEmbedding /\ (req.kind = "embedding" \/ ~Ignored(i)) /\ ~config.actor
    /\ error' = "other"
    /\ UNCHANGED <<vars, config, req, stage, connected, aborted, engineVars, final, sent>>

\* The stream raises: its request was not added, or the engine has died.
StreamFails(i) ==
    /\ stage # "start" /\ i \in Prompts \ aborted
    /\ EngineRefuses \/ error = "other"
    /\ ProduceError(i)
    /\ error' = IF error = "none" THEN "value" ELSE error
    /\ UNCHANGED <<config, req, stage, connected, aborted, engineVars, final, sent>>

\* The stream of an aborted request ends.
StreamEnds(i) ==
    /\ i \in aborted
    /\ EndSilently(i)
    /\ UNCHANGED <<requestVars, engineVars, final, sent>>

Engine(i) ==
    \/ IgnorePrompt(i) \/ PrefillPart(i) \/ Step(i)
    \/ StepEmbedding(i) \/ AttributeMissing(i)
    \/ StreamFails(i) \/ StreamEnds(i)

-----------------------------------------------------------------------------
\* The handler.

Fresh == [chars |-> 0, num |-> 0, echoed |-> FALSE, finished |-> FALSE,
          text |-> <<>>, ids |-> 0, finals |-> 0, prompts |-> 0]

\* create_completion, create_chat_completion, create_embedding or generate, up
\* to its first wait.
Start ==
    /\ stage = "start"
    /\ stage' = IF IndexesNothing(req) \/ (req.kind = "generate" /\ ~Valid(req)) THEN "crashed"
                ELSE IF Valid(req) THEN "serving" ELSE "error"
    /\ producer' = [i \in Iterators |-> IF i \in Prompts THEN "runs" ELSE "ended"]
    /\ finished' = [i \in Iterators |-> i \notin Prompts]
    /\ seqs' = [i \in Prompts |-> <<NewSequence>>]
    /\ sent' = [choice \in Prompts \X (1 .. BestOf(req)) |-> Fresh]
    /\ UNCHANGED <<yielded, queue, consumer, got, config, req, connected, aborted, error,
                   computed, outputs, final>>

\* The prompt logprobs there are by now: the list grows in place.
PromptLogprobs(i) ==
    IF ParamsOf(req).promptLogprobs = None \/ computed[i] = 0 THEN None
    ELSE Min({computed[i] + 1, Len(Ids(i))})

\* _create_logprobs fails for ids tokens and lps logprobs, the first of which is None.
CreateLogprobsFails(ids, lps) == lps = None \/ ids > lps \/ req.logprobs = 0

\* The first chunk of a choice that echoes the prompt
EchoFails(i, c) ==
    LET lps == PromptLogprobs(i)
        num == Len(seqs[i][c].out)
    IN IF EchoesOnly(req)
       THEN req.logprobs # None /\ CreateLogprobsFails(Len(Ids(i)), lps)
       ELSE lps = None \/ CreateLogprobsFails(Len(Ids(i)) + num, lps + num)

\* A chunk raises: log probabilities of an echoed prompt, or the lists of a
\* chat, which have n places.
ChunkFails(i, c) ==
    \/ /\ req.kind = "completion" /\ req.echo
       /\ EchoesOnly(req) \/ ~sent[<<i, c>>].echoed
       /\ EchoFails(i, c)
    \/ req.kind = "chat" /\ c > req.n

\* The part of the text that has not been sent, and all of it
MutDeltaText(s, text) == text
DeltaText(s, text) == From(text, s.chars)

\* A chunk for one choice: what has been sent of it then.
Chunk(s, o, num) ==
    LET seen == [s EXCEPT !.chars = Len(o.text), !.num = num, !.finished = o.reason # None,
                          !.finals = @ + (IF o.reason # None THEN 1 ELSE 0)]
        delta == [seen EXCEPT !.text = @ \o DeltaText(s, o.text), !.ids = @ + num - s.num]
    IN IF req.kind = "generate" THEN [seen EXCEPT !.text = o.text, !.ids = num]
       ELSE IF req.kind = "chat" THEN IF s.finished THEN s ELSE delta
       ELSE IF EchoesOnly(req) THEN [seen EXCEPT !.echoed = TRUE, !.prompts = @ + 1]
       ELSE IF req.echo /\ ~s.echoed
       THEN [seen EXCEPT !.echoed = TRUE, !.prompts = @ + 1, !.text = @ \o o.text, !.ids = @ + num]
       ELSE delta

\* The last output the handler has read, of prompt i.
Reading(i) == consumer = "caller" /\ stage = "serving" /\ Last(got)[1] = i
Item(i) == outputs[i][Last(got)[2]]

\* The client has gone: the request of this prompt is aborted.
Leave(i) ==
    /\ Reading(i) /\ ~connected /\ ChecksClient(req)
    /\ stage' = "dropped"
    /\ aborted' = aborted \cup {i}
    /\ UNCHANGED <<vars, config, req, connected, error, engineVars, final, sent>>

StreamChunks(i) ==
    /\ Reading(i) /\ Streams(req) /\ (connected \/ ~ChecksClient(req))
    /\ IF \E c \in DOMAIN Item(i).choices : ChunkFails(i, c)
       THEN stage' = "crashed" /\ UNCHANGED <<vars, sent>>
       ELSE IF req.kind = "chat" /\ req.echo     \* the chunk of the echo has a field too many
       THEN stage' = "error" /\ UNCHANGED <<vars, sent>>
       ELSE /\ sent' = [k \in DOMAIN sent |->
                  IF k[1] = i /\ k[2] \in DOMAIN Item(i).choices
                  THEN Chunk(sent[k], Item(i).choices[k[2]], Len(seqs[i][k[2]].out))
                  ELSE sent[k]]
            /\ Resume /\ UNCHANGED stage
    /\ UNCHANGED <<config, req, connected, aborted, error, engineVars, final>>

KeepResult(i) ==
    /\ Reading(i) /\ ~Streams(req) /\ (connected \/ ~ChecksClient(req))
    /\ final' = [final EXCEPT ![i] = Last(got)]
    /\ Resume
    /\ UNCHANGED <<requestVars, engineVars, sent>>

\* request_output_to_completion_response fails for the log probabilities of an
\* echoed prompt.
ResponseFails ==
    /\ req.kind = "completion" /\ req.echo /\ req.logprobs # None
    /\ \E i \in Prompts : req.logprobs = 0 \/ PromptLogprobs(i) = None

\* The streams have ended: the last event, or the response.
Finish ==
    /\ stage = "serving" /\ consumer = "ended"
    /\ stage' = IF ~Streams(req) /\ ResponseFails THEN "crashed" ELSE "done"
    /\ UNCHANGED <<vars, config, req, connected, aborted, error, engineVars, final, sent>>

\* except ValueError, and handlers without one
AnswersValueError(r) == r.kind # "generate"

\* What the streams raise.
Fail ==
    /\ stage = "serving" /\ consumer = "raised"
    /\ stage' = IF error = "value" /\ AnswersValueError(req) THEN "error" ELSE "crashed"
    /\ UNCHANGED <<vars, config, req, connected, aborted, error, engineVars, final, sent>>

\* Reading goes on (merge_async_iterators).
Read ==
    /\ stage = "serving"
    /\ Test \/ Get \/ Gather
    /\ UNCHANGED <<requestVars, engineVars, final, sent>>

Disconnect ==
    /\ stage = "serving" /\ connected /\ req.mayLeave
    /\ connected' = FALSE
    /\ UNCHANGED <<vars, config, req, stage, aborted, error, engineVars, final, sent>>

\* The task of a streamed answer is cancelled while it waits; each stream
\* aborts its request.
CancelStreaming ==
    /\ stage = "serving" /\ ~connected /\ Streams(req)
    /\ CancelConsumer
    /\ stage' = "dropped"
    /\ aborted' = aborted \cup {i \in Prompts : producer[i] = "runs"}
    /\ UNCHANGED <<config, req, connected, error, engineVars, final, sent>>

Handler ==
    \/ Start \/ Read \/ Finish \/ Fail
    \/ \E i \in Iterators : Leave(i) \/ StreamChunks(i) \/ KeepResult(i)

-----------------------------------------------------------------------------
\* Nothing has been asked yet.
Idle ==
    /\ stage = "start" /\ connected = TRUE /\ aborted = {} /\ error = "none"
    /\ Init
    /\ computed = [i \in Iterators |-> 0]
    /\ seqs = <<>> /\ sent = <<>>
    /\ outputs = [i \in Iterators |-> <<>>]
    /\ final = [i \in Iterators |-> None]

ServerInit == <<config, req>> \in Cases /\ Idle

\* Nothing more happens to a request that has come to an end.
Over == stage \notin {"start", "serving"} /\ UNCHANGED serverVars

ServerNext ==
    \/ Handler \/ Disconnect \/ CancelStreaming \/ Over
    \/ \E i \in Iterators : Engine(i)

ServerSpec == ServerInit /\ [][ServerNext]_serverVars

-----------------------------------------------------------------------------
\* Type invariant: the queue carries outputs that were made, and what is
\* counted stays in range.
ServerTypeOK ==
    /\ TypeOK
    /\ stage \in {"start", "serving", "done", "error", "crashed", "dropped"}
    /\ error \in {"none", "value", "other"}
    /\ aborted \subseteq Iterators
    /\ stage # "start" => \A i \in Prompts : computed[i] \in 0 .. Len(Ids(i))
    /\ \A i \in Iterators : yielded[i] = Len(outputs[i])

\* The text of a sequence that goes on is what its tokens decode to, all of it
\* but an unfinished character at the end, in whatever pieces it was decoded.
TextIsWhole ==
    \A i \in DOMAIN seqs : \A c \in DOMAIN seqs[i] :
        LET s == seqs[i][c]
            decode(ids) == TextOf(ConvertIdsToTokens(ids, req.skip), req)
            tail == From(decode(Ids(i) \o s.out), Len(decode(Ids(i))))
        IN s.status = "running" /\ s.real = "none" =>
              IsPrefix(s.text, tail) /\ (s.text # tail => Unfinished(tail))

\* No stop string is left in a text, or only at its end, if there is one and
\* min_tokens does not keep it from being looked for.
EndsAtStop ==
    \A i \in DOMAIN seqs : \A c \in DOMAIN seqs[i] : \A k \in DOMAIN req.stop :
        LET text == seqs[i][c].text
            stop == req.stop[k]
        IN Len(req.stop) = 1 /\ req.minTokens = 0 =>
              Find(text, stop, 0) \in {-1} \cup (IF req.includeStop THEN {Len(text) - Len(stop)} ELSE {})

\* What a client was sent is never taken back and never sent again: the chunks
\* of a choice make up a beginning of its text, and all of it and of its tokens
\* when the answer is complete.
Streamed ==
    \A k \in DOMAIN sent :
        LET s == sent[k]
            seq == seqs[k[1]][k[2]]
        IN k[2] \in DOMAIN seqs[k[1]] =>
              /\ IsPrefix(s.text, seq.text)
              /\ stage = "done" /\ Streams(req) /\ BestOf(req) = req.n =>
                    /\ s.finals >= 1
                    /\ ~EchoesOnly(req) => s.text = seq.text /\ s.ids = Len(seq.out)
                    /\ s.prompts >= (IF req.kind = "completion" /\ req.echo THEN 1 ELSE 0)

\* It is so if no text is held back and min_tokens does not delay the search.
StreamedIsFinal ==
    stage # "start" /\ (req.stop = <<>> \/ (ParamsOf(req).buffer = 0 /\ req.minTokens = 0))
        => Streamed

\* The response is made of the last output of every prompt, each at its place.
ResponseIsFinal ==
    stage = "done" /\ ~Streams(req) =>
        \A i \in Prompts :
            /\ final[i] = <<i, Len(outputs[i])>>
            /\ outputs[i][Len(outputs[i])].finished

\* A request ends without an answer for these reasons only.
OnlyKnownCrashes ==
    stage = "crashed" =>
        \/ IndexesNothing(req)
        \* the engine dies
        \/ IsEmbedding \/ ParamsOf(req).logprobs = None
        \/ config.actor \/ (~config.eigenAlpha /\ req.n > 1)
        \/ req.kind = "generate" /\ (~Valid(req) \/ EngineRefuses)
        \/ req.kind = "chat" /\ Streams(req) /\ BestOf(req) > req.n
        \/ /\ req.kind = "completion" /\ req.echo
           /\ req.logprobs = 0 \/ config.chunked \/ \E i \in Prompts : Ignored(i)

\* The handler never waits for a queue that nobody will fill, nor for a task
\* that will not end: whoever still runs has a step to take.  As every step adds
\* to what is computed, queued or read, each request comes to an end.
HandlerIsServed ==
    stage = "serving" =>
        /\ consumer = "get" => queue # <<>> \/ \E i \in Prompts : producer[i] = "runs"
        /\ consumer = "gather" => \A i \in Iterators : producer[i] = "ended"

\* What holds of the streams, of their merging and of the handler in every state.
ServerInv == ServerTypeOK /\ MergeInv /\ HandlerIsServed /\ ResponseIsFinal

\* The text is what the engine made of the request, up to where it stops, what is
\* streamed adds up to it, and there is an answer but for known reasons.
AnswerIsWhole == TextIsWhole /\ EndsAtStop /\ StreamedIsFinal /\ OnlyKnownCrashes
=============================================================================
