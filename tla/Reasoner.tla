------------------------------ MODULE Reasoner ------------------------------
(***************************************************************************)
(* MultiHopReasoner.solve (SEAKR/reasoner.py) for one question: the loop   *)
(* that answers a step directly, and retrieves documents when the answer   *)
(* is too uncertain, then the two final readings and their comparison.     *)
(* The coroutine is suspended only in call_llm, so an action is the code   *)
(* from one call to the next; "retrieve" cuts one such piece in two and is *)
(* never interrupted.  A text is what the program's checks see in it: see  *)
(* Contents and Answers.                                                   *)
(***************************************************************************)
EXTENDS Integers, SequencesExt, FiniteSets

CONSTANTS
    Docs,               \* documents of the index, and the dummy ones
    Queries,            \* queries that may be built
    Question,           \* the one built from the question itself
    NoDoc,              \* model value: best_docid of a direct step
    TopK,               \* documents a retrieval returns
    MaxReasoningSteps,  \* max_reasoning_steps
    MaxDocs,            \* max_docs
    DecisionMode,       \* decision_mode
    CallCap             \* bound: llm_call_times is not counted further

ASSUME ReasonerAssumption ==
    /\ Question \in Queries
    /\ NoDoc \notin Docs /\ IsFiniteSet(Docs)
    /\ TopK \in Nat \ {0}
    /\ MaxReasoningSteps \in Nat \ {0}
    /\ MaxDocs \in Nat \ {0}
    /\ DecisionMode \in {"eigen", "jacobian"}
    /\ CallCap \in Nat

VARIABLES
    pc,                 \* the call that is awaited, or where solve() is
    running_steps,
    last_step,          \* the step rag() has popped
    searched_queries,
    doc_id_list,        \* and docs, which grows with it
    candidates,         \* documents rag() has still to read
    best,               \* the best answer over those it has read
    final_step_answer, final_step_score,
    final_read_answer,
    final_answer,
    llm_call_times,
    left,               \* why the loop was left
    error               \* the exception that ended solve(), or "none"

finals == <<final_step_answer, final_step_score, final_read_answer, final_answer>>
rag == <<last_step, candidates, best>>
vars == <<pc, running_steps, rag, searched_queries, doc_id_list, finals,
          llm_call_times, left, error>>

\* What a step says: nothing, a thought, the final answer and nothing else,
\* both, or an answer cut by a stop string before its "." or ",", which
\* _check_final_answer does not find and filter_last_step does.
Contents == {"blank", "thought", "answer", "both", "cut"}
\* What _check_final_answer makes of a text: None, "", or an answer.
Answers == {"none", "empty", "unknown", "known"}
\* Scores as far as they compare with each other and with the threshold.
Scores == {0, 1}
Threshold == 0
Infinity == 2
Outputs == [content : Contents, score : Scores]
FinalOutputs == [answer : Answers, score : Scores]
Steps == [status : {"DIRECT_SUCCESS", "DIRECT_FAILED", "RAG_FINISHED"},
          content : Contents, doc : Docs \cup {NoDoc}]
NoStep == [status |-> "DIRECT_FAILED", content |-> "blank", doc |-> NoDoc]
NoBest == [doc |-> NoDoc, out |-> [content |-> "blank", score |-> 0]]

Calls == {"answer_direct", "rag", "read_steps", "force_steps", "read_docs",
          "force_docs"}
Loop == {"answer_direct", "retrieve", "rag"}

-----------------------------------------------------------------------------
\* call_llm returned.
CallReturns ==
    llm_call_times' = IF llm_call_times < CallCap THEN llm_call_times + 1
                      ELSE llm_call_times

\* check_final_step
HasFinalAnswer(s) == Last(s).content \in {"answer", "both"}

\* filter_last_step drops the sentences that hold the answer.
FilterLastStep(s) ==
    CASE Last(s).content = "thought" -> s
      [] Last(s).content = "both" -> [s EXCEPT ![Len(s)].content = "thought"]
      [] OTHER -> Front(s)

\* The condition of the last break of the loop
Limit(s, d) == Len(s) >= MaxReasoningSteps \/ Len(d) >= MaxDocs

\* A break: the rest of solve() up to the call of read_all_steps.
LeaveLoop(why, s) ==
    /\ left' = why
    /\ IF s = <<>> THEN                            \* running_steps[-1]
          pc' = "failed" /\ error' = "IndexError" /\ running_steps' = s
       ELSE
          /\ pc' = "read_steps" /\ running_steps' = FilterLastStep(s)
          /\ UNCHANGED error

\* The end of an iteration, with the steps s and the documents d.
EndIteration(s, d) ==
    IF HasFinalAnswer(s) THEN
       /\ \E a \in {"known", "unknown"} : final_step_answer' = a
       /\ LeaveLoop("answer", s)
    ELSE
       /\ UNCHANGED final_step_answer
       /\ IF Limit(s, d) THEN LeaveLoop("limit", s)
          ELSE pc' = "answer_direct" /\ running_steps' = s /\ UNCHANGED <<left, error>>

\* rag() returned None: the loop ends, or in the mutant goes on.
MutNoUsefulDocs(why) ==
    /\ pc' = "answer_direct"
    /\ UNCHANGED <<running_steps, left, error>>
NoUsefulDocs(why) == LeaveLoop(why, running_steps)

\* _should_trigger_retrieval is reached, and reads an undefined name.
RaisesNameError(out) == DecisionMode = "jacobian" /\ out.content # "blank"

Status(out) ==
    IF out.content = "blank" \/ out.score > Threshold
    THEN "DIRECT_FAILED" ELSE "DIRECT_SUCCESS"

\* The pop of rag(), and a rag() that only looks at the last step.
MutPop(s) == s
Pop(s) == Front(s)

\* answer_direct, check_final_step, and rag() up to its pop
AnswerDirect ==
    /\ pc = "answer_direct"
    /\ CallReturns
    /\ \E out \in Outputs :
          LET step == [status |-> Status(out), content |-> out.content, doc |-> NoDoc]
              s == Append(running_steps, step)
          IN  IF RaisesNameError(out) THEN
                 /\ pc' = "failed" /\ error' = "NameError"
                 /\ UNCHANGED <<running_steps, last_step, left, final_step_answer>>
              ELSE IF step.status = "DIRECT_FAILED" /\ ~HasFinalAnswer(s) THEN
                 /\ pc' = "retrieve"
                 /\ last_step' = step
                 /\ running_steps' = Pop(s)
                 /\ UNCHANGED <<left, error, final_step_answer>>
              ELSE EndIteration(s, doc_id_list) /\ UNCHANGED last_step
    /\ UNCHANGED <<searched_queries, doc_id_list, candidates, best,
                   final_step_score, final_read_answer, final_answer>>

\* _build_query and _filter_words may leave nothing of a step.
QueriesFor(step) == IF step.content = "blank" THEN {Question} ELSE Queries

\* A retrieval that ignores what was searched before.
MutSearched(q) == FALSE
Searched(q) == q \in searched_queries

\* The temperature-scope selection, which comes before the known documents
\* are taken out.
Selections(found) ==
    IF DecisionMode = "jacobian" THEN SUBSET found \ {{}} ELSE {found}

\* The documents rag() reads
NewDocs(chosen) == chosen \ Range(doc_id_list)

\* rag() from _retrieve to its first call_llm, or to its "return None"
Retrieve ==
    /\ pc = "retrieve"
    /\ \E q \in QueriesFor(last_step) :
          IF Searched(q) THEN                         \* Retrieval Duplicated
             /\ NoUsefulDocs("duplicate")
             /\ UNCHANGED <<searched_queries, rag>>
          ELSE
             /\ searched_queries' = searched_queries \cup {q}
             /\ \/ /\ NoUsefulDocs("no retrieval")    \* Retrieval failed
                   /\ UNCHANGED rag
                \/ \E found \in SUBSET Docs :
                      /\ Cardinality(found) = TopK
                      /\ \E chosen \in Selections(found) :
                            /\ candidates' = NewDocs(chosen)
                            /\ best' = NoBest
                            /\ IF NewDocs(chosen) = {} THEN NoUsefulDocs("known docs")
                               ELSE /\ pc' = "rag"
                                    /\ UNCHANGED <<running_steps, left, error>>
                      /\ UNCHANGED last_step
    /\ UNCHANGED <<doc_id_list, finals, llm_call_times>>

\* sort_key
Key(out) == IF out.content = "blank" THEN Infinity ELSE out.score

\* The best answer so far, and one that ignores blank answers.
MutBetter(d, out) == IF Key(out) < Key(best.out) THEN [doc |-> d, out |-> out] ELSE best
Better(d, out) ==
    IF best = NoBest \/ Key(out) < Key(best.out) THEN [doc |-> d, out |-> out] ELSE best

\* The document list after rag(), and one that forgets the document.
MutRemember(d) == doc_id_list
Remember(d) == Append(doc_id_list, d)

\* One call_llm of rag(); after the last one its end and that of the iteration.
ReadDoc ==
    /\ pc = "rag"
    /\ CallReturns
    /\ \E d \in candidates, out \in Outputs :
          LET b == Better(d, out)
              s == Append(running_steps, [status |-> "RAG_FINISHED",
                                          content |-> b.out.content, doc |-> b.doc])
          IN  /\ candidates' = candidates \ {d}
              /\ IF candidates # {d} THEN
                    /\ best' = b
                    /\ UNCHANGED <<pc, running_steps, left, error, doc_id_list,
                                   final_step_answer>>
                 ELSE
                    /\ best' = NoBest
                    /\ doc_id_list' = Remember(b.doc)
                    /\ EndIteration(s, Remember(b.doc))
    /\ UNCHANGED <<last_step, searched_queries, final_step_score,
                   final_read_answer, final_answer>>

-----------------------------------------------------------------------------
\* read_all_steps.  A forced answer is the whole text, and the score stays
\* that of the first call.

ReadSteps ==
    /\ pc = "read_steps"
    /\ CallReturns
    /\ \E out \in FinalOutputs :
          /\ final_step_score' = out.score
          /\ IF out.answer \in {"none", "empty"}
             THEN pc' = "force_steps" /\ UNCHANGED final_step_answer
             ELSE pc' = "read_docs" /\ final_step_answer' = out.answer
    /\ UNCHANGED <<running_steps, rag, searched_queries, doc_id_list,
                   final_read_answer, final_answer, left, error>>

ForceSteps ==
    /\ pc = "force_steps"
    /\ CallReturns
    /\ pc' = "read_docs"
    /\ \E a \in Answers \ {"none"} : final_step_answer' = a
    /\ UNCHANGED <<running_steps, rag, searched_queries, doc_id_list,
                   final_step_score, final_read_answer, final_answer, left, error>>

\* check_none_or_unknown
NoneOrUnknown(a) == a \in {"none", "unknown"}

\* compare_answer
Compare(step, read, readscore) ==
    IF NoneOrUnknown(step) THEN read
    ELSE IF NoneOrUnknown(read) \/ final_step_score < readscore THEN step ELSE read

Finish(answer, score) ==
    /\ final_read_answer' = answer
    /\ final_answer' = Compare(final_step_answer, answer, score)
    /\ pc' = "done"

\* read_all_docs and compare_answer
ReadDocs ==
    /\ pc = "read_docs"
    /\ CallReturns
    /\ \E out \in FinalOutputs :
          IF out.answer = "none"
          THEN pc' = "force_docs" /\ UNCHANGED <<final_read_answer, final_answer>>
          ELSE Finish(out.answer, out.score)
    /\ UNCHANGED <<running_steps, rag, searched_queries, doc_id_list,
                   final_step_answer, final_step_score, left, error>>

ForceDocs ==
    /\ pc = "force_docs"
    /\ CallReturns
    /\ \E out \in FinalOutputs : out.answer # "none" /\ Finish(out.answer, out.score)
    /\ UNCHANGED <<running_steps, rag, searched_queries, doc_id_list,
                   final_step_answer, final_step_score, left, error>>

\* The awaited call raises, or wait_for of run_one_question cancels it.
CallFails ==
    /\ pc \in Calls
    /\ pc' = "failed"
    /\ error' = "call"
    /\ UNCHANGED <<running_steps, rag, searched_queries, doc_id_list, finals,
                   llm_call_times, left>>

-----------------------------------------------------------------------------
Init ==
    /\ pc = "answer_direct"
    /\ running_steps = <<>> /\ doc_id_list = <<>> /\ searched_queries = {}
    /\ last_step = NoStep /\ candidates = {} /\ best = NoBest
    /\ final_step_answer = "none" /\ final_step_score = 0
    /\ final_read_answer = "none" /\ final_answer = "none"
    /\ llm_call_times = 0
    /\ left = "not yet" /\ error = "none"

Next ==
    \/ AnswerDirect \/ Retrieve \/ ReadDoc
    \/ ReadSteps \/ ForceSteps \/ ReadDocs \/ ForceDocs
    \/ CallFails

Spec == Init /\ [][Next]_vars

\* A call of the engine ends: run_one_question cancels one that does not.
FairSpec == Spec /\ WF_vars(Next)

-----------------------------------------------------------------------------
\* Type invariant: every value the coroutine keeps has its type.
TypeOK ==
    /\ pc \in Calls \cup {"retrieve", "done", "failed"}
    /\ running_steps \in Seq(Steps)
    /\ last_step \in Steps
    /\ searched_queries \subseteq Queries
    /\ doc_id_list \in Seq(Docs)
    /\ candidates \subseteq Docs
    /\ best \in [doc : Docs \cup {NoDoc}, out : Outputs]
    /\ final_step_answer \in Answers /\ final_step_score \in Scores
    /\ final_read_answer \in Answers /\ final_answer \in Answers
    /\ llm_call_times \in Nat
    /\ left \in {"not yet", "answer", "limit", "duplicate", "no retrieval", "known docs"}
    /\ error \in {"none", "IndexError", "NameError", "call"}

\* No document is read into the context twice, however often retrieval
\* returns it (rag() skips what is in doc_id_list).
NoDocReadTwice == IsInjective(doc_id_list)

\* The steps that rest on a document rest on docs, one on each, in that order.
RestOn(steps, docs) ==
    \E place \in [DOMAIN docs -> DOMAIN steps] :
        /\ \A i, j \in DOMAIN docs : i < j => place[i] < place[j]
        /\ \A i \in DOMAIN docs : steps[place[i]].doc = docs[i]
        /\ \A k \in DOMAIN steps :
              steps[k].doc # NoDoc => \E i \in DOMAIN docs : place[i] = k

\* Whenever a call can fail, the state that is pickled as a checkpoint has
\* its documents in step with its steps: in the loop every document in
\* doc_id_list is the best_docid of one step, in the same order, and after
\* filter_last_step at most the last one has lost its step.
CheckpointConsistent ==
    \/ RestOn(running_steps, doc_id_list)
    \/ /\ pc \notin Loop /\ doc_id_list # <<>>
       /\ RestOn(running_steps, Front(doc_id_list))

\* A step the model was too uncertain of is never reasoned from: at each call
\* of the loop no step is DIRECT_FAILED, rag() having replaced every one.
LowConfidenceReplaced ==
    pc \in Loop =>
        \A i \in DOMAIN running_steps : running_steps[i].status # "DIRECT_FAILED"

\* A question never has more steps or documents than it was allowed, though
\* both limits are only looked at after they have grown.
WithinLimits ==
    Len(running_steps) <= MaxReasoningSteps /\ Len(doc_id_list) <= MaxDocs

\* A question costs at most one direct call per step, one call per retrieved
\* candidate, and four calls for the final answers.
CallsBounded == llm_call_times <= MaxReasoningSteps + TopK * MaxDocs + 4

\* Every document came from a query of its own: a query is not sent again to
\* get the next best document out of it (Retrieval Duplicated).
OneDocPerQuery == Len(doc_id_list) <= Cardinality(searched_queries)

-----------------------------------------------------------------------------
\* Inside the loop both limits are still out of reach.
Bounds ==
    /\ WithinLimits
    /\ pc \in Loop => /\ Len(running_steps) < MaxReasoningSteps
                      /\ Len(doc_id_list) < MaxDocs

\* What rag() reads is new, and so is the best of what it has read.
DocsInv ==
    /\ NoDocReadTwice
    /\ pc = "rag" => /\ candidates \cap Range(doc_id_list) = {}
                     /\ best = NoBest \/ best.doc \in Docs \ Range(doc_id_list)

\* While rag() reads, its query has brought no document yet.
QueriesInv ==
    /\ IsFiniteSet(searched_queries)
    /\ OneDocPerQuery
    /\ pc = "rag" => Len(doc_id_list) < Cardinality(searched_queries)

\* What the calls made so far are accounted to.
Spent == Len(running_steps) + TopK * Len(doc_id_list)
Most == MaxReasoningSteps + TopK * MaxDocs
CallsInv ==
    /\ pc = "rag" => IsFiniteSet(candidates)
    /\ pc = "answer_direct" => llm_call_times <= Spent
    /\ pc = "retrieve" => llm_call_times <= Spent + 1
    /\ pc = "rag" => llm_call_times + Cardinality(candidates) <= Spent + 1 + TopK
    /\ pc = "read_steps" => llm_call_times <= Most
    /\ pc = "force_steps" => llm_call_times <= Most + 1
    /\ pc = "read_docs" => llm_call_times <= Most + 2
    /\ pc = "force_docs" => llm_call_times <= Most + 3
    /\ llm_call_times <= Most + 4

\* What every step preserves.  The limits, the documents, the queries and the
\* calls hold together: each needs the others in the middle of rag().
IInv ==
    /\ TypeOK
    /\ LowConfidenceReplaced
    /\ Bounds
    /\ DocsInv
    /\ QueriesInv
    /\ CallsInv

-----------------------------------------------------------------------------
\* solve() comes to an end, whatever the model answers and the retriever
\* returns: every iteration adds a step or leaves the loop.
SolveEnds == <>(pc \in {"done", "failed"})

\* When retrieval finds no useful documents, the last step is regenerated
\* and the question answered ("No More Useful docs", "regenerate_last").
AnsweredWithoutDocs == error # "IndexError"
=============================================================================
