---------------------------- MODULE SeakrProofs ----------------------------
(***************************************************************************)
(* Proofs about Reasoner for every index of documents, every set of        *)
(* queries, every limit and both decision modes; and about MultihopRunner  *)
(* for every number of questions and of workers, every error limit, and a  *)
(* disk that fails or does not.                                            *)
(***************************************************************************)
EXTENDS Reasoner, MultihopRunner, ListLemmas, FiniteSetTheorems

USE ReasonerAssumption

Whys == {"not yet", "answer", "limit", "duplicate", "no retrieval", "known docs"}
Errs == {"none", "IndexError", "NameError", "call"}

-----------------------------------------------------------------------------
\* Sequences and numbers.

LEMMA FrontOfAppend ==
  ASSUME NEW S, NEW s \in Seq(S), NEW x \in S
  PROVE  Front(Append(s, x)) = s
BY DEF Front

-----------------------------------------------------------------------------
\* The ways out of an iteration.

LEMMA FilterFacts ==
  ASSUME NEW s \in Seq(Steps), s # <<>>
  PROVE  FilterLastStep(s) \in Seq(Steps) /\ Len(FilterLastStep(s)) <= Len(s)
<1>1. CASE Last(s).content = "thought"
  BY <1>1 DEF FilterLastStep
<1>2. CASE Last(s).content = "both"
  <2> DEFINE r == [s[Len(s)] EXCEPT !.content = "thought"]
  <2>0. Len(s) \in 1 .. Len(s) /\ s[Len(s)] \in Steps
    OBVIOUS
  <2>1. [s EXCEPT ![Len(s)].content = "thought"] \in Seq(Steps)
    <3>1. r \in Steps
      BY <2>0 DEF Steps, Contents
    <3> HIDE DEF r
    <3>2. [s EXCEPT ![Len(s)] = r] \in Seq(Steps)
      BY <2>0, <3>1
    <3> QED BY <3>2 DEF r
  <2>2. FilterLastStep(s) = [s EXCEPT ![Len(s)].content = "thought"]
    BY <1>2 DEF FilterLastStep
  <2>3. Len([s EXCEPT ![Len(s)].content = "thought"]) = Len(s)
    OBVIOUS
  <2> QED BY <2>1, <2>2, <2>3
<1>3. CASE Last(s).content \notin {"thought", "both"}
  BY <1>3 DEF FilterLastStep, Front
<1> QED BY <1>1, <1>2, <1>3

\* What holds of the primed state when the loop is left with s.
Out(s) ==
  /\ pc' \in {"failed", "read_steps"}
  /\ running_steps' \in Seq(Steps)
  /\ Len(running_steps') <= Len(s)
  /\ left' \in Whys /\ error' \in Errs

LEMMA LeaveLoopFacts ==
  ASSUME TypeOK, NEW why \in Whys, NEW s \in Seq(Steps), LeaveLoop(why, s)
  PROVE  Out(s)
<1>1. CASE s = <<>>
  BY <1>1 DEF LeaveLoop, Out, Errs
<1>2. CASE s # <<>>
  BY <1>2, FilterFacts DEF LeaveLoop, Out, TypeOK, Errs
<1> QED BY <1>1, <1>2

\* What holds of it when an iteration ends with s and d.
LEMMA EndIterationFacts ==
  ASSUME TypeOK, NEW s \in Seq(Steps), NEW d \in Seq(Docs), EndIteration(s, d)
  PROVE  /\ final_step_answer' \in Answers
         /\ \/ Out(s)
            \/ /\ pc' = "answer_direct" /\ running_steps' = s
               /\ left' \in Whys /\ error' \in Errs
               /\ Len(s) < MaxReasoningSteps /\ Len(d) < MaxDocs
               /\ ~HasFinalAnswer(s)
<1>1. final_step_answer' \in Answers
  BY DEF EndIteration, TypeOK, Answers
<1>2. CASE HasFinalAnswer(s) \/ Limit(s, d)
  <2>1. LeaveLoop("answer", s) \/ LeaveLoop("limit", s)
    BY <1>2 DEF EndIteration
  <2>2. "answer" \in Whys /\ "limit" \in Whys
    BY DEF Whys
  <2>3. Out(s)
    BY <2>1, <2>2, LeaveLoopFacts
  <2> QED BY <1>1, <2>3
<1>3. CASE ~HasFinalAnswer(s) /\ ~Limit(s, d)
  <2>1. pc' = "answer_direct" /\ running_steps' = s /\ left' = left /\ error' = error
    BY <1>3 DEF EndIteration
  <2>2. left' \in Whys /\ error' \in Errs
    BY <2>1 DEF TypeOK, Whys, Errs
  <2>3. Len(s) \in Nat /\ Len(d) \in Nat /\ MaxReasoningSteps \in Nat /\ MaxDocs \in Nat
    OBVIOUS
  <2>4. Len(s) < MaxReasoningSteps /\ Len(d) < MaxDocs
    BY <1>3, <2>3 DEF Limit
  <2> QED BY <1>1, <1>3, <2>1, <2>2, <2>4
<1> QED BY <1>2, <1>3

-----------------------------------------------------------------------------
\* Types.

LEMMA NewStepType ==
  ASSUME NEW out \in Outputs
  PROVE  [status |-> Status(out), content |-> out.content, doc |-> NoDoc] \in Steps
BY DEF Outputs, Steps, Status

LEMMA BetterType ==
  ASSUME TypeOK, NEW d \in candidates, NEW out \in Outputs
  PROVE  /\ Better(d, out) \in [doc : Docs \cup {NoDoc}, out : Outputs]
         /\ best = NoBest => Better(d, out).doc = d
         /\ Better(d, out).doc \in {d, best.doc}
BY DEF Better, TypeOK

LEMMA AnswerDirectCases ==
  ASSUME TypeOK, AnswerDirect
  PROVE  \/ /\ pc' = "failed" /\ error' = "NameError"
            /\ UNCHANGED <<running_steps, last_step, left, final_step_answer>>
         \/ /\ pc' = "retrieve" /\ last_step' \in Steps
            /\ running_steps' = running_steps
            /\ UNCHANGED <<left, error, final_step_answer>>
         \/ \E step \in Steps :
               /\ step.doc = NoDoc
               /\ step.status = "DIRECT_FAILED" => HasFinalAnswer(Append(running_steps, step))
               /\ EndIteration(Append(running_steps, step), doc_id_list)
               /\ UNCHANGED last_step
<1>1. PICK out \in Outputs :
        LET step == [status |-> Status(out), content |-> out.content, doc |-> NoDoc]
            s == Append(running_steps, step)
        IN  IF RaisesNameError(out) THEN
                 /\ pc' = "failed" /\ error' = "NameError"
                 /\ UNCHANGED <<running_steps, last_step, left, final_step_answer>>
              ELSE IF step.status = "DIRECT_FAILED" /\ ~HasFinalAnswer(s) THEN
                 /\ pc' = "retrieve"
                 /\ last_step' = step
                 /\ running_steps' = Pop(s)
                 /\ UNCHANGED <<left, error, final_step_answer>>
              ELSE EndIteration(s, doc_id_list) /\ UNCHANGED last_step
  BY DEF AnswerDirect
<1> DEFINE step == [status |-> Status(out), content |-> out.content, doc |-> NoDoc]
           s == Append(running_steps, step)
<1>2. step \in Steps
  BY NewStepType
<1>3. Pop(s) = running_steps
  BY <1>2, FrontOfAppend, ZenonT(40) DEF Pop, TypeOK
<1>4. CASE RaisesNameError(out)
  BY <1>1, <1>4
<1>5. CASE ~RaisesNameError(out) /\ step.status = "DIRECT_FAILED" /\ ~HasFinalAnswer(s)
  BY <1>1, <1>2, <1>3, <1>5
<1>6. CASE ~RaisesNameError(out) /\ ~(step.status = "DIRECT_FAILED" /\ ~HasFinalAnswer(s))
  BY <1>1, <1>2, <1>6
<1> QED BY <1>4, <1>5, <1>6


LEMMA NewDocsFacts ==
  ASSUME TypeOK, NEW found \in SUBSET Docs, Cardinality(found) = TopK,
         NEW chosen \in Selections(found)
  PROVE  /\ NewDocs(chosen) \subseteq Docs
         /\ NewDocs(chosen) \cap Range(doc_id_list) = {}
         /\ IsFiniteSet(NewDocs(chosen))
         /\ Cardinality(NewDocs(chosen)) \in Nat
         /\ Cardinality(NewDocs(chosen)) <= TopK
<1>1. chosen \subseteq found
  BY DEF Selections
<1>2. NewDocs(chosen) \subseteq found
  BY <1>1 DEF NewDocs
<1>3. IsFiniteSet(found)
  BY FS_Subset
<1>4. IsFiniteSet(NewDocs(chosen)) /\ Cardinality(NewDocs(chosen)) <= TopK
  BY <1>2, <1>3, FS_Subset
<1>5. Cardinality(NewDocs(chosen)) \in Nat
  BY <1>4, FS_CardinalityType
<1>6. NewDocs(chosen) \cap Range(doc_id_list) = {}
  BY DEF NewDocs
<1> QED BY <1>2, <1>4, <1>5, <1>6

LEMMA RetrieveCases ==
  ASSUME TypeOK, Retrieve
  PROVE  \/ /\ Out(running_steps)
            /\ \/ UNCHANGED searched_queries
               \/ \E q \in Queries : searched_queries' = searched_queries \cup {q}
            /\ last_step' \in Steps /\ candidates' \subseteq Docs
            /\ best' \in [doc : Docs \cup {NoDoc}, out : Outputs]
         \/ /\ pc' = "rag"
            /\ UNCHANGED <<running_steps, left, error, last_step>>
            /\ \E q \in Queries : /\ q \notin searched_queries
                                  /\ searched_queries' = searched_queries \cup {q}
            /\ best' = NoBest
            /\ candidates' \subseteq Docs
            /\ candidates' \cap Range(doc_id_list) = {}
            /\ IsFiniteSet(candidates') /\ Cardinality(candidates') \in Nat
            /\ Cardinality(candidates') <= TopK
<1>1. NoBest \in [doc : Docs \cup {NoDoc}, out : Outputs]
  BY DEF NoBest, Outputs, Contents, Scores
<1>2. PICK q \in QueriesFor(last_step) :
          IF Searched(q) THEN
             /\ NoUsefulDocs("duplicate")
             /\ UNCHANGED <<searched_queries, rag>>
          ELSE
             /\ searched_queries' = searched_queries \cup {q}
             /\ \/ /\ NoUsefulDocs("no retrieval")
                   /\ UNCHANGED rag
                \/ \E found \in SUBSET Docs :
                      /\ Cardinality(found) = TopK
                      /\ \E chosen \in Selections(found) :
                            /\ candidates' = NewDocs(chosen)
                            /\ best' = NoBest
                            /\ IF NewDocs(chosen) = {} THEN NoUsefulDocs("known docs")
                               ELSE /\ pc' = "rag"
                                    /\ UNCHANGED <<running_steps, left, error>>
                      /\ UNCHANGED last_step
  BY DEF Retrieve
<1>3. q \in Queries
  BY DEF QueriesFor
<1>4. running_steps \in Seq(Steps)
  BY DEF TypeOK
<1>5. \A why \in Whys : NoUsefulDocs(why) => Out(running_steps)
  BY <1>4, LeaveLoopFacts DEF NoUsefulDocs
<1>6. UNCHANGED rag => /\ last_step' \in Steps /\ candidates' \subseteq Docs
                       /\ best' \in [doc : Docs \cup {NoDoc}, out : Outputs]
  BY DEF rag, TypeOK
<1>7. CASE Searched(q)
  BY <1>2, <1>3, <1>5, <1>6, <1>7 DEF Whys
<1>8. CASE ~Searched(q) /\ NoUsefulDocs("no retrieval") /\ UNCHANGED rag
  BY <1>2, <1>3, <1>5, <1>6, <1>8 DEF Whys
<1>9. ASSUME ~Searched(q), NEW found \in SUBSET Docs, Cardinality(found) = TopK,
             NEW chosen \in Selections(found),
             candidates' = NewDocs(chosen), best' = NoBest, UNCHANGED last_step,
             IF NewDocs(chosen) = {} THEN NoUsefulDocs("known docs")
             ELSE pc' = "rag" /\ UNCHANGED <<running_steps, left, error>>
      PROVE  \/ /\ Out(running_steps)
                /\ last_step' \in Steps /\ candidates' \subseteq Docs
                /\ best' \in [doc : Docs \cup {NoDoc}, out : Outputs]
             \/ /\ pc' = "rag"
                /\ UNCHANGED <<running_steps, left, error, last_step>>
                /\ best' = NoBest
                /\ candidates' \subseteq Docs
                /\ candidates' \cap Range(doc_id_list) = {}
                /\ IsFiniteSet(candidates') /\ Cardinality(candidates') \in Nat
                /\ Cardinality(candidates') <= TopK
  <2>1. last_step' \in Steps
    BY <1>9 DEF TypeOK
  <2>2. CASE NewDocs(chosen) = {}
    BY <1>1, <1>5, <1>9, <2>1, <2>2, NewDocsFacts DEF Whys
  <2>3. CASE NewDocs(chosen) # {}
    BY <1>9, <2>3, NewDocsFacts
  <2> QED BY <2>2, <2>3
<1>10. ~Searched(q) => q \notin searched_queries /\ searched_queries' = searched_queries \cup {q}
  BY <1>2 DEF Searched
<1> QED BY <1>2, <1>3, <1>7, <1>8, <1>9, <1>10

LEMMA ReadDocCases ==
  ASSUME TypeOK, ReadDoc, best = NoBest \/ best.doc \in Docs
  PROVE  \E d \in candidates, out \in Outputs :
            /\ candidates' = candidates \ {d}
            /\ \/ /\ best' = Better(d, out)
                  /\ UNCHANGED <<pc, running_steps, left, error, doc_id_list,
                                 final_step_answer>>
               \/ \E step \in Steps :
                     /\ candidates = {d}
                     /\ step.status = "RAG_FINISHED" /\ step.doc = Better(d, out).doc
                     /\ best' = NoBest
                     /\ Better(d, out).doc \in Docs
                     /\ doc_id_list' = Append(doc_id_list, Better(d, out).doc)
                     /\ EndIteration(Append(running_steps, step), doc_id_list')
<1>1. PICK d \in candidates, out \in Outputs :
          LET b == Better(d, out)
              s == Append(running_steps, [status |-> "RAG_FINISHED",
                                          content |-> b.out.content, doc |-> b.doc])
          IN  /\ candidates' = candidates \ {d}
              /\ IF candidates # {d} THEN
                    /\ best' = b
                    /\ UNCHANGED <<pc, running_steps, left, error, doc_id_list,
                                   final_step_answer>>
                 ELSE
                    /\ best' = NoBest
                    /\ doc_id_list' = Remember(b.doc)
                    /\ EndIteration(s, Remember(b.doc))
  BY DEF ReadDoc
<1> DEFINE b == Better(d, out)
           step == [status |-> "RAG_FINISHED", content |-> b.out.content, doc |-> b.doc]
<1>2. b \in [doc : Docs \cup {NoDoc}, out : Outputs] /\ b.doc \in {d, best.doc}
  BY BetterType
<1>3. step \in Steps
  BY <1>2 DEF Steps, Outputs
<1>4. b.doc \in Docs
  <2>1. d \in Docs
    BY DEF TypeOK
  <2>2. best = NoBest => b.doc = d
    BY BetterType
  <2> QED BY <1>2, <2>1, <2>2
<1>5. Remember(b.doc) = Append(doc_id_list, b.doc)
  BY DEF Remember
<1> QED BY <1>1, <1>3, <1>4, <1>5

LEMMA AfterLoopTypes ==
  ASSUME TypeOK, ReadSteps \/ ForceSteps \/ ReadDocs \/ ForceDocs \/ CallFails
  PROVE  /\ pc' \in Calls \cup {"done", "failed"} /\ pc' \notin Loop
         /\ UNCHANGED <<running_steps, rag, searched_queries, doc_id_list, left>>
         /\ error' \in Errs
         /\ final_step_answer' \in Answers /\ final_step_score' \in Scores
         /\ final_read_answer' \in Answers /\ final_answer' \in Answers
<1> USE DEF TypeOK, Errs, Loop
<1>1. CASE ReadSteps
  BY <1>1 DEF ReadSteps, Calls, FinalOutputs, Answers
<1>2. CASE ForceSteps
  BY <1>2 DEF ForceSteps, Calls, Answers
<1>3. ASSUME NEW answer \in Answers, NEW score \in Scores, Finish(answer, score)
      PROVE  pc' = "done" /\ final_read_answer' \in Answers /\ final_answer' \in Answers
  BY <1>3 DEF Finish, Compare
<1>4. CASE ReadDocs
  BY <1>3, <1>4 DEF ReadDocs, Calls, FinalOutputs
<1>5. CASE ForceDocs
  BY <1>3, <1>5 DEF ForceDocs, Calls, FinalOutputs
<1>6. CASE CallFails
  BY <1>6 DEF CallFails, finals
<1> QED BY <1>1, <1>2, <1>4, <1>5, <1>6

\* The type invariant is inductive, given what best holds while rag() reads.
BestOK == pc = "rag" => best = NoBest \/ best.doc \in Docs

LEMMA CallsCounted ==
  ASSUME TypeOK, CallReturns
  PROVE  llm_call_times' \in Nat /\ llm_call_times' <= llm_call_times + 1
<1>1. llm_call_times \in Nat
  BY DEF TypeOK
<1>2. llm_call_times' = llm_call_times \/ llm_call_times' = llm_call_times + 1
  BY <1>1 DEF CallReturns
<1> QED BY <1>1, <1>2

LEMMA TypeStep ==
  ASSUME TypeOK, BestOK, [Next]_vars
  PROVE  TypeOK'
<1>0. "answer_direct" \in Calls /\ "rag" \in Calls /\ "read_steps" \in Calls
  BY DEF Calls
<1>1. CASE AnswerDirect
  <2>1. UNCHANGED <<searched_queries, doc_id_list, candidates, best,
                    final_step_score, final_read_answer, final_answer>>
    BY <1>1 DEF AnswerDirect
  <2>2. llm_call_times' \in Nat
    BY <1>1, CallsCounted DEF AnswerDirect
  <2>3. /\ pc' \in Calls \cup {"retrieve", "failed"} /\ running_steps' \in Seq(Steps)
        /\ last_step' \in Steps /\ left' \in Whys /\ error' \in Errs
        /\ final_step_answer' \in Answers
    <3>1. ASSUME NEW step \in Steps,
                 EndIteration(Append(running_steps, step), doc_id_list)
          PROVE  /\ pc' \in Calls \cup {"failed"} /\ running_steps' \in Seq(Steps)
                 /\ left' \in Whys /\ error' \in Errs
                 /\ final_step_answer' \in Answers
      <4>1. Append(running_steps, step) \in Seq(Steps) /\ doc_id_list \in Seq(Docs)
        BY <3>1, AppendFacts DEF TypeOK
      <4> QED BY <1>0, <3>1, <4>1, EndIterationFacts DEF Out
    <3>2. UNCHANGED last_step => last_step' \in Steps
      BY DEF TypeOK
    <3>3. UNCHANGED <<left, final_step_answer>> => left' \in Whys /\ final_step_answer' \in Answers
      BY DEF TypeOK, Whys
    <3>4. (UNCHANGED error \/ error' = "NameError") => error' \in Errs
      BY DEF TypeOK, Errs
    <3>5. UNCHANGED running_steps => running_steps' \in Seq(Steps)
      BY DEF TypeOK
    <3> QED BY <1>1, <3>1, <3>2, <3>3, <3>4, <3>5, AnswerDirectCases
  <2> QED BY <2>1, <2>2, <2>3 DEF TypeOK, Whys, Errs
<1>2. CASE Retrieve
  <2>1. UNCHANGED <<doc_id_list, finals, llm_call_times>>
    BY <1>2 DEF Retrieve
  <2>2. /\ pc' \in Calls \cup {"failed"} /\ running_steps' \in Seq(Steps)
        /\ last_step' \in Steps /\ left' \in Whys /\ error' \in Errs
        /\ searched_queries' \subseteq Queries /\ candidates' \subseteq Docs
        /\ best' \in [doc : Docs \cup {NoDoc}, out : Outputs]
    <3>1. NoBest \in [doc : Docs \cup {NoDoc}, out : Outputs]
      BY DEF NoBest, Outputs, Contents, Scores
    <3> QED BY <1>0, <1>2, <3>1, RetrieveCases DEF TypeOK, Out, Whys, Errs
  <2> QED BY <2>1, <2>2 DEF TypeOK, finals, Whys, Errs
<1>3. CASE ReadDoc
  <2>1. UNCHANGED <<last_step, searched_queries, final_step_score,
                    final_read_answer, final_answer>>
    BY <1>3 DEF ReadDoc
  <2>2. llm_call_times' \in Nat
    BY <1>3, CallsCounted DEF ReadDoc
  <2>3. PICK d \in candidates, out \in Outputs :
            /\ candidates' = candidates \ {d}
            /\ \/ /\ best' = Better(d, out)
                  /\ UNCHANGED <<pc, running_steps, left, error, doc_id_list,
                                 final_step_answer>>
               \/ \E step \in Steps :
                     /\ candidates = {d}
                     /\ step.status = "RAG_FINISHED" /\ step.doc = Better(d, out).doc
                     /\ best' = NoBest
                     /\ Better(d, out).doc \in Docs
                     /\ doc_id_list' = Append(doc_id_list, Better(d, out).doc)
                     /\ EndIteration(Append(running_steps, step), doc_id_list')
    <3>1. best = NoBest \/ best.doc \in Docs
      BY <1>3 DEF ReadDoc, BestOK
    <3> QED BY <1>3, <3>1, ReadDocCases
  <2>4. CASE /\ best' = Better(d, out)
             /\ UNCHANGED <<pc, running_steps, left, error, doc_id_list,
                            final_step_answer>>
    <3>1. best' \in [doc : Docs \cup {NoDoc}, out : Outputs]
      BY <2>4, BetterType
    <3> QED BY <2>1, <2>2, <2>3, <2>4, <3>1 DEF TypeOK
  <2>5. ASSUME NEW step \in Steps,
               best' = NoBest,
               Better(d, out).doc \in Docs,
               doc_id_list' = Append(doc_id_list, Better(d, out).doc),
               EndIteration(Append(running_steps, step), doc_id_list')
        PROVE  TypeOK'
    <3>1. best' \in [doc : Docs \cup {NoDoc}, out : Outputs]
      BY <2>5 DEF NoBest, Outputs, Contents, Scores
    <3>2. doc_id_list' \in Seq(Docs) /\ Append(running_steps, step) \in Seq(Steps)
      BY <2>5, AppendFacts DEF TypeOK
    <3>3. /\ pc' \in Calls \cup {"failed"} /\ running_steps' \in Seq(Steps)
          /\ left' \in Whys /\ error' \in Errs /\ final_step_answer' \in Answers
      BY <1>0, <2>5, <3>2, EndIterationFacts DEF Out
    <3> QED BY <2>1, <2>2, <2>3, <3>1, <3>2, <3>3 DEF TypeOK, Whys, Errs
  <2> QED BY <2>3, <2>4, <2>5
<1>4. CASE ReadSteps \/ ForceSteps \/ ReadDocs \/ ForceDocs \/ CallFails
  <2>1. llm_call_times' \in Nat
    BY <1>4, CallsCounted DEF ReadSteps, ForceSteps, ReadDocs, ForceDocs, CallFails, TypeOK
  <2> QED BY <1>4, <2>1, AfterLoopTypes DEF TypeOK, rag, Errs
<1>5. CASE UNCHANGED vars
  BY <1>5 DEF TypeOK, vars, rag, finals
<1> QED BY <1>1, <1>2, <1>3, <1>4, <1>5 DEF Next

-----------------------------------------------------------------------------
\* The parts of the inductive invariant.
LEMMA Numbers ==
  ASSUME TypeOK
  PROVE  /\ Len(running_steps) \in Nat /\ Len(doc_id_list) \in Nat
         /\ llm_call_times \in Nat
         /\ TopK \in Nat /\ MaxReasoningSteps \in Nat /\ MaxDocs \in Nat
         /\ TopK * Len(doc_id_list) \in Nat /\ TopK * MaxDocs \in Nat
         /\ Spent \in Nat /\ Most \in Nat
<1>0. running_steps \in Seq(Steps) /\ doc_id_list \in Seq(Docs) /\ llm_call_times \in Nat
  BY DEF TypeOK
<1>1. Len(running_steps) \in Nat /\ Len(doc_id_list) \in Nat /\ llm_call_times \in Nat
  BY <1>0
<1>2. TopK \in Nat /\ MaxReasoningSteps \in Nat /\ MaxDocs \in Nat
  OBVIOUS
<1>3. TopK * Len(doc_id_list) \in Nat /\ TopK * MaxDocs \in Nat
  BY <1>1, <1>2
<1> QED BY <1>1, <1>2, <1>3 DEF Spent, Most

LEMMA SpentBounded ==
  ASSUME TypeOK, WithinLimits
  PROVE  Spent <= Most
<1>1. TopK * Len(doc_id_list) <= TopK * MaxDocs
  BY Numbers, Monotone DEF WithinLimits
<1> QED BY <1>1, Numbers DEF Spent, Most, WithinLimits

LEMMA LoopStates ==
  /\ "answer_direct" \in Loop /\ "retrieve" \in Loop /\ "rag" \in Loop
  /\ "failed" \notin Loop /\ "read_steps" \notin Loop
BY DEF Loop

LEMMA AnswerDirectStep ==
  ASSUME IInv, AnswerDirect
  PROVE  LowConfidenceReplaced' /\ Bounds' /\ DocsInv' /\ QueriesInv' /\ CallsInv'
<1> USE DEF IInv
<1>1. /\ pc = "answer_direct" /\ CallReturns
      /\ UNCHANGED <<searched_queries, doc_id_list, candidates, best>>
  BY DEF AnswerDirect
<1>2. /\ llm_call_times' \in Nat /\ llm_call_times' <= Spent + 1
      /\ Spent \in Nat
  BY <1>1, CallsCounted, Numbers DEF CallsInv
<1>3. /\ Len(running_steps) < MaxReasoningSteps /\ Len(doc_id_list) < MaxDocs
      /\ WithinLimits
  BY <1>1, LoopStates DEF Bounds
<1>4. Spent + 1 <= Most
  BY <1>3, Numbers, Monotone DEF Spent, Most
<1>5. Most \in Nat
  BY Numbers
<1>6. (DocsInv' /\ QueriesInv') \/ pc' = "rag"
  BY <1>1 DEF DocsInv, QueriesInv, NoDocReadTwice, OneDocPerQuery
<1>7. CASE pc' = "failed" /\ running_steps' = running_steps
  <2>1. LowConfidenceReplaced' /\ Bounds'
    BY <1>1, <1>3, <1>7, LoopStates DEF LowConfidenceReplaced, Bounds, WithinLimits
  <2>2. CallsInv'
    BY <1>2, <1>4, <1>5, <1>7 DEF CallsInv, Most
  <2> QED BY <1>6, <1>7, <2>1, <2>2
<1>8. CASE pc' = "retrieve" /\ running_steps' = running_steps
  <2>1. LowConfidenceReplaced' /\ Bounds'
    BY <1>1, <1>3, <1>8, LoopStates DEF LowConfidenceReplaced, Bounds, WithinLimits
  <2>2. Spent' = Spent
    BY <1>1, <1>8 DEF Spent
  <2>3. CallsInv'
    BY <1>2, <1>4, <1>5, <1>8, <2>2 DEF CallsInv, Most
  <2> QED BY <1>6, <1>8, <2>1, <2>3
<1>9. ASSUME NEW step \in Steps,
             step.status = "DIRECT_FAILED" => HasFinalAnswer(Append(running_steps, step)),
             EndIteration(Append(running_steps, step), doc_id_list)
      PROVE  LowConfidenceReplaced' /\ Bounds' /\ DocsInv' /\ QueriesInv' /\ CallsInv'
  <2> DEFINE s == Append(running_steps, step)
  <2>1. /\ s \in Seq(Steps) /\ Len(s) = Len(running_steps) + 1
        /\ doc_id_list \in Seq(Docs)
    BY <1>9, AppendFacts DEF TypeOK
  <2>2. CASE Out(s)
    <3>1. pc' \in {"failed", "read_steps"} /\ Len(running_steps') <= Len(s)
          /\ Len(running_steps') \in Nat
      BY <2>2 DEF Out
    <3>2. Len(running_steps') <= MaxReasoningSteps
      BY <1>3, <2>1, <3>1, Numbers
    <3>3. LowConfidenceReplaced' /\ Bounds'
      BY <1>1, <1>3, <3>1, <3>2, LoopStates DEF LowConfidenceReplaced, Bounds, WithinLimits
    <3>4. CallsInv'
      BY <1>2, <1>4, <1>5, <3>1 DEF CallsInv, Most
    <3> QED BY <1>6, <3>1, <3>3, <3>4
  <2>3. CASE /\ pc' = "answer_direct" /\ running_steps' = s
             /\ Len(s) < MaxReasoningSteps /\ ~HasFinalAnswer(s)
    <3>1. step.status # "DIRECT_FAILED"
      BY <1>9, <2>3
    <3>2. \A i \in DOMAIN running_steps : running_steps[i].status # "DIRECT_FAILED"
      BY <1>1, LoopStates DEF LowConfidenceReplaced
    <3>3. \A i \in DOMAIN s : s[i].status # "DIRECT_FAILED"
      <4>1. running_steps \in Seq(Steps) /\ step \in Steps
        BY <1>9 DEF TypeOK
      <4> QED BY <3>1, <3>2, <4>1, AppendFacts
    <3>4. LowConfidenceReplaced' /\ Bounds'
      BY <1>1, <1>3, <2>3, <3>3, Numbers, LoopStates DEF LowConfidenceReplaced, Bounds, WithinLimits
    <3>5. Spent' = Spent + 1
      BY <1>1, <2>1, <2>3, Numbers DEF Spent
    <3>6. CallsInv'
      BY <1>2, <1>4, <1>5, <2>3, <3>5 DEF CallsInv, Most
    <3> QED BY <1>6, <2>3, <3>4, <3>6
  <2> QED BY <1>9, <2>1, <2>2, <2>3, EndIterationFacts
<1> QED BY <1>7, <1>8, <1>9, AnswerDirectCases

LEMMA AddQuery ==
  ASSUME IsFiniteSet(searched_queries), NEW q
  PROVE  /\ IsFiniteSet(searched_queries \cup {q})
         /\ Cardinality(searched_queries) \in Nat
         /\ Cardinality(searched_queries) <= Cardinality(searched_queries \cup {q})
         /\ Cardinality(searched_queries \cup {q}) \in Nat
         /\ q \notin searched_queries =>
               Cardinality(searched_queries \cup {q}) = Cardinality(searched_queries) + 1
<1>1. IsFiniteSet(searched_queries \cup {q})
  BY FS_AddElement
<1>2. Cardinality(searched_queries) \in Nat /\ Cardinality(searched_queries \cup {q}) \in Nat
  BY <1>1, FS_CardinalityType
<1>3. Cardinality(searched_queries) <= Cardinality(searched_queries \cup {q})
  BY <1>1, FS_Subset
<1>4. q \notin searched_queries =>
        Cardinality(searched_queries \cup {q}) = Cardinality(searched_queries) + 1
  BY FS_AddElement
<1> QED BY <1>1, <1>2, <1>3, <1>4

LEMMA RetrieveStep ==
  ASSUME IInv, Retrieve
  PROVE  LowConfidenceReplaced' /\ Bounds' /\ DocsInv' /\ QueriesInv' /\ CallsInv'
<1> USE DEF IInv
<1>1. pc = "retrieve" /\ UNCHANGED <<doc_id_list, llm_call_times>>
  BY DEF Retrieve
<1>2. /\ Len(running_steps) < MaxReasoningSteps /\ Len(doc_id_list) < MaxDocs
      /\ WithinLimits
  BY <1>1, LoopStates DEF Bounds
<1>3. /\ llm_call_times \in Nat /\ llm_call_times <= Spent + 1
      /\ Spent \in Nat /\ Spent + 1 <= Most /\ Most \in Nat
  <2>1. Spent + 1 <= Most
    BY <1>2, Numbers, Monotone DEF Spent, Most
  <2> QED BY <1>1, <2>1, Numbers DEF CallsInv
<1>4. CASE /\ Out(running_steps)
           /\ \/ UNCHANGED searched_queries
              \/ \E q \in Queries : searched_queries' = searched_queries \cup {q}
  <2>1. pc' \in {"failed", "read_steps"} /\ Len(running_steps') <= Len(running_steps)
        /\ Len(running_steps') \in Nat
    BY <1>4 DEF Out
  <2>2. LowConfidenceReplaced' /\ Bounds'
    BY <1>1, <1>2, <2>1, Numbers, LoopStates DEF LowConfidenceReplaced, Bounds, WithinLimits
  <2>3. DocsInv'
    BY <1>1, <2>1 DEF DocsInv, NoDocReadTwice
  <2>4. QueriesInv'
    <3>1. IsFiniteSet(searched_queries) /\ OneDocPerQuery
      BY DEF QueriesInv
    <3>2. pc' \notin {"retrieve", "rag"}
      BY <2>1
    <3>3. CASE UNCHANGED searched_queries
      BY <1>1, <3>1, <3>2, <3>3 DEF QueriesInv, OneDocPerQuery
    <3>4. CASE \E q \in Queries : searched_queries' = searched_queries \cup {q}
      <4>1. PICK q \in Queries : searched_queries' = searched_queries \cup {q}
        BY <3>4
      <4>2. /\ IsFiniteSet(searched_queries')
            /\ Cardinality(searched_queries) \in Nat
            /\ Cardinality(searched_queries') \in Nat
            /\ Cardinality(searched_queries) <= Cardinality(searched_queries')
        BY <3>1, <4>1, AddQuery
      <4>3. OneDocPerQuery'
        BY <1>1, <3>1, <4>2, Numbers DEF OneDocPerQuery
      <4> QED BY <3>2, <4>2, <4>3 DEF QueriesInv
    <3> QED BY <1>4, <3>3, <3>4
  <2>5. CallsInv'
    BY <1>1, <1>3, <2>1 DEF CallsInv, Most
  <2> QED BY <2>2, <2>3, <2>4, <2>5
<1>5. ASSUME pc' = "rag",
             UNCHANGED <<running_steps, left, error, last_step>>,
             NEW q \in Queries, q \notin searched_queries,
             searched_queries' = searched_queries \cup {q},
             best' = NoBest,
             candidates' \cap Range(doc_id_list) = {},
             IsFiniteSet(candidates'), Cardinality(candidates') \in Nat,
             Cardinality(candidates') <= TopK
      PROVE  LowConfidenceReplaced' /\ Bounds' /\ DocsInv' /\ QueriesInv' /\ CallsInv'
  <2>1. LowConfidenceReplaced' /\ Bounds'
    BY <1>1, <1>2, <1>5, LoopStates DEF LowConfidenceReplaced, Bounds, WithinLimits
  <2>2. DocsInv'
    BY <1>1, <1>5 DEF DocsInv, NoDocReadTwice
  <2>3. QueriesInv'
    <3>1. IsFiniteSet(searched_queries) /\ OneDocPerQuery
      BY DEF QueriesInv
    <3>2. /\ IsFiniteSet(searched_queries')
          /\ Cardinality(searched_queries) \in Nat
          /\ Cardinality(searched_queries') = Cardinality(searched_queries) + 1
      BY <1>5, <3>1, AddQuery
    <3>3. Len(doc_id_list') < Cardinality(searched_queries')
      BY <1>1, <3>1, <3>2, Numbers DEF OneDocPerQuery
    <3>4. OneDocPerQuery'
      BY <1>1, <3>2, <3>3, Numbers DEF OneDocPerQuery
    <3> QED BY <1>5, <3>2, <3>3, <3>4 DEF QueriesInv
  <2>4. Spent' = Spent
    BY <1>1, <1>5 DEF Spent
  <2>5. CallsInv'
    BY <1>1, <1>3, <1>5, <2>4, Numbers DEF CallsInv, Most
  <2> QED BY <2>1, <2>2, <2>3, <2>5
<1> QED BY <1>4, <1>5, RetrieveCases

LEMMA ReadDocStep ==
  ASSUME IInv, ReadDoc
  PROVE  LowConfidenceReplaced' /\ Bounds' /\ DocsInv' /\ QueriesInv' /\ CallsInv'
<1> USE DEF IInv
<1>1. pc = "rag" /\ CallReturns /\ UNCHANGED searched_queries
  BY DEF ReadDoc
<1>2. /\ Len(running_steps) < MaxReasoningSteps /\ Len(doc_id_list) < MaxDocs
      /\ WithinLimits
  BY <1>1, LoopStates DEF Bounds
<1>3. /\ IsFiniteSet(candidates) /\ Cardinality(candidates) \in Nat
      /\ llm_call_times + Cardinality(candidates) <= Spent + 1 + TopK
      /\ llm_call_times' \in Nat /\ llm_call_times' <= llm_call_times + 1
  BY <1>1, CallsCounted, FS_CardinalityType DEF CallsInv
<1>4. /\ candidates \cap Range(doc_id_list) = {}
      /\ best = NoBest \/ best.doc \in Docs \ Range(doc_id_list)
      /\ NoDocReadTwice
  BY <1>1 DEF DocsInv
<1>5. /\ IsFiniteSet(searched_queries) /\ Cardinality(searched_queries) \in Nat
      /\ Len(doc_id_list) < Cardinality(searched_queries)
  BY <1>1, FS_CardinalityType DEF QueriesInv
<1>6. Spent + 1 + TopK <= Most
  <2>1. TopK * (Len(doc_id_list) + 1) <= TopK * MaxDocs
    BY <1>2, Numbers, Monotone
  <2>2. TopK * (Len(doc_id_list) + 1) = TopK * Len(doc_id_list) + TopK
    BY Numbers, Monotone
  <2> QED BY <1>2, <2>1, <2>2, Numbers DEF Spent, Most
<1>7. PICK d \in candidates, out \in Outputs :
            /\ candidates' = candidates \ {d}
            /\ \/ /\ best' = Better(d, out)
                  /\ UNCHANGED <<pc, running_steps, left, error, doc_id_list,
                                 final_step_answer>>
               \/ \E step \in Steps :
                     /\ candidates = {d}
                     /\ step.status = "RAG_FINISHED" /\ step.doc = Better(d, out).doc
                     /\ best' = NoBest
                     /\ Better(d, out).doc \in Docs
                     /\ doc_id_list' = Append(doc_id_list, Better(d, out).doc)
                     /\ EndIteration(Append(running_steps, step), doc_id_list')
  BY <1>4, ReadDocCases
<1> DEFINE b == Better(d, out).doc
<1>8. b \in Docs \ Range(doc_id_list)
  <2>1. d \in Docs \ Range(doc_id_list)
    BY <1>4 DEF TypeOK
  <2> QED BY <1>4, <2>1, BetterType
<1>9. CASE /\ best' = Better(d, out)
           /\ UNCHANGED <<pc, running_steps, left, error, doc_id_list,
                          final_step_answer>>
  <2>1. LowConfidenceReplaced' /\ Bounds'
    BY <1>1, <1>2, <1>9, LoopStates DEF LowConfidenceReplaced, Bounds, WithinLimits
  <2>2. DocsInv'
    BY <1>4, <1>7, <1>8, <1>9 DEF DocsInv, NoDocReadTwice
  <2>3. QueriesInv'
    BY <1>1, <1>9 DEF QueriesInv, OneDocPerQuery
  <2>4. /\ IsFiniteSet(candidates') /\ Cardinality(candidates') \in Nat
        /\ Cardinality(candidates') = Cardinality(candidates) - 1
    BY <1>3, <1>7, FS_RemoveElement, FS_CardinalityType
  <2>5. Spent' = Spent
    BY <1>9 DEF Spent
  <2>6. llm_call_times' + Cardinality(candidates') <= Spent' + 1 + TopK
    BY <1>3, <2>4, <2>5, Numbers
  <2>7. llm_call_times' <= Most + 4
    BY <1>3, <1>6, <2>4, <2>5, <2>6, Numbers
  <2>8. Most' = Most /\ pc' = "rag" /\ Spent' \in Nat
    BY <1>1, <1>9, <2>5, Numbers DEF Most
  <2>9. CallsInv'
    BY <1>3, <2>4, <2>6, <2>7, <2>8 DEF CallsInv
  <2> QED BY <2>1, <2>2, <2>3, <2>9
<1>10. ASSUME NEW step \in Steps,
              candidates = {d},
              step.status = "RAG_FINISHED",
              doc_id_list' = Append(doc_id_list, b),
              EndIteration(Append(running_steps, step), doc_id_list')
       PROVE  LowConfidenceReplaced' /\ Bounds' /\ DocsInv' /\ QueriesInv' /\ CallsInv'
  <2> DEFINE s == Append(running_steps, step)
  <2>1. /\ running_steps \in Seq(Steps) /\ doc_id_list \in Seq(Docs)
        /\ s \in Seq(Steps) /\ Len(s) = Len(running_steps) + 1
        /\ doc_id_list' \in Seq(Docs) /\ Len(doc_id_list') = Len(doc_id_list) + 1
    <3>1. running_steps \in Seq(Steps) /\ doc_id_list \in Seq(Docs)
      BY DEF TypeOK
    <3>2. s \in Seq(Steps) /\ Len(s) = Len(running_steps) + 1
      BY <1>10, <3>1, AppendFacts
    <3>3. b \in Docs
      BY <1>8
    <3>4. /\ Append(doc_id_list, b) \in Seq(Docs)
          /\ Len(Append(doc_id_list, b)) = Len(doc_id_list) + 1
      BY <3>1, <3>3, AppendFacts
    <3> QED BY <1>10, <3>1, <3>2, <3>4
  <2>2. NoDocReadTwice'
    BY <1>4, <1>8, <1>10, <2>1, InjectiveAppend DEF NoDocReadTwice
  <2>3. Cardinality(candidates) = 1
    BY <1>10, FS_Singleton
  <2>4. llm_call_times' <= Spent + 1 + TopK
    BY <1>3, <2>3, Numbers
  <2>5. OneDocPerQuery' /\ IsFiniteSet(searched_queries')
    BY <1>1, <1>5, <2>1, Numbers DEF OneDocPerQuery
  <2>6. Len(s) <= MaxReasoningSteps /\ Len(doc_id_list') <= MaxDocs
    BY <1>2, <2>1, Numbers
  <2>7. CASE Out(s)
    <3>1. pc' \in {"failed", "read_steps"} /\ Len(running_steps') <= Len(s)
          /\ Len(running_steps') \in Nat
      BY <2>7 DEF Out
    <3>2. Len(running_steps') <= MaxReasoningSteps
      BY <2>1, <2>6, <3>1, Numbers
    <3>3. LowConfidenceReplaced' /\ Bounds'
      BY <2>6, <3>1, <3>2, LoopStates DEF LowConfidenceReplaced, Bounds, WithinLimits
    <3>4. DocsInv' /\ QueriesInv'
      BY <2>2, <2>5, <3>1 DEF DocsInv, QueriesInv
    <3>5. llm_call_times' <= Most
      BY <1>3, <1>6, <2>4, Numbers
    <3>6. CallsInv'
      BY <1>3, <3>1, <3>5, Numbers DEF CallsInv, Most
    <3> QED BY <3>3, <3>4, <3>6
  <2>8. CASE /\ pc' = "answer_direct" /\ running_steps' = s
             /\ Len(s) < MaxReasoningSteps /\ Len(doc_id_list') < MaxDocs
    <3>1. \A i \in DOMAIN running_steps : running_steps[i].status # "DIRECT_FAILED"
      BY <1>1, LoopStates DEF LowConfidenceReplaced
    <3>2. \A i \in DOMAIN s : s[i].status # "DIRECT_FAILED"
      BY <1>10, <2>1, <3>1, AppendFacts
    <3>3. LowConfidenceReplaced' /\ Bounds'
      BY <2>6, <2>8, <3>2 DEF LowConfidenceReplaced, Bounds, WithinLimits
    <3>4. DocsInv' /\ QueriesInv'
      BY <2>2, <2>5, <2>8 DEF DocsInv, QueriesInv
    <3>5. Spent' = Spent + 1 + TopK
      <4>1. TopK * (Len(doc_id_list) + 1) = TopK * Len(doc_id_list) + TopK
        BY Numbers, Monotone
      <4>2. Spent' = Len(s) + TopK * (Len(doc_id_list) + 1)
        BY <2>1, <2>8 DEF Spent
      <4> QED BY <2>1, <4>1, <4>2, Numbers DEF Spent
    <3>6. CallsInv'
      BY <1>3, <1>6, <2>4, <2>8, <3>5, Numbers DEF CallsInv, Most
    <3> QED BY <3>3, <3>4, <3>6
  <2> QED BY <1>10, <2>1, <2>7, <2>8, EndIterationFacts
<1> QED BY <1>7, <1>9, <1>10

LEMMA AfterLoopStep ==
  ASSUME IInv, ReadSteps \/ ForceSteps \/ ReadDocs \/ ForceDocs \/ CallFails
  PROVE  LowConfidenceReplaced' /\ Bounds' /\ DocsInv' /\ QueriesInv' /\ CallsInv'
<1> USE DEF IInv
<1>1. /\ pc' \notin Loop
      /\ UNCHANGED <<running_steps, rag, searched_queries, doc_id_list, left>>
  BY AfterLoopTypes
<1>2. pc' \notin {"answer_direct", "retrieve", "rag"}
  BY <1>1 DEF Loop
<1>3. LowConfidenceReplaced' /\ Bounds'
  BY <1>1 DEF LowConfidenceReplaced, Bounds, WithinLimits
<1>4. DocsInv' /\ QueriesInv'
  BY <1>1, <1>2 DEF DocsInv, QueriesInv, NoDocReadTwice, OneDocPerQuery
<1>5. Most' = Most /\ Most \in Nat /\ llm_call_times \in Nat
  BY Numbers DEF Most
<1>6. CASE ReadSteps
  <2>1. pc = "read_steps" /\ CallReturns /\ pc' \in {"force_steps", "read_docs"}
    BY <1>6 DEF ReadSteps
  <2> QED BY <1>3, <1>4, <1>5, <2>1, CallsCounted DEF CallsInv
<1>7. CASE ForceSteps
  <2>1. pc = "force_steps" /\ CallReturns /\ pc' = "read_docs"
    BY <1>7 DEF ForceSteps
  <2> QED BY <1>3, <1>4, <1>5, <2>1, CallsCounted DEF CallsInv
<1>8. CASE ReadDocs
  <2>1. pc = "read_docs" /\ CallReturns /\ pc' \in {"force_docs", "done"}
    BY <1>8 DEF ReadDocs, Finish
  <2> QED BY <1>3, <1>4, <1>5, <2>1, CallsCounted DEF CallsInv
<1>9. CASE ForceDocs
  <2>1. pc = "force_docs" /\ CallReturns /\ pc' = "done"
    BY <1>9 DEF ForceDocs, Finish
  <2> QED BY <1>3, <1>4, <1>5, <2>1, CallsCounted DEF CallsInv
<1>10. CASE CallFails
  <2>1. llm_call_times' = llm_call_times /\ pc' = "failed"
    BY <1>10 DEF CallFails
  <2> QED BY <1>3, <1>4, <1>5, <2>1 DEF CallsInv
<1> QED BY <1>6, <1>7, <1>8, <1>9, <1>10

-----------------------------------------------------------------------------
\* The theorems.

LEMMA EmptySequence ==
  ASSUME NEW S
  PROVE  /\ <<>> \in Seq(S) /\ Len(<<>>) = 0 /\ DOMAIN <<>> = {}
         /\ Range(<<>>) = {} /\ IsInjective(<<>>)
<1>1. <<>> \in Seq(S) /\ Len(<<>>) = 0 /\ DOMAIN <<>> = {}
  OBVIOUS
<1> QED BY <1>1 DEF Range, IsInjective

LEMMA InitIInv == Init => IInv
<1> SUFFICES ASSUME Init PROVE IInv
  OBVIOUS
<1>0. /\ pc = "answer_direct" /\ llm_call_times = 0
      /\ running_steps = <<>> /\ doc_id_list = <<>> /\ searched_queries = {}
  BY DEF Init
<1>1. TypeOK
  <2>1. running_steps \in Seq(Steps) /\ doc_id_list \in Seq(Docs)
    BY <1>0, EmptySequence
  <2>2. last_step \in Steps
    BY DEF Init, NoStep, Steps, Contents
  <2>3. best \in [doc : Docs \cup {NoDoc}, out : Outputs]
    BY DEF Init, NoBest, Outputs, Contents, Scores
  <2> QED BY <2>1, <2>2, <2>3 DEF Init, TypeOK, Calls, Scores, Answers
<1>2. LowConfidenceReplaced
  BY <1>0, EmptySequence DEF LowConfidenceReplaced
<1>3. Len(running_steps) = 0 /\ Len(doc_id_list) = 0
  BY <1>0, EmptySequence
<1>4. Bounds
  BY <1>1, <1>3, Numbers DEF Bounds, WithinLimits
<1>5. DocsInv
  BY <1>0, EmptySequence DEF DocsInv, NoDocReadTwice
<1>6. Cardinality(searched_queries) = 0 /\ IsFiniteSet(searched_queries)
  BY <1>0, FS_EmptySet
<1>7. QueriesInv
  BY <1>0, <1>3, <1>6 DEF QueriesInv, OneDocPerQuery
<1>8. CallsInv
  BY <1>0, <1>1, Numbers DEF CallsInv
<1> QED BY <1>1, <1>2, <1>4, <1>5, <1>7, <1>8 DEF IInv

LEMMA StepIInv == IInv /\ [Next]_vars => IInv'
<1> SUFFICES ASSUME IInv, [Next]_vars PROVE IInv'
  OBVIOUS
<1>1. TypeOK'
  <2>1. TypeOK /\ BestOK
    BY DEF IInv, DocsInv, BestOK
  <2> QED BY <2>1, TypeStep
<1>2. CASE UNCHANGED vars
  <2>1. LowConfidenceReplaced' /\ Bounds'
    BY <1>2 DEF vars, IInv, LowConfidenceReplaced, Bounds, WithinLimits
  <2>2. DocsInv' /\ QueriesInv'
    BY <1>2 DEF vars, rag, IInv, DocsInv, QueriesInv, NoDocReadTwice, OneDocPerQuery
  <2>3. CallsInv'
    BY <1>2 DEF vars, rag, IInv, CallsInv, Spent, Most
  <2> QED BY <1>1, <2>1, <2>2, <2>3 DEF IInv
<1>3. CASE Next
  BY <1>1, <1>3, AnswerDirectStep, RetrieveStep, ReadDocStep, AfterLoopStep DEF Next, IInv
<1> QED BY <1>2, <1>3

\* The inductive invariant of solve(), for every index, query set and limit.
THEOREM Inductive == Spec => []IInv
<1>1. Init => IInv
  BY InitIInv
<1>2. IInv /\ [Next]_vars => IInv'
  BY StepIInv
<1> QED BY <1>1, <1>2, PTL DEF Spec

\* Every value solve() keeps has its type, for every index and every limit.
THEOREM TypeCorrect == Spec => []TypeOK
<1>1. IInv => TypeOK
  BY DEF IInv
<1> QED BY <1>1, Inductive, PTL

\* No document is read into the context twice: rag() skips what doc_id_list
\* holds, and the best of what it has read is none of it either.
THEOREM DocsReadOnce == Spec => []NoDocReadTwice
<1>1. IInv => NoDocReadTwice
  BY DEF IInv, DocsInv
<1> QED BY <1>1, Inductive, PTL

\* The limits on steps and documents are never passed, for all limits.
THEOREM LimitsKept == Spec => []WithinLimits
<1>1. IInv => WithinLimits
  BY DEF IInv, Bounds
<1> QED BY <1>1, Inductive, PTL

\* The calls of a question are bounded by its steps, documents and top-k,
\* whatever the model answers and the index returns.
THEOREM CostBounded == Spec => []CallsBounded
<1>1. IInv => CallsBounded
  BY DEF IInv, CallsInv, Most, CallsBounded
<1> QED BY <1>1, Inductive, PTL

\* No uncertain step is left among those that are reasoned from.
THEOREM NothingUncertainKept == Spec => []LowConfidenceReplaced
<1>1. IInv => LowConfidenceReplaced
  BY DEF IInv
<1> QED BY <1>1, Inductive, PTL

\* Every document has a query of its own.
THEOREM QueriesPayForDocs == Spec => []OneDocPerQuery
<1>1. IInv => OneDocPerQuery
  BY DEF IInv, QueriesInv
<1> QED BY <1>1, Inductive, PTL

-----------------------------------------------------------------------------
\* The checkpoint.

\* Places is what RestOn asks for, for a given place of each document.
Places(place, steps, docs) ==
  /\ place \in [DOMAIN docs -> DOMAIN steps]
  /\ \A i, j \in DOMAIN docs : i < j => place[i] < place[j]
  /\ \A i \in DOMAIN docs : steps[place[i]].doc = docs[i]
  /\ \A k \in DOMAIN steps : steps[k].doc # NoDoc => \E i \in DOMAIN docs : place[i] = k

LEMMA RestOnPlaces ==
  ASSUME NEW steps, NEW docs
  PROVE  RestOn(steps, docs) <=> \E place : Places(place, steps, docs)
BY DEF RestOn, Places

\* A step without a document changes nothing.
LEMMA AppendDirectStep ==
  ASSUME NEW s \in Seq(Steps), NEW d \in Seq(Docs), RestOn(s, d),
         NEW x \in Steps, x.doc = NoDoc
  PROVE  RestOn(Append(s, x), d)
<1>1. PICK p : Places(p, s, d)
  BY RestOnPlaces
<1>2. DOMAIN s = 1 .. Len(s) /\ Len(s) \in Nat
  OBVIOUS
<1>3. \A k \in DOMAIN Append(s, x) : k \in DOMAIN s \/ k = Len(s) + 1
  BY <1>2, AppendFacts
<1>4. \A k \in DOMAIN s : k \in DOMAIN Append(s, x) /\ Append(s, x)[k] = s[k]
  BY <1>2, AppendFacts
<1>5. Append(s, x)[Len(s) + 1].doc = NoDoc
  BY AppendFacts
<1>6. Places(p, Append(s, x), d)
  BY <1>1, <1>3, <1>4, <1>5 DEF Places
<1> QED BY <1>6, RestOnPlaces

\* A step that rests on a document goes with a document at the end.
LEMMA AppendRagStep ==
  ASSUME NEW s \in Seq(Steps), NEW d \in Seq(Docs), RestOn(s, d),
         NEW x \in Steps, x.doc \in Docs
  PROVE  RestOn(Append(s, x), Append(d, x.doc))
<1>1. PICK p : Places(p, s, d)
  BY RestOnPlaces
<1> DEFINE n == Len(s)
           m == Len(d)
           q == [i \in 1 .. m + 1 |-> IF i = m + 1 THEN n + 1 ELSE p[i]]
           t == Append(s, x)
           e == Append(d, x.doc)
<1>2. /\ DOMAIN s = 1 .. n /\ n \in Nat /\ DOMAIN d = 1 .. m /\ m \in Nat
      /\ DOMAIN t = 1 .. n + 1 /\ DOMAIN e = 1 .. m + 1
  BY AppendFacts
<1>3. /\ \A k \in 1 .. n : t[k] = s[k]
      /\ t[n + 1] = x
      /\ \A i \in 1 .. m : e[i] = d[i]
      /\ e[m + 1] = x.doc
  BY AppendFacts
<1>4. \A i \in 1 .. m : q[i] = p[i] /\ p[i] \in 1 .. n
  BY <1>1, <1>2 DEF Places
<1>5. q[m + 1] = n + 1
  BY <1>2
<1> HIDE DEF t, e, n, m
<1>6. /\ \A i \in 1 .. m + 1 : i \in 1 .. m \/ i = m + 1
      /\ \A i \in 1 .. m : i < m + 1 /\ i \in 1 .. m + 1
      /\ m + 1 \in 1 .. m + 1
  BY <1>2, Intervals
<1>7. /\ \A k \in 1 .. n + 1 : k \in 1 .. n \/ k = n + 1
      /\ \A k \in 1 .. n : k < n + 1 /\ k \in 1 .. n + 1
      /\ n + 1 \in 1 .. n + 1
  BY <1>2, Intervals
<1>8. q \in [1 .. m + 1 -> 1 .. n + 1]
  <2>1. \A i \in 1 .. m + 1 : q[i] \in 1 .. n + 1
    BY <1>4, <1>5, <1>6, <1>7, Zenon
  <2> QED BY <2>1
<1> HIDE DEF q
<1>9. \A i, j \in 1 .. m + 1 : i < j => q[i] < q[j]
  <2> TAKE i, j \in 1 .. m + 1
  <2> HAVE i < j
  <2>1. i \in 1 .. m
    BY <1>2
  <2>2. CASE j = m + 1
    BY <1>4, <1>5, <1>7, <2>1, <2>2
  <2>3. CASE j \in 1 .. m
    BY <1>1, <1>2, <1>4, <2>1, <2>3 DEF Places
  <2> QED BY <1>6, <2>2, <2>3
<1>10. \A i \in 1 .. m + 1 : t[q[i]].doc = e[i]
  BY <1>1, <1>2, <1>3, <1>4, <1>5, <1>6, ZenonT(40) DEF Places
<1>11. \A k \in 1 .. n + 1 : t[k].doc # NoDoc => \E i \in 1 .. m + 1 : q[i] = k
  <2> TAKE k \in 1 .. n + 1
  <2> HAVE t[k].doc # NoDoc
  <2>1. CASE k = n + 1
    BY <1>2, <1>5, <2>1
  <2>2. CASE k \in 1 .. n
    <3>1. PICK i \in 1 .. m : p[i] = k
      BY <1>1, <1>2, <1>3, <2>2 DEF Places
    <3> QED BY <1>2, <1>4, <3>1, SMTT(30)
  <2> QED BY <1>7, <2>1, <2>2
<1>12. Places(q, t, e)
  BY <1>2, <1>8, <1>9, <1>10, <1>11 DEF Places
<1> QED BY <1>12, RestOnPlaces DEF t, e

\* filter_last_step may change what the last step says.
LEMMA SameDocs ==
  ASSUME NEW s \in Seq(Steps), NEW t \in Seq(Steps), NEW d \in Seq(Docs), RestOn(s, d),
         DOMAIN t = DOMAIN s, \A k \in DOMAIN s : t[k].doc = s[k].doc
  PROVE  RestOn(t, d)
<1>1. PICK p : Places(p, s, d)
  BY RestOnPlaces
<1>2. Places(p, t, d)
  BY <1>1 DEF Places
<1> QED BY <1>2, RestOnPlaces

\* Without its last step, the list goes with the documents or with all but
\* the last of them.
LEMMA DropLastStep ==
  ASSUME NEW s \in Seq(Steps), NEW d \in Seq(Docs), RestOn(s, d), s # <<>>
  PROVE  RestOn(Front(s), d) \/ (d # <<>> /\ RestOn(Front(s), Front(d)))
<1>1. PICK p : Places(p, s, d)
  BY RestOnPlaces
<1> DEFINE n == Len(s)
           m == Len(d)
           t == Front(s)
           e == Front(d)
<1>2. /\ DOMAIN s = 1 .. n /\ n \in Nat /\ n >= 1 /\ DOMAIN d = 1 .. m /\ m \in Nat
      /\ DOMAIN t = 1 .. n - 1 /\ \A k \in 1 .. n - 1 : t[k] = s[k]
  BY DEF Front
<1>3. CASE s[n].doc = NoDoc
  <2>1. \A i \in 1 .. m : d[i] \in Docs /\ d[i] # NoDoc
    OBVIOUS
  <2>2. \A i \in 1 .. m : p[i] \in 1 .. n /\ p[i] # n
    BY <1>1, <1>2, <1>3, <2>1 DEF Places
  <2> HIDE DEF n, m, t
  <2>3. \A k \in 1 .. n : k # n => k \in 1 .. n - 1
    BY <1>2, Intervals
  <2>4. \A k \in 1 .. n - 1 : k \in 1 .. n
    BY <1>2, Intervals
  <2>5. p \in [1 .. m -> 1 .. n - 1]
    BY <1>1, <1>2, <2>2, <2>3 DEF Places
  <2>6. Places(p, t, d)
    BY <1>1, <1>2, <2>4, <2>5 DEF Places
  <2> QED BY <2>6, RestOnPlaces DEF t
<1>4. CASE s[n].doc # NoDoc
  <2>1. PICK l \in 1 .. m : p[l] = n
    <3>1. n \in 1 .. n
      BY <1>2
    <3> QED BY <1>1, <1>2, <1>4, <3>1 DEF Places
  <2>2. l = m
    <3>1. \A i \in 1 .. m : p[i] \in 1 .. n
      BY <1>1, <1>2 DEF Places
    <3>2. m \in 1 .. m
      BY <1>2, <2>1
    <3>3. l < m => p[l] < p[m]
      BY <1>1, <1>2, <3>2 DEF Places
    <3>4. p[m] \in 1 .. n
      BY <3>1, <3>2
    <3> HIDE DEF n, m
    <3>5. n \in Nat /\ m \in Nat
      BY <1>2
    <3> QED BY <2>1, <3>3, <3>4, <3>5
  <2>3. /\ d # <<>> /\ m >= 1 /\ DOMAIN e = 1 .. m - 1
        /\ \A i \in 1 .. m - 1 : e[i] = d[i] /\ i \in 1 .. m
    BY <1>2, <2>1, <2>2 DEF Front
  <2> DEFINE q == [i \in 1 .. m - 1 |-> p[i]]
  <2>4. \A i \in 1 .. m - 1 : p[i] < n /\ p[i] \in 1 .. n
    <3> TAKE i \in 1 .. m - 1
    <3>1. i \in 1 .. m /\ m \in 1 .. m /\ i < m
      BY <1>2, <2>3
    <3> QED BY <1>1, <1>2, <2>1, <2>2, <3>1 DEF Places
  <2> HIDE DEF n, m
  <2>5. \A k \in 1 .. n - 1 : k \in 1 .. n /\ k # n
    BY <1>2, Intervals
  <2>6. q \in [1 .. m - 1 -> 1 .. n - 1] /\ \A i \in 1 .. m - 1 : q[i] = p[i]
    BY <1>2, <2>4
  <2>7. \A i \in 1 .. m : i # m => i \in 1 .. m - 1
    BY <1>2, Intervals
  <2> HIDE DEF q, n, m, t, e
  <2>8. \A i, j \in 1 .. m - 1 : i < j => q[i] < q[j]
    BY <1>1, <1>2, <2>3, <2>6 DEF Places
  <2>9. \A i \in 1 .. m - 1 : t[q[i]].doc = e[i]
    BY <1>1, <1>2, <2>3, <2>6 DEF Places
  <2>10. \A k \in 1 .. n - 1 : t[k].doc # NoDoc => \E i \in 1 .. m - 1 : q[i] = k
    <3> TAKE k \in 1 .. n - 1
    <3> HAVE t[k].doc # NoDoc
    <3>1. PICK i \in 1 .. m : p[i] = k
      BY <1>1, <1>2, <2>5 DEF Places
    <3>2. i # m
      BY <2>1, <2>2, <2>5, <3>1
    <3> QED BY <2>6, <2>7, <3>1, <3>2
  <2>11. Places(q, t, e)
    BY <1>2, <2>3, <2>6, <2>8, <2>9, <2>10 DEF Places
  <2> QED BY <2>3, <2>11, RestOnPlaces DEF t, e
<1> QED BY <1>3, <1>4

\* What filter_last_step leaves of a list of steps that was consistent.
LEMMA FilterKeeps ==
  ASSUME NEW s \in Seq(Steps), NEW d \in Seq(Docs), RestOn(s, d), s # <<>>
  PROVE  \/ RestOn(FilterLastStep(s), d)
         \/ d # <<>> /\ RestOn(FilterLastStep(s), Front(d))
<1>1. CASE Last(s).content = "thought"
  BY <1>1 DEF FilterLastStep
<1>2. CASE Last(s).content = "both"
  <2> DEFINE t == [s EXCEPT ![Len(s)].content = "thought"]
  <2>1. FilterLastStep(s) = t
    BY <1>2 DEF FilterLastStep
  <2>2. t \in Seq(Steps)
    BY <2>1, FilterFacts
  <2>3. DOMAIN t = DOMAIN s /\ \A k \in DOMAIN s : t[k].doc = s[k].doc
    OBVIOUS
  <2> HIDE DEF t
  <2> QED BY <2>1, <2>2, <2>3, SameDocs
<1>3. CASE Last(s).content \notin {"thought", "both"}
  <2>1. FilterLastStep(s) = Front(s)
    BY <1>3 DEF FilterLastStep
  <2> QED BY <2>1, DropLastStep
<1> QED BY <1>1, <1>2, <1>3

\* A consistent list stays so when the loop is left.
LEMMA LeaveConsistent ==
  ASSUME NEW why, NEW s \in Seq(Steps), LeaveLoop(why, s),
         doc_id_list' \in Seq(Docs), RestOn(s, doc_id_list')
  PROVE  CheckpointConsistent'
<1>1. pc' \notin Loop
  BY DEF LeaveLoop, Loop
<1>2. CASE s = <<>>
  BY <1>2 DEF LeaveLoop, CheckpointConsistent
<1>3. CASE s # <<>>
  <2>1. running_steps' = FilterLastStep(s)
    BY <1>3 DEF LeaveLoop
  <2> QED BY <1>1, <1>3, <2>1, FilterKeeps DEF CheckpointConsistent
<1> QED BY <1>2, <1>3

\* And when an iteration ends.
LEMMA EndConsistent ==
  ASSUME NEW s \in Seq(Steps), NEW d \in Seq(Docs), EndIteration(s, d),
         d = doc_id_list', RestOn(s, d)
  PROVE  CheckpointConsistent'
<1>1. CASE HasFinalAnswer(s)
  <2>1. LeaveLoop("answer", s)
    BY <1>1 DEF EndIteration
  <2> QED BY <2>1, LeaveConsistent
<1>2. CASE ~HasFinalAnswer(s) /\ Limit(s, d)
  <2>1. LeaveLoop("limit", s)
    BY <1>2 DEF EndIteration
  <2> QED BY <2>1, LeaveConsistent
<1>3. CASE ~HasFinalAnswer(s) /\ ~Limit(s, d)
  <2>1. running_steps' = s
    BY <1>3 DEF EndIteration
  <2> QED BY <2>1 DEF CheckpointConsistent
<1> QED BY <1>1, <1>2, <1>3

LEMMA InitConsistent == Init => CheckpointConsistent
<1> SUFFICES ASSUME Init PROVE RestOn(running_steps, doc_id_list)
  BY DEF CheckpointConsistent
<1>1. running_steps = <<>> /\ doc_id_list = <<>>
  BY DEF Init
<1>2. DOMAIN <<>> = {}
  OBVIOUS
<1>3. [i \in {} |-> 0] \in [{} -> {}]
  OBVIOUS
<1>4. Places([i \in {} |-> 0], <<>>, <<>>)
  BY <1>2, <1>3 DEF Places
<1> QED BY <1>1, <1>4, RestOnPlaces

LEMMA StepConsistent == IInv /\ CheckpointConsistent /\ [Next]_vars => CheckpointConsistent'
<1> SUFFICES ASSUME IInv, CheckpointConsistent, [Next]_vars PROVE CheckpointConsistent'
  OBVIOUS
<1>1. TypeOK /\ running_steps \in Seq(Steps) /\ doc_id_list \in Seq(Docs)
  BY DEF IInv, TypeOK
<1>2. pc \in Loop => RestOn(running_steps, doc_id_list)
  BY DEF CheckpointConsistent
<1>3. ASSUME UNCHANGED <<running_steps, doc_id_list>>, pc \in Loop \/ pc' \notin Loop
      PROVE  CheckpointConsistent'
  BY <1>2, <1>3 DEF CheckpointConsistent
<1>4. CASE AnswerDirect
  <2>1. pc \in Loop /\ doc_id_list' = doc_id_list
    BY <1>4 DEF AnswerDirect, Loop
  <2>2. CASE \E step \in Steps :
               /\ step.doc = NoDoc
               /\ EndIteration(Append(running_steps, step), doc_id_list)
    <3>1. PICK step \in Steps :
               /\ step.doc = NoDoc
               /\ EndIteration(Append(running_steps, step), doc_id_list)
      BY <2>2
    <3>2. Append(running_steps, step) \in Seq(Steps)
      BY <1>1, AppendFacts
    <3>3. RestOn(Append(running_steps, step), doc_id_list)
      BY <1>1, <1>2, <2>1, <3>1, AppendDirectStep
    <3> QED BY <1>1, <2>1, <3>1, <3>2, <3>3, EndConsistent
  <2>3. CASE running_steps' = running_steps
    BY <1>3, <2>1, <2>3
  <2> QED BY <1>1, <1>4, <2>2, <2>3, AnswerDirectCases
<1>5. CASE Retrieve
  <2>1. pc \in Loop /\ doc_id_list' = doc_id_list
    BY <1>5 DEF Retrieve, Loop
  <2>2. ASSUME NEW why, NoUsefulDocs(why) PROVE CheckpointConsistent'
    <3>1. LeaveLoop(why, running_steps)
      BY <2>2 DEF NoUsefulDocs
    <3> QED BY <1>1, <1>2, <2>1, <3>1, LeaveConsistent
  <2>3. (\E why : NoUsefulDocs(why)) \/ running_steps' = running_steps
    BY <1>5 DEF Retrieve
  <2> QED BY <1>3, <2>1, <2>2, <2>3
<1>6. CASE ReadDoc
  <2>1. pc \in Loop
    BY <1>6 DEF ReadDoc, Loop
  <2>2. best = NoBest \/ best.doc \in Docs
    BY <1>6 DEF IInv, DocsInv, ReadDoc
  <2>3. PICK d \in candidates, out \in Outputs :
            \/ UNCHANGED <<running_steps, doc_id_list>>
            \/ \E step \in Steps :
                  /\ step.doc = Better(d, out).doc
                  /\ Better(d, out).doc \in Docs
                  /\ doc_id_list' = Append(doc_id_list, Better(d, out).doc)
                  /\ EndIteration(Append(running_steps, step), doc_id_list')
    BY <1>1, <1>6, <2>2, ReadDocCases
  <2>4. CASE UNCHANGED <<running_steps, doc_id_list>>
    BY <1>3, <2>1, <2>4
  <2>5. CASE ~UNCHANGED <<running_steps, doc_id_list>>
    <3>1. PICK step \in Steps :
                  /\ step.doc = Better(d, out).doc
                  /\ Better(d, out).doc \in Docs
                  /\ doc_id_list' = Append(doc_id_list, Better(d, out).doc)
                  /\ EndIteration(Append(running_steps, step), doc_id_list')
      BY <2>3, <2>5
    <3>2. Append(running_steps, step) \in Seq(Steps) /\ doc_id_list' \in Seq(Docs)
      BY <1>1, <3>1, AppendFacts
    <3>3. RestOn(Append(running_steps, step), doc_id_list')
      BY <1>1, <1>2, <2>1, <3>1, AppendRagStep
    <3> QED BY <3>1, <3>2, <3>3, EndConsistent
  <2> QED BY <2>4, <2>5
<1>7. CASE ReadSteps \/ ForceSteps \/ ReadDocs \/ ForceDocs \/ CallFails
  <2>1. pc' \notin Loop /\ UNCHANGED <<running_steps, doc_id_list>>
    BY <1>1, <1>7, AfterLoopTypes
  <2> QED BY <1>3, <2>1
<1>8. CASE UNCHANGED vars
  BY <1>3, <1>8 DEF vars
<1> QED BY <1>4, <1>5, <1>6, <1>7, <1>8 DEF Next

\* The checkpoint that a failing call leaves has its documents in step with its
\* steps, for every index, query set and limit.
THEOREM CheckpointsAreConsistent == Spec => []CheckpointConsistent
<1>1. Init => IInv /\ CheckpointConsistent
  BY InitIInv, InitConsistent
<1>2. (IInv /\ CheckpointConsistent) /\ [Next]_vars => (IInv /\ CheckpointConsistent)'
  BY StepIInv, StepConsistent
<1> QED BY <1>1, <1>2, PTL DEF Spec


-----------------------------------------------------------------------------
\* MultihopRunner.

HIDE ReasonerAssumption
USE MultihopRunnerAssumption

LEMMA QuestionsFinite ==
  /\ IsFiniteSet(Questions)
  /\ \A S \in SUBSET Questions : IsFiniteSet(S) /\ Cardinality(S) \in Nat
<1>1. IsFiniteSet(Questions)
  BY FS_Interval DEF Questions
<1> QED BY <1>1, FS_Subset, FS_CardinalityType

\* A set of questions before and after one of them moved.
LEMMA OneMoves ==
  ASSUME NEW S \in SUBSET Questions, NEW T \in SUBSET Questions, NEW q \in Questions,
         \A p \in Questions : p # q => (p \in S <=> p \in T)
  PROVE  Cardinality(T) = Cardinality(S) + (IF q \in T THEN 1 ELSE 0)
                                         - (IF q \in S THEN 1 ELSE 0)
<1> DEFINE U == S \ {q}
<1>1. IsFiniteSet(U) /\ Cardinality(U) \in Nat /\ q \notin U
  BY QuestionsFinite
<1>2. (q \in S => S = U \cup {q}) /\ (q \notin S => S = U)
  OBVIOUS
<1>3. (q \in T => T = U \cup {q}) /\ (q \notin T => T = U)
  OBVIOUS
<1>4. Cardinality(U \cup {q}) = Cardinality(U) + 1
  BY <1>1, FS_AddElement
<1> HIDE DEF U
<1>5. /\ q \in S => Cardinality(S) = Cardinality(U) + 1
      /\ q \notin S => Cardinality(S) = Cardinality(U)
  BY <1>2, <1>4, Zenon
<1>6. /\ q \in T => Cardinality(T) = Cardinality(U) + 1
      /\ q \notin T => Cardinality(T) = Cardinality(U)
  BY <1>3, <1>4, Zenon
<1> QED BY <1>1, <1>5, <1>6

\* A task that goes on.
LEMMA Moves ==
  ASSUME RunnerTypeOK, NEW q \in Questions, NEW w \in {"waiting"} \cup Working \cup Ends, Go(q, w)
  PROVE  /\ at' \in [Questions -> {"waiting"} \cup Working \cup Ends]
         /\ at'[q] = w
         /\ \A p \in Questions : p # q => at'[p] = at[p]
BY DEF RunnerTypeOK, Go

LEMMA GoesTo ==
  ASSUME RunnerTypeOK, NEW q \in Questions, NEW w, Go(q, w)
  PROVE  at'[q] = w
BY DEF RunnerTypeOK, Go

-----------------------------------------------------------------------------
\* The queue of the lock.

LEMMA ReleaseFacts ==
  ASSUME RunnerTypeOK, NEW q \in Questions
  PROVE  /\ Release(q) \in Seq(Questions) /\ IsInjective(Release(q))
         /\ Range(Release(q)) = Range(lock) \ {q}
         /\ q \notin Range(lock) => Release(q) = lock
         /\ \A p \in Questions : Holds(p) /\ p # q =>
                Release(q) # <<>> /\ Head(Release(q)) = p
<1>1. lock \in Seq(Questions) /\ IsInjective(lock) /\ Range(lock) \subseteq Questions
  BY RangeFacts DEF RunnerTypeOK
<1>2. /\ Release(q) \in Seq(Questions) /\ IsInjective(Release(q))
      /\ Range(Release(q)) = Range(lock) \cap (Questions \ {q})
      /\ lock # <<>> /\ lock[1] \in Questions \ {q} =>
            Release(q) # <<>> /\ Release(q)[1] = lock[1]
      /\ Range(lock) \subseteq Questions \ {q} => Release(q) = lock
  BY <1>1, SelectFacts DEF Release
<1>3. \A p \in Questions : Holds(p) => lock # <<>> /\ lock[1] = p
  BY <1>1 DEF Holds
<1>4. Release(q) # <<>> => Head(Release(q)) = Release(q)[1]
  BY <1>2
<1> QED BY <1>1, <1>2, <1>3, <1>4

\* q leaves the lock, or its queue, and stays away from it.
LEMMA QueueLeft ==
  ASSUME RunnerTypeOK, LockInv, NEW q \in Questions, NEW w \in Ends, Go(q, w), lock' = Release(q)
  PROVE  lock' \in Seq(Questions) /\ IsInjective(lock') /\ LockInv'
<1> USE DEF Locking, Writing, Ends, Working
<1>1. lock' \in Seq(Questions) /\ IsInjective(lock') /\ Range(lock') = Range(lock) \ {q}
  BY ReleaseFacts
<1>2. at'[q] = w /\ \A p \in Questions : p # q => at'[p] = at[p]
  BY Moves
<1>3. \A p \in Questions : at'[p] \in Writing => Holds(p)'
  BY <1>2, ReleaseFacts DEF LockInv, Holds
<1> QED BY <1>1, <1>2, <1>3 DEF LockInv

\* q leaves it and asks for it again, or asks for it.
LEMMA QueueJoined ==
  ASSUME RunnerTypeOK, LockInv, NEW q \in Questions, NEW w \in Locking, Go(q, w),
         \/ lock' = Append(Release(q), q)
         \/ lock' = Append(lock, q) /\ at[q] \notin Locking \cup Writing
  PROVE  lock' \in Seq(Questions) /\ IsInjective(lock') /\ LockInv'
<1>1. lock' = Append(Release(q), q)
  BY ReleaseFacts DEF LockInv
<1>2. /\ Release(q) \in Seq(Questions) /\ IsInjective(Release(q))
      /\ Range(Release(q)) = Range(lock) \ {q}
  BY ReleaseFacts
<1>3. \A p \in Questions : Holds(p) /\ p # q => Release(q) # <<>> /\ Head(Release(q)) = p
  BY ReleaseFacts
<1>4. q \notin Range(Release(q))
  BY <1>2
<1>5. /\ lock' \in Seq(Questions) /\ IsInjective(lock')
      /\ Range(lock') = Range(Release(q)) \cup {q}
      /\ lock' # <<>> /\ (Release(q) # <<>> => Head(lock') = Head(Release(q)))
  BY <1>1, <1>2, <1>4, JoinFacts
<1>6. at'[q] = w /\ \A p \in Questions : p # q => at'[p] = at[p]
  BY Moves DEF Working
<1>7. \A p \in Questions : at'[p] \in Writing => Holds(p)'
  BY <1>3, <1>5, <1>6 DEF LockInv, Holds, Locking, Writing
<1>8. Range(lock') = {p \in Questions : at'[p] \in Locking \cup Writing}
  BY <1>2, <1>5, <1>6 DEF LockInv
<1> QED BY <1>5, <1>7, <1>8 DEF LockInv

\* q goes on where it is: outside the queue, or in it.
LEMMA QueueKept ==
  ASSUME RunnerTypeOK, LockInv, NEW q \in Questions, NEW w \in {"waiting"} \cup Working \cup Ends,
         Go(q, w), UNCHANGED lock,
         at[q] \in Locking \cup Writing <=> w \in Locking \cup Writing,
         w \in Writing => Holds(q)
  PROVE  lock' \in Seq(Questions) /\ IsInjective(lock') /\ LockInv'
<1> USE DEF Locking, Writing, Ends, Working
<1>1. at'[q] = w /\ \A p \in Questions : p # q => at'[p] = at[p]
  BY Moves
<1>2. \A p \in Questions : at'[p] \in Writing => Holds(p)'
  BY <1>1 DEF LockInv, Holds
<1> QED BY <1>1, <1>2 DEF LockInv, RunnerTypeOK

\* The two ways of an exception
LEMMA QueueFails ==
  ASSUME RunnerTypeOK, LockInv, NEW q \in Questions, Fails(q)
  PROVE  /\ at' \in [Questions -> {"waiting"} \cup Working \cup Ends]
         /\ lock' \in Seq(Questions) /\ IsInjective(lock') /\ LockInv'
         /\ main' \in {"gather", "closing", "ended"}
<1> USE DEF Locking, Writing, Ends, Working
<1> QED BY Moves, QueueJoined, QueueLeft DEF Fails, Raise, RunnerTypeOK

LEMMA QueueStep ==
  ASSUME RunnerTypeOK, LockInv, [RunnerNext]_runnerVars
  PROVE  RunnerTypeOK' /\ LockInv'
<1> USE DEF Locking, Writing, Ends, Working
<1>1. ASSUME NEW q \in Questions, Task(q) PROVE RunnerTypeOK' /\ LockInv'
  <2>1. CASE Start(q)
    BY <2>1, Moves, QueueKept, QueueLeft DEF Start, Resumes, Raise, lines, RunnerTypeOK
  <2>2. CASE Solved(q)
    BY <2>2, Moves, QueueJoined DEF Solved, lines, RunnerTypeOK
  <2>3. CASE SolveFails(q)
    BY <2>3, QueueFails DEF SolveFails, lines, RunnerTypeOK
  <2>4. CASE WriteResult(q)
    BY <2>4, Moves, QueueKept DEF WriteResult, Resumes, lines, RunnerTypeOK
  <2>5. CASE FlushResult(q)
    BY <2>5, Moves, QueueKept, AppendFacts DEF FlushResult, Resumes, RunnerTypeOK, LockInv
  <2>6. CASE ResultWritten(q)
    BY <2>6, Moves, QueueLeft DEF ResultWritten, Resumes, lines, RunnerTypeOK
  <2>7. CASE ResultRaises(q)
    BY <2>7, QueueFails DEF ResultRaises, RunnerTypeOK
  <2>8. CASE WriteFailed(q)
    BY <2>8, Moves, QueueKept DEF WriteFailed, Resumes, lines, RunnerTypeOK
  <2>9. CASE FlushFailed(q)
    BY <2>9, Moves, QueueKept, AppendFacts DEF FlushFailed, Resumes, RunnerTypeOK, LockInv
  <2>10. CASE FailureWritten(q)
    BY <2>10, Moves, QueueJoined DEF FailureWritten, Resumes, lines, RunnerTypeOK
  <2>11. CASE FailedRaises(q)
    BY <2>11, Moves, QueueLeft DEF FailedRaises, Raise, lines, RunnerTypeOK
  <2>12. CASE CountError(q)
    <3>1. PICK w \in Ends : Go(q, w) /\ lock' = Release(q)
      BY <2>12 DEF CountError, Raise
    <3>2. /\ main' \in {"gather", "closing", "ended"}
          /\ error_count' \in Nat
          /\ cancelled' \subseteq Questions
          /\ UNCHANGED <<results, failed, unflushed>>
      <4>1. main' = main \/ main' = "closing"
        BY <2>12 DEF CountError, Raise
      <4>2. cancelled' = cancelled \/ cancelled' = cancelled \cup Cancels(q)
        BY <2>12 DEF CountError
      <4>3. error_count' = error_count + 1 /\ UNCHANGED <<results, failed, unflushed>>
        BY <2>12 DEF CountError, lines
      <4>4. Cancels(q) \subseteq Questions
        BY DEF Cancels
      <4>5. main \in {"gather", "closing", "ended"} /\ error_count \in Nat /\ cancelled \subseteq Questions
        BY DEF RunnerTypeOK
      <4> QED BY <4>1, <4>2, <4>3, <4>4, <4>5
    <3> QED BY <3>1, <3>2, Moves, QueueLeft DEF RunnerTypeOK
  <2>13. CASE Cancelled(q)
    <3>1. Go(q, "cancelled") /\ lock' = Release(q)
      BY <2>13 DEF Cancelled
    <3>2. results' \in Seq(Questions) /\ failed' \in Seq(Questions)
      <4>1. Append(results, q) \in Seq(Questions) /\ Append(failed, q) \in Seq(Questions)
        BY AppendFacts, Zenon DEF RunnerTypeOK
      <4>2. /\ results' = results \/ results' = Append(results, q)
            /\ failed' = failed \/ failed' = Append(failed, q)
        BY <2>13 DEF Cancelled
      <4> QED BY <4>1, <4>2 DEF RunnerTypeOK
    <3>3. UNCHANGED <<unflushed, error_count, cancelled, main>>
      BY <2>13 DEF Cancelled
    <3> QED BY <3>1, <3>2, <3>3, Moves, QueueLeft DEF RunnerTypeOK
  <2> QED BY <1>1, <2>1, <2>2, <2>3, <2>4, <2>5, <2>6, <2>7, <2>8, <2>9, <2>10, <2>11,
             <2>12, <2>13 DEF Task
<1>2. CASE GatherReturns
  BY <1>2 DEF GatherReturns, RunnerTypeOK, LockInv, Holds, lines
<1>3. CASE FilesClosed
  BY <1>3 DEF FilesClosed, RunnerTypeOK, LockInv, Holds, lines
<1>4. CASE UNCHANGED runnerVars
  BY <1>4 DEF runnerVars, RunnerTypeOK, LockInv, Holds, lines
<1> QED BY <1>1, <1>2, <1>3, <1>4 DEF RunnerNext

-----------------------------------------------------------------------------
\* The two files.

\* What a question's task must have done for its lines.
LineOf(w, inResults, inFailed, lost) ==
  /\ inResults /\ ~lost => w \in {"flush result", "done", "cancelled"}
  /\ lost => w \in {"failed lock", "write failed", "flush failed", "count lock"} \cup Ends
  /\ inFailed => w \in {"flush failed", "count lock"} \cup Ends
  /\ w = "flush result" => inResults
  /\ w \in {"flush failed", "count lock"} => inFailed
  /\ w = "done" => inResults \/ inFailed

Line(q) == LineOf(at[q], q \in Range(results), q \in Range(failed), q \in unflushed)

LEMMA LinesAreLines == LinesInv <=> \A q \in Questions : Line(q)
BY Zenon DEF LinesInv, Line, LineOf

\* One question's lines change and are as its task says.
LEMMA OneLine ==
  ASSUME RunnerTypeOK, LinesInv, NEW q \in Questions, NEW w \in {"waiting"} \cup Working \cup Ends,
         Go(q, w),
         \A p \in Questions : p # q =>
            /\ p \in Range(results') <=> p \in Range(results)
            /\ p \in Range(failed') <=> p \in Range(failed)
            /\ p \in unflushed' <=> p \in unflushed,
         LineOf(w, q \in Range(results'), q \in Range(failed'), q \in unflushed')
  PROVE  LinesInv'
<1>1. at'[q] = w /\ \A p \in Questions : p # q => at'[p] = at[p]
  BY Moves
<1>2. \A p \in Questions : p # q => Line(p)'
  BY <1>1, LinesAreLines DEF Line, LineOf
<1>3. Line(q)'
  BY <1>1 DEF Line
<1> QED BY <1>2, <1>3, LinesAreLines DEF LinesInv, Line, LineOf

LEMMA LinesStep ==
  ASSUME RunnerTypeOK, LinesInv, [RunnerNext]_runnerVars
  PROVE  LinesInv'
<1> USE DEF Locking, Writing, Ends, Working
<1>1. ASSUME NEW q \in Questions, Task(q) PROVE LinesInv'
  <2>0. Line(q)
    BY LinesAreLines
  <2>1. CASE Start(q)
    BY <2>0, <2>1, OneLine DEF Start, Resumes, Raise, lines, Line, LineOf
  <2>2. CASE Solved(q)
    BY <2>0, <2>2, OneLine DEF Solved, lines, Line, LineOf
  <2>3. CASE SolveFails(q)
    BY <2>0, <2>3, OneLine DEF SolveFails, Fails, Raise, lines, Line, LineOf
  <2>4. CASE WriteResult(q)
    BY <2>0, <2>4, OneLine DEF WriteResult, Resumes, lines, Line, LineOf
  <2>5. CASE FlushResult(q)
    <3>1. Range(results') = Range(results) \cup {q}
      BY <2>5, RangeOfAppend DEF FlushResult, RunnerTypeOK
    <3> QED BY <2>0, <2>5, <3>1, OneLine DEF FlushResult, Resumes, Line, LineOf
  <2>6. CASE ResultWritten(q)
    BY <2>0, <2>6, OneLine DEF ResultWritten, Resumes, lines, Line, LineOf
  <2>7. CASE ResultRaises(q)
    BY <2>0, <2>7, OneLine DEF ResultRaises, Fails, Raise, Resumes, Line, LineOf
  <2>8. CASE WriteFailed(q)
    BY <2>0, <2>8, OneLine DEF WriteFailed, Resumes, lines, Line, LineOf
  <2>9. CASE FlushFailed(q)
    <3>1. Range(failed') = Range(failed) \cup {q}
      BY <2>9, RangeOfAppend DEF FlushFailed, RunnerTypeOK
    <3> QED BY <2>0, <2>9, <3>1, OneLine DEF FlushFailed, Resumes, Line, LineOf
  <2>10. CASE FailureWritten(q)
    BY <2>0, <2>10, OneLine DEF FailureWritten, Resumes, lines, Line, LineOf
  <2>11. CASE FailedRaises(q)
    BY <2>0, <2>11, OneLine DEF FailedRaises, Raise, Resumes, lines, Line, LineOf
  <2>12. CASE CountError(q)
    BY <2>0, <2>12, OneLine DEF CountError, Raise, Resumes, lines, Line, LineOf
  <2>13. CASE Cancelled(q)
    <3>1. /\ Range(Append(results, q)) = Range(results) \cup {q}
          /\ Range(Append(failed, q)) = Range(failed) \cup {q}
      BY RangeOfAppend DEF RunnerTypeOK
    <3> QED BY <2>0, <2>13, <3>1, OneLine DEF Cancelled, Ended, Line, LineOf
  <2> QED BY <1>1, <2>1, <2>2, <2>3, <2>4, <2>5, <2>6, <2>7, <2>8, <2>9, <2>10, <2>11,
             <2>12, <2>13 DEF Task
<1>2. CASE GatherReturns
  BY <1>2 DEF GatherReturns, LinesInv, lines
<1>3. CASE FilesClosed
  BY <1>3 DEF FilesClosed, LinesInv, lines
<1>4. CASE UNCHANGED runnerVars
  BY <1>4 DEF runnerVars, LinesInv, lines
<1> QED BY <1>1, <1>2, <1>3, <1>4 DEF RunnerNext

\* A file gains no second line of a question, and a line of both files only
\* if the flush of the result raised.
LEMMA RecordStep ==
  ASSUME RunnerTypeOK, LinesInv, RecordedOnce, [RunnerNext]_runnerVars
  PROVE  RecordedOnce'
<1>1. \/ UNCHANGED <<results, failed>>
      \/ \E q \in Questions : /\ at[q] = "write result"
                              /\ results' = Append(results, q) /\ UNCHANGED failed
      \/ \E q \in Questions : /\ at[q] = "write failed"
                              /\ failed' = Append(failed, q) /\ UNCHANGED results
  BY DEF RunnerNext, runnerVars, lines, Task, GatherReturns, FilesClosed, Start, Solved, SolveFails,
         WriteResult, FlushResult, ResultWritten, ResultRaises, WriteFailed, FlushFailed,
         FailureWritten, FailedRaises, CountError, Cancelled, Resumes
<1>2. unflushed \subseteq unflushed'
  BY DEF RunnerNext, runnerVars, lines, Task, GatherReturns, FilesClosed, Start, Solved, SolveFails,
         WriteResult, FlushResult, ResultWritten, ResultRaises, WriteFailed, FlushFailed,
         FailureWritten, FailedRaises, CountError, Cancelled
<1>3. CASE UNCHANGED <<results, failed>>
  BY <1>2, <1>3 DEF RecordedOnce
<1>4. ASSUME NEW q \in Questions, at[q] = "write result",
             results' = Append(results, q), UNCHANGED failed
      PROVE  RecordedOnce'
  <2>1. q \notin Range(results) /\ q \notin Range(failed)
    BY <1>4, LinesAreLines DEF Line, LineOf, Ends
  <2>2. IsInjective(results') /\ Range(results') = Range(results) \cup {q}
    BY <1>4, <2>1, JoinFacts DEF RunnerTypeOK, RecordedOnce
  <2> QED BY <1>2, <1>4, <2>1, <2>2 DEF RecordedOnce
<1>5. ASSUME NEW q \in Questions, at[q] = "write failed",
             failed' = Append(failed, q), UNCHANGED results
      PROVE  RecordedOnce'
  <2>1. q \notin Range(failed) /\ (q \in Range(results) => q \in unflushed)
    BY <1>5, LinesAreLines DEF Line, LineOf, Ends
  <2>2. IsInjective(failed') /\ Range(failed') = Range(failed) \cup {q}
    BY <1>5, <2>1, JoinFacts DEF RunnerTypeOK, RecordedOnce
  <2> QED BY <1>2, <1>5, <2>1, <2>2 DEF RecordedOnce
<1> QED BY <1>1, <1>3, <1>4, <1>5

-----------------------------------------------------------------------------
\* The bound on the questions in work, and the count of the errors.

\* How a step moves a task between the sets that are counted.
LEMMA InWorkMoves ==
  ASSUME RunnerTypeOK, NEW q \in Questions, NEW w \in {"waiting"} \cup Working \cup Ends, Go(q, w)
  PROVE  Cardinality(InWork') = Cardinality(InWork)
            + (IF w \in Working THEN 1 ELSE 0) - (IF at[q] \in Working THEN 1 ELSE 0)
<1>1. at'[q] = w /\ \A p \in Questions : p # q => at'[p] = at[p]
  BY Moves
<1>2. /\ InWork \in SUBSET Questions /\ InWork' \in SUBSET Questions
      /\ \A p \in Questions : p # q => (p \in InWork <=> p \in InWork')
      /\ (q \in InWork' <=> w \in Working) /\ (q \in InWork <=> at[q] \in Working)
  BY <1>1 DEF InWork
<1> QED BY <1>2, OneMoves

LEMMA ToCountMoves ==
  ASSUME RunnerTypeOK, NEW q \in Questions, NEW w \in {"waiting"} \cup Working \cup Ends, Go(q, w)
  PROVE  Cardinality(ToCount') = Cardinality(ToCount)
            + (IF w \in Counting THEN 1 ELSE 0)
            - (IF at[q] \in Counting THEN 1 ELSE 0)
<1>1. at'[q] = w /\ \A p \in Questions : p # q => at'[p] = at[p]
  BY Moves
<1>2. /\ ToCount \in SUBSET Questions /\ ToCount' \in SUBSET Questions
      /\ \A p \in Questions : p # q => (p \in ToCount <=> p \in ToCount')
      /\ (q \in ToCount' <=> w \in Counting)
      /\ (q \in ToCount <=> at[q] \in Counting)
  BY <1>1 DEF ToCount
<1> QED BY <1>2, OneMoves

\* Every step of a task moves it on: a waiting task gets a permit or ends,
\* one in work stays in work or ends.
LEMMA TaskMoves ==
  ASSUME NEW q \in Questions, Task(q)
  PROVE  \/ at[q] = "waiting" /\ HasPermit /\ Go(q, "solve")
         \/ at[q] \in Working /\ \E w \in Working : Go(q, w)
         \/ at[q] \notin Ends /\ \E w \in Ends : Go(q, w)
<1> USE DEF Working, Locking, Writing, Ends, Resumes, Raise, Fails
<1>1. CASE Start(q)
  BY <1>1 DEF Start
<1>2. CASE Solved(q) \/ SolveFails(q)
  BY <1>2 DEF Solved, SolveFails
<1>3. CASE WriteResult(q) \/ FlushResult(q) \/ ResultWritten(q) \/ ResultRaises(q)
  BY <1>3 DEF WriteResult, FlushResult, ResultWritten, ResultRaises
<1>4. CASE WriteFailed(q) \/ FlushFailed(q) \/ FailureWritten(q) \/ FailedRaises(q)
  BY <1>4 DEF WriteFailed, FlushFailed, FailureWritten, FailedRaises
<1>5. CASE CountError(q)
  BY <1>5 DEF CountError
<1>6. CASE Cancelled(q)
  <2>1. Go(q, "cancelled") /\ (q \in Questions => at[q] \notin Ends)
    BY <1>6 DEF Cancelled, Ended
  <2> QED BY <2>1
<1> QED BY <1>1, <1>2, <1>3, <1>4, <1>5, <1>6 DEF Task

LEMMA WorkersStep ==
  ASSUME RunnerTypeOK, WithinWorkers, [RunnerNext]_runnerVars
  PROVE  WithinWorkers'
<1>0. Cardinality(InWork) \in Nat /\ MaxWorkers \in Nat
  BY QuestionsFinite DEF InWork
<1>1. ASSUME NEW q \in Questions, Task(q) PROVE WithinWorkers'
  <2>1. "solve" \in Working /\ "waiting" \notin Working /\ \A w \in Ends : w \notin Working
    BY DEF Working, Ends, Locking, Writing
  <2>2. CASE at[q] = "waiting" /\ HasPermit /\ Go(q, "solve")
    <3>1. Cardinality(InWork') = Cardinality(InWork) + 1
      BY <1>0, <2>1, <2>2, InWorkMoves
    <3> QED BY <1>0, <2>2, <3>1 DEF HasPermit, WithinWorkers
  <2>3. ASSUME at[q] \in Working, NEW w \in Working, Go(q, w) PROVE WithinWorkers'
    <3>1. w \in {"waiting"} \cup Working \cup Ends
      BY <2>3
    <3>2. Cardinality(InWork') = Cardinality(InWork)
            + (IF w \in Working THEN 1 ELSE 0) - (IF at[q] \in Working THEN 1 ELSE 0)
      BY <2>3, <3>1, InWorkMoves
    <3> QED BY <1>0, <2>3, <3>2 DEF WithinWorkers
  <2>4. ASSUME NEW w \in Ends, Go(q, w) PROVE WithinWorkers'
    <3>1. Cardinality(InWork') <= Cardinality(InWork) /\ Cardinality(InWork') \in Nat
      <4>1. Cardinality(InWork') \in Nat
        BY QuestionsFinite DEF InWork
      <4>2. w \in {"waiting"} \cup Working \cup Ends
        BY <2>4
      <4>3. Cardinality(InWork') = Cardinality(InWork)
                + (IF w \in Working THEN 1 ELSE 0) - (IF at[q] \in Working THEN 1 ELSE 0)
        BY <2>4, <4>2, InWorkMoves
      <4> QED BY <1>0, <2>1, <2>4, <4>1, <4>3
    <3> QED BY <1>0, <3>1 DEF WithinWorkers
  <2> QED BY <1>1, <2>2, <2>3, <2>4, TaskMoves
<1>2. CASE UNCHANGED at
  BY <1>2 DEF WithinWorkers, InWork
<1> QED BY <1>1, <1>2 DEF RunnerNext, GatherReturns, FilesClosed, runnerVars

LEMMA CountStep ==
  ASSUME RunnerTypeOK, CountInv, [RunnerNext]_runnerVars
  PROVE  CountInv'
<1>0. Cardinality(ToCount) \in Nat /\ error_count \in Nat /\ Len(failed) \in Nat
  BY QuestionsFinite DEF ToCount, RunnerTypeOK
<1>1. ASSUME NEW q \in Questions, Task(q) PROVE CountInv'
  <2>1. CASE FlushFailed(q)
    <3>1. Len(failed') = Len(failed) + 1 /\ error_count' = error_count
      BY <2>1, AppendFacts DEF FlushFailed, RunnerTypeOK
    <3>2. at[q] = "write failed" /\ Go(q, "flush failed")
      BY <2>1 DEF FlushFailed, Resumes
    <3>3. Cardinality(ToCount') = Cardinality(ToCount) + 1
      <4> DEFINE w == "flush failed"
      <4>1. at[q] \notin Counting /\ w \in Counting /\ w \in {"waiting"} \cup Working \cup Ends
        BY <3>2 DEF Counting, Working, Writing
      <4> HIDE DEF w
      <4>2. Cardinality(ToCount') = Cardinality(ToCount)
                + (IF w \in Counting THEN 1 ELSE 0) - (IF at[q] \in Counting THEN 1 ELSE 0)
        BY <3>2, <4>1, ToCountMoves DEF w
      <4> QED BY <1>0, <4>1, <4>2
    <3> QED BY <1>0, <3>1, <3>3 DEF CountInv
  <2>2. CASE CountError(q)
    <3>1. failed' = failed /\ error_count' = error_count + 1
      BY <2>2 DEF CountError, lines
    <3>2. PICK w \in Ends : at[q] = "count lock" /\ Go(q, w)
      BY <2>2 DEF CountError, Resumes, Raise, Ends
    <3>3. Cardinality(ToCount') = Cardinality(ToCount) - 1
      <4>1. at[q] \in Counting /\ w \notin Counting /\ w \in {"waiting"} \cup Working \cup Ends
        BY <3>2 DEF Counting, Ends
      <4>2. Cardinality(ToCount') = Cardinality(ToCount)
                + (IF w \in Counting THEN 1 ELSE 0) - (IF at[q] \in Counting THEN 1 ELSE 0)
        BY <3>2, <4>1, ToCountMoves
      <4> QED BY <1>0, <4>1, <4>2
    <3> QED BY <1>0, <3>1, <3>3 DEF CountInv
  <2>3. CASE ~FlushFailed(q) /\ ~CountError(q)
    <3>1. error_count' = error_count
      BY <1>1, <2>3 DEF Task, Start, Solved, SolveFails, WriteResult, FlushResult,
         ResultWritten, ResultRaises, WriteFailed, FailureWritten, FailedRaises, Cancelled
    <3>2. Len(failed') >= Len(failed) /\ Len(failed') \in Nat
      <4>1. failed' = failed \/ failed' = Append(failed, q)
        BY <1>1, <2>3 DEF Task, Start, Solved, SolveFails, WriteResult, FlushResult,
           ResultWritten, ResultRaises, WriteFailed, FailureWritten, FailedRaises,
           Cancelled, lines
      <4>2. Len(Append(failed, q)) = Len(failed) + 1
        BY AppendFacts DEF RunnerTypeOK
      <4> QED BY <1>0, <4>1, <4>2
    <3>3. PICK w \in Working \cup Ends : Go(q, w) /\ (w \in Counting => at[q] \in Counting)
      <4>1. PICK w \in Working \cup Ends : Go(q, w)
        BY <1>1, TaskMoves DEF Working
      <4>2. at'[q] = w
        BY <4>1, Moves
      <4>3. at'[q] \in Counting => at[q] \in Counting
        <5> USE DEF Counting, Working, Locking, Writing, Ends, Resumes, Raise, Fails
        <5>1. CASE Start(q) \/ Solved(q) \/ SolveFails(q)
          BY <5>1, GoesTo DEF Start, Solved, SolveFails
        <5>2. CASE WriteResult(q) \/ FlushResult(q) \/ ResultWritten(q) \/ ResultRaises(q)
          BY <5>2, GoesTo DEF WriteResult, FlushResult, ResultWritten, ResultRaises
        <5>3. CASE WriteFailed(q) \/ FailureWritten(q) \/ FailedRaises(q) \/ Cancelled(q)
          BY <5>3, GoesTo DEF WriteFailed, FailureWritten, FailedRaises, Cancelled
        <5> QED BY <1>1, <2>3, <5>1, <5>2, <5>3 DEF Task
      <4> QED BY <4>1, <4>2, <4>3
    <3>4. Cardinality(ToCount') <= Cardinality(ToCount) /\ Cardinality(ToCount') \in Nat
      <4>1. Cardinality(ToCount') \in Nat
        BY QuestionsFinite DEF ToCount
      <4>2. Cardinality(ToCount') = Cardinality(ToCount)
                + (IF w \in Counting THEN 1 ELSE 0) - (IF at[q] \in Counting THEN 1 ELSE 0)
        BY <3>3, ToCountMoves
      <4> QED BY <1>0, <3>3, <4>1, <4>2
    <3> QED BY <1>0, <3>1, <3>2, <3>4 DEF CountInv
  <2> QED BY <2>1, <2>2, <2>3
<1>2. CASE UNCHANGED <<at, failed, error_count>>
  BY <1>2 DEF CountInv, ToCount
<1> QED BY <1>1, <1>2 DEF RunnerNext, GatherReturns, FilesClosed, runnerVars, lines

-----------------------------------------------------------------------------
\* The end of run_full, and the limit.

LEMMA GatherStep ==
  ASSUME RunnerTypeOK, GatherInv, [RunnerNext]_runnerVars
  PROVE  GatherInv'
<1>1. ASSUME NEW q \in Questions, Task(q) PROVE GatherInv'
  <2>1. PICK w \in Working \cup Ends : Go(q, w)
    BY <1>1, TaskMoves DEF Working
  <2>2. at'[q] = w /\ \A p \in Questions : p # q => at'[p] = at[p]
    BY <2>1, Moves
  <2>3. main' = main \/ Raise(q)
    BY <1>1, Zenon DEF Task, Start, Solved, SolveFails, WriteResult, FlushResult,
       ResultWritten, ResultRaises, WriteFailed, FlushFailed, FailureWritten,
       FailedRaises, CountError, Cancelled, Fails
  <2>4. at[q] \notin Ends
    BY <1>1 DEF Task, Start, Solved, SolveFails, WriteResult, FlushResult, ResultWritten,
       ResultRaises, WriteFailed, FlushFailed, FailureWritten, FailedRaises, CountError,
       Cancelled, Resumes, Ended, Ends
  <2>5. CASE Raise(q)
    <3>1. at'[q] = "raised"
      BY <2>5, Moves DEF Raise, Ends
    <3> QED BY <3>1 DEF GatherInv
  <2>6. CASE main' = main
    BY <2>2, <2>4, <2>6 DEF GatherInv, AllDone, Ends
  <2> QED BY <2>3, <2>5, <2>6
<1>2. CASE GatherReturns
  BY <1>2 DEF GatherReturns, GatherInv, AllDone
<1>3. CASE FilesClosed
  BY <1>3 DEF FilesClosed, GatherInv, AllDone
<1>4. CASE UNCHANGED runnerVars
  BY <1>4 DEF runnerVars, GatherInv, AllDone
<1> QED BY <1>1, <1>2, <1>3, <1>4 DEF RunnerNext

LEMMA LimitStep ==
  ASSUME RunnerTypeOK, LimitInv, [RunnerNext]_runnerVars
  PROVE  LimitInv'
<1>1. ASSUME NEW q \in Questions, Task(q) PROVE LimitInv'
  <2>1. PICK w \in Working \cup Ends : Go(q, w)
    BY <1>1, TaskMoves DEF Working
  <2>2. at'[q] = w /\ \A p \in Questions : p # q => at'[p] = at[p]
    BY <2>1, Moves
  <2>3. w # "waiting"
    BY DEF Working, Ends, Locking, Writing
  <2>4. CASE CountError(q)
    <3>1. CASE LimitReached(error_count + 1)
      <4>1. \A p \in Questions : at'[p] = "waiting" => p \in Cancels(q)
        BY <2>2, <2>3 DEF Cancels, Ended, Ends
      <4> QED BY <2>4, <3>1, <4>1 DEF CountError, LimitInv
    <3>2. CASE ~LimitReached(error_count + 1)
      <4>1. ~(error_count' >= ErrorLimit)
        BY <2>4, <3>2 DEF CountError, LimitReached
      <4> QED BY <4>1 DEF LimitInv
    <3> QED BY <3>1, <3>2
  <2>5. CASE ~CountError(q)
    <3>1. error_count' = error_count /\ cancelled \ {q} \subseteq cancelled'
      BY <1>1, <2>5 DEF Task, Start, Solved, SolveFails, WriteResult, FlushResult,
         ResultWritten, ResultRaises, WriteFailed, FlushFailed, FailureWritten,
         FailedRaises, Cancelled
    <3> QED BY <2>2, <2>3, <3>1 DEF LimitInv
  <2> QED BY <2>4, <2>5
<1>2. CASE GatherReturns
  BY <1>2 DEF GatherReturns, LimitInv
<1>3. CASE FilesClosed
  BY <1>3 DEF FilesClosed, LimitInv, Ended, Ends
<1>4. CASE UNCHANGED runnerVars
  BY <1>4 DEF runnerVars, LimitInv
<1> QED BY <1>1, <1>2, <1>3, <1>4 DEF RunnerNext

-----------------------------------------------------------------------------
\* What RunnerInv says of one state follows from how it is kept.

LEMMA OneInLock == LockInv => OneWriter
<1> SUFFICES ASSUME LockInv PROVE OneWriter
  OBVIOUS
<1> DEFINE W == {q \in Questions : at[q] \in Writing}
<1>1. \A q \in W : q = Head(lock)
  BY DEF LockInv, Holds
<1>2. W \in SUBSET {Head(lock)} /\ IsFiniteSet({Head(lock)}) /\ Cardinality({Head(lock)}) = 1
  BY <1>1, FS_Singleton
<1>3. Cardinality(W) <= Cardinality({Head(lock)})
  <2> HIDE DEF W
  <2> QED BY <1>2, FS_Subset
<1> QED BY <1>2, <1>3 DEF OneWriter

LEMMA CountedHaveLines == RunnerTypeOK /\ CountInv => CountedIsRecorded
<1>1. Cardinality(ToCount) \in Nat
  BY QuestionsFinite DEF ToCount
<1> QED BY <1>1 DEF RunnerTypeOK, CountInv, CountedIsRecorded

LEMMA AllHaveLines == RunnerTypeOK /\ LinesInv /\ GatherInv => NothingMissing
<1> SUFFICES ASSUME RunnerTypeOK, LinesInv, GatherInv, main # "gather",
                    \A q \in Questions : at[q] \notin {"raised", "cancelled"}
             PROVE  Range(results) \cup Range(failed) = Questions
  BY DEF NothingMissing
<1>1. AllDone
  BY DEF GatherInv
<1>2. \A q \in Questions : q \in Range(results) \cup Range(failed)
  BY <1>1 DEF AllDone, LinesInv
<1>3. Range(results) \subseteq Questions /\ Range(failed) \subseteq Questions
  BY RangeFacts DEF RunnerTypeOK
<1> QED BY <1>2, <1>3

-----------------------------------------------------------------------------
LEMMA InitInv == RunnerInit => RunnerInv
<1> SUFFICES ASSUME RunnerInit PROVE RunnerInv
  OBVIOUS
<1>1. <<>> \in Seq(Questions) /\ Range(<<>>) = {} /\ IsInjective(<<>>) /\ Len(<<>>) = 0
  BY DEF Range, IsInjective
<1>2. InWork = {} /\ ToCount = {} /\ {q \in Questions : at[q] \in Writing} = {}
  <2>1. \A q \in Questions : at[q] = "waiting"
    BY DEF RunnerInit
  <2>2. "waiting" \notin Working /\ "waiting" \notin Counting /\ "waiting" \notin Writing
    BY DEF Working, Locking, Writing, Counting
  <2> QED BY <2>1, <2>2 DEF InWork, ToCount
<1>3. RunnerTypeOK
  BY <1>1 DEF RunnerInit, RunnerTypeOK
<1>4. WithinWorkers /\ OneWriter /\ CountInv
  <2>1. Cardinality({}) = 0
    BY FS_EmptySet
  <2>2. error_count = 0 /\ Len(failed) = 0
    BY <1>1 DEF RunnerInit
  <2>3. WithinWorkers
    BY <1>2, <2>1 DEF WithinWorkers
  <2>4. OneWriter
    <3>1. Cardinality({q \in Questions : at[q] \in Writing}) = 0
      BY ONLY <1>2, <2>1
    <3> QED BY ONLY <3>1 DEF OneWriter
  <2>5. CountInv
    BY <1>2, <2>1, <2>2 DEF CountInv
  <2> QED BY <2>3, <2>4, <2>5
<1>5. RecordedOnce /\ LockInv /\ LinesInv
  BY <1>1 DEF RunnerInit, RecordedOnce, LockInv, LinesInv, Locking, Writing
<1>6. GatherInv /\ LimitInv
  BY DEF RunnerInit, GatherInv, LimitInv
<1> QED BY <1>3, <1>4, <1>5, <1>6, CountedHaveLines, AllHaveLines DEF RunnerInv

\* RunnerInv is inductive: with whom the lock's queue agrees, which lines a
\* task's progress allows, and what is left to count.
LEMMA StepInv == RunnerInv /\ [RunnerNext]_runnerVars => RunnerInv'
<1> SUFFICES ASSUME RunnerInv, [RunnerNext]_runnerVars PROVE RunnerInv'
  OBVIOUS
<1> USE DEF RunnerInv
<1>1. RunnerTypeOK' /\ LockInv'
  BY QueueStep
<1>2. LinesInv' /\ RecordedOnce'
  BY LinesStep, RecordStep
<1>3. WithinWorkers' /\ CountInv'
  BY WorkersStep, CountStep
<1>4. GatherInv' /\ LimitInv'
  BY GatherStep, LimitStep
<1>5. OneWriter' /\ CountedIsRecorded' /\ NothingMissing'
  <2>1. OneWriter'
    BY <1>1, OneInLock, PTL
  <2>2. CountedIsRecorded'
    BY <1>1, <1>3, CountedHaveLines, PTL
  <2>3. NothingMissing'
    BY <1>1, <1>2, <1>4, AllHaveLines, PTL
  <2> QED BY <2>1, <2>2, <2>3
<1> QED BY <1>1, <1>2, <1>3, <1>4, <1>5

\* The bound on the questions in work, one writer of the two files, at most
\* one line of a question in each, a line of failed.jsonl for every counted
\* error and a line for every question of a run that ends well: all of it
\* holds for every number of questions and workers, whatever the disk does.
THEOREM RunnerIsSound == RunnerSpec => []RunnerInv
<1> QED BY InitInv, StepInv, PTL DEF RunnerSpec

\* After the error limit no question is begun.
THEOREM RunStopsAtLimit == RunnerSpec => StopsAtLimit
<1>1. ASSUME RunnerInv, [RunnerNext]_runnerVars, error_count >= ErrorLimit,
             NEW q \in Questions, at[q] = "waiting"
      PROVE  at'[q] # "solve"
  <2>1. q \in cancelled
    BY <1>1 DEF RunnerInv, LimitInv
  <2>2. RunnerTypeOK
    BY <1>1 DEF RunnerInv
  <2>3. ASSUME NEW p \in Questions, Task(p) PROVE at'[q] # "solve"
    <3>1. PICK w \in Working \cup Ends : Go(p, w)
      BY <2>3, TaskMoves DEF Working
    <3>2. at'[p] = w /\ \A o \in Questions : o # p => at'[o] = at[o]
      BY <2>2, <3>1, Moves
    <3>3. CASE p = q
      <4>1. Cancelled(q)
        BY <1>1, <2>1, <2>3, <3>3 DEF Task, Start, Solved, SolveFails, WriteResult,
           FlushResult, ResultWritten, ResultRaises, WriteFailed, FlushFailed,
           FailureWritten, FailedRaises, CountError, Resumes
      <4>2. at'[q] = "cancelled"
        BY <2>2, <4>1, Moves DEF Cancelled, Ends
      <4> QED BY <4>2
    <3>4. CASE p # q
      BY <1>1, <3>2, <3>4
    <3> QED BY <3>3, <3>4
  <2> QED BY <1>1, <2>3 DEF RunnerNext, GatherReturns, FilesClosed, runnerVars
<1>2. RunnerInv /\ [RunnerNext]_runnerVars =>
         [error_count >= ErrorLimit =>
             \A q \in Questions : at[q] = "waiting" => at'[q] # "solve"]_runnerVars
  BY <1>1
<1> QED BY <1>2, RunnerIsSound, PTL DEF RunnerSpec, StopsAtLimit
=============================================================================
