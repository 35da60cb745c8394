--------------------------- MODULE MultihopRunner ---------------------------
(***************************************************************************)
(* run_full and run_one_question (main_multihop.py): one task per          *)
(* question, a semaphore that bounds the questions in work, one lock for   *)
(* both result files and the count of errors, and the error limit that     *)
(* cancels every task.  An action is the code between two awaits.  solve() *)
(* is one await here; module Reasoner says what it does.  A write or a     *)
(* flush is done by a thread of aiofiles while its task awaits.            *)
(***************************************************************************)
EXTENDS Lists, SequencesExt, FiniteSets

CONSTANTS
    NumQuestions,   \* len(dataset_list)
    MaxWorkers,     \* max_workers
    ErrorLimit,     \* 10 in the code
    DiskFaults      \* a write, flush or close may raise

ASSUME MultihopRunnerAssumption ==
    /\ NumQuestions \in Nat
    /\ MaxWorkers \in Nat \ {0}
    /\ ErrorLimit \in Nat \ {0}
    /\ DiskFaults \in BOOLEAN

Questions == 1 .. NumQuestions

VARIABLES
    at,             \* what the task of a question awaits, or how it ended
    lock,           \* tasks that hold or await the lock, the holder first
    results,        \* lines handed to results.jsonl
    failed,         \* lines handed to failed.jsonl
    unflushed,      \* questions whose line was written and whose flush raised
    error_count,
    cancelled,      \* tasks with a CancelledError on its way to them
    main            \* what run_full does

lines == <<results, failed, unflushed>>
runnerVars == <<at, lock, lines, error_count, cancelled, main>>

\* waiting: for the semaphore; solve: in wait_for; result lock, failed lock,
\* count lock: for the lock; write result .. flush failed: for the thread
Locking == {"result lock", "failed lock", "count lock"}
Writing == {"write result", "flush result", "write failed", "flush failed"}
Ends == {"done", "raised", "cancelled"}
Working == {"solve"} \cup Locking \cup Writing

Ended == {q \in Questions : at[q] \in Ends}
InWork == {q \in Questions : at[q] \in Working}

-----------------------------------------------------------------------------
\* A task resumes: no CancelledError is on its way to it.
Resumes(q, where) == at[q] = where /\ q \notin cancelled

Go(q, where) == at' = [at EXCEPT ![q] = where]

\* A task gets into the block of the lock when those before it are out, or,
\* in the mutant, at once.
MutHolds(q) == Contains(lock, q)
Holds(q) == lock # <<>> /\ Head(lock) = q

\* The semaphore wakes its waiters in order.
HasPermit == Cardinality(InWork) < MaxWorkers

\* The lock without q.  The mutant keeps it on the way out.
MutRelease(q) == lock
Release(q) == Select(lock, Questions \ {q})

\* An exception leaves run_one_question: gather wakes run_full with it.
Raise(q) ==
    /\ Go(q, "raised")
    /\ lock' = Release(q)
    /\ main' = IF main = "gather" THEN "closing" ELSE main

\* except Exception: the checkpoint is pickled, which may raise itself, and
\* the lock is asked for, which a task that held it has just released.  The
\* mutant writes the result again.
MutFails(q) ==
    /\ Go(q, "result lock")
    /\ lock' = Append(Release(q), q)
    /\ UNCHANGED main
Fails(q) ==
    \/ Go(q, "failed lock") /\ lock' = Append(Release(q), q) /\ UNCHANGED main
    \/ DiskFaults /\ Raise(q)

\* async with semaphore, MultiHopReasoner(...), which opens a log file, and
\* wait_for of solve()
Start(q) ==
    /\ Resumes(q, "waiting")
    /\ HasPermit
    /\ \A p \in Questions : p < q => at[p] # "waiting"
    /\ \/ Go(q, "solve") /\ UNCHANGED <<lock, main>>
       \/ DiskFaults /\ Raise(q)
    /\ UNCHANGED <<lines, error_count, cancelled>>

\* solve() has an answer: the lock is asked for.  When the answer and a
\* cancellation come together, wait_for of Python 3.10 returns the answer.
Solved(q) ==
    /\ at[q] = "solve"
    /\ Go(q, "result lock")
    /\ lock' = Append(lock, q)
    /\ cancelled' = cancelled \ {q}
    /\ UNCHANGED <<lines, error_count, main>>

\* solve() raises, or it took 20 minutes.
SolveFails(q) ==
    /\ at[q] = "solve"
    /\ Fails(q)
    /\ cancelled' = cancelled \ {q}
    /\ UNCHANGED <<lines, error_count>>

\* run_full closes the files when it leaves its async with.
MayBeOpen == main \in {"gather", "closing"}
MayRaise == DiskFaults \/ main # "gather"

\* Inside the lock: finished_file.write, then flush, then out.
WriteResult(q) ==
    /\ Resumes(q, "result lock") /\ Holds(q) /\ MayBeOpen
    /\ Go(q, "write result")
    /\ UNCHANGED <<lock, lines, error_count, cancelled, main>>

FlushResult(q) ==
    /\ Resumes(q, "write result")
    /\ results' = Append(results, q)
    /\ Go(q, "flush result")
    /\ UNCHANGED <<lock, failed, unflushed, error_count, cancelled, main>>

ResultWritten(q) ==
    /\ Resumes(q, "flush result")
    /\ Go(q, "done")
    /\ lock' = Release(q)
    /\ UNCHANGED <<lines, error_count, cancelled, main>>

\* The write or the flush raises instead.
ResultRaises(q) ==
    /\ MayRaise
    /\ \/ Resumes(q, "result lock") /\ Holds(q) /\ UNCHANGED unflushed
       \/ Resumes(q, "write result") /\ UNCHANGED unflushed
       \/ Resumes(q, "flush result") /\ unflushed' = unflushed \cup {q}
    /\ Fails(q)
    /\ UNCHANGED <<results, failed, error_count, cancelled>>

\* The same for failed_file, in the handler.
WriteFailed(q) ==
    /\ Resumes(q, "failed lock") /\ Holds(q) /\ MayBeOpen
    /\ Go(q, "write failed")
    /\ UNCHANGED <<lock, lines, error_count, cancelled, main>>

FlushFailed(q) ==
    /\ Resumes(q, "write failed")
    /\ failed' = Append(failed, q)
    /\ Go(q, "flush failed")
    /\ UNCHANGED <<lock, results, unflushed, error_count, cancelled, main>>

\* The first block of the lock ends, and the second asks for it again.
FailureWritten(q) ==
    /\ Resumes(q, "flush failed")
    /\ Go(q, "count lock")
    /\ lock' = Append(Release(q), q)
    /\ UNCHANGED <<lines, error_count, cancelled, main>>

FailedRaises(q) ==
    /\ MayRaise
    /\ \/ Resumes(q, "failed lock") /\ Holds(q)
       \/ Resumes(q, "write failed")
       \/ Resumes(q, "flush failed")
    /\ Raise(q)
    /\ UNCHANGED <<lines, error_count, cancelled>>

\* The tasks that are cancelled at the limit, and a limit that lets those go
\* on that have not begun.
MutCancels(q) == InWork \ {q}
Cancels(q) == Questions \ (Ended \cup {q})

\* The comparison with the limit
LimitReached(n) == n >= ErrorLimit

\* The second block of the lock: no await in it.
CountError(q) ==
    /\ Resumes(q, "count lock") /\ Holds(q)
    /\ error_count' = error_count + 1
    /\ IF LimitReached(error_count + 1) THEN
          /\ Raise(q)
          /\ cancelled' = cancelled \cup Cancels(q)
       ELSE
          /\ Go(q, "done")
          /\ lock' = Release(q)
          /\ UNCHANGED <<main, cancelled>>
    /\ UNCHANGED lines

\* CancelledError is no Exception: it leaves run_one_question.  A write that
\* the thread has begun is carried out all the same.
Cancelled(q) ==
    /\ q \in cancelled /\ q \notin Ended
    /\ Go(q, "cancelled")
    /\ lock' = Release(q)
    /\ \/ UNCHANGED <<results, failed>>
       \/ at[q] = "write result" /\ results' = Append(results, q) /\ UNCHANGED failed
       \/ at[q] = "write failed" /\ failed' = Append(failed, q) /\ UNCHANGED results
    /\ UNCHANGED <<unflushed, error_count, cancelled, main>>

-----------------------------------------------------------------------------
\* gather returns when every task has returned, and a mutant that does not
\* wait for those in work.
MutAllDone == \A q \in Questions : at[q] # "waiting"
AllDone == \A q \in Questions : at[q] = "done"

GatherReturns ==
    /\ main = "gather"
    /\ AllDone
    /\ main' = "closing"
    /\ UNCHANGED <<at, lock, lines, error_count, cancelled>>

\* Both files are closed; asyncio.run then cancels what is left.
FilesClosed ==
    /\ main = "closing"
    /\ main' = "ended"
    /\ cancelled' = Questions \ Ended
    /\ UNCHANGED <<at, lock, lines, error_count>>

RunnerInit ==
    /\ at = [q \in Questions |-> "waiting"]
    /\ lock = <<>> /\ results = <<>> /\ failed = <<>> /\ unflushed = {}
    /\ error_count = 0
    /\ cancelled = {}
    /\ main = "gather"

Task(q) ==
    \/ Start(q) \/ Solved(q) \/ SolveFails(q)
    \/ WriteResult(q) \/ FlushResult(q) \/ ResultWritten(q) \/ ResultRaises(q)
    \/ WriteFailed(q) \/ FlushFailed(q) \/ FailureWritten(q) \/ FailedRaises(q)
    \/ CountError(q) \/ Cancelled(q)

RunnerNext == (\E q \in Questions : Task(q)) \/ GatherReturns \/ FilesClosed

RunnerSpec == RunnerInit /\ [][RunnerNext]_runnerVars
FairRunnerSpec ==
    /\ RunnerSpec
    /\ \A q \in Questions : WF_runnerVars(Task(q))
    /\ WF_runnerVars(GatherReturns) /\ WF_runnerVars(FilesClosed)

-----------------------------------------------------------------------------
\* Type invariant: what a task awaits, and who may be in the lock and files.
RunnerTypeOK ==
    /\ at \in [Questions -> {"waiting"} \cup Working \cup Ends]
    /\ lock \in Seq(Questions) /\ IsInjective(lock)
    /\ results \in Seq(Questions) /\ failed \in Seq(Questions)
    /\ unflushed \subseteq Questions /\ cancelled \subseteq Questions
    /\ error_count \in Nat
    /\ main \in {"gather", "closing", "ended"}

\* At most max_workers questions are in work, counting those that only wait
\* for the lock to record their end.
WithinWorkers == Cardinality(InWork) <= MaxWorkers

\* At most one task writes to the two files, whatever was cancelled or failed
\* inside the lock, so their lines do not mix.
OneWriter == Cardinality({q \in Questions : at[q] \in Writing}) <= 1

\* A question has at most one line in each file, and a line in both only if
\* the flush of its result raised.
RecordedOnce ==
    /\ IsInjective(results) /\ IsInjective(failed)
    /\ Range(results) \cap Range(failed) \subseteq unflushed

\* When run_full ends and no task was cancelled or raised, every question is
\* in one of the files.
NothingMissing ==
    main # "gather" /\ (\A q \in Questions : at[q] \notin {"raised", "cancelled"}) =>
        Range(results) \cup Range(failed) = Questions

\* A counted error has its line in failed.jsonl, also at the limit.
CountedIsRecorded == error_count <= Len(failed)

\* The lock's queue is the tasks that await it or are inside, and only the
\* first of them writes.
LockInv ==
    /\ Range(lock) = {q \in Questions : at[q] \in Locking \cup Writing}
    /\ \A q \in Questions : at[q] \in Writing => Holds(q)

\* Which lines a question has, by how far its task has come.
LinesInv ==
    \A q \in Questions :
        /\ q \in Range(results) \ unflushed => at[q] \in {"flush result", "done", "cancelled"}
        /\ q \in unflushed =>
              at[q] \in {"failed lock", "write failed", "flush failed", "count lock"} \cup Ends
        /\ q \in Range(failed) => at[q] \in {"flush failed", "count lock"} \cup Ends
        /\ at[q] = "flush result" => q \in Range(results)
        /\ at[q] \in {"flush failed", "count lock"} => q \in Range(failed)
        /\ at[q] = "done" => q \in Range(results) \cup Range(failed)

\* A line of failed.jsonl is there for every error counted and for every one
\* about to be.
Counting == {"flush failed", "count lock"}
ToCount == {q \in Questions : at[q] \in Counting}
CountInv == error_count + Cardinality(ToCount) <= Len(failed)

\* run_full leaves gather because every task returned or one raised.
GatherInv == main # "gather" => AllDone \/ \E q \in Questions : at[q] = "raised"

\* At the limit the tasks that have not begun are all cancelled.
LimitInv ==
    error_count >= ErrorLimit => \A q \in Questions : at[q] = "waiting" => q \in cancelled

\* What holds of the tasks and of the two files whatever the disk does.
RunnerInv ==
    /\ RunnerTypeOK /\ WithinWorkers /\ OneWriter /\ RecordedOnce /\ CountedIsRecorded /\ NothingMissing
    /\ LockInv /\ LinesInv /\ CountInv /\ GatherInv /\ LimitInv

\* From the moment the error limit is reached no question is begun, though
\* the tasks that are in work end one by one.
StopsAtLimit ==
    [][error_count >= ErrorLimit =>
          \A q \in Questions : at[q] = "waiting" => at'[q] # "solve"]_runnerVars

\* Every task ends and run_full does, through the limit, the cancellations
\* and a failing disk.
RunEnds == <>(main = "ended" /\ Ended = Questions)
=============================================================================
