------------------------------ MODULE Workers ------------------------------
(***************************************************************************)
(* The driver of a tensor-parallel executor and its remote worker          *)
(* processes (executor/distributed_gpu_executor.py, multiproc_*.py,        *)
(* worker/worker.py): control calls through task queues and futures, the   *)
(* execution loop that follows the driver's broadcasts, the threads that   *)
(* hand back results and watch for dead processes.  A collective operation *)
(* ends when every process has taken part.                                 *)
(***************************************************************************)
EXTENDS Integers, SequencesExt, FiniteSets, Functions

CONSTANTS
    NumWorkers,     \* remote workers 1 .. NumWorkers
    StepKinds,      \* the steps the engine takes, see EngineStep
    ControlInLoop,  \* control calls come while the workers are in their loop
    Faults          \* what befalls a worker: "killed", "exception"

RemoteWorkers == 1 .. NumWorkers

ASSUME WorkersAssumption ==
    /\ NumWorkers \in Nat \ {0}
    /\ StepKinds \subseteq {"model", "transfer", "nothing", "jacobian"}
    /\ ControlInLoop \in BOOLEAN
    /\ Faults \subseteq {"killed", "exception"}

Methods == {"start_loop", "control"}
Keys == RemoteWorkers \X Methods        \* one task of a method is out at a time

VARIABLES
    async,      \* AsyncLLMEngine: the loops are started by a task of their own
    driver,     \* what the thread of the engine has left to do, in order
    spawned,    \* the same of the task that starts the loops
    engine,     \* "up", "failed" by an exception, or "shutdown"
    started,    \* parallel_worker_tasks is not None
    future,     \* the future of a task
    tasks,      \* ResultHandler.tasks
    queue,      \* task queue of a worker
    open,       \* the task queue is not closed
    worker,     \* where a worker process is
    inbox,      \* the broadcast that waits for a worker
    results,    \* the result queue
    handler,    \* the ResultHandler thread
    monitor     \* the WorkerMonitor thread, and its flag _close

vars == <<async, driver, spawned, engine, started, future, tasks, queue, open, worker, inbox,
          results, handler, monitor>>
threads == <<handler, monitor>>
executor == <<async, engine, started>>

Init ==
    /\ async \in BOOLEAN
    /\ driver = <<>> /\ spawned = <<>>
    /\ engine = "up" /\ started = FALSE
    /\ future = [k \in Keys |-> "none"]
    /\ tasks = {}
    /\ queue = [w \in RemoteWorkers |-> <<>>]
    /\ open = [w \in RemoteWorkers |-> TRUE]
    /\ worker = [w \in RemoteWorkers |-> "ready"]
    /\ inbox = [w \in RemoteWorkers |-> <<>>]
    /\ results = <<>>
    /\ handler = [pc |-> "run", left |-> {}, size |-> 0]
    /\ monitor = [pc |-> "watch", left |-> {}, close |-> FALSE]

-----------------------------------------------------------------------------
\* The engine's thread: an operation of the executor is a list of steps.

Sentinel == [key |-> <<0, "none">>, value |-> "TERMINATE"]     \* of the result queue
Op(name, arg) == [op |-> name, arg |-> arg]
EachWorker(name, method) == [w \in RemoteWorkers |-> Op(name, <<w, method>>)]
Broadcast(msg) == <<Op("broadcast", msg), Op("joined", msg)>>

\* Mutant: the loops are started by every step.
MutStartLoops == EachWorker("enqueue", "start_loop") \o <<Op("started", TRUE)>>

\* execute_model: the loops are started once, and not by the engine's thread
\* in the asynchronous case.
StartLoops ==
    IF started \/ async THEN <<>>
    ELSE EachWorker("enqueue", "start_loop") \o <<Op("started", TRUE)>>

\* Mutant: parallel_worker_tasks is not reset.
MutStopLoops == Broadcast("stop") \o EachWorker("wait", "start_loop")

\* stop_remote_worker_execution_loop
StopLoops ==
    Broadcast("stop") \o <<Op("started", FALSE)>> \o EachWorker("wait", "start_loop")

ModelStep == StartLoops \o Broadcast("groups") \o Broadcast("metadata") \o <<Op("forward", "none")>>

\* The steps of the engine: a batch runs, with a RequestOutput for each group;
\* only transfers, or nothing at all, is scheduled and there are no outputs; a
\* finished request is scored by a forward pass of the driver alone.
Program(kind) ==
    CASE kind = "model" -> ModelStep
      [] kind = "transfer" -> StartLoops \o Broadcast("transfers") \o StopLoops
      [] kind = "nothing" -> IF started THEN StopLoops ELSE <<>>
      [] kind = "jacobian" -> ModelStep \o <<Op("forward", "none")>>

Free == engine = "up" /\ driver = <<>> /\ spawned = <<>>

EngineStep(kind) ==
    /\ Free
    /\ driver' = Program(kind)
    /\ IF async /\ ~started /\ kind # "nothing"
       THEN /\ spawned' = EachWorker("enqueue", "start_loop")
            /\ started' = TRUE
       ELSE UNCHANGED <<spawned, started>>
    /\ UNCHANGED <<async, engine, future, tasks, queue, open, worker, inbox, results, threads>>

\* _run_workers, as add_lora does: all workers and the driver itself.
Control ==
    /\ Free /\ (started => ControlInLoop)
    /\ driver' = EachWorker("enqueue", "control") \o EachWorker("wait", "control")
    /\ UNCHANGED <<executor, spawned, future, tasks, queue, open, worker, inbox, results, threads>>

\* WorkerMonitor.close
Shutdown ==
    /\ Free
    /\ engine' = "shutdown"
    /\ IF monitor.close THEN UNCHANGED <<driver, monitor>>
       ELSE /\ monitor' = [monitor EXCEPT !.close = TRUE]
            /\ driver' = EachWorker("terminate", "none") \o <<Op("close_handler", "none")>>
    /\ UNCHANGED <<async, spawned, started, future, tasks, queue, open, worker, inbox, results,
                   handler>>

\* The next step of the list of either thread.
At(thread, name) == thread # <<>> /\ Head(thread).op = name

\* _enqueue_task: the future is entered first, then the task is put.
Register(key) ==
    /\ tasks' = tasks \cup {key}
    /\ future' = [future EXCEPT ![key] = "pending"]
    /\ UNCHANGED <<executor, queue>>

Put(key) ==
    /\ open[key[1]]
    /\ queue' = [queue EXCEPT ![key[1]] = Append(@, key[2])]
    /\ UNCHANGED <<executor, tasks, future>>

\* The queue is closed: ChildProcessError.
PutFails(key) ==
    /\ ~open[key[1]]
    /\ tasks' = tasks \ {key}
    /\ future' = [future EXCEPT ![key] = "error"]
    /\ UNCHANGED <<async, started, queue>>

EnqueueByDriver ==
    /\ At(driver, "enqueue")
    /\ LET key == Head(driver).arg IN
       IF future[key] # "pending"
       THEN Register(key) /\ UNCHANGED driver
       ELSE \/ Put(key) /\ driver' = Tail(driver)
            \/ PutFails(key) /\ driver' = <<>> /\ engine' = "failed"
    /\ UNCHANGED <<spawned, open, worker, inbox, results, threads>>

EnqueueByTask ==
    /\ At(spawned, "enqueue")
    /\ LET key == Head(spawned).arg IN
       IF future[key] # "pending"
       THEN Register(key) /\ UNCHANGED spawned
       ELSE \/ Put(key) /\ spawned' = Tail(spawned)
            \/ PutFails(key) /\ spawned' = <<>> /\ UNCHANGED engine
    /\ UNCHANGED <<driver, open, worker, inbox, results, threads>>

SetStarted ==
    /\ At(driver, "started")
    /\ started' = Head(driver).arg
    /\ driver' = Tail(driver)
    /\ UNCHANGED <<async, engine, spawned, future, tasks, queue, open, worker, inbox, results,
                   threads>>

\* broadcast_tensor_dict at its source, which returns when all have received.
SendBroadcast ==
    /\ At(driver, "broadcast")
    /\ inbox' = [w \in RemoteWorkers |-> Append(inbox[w], Head(driver).arg)]
    /\ driver' = Tail(driver)
    /\ UNCHANGED <<executor, spawned, future, tasks, queue, open, worker, results, threads>>

BroadcastReturns ==
    /\ At(driver, "joined")
    /\ \A w \in RemoteWorkers : inbox[w] = <<>>
    /\ driver' = Tail(driver)
    /\ UNCHANGED <<executor, spawned, future, tasks, queue, open, worker, inbox, results, threads>>

\* The collectives of a forward pass.
Forward ==
    /\ At(driver, "forward")
    /\ \A w \in RemoteWorkers : worker[w] = "forward"
    /\ worker' = [w \in RemoteWorkers |-> "loop"]
    /\ driver' = Tail(driver)
    /\ UNCHANGED <<executor, spawned, future, tasks, queue, open, inbox, results, threads>>

\* A peer of the collective is gone: it may fail, or hang.
CollectiveFails ==
    /\ At(driver, "joined") \/ At(driver, "forward")
    /\ \E w \in RemoteWorkers : worker[w] = "dead"
    /\ driver' = <<>> /\ engine' = "failed"
    /\ UNCHANGED <<async, started, spawned, future, tasks, queue, open, worker, inbox, results,
                   threads>>

\* ResultFuture.get, or the await of the gathered tasks.
Wait ==
    /\ At(driver, "wait")
    /\ \/ /\ future[Head(driver).arg] = "value"
          /\ driver' = Tail(driver)
          /\ UNCHANGED engine
       \/ /\ future[Head(driver).arg] = "error"
          /\ driver' = <<>> /\ engine' = "failed"
    /\ UNCHANGED <<async, started, spawned, future, tasks, queue, open, worker, inbox, results,
                   threads>>

\* terminate_worker; putting into a closed queue kills the process instead.
Terminate ==
    /\ At(driver, "terminate")
    /\ LET w == Head(driver).arg[1] IN
       /\ IF open[w]
          THEN queue' = [queue EXCEPT ![w] = Append(@, "TERMINATE")] /\ UNCHANGED worker
          ELSE worker' = [worker EXCEPT ![w] = "dead"] /\ UNCHANGED queue
       /\ open' = [open EXCEPT ![w] = FALSE]
    /\ driver' = Tail(driver)
    /\ UNCHANGED <<executor, spawned, future, tasks, inbox, results, threads>>

CloseHandler ==
    /\ At(driver, "close_handler")
    /\ results' = Append(results, Sentinel)
    /\ driver' = Tail(driver)
    /\ UNCHANGED <<executor, spawned, future, tasks, queue, open, worker, inbox, threads>>

-----------------------------------------------------------------------------
\* A worker process.

Alive(w) == worker[w] \notin {"dead", "exited"}
InLoop(w) == worker[w] \in {"loop", "metadata", "forward"}
engineVars == <<executor, driver, spawned, future, tasks, open>>

\* The event loop of _run_worker_process takes a task.
TakeTask(w) ==
    /\ worker[w] = "ready" /\ queue[w] # <<>>
    /\ queue' = [queue EXCEPT ![w] = Tail(@)]
    /\ worker' = [worker EXCEPT ![w] =
            CASE Head(queue[w]) = "TERMINATE" -> "exited"
              [] Head(queue[w]) = "start_loop" -> "loop"
              [] OTHER -> "ready"]
    /\ results' = IF Head(queue[w]) = "control"
                  THEN Append(results, [key |-> <<w, "control">>, value |-> "value"]) ELSE results
    /\ UNCHANGED <<engineVars, inbox, threads>>

LoopEnds(w, value) ==
    /\ worker' = [worker EXCEPT ![w] = "ready"]
    /\ results' = Append(results, [key |-> <<w, "start_loop">>, value |-> value])

\* _execute_model_non_driver: no groups, or no data at all, ends the loop.
Receive(w) ==
    /\ worker[w] \in {"loop", "metadata"} /\ inbox[w] # <<>>
    /\ inbox' = [inbox EXCEPT ![w] = Tail(@)]
    /\ IF worker[w] = "loop" /\ Head(inbox[w]) \in {"stop", "transfers"}
       THEN LoopEnds(w, "value")
       ELSE /\ worker' = [worker EXCEPT ![w] = IF @ = "loop" THEN "metadata" ELSE "forward"]
            /\ UNCHANGED results
    /\ UNCHANGED <<engineVars, queue, threads>>

\* The process is killed, or the method it runs raises an exception.
Killed(w) ==
    /\ "killed" \in Faults /\ Alive(w)
    /\ worker' = [worker EXCEPT ![w] = "dead"]
    /\ UNCHANGED <<engineVars, queue, inbox, results, threads>>

Raises(w) ==
    /\ "exception" \in Faults /\ InLoop(w)
    /\ LoopEnds(w, "error")
    /\ UNCHANGED <<engineVars, queue, inbox, threads>>

-----------------------------------------------------------------------------
\* The background threads.

\* ResultHandler.run: a result sets its future.
HandleResult ==
    /\ handler.pc = "run" /\ results # <<>> /\ Head(results) # Sentinel
    /\ future' = [future EXCEPT ![Head(results).key] = Head(results).value]
    /\ tasks' = tasks \ {Head(results).key}
    /\ results' = Tail(results)
    /\ UNCHANGED <<executor, driver, spawned, queue, open, worker, inbox, threads>>

\* The sentinel: every future left gets an exception, one after the other.
HandleTerminate ==
    /\ handler.pc = "run" /\ results # <<>> /\ Head(results) = Sentinel
    /\ handler' = [pc |-> "drain", left |-> tasks, size |-> Cardinality(tasks)]
    /\ results' = Tail(results)
    /\ UNCHANGED <<executor, driver, spawned, future, tasks, queue, open, worker, inbox, monitor>>

\* Iteration over a dictionary that has changed its size is a RuntimeError.
Drain ==
    /\ handler.pc = "drain"
    /\ IF Cardinality(tasks) # handler.size \/ handler.left = {}
       THEN handler' = [handler EXCEPT !.pc = "done", !.left = {}] /\ UNCHANGED future
       ELSE \E k \in handler.left :
              /\ future' = [future EXCEPT ![k] = "error"]
              /\ handler' = [handler EXCEPT !.left = @ \ {k}]
    /\ UNCHANGED <<executor, driver, spawned, tasks, queue, open, worker, inbox, results, monitor>>

\* WorkerMonitor.run: a process has ended and nobody has asked for it.
NoticeDeath ==
    /\ monitor.pc = "watch"
    /\ \E w \in RemoteWorkers : ~Alive(w)
    /\ monitor' = IF monitor.close THEN [monitor EXCEPT !.pc = "done"]
                  ELSE [pc |-> "kill", left |-> RemoteWorkers, close |-> TRUE]
    /\ UNCHANGED <<engineVars, queue, worker, inbox, results, handler>>

\* Mutant: the queues are not closed before the handler is.
MutKillWorker ==
    /\ monitor.pc = "kill" /\ monitor.left # {}
    /\ worker' = [worker EXCEPT ![Min(monitor.left)] = "dead"]
    /\ monitor' = [monitor EXCEPT !.left = @ \ {Min(@)}]
    /\ UNCHANGED <<engineVars, queue, inbox, results, handler>>

KillWorker ==
    /\ monitor.pc = "kill" /\ monitor.left # {}
    /\ open' = [open EXCEPT ![Min(monitor.left)] = FALSE]
    /\ worker' = [worker EXCEPT ![Min(monitor.left)] = "dead"]
    /\ monitor' = [monitor EXCEPT !.left = @ \ {Min(@)}]
    /\ UNCHANGED <<executor, driver, spawned, future, tasks, queue, inbox, results, handler>>

\* "Must be done after worker task queues are all closed."
CloseAfterKill ==
    /\ monitor.pc = "kill" /\ monitor.left = {}
    /\ results' = Append(results, Sentinel)
    /\ monitor' = [monitor EXCEPT !.pc = "done"]
    /\ UNCHANGED <<engineVars, queue, worker, inbox, handler>>

Driver ==
    \/ EnqueueByDriver \/ SetStarted \/ SendBroadcast \/ BroadcastReturns \/ Forward
    \/ Wait \/ Terminate \/ CloseHandler
ResultHandler == HandleResult \/ HandleTerminate \/ Drain
WorkerMonitor == NoticeDeath \/ KillWorker \/ CloseAfterKill
WorkerProcess(w) == TakeTask(w) \/ Receive(w)

Next ==
    \/ \E kind \in StepKinds : EngineStep(kind)
    \/ Control \/ Shutdown \/ Driver \/ CollectiveFails \/ EnqueueByTask
    \/ ResultHandler \/ WorkerMonitor
    \/ \E w \in RemoteWorkers : WorkerProcess(w) \/ Killed(w) \/ Raises(w)

\* Threads and processes run; the engine need not be called, nothing need fail.
Spec ==
    /\ Init /\ [][Next]_vars
    /\ WF_vars(Driver) /\ WF_vars(EnqueueByTask)
    /\ WF_vars(ResultHandler) /\ WF_vars(WorkerMonitor)
    /\ \A w \in RemoteWorkers : WF_vars(WorkerProcess(w))

-----------------------------------------------------------------------------
\* Properties.

\* No process has died and no worker's method has raised an exception.
AllAlive == \A w \in RemoteWorkers : Alive(w)
Healthy ==
    /\ AllAlive
    /\ \A k \in Keys : future[k] # "error"
    /\ \A i \in DOMAIN results : results[i].value # "error"

HasLoop(w) == InLoop(w) \/ \E i \in DOMAIN queue[w] : queue[w][i] = "start_loop"

\* Between two operations of the executor, either all remote workers run the
\* execution loop or none does, as parallel_worker_tasks says (docstring of
\* _start_worker_execution_loop); and a worker is where the broadcast that
\* waits for it is meant to be received.
LoopsAgree ==
    /\ Free /\ Healthy => \A w \in RemoteWorkers : HasLoop(w) = started
    /\ \A w \in RemoteWorkers :
        /\ Len(inbox[w]) <= 1
        /\ Healthy /\ inbox[w] = <<"metadata">> => worker[w] = "metadata"
        /\ Healthy /\ inbox[w] \in {<<"groups">>, <<"stop">>} => worker[w] \in {"ready", "loop"}

\* Unless a process dies or raises, every operation of the executor ends: no broadcast,
\* forward pass or future is waited for in vain.
StepsComplete == driver # <<>> ~> (driver = <<>> \/ ~Healthy)

\* After a process has died, or a shutdown, no thread waits for a result that
\* does not come: its future is set, whenever the task was enqueued.
Waiting == At(driver, "wait") /\ future[Head(driver).arg] = "pending"
WaitersWoken == (Waiting /\ (~AllAlive \/ monitor.close)) ~> ~Waiting

\* Nobody waits for ever, while all goes well and after a worker was lost.
NobodyWaitsInVain == StepsComplete /\ WaitersWoken
=============================================================================
