---------------------------- MODULE AsyncEngine ----------------------------
(***************************************************************************)
(* AsyncLLMEngine, RequestTracker and AsyncStream                          *)
(* (engine/async_llm_engine.py): client coroutines that call generate and  *)
(* abort, and the background loop that feeds their requests to the engine  *)
(* and routes its outputs back.  The event loop is cooperative, so one     *)
(* action is the code between two suspension points.  The LLMEngine behind *)
(* engine_step is the queue of groups it has unfinished: a step schedules  *)
(* some of them, at least one unless the last running group may have to    *)
(* preempt itself (MayScheduleNone), and each gets one more output.        *)
(***************************************************************************)
EXTENDS Lists, SequencesExt

CONSTANTS
    Clients,            \* calls of generate(); a call owns one AsyncStream
    ReqIds,             \* request ids
    ReqOf,              \* [Clients -> ReqIds], the request_id of a call
    MayBeInvalid,       \* calls for which add_request_async may raise ValueError
    NoStream,           \* model value: no entry in _request_streams
    MaxOutputs,         \* outputs of a request, at most (max_tokens)
    Setups,             \* ways the engine may be set up, [faults, start_engine_loop]
    MayScheduleNone     \* the scheduler may preempt the last running group

ASSUME AsyncEngineAssumption ==
    /\ ReqOf \in [Clients -> ReqIds]
    /\ MayBeInvalid \subseteq Clients
    /\ NoStream \notin Clients
    /\ MaxOutputs \in Nat \ {0}
    /\ Setups \subseteq [faults : SUBSET {"model", "timeout"}, start_engine_loop : BOOLEAN]
    /\ MayScheduleNone \in BOOLEAN

VARIABLES
    setup,              \* the one of this engine
    pc,                 \* where the coroutine of a call is
    streams,            \* what was ever put in the queue of a call's stream
    read,               \* how much of it the call has taken out
    aborted,            \* calls for which abort() was called
    registered,         \* RequestTracker._request_streams
    new_requests,       \* RequestTracker._new_requests
    finished_requests,  \* RequestTracker._finished_requests, drained as a set
    new_requests_event, \* RequestTracker.new_requests_event.is_set()
    loop,               \* where run_engine_loop is
    callback,           \* its done callback is scheduled and has not run
    errored,            \* _errored_with is not None
    engine,             \* groups the engine has, in order of arrival
    scheduled,          \* groups of the step the workers execute
    produced            \* outputs a group has had

client == <<pc, read, aborted>>
tracker == <<registered, new_requests, finished_requests, new_requests_event>>
backend == <<engine, scheduled, produced>>
vars == <<setup, client, streams, tracker, loop, callback, errored, backend>>

Faults == setup.faults                      \* what may go wrong
StartEngineLoop == setup.start_engine_loop

Items == {"output", "final", "error", "stop"}
ClientStates ==
    {"idle", "tokenizing", "reading", "ended", "failed", "cancelled", "rejected"}
\* idle: not started; wait: about to call wait_for_new_requests; blocked: in
\* it, on the event; step: about to run engine_step; exec: awaits the workers;
\* done: the task has ended
LoopStates == {"idle", "wait", "blocked", "step", "exec", "done"}

-----------------------------------------------------------------------------
\* AsyncStream, on the contents s of all streams.

Finished(s, c) == Contains(s[c], "stop")

Put(s, c, item) ==
    IF Finished(s, c) THEN s ELSE [s EXCEPT ![c] = Append(@, item)]
Finish(s, c) == [s EXCEPT ![c] = Append(@, "stop")]

\* RequestTracker.abort_request(id): its effect on the streams.
AbortStream(s, reg, id) ==
    IF reg[id] = NoStream \/ Finished(s, reg[id]) THEN s ELSE Finish(s, reg[id])

\* process_exception for each of ids, and propagate_exception: an error and the
\* end, once per stream
FailAll(s, reg, ids) ==
    [c \in Clients |-> IF ReqOf[c] \in ids /\ reg[ReqOf[c]] = c
                       THEN AbortStream(Put(s, c, "error"), reg, ReqOf[c])[c] ELSE s[c]]

AbortRequest(id) ==
    /\ streams' = AbortStream(streams, registered, id)
    /\ finished_requests' = finished_requests \cup {id}
    /\ UNCHANGED <<registered, new_requests, new_requests_event>>

\* start_background_loop, unless the caller has to start it or it has failed
MayStartLoop == StartEngineLoop /\ ~errored

IsRunning == loop \in {"wait", "blocked", "step", "exec"}

-----------------------------------------------------------------------------
\* The calls.

\* add_request up to the await of process_model_inputs_async
Generate(c) ==
    /\ pc[c] = "idle"
    /\ IF IsRunning THEN
          /\ pc' = [pc EXCEPT ![c] = "tokenizing"]
          /\ UNCHANGED <<tracker, loop>>
       ELSE IF ~MayStartLoop THEN                   \* AsyncEngineDeadError
          /\ pc' = [pc EXCEPT ![c] = "rejected"]
          /\ UNCHANGED <<tracker, loop>>
       ELSE                                         \* start_background_loop
          /\ pc' = [pc EXCEPT ![c] = "tokenizing"]
          /\ registered' = [id \in ReqIds |-> NoStream]
          /\ new_requests' = <<>>
          /\ finished_requests' = {}
          /\ new_requests_event' = FALSE
          /\ loop' = "wait"
    /\ UNCHANGED <<read, aborted, streams, callback, errored, backend>>

\* The end of RequestTracker.add_request, and one that wakes nobody.
MutEnqueueSilently(c) ==
    new_requests' = Append(new_requests, c) /\ UNCHANGED new_requests_event
Enqueue(c) ==
    new_requests' = Append(new_requests, c) /\ new_requests_event' = TRUE

\* RequestTracker.add_request, once the prompt is tokenized
AddRequest(c) ==
    /\ pc[c] = "tokenizing"
    /\ IF registered[ReqOf[c]] # NoStream THEN      \* KeyError
          /\ pc' = [pc EXCEPT ![c] = "rejected"]
          /\ UNCHANGED tracker
       ELSE
          /\ pc' = [pc EXCEPT ![c] = "reading"]
          /\ Enqueue(c)
          /\ UNCHANGED <<registered, finished_requests>>
    /\ UNCHANGED <<read, aborted, streams, loop, callback, errored, backend>>

\* __anext__ in the async for of _process_request
Read(c) ==
    /\ pc[c] = "reading"
    /\ read[c] < Len(streams[c])
    /\ read' = [read EXCEPT ![c] = @ + 1]
    /\ LET item == streams[c][read[c] + 1] IN
       IF item = "error" THEN
          /\ pc' = [pc EXCEPT ![c] = "failed"]
          /\ AbortRequest(ReqOf[c])
       ELSE
          /\ pc' = IF item = "stop" THEN [pc EXCEPT ![c] = "ended"] ELSE pc
          /\ UNCHANGED <<streams, tracker>>
    /\ UNCHANGED <<aborted, loop, callback, errored, backend>>

\* The task of the call is cancelled: before the stream exists, or in the
\* async for, where _process_request aborts the request.
Cancel(c) ==
    /\ pc[c] \in {"tokenizing", "reading"}
    /\ pc' = [pc EXCEPT ![c] = "cancelled"]
    /\ IF pc[c] = "reading" THEN AbortRequest(ReqOf[c])
       ELSE UNCHANGED <<streams, tracker>>
    /\ UNCHANGED <<read, aborted, loop, callback, errored, backend>>

\* abort(): a server whose client went away, and call_llm after its answer
Abort(c) ==
    /\ IsRunning
    /\ pc[c] \in {"reading", "ended"}
    /\ c \notin aborted
    /\ aborted' = aborted \cup {c}
    /\ AbortRequest(ReqOf[c])
    /\ UNCHANGED <<pc, read, loop, callback, errored, backend>>

-----------------------------------------------------------------------------
\* The background loop.  A callback scheduled by call_soon runs before the
\* first step of a task created after it.

\* wait_for_new_requests: blocks, or clears the event at once
WaitForNewRequests ==
    /\ loop = "wait"
    /\ ~callback
    /\ IF new_requests = <<>> /\ ~new_requests_event
       THEN /\ loop' = "blocked"
            /\ UNCHANGED new_requests_event
       ELSE /\ loop' = "step"
            /\ new_requests_event' = FALSE
    /\ UNCHANGED <<client, streams, registered, new_requests, finished_requests,
                   callback, errored, backend>>

\* event.wait() returns, and the event is cleared
WakeUp ==
    /\ loop = "blocked"
    /\ new_requests_event
    /\ new_requests_event' = FALSE
    /\ loop' = "step"
    /\ UNCHANGED <<client, streams, registered, new_requests, finished_requests,
                   callback, errored, backend>>

\* Every queued request is kept, aborted or not.
MutKeptAborted == new_requests

\* get_new_and_finished_requests: the queued calls that are kept, and the
\* streams by request id afterwards
Kept == Select(new_requests, {c \in Clients : ReqOf[c] \notin finished_requests})
KeptFor(id) == Select(Kept, {c \in Clients : ReqOf[c] = id})
Registration ==
    [id \in ReqIds |-> IF KeptFor(id) # <<>> THEN Last(KeptFor(id))
                       ELSE IF id \in finished_requests THEN NoStream ELSE registered[id]]
DroppedClosed ==
    [c \in Clients |-> IF Contains(new_requests, c) /\ ~Contains(Kept, c)
                       THEN Append(streams[c], "stop") ELSE streams[c]]

\* The finished ids are not handed to the engine.
MutNoEngineAbort(q, ids) == {{}}

\* LLMEngine.abort_request: of the groups in q, one per id leaves
AbortChoices(q, ids) ==
    {gone \in SUBSET {c \in ToSet(q) : ReqOf[c] \in ids} :
        \A id \in ids \cap {ReqOf[c] : c \in ToSet(q)} :
            \E c \in gone : {d \in gone : ReqOf[d] = id} = {c}}
Without(q, gone) == Select(q, Clients \ gone)

\* has_requests_in_progress = len(request_outputs) > 0
AfterStep(outputs) == IF Len(outputs) > 0 THEN "step" ELSE "wait"

\* engine_step up to the await of execute_model_async; when nothing is
\* scheduled the step ends here and reports nothing in progress
EngineStep ==
    /\ loop = "step"
    /\ \E invalid \in SUBSET (MayBeInvalid \cap ToSet(Kept)) :
          LET reg == Registration
              arrived == engine \o Without(Kept, invalid)
          IN /\ registered' = reg
             /\ streams' = FailAll(DroppedClosed, reg, {ReqOf[c] : c \in invalid})
             /\ new_requests' = <<>>
             /\ finished_requests' = {ReqOf[c] : c \in invalid}
             /\ \E gone \in AbortChoices(arrived, finished_requests) :
                   engine' = Without(arrived, gone)
    /\ \E picked \in SUBSET ToSet(engine') :
          /\ engine' # <<>> /\ ~MayScheduleNone => picked # {}
          /\ scheduled' = Select(engine', picked)
    /\ loop' = IF scheduled' = <<>> THEN AfterStep(<<>>) ELSE "exec"
    /\ UNCHANGED <<client, new_requests_event, callback, errored, produced>>

\* The stop checker: the last output allowed is the last one.
MustFinish(c) == produced[c] + 1 = MaxOutputs

\* The request is finished before its last output is put.
MutDeliverLate(out, c, last) ==
    LET id == ReqOf[c]
        item == IF c \in last THEN "final" ELSE "output"
        s == IF c \in last THEN AbortStream(out.streams, registered, id)
             ELSE out.streams
    IN IF out.dead \/ registered[id] = NoStream THEN [out EXCEPT !.dead = TRUE]
       ELSE [out EXCEPT !.streams = Put(s, registered[id], item),
                        !.finished = IF c \in last THEN @ \cup {id} ELSE @]

\* process_request_output, for the group of a call; KeyError ends the step
Deliver(out, c, last) ==
    LET id == ReqOf[c]
        item == IF c \in last THEN "final" ELSE "output"
        s == Put(out.streams, registered[id], item)
    IN IF out.dead \/ registered[id] = NoStream THEN [out EXCEPT !.dead = TRUE]
       ELSE IF c \notin last THEN [out EXCEPT !.streams = s]
       ELSE [out EXCEPT !.streams = AbortStream(s, registered, id),
                        !.finished = @ \cup {id}]

\* The outputs of a step, one after the other
Delivered(last) ==
    LET out[i \in 0 .. Len(scheduled)] ==
            IF i = 0 THEN [streams |-> streams, dead |-> FALSE, finished |-> finished_requests]
            ELSE Deliver(out[i - 1], scheduled[i], last)
    IN  out[Len(scheduled)]

\* The rest of engine_step and of the iteration of run_engine_loop.
ModelReturns ==
    /\ loop = "exec"
    /\ \E last \in SUBSET ToSet(scheduled) :
          LET out == Delivered(last) IN
          /\ \A c \in ToSet(scheduled) : MustFinish(c) => c \in last
          /\ engine' = Without(engine, last)
          /\ streams' = out.streams
          /\ finished_requests' = out.finished
          /\ loop' = IF out.dead THEN "done" ELSE AfterStep(scheduled)
          /\ callback' = out.dead
    /\ produced' = [c \in Clients |-> IF Contains(scheduled, c) THEN produced[c] + 1
                                      ELSE produced[c]]
    /\ scheduled' = <<>>
    /\ UNCHANGED <<client, registered, new_requests, new_requests_event, errored>>

\* execute_model_async raises, or wait_for times out (set_errored first)
Breaks(fault) ==
    /\ loop = "exec"
    /\ fault \in Faults
    /\ loop' = "done"
    /\ callback' = TRUE
    /\ errored' = (errored \/ fault = "timeout")
    /\ scheduled' = <<>>
    /\ UNCHANGED <<client, streams, tracker, engine, produced>>

\* propagate_exception to the registered streams, and none at all
MutPropagateNothing == streams
PropagateException == FailAll(streams, registered, ReqIds)

\* _raise_exception_on_finish and _error_callback
Callback ==
    /\ callback
    /\ callback' = FALSE
    /\ errored' = TRUE
    /\ streams' = PropagateException
    /\ finished_requests' = finished_requests \cup
                            {id \in ReqIds : registered[id] # NoStream}
    /\ UNCHANGED <<client, registered, new_requests, new_requests_event, loop, backend>>

-----------------------------------------------------------------------------
Init ==
    /\ setup \in Setups
    /\ pc = [c \in Clients |-> "idle"]
    /\ streams = [c \in Clients |-> <<>>]
    /\ read = [c \in Clients |-> 0]
    /\ aborted = {}
    /\ registered = [id \in ReqIds |-> NoStream]
    /\ new_requests = <<>>
    /\ finished_requests = {}
    /\ new_requests_event = FALSE
    /\ loop = IF StartEngineLoop THEN "idle" ELSE "wait"
    /\ callback = FALSE
    /\ errored = FALSE
    /\ engine = <<>>
    /\ scheduled = <<>>
    /\ produced = [c \in Clients |-> 0]

Same == UNCHANGED setup

Next ==
    /\ \/ \E c \in Clients :
              Generate(c) \/ AddRequest(c) \/ Read(c) \/ Cancel(c) \/ Abort(c)
       \/ WaitForNewRequests \/ WakeUp \/ EngineStep \/ ModelReturns \/ Callback
       \/ \E fault \in Faults : Breaks(fault)
    /\ Same

\* The event loop runs every task that is ready, and the workers answer, fail
\* or run into the timeout.  Nobody has to call, cancel or abort.
Fairness ==
    /\ WF_vars(Same /\ WaitForNewRequests) /\ WF_vars(Same /\ WakeUp)
    /\ WF_vars(Same /\ EngineStep) /\ WF_vars(Same /\ Callback)
    /\ WF_vars(Same /\ (ModelReturns \/ \E fault \in Faults : Breaks(fault)))
    /\ \A c \in Clients : WF_vars(Same /\ AddRequest(c)) /\ WF_vars(Same /\ Read(c))

Spec == Init /\ [][Next]_vars
FairSpec == Spec /\ Fairness

-----------------------------------------------------------------------------
\* Every variable has its type.
TypeOK ==
    /\ pc \in [Clients -> ClientStates]
    /\ streams \in [Clients -> Seq(Items)]
    /\ read \in [Clients -> Nat]
    /\ aborted \subseteq Clients
    /\ registered \in [ReqIds -> Clients \cup {NoStream}]
    /\ new_requests \in Seq(Clients)
    /\ finished_requests \subseteq ReqIds
    /\ new_requests_event \in BOOLEAN
    /\ loop \in LoopStates
    /\ callback \in BOOLEAN /\ errored \in BOOLEAN
    /\ engine \in Seq(Clients) /\ scheduled \in Seq(Clients)
    /\ produced \in [Clients -> 0 .. MaxOutputs]

\* A stream is ended once and nothing follows: the last output, or the error,
\* is followed by the end of the iteration and by nothing else, whatever the
\* order of abort, error and late outputs (put, finish, abort_request).
OneEnding ==
    \A c \in Clients : \A i \in DOMAIN streams[c] :
        /\ streams[c][i] = "stop" => i = Len(streams[c])
        /\ streams[c][i] \in {"final", "error"} =>
              i + 1 = Len(streams[c]) /\ streams[c][i + 1] = "stop"

\* A call sees its iteration end without a last output or an error only when
\* that request was aborted or its own task cancelled.
NoSilentEnd ==
    \A c \in Clients :
        Finished(streams, c) =>
            \/ Contains(streams[c], "final") \/ Contains(streams[c], "error")
            \/ c \in aborted \/ pc[c] = "cancelled"

\* A stream is registered under the id of its call, and a call that is new or
\* queued has had nothing yet.  A group that is scheduled may have an output.
Untouched(c) ==
    /\ streams[c] = <<>> /\ produced[c] = 0
    /\ registered[ReqOf[c]] # c /\ ~Contains(engine, c)
Routed ==
    /\ \A id \in ReqIds : registered[id] # NoStream => ReqOf[registered[id]] = id
    /\ IsInjective(new_requests) /\ IsInjective(engine) /\ IsInjective(scheduled)
    /\ \A c \in Clients :
          /\ pc[c] \in {"idle", "tokenizing"} => Untouched(c) /\ ~Contains(new_requests, c)
          /\ Contains(new_requests, c) => Untouched(c)
          /\ Contains(scheduled, c) => Contains(engine, c)
          /\ Contains(engine, c) => produced[c] < MaxOutputs

\* The tracker closes the stream of an id before it forgets it, and drops a
\* queued call only if somebody gave it up.
Closed ==
    \A id \in finished_requests :
        registered[id] # NoStream => Finished(streams, registered[id])
DroppedWereGivenUp ==
    \A c \in Clients :
        Contains(new_requests, c) /\ ReqOf[c] \in finished_requests
            => c \in aborted \/ pc[c] = "cancelled"

\* What holds of the streams with and without faults of the workers.
StreamsInv ==
    /\ TypeOK /\ OneEnding /\ Routed /\ Closed
    /\ NoSilentEnd /\ DroppedWereGivenUp

\* Between two steps of the loop the groups in the engine and the open
\* streams correspond: each output of the next step finds the stream of its
\* own call (no KeyError in process_request_output), and no open stream waits
\* for a group the engine does not have.
EngineMatchesStreams ==
    IsRunning =>
        /\ \A c \in ToSet(engine) : registered[ReqOf[c]] = c
        /\ \A id \in ReqIds :
              LET c == registered[id] IN
              c # NoStream /\ ~Finished(streams, c) => Contains(engine, c)

\* The loop stops polling (has_requests_in_progress is False) only when the
\* engine has no group left, although it only looks at the number of outputs
\* of the last step.
SleepsOnlyWhenIdle == loop \in {"wait", "blocked"} => engine = <<>>

\* The engine loop never ends without a fault of the workers.
EngineSurvives == Faults = {} => loop # "done"

\* An engine that is errored is stopped (is_stopped, check_health).
ErroredIsStopped == errored => ~IsRunning

\* A call that reads an open stream is queued or registered, nothing was done
\* before the loop began, and a fault ends it for good.
ReadersAreKnown ==
    \A c \in Clients :
        pc[c] = "reading" /\ ~Finished(streams, c) =>
            Contains(new_requests, c) \/ registered[ReqOf[c]] = c
LoopInv ==
    /\ loop = "idle" => /\ StartEngineLoop /\ engine = <<>> /\ new_requests = <<>>
                        /\ \A c \in Clients : pc[c] = "idle"
    /\ loop = "exec" => scheduled # <<>>
    /\ callback \/ errored => loop = "done"

\* The stream of a call as its caller may count on it.
Outputs(c) == Len(Select(streams[c], {"output", "final"}))
OutputsCounted == \A c \in Clients : Outputs(c) <= produced[c]

\* What holds of the loop, the engine behind it and the streams.
EngineInv ==
    /\ EngineMatchesStreams /\ ReadersAreKnown /\ OutputsCounted
    /\ SleepsOnlyWhenIdle /\ EngineSurvives /\ ErroredIsStopped /\ LoopInv

\* A request that was aborted, or whose call was cancelled, gives its place in
\* the engine back.
AbortedLeavesEngine ==
    \A c \in Clients :
        Faults = {} /\ (c \in aborted \/ pc[c] = "cancelled") ~> ~Contains(engine, c)

\* After a fault every call whose stream is registered gets to know.
RegisteredRequestEnds ==
    \A c \in Clients :
        pc[c] = "reading" /\ registered[ReqOf[c]] = c ~> pc[c] # "reading"

Reply(c) ==
    [state |-> IF Finished(streams, c) THEN
                  IF Contains(streams[c], "final") THEN "answered"
                  ELSE IF Contains(streams[c], "error") THEN "failed" ELSE "aborted"
               ELSE IF pc[c] = "reading" \/ Contains(new_requests, c)
                       \/ registered[ReqOf[c]] = c
                    THEN "open" ELSE "none",
     outputs |-> Outputs(c)]

Service == INSTANCE RequestService WITH reply <- [c \in Clients |-> Reply(c)]

\* The engine implements the service: a step of the loop, a call, an abort, a
\* cancellation or a fault changes the replies the way RequestService allows, and
\* without a fault no open reply stays open.
ImplementsService ==
    /\ Service!Spec
    /\ \A c \in Clients :
        Faults = {} /\ Reply(c).state = "open" ~> Reply(c).state \in Service!Endings
=============================================================================
