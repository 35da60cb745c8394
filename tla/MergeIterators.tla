--------------------------- MODULE MergeIterators ---------------------------
(***************************************************************************)
(* merge_async_iterators (vllm/utils.py): one producer task per iterator,  *)
(* an unbounded queue, and the consumer, which the caller drives.  An      *)
(* action is the code between two suspension points: put never suspends,   *)
(* get does when the queue is empty.                                       *)
(***************************************************************************)
EXTENDS Integers, SequencesExt, Lists

CONSTANTS
    Iterators,      \* indices of the merged iterators
    MaxItems,       \* bound: items an iterator yields, at most
    MayRaise,       \* an iterator may raise
    MayEndSilently  \* it may end with nothing since it was last resumed

ASSUME MergeIteratorsAssumption ==
    /\ Iterators # {}
    /\ MaxItems \in Nat
    /\ MayRaise \in BOOLEAN /\ MayEndSilently \in BOOLEAN

VARIABLES
    producer,   \* "runs", "ended", or "cancelled": the tasks in _tasks
    finished,   \* finished
    yielded,    \* items an iterator has yielded
    queue,      \* queue, of <<i, item>>; item 0 is an exception
    consumer,   \* where the consumer is
    got         \* what it has yielded to the caller

vars == <<producer, finished, yielded, queue, consumer, got>>

AllFinished == \A i \in Iterators : finished[i]

-----------------------------------------------------------------------------
\* producer(i): the iterator yields an item and waits for the next.
Produce(i) ==
    /\ producer[i] = "runs" /\ yielded[i] < MaxItems
    /\ yielded' = [yielded EXCEPT ![i] = @ + 1]
    /\ queue' = Append(queue, <<i, yielded[i] + 1>>)
    /\ UNCHANGED <<producer, finished, consumer, got>>

\* It yields its last item and ends without waiting in between.
ProduceLast(i) ==
    /\ producer[i] = "runs" /\ yielded[i] < MaxItems
    /\ yielded' = [yielded EXCEPT ![i] = @ + 1]
    /\ queue' = Append(queue, <<i, yielded[i] + 1>>)
    /\ producer' = [producer EXCEPT ![i] = "ended"]
    /\ finished' = [finished EXCEPT ![i] = TRUE]
    /\ UNCHANGED <<consumer, got>>

\* It ends with no new item.
EndSilently(i) ==
    /\ MayEndSilently
    /\ producer[i] = "runs"
    /\ producer' = [producer EXCEPT ![i] = "ended"]
    /\ finished' = [finished EXCEPT ![i] = TRUE]
    /\ UNCHANGED <<yielded, queue, consumer, got>>

\* It raises.
ProduceError(i) ==
    /\ MayRaise
    /\ producer[i] = "runs"
    /\ queue' = Append(queue, <<i, 0>>)
    /\ producer' = [producer EXCEPT ![i] = "ended"]
    /\ finished' = [finished EXCEPT ![i] = TRUE]
    /\ UNCHANGED <<yielded, consumer, got>>

\* The condition of the consumer's loop, and one that forgets the queue
MutGoesOn == ~AllFinished
GoesOn == ~AllFinished \/ queue # <<>>

\* What becomes of the producers when the consumer fails
CancelProducers ==
    [i \in Iterators |-> IF producer[i] = "runs" THEN "cancelled" ELSE producer[i]]

\* isinstance(item, Exception)
IsException(entry) == entry[2] = 0

\* get returns an entry: it is yielded or raised.
Take ==
    /\ queue' = Tail(queue)
    /\ IF IsException(Head(queue)) THEN
          /\ consumer' = "raised"
          /\ producer' = CancelProducers
          /\ UNCHANGED got
       ELSE
          /\ consumer' = "caller"
          /\ got' = Append(got, Head(queue))
          /\ UNCHANGED producer
    /\ UNCHANGED <<finished, yielded>>

\* The consumer tests its loop and calls get, which may have to wait, or
\* leaves the loop.
Test ==
    /\ consumer = "loop"
    /\ IF GoesOn /\ queue # <<>> THEN Take
       ELSE /\ consumer' = IF GoesOn THEN "get" ELSE "gather"
            /\ UNCHANGED <<producer, finished, yielded, queue, got>>

Get == consumer = "get" /\ queue # <<>> /\ Take

\* The caller asks for the next item.
Resume ==
    /\ consumer = "caller"
    /\ consumer' = "loop"
    /\ UNCHANGED <<producer, finished, yielded, queue, got>>

\* The caller's task is cancelled while it awaits get.
CancelConsumer ==
    /\ MayRaise
    /\ consumer = "get"
    /\ consumer' = "raised"
    /\ producer' = CancelProducers
    /\ UNCHANGED <<finished, yielded, queue, got>>

\* gather of the producers returns.
Gather ==
    /\ consumer = "gather"
    /\ \A i \in Iterators : producer[i] = "ended"
    /\ consumer' = "ended"
    /\ UNCHANGED <<producer, finished, yielded, queue, got>>

-----------------------------------------------------------------------------
Init ==
    /\ producer = [i \in Iterators |-> "runs"]
    /\ finished = [i \in Iterators |-> FALSE]
    /\ yielded = [i \in Iterators |-> 0]
    /\ queue = <<>> /\ got = <<>>
    /\ consumer = "loop"

Producer(i) == Produce(i) \/ ProduceLast(i) \/ EndSilently(i) \/ ProduceError(i)
Consumer == Test \/ Get \/ Resume \/ CancelConsumer \/ Gather

Next == (\E i \in Iterators : Producer(i)) \/ Consumer

Spec == Init /\ [][Next]_vars

\* Every iterator goes on, and comes to an end; the caller reads on, and the
\* event loop runs whoever can run.
FairSpec ==
    /\ Spec
    /\ \A i \in Iterators : WF_vars(ProduceLast(i) \/ EndSilently(i) \/ ProduceError(i))
    /\ WF_vars(Test \/ Get \/ Resume \/ Gather)

-----------------------------------------------------------------------------
\* Type invariant: the queue and what was read hold items of the iterators.
TypeOK ==
    /\ producer \in [Iterators -> {"runs", "ended", "cancelled"}]
    /\ finished \in [Iterators -> BOOLEAN]
    /\ yielded \in [Iterators -> 0 .. MaxItems]
    /\ queue \in Seq(Iterators \X (0 .. MaxItems))
    /\ got \in Seq(Iterators \X (1 .. MaxItems))
    /\ consumer \in {"loop", "get", "caller", "gather", "ended", "raised"}

\* What the caller has got of iterator i.
ItemsOf(i) == {i} \X (1 .. MaxItems)
GotOf(i) == Select(got, ItemsOf(i))

\* The caller gets the items of each iterator in order, none twice and none
\* left out, whatever the others do in between.
InOrder ==
    \A i \in Iterators : GotOf(i) = [n \in 1 .. Len(GotOf(i)) |-> <<i, n>>]

\* When the merged iterator ends, every item has been handed over and no
\* exception was swallowed.
AllDelivered ==
    consumer = "ended" => queue = <<>> /\ \A i \in Iterators : Len(GotOf(i)) = yielded[i]

\* Nobody goes on reading an iterator for a consumer that has failed.
NoOrphan == consumer = "raised" => \A i \in Iterators : producer[i] # "runs"

\* What holds of the queue and the tasks in every state.
MergeInv == TypeOK /\ InOrder /\ AllDelivered /\ NoOrphan

\* A claim that the code does not keep.  The merged iterator comes to an end when
\* all iterators have ended ("This method handle the case where some iterators
\* finish before others").
ConsumerEnds == <>(consumer \in {"ended", "raised"})
=============================================================================
