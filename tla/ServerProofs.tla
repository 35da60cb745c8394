---------------------------- MODULE ServerProofs ----------------------------
(***************************************************************************)
(* Proofs about MergeIterators for any number of iterators, items and      *)
(* failures, and about the server that reads the streams of a request      *)
(* through it, for every request and everything that the engine makes of   *)
(* it: no item is lost, reordered or delivered twice, the response is made *)
(* of the last output of every prompt, and the handler never waits for     *)
(* what cannot come.                                                       *)
(***************************************************************************)
EXTENDS ServerStart, ListLemmas

USE MergeIteratorsAssumption

-----------------------------------------------------------------------------
\* The merge.

Entries == Iterators \X (0 .. MaxItems)
Items == Iterators \X (1 .. MaxItems)
Got(i) == Len(GotOf(i))

\* A producer is finished once its task has ended, and cancelled by a consumer that
\* has failed.
TasksInv ==
  /\ \A i \in Iterators : finished[i] <=> producer[i] = "ended"
  /\ \A i \in Iterators : producer[i] = "cancelled" => consumer = "raised"

\* The queue holds of every iterator what was yielded and not got, in its order.
QueueInv ==
  /\ \A i \in Iterators : Got(i) <= yielded[i]
  /\ \A k \in 1 .. Len(queue) : ~IsException(queue[k]) =>
        Got(queue[k][1]) < queue[k][2] /\ queue[k][2] <= yielded[queue[k][1]]
  /\ \A i \in Iterators : \A n \in Got(i) + 1 .. yielded[i] :
        \E k \in 1 .. Len(queue) : queue[k] = <<i, n>>
  /\ \A j, k \in 1 .. Len(queue) :
        j < k /\ queue[j][1] = queue[k][1] /\ ~IsException(queue[j]) /\ ~IsException(queue[k]) =>
           queue[j][2] < queue[k][2]

\* What the consumer knows where it is.
ConsumerInv ==
  /\ consumer \in {"gather", "ended"} => queue = <<>> /\ AllFinished
  /\ consumer = "caller" => got # <<>>

MergeIInv == TypeOK /\ InOrder /\ NoOrphan /\ TasksInv /\ QueueInv /\ ConsumerInv

LEMMA EntryFacts ==
  ASSUME NEW e \in Entries
  PROVE  /\ e[1] \in Iterators /\ e[2] \in 0 .. MaxItems /\ e = <<e[1], e[2]>>
         /\ (IsException(e) <=> e[2] = 0)
         /\ (~IsException(e) => e \in Items)
BY DEF Entries, Items, IsException

LEMMA GotFacts ==
  ASSUME TypeOK, NEW i \in Iterators
  PROVE  GotOf(i) \in Seq(Items) /\ Got(i) \in Nat
<1>1. got \in Seq(Items)
  BY DEF TypeOK, Items
<1>2. GotOf(i) \in Seq(Items)
  BY <1>1, SelectFacts DEF GotOf
<1> QED BY <1>2 DEF Got

\* One item more.
LEMMA GotAppend ==
  ASSUME TypeOK, NEW e \in Items, got' = Append(got, e), NEW i \in Iterators
  PROVE  /\ e[1] # i => GotOf(i)' = GotOf(i)
         /\ e[1] = i => GotOf(i)' = Append(GotOf(i), e) /\ Got(i)' = Got(i) + 1
<1>1. got \in Seq(Items)
  BY DEF TypeOK, Items
<1>2. GotOf(i)' = Select(Append(got, e), ItemsOf(i))
  BY DEF GotOf, ItemsOf
<1>3. GotOf(i)' = IF e \in ItemsOf(i) THEN Append(GotOf(i), e) ELSE GotOf(i)
  BY <1>1, <1>2, SelectAppend DEF GotOf
<1>4. e \in ItemsOf(i) <=> e[1] = i
  BY DEF ItemsOf, Items
<1>5. Len(Append(GotOf(i), e)) = Got(i) + 1
  BY GotFacts, AppendFacts DEF Got
<1> QED BY <1>3, <1>4, <1>5 DEF Got

LEMMA GotSame ==
  ASSUME got' = got
  PROVE  \A i \in Iterators : GotOf(i)' = GotOf(i) /\ Got(i)' = Got(i)
BY DEF GotOf, Got, ItemsOf

LEMMA QueueTail ==
  ASSUME NEW q \in Seq(Entries), q # <<>>
  PROVE  /\ Tail(q) \in Seq(Entries) /\ Len(q) \in Nat \ {0} /\ Len(Tail(q)) = Len(q) - 1
         /\ Head(q) = q[1] /\ Head(q) \in Entries
         /\ \A k \in 1 .. Len(q) - 1 : Tail(q)[k] = q[k + 1]
OBVIOUS

LEMMA QueueAppend ==
  ASSUME NEW q \in Seq(Entries), NEW e \in Entries
  PROVE  /\ Append(q, e) \in Seq(Entries) /\ Len(q) \in Nat /\ Len(Append(q, e)) = Len(q) + 1
         /\ \A k \in 1 .. Len(q) : Append(q, e)[k] = q[k]
         /\ Append(q, e)[Len(q) + 1] = e
         /\ Append(q, e) # <<>>
BY AppendFacts

-----------------------------------------------------------------------------
\* The producers.

\* Something is put into the queue.
LEMMA PutKeeps ==
  ASSUME MergeIInv, NEW i \in Iterators, NEW n \in 0 .. MaxItems,
         queue' = Append(queue, <<i, n>>), got' = got,
         \/ n = yielded[i] + 1 /\ yielded' = [yielded EXCEPT ![i] = @ + 1]
         \/ n = 0 /\ yielded' = yielded
  PROVE  /\ QueueInv' /\ queue' \in Seq(Entries) /\ queue' # <<>>
         /\ yielded' \in [Iterators -> 0 .. MaxItems]
<1> DEFINE e == <<i, n>>
           L == Len(queue)
<1>1. /\ queue \in Seq(Entries) /\ e \in Entries /\ yielded \in [Iterators -> 0 .. MaxItems]
      /\ MaxItems \in Nat
  BY DEF MergeIInv, TypeOK, Entries
<1>2. /\ queue' \in Seq(Entries) /\ L \in Nat /\ Len(queue') = L + 1
      /\ \A k \in 1 .. L : queue'[k] = queue[k]
      /\ queue'[L + 1] = e /\ queue' # <<>>
  BY <1>1, QueueAppend
<1>3. yielded' \in [Iterators -> 0 .. MaxItems]
  BY <1>1
<1>4. \A j \in Iterators : Got(j)' = Got(j) /\ Got(j) \in Nat
  BY GotSame, GotFacts DEF MergeIInv
<1>5. \A j \in Iterators : yielded[j] <= yielded'[j] /\ yielded[j] \in Nat /\ yielded'[j] \in Nat
  BY <1>1, <1>3
<1>6. \A k \in 1 .. L : queue[k] \in Entries
  BY <1>1
<1>7. QueueInv
  BY DEF MergeIInv
<1>8. (~IsException(e) <=> n # 0) /\ e[1] = i /\ e[2] = n
  BY DEF IsException
<1> HIDE DEF e
<1>9. ~IsException(e) => n = yielded[i] + 1 /\ yielded'[i] = n
  BY <1>1, <1>8
<1>10. (\A j \in Iterators : Got(j) <= yielded[j])'
  BY <1>4, <1>5, <1>7 DEF QueueInv
<1>11. ASSUME NEW k \in 1 .. L + 1, NEW x, x = queue'[k], ~IsException(x)
       PROVE  x[1] \in Iterators /\ Got(x[1]) < x[2] /\ x[2] <= yielded'[x[1]]
  <2>1. CASE k \in 1 .. L
    <3>1. x = queue[k] /\ queue[k] \in Entries
      BY <1>2, <1>6, <1>11, <2>1
    <3>2. x[1] \in Iterators /\ x[2] \in Nat
      BY <3>1, EntryFacts
    <3>3. Got(x[1]) < x[2] /\ x[2] <= yielded[x[1]]
      BY <1>7, <1>11, <2>1, <3>1 DEF QueueInv
    <3> QED BY <1>4, <1>5, <3>2, <3>3
  <2>2. CASE k = L + 1
    <3>1. x = e
      BY <1>2, <1>11, <2>2
    <3>2. Got(i) <= yielded[i] /\ Got(i) \in Nat /\ yielded[i] \in Nat
      BY <1>4, <1>5, <1>7 DEF QueueInv
    <3>3. n = yielded[i] + 1 /\ yielded'[i] = n
      BY <1>9, <1>11, <3>1
    <3>4. x[1] = i /\ x[2] = n
      BY <1>8, <3>1
    <3> QED BY <3>2, <3>3, <3>4
  <2> QED BY <1>2, <2>1, <2>2
<1>12. (\A j \in Iterators : \A m \in Got(j) + 1 .. yielded[j] :
           \E k \in 1 .. Len(queue) : queue[k] = <<j, m>>)'
  <2> SUFFICES ASSUME NEW j \in Iterators, NEW m \in Got(j) + 1 .. yielded'[j]
               PROVE  \E k \in 1 .. L + 1 : queue'[k] = <<j, m>>
    BY <1>2, <1>4
  <2>1. CASE m <= yielded[j]
    <3>1. m \in Got(j) + 1 .. yielded[j]
      BY <1>4, <1>5, <2>1
    <3>2. PICK k \in 1 .. L : queue[k] = <<j, m>>
      BY <1>7, <3>1 DEF QueueInv
    <3>3. k \in 1 .. L + 1
      BY <1>2
    <3> QED BY <1>2, <3>2, <3>3
  <2>2. CASE m > yielded[j]
    <3>1. j = i /\ m = n
      BY <1>1, <1>4, <1>5, <2>2
    <3>2. queue'[L + 1] = <<j, m>> /\ L + 1 \in 1 .. L + 1
      BY <1>2, <3>1 DEF e
    <3> QED BY <3>2
  <2>3. Got(j) \in Nat /\ yielded[j] \in Nat /\ yielded'[j] \in Nat
    BY <1>4, <1>5
  <2>4. m <= yielded[j] \/ m > yielded[j]
    BY <2>3
  <2> QED BY <2>1, <2>2, <2>4
<1>13. (\A j, k \in 1 .. Len(queue) :
          j < k /\ queue[j][1] = queue[k][1] /\ ~IsException(queue[j]) /\ ~IsException(queue[k]) =>
             queue[j][2] < queue[k][2])'
  <2> SUFFICES ASSUME NEW j \in 1 .. L + 1, NEW k \in 1 .. L + 1, j < k,
                      queue'[j][1] = queue'[k][1],
                      ~IsException(queue'[j]), ~IsException(queue'[k])
               PROVE  queue'[j][2] < queue'[k][2]
    BY <1>2 DEF IsException
  <2>1. j \in 1 .. L /\ queue'[j] = queue[j]
    BY <1>2
  <2>2. CASE k \in 1 .. L
    BY <1>2, <1>7, <2>1, <2>2 DEF QueueInv
  <2>3. CASE k = L + 1
    <3>1. queue'[k] = e
      BY <1>2, <2>3
    <3>2. queue[j][2] <= yielded[queue[j][1]]
      BY <1>7, <2>1 DEF QueueInv
    <3>3. queue[j][1] = i /\ queue[j][2] \in Nat
      BY <1>6, <1>8, <2>1, <3>1, EntryFacts
    <3>4. n = yielded[i] + 1 /\ yielded[i] \in Nat
      BY <1>5, <1>9, <3>1
    <3>5. queue'[k][2] = n /\ queue'[j][2] = queue[j][2]
      BY <1>8, <2>1, <3>1
    <3>6. queue[j][2] <= yielded[i]
      BY <3>2, <3>3
    <3> QED BY <3>3, <3>4, <3>5, <3>6
  <2> QED BY <1>2, <2>2, <2>3
<1>14. (\A k \in 1 .. Len(queue) : ~IsException(queue[k]) =>
           Got(queue[k][1]) < queue[k][2] /\ queue[k][2] <= yielded[queue[k][1]])'
  <2> SUFFICES ASSUME NEW k \in 1 .. L + 1, NEW x, x = queue'[k], ~IsException(x)
               PROVE  Got(x[1])' < x[2] /\ x[2] <= yielded'[x[1]]
    BY <1>2 DEF IsException
  <2>1. x[1] \in Iterators /\ Got(x[1]) < x[2] /\ x[2] <= yielded'[x[1]]
    BY <1>11
  <2> QED BY <1>4, <2>1
<1> QED BY <1>2, <1>3, <1>10, <1>12, <1>13, <1>14 DEF QueueInv

LEMMA ProducerStep ==
  ASSUME MergeIInv, NEW i \in Iterators, Producer(i)
  PROVE  MergeIInv'
<1>1. /\ TypeOK /\ producer[i] = "runs" /\ UNCHANGED <<consumer, got>>
      /\ ~finished[i] /\ consumer \notin {"gather", "ended", "raised"}
  <2>1. producer[i] = "runs" /\ UNCHANGED <<consumer, got>>
    BY DEF Producer, Produce, ProduceLast, EndSilently, ProduceError
  <2> QED BY <2>1 DEF MergeIInv, TasksInv, ConsumerInv, AllFinished, NoOrphan
<1>2. \/ UNCHANGED <<producer, finished>>
      \/ /\ producer' = [producer EXCEPT ![i] = "ended"]
         /\ finished' = [finished EXCEPT ![i] = TRUE]
  BY DEF Producer, Produce, ProduceLast, EndSilently, ProduceError
<1>3. QueueInv' /\ queue' \in Seq(Entries) /\ yielded' \in [Iterators -> 0 .. MaxItems]
  <2>1. CASE EndSilently(i)
    <3>1. UNCHANGED <<yielded, queue, got>>
      BY <2>1 DEF EndSilently
    <3>2. \A j \in Iterators : Got(j)' = Got(j)
      BY <3>1, GotSame
    <3>3. QueueInv'
      <4>1. \A k \in 1 .. Len(queue) : queue[k][1] \in Iterators
        BY <1>1, EntryFacts DEF TypeOK, Entries
      <4> QED BY <3>1, <3>2, <4>1 DEF MergeIInv, QueueInv, IsException
    <3> QED BY <1>1, <3>1, <3>3 DEF TypeOK, Entries
  <2>2. CASE Produce(i) \/ ProduceLast(i)
    <3>1. /\ yielded[i] < MaxItems /\ queue' = Append(queue, <<i, yielded[i] + 1>>)
          /\ yielded' = [yielded EXCEPT ![i] = @ + 1]
      BY <2>2 DEF Produce, ProduceLast
    <3>2. yielded[i] \in 0 .. MaxItems
      BY <1>1 DEF TypeOK
    <3>3. yielded[i] + 1 \in 0 .. MaxItems
      BY <3>1, <3>2
    <3> QED BY <1>1, <3>1, <3>3, PutKeeps
  <2>3. CASE ProduceError(i)
    <3>1. 0 \in 0 .. MaxItems /\ queue' = Append(queue, <<i, 0>>) /\ yielded' = yielded
      BY <2>3 DEF ProduceError
    <3> QED BY <1>1, <3>1, PutKeeps
  <2> QED BY <2>1, <2>2, <2>3 DEF Producer
<1>4. TypeOK'
  BY <1>1, <1>2, <1>3 DEF TypeOK, Entries
<1>5. InOrder'
  BY <1>1, GotSame DEF MergeIInv, InOrder
<1>6. TasksInv'
  BY <1>1, <1>2 DEF MergeIInv, TasksInv, TypeOK
<1>7. NoOrphan' /\ ConsumerInv'
  BY <1>1 DEF MergeIInv, NoOrphan, ConsumerInv
<1> QED BY <1>3, <1>4, <1>5, <1>6, <1>7 DEF MergeIInv

-----------------------------------------------------------------------------
\* The consumer.

\* The item at the head of the queue is the next of its iterator.
LEMMA HeadIsNext ==
  ASSUME MergeIInv, queue # <<>>, ~IsException(Head(queue))
  PROVE  Head(queue)[2] = Got(Head(queue)[1]) + 1
<1> DEFINE h == Head(queue)
           i == h[1]
<1>1. /\ queue \in Seq(Entries) /\ Len(queue) \in Nat \ {0} /\ h = queue[1] /\ h \in Entries
      /\ \A k \in 1 .. Len(queue) : queue[k] \in Entries
  BY QueueTail DEF MergeIInv, TypeOK, Entries
<1>2. /\ i \in Iterators /\ h[2] \in Nat /\ Got(i) \in Nat /\ yielded[i] \in Nat
      /\ 1 \in 1 .. Len(queue)
  BY <1>1, EntryFacts, GotFacts DEF MergeIInv, TypeOK
<1>3. QueueInv
  BY DEF MergeIInv
<1>4. Got(i) < h[2] /\ h[2] <= yielded[i]
  BY <1>1, <1>2, <1>3 DEF QueueInv
<1>5. Got(i) + 1 \in Got(i) + 1 .. yielded[i]
  BY <1>2, <1>4
<1>6. PICK k \in 1 .. Len(queue) : queue[k] = <<i, Got(i) + 1>>
  BY <1>2, <1>3, <1>5 DEF QueueInv
<1>7. queue[k][1] = i /\ queue[k][2] = Got(i) + 1 /\ ~IsException(queue[k])
  BY <1>2, <1>6 DEF IsException
<1>8. CASE k = 1
  BY <1>1, <1>7, <1>8
<1>9. CASE k # 1
  <2>1. 1 < k
    BY <1>9
  <2>2. queue[1][2] < queue[k][2]
    BY <1>1, <1>2, <1>3, <1>7, <2>1 DEF QueueInv
  <2>3. h[2] < Got(i) + 1
    BY <1>1, <1>7, <2>2
  <2> QED BY <1>2, <1>4, <2>3
<1> QED BY <1>8, <1>9

\* The head of the queue is taken out, and counted if it is an item.
LEMMA TailKeeps ==
  ASSUME MergeIInv, queue # <<>>, queue' = Tail(queue), yielded' = yielded,
         \/ IsException(Head(queue)) /\ got' = got
         \/ ~IsException(Head(queue)) /\ got' = Append(got, Head(queue))
  PROVE  /\ QueueInv' /\ queue' \in Seq(Entries)
         /\ got' \in Seq(Items) /\ InOrder'
<1> DEFINE h == Head(queue)
           L == Len(queue)
<1>1. /\ queue \in Seq(Entries) /\ queue' \in Seq(Entries) /\ L \in Nat \ {0} /\ Len(queue') = L - 1
      /\ h = queue[1] /\ h \in Entries /\ \A k \in 1 .. L - 1 : queue'[k] = queue[k + 1]
  BY QueueTail DEF MergeIInv, TypeOK, Entries
<1>2. /\ \A k \in 1 .. L : queue[k] \in Entries
      /\ \A j \in Iterators : yielded[j] \in Nat /\ Got(j) \in Nat
      /\ got \in Seq(Items) /\ QueueInv /\ InOrder /\ TypeOK
  BY <1>1, GotFacts DEF MergeIInv, TypeOK, Items
<1>3. h[1] \in Iterators /\ h[2] \in Nat /\ (~IsException(h) => h \in Items)
  BY <1>1, EntryFacts
<1>4. ~IsException(h) => h[2] = Got(h[1]) + 1
  BY HeadIsNext
<1>5. got' \in Seq(Items)
  <2>1. h \in Items => Append(got, h) \in Seq(Items)
    BY <1>2, AppendFacts
  <2> QED BY <1>2, <1>3, <2>1
<1>6. \A j \in Iterators :
        IF ~IsException(h) /\ j = h[1]
        THEN Got(j)' = Got(j) + 1 /\ GotOf(j)' = Append(GotOf(j), h)
        ELSE Got(j)' = Got(j) /\ GotOf(j)' = GotOf(j)
  <2> SUFFICES ASSUME NEW j \in Iterators
               PROVE  IF ~IsException(h) /\ j = h[1]
                      THEN Got(j)' = Got(j) + 1 /\ GotOf(j)' = Append(GotOf(j), h)
                      ELSE Got(j)' = Got(j) /\ GotOf(j)' = GotOf(j)
    OBVIOUS
  <2>1. CASE IsException(h)
    BY <2>1, GotSame
  <2>2. CASE ~IsException(h)
    <3>1. h \in Items /\ got' = Append(got, h)
      BY <1>3, <2>2
    <3> HIDE DEF h
    <3>2. /\ h[1] # j => GotOf(j)' = GotOf(j)
          /\ h[1] = j => GotOf(j)' = Append(GotOf(j), h) /\ Got(j)' = Got(j) + 1
      BY <1>2, <3>1, GotAppend
    <3>3. h[1] # j => Got(j)' = Got(j)
      BY <3>2 DEF Got
    <3> QED BY <2>2, <3>2, <3>3
  <2> QED BY <2>1, <2>2
<1> HIDE DEF h
<1>7. \A j \in Iterators : Got(j) <= Got(j)' /\ Got(j)' \in Nat
  BY <1>2, <1>6
<1>8. ASSUME NEW k \in 1 .. L - 1
      PROVE  /\ k + 1 \in 1 .. L /\ queue'[k] = queue[k + 1] /\ queue[k + 1] \in Entries
             /\ queue[k + 1][1] \in Iterators /\ queue[k + 1][2] \in Nat
  <2>1. k + 1 \in 1 .. L /\ queue'[k] = queue[k + 1] /\ queue[k + 1] \in Entries
    BY <1>1, <1>2
  <2> QED BY <2>1, EntryFacts
<1>9. ASSUME NEW k \in 1 .. L - 1, NEW x, x = queue[k + 1], ~IsException(x)
      PROVE  Got(x[1])' < x[2] /\ x[2] <= yielded[x[1]]
  <2>1. Got(x[1]) < x[2] /\ x[2] <= yielded[x[1]] /\ x[1] \in Iterators /\ x[2] \in Nat
    BY <1>2, <1>8, <1>9 DEF QueueInv
  <2>2. CASE ~IsException(h) /\ x[1] = h[1]
    <3>1. 1 \in 1 .. L /\ k + 1 \in 1 .. L /\ 1 < k + 1
      BY <1>1, <1>8
    <3>2. queue[1][2] < x[2]
      BY <1>1, <1>2, <1>9, <2>2, <3>1 DEF QueueInv
    <3>3. h[2] < x[2] /\ h[2] = Got(x[1]) + 1 /\ Got(x[1])' = Got(x[1]) + 1
      BY <1>1, <1>4, <1>6, <2>1, <2>2, <3>2
    <3> QED BY <2>1, <3>3
  <2>3. CASE ~(~IsException(h) /\ x[1] = h[1])
    <3>1. Got(x[1])' = Got(x[1])
      BY <1>6, <2>1, <2>3
    <3> QED BY <2>1, <3>1
  <2> QED BY <2>2, <2>3
<1>10. (\A j \in Iterators : Got(j) <= yielded[j])'
  <2> SUFFICES ASSUME NEW j \in Iterators PROVE Got(j)' <= yielded[j]
    OBVIOUS
  <2>1. CASE ~IsException(h) /\ j = h[1]
    <3>1. 1 \in 1 .. L
      BY <1>1
    <3>2. h[2] <= yielded[j]
      BY <1>1, <1>2, <2>1, <3>1 DEF QueueInv
    <3> QED BY <1>4, <1>6, <2>1, <3>2
  <2>2. CASE ~(~IsException(h) /\ j = h[1])
    BY <1>2, <1>6, <2>2 DEF QueueInv
  <2> QED BY <2>1, <2>2
<1>11. (\A k \in 1 .. Len(queue) : ~IsException(queue[k]) =>
           Got(queue[k][1]) < queue[k][2] /\ queue[k][2] <= yielded[queue[k][1]])'
  <2> SUFFICES ASSUME NEW k \in 1 .. L - 1, NEW x, x = queue'[k], ~IsException(x)
               PROVE  Got(x[1])' < x[2] /\ x[2] <= yielded[x[1]]
    BY <1>1 DEF IsException
  <2>1. x = queue[k + 1]
    BY <1>8
  <2> QED BY <1>9, <2>1
<1>12. (\A j \in Iterators : \A m \in Got(j) + 1 .. yielded[j] :
           \E k \in 1 .. Len(queue) : queue[k] = <<j, m>>)'
  <2> SUFFICES ASSUME NEW j \in Iterators, NEW m \in Got(j)' + 1 .. yielded[j]
               PROVE  \E k \in 1 .. L - 1 : queue'[k] = <<j, m>>
    BY <1>1
  <2>1. m \in Got(j) + 1 .. yielded[j] /\ m \in Nat
    BY <1>2, <1>7
  <2>2. PICK k \in 1 .. L : queue[k] = <<j, m>>
    BY <1>2, <2>1 DEF QueueInv
  <2>3. k # 1
    <3> SUFFICES ASSUME k = 1 PROVE FALSE
      OBVIOUS
    <3>1. h = <<j, m>> /\ h[1] = j /\ h[2] = m
      BY <1>1, <2>2
    <3>2. m # 0
      BY <1>2, <2>1
    <3>3. ~IsException(h)
      BY <3>1, <3>2 DEF IsException
    <3>4. m = Got(j) + 1 /\ Got(j)' = Got(j) + 1
      BY <1>4, <1>6, <3>1, <3>3
    <3> QED BY <1>2, <3>4
  <2>4. k - 1 \in 1 .. L - 1 /\ (k - 1) + 1 = k
    BY <1>1, <2>3
  <2>5. queue'[k - 1] = <<j, m>>
    BY <1>8, <2>2, <2>4
  <2> QED BY <2>4, <2>5
<1>13. (\A j, k \in 1 .. Len(queue) :
          j < k /\ queue[j][1] = queue[k][1] /\ ~IsException(queue[j]) /\ ~IsException(queue[k]) =>
             queue[j][2] < queue[k][2])'
  <2> SUFFICES ASSUME NEW j \in 1 .. L - 1, NEW k \in 1 .. L - 1, j < k,
                      queue'[j][1] = queue'[k][1],
                      ~IsException(queue'[j]), ~IsException(queue'[k])
               PROVE  queue'[j][2] < queue'[k][2]
    BY <1>1 DEF IsException
  <2>1. j + 1 \in 1 .. L /\ k + 1 \in 1 .. L /\ j + 1 < k + 1
    BY <1>8
  <2>2. queue'[j] = queue[j + 1] /\ queue'[k] = queue[k + 1]
    BY <1>8
  <2> QED BY <1>2, <2>1, <2>2 DEF QueueInv
<1>14. InOrder'
  <2> SUFFICES ASSUME NEW j \in Iterators
               PROVE  GotOf(j)' = [n \in 1 .. Len(GotOf(j)') |-> <<j, n>>]
    BY DEF InOrder
  <2> DEFINE g == GotOf(j)
  <2>1. g \in Seq(Items) /\ g = [n \in 1 .. Len(g) |-> <<j, n>>] /\ Got(j) = Len(g)
    BY <1>2, GotFacts DEF InOrder, Got
  <2>2. CASE ~IsException(h) /\ j = h[1]
    <3>1. h = <<j, Len(g) + 1>>
      BY <1>1, <1>4, <2>1, <2>2, EntryFacts
    <3>2. GotOf(j)' = Append(g, h)
      BY <1>6, <2>2
    <3> HIDE DEF g
    <3>3. h \in Items
      BY <1>3, <2>2
    <3>4. Append(g, h) = [n \in 1 .. Len(Append(g, h)) |-> <<j, n>>]
      <4>1. /\ Append(g, h) \in Seq(Items) /\ Len(Append(g, h)) = Len(g) + 1
            /\ Append(g, h)[Len(g) + 1] = h /\ \A n \in 1 .. Len(g) : Append(g, h)[n] = g[n]
        BY <2>1, <3>3, AppendFacts
      <4> DEFINE a == Append(g, h)
      <4>0. a \in Seq(Items)
        BY <4>1
      <4> HIDE DEF a
      <4>2. \A n \in 1 .. Len(a) : a[n] = <<j, n>>
        BY <2>1, <3>1, <4>1 DEF a
      <4>3. a = [n \in 1 .. Len(a) |-> a[n]]
        BY <4>0
      <4>4. a = [n \in 1 .. Len(a) |-> <<j, n>>]
        BY <4>2, <4>3
      <4> QED BY <4>4 DEF a
    <3> QED BY <3>2, <3>4
  <2>3. CASE ~(~IsException(h) /\ j = h[1])
    BY <1>6, <2>1, <2>3
  <2> QED BY <2>2, <2>3
<1> QED BY <1>1, <1>5, <1>10, <1>11, <1>12, <1>13, <1>14 DEF QueueInv

LEMMA CancelFacts ==
  ASSUME TypeOK, TasksInv, producer' = CancelProducers, finished' = finished, consumer' = "raised"
  PROVE  /\ producer' \in [Iterators -> {"runs", "ended", "cancelled"}]
         /\ NoOrphan' /\ TasksInv'
BY DEF TypeOK, TasksInv, CancelProducers, NoOrphan

LEMMA TakeStep ==
  ASSUME MergeIInv, queue # <<>>, consumer \in {"loop", "get"}, Take
  PROVE  MergeIInv'
<1>1. queue' = Tail(queue) /\ UNCHANGED <<finished, yielded>>
  BY DEF Take
<1>2. TypeOK /\ TasksInv /\ NoOrphan /\ got \in Seq(Items)
  BY DEF MergeIInv, TypeOK, Items
<1>3. CASE IsException(Head(queue))
  <2>1. consumer' = "raised" /\ producer' = CancelProducers /\ got' = got
    BY <1>3 DEF Take
  <2>2. QueueInv' /\ queue' \in Seq(Entries) /\ InOrder'
    BY <1>1, <1>3, <2>1, TailKeeps
  <2>3. producer' \in [Iterators -> {"runs", "ended", "cancelled"}] /\ NoOrphan' /\ TasksInv'
    BY <1>1, <1>2, <2>1, CancelFacts
  <2>4. TypeOK'
    BY <1>1, <1>2, <2>1, <2>2, <2>3 DEF TypeOK, Entries
  <2>5. ConsumerInv'
    BY <2>1 DEF ConsumerInv
  <2> QED BY <2>2, <2>3, <2>4, <2>5 DEF MergeIInv
<1>4. CASE ~IsException(Head(queue))
  <2>1. consumer' = "caller" /\ producer' = producer /\ got' = Append(got, Head(queue))
    BY <1>4 DEF Take
  <2>2. QueueInv' /\ queue' \in Seq(Entries) /\ InOrder' /\ got' \in Seq(Items)
    BY <1>1, <1>4, <2>1, TailKeeps
  <2>3. TypeOK'
    BY <1>1, <1>2, <2>1, <2>2 DEF TypeOK, Entries, Items
  <2>4. NoOrphan' /\ TasksInv'
    BY <1>1, <1>2, <2>1 DEF NoOrphan, TasksInv
  <2>5. ConsumerInv'
    <3>1. Head(queue) \in Items
      <4>1. queue \in Seq(Entries)
        BY <1>2 DEF TypeOK, Entries
      <4> QED BY <1>4, <4>1, QueueTail, EntryFacts
    <3>2. got' # <<>>
      BY <1>2, <2>1, <3>1, AppendFacts
    <3> QED BY <2>1, <3>2 DEF ConsumerInv
  <2> QED BY <2>2, <2>3, <2>4, <2>5 DEF MergeIInv
<1> QED BY <1>3, <1>4

\* Only the place of the consumer changes.
LEMMA MoveStep ==
  ASSUME MergeIInv, UNCHANGED <<producer, finished, yielded, queue, got>>,
         consumer \notin {"raised"},
         consumer' \in {"loop", "get", "gather", "ended"},
         consumer' \in {"gather", "ended"} => queue = <<>> /\ AllFinished
  PROVE  MergeIInv'
<1>1. TypeOK'
  BY DEF MergeIInv, TypeOK
<1>2. QueueInv'
  <2>1. \A j \in Iterators : Got(j)' = Got(j)
    BY GotSame
  <2>2. \A k \in 1 .. Len(queue) : queue[k][1] \in Iterators
    BY EntryFacts DEF MergeIInv, TypeOK, Entries
  <2> QED BY <2>1, <2>2 DEF MergeIInv, QueueInv, IsException
<1>3. InOrder'
  BY GotSame DEF MergeIInv, InOrder
<1>4. NoOrphan' /\ TasksInv' /\ ConsumerInv'
  BY DEF MergeIInv, NoOrphan, TasksInv, ConsumerInv, AllFinished
<1> QED BY <1>1, <1>2, <1>3, <1>4 DEF MergeIInv

LEMMA ConsumerStep ==
  ASSUME MergeIInv, Consumer
  PROVE  MergeIInv'
<1>1. CASE Test
  <2>1. CASE GoesOn /\ queue # <<>>
    <3>1. Take /\ consumer = "loop"
      BY <1>1, <2>1 DEF Test
    <3> QED BY <2>1, <3>1, TakeStep
  <2>2. CASE ~(GoesOn /\ queue # <<>>)
    <3>1. /\ consumer = "loop" /\ consumer' = IF GoesOn THEN "get" ELSE "gather"
          /\ UNCHANGED <<producer, finished, yielded, queue, got>>
      BY <1>1, <2>2 DEF Test
    <3>2. ~GoesOn => queue = <<>> /\ AllFinished
      BY DEF GoesOn
    <3> QED BY <3>1, <3>2, MoveStep
  <2> QED BY <2>1, <2>2
<1>2. CASE Get
  BY <1>2, TakeStep DEF Get
<1>3. CASE Resume
  BY <1>3, MoveStep DEF Resume
<1>4. CASE Gather
  <2>1. queue = <<>> /\ AllFinished
    BY <1>4 DEF Gather, MergeIInv, ConsumerInv
  <2> QED BY <1>4, <2>1, MoveStep DEF Gather
<1>5. CASE CancelConsumer
  <2>1. /\ consumer' = "raised" /\ producer' = CancelProducers
        /\ UNCHANGED <<finished, yielded, queue, got>> /\ TypeOK /\ TasksInv
    BY <1>5 DEF CancelConsumer, MergeIInv
  <2>2. producer' \in [Iterators -> {"runs", "ended", "cancelled"}] /\ NoOrphan' /\ TasksInv'
    BY <2>1, CancelFacts
  <2>3. QueueInv' /\ InOrder'
    <3>1. \A k \in 1 .. Len(queue) : queue[k][1] \in Iterators
      BY EntryFacts DEF MergeIInv, TypeOK, Entries
    <3> QED BY <2>1, <3>1, GotSame DEF MergeIInv, InOrder, QueueInv, IsException
  <2>4. TypeOK' /\ ConsumerInv'
    BY <2>1, <2>2 DEF TypeOK, ConsumerInv
  <2> QED BY <2>2, <2>3, <2>4 DEF MergeIInv
<1> QED BY <1>1, <1>2, <1>3, <1>4, <1>5 DEF Consumer

LEMMA MergeSame ==
  ASSUME MergeIInv, UNCHANGED <<producer, finished, yielded, queue, consumer, got>>
  PROVE  MergeIInv'
<1>1. \A k \in 1 .. Len(queue) : queue[k][1] \in Iterators
  BY EntryFacts DEF MergeIInv, TypeOK, Entries
<1>2. TypeOK' /\ NoOrphan' /\ TasksInv' /\ ConsumerInv'
  BY DEF MergeIInv, TypeOK, NoOrphan, TasksInv, ConsumerInv, AllFinished
<1>3. InOrder' /\ QueueInv'
  BY <1>1, GotSame DEF MergeIInv, InOrder, QueueInv, IsException
<1> QED BY <1>2, <1>3 DEF MergeIInv

LEMMA MergeStart ==
  ASSUME queue = <<>>, got = <<>>, yielded = [i \in Iterators |-> 0], consumer = "loop",
         producer \in [Iterators -> {"runs", "ended"}], finished \in [Iterators -> BOOLEAN],
         \A i \in Iterators : finished[i] <=> producer[i] = "ended"
  PROVE  MergeIInv
<1>1. \A i \in Iterators : GotOf(i) = <<>> /\ Got(i) = 0
  BY SelectOfNone DEF GotOf, Got
<1>2. Len(queue) = 0 /\ \A k \in 1 .. 0 : FALSE
  OBVIOUS
<1>3. TypeOK
  BY DEF TypeOK
<1>4. InOrder
  <2>1. \A i \in Iterators : <<>> = [n \in 1 .. 0 |-> <<i, n>>] /\ Len(<<>>) = 0
    OBVIOUS
  <2> QED BY <1>1, <2>1 DEF InOrder, Got
<1>5. QueueInv
  BY <1>1, <1>2 DEF QueueInv
<1> QED BY <1>3, <1>4, <1>5 DEF MergeIInv, NoOrphan, TasksInv, ConsumerInv

LEMMA MergeFacts == MergeIInv => MergeInv
<1> SUFFICES ASSUME MergeIInv PROVE AllDelivered
  BY DEF MergeIInv, MergeInv
<1> SUFFICES ASSUME consumer = "ended", NEW i \in Iterators PROVE queue = <<>> /\ Got(i) = yielded[i]
  BY DEF AllDelivered, Got
<1>1. queue = <<>>
  BY DEF MergeIInv, ConsumerInv
<1>2. Got(i) \in Nat /\ yielded[i] \in Nat /\ Got(i) <= yielded[i]
  BY GotFacts DEF MergeIInv, TypeOK, QueueInv
<1>3. ~(Got(i) < yielded[i])
  <2> SUFFICES ASSUME Got(i) < yielded[i] PROVE FALSE
    OBVIOUS
  <2>1. Got(i) + 1 \in Got(i) + 1 .. yielded[i]
    BY <1>2
  <2>2. \E k \in 1 .. Len(queue) : queue[k] = <<i, Got(i) + 1>>
    BY <2>1 DEF MergeIInv, QueueInv
  <2> QED BY <1>1, <2>2
<1> QED BY <1>1, <1>2, <1>3

(***************************************************************************)
(* merge_async_iterators, whatever the iterators do and however the caller *)
(* reads: the items of each are handed over in their order, none twice and *)
(* none left out; when the merged iterator ends there are no others; and   *)
(* nobody goes on reading for a consumer that has failed.                  *)
(***************************************************************************)
THEOREM NothingIsLost == Spec => []MergeInv
<1>1. Init => MergeIInv
  BY MergeStart DEF Init
<1>2. MergeIInv /\ [Next]_vars => MergeIInv'
  <2> SUFFICES ASSUME MergeIInv, [Next]_vars PROVE MergeIInv'
    OBVIOUS
  <2>1. ASSUME NEW i \in Iterators, Producer(i) PROVE MergeIInv'
    BY <2>1, ProducerStep
  <2>2. CASE Consumer
    BY <2>2, ConsumerStep
  <2>3. CASE UNCHANGED vars
    BY <2>3, MergeSame DEF vars
  <2> QED BY <2>1, <2>2, <2>3 DEF Next
<1> QED BY <1>1, <1>2, MergeFacts, PTL DEF Spec

-----------------------------------------------------------------------------
\* The server.  What a request may be is known once it has come.

RequestOK ==
  /\ req.prompts \in Seq(Seq(DOMAIN BytesOf)) /\ Prompts \subseteq Iterators
  /\ req.truncate = None \/ req.truncate \in Nat \ {0}

\* The outputs of a prompt are a sequence, and what the engine keeps has its type.
EngineInv ==
  /\ computed \in [Iterators -> Nat]
  /\ outputs = [i \in Iterators |-> outputs[i]]
  /\ \A i \in Iterators : outputs[i] \in Seq({outputs[i][n] : n \in DOMAIN outputs[i]})
  /\ final = [i \in Iterators |-> final[i]]

\* Only what has been dropped is aborted, and only what has been read to its end is
\* answered; what has not been asked for has no stream.
StageInv ==
  /\ aborted # {} => stage = "dropped"
  /\ stage = "done" => consumer = "ended"
  /\ stage = "start" => Idle
  /\ stage # "start" => RequestOK /\ \A i \in Iterators \ Prompts : producer[i] = "ended"

\* A stream ends with the last output of its request, unless it raises or its
\* request is aborted.
Raises(i) == \E k \in 1 .. Len(queue) : queue[k] = <<i, 0>>
IsComplete(i) == outputs[i] # <<>> /\ outputs[i][Len(outputs[i])].finished

EndedInv ==
  stage # "start" =>
     \A i \in Prompts : producer[i] = "ended" =>
        stage = "dropped" \/ consumer = "raised" \/ Raises(i) \/ IsComplete(i)

\* The handler reads the latest item of its stream, and has kept that of the others.
FinalInv ==
  /\ consumer = "caller" =>
        Last(got)[1] \in Iterators /\ Last(got) = <<Last(got)[1], Got(Last(got)[1])>>
  /\ stage # "start" /\ ~Streams(req) =>
        \A i \in Iterators :
           \/ consumer = "caller" /\ Last(got)[1] = i
           \/ Got(i) = 0
           \/ final[i] = <<i, Got(i)>>

ServerIInv ==
  /\ MergeIInv /\ ServerTypeOK /\ HandlerIsServed
  /\ EngineInv /\ StageInv /\ EndedInv /\ FinalInv

StartIInv ==
  /\ ServerIInv
  /\ phase # "serving" => stage = "start"
  /\ phase = "serving" => RequestOK

LEMMA IdsFacts ==
  ASSUME RequestOK, NEW i \in Prompts
  PROVE  i \in Iterators /\ Len(Ids(i)) \in Nat
<1> DEFINE p == req.prompts[i]
           k == req.truncate
<1>1. i \in Iterators /\ p \in Seq(DOMAIN BytesOf) /\ Len(p) \in Nat
  BY DEF RequestOK, Prompts
<1>2. CASE k = None
  BY <1>1, <1>2 DEF Ids, TokenIds
<1>3. CASE k # None
  <2>1. k \in Nat
    BY <1>3 DEF RequestOK
  <2> DEFINE m == Max({Len(p) - k, 0})
  <2>2. m \in Nat /\ m <= Len(p)
    <3>1. \E x \in {Len(p) - k, 0} : \A y \in {Len(p) - k, 0} : x >= y
      BY <1>1, <2>1
    <3>2. m \in {Len(p) - k, 0} /\ m >= 0
      BY <3>1 DEF Max
    <3> QED BY <1>1, <2>1, <3>2
  <2> HIDE DEF m
  <2>3. SubSeq(p, m + 1, Len(p)) \in Seq(DOMAIN BytesOf)
    BY <1>1, <2>2
  <2>4. Ids(i) = SubSeq(p, m + 1, Len(p))
    BY <1>3 DEF Ids, TokenIds, LastOf, From, m
  <2> QED BY <1>1, <2>3, <2>4
<1> QED BY <1>2, <1>3

\* A sequence of outputs, one longer.
LEMMA OneMore ==
  ASSUME NEW s, s \in Seq({s[n] : n \in DOMAIN s}), NEW o
  PROVE  LET t == Append(s, o)
         IN /\ t \in Seq({t[n] : n \in DOMAIN t})
            /\ Len(s) \in Nat /\ Len(t) = Len(s) + 1 /\ t # <<>> /\ t[Len(t)] = o
<1> DEFINE T == {s[n] : n \in DOMAIN s} \cup {o}
           t == Append(s, o)
<1>1. s \in Seq(T) /\ o \in T
  <2>1. DOMAIN s = 1 .. Len(s) /\ Len(s) \in Nat /\ s = [n \in 1 .. Len(s) |-> s[n]]
    OBVIOUS
  <2>2. \A n \in 1 .. Len(s) : s[n] \in T
    BY <2>1
  <2> QED BY <2>1, <2>2
<1> HIDE DEF T
<1>2. /\ t \in Seq(T) /\ Len(t) = Len(s) + 1 /\ t # <<>> /\ t[Len(s) + 1] = o
      /\ Len(s) \in Nat
  BY <1>1, AppendFacts
<1> HIDE DEF t
<1>3. t \in Seq({t[n] : n \in DOMAIN t})
  <2>1. DOMAIN t = 1 .. Len(t) /\ Len(t) \in Nat /\ t = [n \in 1 .. Len(t) |-> t[n]]
    BY <1>2
  <2>2. \A n \in 1 .. Len(t) : t[n] \in {t[j] : j \in DOMAIN t}
    BY <2>1
  <2> QED BY <2>1, <2>2
<1> QED BY <1>2, <1>3 DEF t

\* What a step of the engine does to the stream of a prompt.
Delivers(i, o) ==
  /\ outputs' = [outputs EXCEPT ![i] = Append(@, o)]
  /\ IF o.finished THEN ProduceLast(i) ELSE Produce(i)

LEMMA EmitDoes ==
  ASSUME NEW i, NEW new, Emit(i, new)
  PROVE  /\ UNCHANGED <<config, req, stage, connected, aborted, final, sent>>
         /\ error' = "other" \/ error' = error
         /\ UNCHANGED <<vars, outputs>> \/ \E o : Delivers(i, o)
BY DEF Emit, Delivers

LEMMA EngineDoes ==
  ASSUME ServerIInv, NEW i \in Iterators, Engine(i)
  PROVE  /\ UNCHANGED <<config, req, stage, connected, aborted, final>>
         /\ stage # "start" /\ i \in Prompts
         /\ error' \in {"none", "value", "other"}
         /\ computed' = computed
               \/ \E k \in 0 .. Len(Ids(i)) : computed' = [computed EXCEPT ![i] = k]
         /\ \/ UNCHANGED <<vars, outputs>>
            \/ \E o : Delivers(i, o)
            \/ ProduceError(i) /\ outputs' = outputs
            \/ i \in aborted /\ EndSilently(i) /\ outputs' = outputs
<1>1. error \in {"none", "value", "other"} /\ computed \in [Iterators -> Nat]
  BY DEF ServerIInv, ServerTypeOK, EngineInv
<1>2. stage # "start" => RequestOK
  BY DEF ServerIInv, StageInv
<1>3. stage # "start" /\ i \in Prompts => Len(Ids(i)) \in Nat
  BY <1>2, IdsFacts
<1>4. CASE IgnorePrompt(i)
  <2>1. (\E new : Emit(i, new)) /\ computed' = computed /\ Serves(i)
    BY <1>4 DEF IgnorePrompt
  <2> QED BY <1>1, <2>1, EmitDoes DEF Serves
<1>5. CASE PrefillPart(i)
  <2>1. /\ \E new : Emit(i, new)
        /\ \E k \in computed[i] + 1 .. Len(Ids(i)) - 1 : computed' = [computed EXCEPT ![i] = k]
        /\ Serves(i)
    BY <1>5 DEF PrefillPart, Computes
  <2>2. computed[i] \in Nat /\ Len(Ids(i)) \in Nat
    BY <1>1, <1>3, <2>1 DEF Serves
  <2>3. PICK k \in computed[i] + 1 .. Len(Ids(i)) - 1 : computed' = [computed EXCEPT ![i] = k]
    BY <2>1
  <2>4. k \in 0 .. Len(Ids(i))
    BY <2>2
  <2> QED BY <1>1, <2>1, <2>3, <2>4, EmitDoes DEF Serves
<1>6. CASE Step(i)
  <2>1. (\E new : Emit(i, new)) /\ computed' = [computed EXCEPT ![i] = Len(Ids(i))] /\ Serves(i)
    BY <1>6 DEF Step, Computes
  <2>2. Len(Ids(i)) \in 0 .. Len(Ids(i))
    BY <1>3, <2>1 DEF Serves
  <2> QED BY <1>1, <2>1, <2>2, EmitDoes DEF Serves
<1>7. CASE StepEmbedding(i) \/ AttributeMissing(i)
  BY <1>7 DEF StepEmbedding, AttributeMissing, Serves, engineVars
<1>8. CASE StreamFails(i)
  BY <1>1, <1>8 DEF StreamFails, engineVars
<1>9. CASE StreamEnds(i)
  <2>1. stage = "dropped" /\ i \in Prompts
    <3>1. stage = "dropped" /\ producer[i] = "runs"
      BY <1>9 DEF StreamEnds, EndSilently, ServerIInv, StageInv
    <3> QED BY <3>1 DEF ServerIInv, StageInv
  <2> QED BY <1>1, <1>9, <2>1 DEF StreamEnds, requestVars, engineVars
<1> QED BY <1>4, <1>5, <1>6, <1>7, <1>8, <1>9 DEF Engine

-----------------------------------------------------------------------------
\* A step of the engine.
LEMMA EngineStep ==
  ASSUME ServerIInv, NEW i \in Iterators, Engine(i)
  PROVE  ServerIInv'
<1>1. /\ UNCHANGED <<config, req, stage, connected, aborted, final>>
      /\ stage # "start" /\ i \in Prompts
      /\ error' \in {"none", "value", "other"}
      /\ computed' = computed
            \/ \E k \in 0 .. Len(Ids(i)) : computed' = [computed EXCEPT ![i] = k]
      /\ \/ UNCHANGED <<vars, outputs>>
         \/ \E o : Delivers(i, o)
         \/ ProduceError(i) /\ outputs' = outputs
         \/ i \in aborted /\ EndSilently(i) /\ outputs' = outputs
  BY EngineDoes
<1>2. /\ MergeIInv /\ TypeOK /\ ServerTypeOK /\ RequestOK /\ EngineInv /\ StageInv
      /\ EndedInv /\ FinalInv /\ HandlerIsServed
  BY <1>1 DEF ServerIInv, StageInv, MergeIInv
<1>3. /\ Prompts' = Prompts /\ (\A j : Ids(j)' = Ids(j)) /\ RequestOK'
      /\ Streams(req)' = Streams(req)
  BY <1>1, <1>2 DEF Prompts, Ids, RequestOK
<1>4. /\ computed' \in [Iterators -> Nat]
      /\ \A j \in Prompts : computed'[j] \in 0 .. Len(Ids(j))
  <2>1. \A j \in Prompts : j \in Iterators /\ Len(Ids(j)) \in Nat /\ computed[j] \in 0 .. Len(Ids(j))
    BY <1>1, <1>2, IdsFacts DEF ServerTypeOK
  <2>2. computed \in [Iterators -> Nat]
    BY <1>2 DEF EngineInv
  <2>3. ASSUME NEW k \in 0 .. Len(Ids(i)), computed' = [computed EXCEPT ![i] = k]
        PROVE  /\ computed' \in [Iterators -> Nat]
               /\ \A j \in Prompts : computed'[j] \in 0 .. Len(Ids(j))
    BY <1>1, <2>1, <2>2, <2>3
  <2> QED BY <1>1, <2>1, <2>2, <2>3
<1>5. /\ UNCHANGED <<consumer, got>> /\ MergeIInv'
      /\ UNCHANGED <<producer, finished, yielded, queue, outputs>> \/ producer[i] = "runs"
  <2>1. CASE UNCHANGED <<vars, outputs>>
    <3>1. UNCHANGED <<producer, finished, yielded, queue, consumer, got, outputs>>
      BY <2>1 DEF vars
    <3>2. MergeIInv'
      BY <1>2, <3>1, MergeSame
    <3> QED BY <3>1, <3>2
  <2>2. CASE ~UNCHANGED <<vars, outputs>>
    <3>1. Producer(i) /\ producer[i] = "runs" /\ UNCHANGED <<consumer, got>>
      BY <1>1, <2>2 DEF Delivers, Producer, Produce, ProduceLast, ProduceError, EndSilently
    <3> QED BY <1>2, <3>1, ProducerStep
  <2> QED BY <2>1, <2>2
<1>6. \A j \in Iterators : Got(j)' = Got(j)
  BY <1>5, GotSame
<1> DEFINE Appended ==
             /\ outputs' = [j \in Iterators |-> outputs'[j]]
             /\ \A j \in Iterators :
                   /\ outputs'[j] \in Seq({outputs'[j][n] : n \in DOMAIN outputs'[j]})
                   /\ yielded'[j] = Len(outputs'[j])
                   /\ j # i => outputs'[j] = outputs[j]
<1>7. /\ Appended
      /\ \A o : Delivers(i, o) =>
            outputs'[i] # <<>> /\ outputs'[i][Len(outputs'[i])] = o
  <2>1. CASE outputs' = outputs /\ yielded' = yielded
    <3>1. \A o : ~Delivers(i, o)
      BY <1>1, <1>2, <2>1 DEF Delivers, Produce, ProduceLast, TypeOK
    <3> QED BY <1>2, <2>1, <3>1 DEF EngineInv, ServerTypeOK
  <2>2. ASSUME NEW o, Delivers(i, o)
        PROVE  Appended /\ outputs'[i] # <<>> /\ outputs'[i][Len(outputs'[i])] = o
    <3> DEFINE s == outputs[i]
               t == Append(s, o)
    <3>1. outputs' = [outputs EXCEPT ![i] = t] /\ yielded' = [yielded EXCEPT ![i] = @ + 1]
      BY <2>2 DEF Delivers, Produce, ProduceLast
    <3>2. /\ t \in Seq({t[n] : n \in DOMAIN t}) /\ Len(t) = Len(s) + 1
          /\ t # <<>> /\ t[Len(t)] = o
      <4>1. s \in Seq({s[n] : n \in DOMAIN s})
        BY <1>2 DEF EngineInv
      <4> HIDE DEF s
      <4> QED BY <4>1, OneMore
    <3>3. yielded \in [Iterators -> 0 .. MaxItems]
      BY <1>2 DEF TypeOK
    <3> HIDE DEF t
    <3>4. outputs'[i] = t /\ yielded'[i] = Len(t)
      BY <1>2, <3>1, <3>2, <3>3 DEF EngineInv, ServerTypeOK
    <3>5. \A j \in Iterators : j # i => outputs'[j] = outputs[j] /\ yielded'[j] = yielded[j]
      BY <1>2, <3>1, <3>3 DEF EngineInv
    <3>6. outputs' = [j \in Iterators |-> outputs'[j]]
      BY <1>2, <3>1 DEF EngineInv
    <3>7. \A j \in Iterators : j # i =>
             /\ outputs'[j] \in Seq({outputs'[j][n] : n \in DOMAIN outputs'[j]})
             /\ yielded'[j] = Len(outputs'[j])
      <4>1. \A j \in Iterators :
               /\ outputs[j] \in Seq({outputs[j][n] : n \in DOMAIN outputs[j]})
               /\ yielded[j] = Len(outputs[j])
        BY <1>2 DEF EngineInv, ServerTypeOK
      <4> SUFFICES ASSUME NEW j \in Iterators, j # i
                   PROVE  /\ outputs'[j] \in Seq({outputs'[j][n] : n \in DOMAIN outputs'[j]})
                          /\ yielded'[j] = Len(outputs'[j])
        OBVIOUS
      <4>2. outputs'[j] = outputs[j] /\ yielded'[j] = yielded[j]
        BY <3>5
      <4> QED BY <4>1, <4>2
    <3>8. /\ outputs'[i] \in Seq({outputs'[i][n] : n \in DOMAIN outputs'[i]})
          /\ yielded'[i] = Len(outputs'[i])
          /\ outputs'[i] # <<>> /\ outputs'[i][Len(outputs'[i])] = o
      BY <3>2, <3>4
    <3> QED BY <3>5, <3>6, <3>7, <3>8
  <2>3. (\E o : Delivers(i, o)) \/ (outputs' = outputs /\ yielded' = yielded)
    BY <1>1 DEF ProduceError, EndSilently, vars
  <2> QED BY <2>1, <2>2, <2>3
<1>8. EngineInv'
  BY <1>1, <1>2, <1>4, <1>7 DEF EngineInv
<1>9. ServerTypeOK'
  BY <1>1, <1>2, <1>3, <1>4, <1>5, <1>7 DEF ServerTypeOK, MergeIInv
<1>10. \A j \in Iterators : j # i => producer'[j] = producer[j]
  BY <1>1, <1>2 DEF TypeOK, Delivers, Produce, ProduceLast, ProduceError, EndSilently, vars
<1>11. StageInv'
  BY <1>1, <1>2, <1>3, <1>5, <1>10 DEF StageInv
<1>12. FinalInv'
  <2>1. \A j \in Iterators : final'[j] = final[j]
    BY <1>1
  <2> QED BY <1>1, <1>2, <1>3, <1>5, <1>6, <2>1 DEF FinalInv
<1>13. \/ UNCHANGED <<producer, queue>>
       \/ \E n \in 0 .. MaxItems :
             /\ queue' = Append(queue, <<i, n>>)
             /\ producer' = producer \/ n = 0 \/ \E o : Delivers(i, o) /\ o.finished
       \/ stage = "dropped" /\ queue' = queue
  <2>1. CASE UNCHANGED <<vars, outputs>>
    BY <2>1 DEF vars
  <2>2. CASE \E o : Delivers(i, o)
    <3>1. PICK o : Delivers(i, o)
      BY <2>2
    <3>2. /\ queue' = Append(queue, <<i, yielded[i] + 1>>) /\ yielded[i] < MaxItems
          /\ producer' = producer \/ o.finished
      BY <3>1 DEF Delivers, Produce, ProduceLast
    <3>3. yielded[i] + 1 \in 0 .. MaxItems
      BY <1>2, <3>2 DEF TypeOK
    <3> QED BY <3>1, <3>2, <3>3
  <2>3. CASE ProduceError(i)
    <3>1. 0 \in 0 .. MaxItems /\ queue' = Append(queue, <<i, 0>>)
      BY <2>3 DEF ProduceError
    <3> QED BY <3>1
  <2>4. CASE i \in aborted /\ EndSilently(i)
    BY <1>2, <2>4 DEF EndSilently, StageInv
  <2> QED BY <1>1, <2>1, <2>2, <2>3, <2>4
<1>14. /\ \A k \in 1 .. Len(queue) : k \in 1 .. Len(queue') /\ queue'[k] = queue[k]
       /\ queue # <<>> => queue' # <<>>
       /\ producer' = producer \/ queue' # <<>> \/ stage = "dropped"
       /\ \A n \in 0 .. MaxItems : queue' = Append(queue, <<i, n>>) =>
             \E k \in 1 .. Len(queue') : queue'[k] = <<i, n>>
  <2>1. queue \in Seq(Entries)
    BY <1>2 DEF TypeOK, Entries
  <2>2. ASSUME NEW n \in 0 .. MaxItems, queue' = Append(queue, <<i, n>>)
        PROVE  /\ queue' # <<>>
               /\ \A k \in 1 .. Len(queue) : k \in 1 .. Len(queue') /\ queue'[k] = queue[k]
               /\ Len(queue') \in 1 .. Len(queue') /\ queue'[Len(queue')] = <<i, n>>
    <3>1. <<i, n>> \in Entries
      BY DEF Entries
    <3>2. /\ Len(queue) \in Nat /\ Len(queue') = Len(queue) + 1 /\ queue' # <<>>
          /\ \A k \in 1 .. Len(queue) : queue'[k] = queue[k]
          /\ queue'[Len(queue) + 1] = <<i, n>>
      BY <2>1, <2>2, <3>1, QueueAppend
    <3> QED BY <3>2
  <2> QED BY <1>13, <2>2
<1>15. EndedInv'
  <2> SUFFICES ASSUME NEW j \in Prompts, producer'[j] = "ended", stage # "dropped",
                      consumer # "raised", ~Raises(j)'
               PROVE  IsComplete(j)'
    BY <1>1, <1>3, <1>5 DEF EndedInv
  <2>1. j \in Iterators
    BY <1>2 DEF RequestOK
  <2>2. CASE producer[j] = "ended"
    <3>1. ~Raises(j)
      BY <1>14 DEF Raises
    <3>2. IsComplete(j)
      BY <1>1, <1>2, <2>2, <3>1 DEF EndedInv
    <3>3. outputs'[j] = outputs[j]
      BY <1>5, <1>7, <2>1, <2>2
    <3> QED BY <3>2, <3>3 DEF IsComplete
  <2>3. CASE producer[j] # "ended"
    <3>1. j = i
      BY <1>10, <2>1, <2>3
    <3>2. PICK n \in 0 .. MaxItems :
            /\ queue' = Append(queue, <<i, n>>)
            /\ producer' = producer \/ n = 0 \/ \E o : Delivers(i, o) /\ o.finished
      BY <1>13, <2>3
    <3>3. n # 0
      BY <1>14, <3>1, <3>2 DEF Raises
    <3>4. PICK o : Delivers(i, o) /\ o.finished
      BY <2>3, <3>2, <3>3
    <3> QED BY <1>7, <3>1, <3>4 DEF IsComplete
  <2> QED BY <2>2, <2>3
<1>16. HandlerIsServed'
  <2> SUFFICES ASSUME stage = "serving"
               PROVE  /\ consumer = "get" => queue' # <<>> \/ \E j \in Prompts : producer'[j] = "runs"
                      /\ consumer = "gather" => \A j \in Iterators : producer'[j] = "ended"
    BY <1>1, <1>3, <1>5 DEF HandlerIsServed
  <2>1. ASSUME consumer = "gather", NEW j \in Iterators
        PROVE  producer'[j] = "ended"
    BY <1>5, <2>1 DEF MergeIInv, ConsumerInv, TasksInv, AllFinished
  <2>2. ASSUME consumer = "get"
        PROVE  queue' # <<>> \/ \E j \in Prompts : producer'[j] = "runs"
    BY <1>2, <1>14, <2>2 DEF HandlerIsServed
  <2> QED BY <2>1, <2>2
<1> QED BY <1>5, <1>8, <1>9, <1>11, <1>12, <1>15, <1>16 DEF ServerIInv

-----------------------------------------------------------------------------
\* A step of the handler that reads.

\* What becomes of the entry that is taken.
LEMMA TakeDoes ==
  ASSUME MergeIInv, queue # <<>>, Take
  PROVE  /\ \/ consumer' = "raised" /\ got' = got /\ producer' = CancelProducers
            \/ /\ consumer' = "caller" /\ producer' = producer
               /\ \E e \in Items :
                     /\ Last(got)' = e /\ e = <<e[1], Got(e[1])'>>
                     /\ \A j \in Iterators : j # e[1] => Got(j)' = Got(j)
         /\ \A i \in Iterators : Raises(i) => Raises(i)' \/ consumer' = "raised"
<1> DEFINE L == Len(queue)
<1>1. /\ queue \in Seq(Entries) /\ queue' = Tail(queue) /\ got \in Seq(Items) /\ TypeOK
  BY DEF MergeIInv, TypeOK, Entries, Items, Take
<1>2. /\ L \in Nat \ {0} /\ Len(queue') = L - 1 /\ Head(queue) = queue[1]
      /\ \A k \in 1 .. L - 1 : queue'[k] = queue[k + 1]
  BY <1>1, QueueTail
<1>3. IsException(Head(queue)) =>
         consumer' = "raised" /\ got' = got /\ producer' = CancelProducers
  BY DEF Take
<1>4. ~IsException(Head(queue)) => consumer' = "caller" /\ producer' = producer
  BY DEF Take
<1>5. ASSUME ~IsException(Head(queue))
      PROVE  \E e \in Items :
                /\ Last(got)' = e /\ e = <<e[1], Got(e[1])'>>
                /\ \A j \in Iterators : j # e[1] => Got(j)' = Got(j)
  <2>1. PICK e \in Items : e = Head(queue)
    BY <1>1, <1>5, QueueTail, EntryFacts
  <2>2. e[1] \in Iterators /\ e = <<e[1], e[2]>>
    BY DEF Items
  <2>3. got' = Append(got, e)
    BY <1>5, <2>1 DEF Take
  <2>4. e[2] = Got(e[1]) + 1
    BY <1>5, <2>1, HeadIsNext
  <2>5. Last(got)' = e
    <3>1. Len(Append(got, e)) = Len(got) + 1 /\ Append(got, e)[Len(got) + 1] = e
      BY <1>1, AppendFacts
    <3> QED BY <2>3, <3>1 DEF Last
  <2>6. ASSUME NEW j \in Iterators
        PROVE  /\ e[1] # j => Got(j)' = Got(j)
               /\ e[1] = j => Got(j)' = Got(j) + 1
    <3>1. /\ e[1] # j => GotOf(j)' = GotOf(j)
          /\ e[1] = j => Got(j)' = Got(j) + 1
      BY <1>1, <2>3, GotAppend
    <3> QED BY <3>1 DEF Got
  <2>7. ASSUME NEW i, i = e[1] PROVE Got(i)' = e[2]
    BY <2>2, <2>4, <2>6, <2>7
  <2>8. e[2] = Got(e[1])'
    BY <2>7
  <2> QED BY <2>2, <2>5, <2>6, <2>8
<1>6. ASSUME NEW i \in Iterators, Raises(i), consumer' # "raised"
      PROVE  Raises(i)'
  <2>1. PICK k \in 1 .. L : queue[k] = <<i, 0>>
    BY <1>6 DEF Raises
  <2>2. k # 1
    BY <1>2, <1>3, <1>6, <2>1 DEF IsException
  <2>3. k - 1 \in 1 .. L - 1 /\ (k - 1) + 1 = k
    BY <1>2, <2>2
  <2>4. queue'[k - 1] = <<i, 0>>
    BY <1>2, <2>1, <2>3
  <2> QED BY <1>2, <2>3, <2>4 DEF Raises
<1> QED BY <1>3, <1>4, <1>5, <1>6

LEMMA ReadStep ==
  ASSUME ServerIInv, Read
  PROVE  ServerIInv'
<1>1. /\ stage = "serving" /\ (Test \/ Get \/ Gather)
      /\ UNCHANGED <<config, req, stage, connected, aborted, error, computed, outputs, final>>
  BY DEF Read, requestVars, engineVars
<1>2. /\ MergeIInv /\ TypeOK /\ ServerTypeOK /\ RequestOK /\ EngineInv /\ StageInv
      /\ EndedInv /\ FinalInv /\ HandlerIsServed /\ TasksInv
  BY <1>1 DEF ServerIInv, StageInv, MergeIInv
<1>3. /\ Prompts' = Prompts /\ (\A j : Ids(j)' = Ids(j)) /\ RequestOK'
      /\ Streams(req)' = Streams(req) /\ \A j : IsComplete(j)' = IsComplete(j)
  BY <1>1, <1>2 DEF Prompts, Ids, RequestOK, IsComplete
<1>4. MergeIInv' /\ yielded' = yielded /\ consumer \in {"loop", "get", "gather"}
  <2>1. Consumer
    BY <1>1 DEF Consumer
  <2>2. yielded' = yielded /\ consumer \in {"loop", "get", "gather"}
    BY <1>1 DEF Test, Get, Gather, Take
  <2> QED BY <1>2, <2>1, <2>2, ConsumerStep
<1>5. \/ UNCHANGED <<producer, queue, got>> /\ consumer' \in {"get", "gather", "ended"}
      \/ queue # <<>> /\ Take
  BY <1>1 DEF Test, Get, Gather
<1>6. /\ \A j \in Iterators : Raises(j) => Raises(j)' \/ consumer' = "raised"
      /\ \A j \in Iterators : producer'[j] = "ended" <=> producer[j] = "ended"
  <2>1. CASE UNCHANGED <<producer, queue>>
    BY <2>1 DEF Raises
  <2>2. CASE queue # <<>> /\ Take
    BY <1>2, <2>2, TakeDoes DEF CancelProducers, TypeOK
  <2> QED BY <1>5, <2>1, <2>2
<1>7. ServerTypeOK' /\ EngineInv'
  BY <1>1, <1>2, <1>3, <1>4 DEF ServerTypeOK, EngineInv, MergeIInv
<1>8. StageInv'
  BY <1>1, <1>2, <1>3, <1>6 DEF StageInv
<1>9. EndedInv'
  <2>1. \A j \in Prompts : j \in Iterators
    BY <1>2 DEF RequestOK
  <2> QED BY <1>1, <1>2, <1>3, <1>4, <1>6, <2>1 DEF EndedInv
<1>10. FinalInv'
  <2>1. CASE UNCHANGED <<producer, queue, got>> /\ consumer' \in {"get", "gather", "ended"}
    <3>1. \A j \in Iterators : Got(j)' = Got(j) /\ final'[j] = final[j]
      BY <1>1, <2>1, GotSame
    <3> QED BY <1>1, <1>2, <1>3, <1>4, <2>1, <3>1 DEF FinalInv
  <2>2. CASE queue # <<>> /\ Take /\ consumer' = "raised"
    <3>1. \A j \in Iterators : Got(j)' = Got(j) /\ final'[j] = final[j]
      BY <1>1, <1>2, <2>2, TakeDoes, GotSame
    <3> QED BY <1>1, <1>2, <1>3, <1>4, <2>2, <3>1 DEF FinalInv
  <2>3. CASE queue # <<>> /\ Take /\ consumer' # "raised"
    <3>1. PICK e \in Items :
            /\ Last(got)' = e /\ e = <<e[1], Got(e[1])'>>
            /\ \A j \in Iterators : j # e[1] => Got(j)' = Got(j)
      BY <1>2, <2>3, TakeDoes
    <3>2. e[1] \in Iterators /\ \A j \in Iterators : final'[j] = final[j]
      BY <1>1 DEF Items
    <3>3. consumer' = "caller"
      BY <1>2, <2>3, TakeDoes
    <3>4. Last(got)'[1] \in Iterators /\ Last(got)' = <<Last(got)'[1], Got(e[1])'>>
      BY <3>1, <3>2
    <3> QED BY <1>1, <1>2, <1>3, <1>4, <3>1, <3>2, <3>3 DEF FinalInv
  <2> QED BY <1>5, <2>1, <2>2, <2>3
<1>11. HandlerIsServed'
  <2>1. ASSUME consumer' = "gather", NEW j \in Iterators
        PROVE  producer'[j] = "ended"
    BY <1>4, <2>1 DEF MergeIInv, ConsumerInv, TasksInv, AllFinished
  <2>2. ASSUME consumer' = "get"
        PROVE  \E j \in Prompts : producer'[j] = "runs"
    <3>1. /\ consumer = "loop" /\ GoesOn /\ queue = <<>> /\ producer' = producer
      BY <1>1, <2>2 DEF Test, Get, Gather, Take
    <3>2. PICK j \in Iterators : ~finished[j]
      BY <3>1 DEF GoesOn, AllFinished
    <3>3. producer[j] = "runs"
      BY <1>2, <3>1, <3>2 DEF TasksInv, TypeOK
    <3>4. j \in Prompts
      BY <1>1, <1>2, <3>2, <3>3 DEF StageInv
    <3> QED BY <3>1, <3>3, <3>4
  <2> QED BY <1>3, <2>1, <2>2 DEF HandlerIsServed
<1> QED BY <1>4, <1>7, <1>8, <1>9, <1>10, <1>11 DEF ServerIInv

\* An output has been dealt with: the handler asks for the next.
LEMMA ResumeStep ==
  ASSUME ServerIInv, stage = "serving", NEW i \in Iterators, Last(got)[1] = i, Resume,
         UNCHANGED <<req, stage, aborted, error, computed, outputs>>,
         \/ Streams(req) /\ final' = final
         \/ final' = [final EXCEPT ![i] = Last(got)]
  PROVE  ServerIInv'
<1>1. consumer = "caller" /\ consumer' = "loop" /\ UNCHANGED <<producer, finished, yielded, queue, got>>
  BY DEF Resume
<1>2. /\ MergeIInv /\ TypeOK /\ ServerTypeOK /\ RequestOK /\ EngineInv /\ StageInv
      /\ EndedInv /\ FinalInv
  BY DEF ServerIInv, StageInv, MergeIInv
<1>3. /\ Prompts' = Prompts /\ (\A j : Ids(j)' = Ids(j)) /\ RequestOK'
      /\ Streams(req)' = Streams(req)
      /\ \A j : IsComplete(j)' = IsComplete(j) /\ Raises(j)' = Raises(j)
  BY <1>1, <1>2 DEF Prompts, Ids, RequestOK, IsComplete, Raises
<1>4. MergeIInv'
  BY <1>2, ConsumerStep DEF Consumer
<1>5. ServerTypeOK' /\ EngineInv'
  BY <1>1, <1>2, <1>3, <1>4 DEF ServerTypeOK, EngineInv, MergeIInv
<1>6. StageInv' /\ HandlerIsServed'
  BY <1>1, <1>2, <1>3 DEF StageInv, HandlerIsServed
<1>7. EndedInv'
  BY <1>1, <1>2, <1>3 DEF EndedInv
<1>8. FinalInv'
  <2>1. \A j \in Iterators : Got(j)' = Got(j)
    BY <1>1, GotSame
  <2>2. Last(got) = <<i, Got(i)>>
    BY <1>1, <1>2 DEF FinalInv
  <2>3. ~Streams(req) => final'[i] = Last(got) /\ \A j \in Iterators : j # i => final'[j] = final[j]
    BY <1>2 DEF EngineInv
  <2> QED BY <1>1, <1>2, <1>3, <2>1, <2>2, <2>3 DEF FinalInv
<1> QED BY <1>4, <1>5, <1>6, <1>7, <1>8 DEF ServerIInv

\* Only how the request comes out changes.
LEMMA StageStep ==
  ASSUME ServerIInv, stage # "start",
         UNCHANGED <<vars, req, error, computed, outputs, final>>,
         aborted' \subseteq Iterators, aborted' # {} => stage' = "dropped",
         stage' \in {"serving", "done", "error", "crashed", "dropped"},
         stage' = "serving" => stage = "serving", stage = "dropped" => stage' = "dropped",
         stage' = "done" => consumer = "ended"
  PROVE  ServerIInv'
<1>1. UNCHANGED <<producer, finished, yielded, queue, consumer, got>>
  BY DEF vars
<1>2. /\ MergeIInv /\ TypeOK /\ ServerTypeOK /\ RequestOK /\ EngineInv /\ StageInv
      /\ EndedInv /\ FinalInv /\ HandlerIsServed
  BY DEF ServerIInv, StageInv, MergeIInv
<1>3. /\ Prompts' = Prompts /\ (\A j : Ids(j)' = Ids(j)) /\ RequestOK'
      /\ Streams(req)' = Streams(req)
      /\ \A j : IsComplete(j)' = IsComplete(j) /\ Raises(j)' = Raises(j)
  BY <1>1, <1>2 DEF Prompts, Ids, RequestOK, IsComplete, Raises
<1>4. MergeIInv'
  BY <1>1, <1>2, MergeSame
<1>5. ServerTypeOK' /\ EngineInv'
  BY <1>1, <1>2, <1>3, <1>4 DEF ServerTypeOK, EngineInv, MergeIInv
<1>6. StageInv' /\ HandlerIsServed' /\ EndedInv'
  BY <1>1, <1>2, <1>3 DEF StageInv, HandlerIsServed, EndedInv
<1>7. FinalInv'
  <2>1. \A j \in Iterators : Got(j)' = Got(j)
    BY <1>1, GotSame
  <2> QED BY <1>1, <1>2, <1>3, <2>1 DEF FinalInv
<1> QED BY <1>4, <1>5, <1>6, <1>7 DEF ServerIInv

LEMMA CancelStreamingStep ==
  ASSUME ServerIInv, CancelStreaming
  PROVE  ServerIInv'
<1>1. /\ stage = "serving" /\ stage' = "dropped" /\ Streams(req) /\ CancelConsumer
      /\ aborted' = aborted \cup {i \in Prompts : producer[i] = "runs"}
      /\ UNCHANGED <<req, error, computed, outputs, final>>
  BY DEF CancelStreaming, engineVars
<1>2. /\ consumer' = "raised" /\ producer' = CancelProducers
      /\ UNCHANGED <<finished, yielded, queue, got>>
  BY <1>1 DEF CancelConsumer
<1>3. /\ MergeIInv /\ TypeOK /\ ServerTypeOK /\ RequestOK /\ EngineInv /\ StageInv
  BY <1>1 DEF ServerIInv, StageInv, MergeIInv
<1>4. /\ Prompts' = Prompts /\ (\A j : Ids(j)' = Ids(j)) /\ RequestOK'
      /\ Streams(req)' = Streams(req)
  BY <1>1, <1>3 DEF Prompts, Ids, RequestOK
<1>5. MergeIInv'
  BY <1>1, <1>3, ConsumerStep DEF Consumer
<1>6. ServerTypeOK' /\ EngineInv'
  BY <1>1, <1>2, <1>3, <1>4, <1>5 DEF ServerTypeOK, EngineInv, MergeIInv, RequestOK
<1>7. StageInv'
  BY <1>1, <1>2, <1>3, <1>4 DEF StageInv, CancelProducers
<1>8. HandlerIsServed' /\ EndedInv' /\ FinalInv'
  BY <1>1, <1>2, <1>4 DEF HandlerIsServed, EndedInv, FinalInv
<1> QED BY <1>5, <1>6, <1>7, <1>8 DEF ServerIInv

LEMMA StartStep ==
  ASSUME ServerIInv, RequestOK, Start
  PROVE  ServerIInv'
<1>1. /\ stage = "start" /\ stage' \in {"serving", "error", "crashed"}
      /\ producer' = [i \in Iterators |-> IF i \in Prompts THEN "runs" ELSE "ended"]
      /\ finished' = [i \in Iterators |-> i \notin Prompts]
      /\ UNCHANGED <<yielded, queue, consumer, got, req, aborted, error, computed, outputs, final>>
  BY DEF Start
<1>2. /\ MergeIInv /\ TypeOK /\ ServerTypeOK /\ EngineInv /\ Idle
  BY <1>1 DEF ServerIInv, StageInv, MergeIInv
<1>3. /\ queue = <<>> /\ got = <<>> /\ consumer = "loop" /\ aborted = {}
      /\ computed = [i \in Iterators |-> 0]
  BY <1>2 DEF Idle, Init
<1>4. Prompts' = Prompts /\ (\A j : Ids(j)' = Ids(j)) /\ RequestOK'
  BY <1>1 DEF Prompts, Ids, RequestOK
<1>5. \A i \in Iterators : Got(i)' = 0
  <2>1. \A i \in Iterators : GotOf(i) = <<>> /\ Got(i) = 0
    BY <1>3, SelectOfNone DEF GotOf, Got
  <2> QED BY <1>1, <2>1, GotSame
<1>6. MergeIInv'
  <2>1. TypeOK'
    BY <1>1, <1>2 DEF TypeOK
  <2>2. InOrder'
    BY <1>1, <1>2, GotSame DEF MergeIInv, InOrder
  <2>3. NoOrphan' /\ TasksInv' /\ ConsumerInv'
    BY <1>1, <1>3 DEF NoOrphan, TasksInv, ConsumerInv
  <2>4. QueueInv'
    <3>1. Len(queue) = 0 /\ \A k \in 1 .. 0 : FALSE
      BY <1>3
    <3>2. \A i \in Iterators : Got(i)' = 0 /\ yielded[i] = 0
      BY <1>2, <1>5 DEF Idle, Init
    <3> QED BY <1>1, <3>1, <3>2 DEF QueueInv
  <2> QED BY <2>1, <2>2, <2>3, <2>4 DEF MergeIInv
<1>7. EngineInv'
  BY <1>1, <1>2 DEF EngineInv
<1>8. ServerTypeOK'
  <2>1. \A i \in Prompts : computed[i] \in 0 .. Len(Ids(i))
    BY <1>3, IdsFacts
  <2> QED BY <1>1, <1>2, <1>4, <1>6, <2>1 DEF ServerTypeOK, MergeIInv
<1>9. StageInv'
  BY <1>1, <1>3, <1>4 DEF StageInv
<1>10. HandlerIsServed' /\ EndedInv'
  <2>1. \A i \in Prompts : producer'[i] = "runs"
    BY <1>1 DEF RequestOK
  <2> QED BY <1>1, <1>3, <1>4, <2>1 DEF HandlerIsServed, EndedInv
<1>11. FinalInv'
  BY <1>1, <1>3, <1>5 DEF FinalInv
<1> QED BY <1>6, <1>7, <1>8, <1>9, <1>10, <1>11 DEF ServerIInv

\* Nothing has been asked yet, and the server that will be asked changes.
LEMMA IdleStep ==
  ASSUME ServerIInv, stage = "start",
         UNCHANGED <<vars, stage, connected, aborted, error, engineVars, final, sent>>
  PROVE  ServerIInv'
<1>1. UNCHANGED <<producer, finished, yielded, queue, consumer, got, computed, seqs, outputs>>
  BY DEF vars, engineVars
<1>2. /\ MergeIInv /\ TypeOK /\ ServerTypeOK /\ EngineInv /\ Idle
  BY DEF ServerIInv, StageInv, MergeIInv
<1>3. MergeIInv'
  BY <1>1, <1>2, MergeSame
<1>4. Idle' /\ consumer = "loop" /\ aborted = {}
  BY <1>1, <1>2 DEF Idle, Init
<1>5. ServerTypeOK' /\ EngineInv'
  BY <1>1, <1>2, <1>3 DEF ServerTypeOK, EngineInv, MergeIInv
<1>6. StageInv' /\ HandlerIsServed' /\ EndedInv' /\ FinalInv'
  BY <1>1, <1>4 DEF StageInv, HandlerIsServed, EndedInv, FinalInv
<1> QED BY <1>3, <1>5, <1>6 DEF ServerIInv

LEMMA ServerStep ==
  ASSUME ServerIInv, RequestOK, ServerNext
  PROVE  ServerIInv'
<1>1. /\ stage # "start" => StageInv /\ aborted \subseteq Iterators /\ Prompts \subseteq Iterators
      /\ stage \in {"start", "serving", "done", "error", "crashed", "dropped"}
      /\ stage = "serving" => aborted = {}
  BY DEF ServerIInv, ServerTypeOK, StageInv, RequestOK
<1>2. CASE Start
  BY <1>2, StartStep
<1>3. CASE Read
  BY <1>3, ReadStep
<1>4. CASE Finish
  BY <1>1, <1>4, StageStep DEF Finish, engineVars
<1>5. CASE Fail
  BY <1>1, <1>5, StageStep DEF Fail, engineVars
<1>6. ASSUME NEW i \in Iterators, Leave(i)
      PROVE  ServerIInv'
  BY <1>1, <1>6, StageStep DEF Leave, Reading, engineVars
<1>7. ASSUME NEW i \in Iterators, StreamChunks(i)
      PROVE  ServerIInv'
  <2>1. /\ stage = "serving" /\ Last(got)[1] = i /\ Streams(req)
        /\ UNCHANGED <<req, aborted, error, computed, outputs, final>>
        /\ \/ stage' \in {"crashed", "error"} /\ UNCHANGED vars
           \/ Resume /\ UNCHANGED stage
    BY <1>7 DEF StreamChunks, Reading, engineVars
  <2>2. CASE Resume /\ UNCHANGED stage
    BY <2>1, <2>2, ResumeStep
  <2>3. CASE stage' \in {"crashed", "error"} /\ UNCHANGED vars
    BY <1>1, <2>1, <2>3, StageStep
  <2> QED BY <2>1, <2>2, <2>3
<1>8. ASSUME NEW i \in Iterators, KeepResult(i)
      PROVE  ServerIInv'
  BY <1>8, ResumeStep DEF KeepResult, Reading, requestVars, engineVars
<1>9. CASE Disconnect
  BY <1>1, <1>9, StageStep DEF Disconnect, engineVars
<1>10. CASE CancelStreaming
  BY <1>10, CancelStreamingStep
<1>11. CASE Over
  <2>1. /\ stage \notin {"start", "serving"}
        /\ UNCHANGED <<vars, req, stage, aborted, error, computed, outputs, final>>
    BY <1>11 DEF Over, serverVars, requestVars, engineVars
  <2>2. stage = "done" => consumer = "ended"
    BY <1>1, <2>1 DEF StageInv
  <2>3. aborted # {} => stage = "dropped"
    BY <1>1, <2>1 DEF StageInv
  <2> QED BY <1>1, <2>1, <2>2, <2>3, StageStep
<1>12. ASSUME NEW i \in Iterators, Engine(i)
       PROVE  ServerIInv'
  BY <1>12, EngineStep
<1> QED BY <1>2, <1>3, <1>4, <1>5, <1>6, <1>7, <1>8, <1>9, <1>10, <1>11, <1>12
        DEF ServerNext, Handler

LEMMA IdleIsGood == Idle => ServerIInv
<1> SUFFICES ASSUME Idle PROVE ServerIInv
  OBVIOUS
<1>1. /\ queue = <<>> /\ got = <<>> /\ yielded = [i \in Iterators |-> 0] /\ consumer = "loop"
      /\ producer = [i \in Iterators |-> "runs"] /\ finished = [i \in Iterators |-> FALSE]
      /\ stage = "start" /\ aborted = {} /\ error = "none"
      /\ computed = [i \in Iterators |-> 0] /\ outputs = [i \in Iterators |-> <<>>]
      /\ final = [i \in Iterators |-> None]
  BY DEF Idle, Init
<1>2. MergeIInv
  BY <1>1, MergeStart
<1>3. ServerTypeOK
  <2>1. Len(<<>>) = 0
    OBVIOUS
  <2> QED BY <1>1, <1>2, <2>1 DEF ServerTypeOK, MergeIInv
<1>4. EngineInv
  <2>1. \A i \in Iterators : outputs[i] = <<>> /\ outputs[i] \in Seq({outputs[i][n] : n \in DOMAIN outputs[i]})
    BY <1>1
  <2> QED BY <1>1, <2>1 DEF EngineInv
<1>5. HandlerIsServed /\ StageInv /\ EndedInv /\ FinalInv
  BY <1>1 DEF HandlerIsServed, StageInv, EndedInv, FinalInv
<1> QED BY <1>2, <1>3, <1>4, <1>5 DEF ServerIInv

LEMMA ServerFacts == ServerIInv => ServerInv
<1> SUFFICES ASSUME ServerIInv PROVE ServerInv
  OBVIOUS
<1>1. MergeInv /\ MergeIInv
  BY MergeFacts DEF ServerIInv
<1>2. ResponseIsFinal
  <2> SUFFICES ASSUME stage = "done", ~Streams(req), NEW i \in Prompts
               PROVE  /\ final[i] = <<i, Len(outputs[i])>>
                      /\ outputs[i][Len(outputs[i])].finished
    BY DEF ResponseIsFinal
  <2>1. /\ consumer = "ended" /\ i \in Iterators /\ EngineInv /\ EndedInv /\ FinalInv
        /\ yielded[i] = Len(outputs[i])
    BY DEF ServerIInv, StageInv, RequestOK, ServerTypeOK
  <2>2. queue = <<>> /\ Got(i) = yielded[i] /\ producer[i] = "ended"
    BY <1>1, <2>1 DEF MergeInv, AllDelivered, Got, MergeIInv, ConsumerInv, TasksInv, AllFinished
  <2>3. ~Raises(i)
    BY <2>2 DEF Raises
  <2>4. IsComplete(i)
    BY <2>1, <2>2, <2>3 DEF EndedInv
  <2>5. Len(outputs[i]) # 0
    <3> DEFINE s == outputs[i]
    <3>1. s \in Seq({s[n] : n \in DOMAIN s}) /\ s # <<>>
      BY <2>1, <2>4 DEF EngineInv, IsComplete
    <3> HIDE DEF s
    <3>2. Len(s) # 0
      BY <3>1
    <3> QED BY <3>2 DEF s
  <2>6. final[i] = <<i, Got(i)>>
    BY <2>1, <2>2, <2>5 DEF FinalInv
  <2> QED BY <2>1, <2>2, <2>4, <2>6 DEF IsComplete
<1> QED BY <1>1, <1>2 DEF ServerInv, ServerIInv

LEMMA NextKeepsRequest ==
  ASSUME ServerNext, ServerIInv
  PROVE  req' = req
<1>1. ASSUME NEW i \in Iterators, Engine(i) PROVE req' = req
  BY <1>1, EngineDoes
<1>2. ASSUME NEW i \in Iterators, Leave(i) \/ StreamChunks(i) \/ KeepResult(i) PROVE req' = req
  BY <1>2 DEF Leave, StreamChunks, KeepResult, requestVars
<1> QED BY <1>1, <1>2 DEF ServerNext, Handler, Start, Read, Finish, Fail, Disconnect,
           CancelStreaming, Over, serverVars, requestVars

(***************************************************************************)
(* A request to a server, from its start to its answer, for every          *)
(* configuration, request and engine: of the streams of its prompts, which *)
(* the engine fills while the handler reads, no output is lost, reordered  *)
(* or read twice; a response is made of the last output of every prompt,   *)
(* at its place; and the handler never waits for a queue that nobody will  *)
(* fill, nor for a task that will not end.                                 *)
(***************************************************************************)
THEOREM ServerIsSound == StartSpec => []ServerInv
<1>1. StartInit => StartIInv
  BY IdleIsGood DEF StartInit, StartIInv, Idle
<1>2. StartIInv /\ [StartNext]_<<startVars, serverVars>> => StartIInv'
  <2> SUFFICES ASSUME StartIInv, [StartNext]_<<startVars, serverVars>> PROVE StartIInv'
    OBVIOUS
  <2>1. CASE Serve
    <3>1. phase = "serving" /\ phase' = phase /\ RequestOK /\ ServerNext /\ ServerIInv
      BY <2>1 DEF Serve, startVars, StartIInv
    <3>2. req' = req
      BY <3>1, NextKeepsRequest
    <3>3. RequestOK'
      BY <3>1, <3>2 DEF RequestOK, Prompts
    <3> QED BY <3>1, <3>3, ServerStep DEF StartIInv
  <2>2. CASE TakeRequest
    <3>1. /\ ServerIInv /\ stage = "start" /\ phase' = "serving"
          /\ UNCHANGED <<vars, stage, connected, aborted, error, engineVars, final, sent>>
      BY <2>2 DEF TakeRequest, StartIInv
    <3>2. RequestOK'
      <4>1. PICK c \in Cases : req' = c[2]
        BY <2>2 DEF TakeRequest
      <4> QED BY <4>1, CasesAssumption DEF RequestOK, Prompts
    <3> QED BY <3>1, <3>2, IdleStep DEF StartIInv
  <2>3. CASE CreateEngineConfig \/ InitExecutor \/ InitWorkers \/ LoadModel \/ CrashWhileLoading
             \/ InitializeCache
    <3>1. /\ phase # "serving" /\ phase' # "serving"
          /\ UNCHANGED <<vars, stage, connected, aborted, error, engineVars, final, sent>>
      BY <2>3 DEF CreateEngineConfig, InitExecutor, InitWorkers, LoadModel, CrashWhileLoading,
                  InitializeCache, Go, serverVars, requestVars
    <3> QED BY <3>1, IdleStep DEF StartIInv
  <2>4. CASE UNCHANGED <<startVars, serverVars>>
    <3>1. /\ phase' = phase /\ UNCHANGED <<vars, config, req, stage, connected, aborted, error>>
          /\ UNCHANGED <<engineVars, computed, outputs, final, sent>>
      BY <2>4 DEF startVars, serverVars, requestVars, engineVars
    <3>2. RequestOK' = RequestOK
      BY <3>1 DEF RequestOK, Prompts
    <3>3. CASE stage = "start"
      BY <3>1, <3>2, <3>3, IdleStep DEF StartIInv
    <3>4. CASE stage # "start"
      <4>1. ServerIInv /\ ServerTypeOK /\ StageInv
        BY DEF StartIInv, ServerIInv
      <4>2. /\ aborted' \subseteq Iterators /\ (aborted' # {} => stage' = "dropped")
            /\ stage' \in {"serving", "done", "error", "crashed", "dropped"}
            /\ stage' = "done" => consumer = "ended"
        BY <3>1, <3>4, <4>1 DEF ServerTypeOK, StageInv
      <4>3. ServerIInv'
        BY <3>1, <3>4, <4>1, <4>2, StageStep
      <4> QED BY <3>1, <3>2, <3>4, <4>3 DEF StartIInv
    <3> QED BY <3>3, <3>4
  <2> QED BY <2>1, <2>2, <2>3, <2>4 DEF StartNext, Rest
<1>3. StartIInv => ServerInv
  BY ServerFacts DEF StartIInv
<1> QED BY <1>1, <1>2, <1>3, PTL DEF StartSpec
=============================================================================
