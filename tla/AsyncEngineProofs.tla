------------------------- MODULE AsyncEngineProofs -------------------------
(***************************************************************************)
(* What the asynchronous engine keeps, for every number of calls and every *)
(* order of calls, aborts, cancellations, faults and steps: streams end    *)
(* once and for a reason, the groups in the engine and the open streams    *)
(* correspond, and the engine implements RequestService.                   *)
(***************************************************************************)
EXTENDS AsyncEngine, ListLemmas

USE AsyncEngineAssumption

\* "request_id: The unique id of the request."
UniqueIds == \A c, d \in Clients : ReqOf[c] = ReqOf[d] => c = d

\* A loop that may break is started by the caller, once.
NoRestart == \A s \in Setups : s.faults = {} \/ ~s.start_engine_loop

-----------------------------------------------------------------------------
\* One stream.

StreamSet == [Clients -> Seq(Items)]

OneEnd(t) ==
  \A i \in DOMAIN t :
    /\ t[i] = "stop" => i = Len(t)
    /\ t[i] \in {"final", "error"} => i + 1 = Len(t) /\ t[i + 1] = "stop"

Ended(t) == "stop" \in ToSet(t)

\* What a stream becomes when x is put, followed by the end if x is the last.
Extended(t, x) ==
  IF x \in {"final", "error"} THEN Append(Append(t, x), "stop") ELSE Append(t, x)
Grown(t, x) == IF Ended(t) THEN t ELSE Extended(t, x)

\* The outputs in it.
Count(t) == Len(Select(t, {"output", "final"}))
CountOf(x) == IF x \in {"output", "final"} THEN 1 ELSE 0

LEMMA FinishedIsEnded ==
  ASSUME NEW s \in StreamSet, NEW c \in Clients
  PROVE  /\ s[c] \in Seq(Items)
         /\ Finished(s, c) <=> Ended(s[c])
         /\ \A x : Contains(s[c], x) <=> x \in ToSet(s[c])
<1>1. s[c] \in Seq(Items)
  BY DEF StreamSet
<1> QED BY <1>1, MembersFacts DEF Finished, Ended

\* Nothing but outputs is in a stream that has not ended.
LEMMA OpenStream ==
  ASSUME NEW t \in Seq(Items), OneEnd(t), ~Ended(t)
  PROVE  /\ \A i \in 1 .. Len(t) : t[i] = "output"
         /\ ToSet(t) \subseteq {"output"}
<1>1. DOMAIN t = 1 .. Len(t) /\ Len(t) \in Nat /\ \A i \in 1 .. Len(t) : t[i] \in Items
  OBVIOUS
<1>2. \A x : x \in ToSet(t) <=> \E i \in 1 .. Len(t) : t[i] = x
  BY MembersFacts
<1>3. ASSUME NEW i \in 1 .. Len(t) PROVE t[i] = "output"
  <2>1. t[i] # "stop"
    BY <1>2 DEF Ended
  <2>2. CASE t[i] \in {"final", "error"}
    <3>1. i + 1 = Len(t) /\ t[i + 1] = "stop"
      BY <1>1, <2>2 DEF OneEnd
    <3>2. i + 1 \in 1 .. Len(t)
      BY <1>1, <3>1
    <3> QED BY <1>2, <3>1, <3>2 DEF Ended
  <2> QED BY <1>1, <2>1, <2>2 DEF Items
<1> QED BY <1>2, <1>3

LEMMA ExtendedFacts ==
  ASSUME NEW t \in Seq(Items), OneEnd(t), ~Ended(t), NEW x \in Items
  PROVE  /\ Extended(t, x) \in Seq(Items) /\ OneEnd(Extended(t, x))
         /\ ToSet(Extended(t, x)) = ToSet(t) \cup {x} \cup (IF x = "output" THEN {} ELSE {"stop"})
         /\ Count(Extended(t, x)) = Count(t) + CountOf(x) /\ Count(t) \in Nat
<1> DEFINE n == Len(t)
           u == Append(t, x)
           v == Append(u, "stop")
           O == {"output", "final"}
<1>1. /\ u \in Seq(Items) /\ Len(u) = n + 1 /\ DOMAIN u = 1 .. n + 1 /\ u[n + 1] = x
      /\ \A i \in 1 .. n : u[i] = t[i]
      /\ n \in Nat /\ ToSet(u) = ToSet(t) \cup {x}
  BY AppendFacts, SetOfAppend
<1>2. "stop" \in Items
  BY DEF Items
<1> HIDE DEF u
<1>3. /\ v \in Seq(Items) /\ Len(v) = n + 2 /\ DOMAIN v = 1 .. n + 2 /\ v[n + 2] = "stop"
      /\ \A i \in 1 .. n + 1 : v[i] = u[i]
      /\ ToSet(v) = ToSet(u) \cup {"stop"}
  <2>1. Len(v) = Len(u) + 1 /\ DOMAIN v = 1 .. Len(u) + 1 /\ v[Len(u) + 1] = "stop"
        /\ v \in Seq(Items) /\ \A i \in 1 .. Len(u) : v[i] = u[i]
    BY <1>1, <1>2, AppendFacts
  <2>2. ToSet(v) = ToSet(u) \cup {"stop"}
    BY <1>1, <1>2, SetOfAppend
  <2>3. (n + 1) + 1 = n + 2
    BY <1>1
  <2> HIDE DEF v, n
  <2> QED BY <1>1, <2>1, <2>2, <2>3
<1>4. Select(t, O) \in Seq(Items) /\ Count(t) \in Nat /\ Count(t) = Len(Select(t, O))
  BY SelectFacts DEF Count
<1>5. Count(u) = Count(t) + CountOf(x)
  <2>1. Select(u, O) = IF x \in O THEN Append(Select(t, O), x) ELSE Select(t, O)
    BY SelectAppend DEF u
  <2>2. Len(Append(Select(t, O), x)) = Len(Select(t, O)) + 1
    BY <1>4, AppendFacts
  <2> HIDE DEF O
  <2> QED BY <1>4, <2>1, <2>2 DEF Count, CountOf, O
<1>6. Count(v) = Count(u)
  <2>1. Select(v, O) = IF "stop" \in O THEN Append(Select(u, O), "stop") ELSE Select(u, O)
    <3> HIDE DEF O
    <3> QED BY <1>1, <1>2, SelectAppend DEF v
  <2> QED BY <2>1 DEF Count
<1>7. \A i \in 1 .. n : t[i] = "output"
  BY OpenStream
<1> HIDE DEF v, n
<1>8. CASE x \in {"final", "error"}
  <2>1. Extended(t, x) = v
    BY <1>8 DEF Extended, u, v
  <2>2. ASSUME NEW i \in 1 .. n + 2
        PROVE  /\ v[i] = "stop" => i = n + 2
               /\ v[i] \in {"final", "error"} => i = n + 1
    <3>1. i \in 1 .. n \/ i = n + 1 \/ i = n + 2
      BY <1>1
    <3>2. i \in 1 .. n => i \in 1 .. n + 1 /\ v[i] = "output"
      BY <1>1, <1>3, <1>7
    <3>3. n + 1 \in 1 .. n + 1 /\ v[n + 1] = x
      BY <1>1, <1>3
    <3> QED BY <1>3, <1>8, <3>1, <3>2, <3>3
  <2>3. OneEnd(v)
    BY <1>1, <1>3, <2>2 DEF OneEnd
  <2> QED BY <1>1, <1>3, <1>4, <1>5, <1>6, <1>8, <2>1, <2>3
<1>9. CASE x \notin {"final", "error"}
  <2>1. Extended(t, x) = u
    BY <1>9 DEF Extended, u
  <2>2. ASSUME NEW i \in 1 .. n + 1
        PROVE  /\ u[i] = "stop" => i = n + 1
               /\ u[i] \notin {"final", "error"}
    <3>1. i \in 1 .. n \/ i = n + 1
      BY <1>1
    <3>2. i \in 1 .. n => u[i] = "output"
      BY <1>1, <1>7
    <3> QED BY <1>1, <1>9, <3>1, <3>2
  <2>3. OneEnd(u)
    BY <1>1, <2>2 DEF OneEnd
  <2>4. x = "stop" \/ x = "output"
    BY <1>9 DEF Items
  <2> QED BY <1>1, <1>4, <1>5, <2>1, <2>3, <2>4
<1> QED BY <1>8, <1>9

LEMMA GrownFacts ==
  ASSUME NEW t \in Seq(Items), OneEnd(t), NEW x \in Items
  PROVE  /\ Grown(t, x) \in Seq(Items) /\ OneEnd(Grown(t, x))
         /\ ToSet(t) \subseteq ToSet(Grown(t, x))
         /\ Ended(t) => Grown(t, x) = t
         /\ x # "output" => Ended(Grown(t, x))
         /\ ~Ended(t) => /\ ToSet(Grown(t, x)) = ToSet(t) \cup {x} \cup (IF x = "output" THEN {} ELSE {"stop"})
                         /\ Count(Grown(t, x)) = Count(t) + CountOf(x)
                         /\ ToSet(t) \subseteq {"output"}
         /\ Count(t) \in Nat
<1>1. CASE Ended(t)
  <2>1. Select(t, {"output", "final"}) \in Seq(Items)
    BY SelectFacts
  <2> QED BY <1>1, <2>1 DEF Grown, Count
<1>2. CASE ~Ended(t)
  BY <1>2, ExtendedFacts, OpenStream DEF Grown, Ended
<1> QED BY <1>1, <1>2

-----------------------------------------------------------------------------
\* The operations on all streams.

Tables == [ReqIds -> Clients \cup {NoStream}]

LEMMA GrownType ==
  ASSUME NEW t \in Seq(Items), NEW x \in Items
  PROVE  Grown(t, x) \in Seq(Items) /\ Append(t, x) \in Seq(Items)
<1>1. "stop" \in Items
  BY DEF Items
<1>2. Append(t, x) \in Seq(Items)
  BY AppendFacts
<1>3. Append(Append(t, x), "stop") \in Seq(Items)
  BY <1>1, <1>2, AppendFacts
<1> QED BY <1>2, <1>3 DEF Grown, Extended

LEMMA GrownIs ==
  ASSUME NEW t
  PROVE  /\ Grown(t, "stop") = IF Ended(t) THEN t ELSE Append(t, "stop")
         /\ Grown(t, "output") = IF Ended(t) THEN t ELSE Append(t, "output")
         /\ Grown(t, "error") = IF Ended(t) THEN t ELSE Append(Append(t, "error"), "stop")
         /\ Grown(t, "final") = IF Ended(t) THEN t ELSE Append(Append(t, "final"), "stop")
BY DEF Grown, Extended

LEMMA PutFacts ==
  ASSUME NEW s \in StreamSet, NEW c \in Clients, NEW x \in Items
  PROVE  /\ Put(s, c, x) \in StreamSet
         /\ \A d \in Clients : Put(s, c, x)[d] = IF d = c /\ ~Ended(s[c]) THEN Append(s[c], x) ELSE s[d]
         /\ x # "stop" => (Ended(Put(s, c, x)[c]) <=> Ended(s[c]))
<1> DEFINE u == Append(s[c], x)
<1>1. s[c] \in Seq(Items) /\ (Finished(s, c) <=> Ended(s[c]))
  BY FinishedIsEnded
<1>2. u \in Seq(Items) /\ ToSet(u) = ToSet(s[c]) \cup {x}
  BY <1>1, SetOfAppend
<1>3. Put(s, c, x) = IF Ended(s[c]) THEN s ELSE [s EXCEPT ![c] = u]
  BY <1>1 DEF Put
<1> HIDE DEF u
<1>4. /\ Put(s, c, x) \in StreamSet
      /\ \A d \in Clients : Put(s, c, x)[d] = IF d = c /\ ~Ended(s[c]) THEN u ELSE s[d]
  BY <1>2, <1>3 DEF StreamSet
<1>5. x # "stop" => (Ended(u) <=> Ended(s[c]))
  BY <1>2 DEF Ended
<1> QED BY <1>4, <1>5 DEF u

LEMMA AbortFacts ==
  ASSUME NEW s \in StreamSet, NEW reg \in Tables, NEW id \in ReqIds
  PROVE  /\ AbortStream(s, reg, id) \in StreamSet
         /\ \A c \in Clients :
               AbortStream(s, reg, id)[c] = IF reg[id] = c THEN Grown(s[c], "stop") ELSE s[c]
<1> DEFINE d == reg[id]
           u == Append(s[d], "stop")
<1>1. d \in Clients \cup {NoStream} /\ NoStream \notin Clients
  BY DEF Tables
<1>2. CASE d = NoStream
  <2>1. AbortStream(s, reg, id) = s
    BY <1>2 DEF AbortStream
  <2> QED BY <1>1, <1>2, <2>1
<1>3. CASE d \in Clients
  <2>1. d # NoStream /\ s[d] \in Seq(Items) /\ (Finished(s, d) <=> Ended(s[d]))
    BY <1>1, <1>3, FinishedIsEnded
  <2>2. u \in Seq(Items)
    BY <2>1, GrownType DEF Items
  <2>3. AbortStream(s, reg, id) = IF Ended(s[d]) THEN s ELSE [s EXCEPT ![d] = u]
    BY <2>1 DEF AbortStream, Finish
  <2>4. Grown(s[d], "stop") = IF Ended(s[d]) THEN s[d] ELSE u
    BY GrownIs
  <2> HIDE DEF u
  <2> QED BY <1>3, <2>2, <2>3, <2>4 DEF StreamSet
<1> QED BY <1>1, <1>2, <1>3

LEMMA FailAllFacts ==
  ASSUME NEW s \in StreamSet, NEW reg \in Tables, NEW ids
  PROVE  /\ FailAll(s, reg, ids) \in StreamSet
         /\ \A c \in Clients :
               FailAll(s, reg, ids)[c] = IF ReqOf[c] \in ids /\ reg[ReqOf[c]] = c
                                         THEN Grown(s[c], "error") ELSE s[c]
<1>1. ASSUME NEW c \in Clients, reg[ReqOf[c]] = c
      PROVE  AbortStream(Put(s, c, "error"), reg, ReqOf[c])[c] = Grown(s[c], "error")
  <2> DEFINE p == Put(s, c, "error")
  <2>1. /\ p \in StreamSet /\ p[c] = (IF Ended(s[c]) THEN s[c] ELSE Append(s[c], "error"))
        /\ Ended(p[c]) <=> Ended(s[c])
    BY PutFacts DEF Items
  <2> HIDE DEF p
  <2>2. AbortStream(p, reg, ReqOf[c])[c] = Grown(p[c], "stop")
    BY <1>1, <2>1, AbortFacts
  <2> DEFINE e == Append(s[c], "error")
             q == p[c]
  <2>3. /\ AbortStream(p, reg, ReqOf[c])[c] = IF Ended(q) THEN q ELSE Append(q, "stop")
        /\ Grown(s[c], "error") = IF Ended(s[c]) THEN s[c] ELSE Append(e, "stop")
    BY <2>2, GrownIs
  <2>4. q = (IF Ended(s[c]) THEN s[c] ELSE e) /\ (Ended(q) <=> Ended(s[c]))
    BY <2>1
  <2> HIDE DEF e, q
  <2>5. AbortStream(p, reg, ReqOf[c])[c] = Grown(s[c], "error")
    BY <2>3, <2>4
  <2> QED BY <2>5 DEF p
<1>2. \A c \in Clients : s[c] \in Seq(Items) /\ Grown(s[c], "error") \in Seq(Items)
  BY FinishedIsEnded, GrownType DEF Items
<1>3. \A c \in Clients :
         FailAll(s, reg, ids)[c] = IF ReqOf[c] \in ids /\ reg[ReqOf[c]] = c
                                   THEN Grown(s[c], "error") ELSE s[c]
  BY <1>1 DEF FailAll
<1>4. DOMAIN FailAll(s, reg, ids) = Clients
      /\ FailAll(s, reg, ids) = [c \in Clients |-> FailAll(s, reg, ids)[c]]
  BY DEF FailAll
<1> QED BY <1>2, <1>3, <1>4 DEF StreamSet

-----------------------------------------------------------------------------
\* The outputs of a step.

Outs == [streams : StreamSet, dead : BOOLEAN, finished : SUBSET ReqIds]
ItemOf(c, last) == IF c \in last THEN "final" ELSE "output"

\* The output of one group.
Delivery(out, next, c, last) ==
  LET d == registered[ReqOf[c]] IN
  IF out.dead \/ d = NoStream
  THEN next.dead = TRUE /\ next.streams = out.streams /\ next.finished = out.finished
  ELSE /\ next.dead = FALSE
       /\ \A e \in Clients : next.streams[e] = IF e = d THEN Grown(out.streams[e], ItemOf(c, last))
                                                ELSE out.streams[e]
       /\ next.finished = IF c \in last THEN out.finished \cup {ReqOf[c]} ELSE out.finished

LEMMA DeliverFacts ==
  ASSUME registered \in Tables, NEW out \in Outs, NEW c \in Clients, NEW last
  PROVE  Deliver(out, c, last) \in Outs /\ Delivery(out, Deliver(out, c, last), c, last)
<1> DEFINE id == ReqOf[c]
           d == registered[id]
           item == ItemOf(c, last)
           s == Put(out.streams, d, item)
           a == AbortStream(s, registered, id)
           yes == TRUE
           f == out.finished \cup {id}
           next == Deliver(out, c, last)
<1>1. id \in ReqIds /\ d \in Clients \cup {NoStream} /\ NoStream \notin Clients
  BY DEF Tables
<1>2. out.streams \in StreamSet /\ out.dead \in BOOLEAN /\ out.finished \in SUBSET ReqIds /\ yes \in BOOLEAN
      /\ f \in SUBSET ReqIds /\ yes = TRUE
  BY <1>1 DEF Outs
<1>3. next = IF out.dead \/ d = NoStream THEN [out EXCEPT !.dead = yes]
             ELSE IF c \notin last THEN [out EXCEPT !.streams = s]
             ELSE [out EXCEPT !.streams = a, !.finished = f]
  BY DEF Deliver, ItemOf
<1> HIDE DEF next, yes
<1>4. CASE out.dead \/ d = NoStream
  <2> HIDE DEF d, id, item, s, a, f
  <2>1. next = [out EXCEPT !.dead = yes]
    BY <1>3, <1>4
  <2>2. next \in Outs /\ next.dead = TRUE /\ next.streams = out.streams /\ next.finished = out.finished
    BY <1>2, <2>1 DEF Outs
  <2> QED BY <1>4, <2>2 DEF Delivery, next, d, id
<1>5. CASE ~out.dead /\ d # NoStream
  <2>1. d \in Clients /\ item \in Items /\ item # "stop"
    BY <1>1, <1>5 DEF ItemOf, Items
  <2>2. /\ s \in StreamSet /\ (Ended(s[d]) <=> Ended(out.streams[d]))
        /\ \A e \in Clients : s[e] = IF e = d /\ ~Ended(out.streams[d]) THEN Append(out.streams[d], item)
                                     ELSE out.streams[e]
    BY <1>2, <2>1, PutFacts
  <2>3. /\ a \in StreamSet
        /\ \A e \in Clients : a[e] = IF d = e THEN Grown(s[e], "stop") ELSE s[e]
    BY <1>1, <2>2, AbortFacts
  <2>4. Grown(s[d], "stop") = IF Ended(out.streams[d]) THEN out.streams[d]
                              ELSE Append(Append(out.streams[d], item), "stop")
    BY <2>1, <2>2, GrownIs
  <2>5. out.dead = FALSE
    BY <1>2, <1>5
  <2>6. CASE c \notin last
    <3>1. item = "output"
      BY <2>6 DEF ItemOf
    <3>2. \A e \in Clients : s[e] = IF e = d THEN Grown(out.streams[e], item) ELSE out.streams[e]
      BY <2>1, <2>2, <3>1, GrownIs
    <3> HIDE DEF d, id, item, s, a, f
    <3>3. next = [out EXCEPT !.streams = s]
      BY <1>3, <1>5, <2>6
    <3>4. next \in Outs /\ next.dead = FALSE /\ next.streams = s /\ next.finished = out.finished
      BY <1>2, <2>2, <2>5, <3>3 DEF Outs
    <3> QED BY <1>5, <2>6, <3>2, <3>4 DEF Delivery, next, d, id, item
  <2>7. CASE c \in last
    <3>1. item = "final"
      BY <2>7 DEF ItemOf
    <3>2. Grown(out.streams[d], item) = Grown(s[d], "stop")
      BY <2>4, <3>1, GrownIs
    <3>3. \A e \in Clients : a[e] = IF e = d THEN Grown(out.streams[e], item) ELSE out.streams[e]
      BY <2>1, <2>2, <2>3, <3>2
    <3> HIDE DEF d, id, item, s, a, f
    <3>4. next = [out EXCEPT !.streams = a, !.finished = f]
      BY <1>3, <1>5, <2>7
    <3>5. next \in Outs /\ next.dead = FALSE /\ next.streams = a /\ next.finished = f
      BY <1>2, <2>3, <2>5, <3>4 DEF Outs
    <3> QED BY <1>5, <2>7, <3>3, <3>5 DEF Delivery, next, d, id, item, f
  <2> QED BY <2>6, <2>7
<1> QED BY <1>2, <1>4, <1>5

First == [streams |-> streams, dead |-> FALSE, finished |-> finished_requests]

Delivers(out, last) ==
  /\ out \in [0 .. Len(scheduled) -> Outs]
  /\ out[0] = First
  /\ \A i \in 1 .. Len(scheduled) : Delivery(out[i - 1], out[i], scheduled[i], last)
  /\ Delivered(last) = out[Len(scheduled)]

LEMMA DeliveredDef ==
  ASSUME TypeOK, NEW last
  PROVE  \E out : Delivers(out, last)
<1> DEFINE n == Len(scheduled)
           G == [x \in Outs \X (1 .. n) |-> Deliver(x[1], scheduled[x[2]], last)]
           Is(g) == g = [i \in 0 .. n |-> IF i = 0 THEN First
                                          ELSE Deliver(g[i - 1], scheduled[i], last)]
<1>1. n \in Nat /\ \A i \in 1 .. n : scheduled[i] \in Clients
  BY DEF TypeOK
<1>2. First \in Outs
  BY DEF TypeOK, Outs, First, StreamSet
<1>3. registered \in Tables
  BY DEF TypeOK, Tables
<1>4. \A o \in Outs, i \in 1 .. n : Deliver(o, scheduled[i], last) \in Outs
  BY <1>1, <1>3, DeliverFacts
<1> HIDE DEF n
<1>5. PICK h : RunsBy(h, n, Outs, First, G)
  <2>1. StepFunction(G, n, Outs)
    BY <1>4 DEF StepFunction
  <2> HIDE DEF G
  <2> QED BY <1>1, <1>2, <2>1, RecursionExists
<1>6. \A i \in 1 .. n : h[i] = Deliver(h[i - 1], scheduled[i], last)
  <2> TAKE i \in 1 .. n
  <2>1. i - 1 \in 0 .. n /\ h[i - 1] \in Outs
    BY <1>1, <1>5 DEF RunsBy
  <2> QED BY <1>5, <2>1 DEF RunsBy
<1>7. Is(h)
  <2> DEFINE body(i) == IF i = 0 THEN First ELSE Deliver(h[i - 1], scheduled[i], last)
  <2>1. \A i \in 0 .. n : h[i] = body(i)
    <3> TAKE i \in 0 .. n
    <3>1. i = 0 \/ i \in 1 .. n
      BY <1>1
    <3> QED BY <1>5, <1>6, <3>1 DEF RunsBy
  <2>2. h = [i \in 0 .. n |-> h[i]]
    BY <1>5 DEF RunsBy
  <2> HIDE DEF body
  <2>3. h = [i \in 0 .. n |-> body(i)]
    BY <2>1, <2>2
  <2> QED BY <2>3 DEF body
<1>8. Is(CHOOSE g : Is(g))
  <2> HIDE DEF Is
  <2> QED BY <1>7
<1> DEFINE g == CHOOSE g : Is(g)
<1>9. Delivered(last) = g[n]
  BY DEF Delivered, First, n
<1> HIDE DEF g
<1>10. Is(g)
  BY <1>8 DEF g
<1>11. g = h
  <2> DEFINE A == {m \in 0 .. n : g[m] = h[m]}
  <2>1. 0 \in A
    BY <1>1, <1>5, <1>10 DEF RunsBy
  <2>2. ASSUME NEW m \in A, m < n PROVE m + 1 \in A
    <3>1. m + 1 \in 1 .. n /\ (m + 1) - 1 = m /\ m + 1 \in 0 .. n /\ m + 1 # 0
      BY <1>1, <2>2
    <3>2. g[m + 1] = IF m + 1 = 0 THEN First ELSE Deliver(g[(m + 1) - 1], scheduled[m + 1], last)
      BY <1>10, <3>1
    <3>3. h[m + 1] = Deliver(h[(m + 1) - 1], scheduled[m + 1], last)
      BY <1>6, <3>1
    <3> QED BY <2>2, <3>1, <3>2, <3>3
  <2>3. A = 0 .. n
    <3> HIDE DEF A
    <3>1. A \in SUBSET (0 .. n)
      BY DEF A
    <3> QED BY <1>1, <2>1, <2>2, <3>1, UpToInductive
  <2>4. \A i \in 0 .. n : g[i] = h[i]
    BY <2>3
  <2>5. g = [i \in 0 .. n |-> g[i]] /\ h = [i \in 0 .. n |-> h[i]]
    <3>1. g = [i \in 0 .. n |-> g[i]]
      BY <1>10
    <3> QED BY <1>5, <3>1 DEF RunsBy
  <2> HIDE DEF Is
  <2> QED BY <2>4, <2>5
<1>12. \A i \in 1 .. n : Delivery(h[i - 1], h[i], scheduled[i], last)
  <2> TAKE i \in 1 .. n
  <2>1. h[i - 1] \in Outs /\ scheduled[i] \in Clients
    BY <1>1, <1>5 DEF RunsBy
  <2> QED BY <1>3, <1>6, <2>1, DeliverFacts
<1> QED BY <1>5, <1>9, <1>11, <1>12 DEF RunsBy, Delivers, n

-----------------------------------------------------------------------------
\* What the steps do.

\* The calls move on: none becomes new again, and no cancelled one comes back.
PcMoves ==
  /\ pc' \in [Clients -> ClientStates] /\ read' \in [Clients -> Nat]
  /\ aborted \subseteq aborted' /\ aborted' \subseteq Clients
  /\ \A c \in Clients :
        /\ pc'[c] \in {"idle", "tokenizing"} => pc[c] \in {"idle", "tokenizing"}
        /\ pc[c] = "cancelled" => pc'[c] = "cancelled"
  /\ setup' = setup

Idles ==
  /\ UNCHANGED <<streams, registered, new_requests, finished_requests, engine, produced>>
  /\ scheduled' \in {scheduled, <<>>}
  /\ loop' \in LoopStates /\ new_requests_event' \in BOOLEAN /\ callback' \in BOOLEAN /\ errored' \in BOOLEAN
  /\ \A c \in Clients : pc'[c] = "reading" => pc[c] = "reading"
  /\ (loop = "idle" /\ MayStartLoop /\ \A c \in Clients : pc[c] = "idle") => pc' = pc
  /\ \/ UNCHANGED <<loop, callback, errored, scheduled>>
     \/ /\ loop \in {"wait", "blocked"} /\ loop' \in {"blocked", "step"}
        /\ UNCHANGED <<callback, errored, scheduled>>
     \/ loop = "exec" /\ loop' = "done" /\ Faults # {}

Restarts ==
  /\ registered' = [id \in ReqIds |-> NoStream]
  /\ new_requests' = <<>> /\ finished_requests' = {} /\ new_requests_event' = FALSE
  /\ MayStartLoop /\ loop \in {"idle", "done"} /\ loop' = "wait"
  /\ \A c \in Clients : pc'[c] = "reading" => pc[c] = "reading"
  /\ UNCHANGED <<streams, callback, errored, backend>>

Queues(c) ==
  /\ pc[c] = "tokenizing" /\ registered[ReqOf[c]] = NoStream
  /\ pc' = [pc EXCEPT ![c] = "reading"]
  /\ new_requests' = Append(new_requests, c) /\ new_requests_event' = TRUE
  /\ UNCHANGED <<streams, registered, finished_requests, loop, callback, errored, backend>>

\* The request of a call is given up, by the call or for it.
GivesUp(c) ==
  /\ pc[c] \in {"reading", "ended"}
  /\ c \in aborted' \/ pc'[c] = "cancelled" \/ "error" \in ToSet(streams[c])
  /\ AbortRequest(ReqOf[c])
  /\ \A d \in Clients : pc'[d] = "reading" => pc[d] = "reading"
  /\ UNCHANGED <<loop, callback, errored, backend>>

Effect ==
  \/ Idles \/ Restarts \/ (\E c \in Clients : Queues(c) \/ GivesUp(c))
  \/ (EngineStep \/ ModelReturns \/ Callback) /\ UNCHANGED client

LEMMA Effects ==
  ASSUME TypeOK, [Next]_vars
  PROVE  PcMoves /\ Effect
<1> DEFINE Frame == UNCHANGED <<loop, callback, errored, backend>>
<1>t. /\ pc \in [Clients -> ClientStates] /\ read \in [Clients -> Nat] /\ aborted \subseteq Clients
      /\ loop \in LoopStates /\ new_requests_event \in BOOLEAN
      /\ callback \in BOOLEAN /\ errored \in BOOLEAN
  BY DEF TypeOK
<1>b. "rejected" \in ClientStates /\ "tokenizing" \in ClientStates /\ "reading" \in ClientStates
      /\ "failed" \in ClientStates /\ "ended" \in ClientStates /\ "cancelled" \in ClientStates
  BY DEF ClientStates
<1>s. \A c \in Clients, a \in ClientStates :
         /\ [pc EXCEPT ![c] = a] \in [Clients -> ClientStates]
         /\ [pc EXCEPT ![c] = a][c] = a
         /\ \A d \in Clients \ {c} : [pc EXCEPT ![c] = a][d] = pc[d]
  BY <1>t
<1>1. CASE UNCHANGED vars
  <2>1. PcMoves
    BY <1>1, <1>t DEF vars, client, PcMoves
  <2>2. Idles
    BY <1>1, <1>t DEF vars, client, tracker, backend, Idles
  <2> QED BY <2>1, <2>2 DEF Effect
<1>2. ASSUME Same, NEW c \in Clients, Generate(c) PROVE PcMoves /\ Effect
  <2>1. pc' \in {[pc EXCEPT ![c] = "tokenizing"], [pc EXCEPT ![c] = "rejected"]}
        /\ pc[c] = "idle" /\ read' = read /\ aborted' = aborted
    BY <1>2 DEF Generate
  <2>2. \E a \in {"tokenizing", "rejected"} : pc' = [pc EXCEPT ![c] = a]
    BY <2>1
  <2>3. PcMoves
    BY <1>2, <1>t, <1>b, <1>s, <2>1, <2>2 DEF PcMoves, Same
  <2>4. \A d \in Clients : pc'[d] = "reading" => pc[d] = "reading"
    BY <1>b, <1>s, <2>2
  <2>5. IsRunning \/ ~MayStartLoop => Idles
    <3>1. IsRunning => loop # "idle"
      BY DEF IsRunning
    <3> QED BY <1>2, <1>t, <2>4, <3>1 DEF Generate, Idles, tracker, backend
  <2>6. ~IsRunning /\ MayStartLoop => Restarts
    <3>1. ~IsRunning => loop \in {"idle", "done"}
      BY <1>t DEF IsRunning, LoopStates
    <3> QED BY <1>2, <2>4, <3>1 DEF Generate, Restarts
  <2> QED BY <2>3, <2>5, <2>6 DEF Effect
<1>3. ASSUME Same, NEW c \in Clients, AddRequest(c) PROVE PcMoves /\ Effect
  <2>1. pc' \in {[pc EXCEPT ![c] = "reading"], [pc EXCEPT ![c] = "rejected"]}
        /\ pc[c] = "tokenizing" /\ read' = read /\ aborted' = aborted
    BY <1>3 DEF AddRequest
  <2>2. \E a \in {"reading", "rejected"} : pc' = [pc EXCEPT ![c] = a]
    BY <2>1
  <2>3. PcMoves
    BY <1>3, <1>t, <1>b, <1>s, <2>1, <2>2 DEF PcMoves, Same
  <2>4. CASE registered[ReqOf[c]] # NoStream
    <3>1. pc' = [pc EXCEPT ![c] = "rejected"]
      BY <1>3, <2>4 DEF AddRequest
    <3>2. \A d \in Clients : pc'[d] = "reading" => pc[d] = "reading"
      BY <1>b, <1>s, <3>1
    <3>3. Idles
      BY <1>3, <1>t, <2>1, <2>4, <3>2 DEF AddRequest, Idles, tracker, backend
    <3> QED BY <2>3, <3>3 DEF Effect
  <2>5. CASE registered[ReqOf[c]] = NoStream
    <3>1. Queues(c)
      BY <1>3, <2>5 DEF AddRequest, Enqueue, Queues
    <3> QED BY <2>3, <3>1 DEF Effect
  <2> QED BY <2>4, <2>5
<1>4. ASSUME Same, NEW c \in Clients, Read(c) PROVE PcMoves /\ Effect
  <2> DEFINE item == streams[c][read[c] + 1]
  <2>1. /\ pc[c] = "reading" /\ read[c] < Len(streams[c])
        /\ read' = [read EXCEPT ![c] = @ + 1] /\ aborted' = aborted /\ Frame
        /\ IF item = "error" THEN pc' = [pc EXCEPT ![c] = "failed"] /\ AbortRequest(ReqOf[c])
           ELSE /\ pc' = IF item = "stop" THEN [pc EXCEPT ![c] = "ended"] ELSE pc
                /\ UNCHANGED <<streams, tracker>>
    BY <1>4 DEF Read
  <2>2. read' \in [Clients -> Nat]
    BY <1>t, <2>1
  <2>3. /\ streams[c] \in Seq(Items) /\ Len(streams[c]) \in Nat /\ read[c] \in Nat
        /\ read[c] + 1 \in 1 .. Len(streams[c])
    BY <1>t, <2>1 DEF TypeOK
  <2>4. item \in ToSet(streams[c])
    BY <2>3, MembersFacts
  <2> HIDE DEF item
  <2>5. pc' = pc \/ \E a \in {"failed", "ended"} : pc' = [pc EXCEPT ![c] = a]
    BY <2>1
  <2>6. PcMoves
    BY <1>4, <1>t, <1>b, <1>s, <2>1, <2>2, <2>5 DEF PcMoves, Same
  <2>7. \A d \in Clients : pc'[d] = "reading" => pc[d] = "reading"
    BY <1>b, <1>s, <2>5
  <2>8. CASE item = "error"
    <3>1. GivesUp(c)
      BY <2>1, <2>4, <2>7, <2>8 DEF GivesUp
    <3> QED BY <2>6, <3>1 DEF Effect
  <2>9. CASE item # "error"
    <3>1. Idles
      BY <1>t, <2>1, <2>7, <2>9 DEF Idles, tracker, backend
    <3> QED BY <2>6, <3>1 DEF Effect
  <2> QED BY <2>8, <2>9
<1>5. ASSUME Same, NEW c \in Clients, Cancel(c) PROVE PcMoves /\ Effect
  <2>1. /\ pc[c] \in {"tokenizing", "reading"} /\ pc' = [pc EXCEPT ![c] = "cancelled"]
        /\ read' = read /\ aborted' = aborted /\ Frame
        /\ IF pc[c] = "reading" THEN AbortRequest(ReqOf[c]) ELSE UNCHANGED <<streams, tracker>>
    BY <1>5 DEF Cancel
  <2>2. PcMoves
    BY <1>5, <1>t, <1>b, <1>s, <2>1 DEF PcMoves, Same
  <2>3. pc'[c] = "cancelled" /\ \A d \in Clients : pc'[d] = "reading" => pc[d] = "reading"
    BY <1>b, <1>s, <2>1
  <2>4. CASE pc[c] = "reading"
    <3>1. GivesUp(c)
      BY <2>1, <2>3, <2>4 DEF GivesUp
    <3> QED BY <2>2, <3>1 DEF Effect
  <2>5. CASE pc[c] # "reading"
    <3>1. Idles
      BY <1>t, <2>1, <2>3, <2>5 DEF Idles, tracker, backend
    <3> QED BY <2>2, <3>1 DEF Effect
  <2> QED BY <2>4, <2>5
<1>6. ASSUME Same, NEW c \in Clients, Abort(c) PROVE PcMoves /\ Effect
  <2>1. /\ pc[c] \in {"reading", "ended"} /\ aborted' = aborted \cup {c} /\ pc' = pc
        /\ read' = read /\ AbortRequest(ReqOf[c]) /\ Frame
    BY <1>6 DEF Abort
  <2>2. PcMoves
    BY <1>6, <1>t, <2>1 DEF PcMoves, Same
  <2>3. GivesUp(c)
    BY <2>1 DEF GivesUp
  <2> QED BY <2>2, <2>3 DEF Effect
<1>7. ASSUME Same, WaitForNewRequests \/ WakeUp \/ (\E fault \in Faults : Breaks(fault))
      PROVE  PcMoves /\ Effect
  <2>1. UNCHANGED client
    BY <1>7 DEF WaitForNewRequests, WakeUp, Breaks
  <2>2. PcMoves
    BY <1>7, <1>t, <2>1 DEF client, PcMoves, Same
  <2>3. CASE WaitForNewRequests
    BY <1>t, <2>1, <2>2, <2>3 DEF WaitForNewRequests, client, backend, Idles, Effect, LoopStates
  <2>4. CASE WakeUp
    BY <1>t, <2>1, <2>2, <2>4 DEF WakeUp, client, backend, Idles, Effect, LoopStates
  <2>5. CASE \E fault \in Faults : Breaks(fault)
    <3>1. PICK fault \in Faults : Breaks(fault)
      BY <2>5
    <3>2. errored' \in BOOLEAN
      BY <1>t, <3>1 DEF Breaks
    <3>3. Idles
      BY <1>t, <2>1, <3>1, <3>2 DEF Breaks, client, tracker, Idles, LoopStates
    <3> QED BY <2>2, <3>3 DEF Effect
  <2> QED BY <1>7, <2>3, <2>4, <2>5
<1>8. ASSUME Same, EngineStep \/ ModelReturns \/ Callback PROVE PcMoves /\ Effect
  <2>1. UNCHANGED client
    BY <1>8 DEF EngineStep, ModelReturns, Callback
  <2>2. PcMoves
    BY <1>8, <1>t, <2>1 DEF client, PcMoves, Same
  <2> QED BY <1>8, <2>1, <2>2 DEF Effect
<1> QED BY <1>1, <1>2, <1>3, <1>4, <1>5, <1>6, <1>7, <1>8 DEF Next

KeptSet == {c \in ToSet(new_requests) : ReqOf[c] \notin finished_requests}
IdsOf(S) == {ReqOf[c] : c \in S}

\* The rules of Registration and DroppedClosed, without the order of the queue.
Registers(reg) ==
  /\ reg \in Tables
  /\ \A id \in ReqIds :
        \/ \E c \in KeptSet : ReqOf[c] = id /\ reg[id] = c
        \/ /\ id \notin IdsOf(KeptSet)
           /\ reg[id] = IF id \in finished_requests THEN NoStream ELSE registered[id]
ClosedIfDropped(c) ==
  IF c \in ToSet(new_requests) \ KeptSet THEN Append(streams[c], "stop") ELSE streams[c]

\* engine_step, with the calls that are invalid and the groups that leave.
Stepped(invalid, gone) ==
  /\ invalid \subseteq KeptSet
  /\ Registers(registered')
  /\ streams' \in StreamSet
  /\ \A c \in Clients :
        streams'[c] = IF ReqOf[c] \in IdsOf(invalid) /\ registered'[ReqOf[c]] = c
                      THEN Grown(ClosedIfDropped(c), "error") ELSE ClosedIfDropped(c)
  /\ new_requests' = <<>> /\ finished_requests' = IdsOf(invalid)
  /\ LET arrived == ToSet(engine) \cup (KeptSet \ invalid) IN
     /\ gone \subseteq {c \in arrived : ReqOf[c] \in finished_requests}
     /\ \A id \in finished_requests \cap IdsOf(arrived) : \E c \in gone : ReqOf[c] = id
     /\ engine' \in Seq(Clients) /\ ToSet(engine') = arrived \ gone
     /\ IsInjective(new_requests) /\ IsInjective(engine) /\ KeptSet \cap ToSet(engine) = {}
           => IsInjective(engine')
  /\ scheduled' \in Seq(Clients) /\ ToSet(scheduled') \subseteq ToSet(engine')
  /\ IsInjective(engine') => IsInjective(scheduled')
  /\ engine' # <<>> /\ ~MayScheduleNone => scheduled' # <<>>
  /\ loop = "step" /\ loop' = IF scheduled' = <<>> THEN "wait" ELSE "exec"
  /\ UNCHANGED <<client, new_requests_event, callback, errored, produced>>

LEMMA KeptFacts ==
  ASSUME TypeOK
  PROVE  /\ Kept \in Seq(Clients) /\ ToSet(Kept) = KeptSet /\ KeptSet \subseteq Clients
         /\ IsInjective(new_requests) => IsInjective(Kept)
         /\ Registers(Registration)
         /\ DroppedClosed \in StreamSet /\ \A c \in Clients : DroppedClosed[c] = ClosedIfDropped(c)
<1>t. /\ new_requests \in Seq(Clients) /\ registered \in Tables /\ streams \in StreamSet
  BY DEF TypeOK, Tables, StreamSet
<1>1. /\ Kept \in Seq(Clients) /\ ToSet(Kept) = KeptSet /\ KeptSet \subseteq Clients
      /\ IsInjective(new_requests) => IsInjective(Kept)
  <2>1. ToSet(new_requests) \subseteq Clients
    BY <1>t, MembersFacts
  <2>2. ToSet(new_requests) \cap {c \in Clients : ReqOf[c] \notin finished_requests} = KeptSet
    BY <2>1 DEF KeptSet
  <2> QED BY <1>t, <2>1, <2>2, SetOfSelect DEF Kept
<1>2. ASSUME NEW id \in ReqIds
      PROVE  /\ KeptFor(id) # <<>> => Last(KeptFor(id)) \in KeptSet /\ ReqOf[Last(KeptFor(id))] = id
             /\ KeptFor(id) = <<>> => id \notin IdsOf(KeptSet)
  <2> DEFINE q == KeptFor(id)
  <2>1. q \in Seq(Clients) /\ ToSet(q) = KeptSet \cap {c \in Clients : ReqOf[c] = id}
    BY <1>1, SetOfSelect DEF KeptFor
  <2> HIDE DEF q
  <2>2. q # <<>> => Len(q) \in 1 .. Len(q)
    BY <2>1
  <2>3. q # <<>> => Last(q) \in ToSet(q)
    BY <2>1, <2>2, MembersFacts DEF Last
  <2>4. q = <<>> => ToSet(q) = {}
    BY <2>1, MembersFacts
  <2>5. q = <<>> => id \notin IdsOf(KeptSet)
    BY <1>1, <2>1, <2>4 DEF IdsOf
  <2> QED BY <2>1, <2>3, <2>5 DEF q
<1>3. Registers(Registration)
  <2>1. ASSUME NEW id \in ReqIds
        PROVE  /\ Registration[id] \in Clients \cup {NoStream}
               /\ \/ \E c \in KeptSet : ReqOf[c] = id /\ Registration[id] = c
                  \/ /\ id \notin IdsOf(KeptSet)
                     /\ Registration[id] = IF id \in finished_requests THEN NoStream ELSE registered[id]
    <3>1. Registration[id] = IF KeptFor(id) # <<>> THEN Last(KeptFor(id))
                             ELSE IF id \in finished_requests THEN NoStream ELSE registered[id]
      BY DEF Registration
    <3>2. registered[id] \in Clients \cup {NoStream}
      BY <1>t DEF Tables
    <3> QED BY <1>1, <1>2, <3>1, <3>2
  <2>2. Registration = [id \in ReqIds |-> Registration[id]]
    BY DEF Registration
  <2> QED BY <2>1, <2>2 DEF Registers, Tables
<1>4. \A c \in Clients : DroppedClosed[c] = ClosedIfDropped(c)
  <2> TAKE c \in Clients
  <2>1. Contains(new_requests, c) <=> c \in ToSet(new_requests)
    BY <1>t, MembersFacts
  <2>2. Contains(Kept, c) <=> c \in KeptSet
    BY <1>1, MembersFacts
  <2> QED BY <2>1, <2>2 DEF DroppedClosed, ClosedIfDropped
<1>5. DroppedClosed \in StreamSet
  <2>1. \A c \in Clients : ClosedIfDropped(c) \in Seq(Items)
    BY <1>t, GrownType DEF ClosedIfDropped, StreamSet, Items
  <2>2. DroppedClosed = [c \in Clients |-> DroppedClosed[c]]
    BY DEF DroppedClosed
  <2> QED BY <1>4, <2>1, <2>2 DEF StreamSet
<1> QED BY <1>1, <1>3, <1>4, <1>5

LEMMA EngineSteps ==
  ASSUME TypeOK, EngineStep
  PROVE  \E invalid, gone : Stepped(invalid, gone)
<1>t. new_requests \in Seq(Clients) /\ engine \in Seq(Clients)
  BY DEF TypeOK
<1>1. PICK invalid \in SUBSET (MayBeInvalid \cap ToSet(Kept)) :
         /\ registered' = Registration
         /\ streams' = FailAll(DroppedClosed, Registration, {ReqOf[c] : c \in invalid})
         /\ new_requests' = <<>>
         /\ finished_requests' = {ReqOf[c] : c \in invalid}
         /\ \E gone \in AbortChoices(engine \o Without(Kept, invalid), finished_requests) :
               engine' = Without(engine \o Without(Kept, invalid), gone)
  BY DEF EngineStep
<1> DEFINE k == Without(Kept, invalid)
           a == engine \o k
<1>2. PICK gone \in AbortChoices(a, finished_requests) : engine' = Without(a, gone)
  BY <1>1
<1>3. PICK picked \in SUBSET ToSet(engine') :
         /\ engine' # <<>> /\ ~MayScheduleNone => picked # {}
         /\ scheduled' = Select(engine', picked)
  BY DEF EngineStep
<1>4. loop = "step" /\ loop' = (IF scheduled' = <<>> THEN AfterStep(<<>>) ELSE "exec")
      /\ UNCHANGED <<client, new_requests_event, callback, errored, produced>>
  BY DEF EngineStep
<1>5. AfterStep(<<>>) = "wait"
  BY DEF AfterStep
<1>6. /\ k \in Seq(Clients) /\ ToSet(k) = KeptSet \ invalid
      /\ IsInjective(new_requests) => IsInjective(k)
  <2>1. KeptSet \cap (Clients \ invalid) = KeptSet \ invalid
    BY KeptFacts
  <2> QED BY <2>1, KeptFacts, SetOfSelect DEF Without
<1> HIDE DEF k
<1>7. /\ a \in Seq(Clients) /\ ToSet(a) = ToSet(engine) \cup (KeptSet \ invalid)
      /\ IsInjective(new_requests) /\ IsInjective(engine) /\ KeptSet \cap ToSet(engine) = {}
            => IsInjective(a)
  <2>1. KeptSet \cap ToSet(engine) = {} => ToSet(engine) \cap ToSet(k) = {}
    BY <1>6
  <2> QED BY <1>t, <1>6, <2>1, ConcatFacts
<1> HIDE DEF a
<1>8. /\ engine' \in Seq(Clients) /\ ToSet(engine') = ToSet(a) \ gone
      /\ IsInjective(a) => IsInjective(engine')
  <2>1. ToSet(a) \cap (Clients \ gone) = ToSet(a) \ gone
    BY <1>7, MembersFacts
  <2> QED BY <1>2, <1>7, <2>1, SetOfSelect DEF Without
<1>9. /\ scheduled' \in Seq(Clients) /\ ToSet(scheduled') = picked
      /\ IsInjective(engine') => IsInjective(scheduled')
      /\ picked # {} => scheduled' # <<>>
  <2>1. ToSet(engine') \cap picked = picked
    OBVIOUS
  <2>2. /\ scheduled' \in Seq(Clients) /\ ToSet(scheduled') = picked
        /\ IsInjective(engine') => IsInjective(scheduled')
    BY <1>3, <1>8, <2>1, SetOfSelect
  <2> QED BY <2>2, MembersFacts
<1>10. /\ gone \subseteq {c \in ToSet(a) : ReqOf[c] \in finished_requests}
       /\ \A id \in finished_requests \cap IdsOf(ToSet(a)) : \E c \in gone : ReqOf[c] = id
  BY <1>2 DEF AbortChoices, IdsOf
<1>11. invalid \subseteq KeptSet
  BY KeptFacts
<1>12. /\ Registers(registered') /\ streams' \in StreamSet
       /\ \A c \in Clients :
             streams'[c] = IF ReqOf[c] \in IdsOf(invalid) /\ registered'[ReqOf[c]] = c
                           THEN Grown(ClosedIfDropped(c), "error") ELSE ClosedIfDropped(c)
  <2> DEFINE R == Registration
             D == DroppedClosed
  <2>1. R \in Tables /\ D \in StreamSet /\ Registers(R) /\ \A c \in Clients : D[c] = ClosedIfDropped(c)
    BY KeptFacts DEF Registers
  <2>2. registered' = R /\ streams' = FailAll(D, R, IdsOf(invalid))
    BY <1>1 DEF IdsOf
  <2> HIDE DEF R, D
  <2>3. /\ FailAll(D, R, IdsOf(invalid)) \in StreamSet
        /\ \A c \in Clients :
              FailAll(D, R, IdsOf(invalid))[c] = IF ReqOf[c] \in IdsOf(invalid) /\ R[ReqOf[c]] = c
                                                 THEN Grown(D[c], "error") ELSE D[c]
    BY <2>1, FailAllFacts
  <2> QED BY <2>1, <2>2, <2>3
<1>13. finished_requests' = IdsOf(invalid)
  BY <1>1 DEF IdsOf
<1>14. Stepped(invalid, gone)
  BY <1>1, <1>3, <1>4, <1>5, <1>7, <1>8, <1>9, <1>10, <1>11, <1>12, <1>13 DEF Stepped
<1> QED BY <1>14

-----------------------------------------------------------------------------
\* Routed, OneEnding and Closed on the sets of the queues.

Fresh(c) ==
  streams[c] = <<>> /\ produced[c] = 0 /\ registered[ReqOf[c]] # c /\ c \notin ToSet(engine)

View ==
  /\ \A id \in ReqIds : registered[id] # NoStream => ReqOf[registered[id]] = id
  /\ IsInjective(new_requests) /\ IsInjective(engine) /\ IsInjective(scheduled)
  /\ ToSet(scheduled) \subseteq ToSet(engine)
  /\ \A c \in Clients :
        /\ pc[c] \in {"idle", "tokenizing"} => Fresh(c) /\ c \notin ToSet(new_requests)
        /\ c \in ToSet(new_requests) => Fresh(c)
        /\ c \in ToSet(engine) => produced[c] < MaxOutputs
        /\ OneEnd(streams[c])
  /\ \A id \in finished_requests : registered[id] # NoStream => Ended(streams[registered[id]])

LEMMA ViewIs == TypeOK => (OneEnding /\ Routed /\ Closed <=> View)
<1> SUFFICES ASSUME TypeOK PROVE OneEnding /\ Routed /\ Closed <=> View
  OBVIOUS
<1>t. /\ new_requests \in Seq(Clients) /\ engine \in Seq(Clients) /\ scheduled \in Seq(Clients)
      /\ streams \in StreamSet /\ registered \in Tables /\ finished_requests \subseteq ReqIds
  BY DEF TypeOK, StreamSet, Tables
<1>1. /\ \A c \in Clients : Contains(new_requests, c) <=> c \in ToSet(new_requests)
      /\ \A c \in Clients : Contains(engine, c) <=> c \in ToSet(engine)
      /\ \A c \in Clients : Contains(scheduled, c) <=> c \in ToSet(scheduled)
      /\ ToSet(scheduled) \subseteq Clients
  BY <1>t, MembersFacts
<1>2. \A c \in Clients : Untouched(c) <=> Fresh(c)
  BY <1>1 DEF Untouched, Fresh
<1>3. OneEnding <=> \A c \in Clients : OneEnd(streams[c])
  BY DEF OneEnding, OneEnd
<1>4. Closed <=> \A id \in finished_requests : registered[id] # NoStream => Ended(streams[registered[id]])
  <2>1. \A id \in finished_requests :
           registered[id] # NoStream => (Finished(streams, registered[id]) <=> Ended(streams[registered[id]]))
    BY <1>t, FinishedIsEnded DEF Tables
  <2> QED BY <2>1 DEF Closed
<1>5. (ToSet(scheduled) \subseteq ToSet(engine)) <=> \A c \in Clients : Contains(scheduled, c) => Contains(engine, c)
  BY <1>1
<1>6. Routed <=>
        /\ \A id \in ReqIds : registered[id] # NoStream => ReqOf[registered[id]] = id
        /\ IsInjective(new_requests) /\ IsInjective(engine) /\ IsInjective(scheduled)
        /\ ToSet(scheduled) \subseteq ToSet(engine)
        /\ \A c \in Clients :
              /\ pc[c] \in {"idle", "tokenizing"} => Fresh(c) /\ c \notin ToSet(new_requests)
              /\ c \in ToSet(new_requests) => Fresh(c)
              /\ c \in ToSet(engine) => produced[c] < MaxOutputs
  BY <1>1, <1>2, <1>5 DEF Routed
<1> QED BY <1>3, <1>4, <1>6 DEF View

LEMMA ViewTypes ==
  ASSUME TypeOK, View
  PROVE  /\ streams \in StreamSet /\ registered \in Tables /\ finished_requests \subseteq ReqIds
         /\ new_requests \in Seq(Clients) /\ engine \in Seq(Clients) /\ scheduled \in Seq(Clients)
         /\ ToSet(new_requests) \subseteq Clients /\ ToSet(engine) \subseteq Clients
         /\ ToSet(scheduled) \subseteq Clients
         /\ \A c \in Clients : ReqOf[c] \in ReqIds /\ streams[c] \in Seq(Items) /\ OneEnd(streams[c])
         /\ produced \in [Clients -> 0 .. MaxOutputs] /\ MaxOutputs \in Nat /\ MaxOutputs > 0
         /\ \A id \in ReqIds : registered[id] # NoStream =>
               registered[id] \in Clients /\ ReqOf[registered[id]] = id
<1>1. /\ new_requests \in Seq(Clients) /\ engine \in Seq(Clients) /\ scheduled \in Seq(Clients)
      /\ streams \in StreamSet /\ registered \in Tables /\ finished_requests \subseteq ReqIds
      /\ produced \in [Clients -> 0 .. MaxOutputs]
  BY DEF TypeOK, StreamSet, Tables
<1>2. ToSet(new_requests) \subseteq Clients /\ ToSet(engine) \subseteq Clients /\ ToSet(scheduled) \subseteq Clients
  BY <1>1, MembersFacts
<1>3. \A c \in Clients : ReqOf[c] \in ReqIds /\ streams[c] \in Seq(Items) /\ OneEnd(streams[c])
  BY <1>1 DEF StreamSet, View
<1>4. \A id \in ReqIds : registered[id] # NoStream =>
               registered[id] \in Clients /\ ReqOf[registered[id]] = id
  BY <1>1 DEF View, Tables
<1> QED BY <1>1, <1>2, <1>3, <1>4

-----------------------------------------------------------------------------
\* The outputs of a step end streams with a last output, and only streams that
\* are registered.

SoundSoFar(out) ==
  /\ out \in Outs
  /\ \A c \in Clients :
        /\ OneEnd(out.streams[c]) /\ ToSet(streams[c]) \subseteq ToSet(out.streams[c])
        /\ Ended(streams[c]) => out.streams[c] = streams[c]
        /\ Ended(out.streams[c]) /\ ~Ended(streams[c]) => "final" \in ToSet(out.streams[c])
        /\ registered[ReqOf[c]] # c => out.streams[c] = streams[c]
  /\ \A id \in out.finished :
        /\ id \in finished_requests \/ id \in IdsOf(ToSet(scheduled))
        /\ registered[id] # NoStream => Ended(out.streams[registered[id]])

LEMMA DeliveryIsSound ==
  ASSUME TypeOK, View, NEW last, NEW out, SoundSoFar(out), NEW next \in Outs,
         NEW c \in ToSet(scheduled), Delivery(out, next, c, last)
  PROVE  SoundSoFar(next)
<1> DEFINE d == registered[ReqOf[c]]
           x == ItemOf(c, last)
<1>t. c \in Clients /\ ReqOf[c] \in ReqIds /\ out \in Outs /\ out.streams \in StreamSet
      /\ next.streams \in StreamSet
  BY ViewTypes DEF SoundSoFar, Outs
<1>1. CASE out.dead \/ d = NoStream
  <2>1. next.streams = out.streams /\ next.finished = out.finished
    BY <1>1 DEF Delivery
  <2> QED BY <2>1 DEF SoundSoFar
<1>2. CASE ~(out.dead \/ d = NoStream)
  <2>1. d \in Clients /\ ReqOf[d] = ReqOf[c] /\ registered[ReqOf[d]] = d
    BY <1>2, <1>t, ViewTypes
  <2>2. /\ \A e \in Clients : next.streams[e] = IF e = d THEN Grown(out.streams[e], x) ELSE out.streams[e]
        /\ next.finished = IF c \in last THEN out.finished \cup {ReqOf[c]} ELSE out.finished
    BY <1>2 DEF Delivery
  <2>3. x \in Items /\ x \in {"output", "final"} /\ (c \in last => x = "final")
    BY DEF ItemOf, Items
  <2>4. out.streams[d] \in Seq(Items) /\ OneEnd(out.streams[d])
    BY <1>t, <2>1 DEF StreamSet, SoundSoFar
  <2> DEFINE g == Grown(out.streams[d], x)
  <2>5. /\ OneEnd(g) /\ ToSet(out.streams[d]) \subseteq ToSet(g)
        /\ Ended(out.streams[d]) => g = out.streams[d]
        /\ x # "output" => Ended(g)
        /\ ~Ended(out.streams[d]) =>
              /\ ToSet(g) = ToSet(out.streams[d]) \cup {x} \cup (IF x = "output" THEN {} ELSE {"stop"})
              /\ ToSet(out.streams[d]) \subseteq {"output"}
    BY <2>3, <2>4, GrownFacts
  <2>6. ~Ended(out.streams[d]) /\ Ended(g) => "final" \in ToSet(g)
    BY <2>3, <2>5 DEF Ended
  <2>7. Ended(out.streams[d]) => Ended(g)
    BY <2>5
  <2> HIDE DEF g, d, x
  <2>8. next.streams[d] = g /\ \A e \in Clients : e # d => next.streams[e] = out.streams[e]
    BY <2>1, <2>2 DEF g
  <2>9. ASSUME NEW e \in Clients
        PROVE  /\ OneEnd(next.streams[e]) /\ ToSet(streams[e]) \subseteq ToSet(next.streams[e])
               /\ Ended(streams[e]) => next.streams[e] = streams[e]
               /\ Ended(next.streams[e]) /\ ~Ended(streams[e]) => "final" \in ToSet(next.streams[e])
               /\ registered[ReqOf[e]] # e => next.streams[e] = streams[e]
    <3>1. /\ OneEnd(out.streams[e]) /\ ToSet(streams[e]) \subseteq ToSet(out.streams[e])
          /\ Ended(streams[e]) => out.streams[e] = streams[e]
          /\ Ended(out.streams[e]) /\ ~Ended(streams[e]) => "final" \in ToSet(out.streams[e])
          /\ registered[ReqOf[e]] # e => out.streams[e] = streams[e]
      BY DEF SoundSoFar
    <3>2. CASE e = d
      <4>1. CASE Ended(out.streams[d])
        BY <2>5, <2>8, <3>1, <3>2, <4>1
      <4>2. CASE ~Ended(out.streams[d])
        <5>1. ~Ended(streams[d])
          BY <3>1, <3>2, <4>2
        <5> QED BY <2>1, <2>5, <2>6, <2>8, <3>1, <3>2, <4>2, <5>1
      <4> QED BY <4>1, <4>2
    <3>3. CASE e # d
      BY <2>8, <3>1, <3>3
    <3> QED BY <3>2, <3>3
  <2>10. ASSUME NEW id \in next.finished
         PROVE  /\ id \in finished_requests \/ id \in IdsOf(ToSet(scheduled))
                /\ registered[id] # NoStream => Ended(next.streams[registered[id]])
    <3>1. CASE id \in out.finished
      <4>1. /\ id \in finished_requests \/ id \in IdsOf(ToSet(scheduled))
            /\ registered[id] # NoStream => Ended(out.streams[registered[id]])
        BY <3>1 DEF SoundSoFar
      <4>2. registered[id] # NoStream => registered[id] \in Clients
        <5>1. id \in ReqIds
          BY <1>t, <3>1 DEF Outs
        <5> QED BY <5>1, ViewTypes
      <4> QED BY <2>7, <2>8, <4>1, <4>2
    <3>2. CASE id \notin out.finished
      <4>1. c \in last /\ id = ReqOf[c] /\ x = "final"
        BY <2>2, <2>3, <3>2
      <4>2. registered[id] = d /\ id \in IdsOf(ToSet(scheduled))
        BY <4>1 DEF d, IdsOf
      <4> QED BY <2>5, <2>8, <4>1, <4>2
    <3> QED BY <3>1, <3>2
  <2> QED BY <2>9, <2>10 DEF SoundSoFar
<1> QED BY <1>1, <1>2

LEMMA DeliveredIsSound ==
  ASSUME TypeOK, View, NEW last
  PROVE  SoundSoFar(Delivered(last))
<1> DEFINE n == Len(scheduled)
<1>1. PICK out : Delivers(out, last)
  BY DeliveredDef
<1> DEFINE A == {i \in 0 .. n : SoundSoFar(out[i])}
<1>2. n \in Nat /\ \A i \in 1 .. n : scheduled[i] \in ToSet(scheduled)
  <2>1. scheduled \in Seq(Clients) /\ n \in Nat
    BY ViewTypes
  <2> QED BY <2>1, MembersFacts
<1>3. SoundSoFar(out[0])
  <2>1. out[0] = First /\ out[0] \in Outs
    BY <1>2, <1>1 DEF Delivers
  <2>2. First.streams = streams /\ First.finished = finished_requests
    BY DEF First
  <2> QED BY <2>1, <2>2, ViewTypes DEF SoundSoFar, View
<1>4. ASSUME NEW i \in A, i < n PROVE i + 1 \in A
  <2>1. i + 1 \in 1 .. n /\ (i + 1) - 1 = i /\ i + 1 \in 0 .. n
    BY <1>2, <1>4
  <2>2. Delivery(out[(i + 1) - 1], out[i + 1], scheduled[i + 1], last) /\ out[i + 1] \in Outs
    BY <1>1, <2>1 DEF Delivers
  <2>3. Delivery(out[i], out[i + 1], scheduled[i + 1], last)
    BY <2>1, <2>2
  <2>4. SoundSoFar(out[i])
    OBVIOUS
  <2>5. SoundSoFar(out[i + 1])
    BY <1>2, <2>1, <2>2, <2>3, <2>4, DeliveryIsSound
  <2> QED BY <2>1, <2>5
<1>5. A = 0 .. n
  <2> HIDE DEF n
  <2>1. A \in SUBSET (0 .. n) /\ 0 \in A
    BY <1>2, <1>3
  <2> HIDE DEF A
  <2> QED BY <1>2, <1>4, <2>1, UpToInductive
<1>6. n \in A
  BY <1>2, <1>5
<1> QED BY <1>1, <1>6 DEF Delivers

-----------------------------------------------------------------------------
\* Every step keeps View, and says why it ends a stream.

Gains ==
  \A c \in Clients :
    /\ ToSet(streams[c]) \subseteq ToSet(streams'[c])
    /\ Ended(streams[c]) => streams'[c] = streams[c]
    /\ Ended(streams'[c]) /\ ~Ended(streams[c]) =>
          \/ "final" \in ToSet(streams'[c]) \/ "error" \in ToSet(streams'[c])
          \/ \E d \in Clients : GivesUp(d) /\ ReqOf[d] = ReqOf[c]
          \/ c \in ToSet(new_requests) /\ ReqOf[c] \in finished_requests

LEMMA IdlesKeeps ==
  ASSUME TypeOK, View, PcMoves, Idles
  PROVE  TypeOK' /\ View' /\ Gains
<1>1. UNCHANGED <<streams, registered, new_requests, finished_requests, engine, produced>>
      /\ scheduled' \in {scheduled, <<>>}
  BY DEF Idles
<1>2. <<>> \in Seq(Clients) /\ ToSet(<<>>) = {} /\ IsInjective(<<>>)
  <2>1. <<>> \in Seq(Clients) /\ DOMAIN <<>> = {}
    OBVIOUS
  <2> QED BY <2>1, MembersFacts DEF IsInjective
<1>3. TypeOK'
  BY <1>1, <1>2 DEF TypeOK, PcMoves, Idles
<1>4. IsInjective(scheduled') /\ ToSet(scheduled') \subseteq ToSet(engine)
  BY <1>1, <1>2 DEF View
<1>5. \A c \in Clients : Fresh(c)' <=> Fresh(c)
  BY <1>1 DEF Fresh
<1>6. View'
  BY <1>1, <1>4, <1>5 DEF View, PcMoves
<1>7. Gains
  BY <1>1 DEF Gains
<1> QED BY <1>3, <1>6, <1>7

LEMMA RestartsKeeps ==
  ASSUME TypeOK, View, PcMoves, Restarts
  PROVE  TypeOK' /\ View' /\ Gains
<1>1. /\ registered' = [id \in ReqIds |-> NoStream]
      /\ new_requests' = <<>> /\ finished_requests' = {}
      /\ UNCHANGED <<streams, callback, errored, engine, scheduled, produced>>
      /\ new_requests_event' \in BOOLEAN /\ loop' \in LoopStates
  BY DEF Restarts, backend, LoopStates
<1>2. <<>> \in Seq(Clients) /\ ToSet(<<>>) = {} /\ IsInjective(<<>>)
  <2>1. <<>> \in Seq(Clients) /\ DOMAIN <<>> = {}
    OBVIOUS
  <2> QED BY <2>1, MembersFacts DEF IsInjective
<1>3. TypeOK'
  BY <1>1, <1>2 DEF TypeOK, PcMoves
<1>4. \A c \in Clients : registered'[ReqOf[c]] # c
  BY <1>1
<1>5. \A c \in Clients : Fresh(c) => Fresh(c)'
  BY <1>1, <1>4 DEF Fresh
<1>6. View'
  BY <1>1, <1>2, <1>5 DEF View, PcMoves
<1>7. Gains
  BY <1>1 DEF Gains
<1> QED BY <1>3, <1>6, <1>7

LEMMA QueuesKeeps ==
  ASSUME TypeOK, View, PcMoves, NEW c \in Clients, Queues(c)
  PROVE  TypeOK' /\ View' /\ Gains
<1>1. /\ pc[c] = "tokenizing" /\ pc' = [pc EXCEPT ![c] = "reading"]
      /\ new_requests' = Append(new_requests, c) /\ new_requests_event' = TRUE
      /\ UNCHANGED <<streams, registered, finished_requests, loop, callback, errored,
                     engine, scheduled, produced>>
  BY DEF Queues, backend
<1>2. /\ new_requests' \in Seq(Clients) /\ ToSet(new_requests') = ToSet(new_requests) \cup {c}
      /\ IsInjective(new_requests')
  <2>1. c \notin ToSet(new_requests) /\ IsInjective(new_requests)
    BY <1>1 DEF View
  <2> QED BY <1>1, <2>1, ViewTypes, SetOfAppend
<1>3. TypeOK'
  BY <1>1, <1>2 DEF TypeOK, PcMoves
<1>4. \A d \in Clients : Fresh(d)' <=> Fresh(d)
  BY <1>1 DEF Fresh
<1>5. Fresh(c)
  BY <1>1 DEF View
<1>6. pc'[c] = "reading" /\ \A d \in Clients : d # c => pc'[d] = pc[d]
  BY <1>1 DEF TypeOK
<1>7. View'
  BY <1>1, <1>2, <1>4, <1>5, <1>6 DEF View
<1>8. Gains
  BY <1>1 DEF Gains
<1> QED BY <1>3, <1>7, <1>8

LEMMA GivesUpKeeps ==
  ASSUME TypeOK, View, PcMoves, NEW c \in Clients, GivesUp(c)
  PROVE  TypeOK' /\ View' /\ Gains
<1> DEFINE id == ReqOf[c]
           s == AbortStream(streams, registered, id)
<1>1. /\ streams' = s /\ finished_requests' = finished_requests \cup {id}
      /\ UNCHANGED <<registered, new_requests, new_requests_event, loop, callback, errored,
                     engine, scheduled, produced>>
  BY DEF GivesUp, AbortRequest, backend
<1>2. id \in ReqIds
  OBVIOUS
<1>3. /\ s \in StreamSet
      /\ \A d \in Clients : s[d] = IF registered[id] = d THEN Grown(streams[d], "stop") ELSE streams[d]
  BY <1>2, ViewTypes, AbortFacts
<1> HIDE DEF s
<1>4. TypeOK'
  BY <1>1, <1>2, <1>3 DEF TypeOK, PcMoves, StreamSet
<1>5. \A d \in Clients : Fresh(d) => Fresh(d)'
  <2> SUFFICES ASSUME NEW d \in Clients, Fresh(d) PROVE Fresh(d)'
    OBVIOUS
  <2>1. registered[id] # d
    BY ViewTypes, <1>2 DEF Fresh
  <2>2. streams'[d] = streams[d]
    BY <1>1, <1>3, <2>1
  <2> QED BY <1>1, <2>2 DEF Fresh
<1>6. \A d \in Clients :
         /\ OneEnd(streams'[d]) /\ ToSet(streams[d]) \subseteq ToSet(streams'[d])
         /\ Ended(streams[d]) => streams'[d] = streams[d]
         /\ registered[id] = d => Ended(streams'[d])
         /\ registered[id] # d => streams'[d] = streams[d]
  <2> TAKE d \in Clients
  <2>1. streams[d] \in Seq(Items) /\ OneEnd(streams[d]) /\ "stop" \in Items
    BY ViewTypes DEF Items
  <2>2. /\ OneEnd(Grown(streams[d], "stop"))
        /\ ToSet(streams[d]) \subseteq ToSet(Grown(streams[d], "stop"))
        /\ Ended(streams[d]) => Grown(streams[d], "stop") = streams[d]
        /\ Ended(Grown(streams[d], "stop"))
    BY <2>1, GrownFacts
  <2> QED BY <1>1, <1>3, <2>1, <2>2
<1>7. \A i \in finished_requests' : registered'[i] # NoStream => Ended(streams'[registered'[i]])
  <2> SUFFICES ASSUME NEW i \in finished_requests', registered[i] # NoStream
               PROVE  Ended(streams'[registered[i]])
    BY <1>1
  <2>1. i \in ReqIds /\ registered[i] \in Clients
    BY <1>1, <1>2, ViewTypes
  <2>2. i = id \/ Ended(streams[registered[i]])
    BY <1>1 DEF View
  <2> QED BY <1>6, <2>1, <2>2
<1>8. View'
  BY <1>1, <1>5, <1>6, <1>7 DEF View, PcMoves
<1>9. Gains
  <2>1. \A d \in Clients : registered[id] = d => ReqOf[d] = id
    BY <1>2, ViewTypes
  <2> QED BY <1>6, <2>1 DEF Gains
<1> QED BY <1>4, <1>8, <1>9

LEMMA StepKeeps ==
  ASSUME TypeOK, View, PcMoves, EngineStep
  PROVE  TypeOK' /\ View' /\ Gains
<1>1. PICK invalid, gone : Stepped(invalid, gone)
  BY EngineSteps
<1> DEFINE arrived == ToSet(engine) \cup (KeptSet \ invalid)
<1>2. /\ invalid \subseteq KeptSet /\ KeptSet \subseteq ToSet(new_requests)
      /\ new_requests' = <<>> /\ finished_requests' = IdsOf(invalid)
      /\ ToSet(engine') = arrived \ gone /\ ToSet(scheduled') \subseteq ToSet(engine')
      /\ UNCHANGED <<client, new_requests_event, callback, errored, produced>>
  BY <1>1 DEF Stepped, KeptSet
<1>3. /\ registered' \in Tables
      /\ \A id \in ReqIds :
            \/ \E c \in KeptSet : ReqOf[c] = id /\ registered'[id] = c
            \/ registered'[id] = NoStream \/ registered'[id] = registered[id]
  BY <1>1 DEF Stepped, Registers
<1>4. <<>> \in Seq(Clients) /\ ToSet(<<>>) = {} /\ IsInjective(<<>>)
  <2>1. <<>> \in Seq(Clients) /\ DOMAIN <<>> = {}
    OBVIOUS
  <2> QED BY <2>1, MembersFacts DEF IsInjective
<1>5. TypeOK'
  <2>1. finished_requests' \subseteq ReqIds
    BY <1>2, ViewTypes DEF IdsOf
  <2>2. /\ streams' \in StreamSet /\ engine' \in Seq(Clients) /\ scheduled' \in Seq(Clients)
        /\ loop' \in LoopStates
    BY <1>1 DEF Stepped, LoopStates
  <2> QED BY <1>2, <1>3, <1>4, <2>1, <2>2 DEF TypeOK, PcMoves, Tables, StreamSet
<1>6. \A c \in Clients :
         streams'[c] = IF ReqOf[c] \in IdsOf(invalid) /\ registered'[ReqOf[c]] = c
                       THEN Grown(ClosedIfDropped(c), "error") ELSE ClosedIfDropped(c)
  BY <1>1 DEF Stepped
<1>7. ASSUME NEW c \in Clients
      PROVE  LET t == ClosedIfDropped(c) IN
             /\ t \in Seq(Items) /\ OneEnd(t) /\ ToSet(streams[c]) \subseteq ToSet(t)
             /\ Ended(streams[c]) => t = streams[c]
             /\ Ended(t) /\ ~Ended(streams[c]) => c \in ToSet(new_requests) /\ ReqOf[c] \in finished_requests
             /\ c \notin ToSet(new_requests) => t = streams[c]
  <2>1. streams[c] \in Seq(Items) /\ OneEnd(streams[c]) /\ "stop" \in Items
    BY ViewTypes DEF Items
  <2>2. CASE c \in ToSet(new_requests) \ KeptSet
    <3>1. streams[c] = <<>> /\ ReqOf[c] \in finished_requests
      BY <2>2 DEF View, Fresh, KeptSet
    <3>2. ~Ended(streams[c])
      BY <2>1, <3>1, MembersFacts DEF Ended
    <3>3. ClosedIfDropped(c) = Grown(streams[c], "stop")
      BY <2>2, <3>2, GrownIs DEF ClosedIfDropped
    <3> DEFINE g == Grown(streams[c], "stop")
    <3>4. g \in Seq(Items) /\ OneEnd(g) /\ ToSet(streams[c]) \subseteq ToSet(g)
      BY <2>1, GrownFacts
    <3> HIDE DEF g
    <3>5. ClosedIfDropped(c) = g
      BY <3>3 DEF g
    <3> QED BY <2>2, <3>1, <3>2, <3>4, <3>5
  <2>3. CASE c \notin ToSet(new_requests) \ KeptSet
    BY <2>1, <2>3 DEF ClosedIfDropped
  <2> QED BY <2>2, <2>3
<1>8. ASSUME NEW c \in Clients
      PROVE  LET t == ClosedIfDropped(c) IN
             /\ OneEnd(Grown(t, "error")) /\ ToSet(t) \subseteq ToSet(Grown(t, "error"))
             /\ Ended(t) => Grown(t, "error") = t
             /\ Ended(Grown(t, "error"))
             /\ ~Ended(t) => "error" \in ToSet(Grown(t, "error"))
  <2>1. ClosedIfDropped(c) \in Seq(Items) /\ OneEnd(ClosedIfDropped(c)) /\ "error" \in Items
    BY <1>7 DEF Items
  <2> QED BY <2>1, GrownFacts
<1>9. \A c \in Clients : OneEnd(streams'[c])
  BY <1>6, <1>7, <1>8
<1>10. Gains
  <2> SUFFICES ASSUME NEW c \in Clients
               PROVE  /\ ToSet(streams[c]) \subseteq ToSet(streams'[c])
                      /\ Ended(streams[c]) => streams'[c] = streams[c]
                      /\ Ended(streams'[c]) /\ ~Ended(streams[c]) =>
                            \/ "error" \in ToSet(streams'[c])
                            \/ c \in ToSet(new_requests) /\ ReqOf[c] \in finished_requests
    BY DEF Gains
  <2> DEFINE t == ClosedIfDropped(c)
  <2>1. /\ ToSet(streams[c]) \subseteq ToSet(t)
        /\ Ended(streams[c]) => t = streams[c]
        /\ Ended(t) /\ ~Ended(streams[c]) => c \in ToSet(new_requests) /\ ReqOf[c] \in finished_requests
    BY <1>7
  <2>2. /\ ToSet(t) \subseteq ToSet(Grown(t, "error"))
        /\ Ended(t) => Grown(t, "error") = t
        /\ ~Ended(t) => "error" \in ToSet(Grown(t, "error"))
    BY <1>8
  <2>3. streams'[c] = t \/ streams'[c] = Grown(t, "error")
    BY <1>6
  <2> HIDE DEF t
  <2> QED BY <2>1, <2>2, <2>3
<1>11. \A c \in Clients \ ToSet(new_requests) : Fresh(c) => Fresh(c)'
  <2> SUFFICES ASSUME NEW c \in Clients, c \notin ToSet(new_requests), Fresh(c) PROVE Fresh(c)'
    OBVIOUS
  <2>1. registered'[ReqOf[c]] # c
    <3>1. ReqOf[c] \in ReqIds /\ NoStream # c
      OBVIOUS
    <3> QED BY <1>2, <1>3, <3>1 DEF Fresh
  <2>2. streams'[c] = streams[c]
    BY <1>6, <1>7, <2>1
  <2>3. c \notin ToSet(engine')
    BY <1>2 DEF Fresh
  <2> QED BY <1>2, <2>1, <2>2, <2>3 DEF Fresh
<1>12. \A c \in ToSet(engine') : produced'[c] < MaxOutputs
  <2> SUFFICES ASSUME NEW c \in ToSet(engine') PROVE produced[c] < MaxOutputs
    BY <1>2
  <2>1. c \in Clients /\ (c \in ToSet(engine) \/ c \in ToSet(new_requests))
    BY <1>2, ViewTypes
  <2>2. c \in ToSet(new_requests) => produced[c] = 0
    BY <2>1 DEF View, Fresh
  <2> QED BY <2>1, <2>2, ViewTypes DEF View
<1>13. IsInjective(engine') /\ IsInjective(scheduled')
  <2>1. KeptSet \cap ToSet(engine) = {}
    BY <1>2, ViewTypes DEF View, Fresh
  <2> QED BY <1>1, <2>1 DEF Stepped, View
<1>14. \A id \in ReqIds : registered'[id] # NoStream => ReqOf[registered'[id]] = id
  BY <1>3, ViewTypes
<1>15. \A id \in finished_requests' : registered'[id] # NoStream => Ended(streams'[registered'[id]])
  <2> SUFFICES ASSUME NEW id \in IdsOf(invalid), registered'[id] # NoStream
               PROVE  Ended(streams'[registered'[id]])
    BY <1>2
  <2>1. id \in ReqIds
    BY <1>2, ViewTypes DEF IdsOf
  <2>2. registered'[id] \in Clients /\ ReqOf[registered'[id]] = id
    BY <1>3, <1>14, <2>1 DEF Tables
  <2> QED BY <1>6, <1>8, <2>2
<1>16. \A c \in Clients : pc'[c] = pc[c]
  BY <1>2 DEF client
<1>17. \A c \in Clients : pc'[c] \in {"idle", "tokenizing"} => Fresh(c)' /\ c \notin ToSet(new_requests')
  BY <1>2, <1>4, <1>11, <1>16 DEF View
<1>18. View'
  <2> HIDE DEF arrived
  <2>1. \A c \in Clients : c \notin ToSet(new_requests')
    BY <1>2, <1>4
  <2>2. IsInjective(new_requests')
    BY <1>2, <1>4
  <2> QED BY <1>2, <1>9, <1>12, <1>13, <1>14, <1>15, <1>17, <2>1, <2>2 DEF View
<1> QED BY <1>5, <1>10, <1>18

LEMMA ReturnsKeeps ==
  ASSUME TypeOK, View, PcMoves, ModelReturns
  PROVE  TypeOK' /\ View' /\ Gains
<1>1. PICK last \in SUBSET ToSet(scheduled) :
         /\ \A c \in ToSet(scheduled) : MustFinish(c) => c \in last
         /\ engine' = Without(engine, last)
         /\ streams' = Delivered(last).streams
         /\ finished_requests' = Delivered(last).finished
         /\ loop' = IF Delivered(last).dead THEN "done" ELSE AfterStep(scheduled)
         /\ callback' = Delivered(last).dead
  BY DEF ModelReturns
<1>2. /\ produced' = [c \in Clients |-> IF Contains(scheduled, c) THEN produced[c] + 1 ELSE produced[c]]
      /\ scheduled' = <<>>
      /\ UNCHANGED <<client, registered, new_requests, new_requests_event, errored>>
  BY DEF ModelReturns
<1> DEFINE out == Delivered(last)
<1>3. SoundSoFar(out)
  BY DeliveredIsSound
<1> HIDE DEF out
<1>4. out \in Outs /\ out.streams \in StreamSet /\ out.dead \in BOOLEAN /\ out.finished \subseteq ReqIds
  BY <1>3 DEF SoundSoFar, Outs
<1>5. /\ streams' = out.streams /\ finished_requests' = out.finished /\ callback' = out.dead
      /\ loop' = IF out.dead THEN "done" ELSE AfterStep(scheduled)
  BY <1>1 DEF out
<1>6. <<>> \in Seq(Clients) /\ ToSet(<<>>) = {} /\ IsInjective(<<>>)
  <2>1. <<>> \in Seq(Clients) /\ DOMAIN <<>> = {}
    OBVIOUS
  <2> QED BY <2>1, MembersFacts DEF IsInjective
<1>7. /\ engine' \in Seq(Clients) /\ ToSet(engine') = ToSet(engine) \ last
      /\ IsInjective(engine')
  <2>1. ToSet(engine) \cap (Clients \ last) = ToSet(engine) \ last
    BY ViewTypes
  <2> QED BY <1>1, <2>1, ViewTypes, SetOfSelect DEF Without, View
<1>8. /\ \A c \in Clients : produced'[c] = IF c \in ToSet(scheduled) THEN produced[c] + 1 ELSE produced[c]
      /\ produced' \in [Clients -> 0 .. MaxOutputs]
  <2>1. \A c \in Clients : Contains(scheduled, c) <=> c \in ToSet(scheduled)
    BY ViewTypes, MembersFacts
  <2>2. ASSUME NEW c \in Clients
        PROVE  /\ produced[c] \in 0 .. MaxOutputs
               /\ c \in ToSet(scheduled) => produced[c] + 1 \in 0 .. MaxOutputs
    <3>1. c \in ToSet(scheduled) => produced[c] < MaxOutputs
      BY DEF View
    <3> QED BY <3>1, ViewTypes
  <2> QED BY <1>2, <2>1, <2>2
<1>9. TypeOK'
  <2>1. loop' \in LoopStates
    BY <1>5 DEF LoopStates, AfterStep
  <2> QED BY <1>2, <1>4, <1>5, <1>6, <1>7, <1>8, <2>1 DEF TypeOK, PcMoves, StreamSet
<1>10. \A c \in Clients : Fresh(c) => Fresh(c)'
  <2> SUFFICES ASSUME NEW c \in Clients, Fresh(c) PROVE Fresh(c)'
    OBVIOUS
  <2>1. streams'[c] = streams[c]
    BY <1>3, <1>5 DEF Fresh, SoundSoFar
  <2>2. c \notin ToSet(scheduled) /\ c \notin ToSet(engine')
    BY <1>7 DEF Fresh, View
  <2> QED BY <1>2, <1>8, <2>1, <2>2 DEF Fresh
<1>11. \A c \in Clients : c \in ToSet(engine') => produced'[c] < MaxOutputs
  <2> SUFFICES ASSUME NEW c \in Clients, c \in ToSet(engine) \ last PROVE produced'[c] < MaxOutputs
    BY <1>7
  <2>1. produced[c] < MaxOutputs /\ produced[c] \in 0 .. MaxOutputs /\ MaxOutputs \in Nat
    BY ViewTypes DEF View
  <2>2. c \in ToSet(scheduled) => produced[c] + 1 # MaxOutputs
    BY <1>1 DEF MustFinish
  <2> QED BY <1>8, <2>1, <2>2
<1>12. \A c \in Clients : OneEnd(streams'[c])
  BY <1>3, <1>5 DEF SoundSoFar
<1>13. \A id \in finished_requests' : registered'[id] # NoStream => Ended(streams'[registered'[id]])
  BY <1>2, <1>3, <1>5 DEF SoundSoFar
<1>14. View'
  BY <1>2, <1>6, <1>7, <1>10, <1>11, <1>12, <1>13 DEF View, PcMoves
<1>15. Gains
  BY <1>3, <1>5 DEF Gains, SoundSoFar
<1> QED BY <1>9, <1>14, <1>15

LEMMA CallbackKeeps ==
  ASSUME TypeOK, View, PcMoves, Callback
  PROVE  TypeOK' /\ View' /\ Gains
<1> DEFINE s == FailAll(streams, registered, ReqIds)
           R == {id \in ReqIds : registered[id] # NoStream}
<1>1. /\ streams' = s /\ finished_requests' = finished_requests \cup R
      /\ callback' = FALSE /\ errored' = TRUE
      /\ UNCHANGED <<registered, new_requests, new_requests_event, loop, engine, scheduled, produced>>
  BY DEF Callback, PropagateException, backend
<1>2. /\ s \in StreamSet
      /\ \A c \in Clients : s[c] = IF registered[ReqOf[c]] = c THEN Grown(streams[c], "error") ELSE streams[c]
  BY ViewTypes, FailAllFacts
<1> HIDE DEF s
<1>3. R \subseteq ReqIds
  OBVIOUS
<1>4. TypeOK'
  BY <1>1, <1>2, <1>3 DEF TypeOK, PcMoves, StreamSet
<1>5. \A c \in Clients : Fresh(c) => Fresh(c)'
  BY <1>1, <1>2 DEF Fresh
<1>6. \A c \in Clients :
         /\ OneEnd(streams'[c]) /\ ToSet(streams[c]) \subseteq ToSet(streams'[c])
         /\ Ended(streams[c]) => streams'[c] = streams[c]
         /\ registered[ReqOf[c]] = c => Ended(streams'[c])
         /\ Ended(streams'[c]) /\ ~Ended(streams[c]) => "error" \in ToSet(streams'[c])
  <2> TAKE c \in Clients
  <2>1. streams[c] \in Seq(Items) /\ OneEnd(streams[c]) /\ "error" \in Items
    BY ViewTypes DEF Items
  <2> DEFINE g == Grown(streams[c], "error")
  <2>2. /\ OneEnd(g) /\ ToSet(streams[c]) \subseteq ToSet(g)
        /\ Ended(streams[c]) => g = streams[c]
        /\ Ended(g)
        /\ ~Ended(streams[c]) => "error" \in ToSet(g)
    BY <2>1, GrownFacts
  <2> HIDE DEF g
  <2>3. streams'[c] = IF registered[ReqOf[c]] = c THEN g ELSE streams[c]
    BY <1>1, <1>2 DEF g
  <2> QED BY <2>1, <2>2, <2>3
<1>7. \A id \in finished_requests' : registered'[id] # NoStream => Ended(streams'[registered'[id]])
  <2> SUFFICES ASSUME NEW id \in finished_requests', registered[id] # NoStream
               PROVE  Ended(streams'[registered[id]])
    BY <1>1
  <2>1. id \in ReqIds
    BY <1>1, <1>3, ViewTypes
  <2>2. registered[id] \in Clients /\ ReqOf[registered[id]] = id
    BY <2>1, ViewTypes
  <2> QED BY <1>6, <2>2
<1>8. View'
  BY <1>1, <1>5, <1>6, <1>7 DEF View, PcMoves
<1>9. Gains
  BY <1>6 DEF Gains
<1> QED BY <1>4, <1>8, <1>9

LEMMA StepsKeepView ==
  ASSUME TypeOK, View, [Next]_vars
  PROVE  TypeOK' /\ View' /\ Gains /\ PcMoves /\ Effect
<1>1. PcMoves /\ Effect
  BY Effects
<1>2. CASE Idles
  BY <1>1, <1>2, IdlesKeeps
<1>3. CASE Restarts
  BY <1>1, <1>3, RestartsKeeps
<1>4. ASSUME NEW c \in Clients, Queues(c) \/ GivesUp(c) PROVE TypeOK' /\ View' /\ Gains
  <2>1. CASE Queues(c)
    BY <1>1, <2>1, QueuesKeeps
  <2>2. CASE GivesUp(c)
    BY <1>1, <2>2, GivesUpKeeps
  <2> QED BY <1>4, <2>1, <2>2
<1>5. CASE EngineStep
  BY <1>1, <1>5, StepKeeps
<1>6. CASE ModelReturns
  BY <1>1, <1>6, ReturnsKeeps
<1>7. CASE Callback
  BY <1>1, <1>7, CallbackKeeps
<1> QED BY <1>1, <1>2, <1>3, <1>4, <1>5, <1>6, <1>7 DEF Effect

LEMMA InitView ==
  ASSUME Init
  PROVE  TypeOK /\ View
<1>1. <<>> \in Seq(Clients) /\ <<>> \in Seq(Items) /\ ToSet(<<>>) = {} /\ IsInjective(<<>>)
      /\ DOMAIN <<>> = {}
  <2>1. <<>> \in Seq(Clients) /\ <<>> \in Seq(Items) /\ DOMAIN <<>> = {}
    OBVIOUS
  <2> QED BY <2>1, MembersFacts DEF IsInjective
<1>2. TypeOK
  <2>1. /\ pc \in [Clients -> ClientStates] /\ streams \in [Clients -> Seq(Items)]
        /\ read \in [Clients -> Nat] /\ registered \in [ReqIds -> Clients \cup {NoStream}]
        /\ produced \in [Clients -> 0 .. MaxOutputs]
    <3>1. 0 \in 0 .. MaxOutputs /\ "idle" \in ClientStates
      BY DEF ClientStates
    <3> QED BY <1>1, <3>1 DEF Init
  <2>2. /\ aborted = {} /\ new_requests = <<>> /\ finished_requests = {}
        /\ new_requests_event = FALSE /\ callback = FALSE /\ errored = FALSE
        /\ engine = <<>> /\ scheduled = <<>> /\ loop \in LoopStates
    BY DEF Init, LoopStates
  <2> QED BY <1>1, <2>1, <2>2 DEF TypeOK
<1>3. \A c \in Clients : streams[c] = <<>> /\ produced[c] = 0 /\ registered[ReqOf[c]] = NoStream
  BY DEF Init
<1>4. /\ new_requests = <<>> /\ engine = <<>> /\ scheduled = <<>> /\ finished_requests = {}
      /\ \A id \in ReqIds : registered[id] = NoStream
  BY DEF Init
<1>5. OneEnd(<<>>)
  BY <1>1 DEF OneEnd
<1>6. View
  BY <1>1, <1>3, <1>4, <1>5 DEF View, Fresh
<1> QED BY <1>2, <1>6

-----------------------------------------------------------------------------
\* The type invariant and the single ending of a stream, for any assignment of
\* request ids and any faults: no call and no order of calls ends a stream
\* twice, or puts anything behind its end (AsyncStream, RequestTracker).
THEOREM StreamsEndOnce == Spec => [](TypeOK /\ OneEnding)
<1>1. Init => TypeOK /\ View
  BY InitView
<1>2. TypeOK /\ View /\ [Next]_vars => TypeOK' /\ View'
  BY StepsKeepView
<1>3. TypeOK /\ View => TypeOK /\ OneEnding
  BY ViewIs
<1> QED BY <1>1, <1>2, <1>3, PTL DEF Spec

-----------------------------------------------------------------------------
\* Why a stream has ended.  The id of a call that is not queued yet is not one
\* that the tracker is about to drop.

Reasons ==
  /\ \A c \in Clients :
        /\ Ended(streams[c]) =>
              \/ "final" \in ToSet(streams[c]) \/ "error" \in ToSet(streams[c])
              \/ c \in aborted \/ pc[c] = "cancelled"
        /\ c \in ToSet(new_requests) /\ ReqOf[c] \in finished_requests =>
              c \in aborted \/ pc[c] = "cancelled"
        /\ pc[c] \in {"idle", "tokenizing"} => ReqOf[c] \notin finished_requests

LEMMA ReasonsAre == TypeOK /\ View /\ Reasons => StreamsInv
<1> SUFFICES ASSUME TypeOK, View, Reasons PROVE StreamsInv
  OBVIOUS
<1>1. OneEnding /\ Routed /\ Closed
  BY ViewIs
<1>2. /\ streams \in StreamSet
      /\ \A c \in Clients : Contains(new_requests, c) <=> c \in ToSet(new_requests)
  BY ViewTypes, MembersFacts
<1>3. NoSilentEnd
  BY <1>2, FinishedIsEnded DEF NoSilentEnd, Reasons
<1>4. DroppedWereGivenUp
  BY <1>2 DEF DroppedWereGivenUp, Reasons
<1> QED BY <1>1, <1>3, <1>4 DEF StreamsInv

LEMMA StepsKeepReasons ==
  ASSUME UniqueIds, TypeOK, View, Reasons, [Next]_vars
  PROVE  Reasons'
<1>g. View' /\ Gains /\ PcMoves /\ Effect
  BY StepsKeepView
<1>u. \A c, d \in Clients : ReqOf[c] = ReqOf[d] => c = d
  BY DEF UniqueIds
<1>m. \A c \in Clients : c \in aborted \/ pc[c] = "cancelled" => c \in aborted' \/ pc'[c] = "cancelled"
  BY <1>g DEF PcMoves
<1>1. ASSUME NEW c \in Clients, Ended(streams'[c])
      PROVE  \/ "final" \in ToSet(streams'[c]) \/ "error" \in ToSet(streams'[c])
             \/ c \in aborted' \/ pc'[c] = "cancelled"
  <2>1. CASE Ended(streams[c])
    BY <1>g, <1>m, <2>1 DEF Gains, Reasons
  <2>2. CASE ~Ended(streams[c])
    <3>1. /\ ToSet(streams[c]) \subseteq ToSet(streams'[c])
          /\ \/ "final" \in ToSet(streams'[c]) \/ "error" \in ToSet(streams'[c])
             \/ \E d \in Clients : GivesUp(d) /\ ReqOf[d] = ReqOf[c]
             \/ c \in ToSet(new_requests) /\ ReqOf[c] \in finished_requests
      BY <1>g, <1>1, <2>2 DEF Gains
    <3>2. CASE \E d \in Clients : GivesUp(d) /\ ReqOf[d] = ReqOf[c]
      <4>1. GivesUp(c)
        BY <1>u, <3>2
      <4> QED BY <3>1, <4>1 DEF GivesUp
    <3>3. CASE c \in ToSet(new_requests) /\ ReqOf[c] \in finished_requests
      BY <1>m, <3>3 DEF Reasons
    <3> QED BY <3>1, <3>2, <3>3
  <2> QED BY <2>1, <2>2
\* No call that is new or queued gets its id into finished_requests, unless it
\* is given up.
<1> DEFINE New(c) == pc[c] \in {"idle", "tokenizing"}
           Other(c) ==
             /\ c \in ToSet(new_requests') /\ ReqOf[c] \in finished_requests' =>
                   c \in aborted' \/ pc'[c] = "cancelled"
             /\ pc'[c] \in {"idle", "tokenizing"} => ReqOf[c] \notin finished_requests'
<1>f. \A c \in Clients : New(c) \/ c \in ToSet(new_requests) => Fresh(c)
  BY DEF View
<1>n. \A c \in Clients : pc'[c] \in {"idle", "tokenizing"} => New(c)
  BY <1>g DEF PcMoves
<1>k. ASSUME NEW c \in Clients, ReqOf[c] \in finished_requests' => ReqOf[c] \in finished_requests,
             c \in ToSet(new_requests') => c \in ToSet(new_requests)
      PROVE  Other(c)
  BY <1>k, <1>m, <1>n DEF Reasons
<1>2. ASSUME Idles, NEW c \in Clients PROVE Other(c)
  <2> HIDE DEF Other
  <2>1. finished_requests' = finished_requests /\ new_requests' = new_requests
    BY <1>2 DEF Idles
  <2> QED BY <1>k, <2>1
<1>3. ASSUME Restarts, NEW c \in Clients PROVE Other(c)
  <2>1. finished_requests' = {}
    BY <1>3 DEF Restarts
  <2> QED BY <2>1
<1>4. ASSUME NEW d \in Clients, Queues(d), NEW c \in Clients PROVE Other(c)
  <2>1. finished_requests' = finished_requests /\ pc[d] = "tokenizing"
        /\ new_requests' = Append(new_requests, d)
    BY <1>4 DEF Queues
  <2>2. ToSet(new_requests') = ToSet(new_requests) \cup {d}
    BY <2>1, ViewTypes, SetOfAppend
  <2>3. ReqOf[d] \notin finished_requests
    BY <2>1 DEF Reasons
  <2>4. CASE c = d
    BY <1>n, <2>1, <2>3, <2>4
  <2>5. CASE c # d
    <3> HIDE DEF Other
    <3> QED BY <1>k, <2>1, <2>2, <2>5
  <2> QED BY <2>4, <2>5
<1>5. ASSUME NEW d \in Clients, GivesUp(d), NEW c \in Clients PROVE Other(c)
  <2>1. /\ finished_requests' = finished_requests \cup {ReqOf[d]} /\ new_requests' = new_requests
        /\ pc[d] \in {"reading", "ended"}
        /\ d \in aborted' \/ pc'[d] = "cancelled" \/ "error" \in ToSet(streams[d])
    BY <1>5 DEF GivesUp, AbortRequest
  <2>2. CASE c = d
    <3>1. d \in ToSet(new_requests) => "error" \notin ToSet(streams[d])
      <4>1. d \in ToSet(new_requests) => streams[d] = <<>>
        BY <1>f DEF Fresh
      <4> QED BY <4>1, ViewTypes, MembersFacts
    <3>2. ~New(d)
      BY <2>1
    <3> HIDE DEF New
    <3> QED BY <1>n, <2>1, <2>2, <3>1, <3>2
  <2>3. CASE c # d
    <3>1. ReqOf[c] # ReqOf[d]
      BY <1>u, <2>3
    <3> HIDE DEF Other
    <3> QED BY <1>k, <2>1, <3>1
  <2> QED BY <2>2, <2>3
<1>6. ASSUME EngineStep, NEW c \in Clients PROVE Other(c)
  <2>1. PICK invalid, gone : Stepped(invalid, gone)
    BY <1>6, EngineSteps
  <2>2. /\ invalid \subseteq ToSet(new_requests) /\ new_requests' = <<>>
        /\ finished_requests' = IdsOf(invalid)
    BY <2>1 DEF Stepped, KeptSet
  <2>3. c \notin ToSet(new_requests')
    <3>1. <<>> \in Seq(Clients)
      OBVIOUS
    <3> QED BY <2>2, <3>1, MembersFacts
  <2>4. New(c) => ReqOf[c] \notin IdsOf(invalid)
    <3> SUFFICES ASSUME New(c), NEW d \in invalid, ReqOf[c] = ReqOf[d] PROVE FALSE
      BY DEF IdsOf
    <3>1. c = d
      BY <1>u, <2>2, ViewTypes
    <3> QED BY <2>2, <3>1 DEF View
  <2> HIDE DEF New
  <2> QED BY <1>n, <2>2, <2>3, <2>4
<1>7. ASSUME ModelReturns, NEW c \in Clients PROVE Other(c)
  <2>1. PICK last : finished_requests' = Delivered(last).finished
    BY <1>7 DEF ModelReturns
  <2>2. new_requests' = new_requests
    BY <1>7 DEF ModelReturns
  <2>3. \A id \in finished_requests' : id \in finished_requests \/ id \in IdsOf(ToSet(scheduled))
    BY <2>1, DeliveredIsSound DEF SoundSoFar
  <2>4. ReqOf[c] \in IdsOf(ToSet(scheduled)) => ~Fresh(c)
    <3> SUFFICES ASSUME NEW d \in ToSet(scheduled), ReqOf[c] = ReqOf[d] PROVE ~Fresh(c)
      BY DEF IdsOf
    <3>1. c = d
      BY <1>u, ViewTypes
    <3> QED BY <3>1 DEF View, Fresh
  <2>5. CASE Fresh(c)
    <3> HIDE DEF Other
    <3> QED BY <1>k, <2>2, <2>3, <2>4, <2>5
  <2>6. CASE ~Fresh(c)
    <3>1. ~New(c) /\ c \notin ToSet(new_requests)
      BY <1>f, <2>6
    <3> HIDE DEF New
    <3> QED BY <1>n, <2>2, <3>1
  <2> QED BY <2>5, <2>6
<1>8. ASSUME Callback, NEW c \in Clients PROVE Other(c)
  <2>1. /\ new_requests' = new_requests
        /\ finished_requests' = finished_requests \cup {id \in ReqIds : registered[id] # NoStream}
    BY <1>8 DEF Callback
  <2>2. registered[ReqOf[c]] # NoStream => ~Fresh(c)
    <3> SUFFICES ASSUME registered[ReqOf[c]] # NoStream PROVE ~Fresh(c)
      OBVIOUS
    <3>1. registered[ReqOf[c]] \in Clients /\ ReqOf[registered[ReqOf[c]]] = ReqOf[c]
      BY ViewTypes
    <3>2. registered[ReqOf[c]] = c
      BY <1>u, <3>1
    <3> QED BY <3>2 DEF Fresh
  <2>3. CASE Fresh(c)
    <3> HIDE DEF Other
    <3> QED BY <1>k, <2>1, <2>2, <2>3
  <2>4. CASE ~Fresh(c)
    <3>1. ~New(c) /\ c \notin ToSet(new_requests)
      BY <1>f, <2>4
    <3> HIDE DEF New
    <3> QED BY <1>n, <2>1, <3>1
  <2> QED BY <2>3, <2>4
<1>9. \A c \in Clients : Other(c)
  <2> HIDE DEF Other
  <2> QED BY <1>g, <1>2, <1>3, <1>4, <1>5, <1>6, <1>7, <1>8 DEF Effect
<1> QED BY <1>1, <1>9 DEF Reasons

LEMMA InitReasons ==
  ASSUME Init
  PROVE  Reasons
<1>1. <<>> \in Seq(Clients) /\ <<>> \in Seq(Items)
  OBVIOUS
<1>2. ToSet(<<>>) = {}
  BY <1>1, MembersFacts
<1> QED BY <1>2 DEF Init, Reasons, Ended

\* Every stream ends once, with a last output or an error unless its request
\* was given up; it is registered under the id of its own call, and one the
\* tracker forgets is closed (async_llm_engine.py, RequestTracker).
THEOREM StreamsAreSound == ASSUME UniqueIds PROVE Spec => []StreamsInv
<1>1. Init => TypeOK /\ View /\ Reasons
  BY InitView, InitReasons
<1>2. TypeOK /\ View /\ Reasons /\ [Next]_vars => TypeOK' /\ View' /\ Reasons'
  BY StepsKeepView, StepsKeepReasons
<1>3. TypeOK /\ View /\ Reasons => StreamsInv
  BY ReasonsAre
<1> QED BY <1>1, <1>2, <1>3, PTL DEF Spec

-----------------------------------------------------------------------------
\* The groups in the engine and the open streams correspond, when ids are
\* unique and the loop is not restarted after a fault.

LEMMA CountIs ==
  ASSUME NEW t \in Seq(Items), OneEnd(t), NEW x \in Items
  PROVE  /\ Count(Grown(t, x)) \in Nat /\ Count(t) \in Nat
         /\ Count(Grown(t, x)) <= Count(t) + CountOf(x)
         /\ ~Ended(t) => Count(Grown(t, x)) = Count(t) + CountOf(x)
         /\ CountOf(x) \in {0, 1} /\ (x \in {"stop", "error"} => CountOf(x) = 0)
<1>1. CountOf(x) \in {0, 1} /\ (x \in {"stop", "error"} => CountOf(x) = 0)
  BY DEF CountOf
<1>2. Count(t) \in Nat /\ (Ended(t) => Grown(t, x) = t)
      /\ (~Ended(t) => Count(Grown(t, x)) = Count(t) + CountOf(x))
  BY GrownFacts
<1> QED BY <1>1, <1>2

\* When every scheduled group is registered, each gets its output.
LEMMA DeliveredToAll ==
  ASSUME TypeOK, View, NEW last \in SUBSET ToSet(scheduled),
         \A c \in ToSet(scheduled) : registered[ReqOf[c]] = c
  PROVE  /\ ~Delivered(last).dead
         /\ \A c \in Clients :
               Delivered(last).streams[c] =
                  IF c \in ToSet(scheduled) THEN Grown(streams[c], ItemOf(c, last)) ELSE streams[c]
<1> DEFINE n == Len(scheduled)
           Had(i, c) == \E j \in 1 .. i : scheduled[j] = c
           P(out, i) ==
             /\ ~out.dead
             /\ \A c \in Clients : out.streams[c] = IF Had(i, c) THEN Grown(streams[c], ItemOf(c, last))
                                                    ELSE streams[c]
<1>1. PICK out : Delivers(out, last)
  BY DeliveredDef
<1>2. /\ n \in Nat /\ \A i \in 1 .. n : scheduled[i] \in ToSet(scheduled) /\ scheduled[i] \in Clients
      /\ \A c : c \in ToSet(scheduled) <=> \E j \in 1 .. n : scheduled[j] = c
      /\ \A i, j \in 1 .. n : scheduled[i] = scheduled[j] => i = j
  <2>1. scheduled \in Seq(Clients) /\ DOMAIN scheduled = 1 .. n /\ n \in Nat
    BY ViewTypes
  <2>2. \A i, j \in 1 .. n : scheduled[i] = scheduled[j] => i = j
    BY <2>1 DEF View, IsInjective
  <2> QED BY <2>1, <2>2, MembersFacts
<1>3. P(out[0], 0)
  <2>1. out[0] = First
    BY <1>1 DEF Delivers
  <2>2. First.streams = streams /\ First.dead = FALSE
    BY DEF First
  <2>3. \A c : ~Had(0, c)
    OBVIOUS
  <2> QED BY <2>1, <2>2, <2>3
<1> DEFINE A == {i \in 0 .. n : P(out[i], i)}
<1>4. ASSUME NEW i \in A, i < n PROVE i + 1 \in A
  <2> DEFINE k == i + 1
             x == scheduled[k]
  <2>1. k \in 1 .. n /\ k - 1 = i /\ k \in 0 .. n /\ i \in 0 .. n
    BY <1>2, <1>4
  <2>2. Delivery(out[k - 1], out[k], x, last)
    BY <1>1, <2>1 DEF Delivers
  <2>3. Delivery(out[i], out[k], x, last)
    BY <2>1, <2>2
  <2>4. P(out[i], i)
    OBVIOUS
  <2>5. x \in Clients /\ registered[ReqOf[x]] = x /\ x # NoStream
    BY <1>2, <2>1
  <2>6. /\ out[k].dead = FALSE
        /\ \A e \in Clients : out[k].streams[e] = IF e = x THEN Grown(out[i].streams[e], ItemOf(x, last))
                                                  ELSE out[i].streams[e]
    BY <2>3, <2>4, <2>5 DEF Delivery
  <2>7. ~Had(i, x)
    <3> SUFFICES ASSUME NEW j \in 1 .. i, scheduled[j] = x PROVE FALSE
      OBVIOUS
    <3>1. j \in 1 .. n /\ j # k
      BY <1>2, <2>1
    <3> QED BY <1>2, <2>1, <3>1
  <2>8. \A c : Had(k, c) <=> Had(i, c) \/ c = x
    <3>1. \A j : j \in 1 .. k <=> j \in 1 .. i \/ j = k
      BY <2>1
    <3> QED BY <3>1
  <2> HIDE DEF Had, x, k
  <2>9. \A c \in Clients : out[k].streams[c] = IF Had(k, c) THEN Grown(streams[c], ItemOf(c, last))
                                               ELSE streams[c]
    BY <2>4, <2>6, <2>7, <2>8
  <2>10. P(out[k], k)
    BY <2>6, <2>9
  <2>11. k \in A
    BY <2>1, <2>10
  <2> QED BY <2>11 DEF k
<1>5. A = 0 .. n
  <2> HIDE DEF n, P
  <2>1. A \in SUBSET (0 .. n) /\ 0 \in A
    BY <1>2, <1>3
  <2> HIDE DEF A
  <2> QED BY <1>2, <1>4, <2>1, UpToInductive
<1>6. P(out[n], n)
  <2> HIDE DEF P
  <2>1. n \in A
    BY <1>2, <1>5
  <2> QED BY <2>1
<1>7. Delivered(last) = out[n]
  BY <1>1 DEF Delivers
<1> QED BY <1>2, <1>6, <1>7

\* What engine_step does for one call.
StepOn(c, invalid) ==
  /\ c \in KeptSet =>
        /\ registered'[ReqOf[c]] = c
        /\ streams'[c] = IF c \in invalid THEN Grown(streams[c], "error") ELSE streams[c]
  /\ c \in ToSet(new_requests) \ KeptSet =>
        streams'[c] = Grown(streams[c], "stop") /\ registered'[ReqOf[c]] = NoStream
  /\ c \notin ToSet(new_requests) =>
        /\ streams'[c] = streams[c]
        /\ registered'[ReqOf[c]] = IF ReqOf[c] \in finished_requests THEN NoStream ELSE registered[ReqOf[c]]
  /\ c \in ToSet(engine') <=>
        /\ c \in ToSet(engine) \/ c \in KeptSet \ invalid
        /\ ReqOf[c] \notin finished_requests

LEMMA StepsOn ==
  ASSUME UniqueIds, TypeOK, View, NEW invalid, NEW gone, Stepped(invalid, gone), NEW c \in Clients
  PROVE  StepOn(c, invalid)
<1> DEFINE id == ReqOf[c]
           arrived == ToSet(engine) \cup (KeptSet \ invalid)
<1>u. \A d, e \in Clients : ReqOf[d] = ReqOf[e] => d = e
  BY DEF UniqueIds
<1>1. /\ invalid \subseteq KeptSet /\ KeptSet \subseteq ToSet(new_requests)
      /\ KeptSet \subseteq Clients /\ arrived \subseteq Clients
  BY ViewTypes DEF Stepped, KeptSet
<1>2. id \in IdsOf(invalid) <=> c \in invalid
  BY <1>u, <1>1 DEF IdsOf
<1>3. id \in IdsOf(KeptSet) <=> c \in KeptSet
  BY <1>u, <1>1 DEF IdsOf
<1>4. \/ c \in KeptSet /\ registered'[id] = c
      \/ c \notin KeptSet /\ registered'[id] = IF id \in finished_requests THEN NoStream ELSE registered[id]
  <2>1. \/ \E d \in KeptSet : ReqOf[d] = id /\ registered'[id] = d
        \/ /\ id \notin IdsOf(KeptSet)
           /\ registered'[id] = IF id \in finished_requests THEN NoStream ELSE registered[id]
    BY DEF Stepped, Registers
  <2> QED BY <1>u, <1>1, <1>3, <2>1
<1>5. streams'[c] = IF id \in IdsOf(invalid) /\ registered'[id] = c
                    THEN Grown(ClosedIfDropped(c), "error") ELSE ClosedIfDropped(c)
  BY DEF Stepped
<1>6. ClosedIfDropped(c) = IF c \in ToSet(new_requests) \ KeptSet THEN Grown(streams[c], "stop")
                           ELSE streams[c]
  <2>1. CASE c \in ToSet(new_requests) \ KeptSet
    <3>1. streams[c] = <<>> /\ streams[c] \in Seq(Items)
      BY <2>1, ViewTypes DEF View, Fresh
    <3>2. ~Ended(streams[c])
      BY <3>1, MembersFacts DEF Ended
    <3> QED BY <2>1, <3>2, GrownIs DEF ClosedIfDropped
  <2>2. CASE c \notin ToSet(new_requests) \ KeptSet
    BY <2>2 DEF ClosedIfDropped
  <2> QED BY <2>1, <2>2
<1>7. c \in ToSet(engine') <=> c \in arrived /\ id \notin finished_requests
  <2>1. /\ gone \subseteq {d \in arrived : ReqOf[d] \in finished_requests}
        /\ \A i \in finished_requests \cap IdsOf(arrived) : \E d \in gone : ReqOf[d] = i
        /\ ToSet(engine') = arrived \ gone
    BY DEF Stepped
  <2>2. c \in arrived /\ id \in finished_requests => c \in gone
    <3> SUFFICES ASSUME c \in arrived, id \in finished_requests PROVE c \in gone
      OBVIOUS
    <3>1. id \in IdsOf(arrived)
      BY DEF IdsOf
    <3>2. PICK d \in gone : ReqOf[d] = id
      BY <2>1, <3>1
    <3> QED BY <1>u, <1>1, <2>1, <3>2
  <2> QED BY <2>1, <2>2
<1>8. c \in ToSet(new_requests) \ KeptSet => id \in finished_requests
  BY DEF KeptSet
<1> HIDE DEF id
<1>9. /\ c \in KeptSet => streams'[c] = IF c \in invalid THEN Grown(streams[c], "error") ELSE streams[c]
      /\ c \in ToSet(new_requests) \ KeptSet => streams'[c] = Grown(streams[c], "stop")
      /\ c \notin ToSet(new_requests) => streams'[c] = streams[c]
  BY <1>1, <1>2, <1>4, <1>5, <1>6
<1>10. /\ c \in KeptSet => registered'[id] = c
       /\ c \in ToSet(new_requests) \ KeptSet => registered'[id] = NoStream
       /\ c \notin ToSet(new_requests) => registered'[id] = IF id \in finished_requests THEN NoStream
                                                             ELSE registered[id]
  BY <1>1, <1>4, <1>8
<1> QED BY <1>7, <1>9, <1>10 DEF StepOn, id

\* EngineInv on the sets of the queues, with the setup it is about.

HasOpen(c) ==
  /\ c \in ToSet(engine) => registered[ReqOf[c]] = c
  /\ registered[ReqOf[c]] = c /\ ~Ended(streams[c]) => c \in ToSet(engine)

LoopFacts ==
  /\ loop = "idle" => /\ StartEngineLoop /\ engine = <<>> /\ new_requests = <<>>
                      /\ \A c \in Clients : pc[c] = "idle"
  /\ loop = "exec" => scheduled # <<>>
  /\ callback \/ errored => loop = "done"
  /\ Faults = {} => loop # "done"
  /\ MayScheduleNone \/ (loop \in {"wait", "blocked"} => engine = <<>>)

Matched ==
  /\ setup \in Setups
  /\ IsRunning => \A c \in Clients : HasOpen(c)
  /\ \A c \in Clients :
        pc[c] = "reading" /\ ~Ended(streams[c]) => c \in ToSet(new_requests) \/ registered[ReqOf[c]] = c
  /\ \A c \in Clients : Count(streams[c]) <= produced[c]
  /\ LoopFacts

LEMMA MatchedIs ==
  TypeOK /\ View /\ Matched => (~MayScheduleNone => EngineInv)
<1> SUFFICES ASSUME TypeOK, View, Matched, ~MayScheduleNone PROVE EngineInv
  OBVIOUS
<1>1. /\ \A c \in Clients : Contains(new_requests, c) <=> c \in ToSet(new_requests)
      /\ \A c \in Clients : Contains(engine, c) <=> c \in ToSet(engine)
      /\ \A c \in Clients : Finished(streams, c) <=> Ended(streams[c])
  BY ViewTypes, MembersFacts, FinishedIsEnded
<1>2. EngineMatchesStreams
  <2> SUFFICES ASSUME IsRunning
               PROVE  /\ \A c \in ToSet(engine) : registered[ReqOf[c]] = c
                      /\ \A id \in ReqIds :
                            registered[id] # NoStream /\ ~Finished(streams, registered[id])
                               => Contains(engine, registered[id])
    BY DEF EngineMatchesStreams
  <2>1. \A c \in Clients : HasOpen(c)
    BY DEF Matched
  <2> QED BY <1>1, <2>1, ViewTypes DEF HasOpen
<1>3. ReadersAreKnown
  BY <1>1 DEF ReadersAreKnown, Matched
<1>4. OutputsCounted
  BY DEF OutputsCounted, Outputs, Count, Matched
<1>5. SleepsOnlyWhenIdle /\ EngineSurvives /\ LoopInv
  BY DEF Matched, LoopFacts, SleepsOnlyWhenIdle, EngineSurvives, LoopInv
<1>6. ErroredIsStopped
  BY DEF Matched, LoopFacts, ErroredIsStopped, IsRunning
<1> QED BY <1>2, <1>3, <1>4, <1>5, <1>6 DEF EngineInv

LEMMA InitMatched ==
  ASSUME Init
  PROVE  Matched
<1>1. <<>> \in Seq(Clients) /\ <<>> \in Seq(Items)
  OBVIOUS
<1>2. ToSet(<<>>) = {}
  BY <1>1, MembersFacts
<1>3. Count(<<>>) = 0
  BY SelectOfNone DEF Count
<1>4. engine = <<>> /\ \A c \in Clients : HasOpen(c)
  BY <1>2 DEF Init, HasOpen
<1>5. \A c \in Clients : pc[c] = "idle" /\ Count(streams[c]) = 0 /\ produced[c] = 0
  BY <1>3 DEF Init
<1>6. LoopFacts
  BY DEF Init, LoopFacts
<1>7. setup \in Setups
  BY DEF Init
<1> QED BY <1>4, <1>5, <1>6, <1>7 DEF Matched

\* Putting an error or the end counts no output and reopens no stream.
LEMMA ClosingCounts ==
  ASSUME TypeOK, View, NEW c \in Clients, NEW x \in {"stop", "error"}
  PROVE  /\ Count(Grown(streams[c], x)) <= Count(streams[c])
         /\ Ended(Grown(streams[c], x))
         /\ Count(streams[c]) \in Nat /\ Count(Grown(streams[c], x)) \in Nat
<1>1. streams[c] \in Seq(Items) /\ OneEnd(streams[c]) /\ x \in Items /\ x # "output"
  BY ViewTypes DEF Items
<1>2. Count(Grown(streams[c], x)) <= Count(streams[c]) + CountOf(x) /\ CountOf(x) = 0
      /\ Count(streams[c]) \in Nat /\ Count(Grown(streams[c], x)) \in Nat
  BY <1>1, CountIs
<1>3. Ended(Grown(streams[c], x))
  BY <1>1, GrownFacts
<1> QED BY <1>2, <1>3

LEMMA GivenUpStreams ==
  ASSUME TypeOK, View, NEW d \in Clients, GivesUp(d), NEW c \in Clients
  PROVE  streams'[c] = IF registered[ReqOf[d]] = c THEN Grown(streams[c], "stop") ELSE streams[c]
<1>1. streams' = AbortStream(streams, registered, ReqOf[d])
  BY DEF GivesUp, AbortRequest
<1> QED BY <1>1, ViewTypes, AbortFacts

LEMMA FailedStreams ==
  ASSUME TypeOK, View, Callback, NEW c \in Clients
  PROVE  streams'[c] = IF registered[ReqOf[c]] = c THEN Grown(streams[c], "error") ELSE streams[c]
<1>1. streams' = FailAll(streams, registered, ReqIds)
  BY DEF Callback, PropagateException
<1> QED BY <1>1, ViewTypes, FailAllFacts

\* While the loop runs, a step puts one output into the stream of each
\* scheduled group, and the loop goes on.
Returned(last) ==
  /\ last \subseteq ToSet(scheduled) /\ scheduled # <<>>
  /\ \A c \in ToSet(scheduled) : registered[ReqOf[c]] = c
  /\ \A c \in Clients :
        /\ streams'[c] = IF c \in ToSet(scheduled) THEN Grown(streams[c], ItemOf(c, last)) ELSE streams[c]
        /\ produced'[c] = IF c \in ToSet(scheduled) THEN produced[c] + 1 ELSE produced[c]
        /\ c \in ToSet(engine') <=> c \in ToSet(engine) /\ c \notin last
  /\ loop' = "step" /\ callback' = FALSE
  /\ UNCHANGED <<client, registered, new_requests, errored>>

LEMMA ReturnsToAll ==
  ASSUME TypeOK, View, Matched, ModelReturns
  PROVE  \E last : Returned(last)
<1>1. PICK last \in SUBSET ToSet(scheduled) :
         /\ engine' = Without(engine, last)
         /\ streams' = Delivered(last).streams
         /\ loop' = IF Delivered(last).dead THEN "done" ELSE AfterStep(scheduled)
         /\ callback' = Delivered(last).dead
  BY DEF ModelReturns
<1>2. /\ produced' = [c \in Clients |-> IF Contains(scheduled, c) THEN produced[c] + 1 ELSE produced[c]]
      /\ UNCHANGED <<client, registered, new_requests, errored>> /\ loop = "exec"
  BY DEF ModelReturns
<1>3. \A c \in ToSet(scheduled) : c \in Clients /\ c \in ToSet(engine) /\ registered[ReqOf[c]] = c
  BY <1>2, ViewTypes DEF View, Matched, HasOpen, IsRunning
<1>4. /\ ~Delivered(last).dead /\ Delivered(last).dead \in BOOLEAN
      /\ \A c \in Clients :
            streams'[c] = IF c \in ToSet(scheduled) THEN Grown(streams[c], ItemOf(c, last)) ELSE streams[c]
  <2>1. Delivered(last) \in Outs
    BY DeliveredIsSound DEF SoundSoFar
  <2> QED BY <1>1, <1>3, <2>1, DeliveredToAll DEF Outs
<1>5. scheduled # <<>> /\ Len(scheduled) > 0
  <2>1. scheduled # <<>> /\ scheduled \in Seq(Clients)
    BY <1>2, ViewTypes DEF Matched, LoopFacts
  <2> QED BY <2>1
<1>6. loop' = "step" /\ callback' = FALSE
  BY <1>1, <1>4, <1>5 DEF AfterStep
<1>7. \A c \in Clients : produced'[c] = IF c \in ToSet(scheduled) THEN produced[c] + 1 ELSE produced[c]
  BY <1>2, ViewTypes, MembersFacts
<1>8. \A c \in Clients : c \in ToSet(engine') <=> c \in ToSet(engine) /\ c \notin last
  <2>1. ToSet(engine') = ToSet(engine) \cap (Clients \ last)
    BY <1>1, ViewTypes, SetOfSelect DEF Without
  <2> QED BY <2>1
<1>9. Returned(last)
  BY <1>2, <1>3, <1>4, <1>5, <1>6, <1>7, <1>8 DEF Returned
<1> QED BY <1>9

LEMMA StepsKeepMatched ==
  ASSUME UniqueIds, NoRestart, TypeOK, View, Matched, [Next]_vars
  PROVE  Matched'
<1>g. TypeOK' /\ View' /\ Gains /\ PcMoves /\ Effect
  BY StepsKeepView
<1>m. /\ setup \in Setups /\ setup' = setup /\ LoopFacts
      /\ IsRunning => \A c \in Clients : HasOpen(c)
      /\ \A c \in Clients :
            pc[c] = "reading" /\ ~Ended(streams[c]) => c \in ToSet(new_requests) \/ registered[ReqOf[c]] = c
      /\ \A c \in Clients : Count(streams[c]) <= produced[c]
  BY <1>g DEF Matched, PcMoves
<1>e. \A c \in Clients : ~Ended(streams'[c]) => ~Ended(streams[c])
  BY <1>g DEF Gains
<1>c. \A c \in Clients : Count(streams[c]) \in Nat /\ produced[c] \in Nat
  BY ClosingCounts, ViewTypes
<1> DEFINE Known(c) == pc'[c] = "reading" /\ ~Ended(streams'[c])
                          => c \in ToSet(new_requests') \/ registered'[ReqOf[c]] = c
<1>1. CASE Idles
  <2>1. UNCHANGED <<streams, registered, new_requests, engine, produced>>
        /\ \A c \in Clients : pc'[c] = "reading" => pc[c] = "reading"
    BY <1>1 DEF Idles
  <2>2. IsRunning' => IsRunning
    BY <1>1 DEF Idles, IsRunning
  <2>3. \A c \in Clients : HasOpen(c)' <=> HasOpen(c)
    BY <2>1 DEF HasOpen
  <2>4. LoopFacts'
    <3>1. CASE UNCHANGED <<loop, callback, errored, scheduled>>
      <4>1. loop = "idle" => pc' = pc
        BY <1>1, <1>m DEF Idles, LoopFacts, MayStartLoop
      <4> QED BY <1>m, <2>1, <3>1, <4>1 DEF LoopFacts, StartEngineLoop, Faults
    <3>2. CASE /\ loop \in {"wait", "blocked"} /\ loop' \in {"blocked", "step"}
               /\ UNCHANGED <<callback, errored, scheduled>>
      BY <1>m, <2>1, <3>2 DEF LoopFacts
    <3>3. CASE loop = "exec" /\ loop' = "done" /\ Faults # {}
      BY <1>m, <3>3 DEF LoopFacts, Faults
    <3> QED BY <1>1, <3>1, <3>2, <3>3 DEF Idles
  <2> QED BY <1>m, <2>1, <2>2, <2>3, <2>4 DEF Matched
<1>2. CASE Restarts
  <2>1. loop = "idle"
    <3>1. StartEngineLoop /\ loop \in {"idle", "done"}
      BY <1>2 DEF Restarts, MayStartLoop
    <3>2. Faults = {}
      BY <1>m, <3>1 DEF NoRestart, StartEngineLoop, Faults
    <3> QED BY <1>m, <3>1, <3>2 DEF LoopFacts
  <2>2. /\ registered' = [id \in ReqIds |-> NoStream] /\ loop' = "wait"
        /\ UNCHANGED <<streams, callback, errored, engine, produced>>
        /\ \A c \in Clients : pc'[c] = "reading" => pc[c] = "reading"
    BY <1>2 DEF Restarts, backend
  <2>3. engine = <<>> /\ ~callback /\ ~errored /\ \A c \in Clients : pc[c] = "idle"
    BY <1>m, <2>1 DEF LoopFacts
  <2>4. \A c \in Clients : registered'[ReqOf[c]] # c /\ c \notin ToSet(engine')
    <3>1. <<>> \in Seq(Clients)
      OBVIOUS
    <3> QED BY <2>2, <2>3, <3>1, MembersFacts
  <2>5. \A c \in Clients : HasOpen(c)'
    BY <2>4 DEF HasOpen
  <2>6. LoopFacts'
    BY <2>2, <2>3 DEF LoopFacts
  <2> QED BY <1>m, <2>2, <2>3, <2>5, <2>6 DEF Matched
<1>3. ASSUME NEW d \in Clients, Queues(d) PROVE Matched'
  <2>1. /\ new_requests' = Append(new_requests, d) /\ pc' = [pc EXCEPT ![d] = "reading"]
        /\ UNCHANGED <<streams, registered, loop, callback, errored, engine, scheduled, produced>>
        /\ pc[d] = "tokenizing"
    BY <1>3 DEF Queues, backend
  <2>2. ToSet(new_requests') = ToSet(new_requests) \cup {d}
    BY <2>1, ViewTypes, SetOfAppend
  <2>3. loop # "idle"
    BY <1>m, <2>1 DEF LoopFacts
  <2>4. LoopFacts'
    BY <1>m, <2>1, <2>3 DEF LoopFacts, Faults
  <2>5. \A c \in Clients : HasOpen(c)' <=> HasOpen(c)
    BY <2>1 DEF HasOpen
  <2>6. IsRunning' <=> IsRunning
    BY <2>1 DEF IsRunning
  <2>7. \A c \in Clients : c # d => pc'[c] = pc[c]
    BY <2>1 DEF TypeOK
  <2>8. \A c \in Clients : Known(c)
    BY <1>m, <2>1, <2>2, <2>7
  <2> QED BY <1>m, <2>1, <2>4, <2>5, <2>6, <2>8 DEF Matched
<1>4. ASSUME NEW d \in Clients, GivesUp(d) PROVE Matched'
  <2>1. /\ UNCHANGED <<registered, new_requests, loop, callback, errored, engine, scheduled, produced>>
        /\ pc[d] \in {"reading", "ended"}
        /\ \A c \in Clients : pc'[c] = "reading" => pc[c] = "reading"
    BY <1>4 DEF GivesUp, AbortRequest, backend
  <2>2. loop # "idle"
    BY <1>m, <2>1 DEF LoopFacts
  <2>3. LoopFacts'
    BY <1>m, <2>1, <2>2 DEF LoopFacts, Faults
  <2>4. \A c \in Clients : HasOpen(c) => HasOpen(c)'
    BY <1>e, <2>1 DEF HasOpen
  <2>5. IsRunning' <=> IsRunning
    BY <2>1 DEF IsRunning
  <2>6. \A c \in Clients : Count(streams'[c]) <= produced'[c]
    <3> TAKE c \in Clients
    <3>1. streams'[c] = Grown(streams[c], "stop") \/ streams'[c] = streams[c]
      BY <1>4, GivenUpStreams
    <3>2. Count(Grown(streams[c], "stop")) <= Count(streams[c]) /\ Count(Grown(streams[c], "stop")) \in Nat
      BY ClosingCounts
    <3> QED BY <1>c, <1>m, <2>1, <3>1, <3>2
  <2>7. \A c \in Clients : Known(c)
    BY <1>e, <1>m, <2>1
  <2> QED BY <1>m, <2>3, <2>4, <2>5, <2>6, <2>7 DEF Matched
<1>5. CASE EngineStep /\ UNCHANGED client
  <2>1. PICK invalid, gone : Stepped(invalid, gone)
    BY <1>5, EngineSteps
  <2>2. \A c \in Clients : StepOn(c, invalid)
    BY <2>1, StepsOn
  <2>3. /\ loop = "step" /\ loop' = IF scheduled' = <<>> THEN "wait" ELSE "exec"
        /\ engine' # <<>> /\ ~MayScheduleNone => scheduled' # <<>>
        /\ UNCHANGED <<client, callback, errored, produced>>
        /\ invalid \subseteq KeptSet /\ KeptSet \subseteq ToSet(new_requests)
        /\ KeptSet = {c \in ToSet(new_requests) : ReqOf[c] \notin finished_requests}
    BY <2>1 DEF Stepped, KeptSet
  <2>4. ASSUME NEW c \in Clients PROVE HasOpen(c)'
    <3>1. HasOpen(c)
      BY <1>m, <2>3 DEF IsRunning
    <3>2. StepOn(c, invalid)
      BY <2>2
    <3>3. c \in ToSet(engine') => registered'[ReqOf[c]] = c
      <4>1. c \in ToSet(engine) => c \notin ToSet(new_requests)
        BY DEF View, Fresh
      <4> QED BY <3>1, <3>2, <4>1 DEF StepOn, HasOpen
    <3>4. registered'[ReqOf[c]] = c /\ ~Ended(streams'[c]) => c \in ToSet(engine')
      <4> SUFFICES ASSUME registered'[ReqOf[c]] = c, ~Ended(streams'[c]) PROVE c \in ToSet(engine')
        OBVIOUS
      <4>1. CASE c \in KeptSet
        <5>1. c \notin invalid
          BY <3>2, <4>1, ClosingCounts DEF StepOn
        <5> QED BY <2>3, <3>2, <4>1, <5>1 DEF StepOn
      <4>2. c \notin ToSet(new_requests) \ KeptSet
        BY <3>2 DEF StepOn
      <4>3. CASE c \notin ToSet(new_requests)
        BY <1>e, <3>1, <3>2, <4>3 DEF StepOn, HasOpen
      <4> QED BY <4>1, <4>2, <4>3
    <3> QED BY <3>3, <3>4 DEF HasOpen
  <2>5. ASSUME NEW c \in Clients PROVE Known(c)
    <3> SUFFICES ASSUME pc[c] = "reading", ~Ended(streams'[c])
                 PROVE  registered'[ReqOf[c]] = c
      BY <2>3 DEF client
    <3>1. StepOn(c, invalid) /\ ~Ended(streams[c])
      BY <1>e, <2>2
    <3>2. c \notin ToSet(new_requests) \ KeptSet
      BY <3>1, ClosingCounts DEF StepOn
    <3>3. CASE c \in KeptSet
      BY <3>1, <3>3 DEF StepOn
    <3>4. CASE c \notin ToSet(new_requests)
      <4>1. registered[ReqOf[c]] = c
        BY <1>m, <3>1, <3>4
      <4>2. ReqOf[c] \notin finished_requests
        BY <3>1, <4>1 DEF View
      <4> QED BY <3>1, <3>4, <4>1, <4>2 DEF StepOn
    <3> QED BY <3>2, <3>3, <3>4
  <2>6. \A c \in Clients : Count(streams'[c]) <= produced'[c]
    <3> TAKE c \in Clients
    <3>1. streams'[c] = Grown(streams[c], "stop") \/ streams'[c] = Grown(streams[c], "error")
          \/ streams'[c] = streams[c]
      BY <2>2, <2>3 DEF StepOn
    <3>2. /\ Count(Grown(streams[c], "stop")) <= Count(streams[c]) /\ Count(Grown(streams[c], "stop")) \in Nat
          /\ Count(Grown(streams[c], "error")) <= Count(streams[c]) /\ Count(Grown(streams[c], "error")) \in Nat
      BY ClosingCounts
    <3> QED BY <1>c, <1>m, <2>3, <3>1, <3>2
  <2>7. LoopFacts'
    BY <1>m, <2>3 DEF LoopFacts
  <2> QED BY <1>m, <2>4, <2>5, <2>6, <2>7 DEF Matched
<1>6. CASE ModelReturns /\ UNCHANGED client
  <2>1. PICK last : Returned(last)
    BY <1>6, ReturnsToAll
  <2>2. /\ last \subseteq ToSet(scheduled) /\ UNCHANGED <<client, registered, new_requests, errored>>
        /\ loop' = "step" /\ callback' = FALSE
        /\ \A c \in Clients :
              /\ streams'[c] = IF c \in ToSet(scheduled) THEN Grown(streams[c], ItemOf(c, last)) ELSE streams[c]
              /\ produced'[c] = IF c \in ToSet(scheduled) THEN produced[c] + 1 ELSE produced[c]
              /\ c \in ToSet(engine') <=> c \in ToSet(engine) /\ c \notin last
    BY <2>1 DEF Returned
  <2>3. loop = "exec" /\ IsRunning
    BY <1>6 DEF ModelReturns, IsRunning
  <2>4. ASSUME NEW c \in Clients
        PROVE  /\ Count(streams'[c]) <= produced'[c]
               /\ c \in last => Ended(streams'[c])
    <3>1. streams[c] \in Seq(Items) /\ OneEnd(streams[c]) /\ ItemOf(c, last) \in Items
      BY ViewTypes DEF ItemOf, Items
    <3>2. /\ Count(Grown(streams[c], ItemOf(c, last))) <= Count(streams[c]) + CountOf(ItemOf(c, last))
          /\ CountOf(ItemOf(c, last)) \in {0, 1} /\ Count(Grown(streams[c], ItemOf(c, last))) \in Nat
      BY <3>1, CountIs
    <3>3. Count(streams'[c]) <= produced'[c]
      BY <1>c, <1>m, <2>2, <3>2
    <3>4. c \in last => Ended(streams'[c])
      <4>1. c \in last => ItemOf(c, last) # "output"
        BY DEF ItemOf
      <4> QED BY <2>2, <3>1, <4>1, GrownFacts
    <3> QED BY <3>3, <3>4
  <2>5. \A c \in Clients : HasOpen(c)'
    BY <1>e, <1>m, <2>2, <2>3, <2>4 DEF HasOpen
  <2>6. \A c \in Clients : Known(c)
    BY <1>e, <1>m, <2>2 DEF client
  <2>7. LoopFacts'
    BY <1>m, <2>2, <2>3 DEF LoopFacts
  <2> QED BY <1>m, <2>4, <2>5, <2>6, <2>7 DEF Matched
<1>7. CASE Callback /\ UNCHANGED client
  <2>1. /\ callback /\ UNCHANGED <<client, registered, new_requests, loop, engine, produced>>
    BY <1>7 DEF Callback, backend
  <2>2. loop = "done" /\ Faults # {}
    BY <1>m, <2>1 DEF LoopFacts
  <2>3. LoopFacts'
    BY <1>m, <2>1, <2>2 DEF LoopFacts, Faults
  <2>4. ~IsRunning'
    BY <2>1, <2>2 DEF IsRunning
  <2>5. \A c \in Clients : Count(streams'[c]) <= produced'[c]
    <3> TAKE c \in Clients
    <3>1. streams'[c] = Grown(streams[c], "error") \/ streams'[c] = streams[c]
      BY <1>7, FailedStreams
    <3>2. Count(Grown(streams[c], "error")) <= Count(streams[c]) /\ Count(Grown(streams[c], "error")) \in Nat
      BY ClosingCounts
    <3> QED BY <1>c, <1>m, <2>1, <3>1, <3>2
  <2>6. \A c \in Clients : Known(c)
    BY <1>e, <1>m, <2>1 DEF client
  <2> QED BY <1>m, <2>3, <2>4, <2>5, <2>6 DEF Matched
<1> QED BY <1>g, <1>1, <1>2, <1>3, <1>4, <1>5, <1>6, <1>7 DEF Effect

\* Each output of a step finds the stream of its own call, no open stream
\* waits for a group the engine does not have, the loop sleeps only when the
\* engine is idle and dies only of a fault of the workers (run_engine_loop,
\* engine_step).  Ids are unique, as generate() asks of its callers; a loop
\* that may break is not started again by a later call; and the scheduler
\* always schedules something when it can.
THEOREM EngineIsSound ==
  ASSUME UniqueIds, NoRestart, ~MayScheduleNone
  PROVE  Spec => []EngineInv
<1>1. Init => TypeOK /\ View /\ Matched
  BY InitView, InitMatched
<1>2. TypeOK /\ View /\ Matched /\ [Next]_vars => TypeOK' /\ View' /\ Matched'
  BY StepsKeepView, StepsKeepMatched
<1>3. TypeOK /\ View /\ Matched => EngineInv
  BY MatchedIs
<1> QED BY <1>1, <1>2, <1>3, PTL DEF Spec

-----------------------------------------------------------------------------
\* The replies, and what a step does to one.

StateOf(c) ==
  IF Ended(streams[c]) THEN
     IF "final" \in ToSet(streams[c]) THEN "answered"
     ELSE IF "error" \in ToSet(streams[c]) THEN "failed" ELSE "aborted"
  ELSE IF pc[c] = "reading" \/ c \in ToSet(new_requests) \/ registered[ReqOf[c]] = c
       THEN "open" ELSE "none"

Moves(c) ==
  \/ StateOf(c)' = StateOf(c) /\ Count(streams'[c]) = Count(streams[c])
  \/ /\ StateOf(c) = "none" /\ Count(streams[c]) = 0
     /\ StateOf(c)' = "open" /\ Count(streams'[c]) = 0
  \/ /\ StateOf(c) = "open" /\ Count(streams[c]) < MaxOutputs
     /\ StateOf(c)' \in {"open", "answered"} /\ Count(streams'[c]) = Count(streams[c]) + 1
  \/ /\ StateOf(c) = "open"
     /\ StateOf(c)' \in {"failed", "aborted"} /\ Count(streams'[c]) = Count(streams[c])

LEMMA ReplyIs ==
  TypeOK => \A c \in Clients : Reply(c) = [state |-> StateOf(c), outputs |-> Count(streams[c])]
<1> SUFFICES ASSUME TypeOK, NEW c \in Clients
             PROVE  Reply(c) = [state |-> StateOf(c), outputs |-> Count(streams[c])]
  OBVIOUS
<1>1. streams \in StreamSet /\ new_requests \in Seq(Clients)
  BY DEF TypeOK, StreamSet
<1>2. /\ Finished(streams, c) <=> Ended(streams[c])
      /\ \A x : Contains(streams[c], x) <=> x \in ToSet(streams[c])
      /\ Contains(new_requests, c) <=> c \in ToSet(new_requests)
  BY <1>1, FinishedIsEnded, MembersFacts
<1>3. Outputs(c) = Count(streams[c])
  BY DEF Outputs, Count
<1> QED BY <1>2, <1>3 DEF Reply, StateOf

\* An open stream that is closed without an output.
LEMMA ClosingGivesUp ==
  ASSUME TypeOK, View, NEW c \in Clients, NEW x \in {"stop", "error"},
         ~Ended(streams[c]), StateOf(c) = "open", streams'[c] = Grown(streams[c], x)
  PROVE  Moves(c)
<1>1. streams[c] \in Seq(Items) /\ OneEnd(streams[c]) /\ x \in Items
  BY ViewTypes DEF Items
<1>2. /\ ToSet(streams'[c]) = ToSet(streams[c]) \cup {x} \cup {"stop"}
      /\ ToSet(streams[c]) \subseteq {"output"}
      /\ Count(streams'[c]) = Count(streams[c]) + CountOf(x) /\ Count(streams[c]) \in Nat
      /\ Ended(streams'[c])
  BY <1>1, GrownFacts
<1>3. CountOf(x) = 0
  BY DEF CountOf
<1>4. StateOf(c)' \in {"failed", "aborted"}
  BY <1>2 DEF StateOf
<1> QED BY <1>2, <1>3, <1>4 DEF Moves

LEMMA StepsMoveReplies ==
  ASSUME UniqueIds, NoRestart, TypeOK, View, Matched, [Next]_vars, NEW c \in Clients
  PROVE  Moves(c)
<1>g. TypeOK' /\ View' /\ Gains /\ PcMoves /\ Effect
  BY StepsKeepView
<1>1. CASE Ended(streams[c])
  <2>1. streams'[c] = streams[c]
    BY <1>1, <1>g DEF Gains
  <2>2. StateOf(c)' = StateOf(c)
    BY <1>1, <2>1 DEF StateOf
  <2> QED BY <2>1, <2>2 DEF Moves
<1>2. CASE ~Ended(streams[c])
  <2> USE <1>2
  <2> DEFINE Open == pc[c] = "reading" \/ c \in ToSet(new_requests) \/ registered[ReqOf[c]] = c
  <2>o. StateOf(c) = IF Open THEN "open" ELSE "none"
    BY DEF StateOf
  <2>k. pc[c] = "reading" => c \in ToSet(new_requests) \/ registered[ReqOf[c]] = c
    BY DEF Matched
\* A step that leaves the stream and its place in the tracker alone.
  <2>s. ASSUME streams'[c] = streams[c],
               (pc'[c] = "reading" \/ c \in ToSet(new_requests') \/ registered'[ReqOf[c]] = c) <=> Open
        PROVE  Moves(c)
    <3>1. StateOf(c)' = StateOf(c)
      BY <2>o, <2>s DEF StateOf
    <3> QED BY <2>s, <3>1 DEF Moves
  <2>3. CASE Idles
    <3>1. UNCHANGED <<streams, registered, new_requests>> /\ (pc'[c] = "reading" => pc[c] = "reading")
      BY <2>3 DEF Idles
    <3> QED BY <2>k, <2>s, <3>1
  <2>4. CASE Restarts
    <3>1. /\ StartEngineLoop /\ loop \in {"idle", "done"} /\ streams' = streams /\ new_requests' = <<>>
          /\ registered' = [id \in ReqIds |-> NoStream] /\ (pc'[c] = "reading" => pc[c] = "reading")
      BY <2>4 DEF Restarts, MayStartLoop
    <3>2. Faults = {}
      BY <3>1 DEF NoRestart, Matched, StartEngineLoop, Faults
    <3>3. pc[c] = "idle"
      BY <3>1, <3>2 DEF Matched, LoopFacts
    <3>4. ~Open
      BY <3>3 DEF View, Fresh
    <3>5. c \notin ToSet(new_requests')
      <4>1. <<>> \in Seq(Clients)
        OBVIOUS
      <4> QED BY <3>1, <4>1, MembersFacts
    <3>6. registered'[ReqOf[c]] # c
      BY <3>1
    <3> HIDE DEF Open
    <3>7. pc'[c] # "reading"
      BY <3>1, <3>3
    <3> QED BY <2>s, <3>1, <3>4, <3>5, <3>6, <3>7
  <2>5. ASSUME NEW d \in Clients, Queues(d) PROVE Moves(c)
    <3>1. /\ pc[d] = "tokenizing" /\ pc' = [pc EXCEPT ![d] = "reading"]
          /\ new_requests' = Append(new_requests, d) /\ UNCHANGED <<streams, registered>>
      BY <2>5 DEF Queues
    <3>2. ToSet(new_requests') = ToSet(new_requests) \cup {d}
      BY <3>1, ViewTypes, SetOfAppend
    <3>3. CASE c = d
      <4>1. streams[c] = <<>> /\ ~Open
        BY <3>1, <3>3 DEF View, Fresh
      <4>2. Count(<<>>) = 0
        BY SelectOfNone DEF Count
      <4>3. StateOf(c)' = "open"
        BY <3>1, <3>2, <3>3 DEF StateOf
      <4> QED BY <2>o, <3>1, <4>1, <4>2, <4>3 DEF Moves
    <3>4. CASE c # d
      <4>1. pc'[c] = pc[c]
        BY <3>1, <3>4 DEF TypeOK
      <4> QED BY <2>s, <3>1, <3>2, <3>4, <4>1
    <3> QED BY <3>3, <3>4
  <2>6. ASSUME NEW d \in Clients, GivesUp(d) PROVE Moves(c)
    <3>1. UNCHANGED <<registered, new_requests>> /\ (pc'[c] = "reading" => pc[c] = "reading")
      BY <2>6 DEF GivesUp, AbortRequest
    <3>2. streams'[c] = IF registered[ReqOf[d]] = c THEN Grown(streams[c], "stop") ELSE streams[c]
      BY <2>6, GivenUpStreams
    <3>3. CASE registered[ReqOf[d]] = c
      <4>1. registered[ReqOf[c]] = c
        BY <3>3, ViewTypes
      <4> QED BY <2>o, <3>2, <3>3, <4>1, ClosingGivesUp
    <3>4. CASE registered[ReqOf[d]] # c
      BY <2>k, <2>s, <3>1, <3>2, <3>4
    <3> QED BY <3>3, <3>4
  <2>7. CASE EngineStep /\ UNCHANGED client
    <3>1. PICK invalid, gone : Stepped(invalid, gone)
      BY <2>7, EngineSteps
    <3>2. StepOn(c, invalid)
      BY <3>1, StepsOn
    <3>3. invalid \subseteq KeptSet /\ KeptSet \subseteq ToSet(new_requests) /\ new_requests' = <<>>
          /\ pc' = pc
      BY <2>7, <3>1 DEF Stepped, KeptSet, client
    <3>4. c \notin ToSet(new_requests')
      <4>1. <<>> \in Seq(Clients)
        OBVIOUS
      <4> QED BY <3>3, <4>1, MembersFacts
    <3>5. CASE c \in invalid \/ c \in ToSet(new_requests) \ KeptSet
      <4>1. StateOf(c) = "open"
        BY <2>o, <3>3, <3>5
      <4>2. \E x \in {"stop", "error"} : streams'[c] = Grown(streams[c], x)
        BY <3>2, <3>3, <3>5 DEF StepOn
      <4> QED BY <4>1, <4>2, ClosingGivesUp
    <3>6. CASE c \in KeptSet \ invalid
      BY <2>s, <3>2, <3>3, <3>6 DEF StepOn
    <3>7. CASE c \notin ToSet(new_requests)
      <4>1. registered[ReqOf[c]] = c => ReqOf[c] \notin finished_requests
        BY DEF View
      <4>2. registered'[ReqOf[c]] = c <=> registered[ReqOf[c]] = c
        BY <3>2, <3>7, <4>1 DEF StepOn
      <4> QED BY <2>s, <3>2, <3>3, <3>4, <3>7, <4>2 DEF StepOn
    <3> QED BY <3>3, <3>5, <3>6, <3>7
  <2>8. CASE ModelReturns /\ UNCHANGED client
    <3>1. PICK last : Returned(last)
      BY <2>8, ReturnsToAll
    <3>2. /\ UNCHANGED <<registered, new_requests>> /\ pc' = pc
          /\ streams'[c] = IF c \in ToSet(scheduled) THEN Grown(streams[c], ItemOf(c, last)) ELSE streams[c]
          /\ c \in ToSet(scheduled) => registered[ReqOf[c]] = c
      BY <3>1 DEF Returned, client
    <3>3. CASE c \notin ToSet(scheduled)
      BY <2>s, <3>2, <3>3
    <3>4. CASE c \in ToSet(scheduled)
      <4> DEFINE x == ItemOf(c, last)
      <4>1. x \in {"output", "final"} /\ x \in Items /\ CountOf(x) = 1
        BY DEF ItemOf, Items, CountOf
      <4>2. streams[c] \in Seq(Items) /\ OneEnd(streams[c]) /\ streams'[c] = Grown(streams[c], x)
        BY <3>2, <3>4, ViewTypes
      <4> HIDE DEF x
      <4>3. /\ ToSet(streams'[c]) = ToSet(streams[c]) \cup {x} \cup (IF x = "output" THEN {} ELSE {"stop"})
            /\ Count(streams'[c]) = Count(streams[c]) + 1 /\ ToSet(streams[c]) \subseteq {"output"}
        BY <4>1, <4>2, GrownFacts
      <4>4. Count(streams[c]) < MaxOutputs
        <5>1. Count(streams[c]) <= produced[c] /\ produced[c] < MaxOutputs
          BY <3>4 DEF Matched, View
        <5>2. Count(streams[c]) \in Nat /\ produced[c] \in Nat /\ MaxOutputs \in Nat
          BY ClosingCounts, ViewTypes
        <5> QED BY <5>1, <5>2
      <4>5. StateOf(c)' \in {"open", "answered"}
        BY <3>2, <3>4, <4>1, <4>3 DEF StateOf, Ended
      <4>6. StateOf(c) = "open"
        BY <2>o, <3>2, <3>4
      <4> QED BY <4>3, <4>4, <4>5, <4>6 DEF Moves
    <3> QED BY <3>3, <3>4
  <2>9. CASE Callback /\ UNCHANGED client
    <3>1. UNCHANGED <<registered, new_requests>> /\ pc' = pc
      BY <2>9 DEF Callback, client
    <3>2. streams'[c] = IF registered[ReqOf[c]] = c THEN Grown(streams[c], "error") ELSE streams[c]
      BY <2>9, FailedStreams
    <3>3. CASE registered[ReqOf[c]] = c
      BY <2>o, <3>2, <3>3, ClosingGivesUp
    <3>4. CASE registered[ReqOf[c]] # c
      BY <2>s, <3>1, <3>2, <3>4
    <3> QED BY <3>3, <3>4
  <2> HIDE DEF Open
  <2> QED BY <1>g, <2>3, <2>4, <2>5, <2>6, <2>7, <2>8, <2>9 DEF Effect
<1> QED BY <1>1, <1>2

\* The engine implements RequestService: an accepted request gets at most
\* MaxOutputs outputs and then one ending, which nothing revises, whatever
\* happens to other requests, to the loop and to the workers (AsyncStream,
\* RequestTracker, run_engine_loop).  MayScheduleNone is free here.
THEOREM ImplementsRequestService ==
  ASSUME UniqueIds, NoRestart
  PROVE  Spec => Service!Spec
<1> DEFINE reply == [c \in Clients |-> Reply(c)]
<1>1. Init => TypeOK /\ View /\ Matched
  BY InitView, InitMatched
<1>2. TypeOK /\ View /\ Matched /\ [Next]_vars => TypeOK' /\ View' /\ Matched'
  BY StepsKeepView, StepsKeepMatched
<1>3. Init => Service!Init
  <2> SUFFICES ASSUME Init PROVE Service!Init
    OBVIOUS
  <2>1. TypeOK /\ View
    BY InitView
  <2>2. <<>> \in Seq(Items) /\ <<>> \in Seq(Clients)
    OBVIOUS
  <2>3. ToSet(<<>>) = {} /\ Count(<<>>) = 0
    <3>1. ToSet(<<>>) = {}
      BY <2>2, MembersFacts
    <3>2. Count(<<>>) = 0
      BY SelectOfNone DEF Count
    <3> QED BY <3>1, <3>2
  <2>4. \A c \in Clients : Reply(c) = [state |-> "none", outputs |-> 0]
    <3> TAKE c \in Clients
    <3>1. StateOf(c) = "none" /\ Count(streams[c]) = 0
      BY <2>3 DEF Init, StateOf, Ended
    <3> QED BY <2>1, <3>1, ReplyIs
  <2> QED BY <2>4 DEF Service!Init, Service!Reply
<1>4. TypeOK /\ View /\ Matched /\ [Next]_vars => Service!Next
  <2> SUFFICES ASSUME TypeOK, View, Matched, [Next]_vars PROVE Service!Next
    OBVIOUS
  <2>1. TypeOK'
    BY StepsKeepView
  <2>2. \A c \in Clients : Reply(c)' = [state |-> StateOf(c)', outputs |-> Count(streams'[c])]
    <3>1. (TypeOK => \A c \in Clients : Reply(c) = [state |-> StateOf(c), outputs |-> Count(streams[c])])'
      BY ReplyIs, PTL
    <3> QED BY <2>1, <3>1
  <2>3. ASSUME NEW c \in Clients
        PROVE  \/ reply'[c] = reply[c]
               \/ Service!Accept(c) \/ Service!Output(c) \/ Service!GiveUp(c)
    <3>1. /\ reply[c] = [state |-> StateOf(c), outputs |-> Count(streams[c])]
          /\ reply'[c] = [state |-> StateOf(c)', outputs |-> Count(streams'[c])]
      BY <2>2, ReplyIs
    <3>2. Moves(c)
      BY StepsMoveReplies
    <3> QED BY <3>1, <3>2 DEF Moves, Service!Accept, Service!Output, Service!GiveUp, Service!Reply
  <2> QED BY <2>3 DEF Service!Next
<1> QED BY <1>1, <1>2, <1>3, <1>4, PTL DEF Spec, Service!Spec
=============================================================================
