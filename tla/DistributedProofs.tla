-------------------------- MODULE DistributedProofs --------------------------
(***************************************************************************)
(* Proofs about the ranks of a distributed engine.  About Workers: the     *)
(* remote workers are in their execution loop exactly when the driver      *)
(* believes so, and where the broadcast that waits for them is meant to be *)
(* received, for every number of workers, with every fault.  About         *)
(* AllReduce and TensorParallel, for every number of ranks and of calls,   *)
(* every choice of kernels and every model: the flags of the all-reduce    *)
(* kernels keep the ranks apart by less than a call, the forward passes    *)
(* use the kernels of AllReduce as they are, and the sums of the ranks are *)
(* those of one and the same call.                                         *)
(***************************************************************************)
EXTENDS Workers, TensorParallel, FiniteSetTheorems, SequenceTheorems, TLAPS

LEMMA SomeWorkers == NumWorkers \in Nat \ {0}
BY WorkersAssumption

USE SomeWorkers DEF RemoteWorkers

-----------------------------------------------------------------------------
\* What the engine's thread has left to do.

Messages == {"groups", "transfers", "metadata", "stop"}
Steps ==
    [op : {"enqueue", "wait"}, arg : Keys] \cup [op : {"terminate"}, arg : RemoteWorkers \X {"none"}]
    \cup [op : {"broadcast", "joined"}, arg : Messages] \cup [op : {"started"}, arg : BOOLEAN]
    \cup [op : {"forward", "close_handler"}, arg : {"none"}]

\* The step y may come after the step x in a list.
Follows(x, y) ==
    \/ x.op = "enqueue" /\ x.arg[1] < NumWorkers /\ y = Op("enqueue", <<x.arg[1] + 1, x.arg[2]>>)
    \/ x = Op("enqueue", <<NumWorkers, "start_loop">>) /\ y = Op("started", TRUE)
    \/ x = Op("enqueue", <<NumWorkers, "control">>) /\ y = Op("wait", <<1, "control">>)
    \/ x.op = "wait" /\ x.arg[1] < NumWorkers /\ y = Op("wait", <<x.arg[1] + 1, x.arg[2]>>)
    \/ x = Op("started", TRUE) /\ y \in {Op("broadcast", "groups"), Op("broadcast", "transfers")}
    \/ x = Op("started", FALSE) /\ y = Op("wait", <<1, "start_loop">>)
    \/ x.op = "broadcast" /\ y = Op("joined", x.arg)
    \/ x = Op("joined", "groups") /\ y = Op("broadcast", "metadata")
    \/ x = Op("joined", "metadata") /\ y = Op("forward", "none")
    \/ x = Op("joined", "transfers") /\ y = Op("broadcast", "stop")
    \/ x = Op("joined", "stop") /\ y = Op("started", FALSE)
    \/ x.op = "forward" /\ y = x
    \/ x.op = "terminate" /\ x.arg[1] < NumWorkers /\ y = Op("terminate", <<x.arg[1] + 1, "none">>)
    \/ x = Op("terminate", <<NumWorkers, "none">>) /\ y = Op("close_handler", "none")

\* A list may end with the step x.
Ends(x) ==
    x.op \in {"forward", "close_handler"} \/ (x.op = "wait" /\ x.arg[1] = NumWorkers)

Chain(d) == d \in Seq(Steps) /\ \A i \in 1 .. Len(d) - 1 : Follows(d[i], d[i + 1])
Listing(d) == Chain(d) /\ (d # <<>> => Ends(d[Len(d)]))

\* A chain from one step to another.
From(d, x, y) == Chain(d) /\ d # <<>> /\ d[1] = x /\ d[Len(d)] = y

LEMMA ChainConcat ==
  ASSUME NEW c, NEW d, NEW x, NEW y, NEW u, NEW v, From(c, x, y), From(d, u, v), Follows(y, u)
  PROVE  From(c \o d, x, v)
<1> USE DEF From, Chain
<1>1. /\ c \o d \in Seq(Steps) /\ Len(c \o d) = Len(c) + Len(d)
      /\ \A i \in 1 .. Len(c) + Len(d) : (c \o d)[i] = IF i <= Len(c) THEN c[i] ELSE d[i - Len(c)]
  BY ConcatProperties
<1>2. Len(c) \in Nat \ {0} /\ Len(d) \in Nat \ {0}
  BY EmptySeq
<1>3. ASSUME NEW i \in 1 .. Len(c \o d) - 1
      PROVE  Follows((c \o d)[i], (c \o d)[i + 1])
  <2>1. CASE i < Len(c)
    <3>1. i \in 1 .. Len(c) - 1 /\ i + 1 <= Len(c) /\ i \in 1 .. Len(c) + Len(d) /\ i + 1 \in 1 .. Len(c) + Len(d)
      BY <1>1, <1>2, <2>1
    <3> HIDE DEF Chain
    <3> QED BY <1>1, <3>1 DEF Chain
  <2>2. CASE i = Len(c)
    <3>1. i \in 1 .. Len(c) + Len(d) /\ i + 1 \in 1 .. Len(c) + Len(d) /\ ~(i + 1 <= Len(c)) /\ (i + 1) - Len(c) = 1
      BY <1>1, <1>2, <2>2
    <3>2. (c \o d)[i] = y /\ (c \o d)[i + 1] = u
      BY <1>1, <1>2, <2>2, <3>1
    <3> QED BY <3>2
  <2>3. CASE i > Len(c)
    <3>1. /\ i - Len(c) \in 1 .. Len(d) - 1 /\ (i + 1) - Len(c) = (i - Len(c)) + 1
          /\ ~(i <= Len(c)) /\ ~(i + 1 <= Len(c)) /\ i \in 1 .. Len(c) + Len(d) /\ i + 1 \in 1 .. Len(c) + Len(d)
      BY <1>1, <1>2, <2>3
    <3>2. (c \o d)[i] = d[i - Len(c)] /\ (c \o d)[i + 1] = d[(i - Len(c)) + 1]
      BY <1>1, <3>1
    <3> QED BY <3>1, <3>2
  <2> QED BY <1>1, <1>2, <2>1, <2>2, <2>3
<1>4. c \o d # <<>> /\ (c \o d)[1] = x /\ (c \o d)[Len(c \o d)] = v
  <2>1. 1 \in 1 .. Len(c) + Len(d) /\ 1 <= Len(c)
    BY <1>2
  <2>2. Len(c) + Len(d) \in 1 .. Len(c) + Len(d) /\ ~(Len(c) + Len(d) <= Len(c)) /\ (Len(c) + Len(d)) - Len(c) = Len(d)
    BY <1>2
  <2>3. c \o d # <<>>
    BY <1>1, <1>2
  <2> QED BY <1>1, <2>1, <2>2, <2>3
<1> QED BY <1>1, <1>3, <1>4

LEMMA ChainOfOne ==
  ASSUME NEW x \in Steps
  PROVE  From(<<x>>, x, x)
BY DEF From, Chain

LEMMA ChainOfTwo ==
  ASSUME NEW x \in Steps, NEW y \in Steps, Follows(x, y)
  PROVE  From(<<x, y>>, x, y)
<1>1. <<x, y>> \in Seq(Steps) /\ Len(<<x, y>>) = 2 /\ <<x, y>>[1] = x /\ <<x, y>>[2] = y
  OBVIOUS
<1>2. \A i \in 1 .. Len(<<x, y>>) - 1 : i = 1
  BY <1>1
<1> QED BY <1>1, <1>2 DEF From, Chain

LEMMA ChainOfWorkers ==
  ASSUME NEW name, NEW m,
         (name \in {"enqueue", "wait"} /\ m \in Methods) \/ (name = "terminate" /\ m = "none")
  PROVE  From(EachWorker(name, m), Op(name, <<1, m>>), Op(name, <<NumWorkers, m>>))
<1> DEFINE d == EachWorker(name, m)
<1>1. ASSUME NEW w \in 1 .. NumWorkers PROVE Op(name, <<w, m>>) \in Steps
  BY DEF Op, Steps, Keys
<1>2. d = [w \in 1 .. NumWorkers |-> Op(name, <<w, m>>)]
  BY DEF EachWorker
<1>3. d \in Seq(Steps) /\ Len(d) = NumWorkers /\ \A w \in 1 .. NumWorkers : d[w] = Op(name, <<w, m>>)
  <2>1. d \in [1 .. NumWorkers -> Steps]
    BY <1>1, <1>2
  <2> HIDE DEF d
  <2>2. d \in Seq(Steps) /\ DOMAIN d = 1 .. NumWorkers
    BY <2>1, SeqDef
  <2>3. Len(d) = NumWorkers
    BY <2>2, SomeWorkers, SMT
  <2> QED BY <1>2, <2>1, <2>2, <2>3
<1> HIDE DEF d
<1>4. ASSUME NEW i \in 1 .. Len(d) - 1
      PROVE  Follows(d[i], d[i + 1])
  <2>1. i \in 1 .. NumWorkers /\ i + 1 \in 1 .. NumWorkers /\ i < NumWorkers
    BY <1>3, <1>4, SomeWorkers, SMT
  <2>2. d[i] = Op(name, <<i, m>>) /\ d[i + 1] = Op(name, <<i + 1, m>>)
    BY <1>3, <2>1
  <2>3. Follows(Op(name, <<i, m>>), Op(name, <<i + 1, m>>))
    BY <2>1 DEF Follows, Op
  <2> QED BY <2>2, <2>3
<1>5. d # <<>> /\ 1 \in 1 .. NumWorkers /\ NumWorkers \in 1 .. NumWorkers
  BY <1>3, SomeWorkers, SMT
<1>6. From(d, Op(name, <<1, m>>), Op(name, <<NumWorkers, m>>))
  BY <1>3, <1>4, <1>5 DEF From, Chain
<1> QED BY <1>6 DEF d

LEMMA ChainOfBroadcast ==
  ASSUME NEW m \in Messages
  PROVE  From(Broadcast(m), Op("broadcast", m), Op("joined", m))
<1>1. Op("broadcast", m) \in Steps /\ Op("joined", m) \in Steps
  BY DEF Steps, Op
<1>2. Follows(Op("broadcast", m), Op("joined", m))
  BY DEF Follows, Op
<1> QED BY <1>1, <1>2, ChainOfTwo DEF Broadcast

LEMMA ChainOfStart ==
  From(EachWorker("enqueue", "start_loop") \o <<Op("started", TRUE)>>,
       Op("enqueue", <<1, "start_loop">>), Op("started", TRUE))
<1>1. Op("started", TRUE) \in Steps
  BY DEF Steps, Op
<1>2. Follows(Op("enqueue", <<NumWorkers, "start_loop">>), Op("started", TRUE))
  BY DEF Follows
<1>3. "start_loop" \in Methods /\ "enqueue" \in {"enqueue", "wait"}
  BY DEF Methods
<1> QED BY <1>1, <1>2, <1>3, ChainOfOne, ChainOfWorkers, ChainConcat

LEMMA ChainOfStop ==
  From(StopLoops, Op("broadcast", "stop"), Op("wait", <<NumWorkers, "start_loop">>))
<1>1. Op("started", FALSE) \in Steps /\ "stop" \in Messages
  BY DEF Steps, Op, Messages
<1>2. /\ Follows(Op("joined", "stop"), Op("started", FALSE))
      /\ Follows(Op("started", FALSE), Op("wait", <<1, "start_loop">>))
  BY DEF Follows
<1>3. "start_loop" \in Methods /\ "wait" \in {"enqueue", "wait"}
  BY DEF Methods
<1>4. From(Broadcast("stop") \o <<Op("started", FALSE)>>, Op("broadcast", "stop"), Op("started", FALSE))
  BY <1>1, <1>2, ChainOfBroadcast, ChainOfOne, ChainConcat
<1>5. From(EachWorker("wait", "start_loop"), Op("wait", <<1, "start_loop">>),
           Op("wait", <<NumWorkers, "start_loop">>))
  BY <1>3, ChainOfWorkers
<1> QED BY <1>2, <1>4, <1>5, ChainConcat DEF StopLoops

LEMMA ChainOfControl ==
  From(EachWorker("enqueue", "control") \o EachWorker("wait", "control"),
       Op("enqueue", <<1, "control">>), Op("wait", <<NumWorkers, "control">>))
<1>1. Follows(Op("enqueue", <<NumWorkers, "control">>), Op("wait", <<1, "control">>))
  BY DEF Follows
<1>2. "control" \in Methods
  BY DEF Methods
<1> QED BY <1>1, <1>2, ChainOfWorkers, ChainConcat

LEMMA ChainOfShutdown ==
  From(EachWorker("terminate", "none") \o <<Op("close_handler", "none")>>,
       Op("terminate", <<1, "none">>), Op("close_handler", "none"))
<1>1. Op("close_handler", "none") \in Steps
  BY DEF Steps, Op
<1>2. Follows(Op("terminate", <<NumWorkers, "none">>), Op("close_handler", "none"))
  BY DEF Follows
<1> QED BY <1>1, <1>2, ChainOfOne, ChainOfWorkers, ChainConcat

LEMMA ListingOf ==
  ASSUME NEW d, NEW x, NEW y, From(d, x, y), Ends(y)
  PROVE  Listing(d) /\ d # <<>> /\ Head(d) = x
BY DEF From, Chain, Listing

\* A batch, whose loops have been started or are started first.
LEMMA ChainOfModel ==
  From(ModelStep, IF started \/ async THEN Op("broadcast", "groups")
                  ELSE Op("enqueue", <<1, "start_loop">>), Op("forward", "none"))
<1>1. "groups" \in Messages /\ "metadata" \in Messages /\ Op("forward", "none") \in Steps
  BY DEF Messages, Steps, Op
<1>2. /\ Follows(Op("joined", "groups"), Op("broadcast", "metadata"))
      /\ Follows(Op("joined", "metadata"), Op("forward", "none"))
      /\ Follows(Op("started", TRUE), Op("broadcast", "groups"))
  BY DEF Follows
<1>3. /\ From(Broadcast("groups"), Op("broadcast", "groups"), Op("joined", "groups"))
      /\ From(Broadcast("metadata"), Op("broadcast", "metadata"), Op("joined", "metadata"))
      /\ From(<<Op("forward", "none")>>, Op("forward", "none"), Op("forward", "none"))
  BY <1>1, ChainOfBroadcast, ChainOfOne
<1>4. ASSUME NEW c, NEW x, From(c, x, Op("joined", "groups"))
      PROVE  From(c \o Broadcast("metadata") \o <<Op("forward", "none")>>, x, Op("forward", "none"))
  <2>1. From(c \o Broadcast("metadata"), x, Op("joined", "metadata"))
    BY <1>2, <1>3, <1>4, ChainConcat
  <2> QED BY <1>2, <1>3, <2>1, ChainConcat
<1>5. CASE started \/ async
  <2>1. StartLoops \o Broadcast("groups") = Broadcast("groups")
    BY <1>3, <1>5, ConcatEmptySeq DEF StartLoops, From, Chain
  <2> QED BY <1>3, <1>4, <1>5, <2>1 DEF ModelStep
<1>6. CASE ~(started \/ async)
  <2>1. From(StartLoops, Op("enqueue", <<1, "start_loop">>), Op("started", TRUE))
    BY <1>6, ChainOfStart DEF StartLoops
  <2>2. From(StartLoops \o Broadcast("groups"), Op("enqueue", <<1, "start_loop">>), Op("joined", "groups"))
    BY <1>2, <1>3, <2>1, ChainConcat
  <2> QED BY <1>4, <1>6, <2>2 DEF ModelStep
<1> QED BY <1>5, <1>6

\* What the engine does first in a step.
LEMMA Programs ==
  ASSUME NEW kind \in StepKinds
  PROVE  /\ Listing(Program(kind))
         /\ Program(kind) = <<>> => kind = "nothing" /\ ~started
         /\ Program(kind) # <<>> => Head(Program(kind)) =
              (IF kind = "nothing" THEN Op("broadcast", "stop")
               ELSE IF ~started /\ ~async THEN Op("enqueue", <<1, "start_loop">>)
               ELSE Op("broadcast", IF kind = "transfer" THEN "transfers" ELSE "groups"))
         /\ kind = "nothing" /\ Program(kind) # <<>> => started
<1>1. kind \in {"model", "transfer", "nothing", "jacobian"}
  BY WorkersAssumption
<1>2. Ends(Op("forward", "none")) /\ Ends(Op("wait", <<NumWorkers, "start_loop">>))
  BY DEF Ends, Op
<1>3. CASE kind = "model"
  BY <1>2, <1>3, ChainOfModel, ListingOf DEF Program
<1>4. CASE kind = "jacobian"
  <2>1. Follows(Op("forward", "none"), Op("forward", "none")) /\ Op("forward", "none") \in Steps
    BY DEF Follows, Op, Steps
  <2>2. From(<<Op("forward", "none")>>, Op("forward", "none"), Op("forward", "none"))
    BY <2>1, ChainOfOne
  <2> DEFINE x == IF started \/ async THEN Op("broadcast", "groups")
                  ELSE Op("enqueue", <<1, "start_loop">>)
  <2> HIDE DEF x
  <2>3. From(Program(kind), x, Op("forward", "none"))
    BY <1>4, <2>1, <2>2, ChainOfModel, ChainConcat DEF Program, x
  <2> QED BY <1>2, <1>4, <2>3, ListingOf DEF x
<1>5. CASE kind = "nothing"
  <2>1. CASE started
    BY <1>2, <1>5, <2>1, ChainOfStop, ListingOf DEF Program
  <2>2. CASE ~started
    BY <1>5, <2>2 DEF Program, Listing, Chain
  <2> QED BY <2>1, <2>2
<1>6. CASE kind = "transfer"
  <2>1. /\ Follows(Op("joined", "transfers"), Op("broadcast", "stop"))
        /\ Follows(Op("started", TRUE), Op("broadcast", "transfers"))
        /\ "transfers" \in Messages
    BY DEF Follows, Messages
  <2>2. From(Broadcast("transfers"), Op("broadcast", "transfers"), Op("joined", "transfers"))
    BY <2>1, ChainOfBroadcast
  <2>3. CASE started \/ async
    <3>1. StartLoops \o Broadcast("transfers") = Broadcast("transfers")
      BY <2>2, <2>3, ConcatEmptySeq DEF StartLoops, From, Chain
    <3>2. From(Program(kind), Op("broadcast", "transfers"), Op("wait", <<NumWorkers, "start_loop">>))
      BY <1>6, <2>1, <2>2, <3>1, ChainOfStop, ChainConcat DEF Program
    <3> QED BY <1>2, <1>6, <2>3, <3>2, ListingOf
  <2>4. CASE ~(started \/ async)
    <3>1. From(StartLoops, Op("enqueue", <<1, "start_loop">>), Op("started", TRUE))
      BY <2>4, ChainOfStart DEF StartLoops
    <3>2. From(StartLoops \o Broadcast("transfers"), Op("enqueue", <<1, "start_loop">>), Op("joined", "transfers"))
      BY <2>1, <2>2, <3>1, ChainConcat
    <3>3. From(Program(kind), Op("enqueue", <<1, "start_loop">>), Op("wait", <<NumWorkers, "start_loop">>))
      BY <1>6, <2>1, <3>2, ChainOfStop, ChainConcat DEF Program
    <3> QED BY <1>2, <1>6, <2>4, <3>3, ListingOf
  <2> QED BY <2>3, <2>4
<1> QED BY <1>1, <1>3, <1>4, <1>5, <1>6

\* What is left after a step is a listing, whose first step follows it.
LEMMA Rests ==
  ASSUME NEW d, Listing(d), d # <<>>
  PROVE  /\ Head(d) \in Steps /\ Listing(Tail(d))
         /\ Tail(d) = <<>> => Ends(Head(d))
         /\ Tail(d) # <<>> => Head(Tail(d)) \in Steps /\ Follows(Head(d), Head(Tail(d)))
<1> DEFINE t == Tail(d)
<1>1. /\ d \in Seq(Steps) /\ Len(d) \in Nat \ {0} /\ Head(d) \in Steps /\ Head(d) = d[1]
      /\ t \in Seq(Steps) /\ Len(t) = Len(d) - 1 /\ \A i \in 1 .. Len(t) : t[i] = d[i + 1]
  BY HeadTailProperties, EmptySeq DEF Listing, Chain
<1>2. \A i \in 1 .. Len(d) - 1 : Follows(d[i], d[i + 1])
  BY DEF Listing, Chain
<1>3. Ends(d[Len(d)])
  BY DEF Listing
<1> HIDE DEF t
<1>4. CASE t = <<>>
  <2>1. Len(d) = 1
    BY <1>1, <1>4
  <2> QED BY <1>1, <1>3, <1>4, <2>1 DEF Listing, Chain, t
<1>5. CASE t # <<>>
  <2>1. Len(t) \in Nat \ {0}
    BY <1>1, <1>5, EmptySeq
  <2>2. ASSUME NEW i \in 1 .. Len(t) - 1 PROVE Follows(t[i], t[i + 1])
    <3>1. i \in 1 .. Len(t) /\ i + 1 \in 1 .. Len(t) /\ i + 1 \in 1 .. Len(d) - 1
      BY <1>1, <2>1, <2>2
    <3> QED BY <1>1, <1>2, <3>1
  <2>3. t[Len(t)] = d[Len(d)]
    <3>1. Len(t) \in 1 .. Len(t) /\ Len(t) + 1 = Len(d)
      BY <1>1, <2>1
    <3> QED BY <1>1, <3>1
  <2>4. Head(t) = t[1] /\ Head(t) \in Steps /\ t[1] = d[2] /\ Follows(d[1], d[2])
    <3>1. 1 \in 1 .. Len(t) /\ 1 \in 1 .. Len(d) - 1
      BY <1>1, <2>1
    <3> QED BY <1>1, <1>2, <1>5, <3>1
  <2> QED BY <1>1, <1>3, <1>5, <2>2, <2>3, <2>4 DEF Listing, Chain, t
<1> QED BY <1>4, <1>5

-----------------------------------------------------------------------------
\* Members of a list, whose order does not matter here.

Has(s, P) == \E i \in DOMAIN s : s[i] \in P
OnlyOne(s, P) == \A i, j \in DOMAIN s : s[i] \in P /\ s[j] \in P => i = j

LEMMA HasInEmpty ==
  ASSUME NEW P
  PROVE  ~Has(<<>>, P) /\ OnlyOne(<<>>, P)
BY DEF Has, OnlyOne

LEMMA HasInAppend ==
  ASSUME NEW S, NEW s \in Seq(S), NEW e \in S, NEW P
  PROVE  /\ Has(Append(s, e), P) <=> (Has(s, P) \/ e \in P)
         /\ OnlyOne(s, P) /\ ~(e \in P /\ Has(s, P)) => OnlyOne(Append(s, e), P)
<1> DEFINE t == Append(s, e)
<1>1. /\ Len(s) \in Nat /\ DOMAIN s = 1 .. Len(s) /\ DOMAIN t = 1 .. Len(s) + 1
      /\ \A i \in 1 .. Len(s) : t[i] = s[i]
      /\ t[Len(s) + 1] = e
  OBVIOUS
<1>2. \A i \in 1 .. Len(s) + 1 : i \in 1 .. Len(s) \/ i = Len(s) + 1
  BY <1>1
<1>3. \A i \in 1 .. Len(s) : i \in 1 .. Len(s) + 1
  BY <1>1
<1>4. Len(s) + 1 \in 1 .. Len(s) + 1
  BY <1>1
<1> HIDE DEF t
<1>5. Has(t, P) <=> (Has(s, P) \/ e \in P)
  BY <1>1, <1>2, <1>3, <1>4 DEF Has
<1>6. ASSUME OnlyOne(s, P), ~(e \in P /\ Has(s, P))
      PROVE  OnlyOne(t, P)
  BY <1>1, <1>2, <1>6 DEF Has, OnlyOne
<1> QED BY <1>5, <1>6 DEF t

LEMMA HasInTail ==
  ASSUME NEW S, NEW s \in Seq(S), s # <<>>, NEW P
  PROVE  /\ Has(s, P) <=> (Head(s) \in P \/ Has(Tail(s), P))
         /\ OnlyOne(s, P) => OnlyOne(Tail(s), P)
         /\ OnlyOne(s, P) /\ Head(s) \in P => ~Has(Tail(s), P)
<1> DEFINE t == Tail(s)
<1>1. /\ Len(s) \in Nat \ {0} /\ DOMAIN s = 1 .. Len(s) /\ DOMAIN t = 1 .. Len(s) - 1
      /\ \A i \in 1 .. Len(s) - 1 : t[i] = s[i + 1]
      /\ Head(s) = s[1]
  BY HeadTailProperties, EmptySeq
<1>2. \A i \in 1 .. Len(s) - 1 : i + 1 \in 1 .. Len(s) /\ i + 1 # 1
  BY <1>1
<1>3. \A i \in 1 .. Len(s) : i = 1 \/ (i - 1 \in 1 .. Len(s) - 1 /\ (i - 1) + 1 = i)
  BY <1>1
<1>4. 1 \in 1 .. Len(s)
  BY <1>1
<1> HIDE DEF t
<1>5. Has(s, P) <=> (Head(s) \in P \/ Has(t, P))
  <2>1. ASSUME Has(s, P) PROVE Head(s) \in P \/ Has(t, P)
    <3>1. PICK i \in 1 .. Len(s) : s[i] \in P
      BY <1>1, <2>1 DEF Has
    <3>2. CASE i = 1
      BY <1>1, <3>1, <3>2
    <3>3. CASE i - 1 \in 1 .. Len(s) - 1 /\ (i - 1) + 1 = i
      <4>1. t[i - 1] = s[i]
        BY <1>1, <3>3
      <4> QED BY <1>1, <3>1, <3>3, <4>1 DEF Has
    <3> QED BY <1>3, <3>2, <3>3
  <2>2. ASSUME Has(t, P) PROVE Has(s, P)
    BY <1>1, <1>2, <2>2 DEF Has
  <2>3. ASSUME Head(s) \in P PROVE Has(s, P)
    BY <1>1, <1>4, <2>3 DEF Has
  <2> QED BY <2>1, <2>2, <2>3
<1>6. ASSUME OnlyOne(s, P), NEW i \in 1 .. Len(s) - 1, NEW j \in 1 .. Len(s) - 1, t[i] \in P, t[j] \in P
      PROVE  i = j
  <2>1. i + 1 = j + 1
    BY <1>1, <1>2, <1>6 DEF OnlyOne
  <2> QED BY <2>1
<1>7. ASSUME OnlyOne(s, P), Head(s) \in P, NEW i \in 1 .. Len(s) - 1, t[i] \in P
      PROVE  FALSE
  <2>1. s[i + 1] \in P /\ i + 1 \in 1 .. Len(s) /\ i + 1 # 1
    BY <1>1, <1>2, <1>7
  <2> QED BY <1>1, <1>4, <1>7, <2>1 DEF OnlyOne
<1>8. OnlyOne(s, P) => OnlyOne(t, P)
  BY <1>1, <1>6 DEF OnlyOne
<1>9. OnlyOne(s, P) /\ Head(s) \in P => ~Has(t, P)
  BY <1>1, <1>7 DEF Has
<1> QED BY <1>5, <1>8, <1>9 DEF t

-----------------------------------------------------------------------------
\* The invariant.

Results == [key : Keys, value : {"value", "error"}]

TypeOK ==
    /\ async \in BOOLEAN /\ started \in BOOLEAN
    /\ engine \in {"up", "failed", "shutdown"}
    /\ future \in [Keys -> {"none", "pending", "value", "error"}]
    /\ tasks \in SUBSET Keys
    /\ queue \in [RemoteWorkers -> Seq(Methods \cup {"TERMINATE"})]
    /\ open \in [RemoteWorkers -> BOOLEAN]
    /\ worker \in [RemoteWorkers ->
                     {"ready", "loop", "metadata", "forward", "dead", "exited"}]
    /\ inbox \in [RemoteWorkers -> Seq(Messages)]
    /\ results \in Seq(Results \cup {Sentinel})
    /\ handler \in [pc : {"run", "drain", "done"}, left : SUBSET Keys, size : Nat]
    /\ monitor \in [pc : {"watch", "kill", "done"}, left : SUBSET RemoteWorkers, close : BOOLEAN]

\* The task that starts the loops has yet to reach the last workers.
ListsInv ==
    /\ Listing(driver)
    /\ spawned \in Seq(Steps) /\ Len(spawned) <= NumWorkers
    /\ \A j \in 1 .. Len(spawned) :
         spawned[j] = Op("enqueue", <<NumWorkers - Len(spawned) + j, "start_loop">>)

\* No message waits but the one the driver has sent and not seen arrive.
InboxInv ==
    \A w \in RemoteWorkers :
        \/ inbox[w] = <<>>
        \/ At(driver, "joined") /\ inbox[w] = <<Head(driver).arg>>
        \/ engine = "failed" /\ Len(inbox[w]) = 1

\* Nothing has been lost, and nobody has shut the workers down.
Up == engine = "up" /\ AllAlive

\* A result that only a failure brings.
FailureResults == {Sentinel} \cup [key : RemoteWorkers \X {"control"}, value : {"error"}]

EngineInv ==
    /\ engine = "failed" => driver = <<>> /\ ~AllAlive
    /\ At(driver, "terminate") \/ At(driver, "close_handler") => engine = "shutdown"
    /\ engine = "shutdown" => driver = <<>> \/ At(driver, "terminate") \/ At(driver, "close_handler")
    /\ monitor.pc = "kill" => ~AllAlive
    /\ Up => /\ \A w \in RemoteWorkers : open[w] /\ future[<<w, "control">>] # "error"
             /\ handler.pc = "run" /\ ~Has(results, FailureResults)

\* What the driver is about to do.
Doing(name, arg) == driver # <<>> /\ Head(driver) = Op(name, arg)
Target == Head(driver).arg[1]
Idling == \/ driver = <<>>
          \/ (At(driver, "enqueue") \/ At(driver, "wait")) /\ Head(driver).arg[2] = "control"
Starting == At(driver, "enqueue") /\ Head(driver).arg[2] = "start_loop"
Awaiting == At(driver, "wait") /\ Head(driver).arg[2] = "start_loop"
Calling(m) == Doing("broadcast", m) \/ Doing("joined", m)

StartedInv ==
    /\ Starting \/ Doing("started", TRUE) => ~async
    /\ Starting \/ Doing("started", TRUE) \/ Awaiting => ~started
    /\ Doing("started", FALSE) \/ At(driver, "forward") \/ (\E m \in Messages : Calling(m)) => started
    /\ spawned # <<>> => Calling("groups") \/ Calling("transfers")

\* The task of the loop of a worker: in its queue, under way, its result in the
\* result queue.
Loop(w) == <<w, "start_loop">>
Queued(w) == Has(queue[w], {"start_loop"})
LoopResults(w) == [key : {Loop(w)}, value : {"value", "error"}]
Ended(w) == Has(results, LoopResults(w))
Unasked(w) == w > NumWorkers - Len(spawned)        \* the task has yet to reach w
Broken(w) ==                                       \* the loop has ended in an exception
    future[Loop(w)] = "error" \/ Has(results, {[key |-> Loop(w), value |-> "error"]})

TokenInv(w) ==
    /\ OnlyOne(queue[w], {"start_loop"}) /\ OnlyOne(results, LoopResults(w))
    /\ ~(InLoop(w) /\ Queued(w))
    /\ HasLoop(w) => ~Ended(w)
    /\ HasLoop(w) \/ Ended(w) => future[Loop(w)] = "pending"
    /\ Unasked(w) => ~HasLoop(w) /\ ~Ended(w)

\* Where a worker is, at each step of the driver, while no loop of it has failed.
Calm(w) == worker[w] \in {"ready", "loop"}
Expecting(w, m) == Doing("broadcast", m) \/ (Doing("joined", m) /\ inbox[w] # <<>>)
Told(w, m) == Doing("joined", m) /\ inbox[w] = <<>>
PlaceInv(w) ==
    /\ Idling => Calm(w) /\ (HasLoop(w) <=> started) /\ (~started => ~Ended(w))
    /\ Starting => IF w < Target THEN HasLoop(w) /\ Calm(w) ELSE ~HasLoop(w) /\ ~Ended(w)
    /\ Doing("started", TRUE) => HasLoop(w) /\ Calm(w)
    /\ Doing("started", FALSE) => ~HasLoop(w)
    /\ Awaiting => ~HasLoop(w) /\ (w < Target => ~Ended(w))
    /\ Expecting(w, "groups") \/ Expecting(w, "transfers") => Calm(w) /\ (Unasked(w) \/ HasLoop(w))
    /\ Expecting(w, "stop") => Calm(w)
    /\ Expecting(w, "metadata") \/ Told(w, "groups") => worker[w] = "metadata"
    /\ Told(w, "metadata") => worker[w] = "forward"
    /\ Told(w, "transfers") \/ Told(w, "stop") => ~HasLoop(w) /\ ~Unasked(w)
    /\ At(driver, "forward") => worker[w] \in {"forward", "loop"}

\* After its loop has failed a worker takes part in nothing, and the driver waits
\* for it as soon as a step needs it.
LostInv(w) ==
    /\ ~HasLoop(w) /\ ~Unasked(w)
    /\ Idling => started
    /\ Starting => w < Target
    /\ ~Doing("started", FALSE) /\ ~Awaiting /\ ~Told(w, "stop")

LoopInv(w) == TokenInv(w) /\ IF Broken(w) THEN LostInv(w) ELSE PlaceInv(w)

IndInv ==
    /\ TypeOK /\ ListsInv /\ InboxInv /\ EngineInv
    /\ Up => StartedInv /\ \A w \in RemoteWorkers : LoopInv(w)

-----------------------------------------------------------------------------
\* The next steps of both lists.

LEMMA HeadOfDriver ==
  ASSUME ListsInv, driver # <<>>
  PROVE  /\ Head(driver) \in Steps
         /\ Listing(Tail(driver)) /\ Listing(<<>>)
         /\ At(driver, "enqueue") \/ At(driver, "wait") => Head(driver).arg \in Keys
         /\ At(driver, "terminate") => Head(driver).arg[1] \in RemoteWorkers
         /\ At(driver, "broadcast") \/ At(driver, "joined") => Head(driver).arg \in Messages
         /\ At(driver, "started") => Head(driver).arg \in BOOLEAN
<1>1. Head(driver) \in Steps /\ Listing(Tail(driver))
  BY Rests DEF ListsInv
<1>2. Listing(<<>>)
  BY DEF Listing, Chain
<1> QED BY <1>1, <1>2 DEF At, Steps

LEMMA HeadOfSpawned ==
  ASSUME ListsInv, spawned # <<>>
  PROVE  /\ Len(spawned) \in 1 .. NumWorkers
         /\ Head(spawned) = Op("enqueue", <<NumWorkers - Len(spawned) + 1, "start_loop">>)
         /\ NumWorkers - Len(spawned) + 1 \in RemoteWorkers
         /\ Head(spawned).arg \in Keys
         /\ Tail(spawned) \in Seq(Steps) /\ Len(Tail(spawned)) = Len(spawned) - 1
         /\ \A j \in 1 .. Len(Tail(spawned)) : Tail(spawned)[j] =
              Op("enqueue", <<NumWorkers - Len(Tail(spawned)) + j, "start_loop">>)
<1> DEFINE t == Tail(spawned)
<1>1. /\ spawned \in Seq(Steps) /\ Len(spawned) \in 1 .. NumWorkers /\ Head(spawned) = spawned[1]
      /\ t \in Seq(Steps) /\ Len(t) = Len(spawned) - 1 /\ \A i \in 1 .. Len(t) : t[i] = spawned[i + 1]
  <2>1. spawned \in Seq(Steps) /\ Len(spawned) <= NumWorkers
    BY DEF ListsInv
  <2>2. Len(spawned) \in Nat \ {0}
    BY <2>1, EmptySeq
  <2> QED BY <2>1, <2>2, HeadTailProperties
<1>2. \A j \in 1 .. Len(spawned) :
         spawned[j] = Op("enqueue", <<NumWorkers - Len(spawned) + j, "start_loop">>)
  BY DEF ListsInv
<1> HIDE DEF t
<1>3. NumWorkers - Len(spawned) + 1 \in RemoteWorkers /\ 1 \in 1 .. Len(spawned)
  BY <1>1
<1>4. Head(spawned) = Op("enqueue", <<NumWorkers - Len(spawned) + 1, "start_loop">>)
  BY <1>1, <1>2, <1>3
<1>5. Head(spawned).arg \in Keys
  BY <1>3, <1>4 DEF Op, Keys, Methods
<1>6. ASSUME NEW j \in 1 .. Len(t)
      PROVE  t[j] = Op("enqueue", <<NumWorkers - Len(t) + j, "start_loop">>)
  <2>1. j + 1 \in 1 .. Len(spawned) /\ NumWorkers - Len(spawned) + (j + 1) = NumWorkers - Len(t) + j
    BY <1>1
  <2>2. t[j] = Op("enqueue", <<NumWorkers - Len(spawned) + (j + 1), "start_loop">>)
    BY <1>1, <1>2, <2>1
  <2> QED BY <2>1, <2>2
<1> QED BY <1>1, <1>3, <1>4, <1>5, <1>6 DEF t

\* All the workers are yet to be asked.
LEMMA AllSpawned ==
  /\ EachWorker("enqueue", "start_loop") \in Seq(Steps)
  /\ Len(EachWorker("enqueue", "start_loop")) = NumWorkers
  /\ EachWorker("enqueue", "start_loop") # <<>>
  /\ \A j \in 1 .. NumWorkers : EachWorker("enqueue", "start_loop")[j] =
       Op("enqueue", <<NumWorkers - NumWorkers + j, "start_loop">>)
<1> DEFINE d == EachWorker("enqueue", "start_loop")
<1>1. d \in Seq(Steps) /\ d # <<>>
  BY ChainOfWorkers DEF From, Chain, Methods
<1>2. DOMAIN d = 1 .. NumWorkers /\ \A j \in 1 .. NumWorkers : d[j] = Op("enqueue", <<j, "start_loop">>)
  BY DEF EachWorker
<1> HIDE DEF d
<1>3. Len(d) = NumWorkers
  BY <1>1, <1>2
<1>4. \A j \in 1 .. NumWorkers : NumWorkers - NumWorkers + j = j
  OBVIOUS
<1> QED BY <1>1, <1>2, <1>3, <1>4 DEF d

LEMMA ListsStep ==
  ASSUME ListsInv, Next
  PROVE  ListsInv'
<1> DEFINE SpawnedInv == /\ spawned \in Seq(Steps) /\ Len(spawned) <= NumWorkers
                         /\ \A j \in 1 .. Len(spawned) :
                              spawned[j] = Op("enqueue", <<NumWorkers - Len(spawned) + j, "start_loop">>)
<1>1. Listing(driver) /\ SpawnedInv /\ Listing(<<>>)
  BY DEF ListsInv, Listing, Chain
<1>2. \/ driver' \in {driver, <<>>}
      \/ driver # <<>> /\ driver' = Tail(driver)
      \/ \E kind \in StepKinds : driver' = Program(kind)
      \/ driver' = EachWorker("enqueue", "control") \o EachWorker("wait", "control")
      \/ driver' = EachWorker("terminate", "none") \o <<Op("close_handler", "none")>>
  BY Zenon DEF Next, EngineStep, Control, Shutdown, Driver, EnqueueByDriver, SetStarted, SendBroadcast,
       BroadcastReturns, Forward, Wait, Terminate, CloseHandler, CollectiveFails, EnqueueByTask,
       ResultHandler, HandleResult, HandleTerminate, Drain, WorkerMonitor, NoticeDeath, KillWorker,
       CloseAfterKill, WorkerProcess, TakeTask, Receive, Killed, Raises, engineVars, At
<1>3. \/ spawned' \in {spawned, <<>>}
      \/ spawned # <<>> /\ spawned' = Tail(spawned)
      \/ spawned' = EachWorker("enqueue", "start_loop")
  BY Zenon DEF Next, EngineStep, Control, Shutdown, Driver, EnqueueByDriver, SetStarted, SendBroadcast,
       BroadcastReturns, Forward, Wait, Terminate, CloseHandler, CollectiveFails, EnqueueByTask,
       ResultHandler, HandleResult, HandleTerminate, Drain, WorkerMonitor, NoticeDeath, KillWorker,
       CloseAfterKill, WorkerProcess, TakeTask, Receive, Killed, Raises, engineVars, At
<1>4. Listing(driver')
  <2>1. /\ Ends(Op("wait", <<NumWorkers, "control">>)) /\ Ends(Op("close_handler", "none"))
    BY DEF Ends, Op
  <2>2. /\ Listing(EachWorker("enqueue", "control") \o EachWorker("wait", "control"))
        /\ Listing(EachWorker("terminate", "none") \o <<Op("close_handler", "none")>>)
    BY <2>1, ChainOfControl, ChainOfShutdown, ListingOf
  <2>3. driver # <<>> => Listing(Tail(driver))
    BY HeadOfDriver
  <2>4. \A kind \in StepKinds : Listing(Program(kind))
    BY Programs
  <2> QED BY <1>1, <1>2, <2>2, <2>3, <2>4, Zenon
<1>5. SpawnedInv'
  <2>1. CASE spawned' = spawned
    BY <1>1, <2>1
  <2>2. CASE spawned' = <<>>
    <3>1. <<>> \in Seq(Steps) /\ Len(<<>>) = 0 /\ 0 <= NumWorkers /\ 1 .. 0 = {}
      OBVIOUS
    <3> QED BY <2>2, <3>1
  <2>3. CASE spawned # <<>> /\ spawned' = Tail(spawned)
    <3>1. Len(Tail(spawned)) <= NumWorkers
      BY <2>3, HeadOfSpawned
    <3> QED BY <2>3, <3>1, HeadOfSpawned
  <2>4. CASE spawned' = EachWorker("enqueue", "start_loop")
    BY <2>4, AllSpawned
  <2> QED BY <1>3, <2>1, <2>2, <2>3, <2>4
<1> QED BY <1>4, <1>5 DEF ListsInv

LEMMA KeysAreFinite ==
  ASSUME NEW T \in SUBSET Keys
  PROVE  Cardinality(T) \in Nat
<1>1. IsFiniteSet(RemoteWorkers)
  BY FS_Interval
<1>2. IsFiniteSet(Methods)
  <2>1. Methods = {"start_loop"} \cup {"control"}
    BY DEF Methods
  <2> QED BY <2>1, FS_Singleton, FS_Union
<1>3. IsFiniteSet(Keys)
  BY <1>1, <1>2, FS_Product DEF Keys
<1> QED BY <1>3, FS_Subset, FS_CardinalityType

LEMMA TypeStep ==
  ASSUME TypeOK, ListsInv, Next
  PROVE  TypeOK'
<1> USE DEF TypeOK
<1>0. ASSUME NEW w \in RemoteWorkers, NEW m \in Methods \cup {"TERMINATE"},
             queue' = [queue EXCEPT ![w] = Append(@, m)]
      PROVE  queue' \in [RemoteWorkers -> Seq(Methods \cup {"TERMINATE"})]
  <2>1. Append(queue[w], m) \in Seq(Methods \cup {"TERMINATE"})
    OBVIOUS
  <2> QED BY <1>0, <2>1
<1>1. ASSUME NEW kind \in StepKinds, EngineStep(kind) PROVE TypeOK'
  BY <1>1 DEF EngineStep, threads
<1>2. ASSUME Control PROVE TypeOK'
  BY <1>2 DEF Control, threads, executor
<1>3. ASSUME Shutdown PROVE TypeOK'
  BY <1>3 DEF Shutdown
<1>4. ASSUME EnqueueByDriver PROVE TypeOK'
  <2>1. driver # <<>> /\ Head(driver).arg \in Keys
    BY <1>4, HeadOfDriver DEF EnqueueByDriver, At
  <2>2. Head(driver).arg[1] \in RemoteWorkers /\ Head(driver).arg[2] \in Methods
    BY <2>1 DEF Keys
  <2>3. /\ UNCHANGED <<open, worker, inbox, results, handler, monitor>>
        /\ Register(Head(driver).arg) \/ Put(Head(driver).arg) \/ PutFails(Head(driver).arg)
    BY <1>4 DEF EnqueueByDriver, threads
  <2>4. engine' \in {"up", "failed", "shutdown"} /\ async' \in BOOLEAN /\ started' \in BOOLEAN
    BY <1>4 DEF EnqueueByDriver, Register, Put, PutFails, executor
  <2>5. CASE Register(Head(driver).arg)
    BY <2>1, <2>3, <2>4, <2>5 DEF Register
  <2>6. CASE Put(Head(driver).arg)
    <3>1. queue' \in [RemoteWorkers -> Seq(Methods \cup {"TERMINATE"})]
      BY <1>0, <2>2, <2>6 DEF Put
    <3> QED BY <2>3, <2>4, <2>6, <3>1 DEF Put
  <2>7. CASE PutFails(Head(driver).arg)
    BY <2>1, <2>3, <2>4, <2>7 DEF PutFails
  <2> QED BY <2>3, <2>5, <2>6, <2>7
<1>5. ASSUME EnqueueByTask PROVE TypeOK'
  <2>1. spawned # <<>> /\ Head(spawned).arg \in Keys
    BY <1>5, HeadOfSpawned DEF EnqueueByTask, At
  <2>2. Head(spawned).arg[1] \in RemoteWorkers /\ Head(spawned).arg[2] \in Methods
    BY <2>1 DEF Keys
  <2>3. /\ UNCHANGED <<open, worker, inbox, results, handler, monitor>>
        /\ Register(Head(spawned).arg) \/ Put(Head(spawned).arg) \/ PutFails(Head(spawned).arg)
    BY <1>5 DEF EnqueueByTask, threads
  <2>4. engine' \in {"up", "failed", "shutdown"} /\ async' \in BOOLEAN /\ started' \in BOOLEAN
    BY <1>5 DEF EnqueueByTask, Register, Put, PutFails, executor
  <2>5. CASE Register(Head(spawned).arg)
    BY <2>1, <2>3, <2>4, <2>5 DEF Register
  <2>6. CASE Put(Head(spawned).arg)
    <3>1. queue' \in [RemoteWorkers -> Seq(Methods \cup {"TERMINATE"})]
      BY <1>0, <2>2, <2>6 DEF Put
    <3> QED BY <2>3, <2>4, <2>6, <3>1 DEF Put
  <2>7. CASE PutFails(Head(spawned).arg)
    BY <2>1, <2>3, <2>4, <2>7 DEF PutFails
  <2> QED BY <2>3, <2>5, <2>6, <2>7
<1>6. ASSUME SetStarted PROVE TypeOK'
  <2>1. Head(driver).arg \in BOOLEAN
    BY <1>6, HeadOfDriver DEF SetStarted, At
  <2> QED BY <1>6, <2>1 DEF SetStarted, threads
<1>7. ASSUME SendBroadcast PROVE TypeOK'
  <2>1. Head(driver).arg \in Messages
    BY <1>7, HeadOfDriver DEF SendBroadcast, At
  <2>2. \A w \in RemoteWorkers : Append(inbox[w], Head(driver).arg) \in Seq(Messages)
    BY <2>1
  <2>3. inbox' \in [RemoteWorkers -> Seq(Messages)]
    BY <1>7, <2>2 DEF SendBroadcast
  <2> QED BY <1>7, <2>3 DEF SendBroadcast, threads, executor
<1>8. ASSUME BroadcastReturns PROVE TypeOK'
  BY <1>8 DEF BroadcastReturns, threads, executor
<1>9. ASSUME Forward PROVE TypeOK'
  BY <1>9 DEF Forward, threads, executor
<1>10. ASSUME CollectiveFails PROVE TypeOK'
  BY <1>10 DEF CollectiveFails, threads
<1>11. ASSUME Wait PROVE TypeOK'
  BY <1>11 DEF Wait, threads
<1>12. ASSUME Terminate PROVE TypeOK'
  <2>1. Head(driver).arg[1] \in RemoteWorkers
    BY <1>12, HeadOfDriver DEF Terminate, At
  <2>2. UNCHANGED <<async, engine, started, future, tasks, inbox, results, handler, monitor>>
    BY <1>12 DEF Terminate, threads, executor
  <2>3. open' \in [RemoteWorkers -> BOOLEAN]
    BY <1>12, <2>1 DEF Terminate
  <2>4. /\ queue' \in [RemoteWorkers -> Seq(Methods \cup {"TERMINATE"})]
        /\ worker' \in [RemoteWorkers -> {"ready", "loop", "metadata", "forward", "dead", "exited"}]
    BY <1>0, <1>12, <2>1 DEF Terminate
  <2> QED BY <2>2, <2>3, <2>4
<1>13. ASSUME CloseHandler PROVE TypeOK'
  BY <1>13 DEF CloseHandler, threads, executor
<1>14. ASSUME NEW w \in RemoteWorkers, TakeTask(w) PROVE TypeOK'
  <2>1. <<w, "control">> \in Keys
    BY DEF Keys, Methods
  <2>2. [key |-> <<w, "control">>, value |-> "value"] \in Results
    BY <2>1 DEF Results
  <2>3. results' \in Seq(Results \cup {Sentinel})
    BY <1>14, <2>2 DEF TakeTask
  <2> QED BY <1>14, <2>3 DEF TakeTask, threads, executor, engineVars
<1>15. ASSUME NEW w \in RemoteWorkers, NEW value \in {"value", "error"}, LoopEnds(w, value)
       PROVE  /\ results' \in Seq(Results \cup {Sentinel})
              /\ worker' \in [RemoteWorkers -> {"ready", "loop", "metadata", "forward", "dead", "exited"}]
  <2>1. <<w, "start_loop">> \in Keys
    BY DEF Keys, Methods
  <2>2. [key |-> <<w, "start_loop">>, value |-> value] \in Results
    BY <2>1 DEF Results
  <2> QED BY <1>15, <2>2 DEF LoopEnds
<1>16. ASSUME NEW w \in RemoteWorkers, Receive(w) PROVE TypeOK'
  <2>1. /\ results' \in Seq(Results \cup {Sentinel})
        /\ worker' \in [RemoteWorkers -> {"ready", "loop", "metadata", "forward", "dead", "exited"}]
    <3>1. CASE LoopEnds(w, "value")
      BY <1>15, <3>1
    <3>2. CASE ~LoopEnds(w, "value")
      BY <1>16, <3>2 DEF Receive
    <3> QED BY <3>1, <3>2
  <2>2. inbox' \in [RemoteWorkers -> Seq(Messages)]
    BY <1>16, HeadTailProperties DEF Receive
  <2> QED BY <1>16, <2>1, <2>2 DEF Receive, threads, executor, engineVars
<1>17. ASSUME NEW w \in RemoteWorkers, Killed(w) PROVE TypeOK'
  BY <1>17 DEF Killed, threads, executor, engineVars
<1>18. ASSUME NEW w \in RemoteWorkers, Raises(w) PROVE TypeOK'
  BY <1>15, <1>18 DEF Raises, threads, executor, engineVars
<1>19. ASSUME HandleResult PROVE TypeOK'
  <2>1. results # <<>> /\ Head(results) \in Results /\ Tail(results) \in Seq(Results \cup {Sentinel})
    BY <1>19, HeadTailProperties DEF HandleResult
  <2>2. Head(results).key \in Keys /\ Head(results).value \in {"value", "error"}
    BY <2>1 DEF Results
  <2> QED BY <1>19, <2>1, <2>2 DEF HandleResult, threads, executor
<1>20. ASSUME HandleTerminate PROVE TypeOK'
  BY <1>20, KeysAreFinite DEF HandleTerminate, executor
<1>21. ASSUME Drain PROVE TypeOK'
  <2>1. UNCHANGED <<async, engine, started, tasks, queue, open, worker, inbox, results, monitor>>
    BY <1>21 DEF Drain, executor
  <2>2. CASE handler' = [handler EXCEPT !.pc = "done", !.left = {}] /\ UNCHANGED future
    BY <2>1, <2>2
  <2>3. CASE \E k \in handler.left : /\ future' = [future EXCEPT ![k] = "error"]
                                     /\ handler' = [handler EXCEPT !.left = @ \ {k}]
    <3>1. PICK k \in handler.left : /\ future' = [future EXCEPT ![k] = "error"]
                                    /\ handler' = [handler EXCEPT !.left = @ \ {k}]
      BY <2>3
    <3>2. future' \in [Keys -> {"none", "pending", "value", "error"}]
      BY <3>1
    <3>3. handler' \in [pc : {"run", "drain", "done"}, left : SUBSET Keys, size : Nat]
      BY <3>1
    <3> QED BY <2>1, <3>2, <3>3
  <2> QED BY <1>21, <2>2, <2>3 DEF Drain
<1>22. ASSUME NoticeDeath PROVE TypeOK'
  BY <1>22 DEF NoticeDeath, executor, engineVars
<1>23. ASSUME KillWorker PROVE TypeOK'
  BY <1>23 DEF KillWorker, executor
<1>24. ASSUME CloseAfterKill PROVE TypeOK'
  <2>1. results' \in Seq(Results \cup {Sentinel})
    BY <1>24 DEF CloseAfterKill
  <2>2. monitor' \in [pc : {"watch", "kill", "done"}, left : SUBSET RemoteWorkers, close : BOOLEAN]
    BY <1>24 DEF CloseAfterKill
  <2> QED BY <1>24, <2>1, <2>2 DEF CloseAfterKill, executor, engineVars
<1> QED BY <1>1, <1>2, <1>3, <1>4, <1>5, <1>6, <1>7, <1>8, <1>9, <1>10, <1>11, <1>12, <1>13, <1>14,
           <1>16, <1>17, <1>18, <1>19, <1>20, <1>21, <1>22, <1>23, <1>24, Zenon
        DEF Next, Driver, ResultHandler, WorkerMonitor, WorkerProcess

LEMMA InboxStep ==
  ASSUME TypeOK, ListsInv, InboxInv, EngineInv, Next, NEW w \in RemoteWorkers
  PROVE  \/ inbox'[w] = <<>>
         \/ At(driver, "joined")' /\ inbox'[w] = <<Head(driver').arg>>
         \/ engine' = "failed" /\ Len(inbox'[w]) = 1
<1>1. \/ inbox[w] = <<>>
      \/ At(driver, "joined") /\ inbox[w] = <<Head(driver).arg>>
      \/ engine = "failed" /\ Len(inbox[w]) = 1
  BY DEF InboxInv
<1>2. inbox \in [RemoteWorkers -> Seq(Messages)]
  BY DEF TypeOK
<1>3. CASE inbox' = inbox /\ driver' = driver /\ (engine' = engine \/ engine = "up")
  BY <1>1, <1>3 DEF At
<1>4. CASE inbox' = inbox /\ engine' = "failed"
  <2>1. At(driver, "joined") => Head(driver).arg \in Messages
    BY HeadOfDriver DEF At
  <2> QED BY <1>1, <1>4, <2>1
<1>5. CASE inbox' = inbox /\ ~At(driver, "joined") /\ engine # "failed"
  BY <1>1, <1>5
<1>6. CASE BroadcastReturns
  BY <1>6 DEF BroadcastReturns
<1>7. CASE SendBroadcast
  <2>1. driver # <<>> /\ Head(driver).op = "broadcast" /\ engine # "failed" /\ inbox[w] = <<>>
    BY <1>1, <1>7 DEF SendBroadcast, At, EngineInv
  <2>2. Tail(driver) # <<>> /\ Head(Tail(driver)) = Op("joined", Head(driver).arg)
    BY <2>1, Rests DEF ListsInv, Ends, Follows, Op
  <2>3. inbox'[w] = <<Head(driver).arg>> /\ driver' = Tail(driver)
    <3>1. inbox'[w] = Append(inbox[w], Head(driver).arg) /\ driver' = Tail(driver)
      BY <1>7 DEF SendBroadcast
    <3> QED BY <2>1, <3>1
  <2> QED BY <2>2, <2>3 DEF At, Op
<1>8. ASSUME NEW v \in RemoteWorkers, Receive(v)
      PROVE  \/ inbox'[w] = <<>>
             \/ At(driver, "joined")' /\ inbox'[w] = <<Head(driver').arg>>
             \/ engine' = "failed" /\ Len(inbox'[w]) = 1
  <2>1. driver' = driver /\ engine' = engine
    BY <1>8 DEF Receive, engineVars, executor
  <2>2. CASE v = w
    <3>1. inbox[w] # <<>> /\ inbox'[w] = Tail(inbox[w])
      BY <1>2, <1>8, <2>2 DEF Receive
    <3>2. inbox[w] \in Seq(Messages) /\ Len(inbox[w]) = 1
      BY <1>1, <1>2, <3>1
    <3>3. Tail(inbox[w]) = <<>>
      <4>1. Tail(inbox[w]) \in Seq(Messages) /\ Len(Tail(inbox[w])) = 0
        BY <3>1, <3>2, HeadTailProperties
      <4> QED BY <4>1, EmptySeq
    <3> QED BY <3>1, <3>3
  <2>3. CASE v # w
    <3>1. inbox'[w] = inbox[w]
      BY <1>2, <1>8, <2>3 DEF Receive
    <3> QED BY <1>1, <2>1, <3>1 DEF At
  <2> QED BY <2>2, <2>3
<1>9. ASSUME NEW kind \in StepKinds, EngineStep(kind) PROVE inbox' = inbox /\ ~At(driver, "joined") /\ engine # "failed"
  BY <1>9 DEF EngineStep, Free, At
<1>10. ASSUME Control \/ Shutdown PROVE inbox' = inbox /\ ~At(driver, "joined") /\ engine # "failed"
  BY <1>10 DEF Control, Shutdown, Free, At
<1>11. ASSUME EnqueueByDriver \/ SetStarted \/ Forward \/ Terminate \/ CloseHandler
       PROVE  inbox' = inbox /\ ~At(driver, "joined") /\ engine # "failed"
  BY <1>11 DEF EnqueueByDriver, SetStarted, Forward, Terminate, CloseHandler, At, EngineInv
<1>12. ASSUME Wait PROVE inbox' = inbox /\ ~At(driver, "joined") /\ engine # "failed"
  BY <1>12 DEF Wait, At, EngineInv
<1>13. ASSUME CollectiveFails PROVE inbox' = inbox /\ engine' = "failed"
  BY <1>13 DEF CollectiveFails
<1>14. ASSUME EnqueueByTask \/ ResultHandler \/ WorkerMonitor
       PROVE  inbox' = inbox /\ driver' = driver /\ engine' = engine
  BY <1>14 DEF EnqueueByTask, Register, Put, PutFails, executor, ResultHandler, HandleResult, HandleTerminate,
       Drain, WorkerMonitor, NoticeDeath, KillWorker, CloseAfterKill, engineVars
<1>15. ASSUME NEW v \in RemoteWorkers, TakeTask(v) \/ Killed(v) \/ Raises(v)
       PROVE  inbox' = inbox /\ driver' = driver /\ engine' = engine
  BY <1>15 DEF TakeTask, Killed, Raises, executor, engineVars
<1> QED BY <1>3, <1>4, <1>5, <1>6, <1>7, <1>8, <1>9, <1>10, <1>11, <1>12, <1>13, <1>14, <1>15, Zenon
        DEF Next, Driver, WorkerProcess

\* A process that has ended stays so, and the engine does not come up again.
LEMMA UpStep ==
  ASSUME TypeOK, EngineInv, Next
  PROVE  /\ AllAlive' => AllAlive
         /\ engine' = "up" => engine = "up"
         /\ engine = "failed" => engine' = "failed" /\ driver' = driver
<1> USE DEF Alive
<1>1. ASSUME NEW v \in RemoteWorkers, worker[v] \in {"dead", "exited"}
      PROVE  worker'[v] \in {"dead", "exited"}
  <2>1. CASE worker' = worker
    BY <1>1, <2>1
  <2>2. ASSUME NEW w \in RemoteWorkers, TakeTask(w) \/ Receive(w) \/ Raises(w)
        PROVE  worker'[v] \in {"dead", "exited"}
    <3>1. worker[w] \notin {"dead", "exited"}
      BY <2>2 DEF TakeTask, Receive, Raises, InLoop
    <3>2. \A u \in RemoteWorkers : u # w => worker'[u] = worker[u]
      BY <2>2 DEF TypeOK, TakeTask, Receive, Raises, LoopEnds
    <3> QED BY <1>1, <3>1, <3>2
  <2>3. ASSUME NEW w \in RemoteWorkers, Killed(w) PROVE worker'[v] \in {"dead", "exited"}
    BY <1>1, <2>3 DEF TypeOK, Killed
  <2>4. CASE Forward
    BY <1>1, <2>4 DEF Forward
  <2>5. CASE Terminate \/ KillWorker
    <3>1. worker' = worker \/ \E u : worker' = [worker EXCEPT ![u] = "dead"]
      BY <2>5 DEF Terminate, KillWorker
    <3> QED BY <1>1, <3>1 DEF TypeOK
  <2>6. ASSUME \/ \E kind \in StepKinds : EngineStep(kind)
               \/ Control \/ Shutdown \/ EnqueueByDriver \/ SetStarted \/ SendBroadcast
               \/ BroadcastReturns \/ Wait \/ CloseHandler \/ CollectiveFails \/ EnqueueByTask
               \/ ResultHandler \/ NoticeDeath \/ CloseAfterKill
        PROVE  worker' = worker
    BY <2>6 DEF EngineStep, Control, Shutdown, EnqueueByDriver, SetStarted, SendBroadcast, BroadcastReturns,
         Wait, CloseHandler, CollectiveFails, EnqueueByTask, ResultHandler, HandleResult, HandleTerminate,
         Drain, NoticeDeath, CloseAfterKill
  <2> QED BY <2>1, <2>2, <2>3, <2>4, <2>5, <2>6, Zenon DEF Next, Driver, WorkerMonitor, WorkerProcess
<1>2. AllAlive' => AllAlive
  BY <1>1 DEF AllAlive
<1>3. \/ engine' = engine \/ engine' \in {"failed", "shutdown"}
  BY Zenon DEF Next, EngineStep, Control, Shutdown, Driver, EnqueueByDriver, SetStarted, SendBroadcast,
       BroadcastReturns, Forward, Wait, Terminate, CloseHandler, CollectiveFails, EnqueueByTask, Register, Put,
       PutFails, executor, ResultHandler, HandleResult, HandleTerminate, Drain, WorkerMonitor, NoticeDeath,
       KillWorker, CloseAfterKill, WorkerProcess, TakeTask, Receive, Killed, Raises, engineVars
<1>4. ASSUME engine = "failed" PROVE engine' = "failed" /\ driver' = driver
  <2>1. driver = <<>>
    BY <1>4 DEF EngineInv
  <2>2. ~Driver /\ ~CollectiveFails /\ ~Control /\ ~Shutdown /\ \A kind \in StepKinds : ~EngineStep(kind)
    BY <1>4, <2>1 DEF Driver, EnqueueByDriver, SetStarted, SendBroadcast, BroadcastReturns, Forward, Wait,
         Terminate, CloseHandler, CollectiveFails, At, Control, Shutdown, EngineStep, Free
  <2>3. engine' = engine /\ driver' = driver
    BY <2>2, Zenon DEF Next, EnqueueByTask, Register, Put, PutFails, executor, ResultHandler, HandleResult,
         HandleTerminate, Drain, WorkerMonitor, NoticeDeath, KillWorker, CloseAfterKill, WorkerProcess,
         TakeTask, Receive, Killed, Raises, engineVars
  <2> QED BY <1>4, <2>3
<1> QED BY <1>2, <1>3, <1>4

\* The engine fails only after a process has ended.
LEMMA FailsAfterDeath ==
  ASSUME IndInv, Next, engine # "failed", engine' = "failed"
  PROVE  driver' = <<>> /\ ~AllAlive
<1> USE DEF IndInv
<1>1. \/ EnqueueByDriver /\ PutFails(Head(driver).arg) /\ driver' = <<>>
      \/ CollectiveFails
      \/ At(driver, "wait") /\ future[Head(driver).arg] = "error" /\ driver' = <<>>
  BY Zenon DEF Next, EngineStep, Control, Shutdown, Driver, EnqueueByDriver, SetStarted, SendBroadcast,
       BroadcastReturns, Forward, Wait, Terminate, CloseHandler, EnqueueByTask, Register, Put,
       PutFails, executor, ResultHandler, HandleResult, HandleTerminate, Drain, WorkerMonitor, NoticeDeath,
       KillWorker, CloseAfterKill, WorkerProcess, TakeTask, Receive, Killed, Raises, engineVars
<1>2. CASE CollectiveFails
  BY <1>2 DEF CollectiveFails, AllAlive, Alive
<1>3. CASE EnqueueByDriver /\ PutFails(Head(driver).arg) /\ driver' = <<>>
  <2>1. At(driver, "enqueue")
    BY <1>3 DEF EnqueueByDriver
  <2>2. Head(driver).arg[1] \in RemoteWorkers /\ ~open[Head(driver).arg[1]]
    BY <1>3, <2>1, HeadOfDriver DEF PutFails, At, Keys
  <2>3. engine = "up"
    BY <2>1 DEF EngineInv, At, TypeOK
  <2> QED BY <1>3, <2>2, <2>3 DEF EngineInv, Up
<1>4. CASE At(driver, "wait") /\ future[Head(driver).arg] = "error" /\ driver' = <<>>
  <2>1. engine = "up"
    BY <1>4 DEF EngineInv, At, TypeOK
  <2>2. PICK w \in RemoteWorkers, m \in Methods : Head(driver).arg = <<w, m>>
    BY <1>4, HeadOfDriver DEF At, Keys
  <2>3. ASSUME Up PROVE FALSE
    <3>1. CASE m = "control"
      BY <1>4, <2>2, <2>3, <3>1 DEF EngineInv
    <3>2. CASE m = "start_loop"
      <4>1. Broken(w) /\ Awaiting
        BY <1>4, <2>2, <3>2 DEF Broken, Loop, Awaiting
      <4> QED BY <2>3, <4>1 DEF LoopInv, LostInv
    <3> QED BY <3>1, <3>2 DEF Methods
  <2> QED BY <1>4, <2>1, <2>3 DEF Up
<1> QED BY <1>1, <1>2, <1>3, <1>4

\* The driver stops the workers in a shutdown, and does nothing else then.
Stopping == At(driver, "terminate") \/ At(driver, "close_handler")

LEMMA StoppingStep ==
  ASSUME IndInv, Next
  PROVE  /\ Stopping' => engine' = "shutdown"
         /\ engine' = "shutdown" => driver' = <<>> \/ Stopping'
<1> USE DEF Stopping
<1>1. Stopping => engine = "shutdown"
  BY DEF IndInv, EngineInv
<1>2. engine = "shutdown" => driver = <<>> \/ Stopping
  BY DEF IndInv, EngineInv
<1>3. /\ driver # <<>> => /\ Head(driver) \in Steps
                          /\ Tail(driver) = <<>> => Ends(Head(driver))
                          /\ Tail(driver) # <<>> => Follows(Head(driver), Head(Tail(driver)))
      /\ ~At(<<>>, "terminate") /\ ~At(<<>>, "close_handler")
  BY Rests DEF IndInv, ListsInv, At
<1>4. CASE driver' = driver /\ engine' = engine
  BY <1>1, <1>2, <1>4 DEF At
<1>5. CASE engine' = "failed" /\ engine # "failed"
  BY <1>3, <1>5, FailsAfterDeath DEF At
<1>6. CASE driver # <<>> /\ driver' = Tail(driver) /\ engine' = engine
  <2>1. ASSUME Stopping' PROVE Stopping
    <3>1. Tail(driver) # <<>> /\ Head(Tail(driver)).op \in {"terminate", "close_handler"}
      BY <1>6, <2>1 DEF At
    <3>2. Head(driver).op = "terminate"
      BY <1>3, <1>6, <3>1 DEF Follows, Op
    <3> QED BY <1>6, <3>2 DEF At
  <2>2. ASSUME Stopping, Tail(driver) # <<>> PROVE Stopping'
    <3>1. Head(Tail(driver)).op \in {"terminate", "close_handler"}
      BY <1>3, <1>6, <2>2 DEF Follows, Op, At
    <3> QED BY <1>6, <2>2, <3>1 DEF At
  <2> QED BY <1>1, <1>2, <1>6, <2>1, <2>2
<1>7. ASSUME NEW kind \in StepKinds, EngineStep(kind)
      PROVE  /\ Stopping' => engine' = "shutdown"
             /\ engine' = "shutdown" => driver' = <<>> \/ Stopping'
  <2>1. engine' = "up" /\ driver' = Program(kind)
    BY <1>7 DEF EngineStep, Free
  <2>2. driver' # <<>> => Head(driver').op \in {"broadcast", "enqueue"}
    <3>1. driver' # <<>> => Head(driver') \in {Op("broadcast", "stop"), Op("enqueue", <<1, "start_loop">>),
                                              Op("broadcast", "transfers"), Op("broadcast", "groups")}
      BY <2>1, Programs, Zenon
    <3> QED BY <3>1 DEF Op
  <2> QED BY <2>1, <2>2 DEF At
<1>8. CASE Control
  <2>1. engine' = "up" /\ driver' # <<>> /\ Head(driver').op = "enqueue"
    <3>1. Ends(Op("wait", <<NumWorkers, "control">>))
      BY DEF Ends, Op
    <3>2. driver' = EachWorker("enqueue", "control") \o EachWorker("wait", "control") /\ engine' = "up"
      BY <1>8 DEF Control, Free, executor
    <3>3. driver' # <<>> /\ Head(driver') = Op("enqueue", <<1, "control">>)
      BY <3>1, <3>2, ChainOfControl, ListingOf, Zenon
    <3> QED BY <3>2, <3>3 DEF Op
  <2> QED BY <2>1 DEF At
<1>9. CASE Shutdown
  <2>1. engine' = "shutdown" /\ driver = <<>>
    BY <1>9 DEF Shutdown, Free
  <2>2. CASE driver' = driver
    BY <2>1, <2>2
  <2>3. CASE driver' = EachWorker("terminate", "none") \o <<Op("close_handler", "none")>>
    <3>1. Ends(Op("close_handler", "none"))
      BY DEF Ends, Op
    <3>2. driver' # <<>> /\ Head(driver') = Op("terminate", <<1, "none">>)
      BY <2>3, <3>1, ChainOfShutdown, ListingOf, Zenon
    <3> QED BY <2>1, <3>2 DEF At, Op
  <2> QED BY <1>9, <2>2, <2>3 DEF Shutdown
<1>10. ASSUME EnqueueByDriver PROVE \/ driver' = driver /\ engine' = engine
                                    \/ engine' = "failed" /\ engine # "failed"
                                    \/ driver # <<>> /\ driver' = Tail(driver) /\ engine' = engine
  <2>1. engine # "failed" /\ driver # <<>>
    BY <1>10 DEF EnqueueByDriver, At, IndInv, EngineInv
  <2> QED BY <1>10, <2>1 DEF EnqueueByDriver, Register, Put, executor
<1>11. ASSUME CollectiveFails \/ Wait PROVE \/ engine' = "failed" /\ engine # "failed"
                                            \/ driver # <<>> /\ driver' = Tail(driver) /\ engine' = engine
  <2>1. engine # "failed" /\ driver # <<>>
    BY <1>11 DEF CollectiveFails, Wait, At, IndInv, EngineInv
  <2> QED BY <1>11, <2>1 DEF CollectiveFails, Wait
<1>12. ASSUME SetStarted \/ SendBroadcast \/ BroadcastReturns \/ Forward \/ Terminate \/ CloseHandler
       PROVE  driver # <<>> /\ driver' = Tail(driver) /\ engine' = engine
  BY <1>12 DEF SetStarted, SendBroadcast, BroadcastReturns, Forward, Terminate, CloseHandler, At, executor
<1>13. ASSUME EnqueueByTask \/ ResultHandler \/ WorkerMonitor
       PROVE  driver' = driver /\ engine' = engine
  BY <1>13 DEF EnqueueByTask, Register, Put, PutFails, executor, ResultHandler, HandleResult, HandleTerminate,
       Drain, WorkerMonitor, NoticeDeath, KillWorker, CloseAfterKill, engineVars
<1>14. ASSUME NEW v \in RemoteWorkers, WorkerProcess(v) \/ Killed(v) \/ Raises(v)
       PROVE  driver' = driver /\ engine' = engine
  BY <1>14 DEF WorkerProcess, TakeTask, Receive, Killed, Raises, executor, engineVars
<1> QED BY <1>4, <1>5, <1>6, <1>7, <1>8, <1>9, <1>10, <1>11, <1>12, <1>13, <1>14, Zenon DEF Next, Driver

\* The monitor kills the workers only after one has ended.
LEMMA KillsAfterDeath ==
  ASSUME IndInv, Next, monitor'.pc = "kill"
  PROVE  ~AllAlive
<1>1. monitor \in [pc : {"watch", "kill", "done"}, left : SUBSET RemoteWorkers, close : BOOLEAN]
  BY DEF IndInv, TypeOK
<1>2. CASE NoticeDeath
  BY <1>2 DEF NoticeDeath, AllAlive
<1>3. CASE Shutdown
  BY <1>1, <1>3 DEF Shutdown, IndInv, EngineInv
<1>4. CASE KillWorker \/ CloseAfterKill
  BY <1>4 DEF KillWorker, CloseAfterKill, IndInv, EngineInv
<1>5. ~NoticeDeath /\ ~Shutdown /\ ~KillWorker /\ ~CloseAfterKill => monitor' = monitor
  BY Zenon DEF Next, EngineStep, Control, Driver, EnqueueByDriver, SetStarted, SendBroadcast,
       BroadcastReturns, Forward, Wait, Terminate, CloseHandler, CollectiveFails, EnqueueByTask,
       ResultHandler, HandleResult, HandleTerminate, Drain, WorkerMonitor,
       WorkerProcess, TakeTask, Receive, Killed, Raises, threads
<1> QED BY <1>2, <1>3, <1>4, <1>5 DEF IndInv, EngineInv

\* The results of the tasks that the workers do.
LEMMA HealthyResults ==
  ASSUME IndInv, Next, Up, Up'
  PROVE  /\ \A w \in RemoteWorkers : open'[w] /\ future'[<<w, "control">>] # "error"
         /\ handler'.pc = "run" /\ ~Has(results', FailureResults)
<1>1. /\ \A w \in RemoteWorkers : open[w] /\ future[<<w, "control">>] # "error"
      /\ handler.pc = "run" /\ ~Has(results, FailureResults)
      /\ monitor.pc # "kill" /\ engine = "up" /\ engine' = "up" /\ ~Stopping
      /\ results \in Seq(Results \cup {Sentinel}) /\ future \in [Keys -> {"none", "pending", "value", "error"}]
  BY DEF IndInv, EngineInv, TypeOK, Up, Stopping
<1>2. /\ ~Shutdown /\ ~Terminate /\ ~CloseHandler /\ ~Drain /\ ~NoticeDeath /\ ~KillWorker /\ ~CloseAfterKill
      /\ ~CollectiveFails
  BY <1>1 DEF Shutdown, Terminate, CloseHandler, Drain, NoticeDeath, KillWorker, CloseAfterKill, Stopping,
       Up, AllAlive, Alive, CollectiveFails
<1>3. ~HandleTerminate
  <2>1. results # <<>> /\ Head(results) = Sentinel => Has(results, FailureResults)
    BY <1>1, HasInTail DEF FailureResults
  <2> QED BY <1>1, <2>1 DEF HandleTerminate
<1>4. open' = open /\ handler' = handler
  BY <1>2, <1>3, Zenon DEF Next, EngineStep, Control, Driver, EnqueueByDriver, SetStarted, SendBroadcast,
       BroadcastReturns, Forward, Wait, CollectiveFails, EnqueueByTask,
       ResultHandler, HandleResult, WorkerMonitor,
       WorkerProcess, TakeTask, Receive, Killed, Raises, threads, engineVars
<1>5. ASSUME NEW key \in Keys, Register(key) \/ Put(key) \/ PutFails(key)
      PROVE  \A w \in RemoteWorkers : future'[<<w, "control">>] # "error"
  <2>1. open[key[1]]
    BY <1>1, <1>5 DEF Keys
  <2> QED BY <1>1, <1>5, <2>1 DEF Register, Put, PutFails, Keys, Methods
<1>6. ASSUME HandleResult
      PROVE  /\ \A w \in RemoteWorkers : future'[<<w, "control">>] # "error"
             /\ ~Has(results', FailureResults)
  <2>1. /\ results # <<>> /\ Head(results) \in Results /\ results' = Tail(results)
        /\ future' = [future EXCEPT ![Head(results).key] = Head(results).value]
    BY <1>1, <1>6, HeadTailProperties DEF HandleResult
  <2>2. Head(results) \notin FailureResults /\ ~Has(results', FailureResults)
    BY <1>1, <2>1, HasInTail
  <2>3. ASSUME NEW w \in RemoteWorkers, Head(results).key = <<w, "control">> PROVE Head(results).value # "error"
    <3>1. Head(results) \in [key : RemoteWorkers \X {"control"}, value : {"value", "error"}]
      <4>1. PICK k \in Keys, v \in {"value", "error"} : Head(results) = [key |-> k, value |-> v]
        BY <2>1 DEF Results
      <4>2. k \in RemoteWorkers \X {"control"}
        BY <2>3, <4>1
      <4> QED BY <4>1, <4>2
    <3> QED BY <2>2, <3>1 DEF FailureResults
  <2>4. ASSUME NEW w \in RemoteWorkers PROVE future'[<<w, "control">>] # "error"
    <3>1. <<w, "control">> \in Keys
      BY DEF Keys, Methods
    <3> QED BY <1>1, <2>1, <2>3, <3>1
  <2> QED BY <2>2, <2>4
<1>7. ASSUME NEW w \in RemoteWorkers, NEW value \in {"value", "error"}, LoopEnds(w, value)
      PROVE  ~Has(results', FailureResults)
  <2> DEFINE e == [key |-> <<w, "start_loop">>, value |-> value]
  <2>1. e \in Results /\ e \notin FailureResults
    BY DEF Results, FailureResults, Sentinel, Keys, Methods
  <2> QED BY <1>1, <1>7, <2>1, HasInAppend DEF LoopEnds
<1>8. ASSUME NEW w \in RemoteWorkers, TakeTask(w) PROVE ~Has(results', FailureResults)
  <2> DEFINE e == [key |-> <<w, "control">>, value |-> "value"]
  <2>1. e \in Results /\ e \notin FailureResults
    BY DEF Results, FailureResults, Sentinel, Keys, Methods
  <2> QED BY <1>1, <1>8, <2>1, HasInAppend DEF TakeTask
<1>9. CASE HandleResult
  BY <1>1, <1>4, <1>6, <1>9
<1>10. ASSUME EnqueueByDriver \/ EnqueueByTask
       PROVE  /\ \A w \in RemoteWorkers : future'[<<w, "control">>] # "error"
              /\ results' = results
  <2>1. CASE EnqueueByDriver
    <3>1. Head(driver).arg \in Keys
      BY <2>1, HeadOfDriver DEF EnqueueByDriver, At, IndInv
    <3>2. Register(Head(driver).arg) \/ Put(Head(driver).arg) \/ PutFails(Head(driver).arg)
      BY <2>1 DEF EnqueueByDriver
    <3> QED BY <1>5, <2>1, <3>1, <3>2 DEF EnqueueByDriver
  <2>2. CASE EnqueueByTask
    <3>1. Head(spawned).arg \in Keys
      BY <2>2, HeadOfSpawned DEF EnqueueByTask, At, IndInv
    <3>2. Register(Head(spawned).arg) \/ Put(Head(spawned).arg) \/ PutFails(Head(spawned).arg)
      BY <2>2 DEF EnqueueByTask
    <3> QED BY <1>5, <2>2, <3>1, <3>2 DEF EnqueueByTask
  <2> QED BY <1>10, <2>1, <2>2
<1>11. ASSUME NEW w \in RemoteWorkers, TakeTask(w) \/ Receive(w) \/ Killed(w) \/ Raises(w)
       PROVE  future' = future /\ ~Has(results', FailureResults)
  <2>1. future' = future
    BY <1>11 DEF TakeTask, Receive, Killed, Raises, engineVars
  <2>2. \/ TakeTask(w) \/ results' = results
        \/ LoopEnds(w, "value") \/ LoopEnds(w, "error")
    BY <1>11 DEF Receive, Killed, Raises
  <2> QED BY <1>1, <1>7, <1>8, <2>1, <2>2
<1>12. ASSUME \/ \E kind \in StepKinds : EngineStep(kind)
              \/ Control \/ SetStarted \/ SendBroadcast \/ BroadcastReturns \/ Forward \/ Wait
       PROVE  future' = future /\ results' = results
  BY <1>12 DEF EngineStep, Control, SetStarted, SendBroadcast, BroadcastReturns, Forward, Wait
<1> QED BY <1>1, <1>2, <1>3, <1>4, <1>9, <1>10, <1>11, <1>12, Zenon
        DEF Next, Driver, ResultHandler, WorkerMonitor, WorkerProcess

LEMMA EngineInvStep ==
  ASSUME IndInv, Next
  PROVE  EngineInv'
<1>1. engine' = "failed" => driver' = <<>> /\ ~AllAlive'
  BY UpStep, FailsAfterDeath DEF IndInv, EngineInv
<1>2. monitor'.pc = "kill" => ~AllAlive'
  BY UpStep, KillsAfterDeath DEF IndInv
<1>3. Up' => Up
  BY UpStep DEF IndInv, Up
<1> QED BY <1>1, <1>2, <1>3, StoppingStep, HealthyResults DEF EngineInv, Stopping

-----------------------------------------------------------------------------
\* The loops, one action after the other.

LEMMA Situation ==
  ASSUME IndInv, Up
  PROVE  /\ TypeOK /\ ListsInv /\ InboxInv /\ EngineInv /\ StartedInv
         /\ engine = "up" /\ ~Stopping /\ monitor.pc # "kill" /\ handler.pc = "run"
         /\ \A w \in RemoteWorkers :
              /\ LoopInv(w) /\ TokenInv(w)
              /\ Broken(w) => LostInv(w)
              /\ ~Broken(w) => PlaceInv(w)
              /\ open[w] /\ worker[w] \in {"ready", "loop", "metadata", "forward"}
              /\ inbox[w] = <<>> \/ (At(driver, "joined") /\ inbox[w] = <<Head(driver).arg>>)
BY DEF IndInv, Up, EngineInv, Stopping, LoopInv, TypeOK, AllAlive, Alive, InboxInv

LEMMA LoopTask ==
  \A w \in RemoteWorkers : /\ HasLoop(w) <=> InLoop(w) \/ Queued(w)
                           /\ HasLoop(w)' <=> InLoop(w)' \/ Queued(w)'
BY DEF HasLoop, Queued, Has, InLoop

\* A step that leaves the task of w alone.
SameResults(w) ==
    \/ results' = results
    \/ /\ Ended(w)' <=> Ended(w)
       /\ OnlyOne(results, LoopResults(w)) => OnlyOne(results', LoopResults(w))
       /\ Has(results', {[key |-> Loop(w), value |-> "error"]}) <=>
            Has(results, {[key |-> Loop(w), value |-> "error"]})
SameTask(w) ==
    /\ worker'[w] = worker[w]
    /\ Queued(w)' <=> Queued(w)
    /\ OnlyOne(queue[w], {"start_loop"}) => OnlyOne(queue[w], {"start_loop"})'
    /\ SameResults(w) /\ future'[Loop(w)] = future[Loop(w)]

LEMMA TaskKept ==
  ASSUME NEW w \in RemoteWorkers, SameTask(w)
  PROVE  /\ HasLoop(w)' <=> HasLoop(w)
         /\ Ended(w)' <=> Ended(w)
         /\ Broken(w)' <=> Broken(w)
         /\ Calm(w)' <=> Calm(w)
         /\ TokenInv(w) /\ (Unasked(w)' => Unasked(w)) => TokenInv(w)'
<1>1. /\ InLoop(w)' <=> InLoop(w)
      /\ Ended(w)' <=> Ended(w)
      /\ Broken(w)' <=> Broken(w)
      /\ Calm(w)' <=> Calm(w)
      /\ OnlyOne(results, LoopResults(w)) => OnlyOne(results', LoopResults(w))
      /\ future'[Loop(w)] = future[Loop(w)]
  BY DEF SameTask, SameResults, InLoop, Ended, Broken, Calm, LoopResults, Loop
<1>2. HasLoop(w)' <=> HasLoop(w)
  BY <1>1, LoopTask DEF SameTask
<1> QED BY <1>1, <1>2 DEF SameTask, TokenInv, LoopResults, Loop

\* What comes after a step that can come after it.
LEMMA After ==
  ASSUME NEW x, NEW y, Follows(x, y)
  PROVE  /\ x = Op("started", TRUE) => y \in {Op("broadcast", "groups"), Op("broadcast", "transfers")}
         /\ x = Op("started", FALSE) => y = Op("wait", <<1, "start_loop">>)
         /\ x = Op("joined", "groups") => y = Op("broadcast", "metadata")
         /\ x = Op("joined", "metadata") => y = Op("forward", "none")
         /\ x = Op("joined", "transfers") => y = Op("broadcast", "stop")
         /\ x = Op("joined", "stop") => y = Op("started", FALSE)
<1>1. Op("started", TRUE) # Op("started", FALSE)
  <2>1. Op("started", TRUE).arg = TRUE /\ Op("started", FALSE).arg = FALSE
    BY DEF Op
  <2> QED BY <2>1, Zenon
<1>2. ASSUME x = Op("started", TRUE) PROVE y \in {Op("broadcast", "groups"), Op("broadcast", "transfers")}
  <2>1. x.op = "started" /\ x # Op("started", FALSE)
    BY <1>1, <1>2 DEF Op
  <2> QED BY <2>1 DEF Follows, Op
<1>3. ASSUME x = Op("started", FALSE) PROVE y = Op("wait", <<1, "start_loop">>)
  <2>1. x.op = "started" /\ x # Op("started", TRUE)
    BY <1>1, <1>3 DEF Op
  <2> QED BY <2>1 DEF Follows, Op
<1>4. /\ x = Op("joined", "groups") => y = Op("broadcast", "metadata")
      /\ x = Op("joined", "metadata") => y = Op("forward", "none")
  BY DEF Follows, Op
<1>5. /\ x = Op("joined", "transfers") => y = Op("broadcast", "stop")
      /\ x = Op("joined", "stop") => y = Op("started", FALSE)
  BY DEF Follows, Op
<1> QED BY <1>2, <1>3, <1>4, <1>5, Zenon

\* What the driver is about to do tells what it is not about to do.
PhaseOf(name) ==
    /\ Starting => name = "enqueue"
    /\ Awaiting => name = "wait"
    /\ Doing("started", TRUE) \/ Doing("started", FALSE) => name = "started"
    /\ \A m \in Messages : Calling(m) => name \in {"broadcast", "joined"}
    /\ At(driver, "forward") => name = "forward"

LEMMA Phases ==
  /\ driver # <<>> => PhaseOf(Head(driver).op)
  /\ driver' # <<>> => PhaseOf(Head(driver).op)'
<1>1. driver # <<>> => PhaseOf(Head(driver).op)
  BY DEF PhaseOf, Starting, Awaiting, Doing, Calling, At, Op
<1>2. driver' # <<>> => PhaseOf(Head(driver).op)'
  BY DEF PhaseOf, Starting, Awaiting, Doing, Calling, At, Op
<1> QED BY <1>1, <1>2

LEMMA SetStartedStep ==
  ASSUME IndInv, Up, SetStarted
  PROVE  StartedInv' /\ \A w \in RemoteWorkers : LoopInv(w)'
<1>1. /\ driver # <<>> /\ Head(driver).op = "started" /\ Head(driver) \in Steps
      /\ driver' = Tail(driver) /\ started' = Head(driver).arg
      /\ UNCHANGED <<async, spawned, future, queue, worker, inbox, results>>
      /\ StartedInv
  BY HeadOfDriver, Situation DEF SetStarted, At
<1>2. Head(driver) = Op("started", TRUE) \/ Head(driver) = Op("started", FALSE)
  <2>1. PICK b \in BOOLEAN : Head(driver) = Op("started", b)
    BY <1>1 DEF Steps, Op
  <2> QED BY <2>1
<1>3. driver' # <<>> /\ Follows(Head(driver), Head(driver'))
  BY <1>1, Rests, Situation DEF ListsInv, Ends
<1>4. CASE Head(driver) = Op("started", TRUE)
  <2>1. PICK m \in {"groups", "transfers"} : Head(driver') = Op("broadcast", m)
    BY <1>3, <1>4, After
  <2>2. started' /\ spawned = <<>>
    <3>1. Op("started", TRUE).arg = TRUE
      BY DEF Op
    <3>2. started'
      BY <1>1, <1>4, <3>1, Zenon
    <3>3. ~Calling("groups") /\ ~Calling("transfers")
      BY <1>1 DEF Calling, Doing, Op
    <3> QED BY <1>1, <3>2, <3>3 DEF StartedInv
  <2>3. StartedInv'
    <3>1. Head(driver').op = "broadcast"
      BY <2>1 DEF Op
    <3> QED BY <1>1, <1>3, <2>2, <3>1, Phases DEF StartedInv, PhaseOf
  <2>4. ASSUME NEW w \in RemoteWorkers PROVE LoopInv(w)'
    <3>1. SameTask(w) /\ (Unasked(w)' <=> Unasked(w))
      BY <1>1 DEF SameTask, SameResults, Queued, Unasked
    <3>2. TokenInv(w)' /\ (Broken(w)' <=> Broken(w))
      BY <3>1, TaskKept, Situation
    <3>3. Broken(w) => LostInv(w)'
      BY <1>1, <1>3, <1>4, <2>1, <3>1, TaskKept, Situation
      DEF LostInv, Idling, Starting, Awaiting, Doing, Told, At, Op
    <3>4. ~Broken(w) => PlaceInv(w)'
      <4>1. ~Broken(w) => HasLoop(w)' /\ Calm(w)'
        BY <1>1, <1>4, <3>1, TaskKept, Situation DEF PlaceInv, Doing
      <4> QED BY <1>1, <1>3, <2>1, <4>1
          DEF PlaceInv, Idling, Starting, Awaiting, Doing, Expecting, Told, At, Op
    <3> QED BY <3>2, <3>3, <3>4 DEF LoopInv
  <2> QED BY <2>3, <2>4
<1>5. CASE Head(driver) = Op("started", FALSE)
  <2>1. Head(driver') = Op("wait", <<1, "start_loop">>)
    BY <1>3, <1>5, After
  <2>2. ~started' /\ spawned = <<>>
    <3>1. Op("started", FALSE).arg = FALSE
      BY DEF Op
    <3>2. ~started'
      BY <1>1, <1>5, <3>1, Zenon
    <3>3. ~Calling("groups") /\ ~Calling("transfers")
      BY <1>1 DEF Calling, Doing, Op
    <3> QED BY <1>1, <3>2, <3>3 DEF StartedInv
  <2>3. StartedInv'
    <3>1. Head(driver').op = "wait"
      BY <2>1 DEF Op
    <3> QED BY <1>1, <1>3, <2>2, <3>1, Phases DEF StartedInv, PhaseOf
  <2>4. ASSUME NEW w \in RemoteWorkers PROVE LoopInv(w)'
    <3>1. SameTask(w) /\ (Unasked(w)' <=> Unasked(w))
      BY <1>1 DEF SameTask, SameResults, Queued, Unasked
    <3>2. TokenInv(w)' /\ (Broken(w)' <=> Broken(w))
      BY <3>1, TaskKept, Situation
    <3>3. ~Broken(w)
      BY <1>1, <1>5, Situation DEF LostInv, Doing
    <3>4. PlaceInv(w)'
      <4>1. ~HasLoop(w)'
        BY <1>1, <1>5, <3>1, <3>3, TaskKept, Situation DEF PlaceInv, Doing
      <4> QED BY <1>1, <1>3, <2>1, <4>1
          DEF PlaceInv, Idling, Starting, Awaiting, Target, Doing, Expecting, Told, At, Op
    <3> QED BY <3>2, <3>3, <3>4 DEF LoopInv
  <2> QED BY <2>3, <2>4
<1> QED BY <1>2, <1>4, <1>5

LEMMA BroadcastReturnsStep ==
  ASSUME IndInv, Up, BroadcastReturns
  PROVE  StartedInv' /\ \A w \in RemoteWorkers : LoopInv(w)'
<1>1. /\ driver # <<>> /\ Head(driver).op = "joined" /\ Head(driver) \in Steps
      /\ driver' = Tail(driver) /\ \A w \in RemoteWorkers : inbox[w] = <<>>
      /\ UNCHANGED <<async, started, spawned, future, queue, worker, inbox, results>>
      /\ StartedInv
  BY HeadOfDriver, Situation DEF BroadcastReturns, executor, At
<1>2. PICK m \in Messages : Head(driver) = Op("joined", m)
  BY <1>1 DEF Steps, Op
<1>3. driver' # <<>> /\ Follows(Head(driver), Head(driver'))
  BY <1>1, Rests, Situation DEF ListsInv, Ends
<1>4. /\ m = "groups" => Head(driver') = Op("broadcast", "metadata")
      /\ m = "metadata" => Head(driver') = Op("forward", "none")
      /\ m = "transfers" => Head(driver') = Op("broadcast", "stop")
      /\ m = "stop" => Head(driver') = Op("started", FALSE)
  BY <1>2, <1>3, After
<1>5. \A w \in RemoteWorkers : Told(w, m)
  BY <1>1, <1>2 DEF Told, Doing
<1>6. started
  BY <1>1, <1>2 DEF StartedInv, Calling, Doing
<1>7. spawned = <<>>
  <2> SUFFICES ASSUME spawned # <<>> PROVE FALSE
    OBVIOUS
  <2>1. m \in {"groups", "transfers"}
    BY <1>1, <1>2 DEF StartedInv, Calling, Doing, Op
  <2>2. NumWorkers \in RemoteWorkers /\ Unasked(NumWorkers)
    BY HeadOfSpawned, Situation DEF Unasked
  <2>3. ~HasLoop(NumWorkers)
    BY <2>2, Situation DEF TokenInv
  <2>4. ~Broken(NumWorkers)
    BY <2>2, Situation DEF LostInv
  <2>5. worker[NumWorkers] = "metadata" \/ ~Unasked(NumWorkers)
    BY <1>5, <2>1, <2>2, <2>4, Situation DEF PlaceInv
  <2> QED BY <2>2, <2>3, <2>5, LoopTask DEF InLoop
<1>8. StartedInv'
  <2>1. Head(driver').op \in {"broadcast", "forward", "started"} /\ ~Doing("started", TRUE)'
    <3>1. Op("started", FALSE) # Op("started", TRUE)
      <4>1. Op("started", FALSE).arg = FALSE /\ Op("started", TRUE).arg = TRUE
        BY DEF Op
      <4> QED BY <4>1, Zenon
    <3> QED BY <1>4, <3>1 DEF Op, Messages, Doing
  <2> QED BY <1>1, <1>3, <1>6, <1>7, <2>1, Phases DEF StartedInv, PhaseOf
<1>9. ASSUME NEW w \in RemoteWorkers PROVE LoopInv(w)'
  <2>1. SameTask(w) /\ (Unasked(w)' <=> Unasked(w))
    BY <1>1 DEF SameTask, SameResults, Queued, Unasked
  <2>2. TokenInv(w)' /\ (Broken(w)' <=> Broken(w))
    BY <2>1, TaskKept, Situation
  <2>3. Broken(w) => LostInv(w)'
    <3> SUFFICES ASSUME Broken(w) PROVE LostInv(w)'
      OBVIOUS
    <3>1. ~HasLoop(w)' /\ ~Unasked(w)' /\ m # "stop"
      BY <1>5, <2>1, TaskKept, Situation DEF LostInv
    <3> QED BY <1>3, <1>4, <3>1 DEF LostInv, Idling, Starting, Awaiting, Doing, Told, At, Op, Messages
  <2>4. ~Broken(w) => PlaceInv(w)'
    <3> SUFFICES ASSUME ~Broken(w) PROVE PlaceInv(w)'
      OBVIOUS
    <3>1. PlaceInv(w) /\ worker[w] \in {"ready", "loop", "metadata", "forward"}
      BY Situation
    <3>2. CASE m = "groups"
      <4>1. worker'[w] = "metadata"
        BY <1>5, <2>1, <3>1, <3>2 DEF PlaceInv, SameTask
      <4> QED BY <1>3, <1>4, <3>2, <4>1
          DEF PlaceInv, Idling, Starting, Awaiting, Doing, Expecting, Told, At, Op
    <3>3. CASE m = "metadata"
      <4>1. worker'[w] = "forward"
        BY <1>5, <2>1, <3>1, <3>3 DEF PlaceInv, SameTask
      <4> QED BY <1>3, <1>4, <3>3, <4>1
          DEF PlaceInv, Idling, Starting, Awaiting, Doing, Expecting, Told, At, Op
    <3>4. CASE m = "transfers"
      <4>1. ~HasLoop(w)
        BY <1>5, <3>1, <3>4 DEF PlaceInv
      <4>2. Calm(w)'
        BY <2>1, <3>1, <4>1, LoopTask DEF SameTask, Calm, InLoop
      <4> QED BY <1>3, <1>4, <3>4, <4>2
          DEF PlaceInv, Idling, Starting, Awaiting, Doing, Expecting, Told, At, Op
    <3>5. CASE m = "stop"
      <4>1. ~HasLoop(w)'
        BY <1>5, <2>1, <3>1, <3>5, TaskKept DEF PlaceInv
      <4> QED BY <1>3, <1>4, <3>5, <4>1
          DEF PlaceInv, Idling, Starting, Awaiting, Doing, Expecting, Told, At, Op
    <3> QED BY <3>2, <3>3, <3>4, <3>5 DEF Messages
  <2> QED BY <2>2, <2>3, <2>4 DEF LoopInv
<1> QED BY <1>8, <1>9

\* The same for the steps that name a worker.
LEMMA AfterWorkers ==
  ASSUME NEW x \in Steps, x.op \in {"enqueue", "wait"}, NEW y
  PROVE  \E v \in RemoteWorkers, m \in Methods :
           /\ x = Op(x.op, <<v, m>>) /\ x.arg = <<v, m>>
           /\ Ends(x) => v = NumWorkers /\ x.op = "wait"
           /\ Follows(x, y) =>
                \/ v < NumWorkers /\ y = Op(x.op, <<v + 1, m>>)
                \/ /\ v = NumWorkers /\ x.op = "enqueue"
                   /\ y = IF m = "control" THEN Op("wait", <<1, "control">>) ELSE Op("started", TRUE)
<1>1. PICK v \in RemoteWorkers, m \in Methods : x = [op |-> x.op, arg |-> <<v, m>>] /\ x.arg = <<v, m>>
  BY DEF Steps, Keys
<1>2. x = Op(x.op, <<v, m>>) /\ x.arg[1] = v /\ x.arg[2] = m
  BY <1>1 DEF Op
<1>3. Ends(x) => v = NumWorkers /\ x.op = "wait"
  BY <1>2 DEF Ends
<1>4. ASSUME Follows(x, y), x.op = "wait" PROVE v < NumWorkers /\ y = Op(x.op, <<v + 1, m>>)
  BY <1>2, <1>4 DEF Follows, Op
<1>5. ASSUME Follows(x, y), x.op = "enqueue"
      PROVE  \/ v < NumWorkers /\ y = Op(x.op, <<v + 1, m>>)
             \/ v = NumWorkers /\ m = "start_loop" /\ y = Op("started", TRUE)
             \/ v = NumWorkers /\ m = "control" /\ y = Op("wait", <<1, "control">>)
  <2>1. ASSUME NEW u, NEW n, x = Op("enqueue", <<u, n>>) PROVE u = v /\ n = m
    BY <1>1, <2>1 DEF Op
  <2> QED BY <1>2, <1>5, <2>1 DEF Follows, Op
<1> QED BY <1>1, <1>2, <1>3, <1>4, <1>5 DEF Methods

LEMMA SendBroadcastStep ==
  ASSUME IndInv, Up, SendBroadcast
  PROVE  StartedInv' /\ \A w \in RemoteWorkers : LoopInv(w)'
<1>1. /\ driver # <<>> /\ Head(driver).op = "broadcast" /\ Head(driver) \in Steps
      /\ driver' = Tail(driver)
      /\ UNCHANGED <<async, started, spawned, future, queue, worker, results>>
      /\ StartedInv
  BY HeadOfDriver, Situation DEF SendBroadcast, executor, At
<1>2. PICK m \in Messages : Head(driver) = Op("broadcast", m)
  BY <1>1 DEF Steps, Op
<1>3. driver' # <<>> /\ Head(driver') = Op("joined", m)
  BY <1>1, <1>2, Rests, Situation DEF ListsInv, Ends, Follows, Op
<1>4. \A w \in RemoteWorkers : inbox'[w] # <<>>
  <2> TAKE w \in RemoteWorkers
  <2>1. inbox[w] \in Seq(Messages) /\ m \in Messages /\ inbox'[w] = Append(inbox[w], Head(driver).arg)
    BY Situation DEF SendBroadcast, TypeOK
  <2>2. Head(driver).arg = m
    BY <1>2 DEF Op
  <2> QED BY <2>1, <2>2
<1>5. StartedInv'
  <2>1. Head(driver').op = "joined"
    BY <1>3 DEF Op
  <2>2. started
    BY <1>1, <1>2 DEF StartedInv, Calling, Doing
  <2>3. spawned # <<>> => m \in {"groups", "transfers"}
    BY <1>1, <1>2 DEF StartedInv, Calling, Doing, Op
  <2>4. Calling(m)'
    BY <1>3 DEF Calling, Doing
  <2> QED BY <1>1, <1>3, <2>1, <2>2, <2>3, <2>4, Phases DEF StartedInv, PhaseOf
<1>6. ASSUME NEW w \in RemoteWorkers PROVE LoopInv(w)'
  <2>1. SameTask(w) /\ (Unasked(w)' <=> Unasked(w))
    BY <1>1 DEF SameTask, SameResults, Queued, Unasked
  <2>2. TokenInv(w)' /\ (Broken(w)' <=> Broken(w))
    BY <2>1, TaskKept, Situation
  <2>3. Broken(w) => LostInv(w)'
    <3>1. Broken(w) => ~HasLoop(w)' /\ ~Unasked(w)'
      BY <2>1, TaskKept, Situation DEF LostInv
    <3> QED BY <1>3, <1>4, <3>1 DEF LostInv, Idling, Starting, Awaiting, Doing, Told, At, Op
  <2>4. ~Broken(w) => PlaceInv(w)'
    <3> SUFFICES ASSUME ~Broken(w) PROVE PlaceInv(w)'
      OBVIOUS
    <3>1. PlaceInv(w) /\ Expecting(w, m)
      BY <1>1, <1>2, Situation DEF Expecting, Doing
    <3>2. /\ m \in {"groups", "transfers"} => Calm(w)' /\ (Unasked(w)' \/ HasLoop(w)')
          /\ m = "stop" => Calm(w)'
          /\ m = "metadata" => worker'[w] = "metadata"
      BY <2>1, <3>1, TaskKept DEF PlaceInv, SameTask
    <3> QED BY <1>3, <1>4, <3>2
        DEF PlaceInv, Idling, Starting, Awaiting, Doing, Expecting, Told, At, Op
  <2> QED BY <2>2, <2>3, <2>4 DEF LoopInv
<1> QED BY <1>5, <1>6

LEMMA ForwardStep ==
  ASSUME IndInv, Up, Forward
  PROVE  StartedInv' /\ \A w \in RemoteWorkers : LoopInv(w)'
<1>1. /\ driver # <<>> /\ Head(driver).op = "forward" /\ Head(driver) \in Steps
      /\ driver' = Tail(driver) /\ \A w \in RemoteWorkers : worker[w] = "forward" /\ worker'[w] = "loop"
      /\ UNCHANGED <<async, started, spawned, future, queue, inbox, results>>
      /\ StartedInv /\ At(driver, "forward")
  BY HeadOfDriver, Situation DEF Forward, executor, At
<1>2. driver' # <<>> => Head(driver').op = "forward"
  <2>1. Listing(driver) /\ driver # <<>> /\ Head(driver).op = "forward" /\ driver' = Tail(driver)
    BY <1>1, Situation DEF ListsInv
  <2> SUFFICES ASSUME driver' # <<>> PROVE Head(driver').op = "forward"
    OBVIOUS
  <2>2. Follows(Head(driver), Head(driver'))
    BY <2>1, Rests
  <2> QED BY <2>1, <2>2 DEF Follows, Op
<1>3. started /\ spawned = <<>>
  BY <1>1, Phases DEF StartedInv, PhaseOf, Messages
<1>4. StartedInv'
  <2>1. CASE driver' = <<>>
    BY <1>1, <1>3, <2>1 DEF StartedInv, Starting, Awaiting, Doing, Calling, At
  <2>2. CASE driver' # <<>>
    BY <1>1, <1>2, <1>3, <2>2, Phases DEF StartedInv, PhaseOf
  <2> QED BY <2>1, <2>2
<1>5. ASSUME NEW w \in RemoteWorkers PROVE LoopInv(w)'
  <2>1. HasLoop(w) /\ HasLoop(w)' /\ InLoop(w) /\ InLoop(w)' /\ Calm(w)'
    BY <1>1 DEF HasLoop, InLoop, Calm
  <2>2. TokenInv(w)'
    <3>1. TokenInv(w)
      BY Situation
    <3>2. /\ Queued(w)' <=> Queued(w)
          /\ Ended(w)' <=> Ended(w)
          /\ Unasked(w)' <=> Unasked(w)
          /\ future'[Loop(w)] = future[Loop(w)] /\ queue' = queue /\ results' = results
      BY <1>1 DEF Queued, Ended, Unasked, LoopResults, Loop
    <3> QED BY <2>1, <3>1, <3>2 DEF TokenInv, LoopResults, Loop
  <2>3. ~Broken(w)'
    <3>1. ~Broken(w)
      BY <2>1, Situation DEF LostInv
    <3> QED BY <1>1, <3>1 DEF Broken, Loop
  <2>4. PlaceInv(w)'
    <3>1. CASE driver' = <<>>
      BY <1>1, <1>3, <2>1, <3>1
      DEF PlaceInv, Idling, Starting, Awaiting, Doing, Expecting, Told, At
    <3>2. CASE driver' # <<>>
      <4>1. worker'[w] = "loop"
        BY <1>1
      <4> QED BY <1>2, <3>2, <4>1
          DEF PlaceInv, Idling, Starting, Awaiting, Doing, Expecting, Told, At, Op
    <3> QED BY <3>1, <3>2
  <2> QED BY <2>2, <2>3, <2>4 DEF LoopInv
<1> QED BY <1>4, <1>5

LEMMA WaitStep ==
  ASSUME IndInv, Up, Up', Wait
  PROVE  StartedInv' /\ \A w \in RemoteWorkers : LoopInv(w)'
<1>1. /\ driver # <<>> /\ Head(driver).op = "wait" /\ Head(driver) \in Steps
      /\ driver' = Tail(driver) /\ future[Head(driver).arg] = "value"
      /\ UNCHANGED <<async, started, spawned, future, queue, worker, inbox, results>>
      /\ StartedInv
  BY HeadOfDriver, Situation DEF Wait, At, Up
<1>2. PICK v \in RemoteWorkers, m \in Methods :
        /\ Head(driver) = Op("wait", <<v, m>>) /\ Head(driver).arg = <<v, m>>
        /\ IF driver' = <<>> THEN v = NumWorkers
           ELSE v < NumWorkers /\ Head(driver') = Op("wait", <<v + 1, m>>)
  <2>1. /\ driver' = <<>> => Ends(Head(driver))
        /\ driver' # <<>> => Follows(Head(driver), Head(driver'))
    BY <1>1, Rests, Situation DEF ListsInv
  <2>2. PICK v \in RemoteWorkers, m \in Methods :
           /\ Head(driver) = Op("wait", <<v, m>>) /\ Head(driver).arg = <<v, m>>
           /\ Ends(Head(driver)) => v = NumWorkers
           /\ Follows(Head(driver), Head(driver')) => v < NumWorkers /\ Head(driver') = Op("wait", <<v + 1, m>>)
    <3>1. Head(driver).op \in {"enqueue", "wait"}
      BY <1>1
    <3>2. PICK v \in RemoteWorkers, m \in Methods :
             /\ Head(driver) = Op(Head(driver).op, <<v, m>>) /\ Head(driver).arg = <<v, m>>
             /\ Ends(Head(driver)) => v = NumWorkers /\ Head(driver).op = "wait"
             /\ Follows(Head(driver), Head(driver')) =>
                  \/ v < NumWorkers /\ Head(driver') = Op(Head(driver).op, <<v + 1, m>>)
                  \/ /\ v = NumWorkers /\ Head(driver).op = "enqueue"
                     /\ Head(driver') = IF m = "control" THEN Op("wait", <<1, "control">>)
                                        ELSE Op("started", TRUE)
      BY <1>1, <3>1, AfterWorkers, Zenon
    <3> QED BY <1>1, <3>2
  <2> QED BY <2>1, <2>2
<1>3. spawned = <<>>
  BY <1>1, Phases DEF StartedInv, PhaseOf, Messages
<1>4. m = "start_loop" => ~started
  <2>1. Head(driver).arg[2] = m
    BY <1>2
  <2>2. m = "start_loop" => Awaiting
    BY <1>1, <2>1 DEF Awaiting, At
  <2> QED BY <1>1, <2>2 DEF StartedInv
<1>5. StartedInv'
  <2>1. CASE driver' = <<>>
    BY <1>1, <1>3, <2>1 DEF StartedInv, Starting, Awaiting, Doing, Calling, At
  <2>2. CASE driver' # <<>>
    <3>1. Head(driver').op = "wait" /\ Head(driver').arg[2] = m
      BY <1>2, <2>2 DEF Op
    <3>2. Awaiting' => m = "start_loop"
      BY <3>1 DEF Awaiting
    <3> QED BY <1>1, <1>3, <1>4, <2>2, <3>1, <3>2, Phases DEF StartedInv, PhaseOf
  <2> QED BY <2>1, <2>2
<1>6. ASSUME NEW w \in RemoteWorkers PROVE LoopInv(w)'
  <2>1. SameTask(w) /\ (Unasked(w)' <=> Unasked(w))
    BY <1>1 DEF SameTask, SameResults, Queued, Unasked
  <2>2. TokenInv(w)' /\ (Broken(w)' <=> Broken(w))
    BY <2>1, TaskKept, Situation
  <2>3. CASE m = "control"
    <3>1. Idling /\ (driver' # <<>> => Head(driver').op = "wait" /\ Head(driver').arg[2] = "control")
      BY <1>1, <1>2, <2>3 DEF Idling, At, Op
    <3>2. Broken(w) => LostInv(w)'
      <4>1. Broken(w) => ~HasLoop(w)' /\ ~Unasked(w)' /\ started'
        BY <1>1, <2>1, <3>1, TaskKept, Situation DEF LostInv
      <4> QED BY <3>1, <4>1 DEF LostInv, Starting, Awaiting, Doing, Told, At, Op
    <3>3. ~Broken(w) => PlaceInv(w)'
      <4>1. ~Broken(w) => Calm(w)' /\ (HasLoop(w)' <=> started') /\ (~started' => ~Ended(w)')
        BY <1>1, <2>1, <3>1, TaskKept, Situation DEF PlaceInv
      <4> QED BY <3>1, <4>1
          DEF PlaceInv, Starting, Awaiting, Doing, Expecting, Told, At, Op
    <3> QED BY <2>2, <3>2, <3>3 DEF LoopInv
  <2>4. CASE m = "start_loop"
    <3>1. Awaiting /\ Target = v
      BY <1>1, <1>2, <2>4 DEF Awaiting, Target, At
    <3>2. ~Broken(w)
      BY <3>1, Situation DEF LostInv
    <3>3. ~HasLoop(w) /\ (w <= v => ~Ended(w))
      <4>1. ~HasLoop(w) /\ (w < v => ~Ended(w))
        BY <3>1, <3>2, Situation DEF PlaceInv
      <4>2. w = v => ~Ended(w)
        BY <1>1, <1>2, <2>4, Situation DEF TokenInv, Loop
      <4> QED BY <4>1, <4>2
    <3>4. CASE driver' = <<>>
      <4>1. Calm(w)' /\ ~HasLoop(w)' /\ ~Ended(w)' /\ ~started'
        <5>1. Calm(w)
          BY <3>3, LoopTask, Situation DEF Calm, InLoop
        <5>2. w <= v
          BY <1>2, <3>4
        <5> QED BY <1>1, <1>4, <2>1, <2>4, <3>3, <5>1, <5>2, TaskKept
      <4> QED BY <2>2, <3>2, <3>4, <4>1
          DEF LoopInv, PlaceInv, Starting, Awaiting, Doing, Expecting, Told, At
    <3>5. CASE driver' # <<>>
      <4>1. Head(driver').op = "wait" /\ Head(driver').arg[1] = v + 1 /\ Head(driver').arg[2] = "start_loop"
        BY <1>2, <2>4, <3>5 DEF Op
      <4>2. ~HasLoop(w)' /\ (w < v + 1 => ~Ended(w)')
        BY <2>1, <3>3, TaskKept
      <4> QED BY <2>2, <3>2, <3>5, <4>1, <4>2
          DEF LoopInv, PlaceInv, Idling, Target, Starting, Awaiting, Doing, Expecting, Told, At, Op
    <3> QED BY <3>4, <3>5
  <2> QED BY <2>3, <2>4 DEF Methods
<1> QED BY <1>5, <1>6

LEMMA ErrorEnds ==
  \A w \in RemoteWorkers :
    /\ Has(results, {[key |-> Loop(w), value |-> "error"]}) => Ended(w)
    /\ Has(results', {[key |-> Loop(w), value |-> "error"]}) => Ended(w)'
<1>1. \A w \in RemoteWorkers : {[key |-> Loop(w), value |-> "error"]} \subseteq LoopResults(w)
  BY DEF LoopResults
<1> QED BY <1>1 DEF Has, Ended, LoopResults, Loop

\* The task that starts the loop of v is entered, then put into its queue.
LEMMA LoopRegistered ==
  ASSUME IndInv, Up, NEW v \in RemoteWorkers, Register(Loop(v)), ~HasLoop(v), ~Ended(v),
         UNCHANGED <<worker, results>>, NEW w \in RemoteWorkers, Unasked(w)' => Unasked(w)
  PROVE  /\ TokenInv(w)'
         /\ HasLoop(w)' <=> HasLoop(w)
         /\ Ended(w)' <=> Ended(w)
         /\ Calm(w)' <=> Calm(w)
         /\ Broken(w)' <=> (Broken(w) /\ w # v)
<1>1. /\ future \in [Keys -> {"none", "pending", "value", "error"}] /\ Loop(v) \in Keys /\ Loop(w) \in Keys
      /\ future' = [future EXCEPT ![Loop(v)] = "pending"] /\ queue' = queue
  BY Situation DEF TypeOK, Register, Keys, Methods, Loop
<1>2. CASE w # v
  <2>1. SameTask(w)
    <3>1. Loop(w) # Loop(v)
      BY <1>2 DEF Loop
    <3>2. future'[Loop(w)] = future[Loop(w)]
      BY <1>1, <3>1
    <3> QED BY <1>1, <3>2 DEF SameTask, SameResults, Queued
  <2> QED BY <1>2, <2>1, TaskKept, Situation
<1>3. CASE w = v
  <2>1. /\ HasLoop(w)' <=> HasLoop(w)
        /\ Ended(w)' <=> Ended(w)
        /\ Calm(w)' <=> Calm(w)
    BY <1>1 DEF HasLoop, InLoop, Ended, Calm, LoopResults, Loop
  <2>2. TokenInv(w)'
    <3>1. TokenInv(w)
      BY Situation
    <3> QED BY <1>1, <1>3, <2>1, <3>1, LoopTask DEF TokenInv, LoopResults, Loop
  <2>3. ~Broken(w)'
    <3>1. future'[Loop(w)] = "pending"
      BY <1>1, <1>3
    <3> QED BY <1>3, <2>1, <3>1, ErrorEnds DEF Broken, Loop
  <2> QED BY <1>3, <2>1, <2>2, <2>3
<1> QED BY <1>2, <1>3

LEMMA LoopPut ==
  ASSUME IndInv, Up, NEW v \in RemoteWorkers, Put(Loop(v)), ~HasLoop(v), ~Ended(v), future[Loop(v)] = "pending",
         UNCHANGED <<worker, results>>, NEW w \in RemoteWorkers,
         Unasked(w)' => Unasked(w), w = v => ~Unasked(v)'
  PROVE  /\ TokenInv(w)'
         /\ HasLoop(w)' <=> HasLoop(w) \/ w = v
         /\ Ended(w)' <=> Ended(w)
         /\ Calm(w)' <=> Calm(w)
         /\ Broken(w)' <=> Broken(w)
<1>1. /\ queue \in [RemoteWorkers -> Seq(Methods \cup {"TERMINATE"})]
      /\ queue' = [queue EXCEPT ![v] = Append(@, "start_loop")] /\ future' = future
  BY Situation DEF TypeOK, Put, Loop
<1>2. CASE w # v
  <2>1. SameTask(w)
    <3>1. queue'[w] = queue[w]
      BY <1>1, <1>2
    <3> QED BY <1>1, <3>1 DEF SameTask, SameResults, Queued
  <2> QED BY <1>2, <2>1, TaskKept, Situation
<1>3. CASE w = v
  <2>1. queue'[w] = Append(queue[w], "start_loop") /\ queue[w] \in Seq(Methods \cup {"TERMINATE"})
    BY <1>1, <1>3
  <2>2. ~InLoop(w) /\ ~Queued(w) /\ TokenInv(w)
    BY <1>3, LoopTask, Situation
  <2>3. Queued(w)' /\ OnlyOne(queue'[w], {"start_loop"})
    <3>1. "start_loop" \in Methods \cup {"TERMINATE"} /\ "start_loop" \in {"start_loop"}
      BY DEF Methods
    <3> QED BY <2>1, <2>2, <3>1, HasInAppend DEF Queued, TokenInv
  <2>4. /\ Ended(w)' <=> Ended(w)
        /\ Calm(w)' <=> Calm(w)
        /\ InLoop(w)' <=> InLoop(w)
        /\ Broken(w)' <=> Broken(w)
        /\ OnlyOne(results', LoopResults(w)) <=> OnlyOne(results, LoopResults(w))
    BY <1>1 DEF InLoop, Ended, Calm, Broken, LoopResults, Loop
  <2>5. HasLoop(w)'
    BY <2>3, LoopTask
  <2>6. TokenInv(w)'
    BY <1>1, <1>3, <2>2, <2>3, <2>4 DEF TokenInv, LoopResults, Loop
  <2> QED BY <1>3, <2>4, <2>5, <2>6
<1> QED BY <1>2, <1>3

\* A control call leaves the tasks of the loops alone.
LEMMA ControlEnqueued ==
  ASSUME IndInv, Up, NEW v \in RemoteWorkers, Register(<<v, "control">>) \/ Put(<<v, "control">>),
         UNCHANGED <<worker, results>>
  PROVE  \A w \in RemoteWorkers : SameTask(w)
<1> TAKE w \in RemoteWorkers
<1>1. /\ queue \in [RemoteWorkers -> Seq(Methods \cup {"TERMINATE"})]
      /\ future \in [Keys -> {"none", "pending", "value", "error"}]
  BY Situation DEF TypeOK
<1>2. CASE Register(<<v, "control">>)
  <2>1. future'[Loop(w)] = future[Loop(w)] /\ queue' = queue
    BY <1>1, <1>2 DEF Register, Loop, Keys, Methods
  <2> QED BY <2>1 DEF SameTask, SameResults, Queued
<1>3. CASE Put(<<v, "control">>)
  <2>1. future' = future
    BY <1>3 DEF Put
  <2>2. /\ Queued(w)' <=> Queued(w)
        /\ OnlyOne(queue[w], {"start_loop"}) => OnlyOne(queue[w], {"start_loop"})'
    <3>1. CASE w # v
      <4>1. queue'[w] = queue[w]
        BY <1>1, <1>3, <3>1 DEF Put
      <4> QED BY <4>1 DEF Queued
    <3>2. CASE w = v
      <4>1. queue'[w] = Append(queue[w], "control") /\ queue[w] \in Seq(Methods \cup {"TERMINATE"})
        BY <1>1, <1>3, <3>2 DEF Put
      <4>2. "control" \in Methods \cup {"TERMINATE"} /\ "control" \notin {"start_loop"}
        BY DEF Methods
      <4> QED BY <4>1, <4>2, HasInAppend DEF Queued
    <3> QED BY <3>1, <3>2
  <2> QED BY <2>1, <2>2 DEF SameTask, SameResults
<1> QED BY <1>2, <1>3

LEMMA EnqueueByDriverStep ==
  ASSUME IndInv, Up, Up', EnqueueByDriver
  PROVE  StartedInv' /\ \A w \in RemoteWorkers : LoopInv(w)'
<1>1. /\ driver # <<>> /\ Head(driver).op = "enqueue" /\ Head(driver) \in Steps
      /\ UNCHANGED <<async, started, spawned, worker, inbox, results>> /\ StartedInv
  BY HeadOfDriver, Situation DEF EnqueueByDriver, Register, Put, PutFails, executor, At, Up
<1>2. PICK v \in RemoteWorkers, m \in Methods :
        /\ Head(driver) = Op(Head(driver).op, <<v, m>>) /\ Head(driver).arg = <<v, m>>
        /\ Ends(Head(driver)) => v = NumWorkers /\ Head(driver).op = "wait"
        /\ Follows(Head(driver), Head(Tail(driver))) =>
             \/ v < NumWorkers /\ Head(Tail(driver)) = Op(Head(driver).op, <<v + 1, m>>)
             \/ /\ v = NumWorkers /\ Head(driver).op = "enqueue"
                /\ Head(Tail(driver)) = IF m = "control" THEN Op("wait", <<1, "control">>)
                                        ELSE Op("started", TRUE)
  <2>1. Head(driver).op \in {"enqueue", "wait"}
    BY <1>1
  <2> QED BY <1>1, <2>1, AfterWorkers, Zenon
<1>3. /\ Tail(driver) # <<>>
      /\ \/ v < NumWorkers /\ Head(Tail(driver)) = Op("enqueue", <<v + 1, m>>)
         \/ v = NumWorkers /\ m = "control" /\ Head(Tail(driver)) = Op("wait", <<1, "control">>)
         \/ v = NumWorkers /\ m = "start_loop" /\ Head(Tail(driver)) = Op("started", TRUE)
  <2>1. ~Ends(Head(driver))
    BY <1>1, <1>2
  <2>2. Tail(driver) # <<>> /\ Follows(Head(driver), Head(Tail(driver)))
    BY <1>1, <2>1, Rests, Situation DEF ListsInv
  <2> QED BY <1>1, <1>2, <2>2 DEF Methods
<1>4. spawned = <<>>
  BY <1>1, Phases DEF StartedInv, PhaseOf, Messages
<1>5. \A w \in RemoteWorkers : ~Unasked(w) /\ ~Unasked(w)' /\ (Unasked(w)' <=> Unasked(w))
  BY <1>1, <1>4 DEF Unasked
<1>6. \/ Register(<<v, m>>) /\ driver' = driver
      \/ Put(<<v, m>>) /\ driver' = Tail(driver) /\ future[<<v, m>>] = "pending"
  BY <1>1, <1>2 DEF EnqueueByDriver, Up
<1>7. CASE m = "control"
  <2>1. Idling /\ driver' # <<>> /\ Head(driver').op \in {"enqueue", "wait"} /\ Head(driver').arg[2] = "control"
    BY <1>1, <1>2, <1>3, <1>6, <1>7 DEF Idling, At, Op
  <2>2. ~Starting' /\ ~Awaiting'
    BY <2>1 DEF Starting, Awaiting
  <2>3. StartedInv'
    BY <1>1, <1>4, <2>1, <2>2, Phases DEF StartedInv, PhaseOf
  <2>4. ASSUME NEW w \in RemoteWorkers PROVE LoopInv(w)'
    <3>1. SameTask(w)
      BY <1>1, <1>6, <1>7, ControlEnqueued
    <3>2. TokenInv(w)' /\ (Broken(w)' <=> Broken(w))
      BY <1>5, <3>1, TaskKept, Situation
    <3>3. Broken(w) => LostInv(w)'
      <4>1. Broken(w) => ~HasLoop(w)' /\ started'
        BY <1>1, <2>1, <3>1, TaskKept, Situation DEF LostInv
      <4> QED BY <1>5, <2>1, <2>2, <4>1 DEF LostInv, Doing, Told, Op
    <3>4. ~Broken(w) => PlaceInv(w)'
      <4>1. ~Broken(w) => Calm(w)' /\ (HasLoop(w)' <=> started') /\ (~started' => ~Ended(w)')
        BY <1>1, <2>1, <3>1, TaskKept, Situation DEF PlaceInv
      <4> QED BY <2>1, <2>2, <4>1 DEF PlaceInv, Doing, Expecting, Told, At, Op
    <3> QED BY <3>2, <3>3, <3>4 DEF LoopInv
  <2> QED BY <2>3, <2>4
<1>8. CASE m = "start_loop"
  <2>1. Starting /\ Target = v
    BY <1>1, <1>2, <1>8 DEF Starting, Target, At
  <2>2. ~started /\ ~async
    BY <1>1, <2>1 DEF StartedInv
  <2>3. \A w \in RemoteWorkers :
          /\ Broken(w) => w < v /\ ~HasLoop(w)
          /\ ~Broken(w) /\ w < v => HasLoop(w) /\ Calm(w)
          /\ ~Broken(w) /\ ~(w < v) => ~HasLoop(w) /\ ~Ended(w)
    BY <2>1, Situation DEF LostInv, PlaceInv
  <2>4. ~Broken(v) /\ ~HasLoop(v) /\ ~Ended(v)
    BY <2>3
  <2>5. CASE Register(<<v, m>>) /\ driver' = driver
    <3>1. StartedInv'
      BY <1>1, <2>5 DEF StartedInv, Starting, Awaiting, Doing, Calling, At
    <3>2. ASSUME NEW w \in RemoteWorkers PROVE LoopInv(w)'
      <4>1. /\ TokenInv(w)'
            /\ HasLoop(w)' <=> HasLoop(w)
            /\ Ended(w)' <=> Ended(w)
            /\ Calm(w)' <=> Calm(w)
            /\ Broken(w)' <=> Broken(w)
        BY <1>1, <1>5, <1>8, <2>4, <2>5, LoopRegistered DEF Loop
      <4>2. Starting' /\ Target' = v
        BY <2>1, <2>5 DEF Starting, Target, At
      <4>3. Head(driver').op = "enqueue" /\ driver' # <<>> /\ Head(driver').arg[2] = "start_loop"
        BY <1>1, <2>1, <2>5 DEF Starting
      <4>4. Broken(w) => LostInv(w)'
        BY <1>5, <2>3, <4>1, <4>2, <4>3 DEF LostInv, Idling, Awaiting, Doing, Told, At, Op
      <4>5. ~Broken(w) => PlaceInv(w)'
        BY <2>3, <4>1, <4>2, <4>3 DEF PlaceInv, Idling, Awaiting, Doing, Expecting, Told, At, Op
      <4> QED BY <4>1, <4>4, <4>5 DEF LoopInv
    <3> QED BY <3>1, <3>2
  <2>6. CASE Put(<<v, m>>) /\ driver' = Tail(driver) /\ future[<<v, m>>] = "pending"
    <3>1. ASSUME NEW w \in RemoteWorkers
          PROVE  /\ TokenInv(w)'
                 /\ HasLoop(w)' <=> HasLoop(w) \/ w = v
                 /\ Ended(w)' <=> Ended(w)
                 /\ Calm(w)' <=> Calm(w)
                 /\ Broken(w)' <=> Broken(w)
      BY <1>1, <1>5, <1>8, <2>4, <2>6, LoopPut DEF Loop
    <3>2. Calm(v)
      BY <2>4, LoopTask, Situation DEF Calm, InLoop
    <3>3. CASE v < NumWorkers
      <4>1. driver' # <<>> /\ Head(driver') = Op("enqueue", <<v + 1, "start_loop">>)
        <5>1. v # NumWorkers
          BY <3>3
        <5> QED BY <1>3, <1>8, <2>6, <5>1, Zenon
      <4>2. /\ Head(driver').op = "enqueue" /\ Head(driver').arg[2] = "start_loop"
            /\ Starting' /\ Target' = v + 1
        BY <4>1 DEF Starting, Target, At, Op
      <4>3. StartedInv'
        BY <1>1, <1>4, <2>2, <4>1, <4>2, Phases DEF StartedInv, PhaseOf
      <4>4. ASSUME NEW w \in RemoteWorkers PROVE LoopInv(w)'
        <5>1. Broken(w) => LostInv(w)'
          <6>1. Broken(w) => w < v + 1 /\ ~HasLoop(w)'
            BY <2>3, <2>4, <3>1
          <6> QED BY <1>5, <4>1, <4>2, <6>1 DEF LostInv, Idling, Awaiting, Doing, Told, At, Op
        <5>2. ~Broken(w) => PlaceInv(w)'
          <6>1. ~Broken(w) => IF w < v + 1 THEN HasLoop(w)' /\ Calm(w)' ELSE ~HasLoop(w)' /\ ~Ended(w)'
            <7>1. w < v + 1 <=> w < v \/ w = v
              OBVIOUS
            <7> QED BY <2>3, <3>1, <3>2, <7>1
          <6> QED BY <4>1, <4>2, <6>1 DEF PlaceInv, Idling, Awaiting, Doing, Expecting, Told, At, Op
        <5> QED BY <3>1, <5>1, <5>2 DEF LoopInv
      <4> QED BY <4>3, <4>4
    <3>4. CASE v = NumWorkers
      <4>1. driver' # <<>> /\ Head(driver') = Op("started", TRUE) /\ Head(driver').op = "started"
        BY <1>3, <1>8, <2>6, <3>4 DEF Op
      <4>2. ~Doing("started", FALSE)'
        <5>1. Op("started", TRUE) # Op("started", FALSE)
          <6>1. Op("started", FALSE).arg = FALSE /\ Op("started", TRUE).arg = TRUE
            BY DEF Op
          <6> QED BY <6>1, Zenon
        <5> QED BY <4>1, <5>1 DEF Doing
      <4>3. StartedInv'
        BY <1>1, <1>4, <2>2, <4>1, <4>2, Phases DEF StartedInv, PhaseOf
      <4>4. ASSUME NEW w \in RemoteWorkers PROVE LoopInv(w)'
        <5>1. Broken(w) => LostInv(w)'
          <6>1. Broken(w) => ~HasLoop(w)'
            BY <2>3, <2>4, <3>1
          <6> QED BY <1>5, <4>1, <4>2, <6>1 DEF LostInv, Idling, Starting, Awaiting, Doing, Told, At, Op
        <5>2. ~Broken(w) => PlaceInv(w)'
          <6>1. ~Broken(w) => HasLoop(w)' /\ Calm(w)'
            <7>1. w < v \/ w = v
              BY <3>4
            <7> QED BY <2>3, <3>1, <3>2, <7>1
          <6> QED BY <4>1, <4>2, <6>1 DEF PlaceInv, Idling, Starting, Awaiting, Doing, Expecting, Told, At, Op
        <5> QED BY <3>1, <5>1, <5>2 DEF LoopInv
      <4> QED BY <4>3, <4>4
    <3> QED BY <1>3, <3>3, <3>4
  <2> QED BY <1>6, <2>5, <2>6
<1> QED BY <1>7, <1>8 DEF Methods

\* What a step that leaves w where it is, and the driver, keeps.
SamePlace(w) ==
    /\ UNCHANGED <<driver, started>>
    /\ inbox'[w] = inbox[w] /\ worker'[w] = worker[w]
    /\ Unasked(w)' <=> Unasked(w)

LEMMA PlaceKept ==
  ASSUME NEW w \in RemoteWorkers, SamePlace(w), HasLoop(w)' <=> HasLoop(w), Ended(w)' => Ended(w)
  PROVE  /\ PlaceInv(w) => PlaceInv(w)'
         /\ LostInv(w) => LostInv(w)'
<1>1. /\ Idling' <=> Idling
      /\ Starting' <=> Starting
      /\ Awaiting' <=> Awaiting
      /\ Target' = Target
      /\ At(driver, "forward")' <=> At(driver, "forward")
      /\ Calm(w)' <=> Calm(w)
      /\ \A name, arg : Doing(name, arg)' <=> Doing(name, arg)
  BY DEF SamePlace, Idling, Starting, Awaiting, Target, At, Calm, Doing
<1>2. \A m : /\ Expecting(w, m)' <=> Expecting(w, m)
             /\ Told(w, m)' <=> Told(w, m)
  BY <1>1 DEF SamePlace, Expecting, Told
<1> QED BY <1>1, <1>2 DEF SamePlace, PlaceInv, LostInv

LEMMA LoopKept ==
  ASSUME IndInv, Up, NEW w \in RemoteWorkers, SameTask(w), SamePlace(w)
  PROVE  LoopInv(w)'
<1>1. TokenInv(w)' /\ (Broken(w)' <=> Broken(w))
  BY TaskKept, Situation DEF SamePlace
<1>2. (HasLoop(w)' <=> HasLoop(w)) /\ (Ended(w)' <=> Ended(w))
  BY TaskKept
<1>3. /\ Broken(w) => LostInv(w)'
      /\ ~Broken(w) => PlaceInv(w)'
  BY <1>2, PlaceKept, Situation
<1> QED BY <1>1, <1>3 DEF LoopInv

LEMMA StartedKept ==
  ASSUME StartedInv, UNCHANGED <<async, driver, started, spawned>>
  PROVE  StartedInv'
BY DEF StartedInv, Starting, Awaiting, Doing, Calling, At

\* Where the workers are between two operations of the executor.
LEMMA BetweenOperations ==
  ASSUME IndInv, Up, Idling, spawned = <<>>
  PROVE  \A w \in RemoteWorkers :
           /\ Broken(w) => started /\ ~HasLoop(w)
           /\ ~Broken(w) => Calm(w) /\ (HasLoop(w) <=> started) /\ (~started => ~Ended(w))
           /\ ~Unasked(w)
<1> TAKE w \in RemoteWorkers
<1>1. ~Unasked(w)
  BY DEF Unasked
<1>2. Broken(w) => started /\ ~HasLoop(w)
  BY Situation DEF LostInv
<1>3. ~Broken(w) => Calm(w) /\ (HasLoop(w) <=> started) /\ (~started => ~Ended(w))
  BY Situation DEF PlaceInv
<1> QED BY <1>1, <1>2, <1>3

LEMMA ControlStep ==
  ASSUME IndInv, Up, Control
  PROVE  StartedInv' /\ \A w \in RemoteWorkers : LoopInv(w)'
<1>1. /\ driver = <<>> /\ spawned = <<>>
      /\ driver' = EachWorker("enqueue", "control") \o EachWorker("wait", "control")
      /\ UNCHANGED <<async, started, spawned, future, queue, worker, inbox, results>>
  BY DEF Control, Free, executor
<1>2. driver' # <<>> /\ Head(driver') = Op("enqueue", <<1, "control">>)
  <2>1. Ends(Op("wait", <<NumWorkers, "control">>))
    BY DEF Ends, Op
  <2> QED BY <1>1, <2>1, ChainOfControl, ListingOf, Zenon
<1>3. /\ Head(driver').op = "enqueue" /\ Head(driver').arg[2] = "control"
      /\ ~Starting'
  BY <1>2 DEF Op, Starting
<1>4. StartedInv'
  BY <1>1, <1>2, <1>3, Phases DEF StartedInv, PhaseOf
<1>5. ASSUME NEW w \in RemoteWorkers PROVE LoopInv(w)'
  <2>1. SameTask(w) /\ (Unasked(w)' <=> Unasked(w))
    BY <1>1 DEF SameTask, SameResults, Queued, Unasked
  <2>2. TokenInv(w)' /\ (Broken(w)' <=> Broken(w))
    BY <2>1, TaskKept, Situation
  <2>3. /\ Broken(w) => started' /\ ~HasLoop(w)'
        /\ ~Broken(w) => Calm(w)' /\ (HasLoop(w)' <=> started') /\ (~started' => ~Ended(w)')
        /\ ~Unasked(w)'
    BY <1>1, <2>1, TaskKept, BetweenOperations DEF Idling
  <2>4. Broken(w) => LostInv(w)'
    BY <1>2, <1>3, <2>3 DEF LostInv, Idling, Awaiting, Doing, Told, At, Op
  <2>5. ~Broken(w) => PlaceInv(w)'
    BY <1>2, <1>3, <2>3 DEF PlaceInv, Idling, Awaiting, Doing, Expecting, Told, At, Op
  <2> QED BY <2>2, <2>4, <2>5 DEF LoopInv
<1> QED BY <1>4, <1>5

LEMMA EngineStepStep ==
  ASSUME IndInv, Up, NEW kind \in StepKinds, EngineStep(kind)
  PROVE  StartedInv' /\ \A w \in RemoteWorkers : LoopInv(w)'
<1>1. /\ driver = <<>> /\ spawned = <<>> /\ driver' = Program(kind)
      /\ UNCHANGED <<async, future, queue, worker, inbox, results>>
  BY DEF EngineStep, Free
<1>2. \A w \in RemoteWorkers : SameTask(w)
  BY <1>1 DEF SameTask, SameResults, Queued
<1>3. \A w \in RemoteWorkers :
        /\ Broken(w) => started /\ ~HasLoop(w)
        /\ ~Broken(w) => Calm(w) /\ (HasLoop(w) <=> started) /\ (~started => ~Ended(w))
        /\ ~Unasked(w)
  BY <1>1, BetweenOperations DEF Idling
<1>4. CASE driver' = <<>>
  <2>1. UNCHANGED <<driver, started, spawned>>
    BY <1>1, <1>4, Programs DEF EngineStep
  <2>2. StartedInv'
    BY <1>1, <2>1, StartedKept, Situation
  <2>3. \A w \in RemoteWorkers : LoopInv(w)'
    BY <1>1, <1>2, <2>1, LoopKept DEF SamePlace, Unasked
  <2> QED BY <2>2, <2>3
<1>5. CASE driver' # <<>> /\ kind = "nothing"
  <2>1. /\ Head(driver') = Op("broadcast", "stop") /\ started
        /\ UNCHANGED <<started, spawned>>
    BY <1>1, <1>5, Programs DEF EngineStep
  <2>2. Head(driver').op = "broadcast"
    BY <2>1 DEF Op
  <2>3. StartedInv'
    BY <1>1, <1>5, <2>1, <2>2, Phases DEF StartedInv, PhaseOf
  <2>4. ASSUME NEW w \in RemoteWorkers PROVE LoopInv(w)'
    <3>1. Unasked(w)' <=> Unasked(w)
      BY <2>1 DEF Unasked
    <3>2. TokenInv(w)' /\ (Broken(w)' <=> Broken(w))
      BY <1>2, <3>1, TaskKept, Situation
    <3>3. /\ Broken(w) => ~HasLoop(w)'
          /\ ~Broken(w) => Calm(w)'
          /\ ~Unasked(w)'
      BY <1>2, <1>3, <3>1, TaskKept
    <3>4. Broken(w) => LostInv(w)'
      BY <1>5, <2>1, <3>3 DEF LostInv, Idling, Starting, Awaiting, Doing, Told, At, Op
    <3>5. ~Broken(w) => PlaceInv(w)'
      BY <1>5, <2>1, <3>3 DEF PlaceInv, Idling, Starting, Awaiting, Doing, Expecting, Told, At, Op
    <3> QED BY <3>2, <3>4, <3>5 DEF LoopInv
  <2> QED BY <2>3, <2>4
<1>6. CASE driver' # <<>> /\ kind # "nothing" /\ ~started /\ ~async
  <2>1. /\ Head(driver') = Op("enqueue", <<1, "start_loop">>)
        /\ UNCHANGED <<started, spawned>>
    BY <1>1, <1>6, Programs DEF EngineStep
  <2>2. Head(driver').op = "enqueue" /\ Starting' /\ Target' = 1
    BY <1>6, <2>1 DEF Op, Starting, Target, At
  <2>3. StartedInv'
    BY <1>1, <1>6, <2>1, <2>2, Phases DEF StartedInv, PhaseOf
  <2>4. ASSUME NEW w \in RemoteWorkers PROVE LoopInv(w)'
    <3>1. (Unasked(w)' <=> Unasked(w)) /\ ~(w < 1)
      BY <2>1 DEF Unasked
    <3>2. TokenInv(w)' /\ ~Broken(w)'
      BY <1>2, <1>3, <1>6, <3>1, TaskKept, Situation
    <3>3. ~HasLoop(w)' /\ ~Ended(w)'
      BY <1>2, <1>3, <1>6, TaskKept
    <3>4. PlaceInv(w)'
      BY <1>6, <2>1, <2>2, <3>1, <3>3 DEF PlaceInv, Idling, Awaiting, Doing, Expecting, Told, At, Op
    <3> QED BY <3>2, <3>4 DEF LoopInv
  <2> QED BY <2>3, <2>4
<1>7. CASE driver' # <<>> /\ kind # "nothing" /\ (started \/ async)
  <2> DEFINE m == IF kind = "transfer" THEN "transfers" ELSE "groups"
  <2>1. Head(driver') = Op("broadcast", m)
    BY <1>1, <1>7, Programs
  <2>2. m \in {"groups", "transfers"} /\ m \in Messages
    BY DEF Messages
  <2> HIDE DEF m
  <2>3. Head(driver').op = "broadcast" /\ Calling(m)'
    BY <1>7, <2>1 DEF Op, Calling, Doing
  <2>4. /\ started'
        /\ IF started THEN spawned' = spawned ELSE spawned' = EachWorker("enqueue", "start_loop")
    BY <1>7 DEF EngineStep
  <2>5. StartedInv'
    <3>1. Calling("groups")' \/ Calling("transfers")'
      BY <2>2, <2>3
    <3> QED BY <1>7, <2>3, <2>4, <3>1, Phases DEF StartedInv, PhaseOf
  <2>6. ASSUME NEW w \in RemoteWorkers PROVE LoopInv(w)'
    <3>1. IF started THEN ~Unasked(w)' ELSE Unasked(w)'
      <4>1. CASE started
        BY <1>3, <2>4, <4>1 DEF Unasked
      <4>2. CASE ~started
        BY <2>4, <4>2, AllSpawned DEF Unasked
      <4> QED BY <4>1, <4>2
    <3>2. TokenInv(w)'
      <4>1. CASE started
        BY <1>2, <3>1, <4>1, TaskKept, Situation
      <4>2. CASE ~started
        <5>1. ~HasLoop(w)' /\ ~Ended(w)'
          BY <1>2, <1>3, <4>2, TaskKept
        <5>2. /\ OnlyOne(queue'[w], {"start_loop"}) /\ OnlyOne(results', LoopResults(w))
              /\ ~(InLoop(w) /\ Queued(w))'
          BY <1>1, Situation DEF TokenInv, InLoop, Queued
        <5> QED BY <5>1, <5>2 DEF TokenInv, LoopResults, Loop
      <4> QED BY <4>1, <4>2
    <3>3. /\ Broken(w)' <=> Broken(w)
          /\ Broken(w) => started /\ ~HasLoop(w)'
          /\ ~Broken(w) => Calm(w)' /\ (HasLoop(w)' <=> started)
      BY <1>2, <1>3, TaskKept
    <3>4. Broken(w) => LostInv(w)'
      BY <1>7, <2>1, <2>2, <3>1, <3>3 DEF LostInv, Idling, Starting, Awaiting, Doing, Told, At, Op
    <3>5. ~Broken(w) => PlaceInv(w)'
      <4>1. ~Broken(w) => Calm(w)' /\ (Unasked(w)' \/ HasLoop(w)')
        BY <3>1, <3>3
      <4> QED BY <1>7, <2>1, <2>2, <4>1
          DEF PlaceInv, Idling, Starting, Awaiting, Doing, Expecting, Told, At, Op
    <3> QED BY <3>2, <3>3, <3>4, <3>5 DEF LoopInv
  <2> QED BY <2>5, <2>6
<1> QED BY <1>4, <1>5, <1>6, <1>7

LEMMA EnqueueByTaskStep ==
  ASSUME IndInv, Up, EnqueueByTask
  PROVE  StartedInv' /\ \A w \in RemoteWorkers : LoopInv(w)'
<1>1. /\ spawned # <<>> /\ UNCHANGED <<async, started, driver, worker, inbox, results>>
      /\ StartedInv
  BY Situation DEF EnqueueByTask, Register, Put, PutFails, executor, At
<1> DEFINE v == NumWorkers - Len(spawned) + 1
<1>2. /\ v \in RemoteWorkers /\ Head(spawned).arg = Loop(v) /\ Len(spawned) \in 1 .. NumWorkers
      /\ Len(Tail(spawned)) = Len(spawned) - 1
  BY <1>1, HeadOfSpawned, Situation DEF Op, Loop
<1>3. Unasked(v)
  BY <1>2 DEF Unasked
<1> HIDE DEF v
<1>4. ~HasLoop(v) /\ ~Ended(v) /\ ~Broken(v)
  BY <1>2, <1>3, Situation DEF TokenInv, LostInv
<1>5. \/ Register(Loop(v)) /\ spawned' = spawned
      \/ Put(Loop(v)) /\ spawned' = Tail(spawned) /\ future[Loop(v)] = "pending"
  <2>1. open[v]
    BY <1>2, Situation
  <2> QED BY <1>2, <2>1 DEF EnqueueByTask, PutFails, Loop
<1>6. StartedInv'
  BY <1>1 DEF StartedInv, Starting, Awaiting, Doing, Calling, At
<1>7. CASE Register(Loop(v)) /\ spawned' = spawned
  <2> SUFFICES ASSUME NEW w \in RemoteWorkers PROVE LoopInv(w)'
    BY <1>6
  <2>1. Unasked(w)' <=> Unasked(w)
    BY <1>7 DEF Unasked
  <2>2. /\ TokenInv(w)'
        /\ HasLoop(w)' <=> HasLoop(w)
        /\ Ended(w)' <=> Ended(w)
        /\ Broken(w)' <=> (Broken(w) /\ w # v)
    BY <1>1, <1>2, <1>4, <1>7, <2>1, LoopRegistered
  <2>3. SamePlace(w)
    BY <1>1, <2>1 DEF SamePlace
  <2>4. /\ Broken(w) => LostInv(w)'
        /\ ~Broken(w) => PlaceInv(w)'
    BY <2>2, <2>3, PlaceKept, Situation
  <2> QED BY <1>4, <2>2, <2>4 DEF LoopInv
<1>8. CASE Put(Loop(v)) /\ spawned' = Tail(spawned) /\ future[Loop(v)] = "pending"
  <2> SUFFICES ASSUME NEW w \in RemoteWorkers PROVE LoopInv(w)'
    BY <1>6
  <2>1. Unasked(w)' <=> (Unasked(w) /\ w # v)
    BY <1>2, <1>8 DEF Unasked, v
  <2>2. /\ TokenInv(w)'
        /\ HasLoop(w)' <=> HasLoop(w) \/ w = v
        /\ Ended(w)' <=> Ended(w)
        /\ Calm(w)' <=> Calm(w)
        /\ Broken(w)' <=> Broken(w)
    BY <1>1, <1>2, <1>4, <1>8, <2>1, LoopPut
  <2>3. CASE w # v
    <3>1. SamePlace(w)
      BY <1>1, <2>1, <2>3 DEF SamePlace
    <3>2. HasLoop(w)' <=> HasLoop(w)
      BY <2>2, <2>3
    <3>3. /\ Broken(w) => LostInv(w)'
          /\ ~Broken(w) => PlaceInv(w)'
      BY <2>2, <3>1, <3>2, PlaceKept, Situation
    <3> QED BY <2>2, <3>3 DEF LoopInv
  <2>4. CASE w = v
    <3>1. PlaceInv(w) /\ ~HasLoop(w) /\ Unasked(w)
      BY <1>3, <1>4, <2>4, Situation
    <3>2. PICK m \in {"groups", "transfers"} : Calling(m)
      BY <1>1 DEF StartedInv
    <3>3. driver # <<>> /\ Head(driver).op \in {"broadcast", "joined"} /\ Head(driver).arg = m
      BY <3>2 DEF Calling, Doing, Op
    <3>4. ~Told(w, m)
      BY <3>1, <3>2, LoopTask DEF PlaceInv, InLoop
    <3>5. Expecting(w, m) /\ Calm(w)
      BY <3>1, <3>2, <3>4 DEF Calling, Expecting, Told, PlaceInv
    <3>6. Calm(w)' /\ HasLoop(w)' /\ driver' = driver /\ inbox'[w] = inbox[w]
      BY <1>1, <2>2, <2>4, <3>5
    <3>7. PlaceInv(w)'
      <4>1. Head(driver').op \in {"broadcast", "joined"} /\ Head(driver').arg = m /\ driver' # <<>>
        BY <3>3, <3>6
      <4>2. \A n : ~Told(w, n)'
        BY <3>4, <3>3, <3>6 DEF Told, Doing, Op
      <4> QED BY <3>6, <4>1, <4>2
          DEF PlaceInv, Idling, Starting, Awaiting, Doing, Expecting, At, Op
    <3> QED BY <1>4, <2>2, <2>4, <3>7 DEF LoopInv
  <2> QED BY <2>3, <2>4
<1> QED BY <1>5, <1>6, <1>7, <1>8

LEMMA TakeTaskStep ==
  ASSUME IndInv, Up, Up', NEW v \in RemoteWorkers, TakeTask(v)
  PROVE  StartedInv' /\ \A w \in RemoteWorkers : LoopInv(w)'
<1>1. /\ worker[v] = "ready" /\ queue[v] # <<>> /\ queue[v] \in Seq(Methods \cup {"TERMINATE"})
      /\ queue' = [queue EXCEPT ![v] = Tail(@)] /\ queue \in [RemoteWorkers -> Seq(Methods \cup {"TERMINATE"})]
      /\ worker \in [RemoteWorkers -> {"ready", "loop", "metadata", "forward", "dead", "exited"}]
      /\ results \in Seq(Results \cup {Sentinel})
      /\ UNCHANGED <<async, driver, spawned, started, future, inbox>>
  BY Situation DEF TakeTask, TypeOK, engineVars, executor
<1>2. StartedInv'
  BY <1>1, StartedKept, Situation
<1>3. \A w \in RemoteWorkers : Unasked(w)' <=> Unasked(w)
  BY <1>1 DEF Unasked
<1>4. Head(queue[v]) # "TERMINATE"
  <2> SUFFICES ASSUME Head(queue[v]) = "TERMINATE" PROVE FALSE
    OBVIOUS
  <2>1. worker'[v] = "exited"
    BY <1>1 DEF TakeTask
  <2> QED BY <2>1 DEF Up, AllAlive, Alive
<1>5. /\ Queued(v) <=> (Head(queue[v]) \in {"start_loop"} \/ Queued(v)')
      /\ OnlyOne(queue[v], {"start_loop"}) => OnlyOne(queue'[v], {"start_loop"})
      /\ OnlyOne(queue[v], {"start_loop"}) /\ Head(queue[v]) \in {"start_loop"} => ~Queued(v)'
  <2>1. queue'[v] = Tail(queue[v])
    BY <1>1
  <2> QED BY <1>1, <2>1, HasInTail DEF Queued
<1>6. CASE Head(queue[v]) = "start_loop"
  <2>1. worker' = [worker EXCEPT ![v] = "loop"] /\ results' = results
    BY <1>6 DEF TakeTask
  <2>2. ASSUME NEW w \in RemoteWorkers, w # v PROVE LoopInv(w)'
    <3>1. worker'[w] = worker[w] /\ queue'[w] = queue[w]
      BY <1>1, <2>1, <2>2
    <3>2. SameTask(w) /\ SamePlace(w)
      BY <1>1, <1>3, <2>1, <3>1 DEF SameTask, SameResults, SamePlace, Queued
    <3> QED BY <3>2, LoopKept
  <2>3. LoopInv(v)'
    <3>1. TokenInv(v) /\ HasLoop(v)
      BY <1>5, <1>6, LoopTask, Situation
    <3>2. worker'[v] = "loop" /\ InLoop(v)' /\ HasLoop(v)' /\ ~Queued(v)' /\ Calm(v)'
      BY <1>1, <1>5, <1>6, <2>1, <3>1 DEF InLoop, HasLoop, Calm, TokenInv
    <3>3. (Ended(v)' <=> Ended(v)) /\ (Broken(v)' <=> Broken(v))
      BY <1>1, <2>1 DEF Ended, Broken, LoopResults, Loop
    <3>4. TokenInv(v)'
      BY <1>1, <1>3, <1>5, <2>1, <3>1, <3>2, <3>3 DEF TokenInv, LoopResults, Loop
    <3>5. ~Broken(v) /\ PlaceInv(v)
      BY <3>1, Situation DEF LostInv
    <3>6. PlaceInv(v)'
      <4>1. /\ Idling' <=> Idling
            /\ Starting' <=> Starting
            /\ Awaiting' <=> Awaiting
            /\ Target' = Target
            /\ At(driver, "forward")' <=> At(driver, "forward")
            /\ \A name, arg : Doing(name, arg)' <=> Doing(name, arg)
        BY <1>1 DEF Idling, Starting, Awaiting, Target, At, Doing
      <4>2. \A m : /\ Expecting(v, m)' <=> Expecting(v, m)
                   /\ Told(v, m)' <=> Told(v, m)
        BY <1>1, <4>1 DEF Expecting, Told
      <4> QED BY <1>1, <1>3, <3>1, <3>2, <3>3, <3>5, <4>1, <4>2 DEF PlaceInv
    <3> QED BY <3>3, <3>4, <3>5, <3>6 DEF LoopInv
  <2> QED BY <1>2, <2>2, <2>3
<1>7. CASE Head(queue[v]) # "start_loop"
  <2>1. Head(queue[v]) = "control"
    BY <1>1, <1>4, <1>7, HeadTailProperties DEF Methods
  <2> DEFINE e == [key |-> <<v, "control">>, value |-> "value"]
  <2>2. worker' = [worker EXCEPT ![v] = "ready"] /\ results' = Append(results, e)
    BY <2>1 DEF TakeTask
  <2>3. worker' = worker
    BY <1>1, <2>2
  <2>4. /\ e \in Results
        /\ \A w \in RemoteWorkers : e \notin LoopResults(w) /\ e \notin {[key |-> Loop(w), value |-> "error"]}
    BY DEF Results, LoopResults, Loop, Keys, Methods
  <2> HIDE DEF e
  <2> SUFFICES ASSUME NEW w \in RemoteWorkers PROVE LoopInv(w)'
    BY <1>2
  <2>5. SameResults(w)
    <3>1. \A P :
           /\ Has(results', P) <=> (Has(results, P) \/ e \in P)
           /\ OnlyOne(results, P) /\ ~(e \in P /\ Has(results, P)) => OnlyOne(results', P)
      <4>1. /\ results \in Seq(Results \cup {Sentinel}) /\ e \in Results \cup {Sentinel}
            /\ results' = Append(results, e)
        BY <1>1, <2>2, <2>4
      <4> QED BY <4>1, HasInAppend
    <3>2. Ended(w)' <=> Ended(w)
      BY <2>4, <3>1 DEF Ended, LoopResults, Loop
    <3> QED BY <2>4, <3>1, <3>2 DEF SameResults
  <2>6. /\ Queued(w)' <=> Queued(w)
        /\ OnlyOne(queue[w], {"start_loop"}) => OnlyOne(queue[w], {"start_loop"})'
    <3>1. CASE w = v
      BY <1>5, <1>7, <3>1
    <3>2. CASE w # v
      <4>1. queue'[w] = queue[w]
        BY <1>1, <3>2
      <4> QED BY <4>1 DEF Queued
    <3> QED BY <3>1, <3>2
  <2>7. SameTask(w) /\ SamePlace(w)
    BY <1>1, <1>3, <2>3, <2>5, <2>6 DEF SameTask, SamePlace
  <2> QED BY <2>7, LoopKept
<1> QED BY <1>6, <1>7

\* The loop of v ends: the others are where they were.
LEMMA OthersKept ==
  ASSUME IndInv, Up, NEW v \in RemoteWorkers, NEW value \in {"value", "error"}, LoopEnds(v, value),
         UNCHANGED <<async, started, driver, spawned, future, queue>>,
         NEW w \in RemoteWorkers, w # v, inbox'[w] = inbox[w]
  PROVE  LoopInv(w)'
<1> DEFINE e == [key |-> Loop(v), value |-> value]
<1>1. results' = Append(results, e) /\ worker'[w] = worker[w] /\ results \in Seq(Results \cup {Sentinel})
  BY Situation DEF LoopEnds, TypeOK, Loop
<1>2. e \in Results /\ e \notin LoopResults(w) /\ e \notin {[key |-> Loop(w), value |-> "error"]}
  BY DEF Results, LoopResults, Loop, Keys, Methods
<1> HIDE DEF e
<1>3. SameResults(w)
  <2>1. \A P :
         /\ Has(results', P) <=> (Has(results, P) \/ e \in P)
         /\ OnlyOne(results, P) /\ ~(e \in P /\ Has(results, P)) => OnlyOne(results', P)
    BY <1>1, <1>2, HasInAppend
  <2>2. Ended(w)' <=> Ended(w)
    BY <1>2, <2>1 DEF Ended, LoopResults, Loop
  <2> QED BY <1>2, <2>1, <2>2 DEF SameResults
<1>4. SameTask(w) /\ SamePlace(w)
  BY <1>1, <1>3 DEF SameTask, SamePlace, Queued, Unasked
<1> QED BY <1>4, LoopKept

\* The task of v has ended, and its result is there.
LEMMA EndedTask ==
  ASSUME IndInv, Up, NEW v \in RemoteWorkers, NEW value \in {"value", "error"}, LoopEnds(v, value), InLoop(v),
         UNCHANGED <<spawned, future, queue>>
  PROVE  /\ TokenInv(v)' /\ ~HasLoop(v)' /\ ~Unasked(v) /\ ~Unasked(v)' /\ HasLoop(v) /\ ~Broken(v) /\ PlaceInv(v)
         /\ Broken(v)' <=> value = "error"
<1> DEFINE e == [key |-> Loop(v), value |-> value]
<1>1. results' = Append(results, e) /\ worker'[v] = "ready" /\ results \in Seq(Results \cup {Sentinel})
  BY Situation DEF LoopEnds, TypeOK, Loop
<1>2. e \in Results /\ e \in LoopResults(v) /\ (e \in {[key |-> Loop(v), value |-> "error"]} <=> value = "error")
  BY DEF Results, LoopResults, Loop, Keys, Methods
<1> HIDE DEF e
<1>3. HasLoop(v) /\ TokenInv(v)
  BY Situation DEF HasLoop
<1>4. ~Broken(v) /\ PlaceInv(v)
  BY <1>3, Situation DEF LostInv
<1>5. ~Ended(v) /\ ~Queued(v) /\ future[Loop(v)] = "pending" /\ ~Unasked(v)
  BY <1>3 DEF TokenInv
<1>6. ~InLoop(v)' /\ ~Queued(v)' /\ ~HasLoop(v)' /\ ~Unasked(v)'
  BY <1>1, <1>5, LoopTask DEF InLoop, Queued, Unasked
<1>7. OnlyOne(results', LoopResults(v)) /\ Ended(v)'
  <2>1. \A P :
         /\ Has(results', P) <=> (Has(results, P) \/ e \in P)
         /\ OnlyOne(results, P) /\ ~(e \in P /\ Has(results, P)) => OnlyOne(results', P)
    BY <1>1, <1>2, HasInAppend
  <2>2. OnlyOne(results, LoopResults(v)) /\ ~Has(results, LoopResults(v))
    BY <1>3, <1>5 DEF TokenInv, Ended
  <2>3. OnlyOne(results', LoopResults(v)) /\ Has(results', LoopResults(v))
    BY <1>2, <2>1, <2>2
  <2> QED BY <2>3 DEF Ended, LoopResults, Loop
<1>8. Broken(v)' <=> value = "error"
  <2>1. ~Has(results, {[key |-> Loop(v), value |-> "error"]})
    BY <1>5, ErrorEnds
  <2>2. Has(results', {[key |-> Loop(v), value |-> "error"]}) <=> value = "error"
    BY <1>1, <1>2, <2>1, HasInAppend
  <2> QED BY <1>5, <2>2 DEF Broken, Loop
<1>9. TokenInv(v)'
  BY <1>3, <1>5, <1>6, <1>7 DEF TokenInv, LoopResults, Loop
<1> QED BY <1>3, <1>4, <1>5, <1>6, <1>8, <1>9

LEMMA RaisesStep ==
  ASSUME IndInv, Up, NEW v \in RemoteWorkers, Raises(v)
  PROVE  StartedInv' /\ \A w \in RemoteWorkers : LoopInv(w)'
<1>1. /\ InLoop(v) /\ LoopEnds(v, "error")
      /\ UNCHANGED <<async, started, driver, spawned, future, queue, inbox>>
  BY DEF Raises, engineVars, executor
<1>2. StartedInv'
  BY <1>1, StartedKept, Situation
<1>3. \A w \in RemoteWorkers : w # v => LoopInv(w)'
  BY <1>1, OthersKept
<1>4. LoopInv(v)'
  <2>1. /\ TokenInv(v)' /\ ~HasLoop(v)' /\ ~Unasked(v)' /\ HasLoop(v) /\ PlaceInv(v)
        /\ Broken(v)'
    BY <1>1, EndedTask
  <2>2. LostInv(v)'
    <3>1. /\ Idling => started
          /\ Starting => v < Target
          /\ ~Doing("started", FALSE) /\ ~Awaiting /\ ~Told(v, "stop")
      BY <2>1 DEF PlaceInv
    <3> QED BY <1>1, <2>1, <3>1 DEF LostInv, Idling, Starting, Awaiting, Target, Doing, Told, At
  <2> QED BY <2>1, <2>2 DEF LoopInv
<1> QED BY <1>2, <1>3, <1>4

LEMMA ReceiveStep ==
  ASSUME IndInv, Up, NEW v \in RemoteWorkers, Receive(v)
  PROVE  StartedInv' /\ \A w \in RemoteWorkers : LoopInv(w)'
<1>1. /\ InLoop(v) /\ inbox[v] # <<>>
      /\ UNCHANGED <<async, started, driver, spawned, future, queue>>
      /\ inbox' = [inbox EXCEPT ![v] = Tail(@)] /\ inbox \in [RemoteWorkers -> Seq(Messages)]
      /\ worker \in [RemoteWorkers -> {"ready", "loop", "metadata", "forward", "dead", "exited"}]
  BY Situation DEF Receive, InLoop, engineVars, executor, TypeOK
<1>2. StartedInv'
  BY <1>1, StartedKept, Situation
<1>3. driver # <<>> /\ Head(driver).op = "joined" /\ inbox[v] = <<Head(driver).arg>> /\ Head(driver) \in Steps
  BY <1>1, HeadOfDriver, Situation DEF At
<1>4. PICK m \in Messages : Head(driver) = Op("joined", m) /\ inbox[v] = <<m>>
  <2>1. PICK m \in Messages : Head(driver) = Op("joined", m) /\ Head(driver).arg = m
    BY <1>3 DEF Steps, Op
  <2> QED BY <1>3, <2>1
<1>5. inbox'[v] = <<>> /\ Head(inbox[v]) = m
  BY <1>1, <1>4
<1>6. driver' # <<>> /\ Head(driver') = Op("joined", m)
  BY <1>1, <1>3, <1>4
<1>7. HasLoop(v) /\ ~Broken(v) /\ PlaceInv(v) /\ TokenInv(v) /\ ~Unasked(v) /\ ~Unasked(v)'
  <2>1. HasLoop(v) /\ TokenInv(v)
    BY <1>1, Situation DEF HasLoop
  <2> QED BY <1>1, <2>1, Situation DEF LostInv, TokenInv, Unasked
<1>8. Expecting(v, m)
  BY <1>3, <1>4 DEF Expecting, Doing
<1>9. \A w \in RemoteWorkers : w # v => inbox'[w] = inbox[w]
  BY <1>1
<1>10. CASE worker[v] = "loop" /\ m \in {"stop", "transfers"}
  <2>1. LoopEnds(v, "value")
    BY <1>5, <1>10 DEF Receive
  <2>2. \A w \in RemoteWorkers : w # v => LoopInv(w)'
    BY <1>1, <1>9, <2>1, OthersKept
  <2>3. TokenInv(v)' /\ ~HasLoop(v)' /\ ~Unasked(v)' /\ ~Broken(v)'
    BY <1>1, <2>1, EndedTask
  <2>4. PlaceInv(v)'
    BY <1>5, <1>6, <1>10, <2>3
    DEF PlaceInv, Idling, Starting, Awaiting, Doing, Expecting, Told, At, Op
  <2>5. LoopInv(v)'
    BY <2>3, <2>4 DEF LoopInv
  <2> QED BY <1>2, <2>2, <2>5
<1>11. CASE ~(worker[v] = "loop" /\ m \in {"stop", "transfers"})
  <2>1. /\ worker' = [worker EXCEPT ![v] = IF @ = "loop" THEN "metadata" ELSE "forward"]
        /\ results' = results
    BY <1>5, <1>11 DEF Receive
  <2>2. ASSUME NEW w \in RemoteWorkers, w # v PROVE LoopInv(w)'
    <3>1. worker'[w] = worker[w] /\ inbox'[w] = inbox[w]
      BY <1>1, <2>1, <2>2
    <3>2. SameTask(w) /\ SamePlace(w)
      BY <1>1, <2>1, <3>1 DEF SameTask, SameResults, SamePlace, Queued, Unasked
    <3> QED BY <3>2, LoopKept
  <2>3. InLoop(v)' /\ HasLoop(v)'
    BY <1>1, <2>1 DEF InLoop, HasLoop
  <2>4. /\ Queued(v)' <=> Queued(v)
        /\ Ended(v)' <=> Ended(v)
        /\ Broken(v)' <=> Broken(v)
        /\ Unasked(v)' <=> Unasked(v)
    BY <1>1, <2>1 DEF Queued, Ended, Broken, LoopResults, Loop, Unasked
  <2>5. TokenInv(v)'
    BY <1>1, <1>7, <2>1, <2>3, <2>4 DEF TokenInv, LoopResults, Loop
  <2>6. /\ m \in {"groups", "metadata"}
        /\ m = "groups" => worker'[v] = "metadata"
        /\ m = "metadata" => worker'[v] = "forward"
    <3>1. worker[v] \in {"loop", "metadata"}
      BY DEF Receive
    <3>2. m = "groups" \/ m = "transfers" \/ m = "stop" => worker[v] = "loop"
      BY <1>7, <1>8, <3>1 DEF PlaceInv, Calm
    <3>3. m = "metadata" => worker[v] = "metadata"
      BY <1>7, <1>8 DEF PlaceInv
    <3> QED BY <1>1, <1>11, <2>1, <3>2, <3>3 DEF Messages
  <2>7. PlaceInv(v)'
    BY <1>5, <1>6, <2>6 DEF PlaceInv, Idling, Starting, Awaiting, Doing, Expecting, Told, At, Op
  <2>8. LoopInv(v)'
    BY <1>7, <2>4, <2>5, <2>7 DEF LoopInv
  <2> QED BY <1>2, <2>2, <2>8
<1> QED BY <1>10, <1>11

LEMMA HandleResultStep ==
  ASSUME IndInv, Up, HandleResult
  PROVE  StartedInv' /\ \A w \in RemoteWorkers : LoopInv(w)'
<1>1. /\ results # <<>> /\ results \in Seq(Results \cup {Sentinel}) /\ results' = Tail(results)
      /\ future \in [Keys -> {"none", "pending", "value", "error"}]
      /\ future' = [future EXCEPT ![Head(results).key] = Head(results).value]
      /\ UNCHANGED <<async, driver, spawned, started, queue, worker, inbox>>
  BY Situation DEF HandleResult, TypeOK, executor
<1>2. StartedInv'
  BY <1>1, StartedKept, Situation
<1>3. Head(results) \in Results
  BY <1>1, HeadTailProperties DEF HandleResult
<1>4. PICK k \in Keys, value \in {"value", "error"} : Head(results) = [key |-> k, value |-> value]
  BY <1>3 DEF Results
<1>5. future' = [future EXCEPT ![k] = value]
  <2>1. Head(results).key = k /\ Head(results).value = value
    BY <1>4
  <2>2. future' = [future EXCEPT ![Head(results).key] = Head(results).value]
    BY <1>1
  <2> QED BY <2>1, <2>2, Zenon
<1>6. \A P : /\ Has(results, P) <=> (Head(results) \in P \/ Has(results', P))
             /\ OnlyOne(results, P) => OnlyOne(results', P)
             /\ OnlyOne(results, P) /\ Head(results) \in P => ~Has(results', P)
  BY <1>1, HasInTail
<1>7. ASSUME NEW w \in RemoteWorkers, k # Loop(w) PROVE LoopInv(w)'
  <2>1. Head(results) \notin LoopResults(w) /\ Head(results) \notin {[key |-> Loop(w), value |-> "error"]}
    BY <1>4, <1>7 DEF LoopResults
  <2>2. Ended(w)' <=> Ended(w)
    BY <1>6, <2>1 DEF Ended, LoopResults, Loop
  <2>3. SameResults(w)
    BY <1>6, <2>1, <2>2 DEF SameResults
  <2>4. future'[Loop(w)] = future[Loop(w)]
    BY <1>1, <1>5, <1>7 DEF Loop, Keys, Methods
  <2>5. SameTask(w) /\ SamePlace(w)
    BY <1>1, <2>3, <2>4 DEF SameTask, SamePlace, Queued, Unasked
  <2> QED BY <2>5, LoopKept
<1>8. ASSUME NEW w \in RemoteWorkers, k = Loop(w) PROVE LoopInv(w)'
  <2>1. /\ Head(results) \in LoopResults(w)
        /\ Head(results) \in {[key |-> Loop(w), value |-> "error"]} <=> value = "error"
    BY <1>4, <1>8 DEF LoopResults
  <2>2. Ended(w) /\ TokenInv(w)
    BY <1>6, <2>1, Situation DEF Ended
  <2>3. /\ ~HasLoop(w) /\ ~Unasked(w) /\ future[Loop(w)] = "pending" /\ OnlyOne(results, LoopResults(w))
        /\ ~InLoop(w) /\ ~Queued(w) /\ OnlyOne(queue[w], {"start_loop"})
    BY <2>2, LoopTask DEF TokenInv
  <2>4. ~Has(results', LoopResults(w)) /\ OnlyOne(results', LoopResults(w)) /\ ~Ended(w)'
    <3>1. ~Has(results', LoopResults(w)) /\ OnlyOne(results', LoopResults(w))
      BY <1>6, <2>1, <2>3
    <3> QED BY <3>1 DEF Ended, LoopResults, Loop
  <2>5. ~HasLoop(w)' /\ ~InLoop(w)' /\ ~Unasked(w)' /\ OnlyOne(queue[w], {"start_loop"})'
    BY <1>1, <2>3, LoopTask DEF InLoop, Queued, Unasked
  <2>6. Broken(w)' <=> Broken(w)
    <3>1. Broken(w) <=> Has(results, {[key |-> Loop(w), value |-> "error"]})
      BY <2>3 DEF Broken
    <3>2. ~Has(results', {[key |-> Loop(w), value |-> "error"]})
      BY <2>4, ErrorEnds
    <3>3. Broken(w) <=> value = "error"
      BY <1>6, <2>1, <3>1, <3>2
    <3>4. future'[Loop(w)] = value
      BY <1>1, <1>5, <1>8
    <3>5. Broken(w)' <=> value = "error"
      BY <3>2, <3>4 DEF Broken, Loop
    <3> QED BY <3>3, <3>5
  <2>7. TokenInv(w)'
    BY <2>4, <2>5 DEF TokenInv, LoopResults, Loop
  <2>8. /\ Broken(w) => LostInv(w)'
        /\ ~Broken(w) => PlaceInv(w)'
    <3>1. SamePlace(w)
      BY <1>1 DEF SamePlace, Unasked
    <3>2. (HasLoop(w)' <=> HasLoop(w)) /\ (Ended(w)' => Ended(w))
      BY <2>3, <2>4, <2>5
    <3> QED BY <3>1, <3>2, PlaceKept, Situation
  <2> QED BY <2>6, <2>7, <2>8 DEF LoopInv
<1> QED BY <1>2, <1>7, <1>8

\* The steps that do not keep everybody up.
LEMMA StepsWhenUp ==
  ASSUME IndInv, Up, Up', Next
  PROVE  \/ \E kind \in StepKinds : EngineStep(kind)
         \/ Control \/ EnqueueByDriver \/ SetStarted \/ SendBroadcast \/ BroadcastReturns \/ Forward
         \/ Wait \/ EnqueueByTask \/ HandleResult
         \/ \E w \in RemoteWorkers : TakeTask(w) \/ Receive(w) \/ Raises(w)
<1>1. ~Shutdown /\ ~Terminate /\ ~CloseHandler /\ ~Drain /\ ~NoticeDeath /\ ~KillWorker /\ ~CloseAfterKill
  BY Situation DEF Shutdown, Terminate, CloseHandler, Drain, NoticeDeath, KillWorker, CloseAfterKill, Stopping,
     Up, AllAlive, Alive
<1>2. ~CollectiveFails /\ \A w \in RemoteWorkers : ~Killed(w)
  <2>1. ~CollectiveFails
    BY DEF CollectiveFails, Up, AllAlive, Alive
  <2>2. ASSUME NEW w \in RemoteWorkers, Killed(w) PROVE FALSE
    <3>1. worker'[w] = "dead"
      BY <2>2, Situation DEF Killed, TypeOK
    <3> QED BY <3>1 DEF Up, AllAlive, Alive
  <2> QED BY <2>1, <2>2
<1>3. ~HandleTerminate
  <2>1. ~Has(results, FailureResults) /\ results \in Seq(Results \cup {Sentinel})
    BY Situation DEF EngineInv, TypeOK
  <2>2. results # <<>> /\ Head(results) = Sentinel => Has(results, FailureResults)
    BY <2>1, HasInTail DEF FailureResults
  <2> QED BY <2>1, <2>2 DEF HandleTerminate
<1> QED BY <1>1, <1>2, <1>3, Zenon DEF Next, Driver, ResultHandler, WorkerMonitor, WorkerProcess

LEMMA LoopsStep ==
  ASSUME IndInv, Next, Up'
  PROVE  StartedInv' /\ \A w \in RemoteWorkers : LoopInv(w)'
<1>1. Up
  BY UpStep DEF IndInv, Up
<1> QED BY <1>1, StepsWhenUp, EngineStepStep, ControlStep, EnqueueByDriverStep, SetStartedStep, SendBroadcastStep,
           BroadcastReturnsStep, ForwardStep, WaitStep, EnqueueByTaskStep, HandleResultStep,
           TakeTaskStep, ReceiveStep, RaisesStep

-----------------------------------------------------------------------------
\* The invariant is inductive.

LEMMA IndInvInit ==
  Init => IndInv
<1> SUFFICES ASSUME Init PROVE IndInv
  OBVIOUS
<1>1. TypeOK
  <2> DEFINE Futures == {"none", "pending", "value", "error"}
             Tasks == Methods \cup {"TERMINATE"}
             Answers == Results \cup {Sentinel}
             Places == {"ready", "loop", "metadata", "forward", "dead", "exited"}
  <2>1. /\ async \in BOOLEAN /\ started \in BOOLEAN /\ engine \in {"up", "failed", "shutdown"}
        /\ tasks \in SUBSET Keys
    BY DEF Init
  <2>2. "none" \in Futures /\ "ready" \in Places
    OBVIOUS
  <2>3. <<>> \in Seq(Tasks) /\ <<>> \in Seq(Messages) /\ <<>> \in Seq(Answers)
    BY EmptySeq
  <2>4. /\ handler \in [pc : {"run", "drain", "done"}, left : SUBSET Keys, size : Nat]
        /\ monitor \in [pc : {"watch", "kill", "done"}, left : SUBSET RemoteWorkers, close : BOOLEAN]
    BY DEF Init
  <2> HIDE DEF Futures, Tasks, Answers, Places
  <2>5. /\ future \in [Keys -> Futures] /\ open \in [RemoteWorkers -> BOOLEAN]
        /\ worker \in [RemoteWorkers -> Places]
    BY <2>2 DEF Init
  <2>6. /\ queue \in [RemoteWorkers -> Seq(Tasks)] /\ inbox \in [RemoteWorkers -> Seq(Messages)]
        /\ results \in Seq(Answers)
    BY <2>3 DEF Init
  <2> QED BY <2>1, <2>4, <2>5, <2>6 DEF TypeOK, Futures, Tasks, Answers, Places
<1>2. ListsInv
  BY DEF Init, ListsInv, Listing, Chain
<1>3. InboxInv
  BY DEF Init, InboxInv
<1>4. EngineInv
  BY HasInEmpty DEF Init, EngineInv, At, Keys, Methods
<1>5. StartedInv
  BY DEF Init, StartedInv, Starting, Awaiting, Doing, Calling, At
<1>6. ASSUME NEW w \in RemoteWorkers PROVE LoopInv(w)
  <2>1. /\ ~Queued(w) /\ ~InLoop(w) /\ ~Ended(w) /\ ~Unasked(w) /\ Calm(w)
        /\ OnlyOne(queue[w], {"start_loop"}) /\ OnlyOne(results, LoopResults(w))
    BY HasInEmpty DEF Init, Queued, InLoop, Ended, Unasked, Calm
  <2>2. ~HasLoop(w) /\ ~Broken(w)
    BY <2>1, LoopTask, ErrorEnds DEF Init, Broken, Loop, Keys, Methods
  <2>3. driver = <<>> /\ ~started
    BY DEF Init
  <2>4. TokenInv(w)
    BY <2>1, <2>2 DEF TokenInv
  <2>5. PlaceInv(w)
    BY <2>1, <2>2, <2>3 DEF PlaceInv, Starting, Awaiting, Doing, Expecting, Told, At
  <2> QED BY <2>2, <2>4, <2>5 DEF LoopInv
<1> QED BY <1>1, <1>2, <1>3, <1>4, <1>5, <1>6 DEF IndInv

LEMMA IndInvStep ==
  IndInv /\ [Next]_vars => IndInv'
<1> SUFFICES ASSUME IndInv, [Next]_vars PROVE IndInv'
  OBVIOUS
<1>1. CASE Next
  <2>1. TypeOK' /\ ListsInv'
    BY <1>1, TypeStep, ListsStep DEF IndInv
  <2>2. InboxInv'
    BY <1>1, InboxStep DEF IndInv, InboxInv
  <2>3. EngineInv'
    BY <1>1, EngineInvStep
  <2>4. Up' => StartedInv' /\ \A w \in RemoteWorkers : LoopInv(w)'
    BY <1>1, LoopsStep
  <2> QED BY <2>1, <2>2, <2>3, <2>4 DEF IndInv
<1>2. CASE UNCHANGED vars
  <2> USE <1>2 DEF vars, executor, threads
  <2>1. TypeOK' /\ ListsInv' /\ InboxInv'
    BY DEF IndInv, TypeOK, ListsInv, InboxInv, At
  <2>2. (Up' <=> Up) /\ EngineInv'
    BY DEF IndInv, EngineInv, At, Up, AllAlive, Alive
  <2>3. ASSUME Up PROVE StartedInv' /\ \A w \in RemoteWorkers : LoopInv(w)'
    <3>1. StartedInv'
      BY <2>3, StartedKept, Situation
    <3>2. \A w \in RemoteWorkers : SameTask(w) /\ SamePlace(w)
      BY DEF SameTask, SameResults, SamePlace, Queued, Unasked
    <3> QED BY <2>3, <3>1, <3>2, LoopKept
  <2> QED BY <2>1, <2>2, <2>3 DEF IndInv
<1> QED BY <1>1, <1>2

LEMMA LoopsFollow ==
  IndInv => LoopsAgree
<1> SUFFICES ASSUME IndInv PROVE LoopsAgree
  OBVIOUS
<1>1. ASSUME Healthy, engine = "up"
      PROVE  Up /\ \A w \in RemoteWorkers : ~Broken(w)
  <2>1. Up
    BY <1>1 DEF Healthy, Up
  <2>2. ASSUME NEW w \in RemoteWorkers PROVE ~Broken(w)
    <3>1. Loop(w) \in Keys
      BY DEF Loop, Keys, Methods
    <3>2. future[Loop(w)] # "error"
      BY <1>1, <3>1 DEF Healthy
    <3>3. ~Has(results, {[key |-> Loop(w), value |-> "error"]})
      BY <1>1 DEF Healthy, Has
    <3> QED BY <3>2, <3>3 DEF Broken
  <2> QED BY <2>1, <2>2
<1>2. ASSUME Free, Healthy, NEW w \in RemoteWorkers
      PROVE  HasLoop(w) = started
  <2>1. engine = "up" /\ Idling
    BY <1>2 DEF Free, Idling
  <2>2. PlaceInv(w)
    BY <1>1, <1>2, <2>1, Situation
  <2>3. HasLoop(w) <=> started
    BY <2>1, <2>2 DEF PlaceInv
  <2>4. started \in BOOLEAN /\ HasLoop(w) \in BOOLEAN
    BY DEF IndInv, TypeOK, HasLoop
  <2> QED BY <2>3, <2>4, Zenon
<1>3. ASSUME NEW w \in RemoteWorkers
      PROVE  /\ Len(inbox[w]) <= 1
             /\ Healthy /\ inbox[w] = <<"metadata">> => worker[w] = "metadata"
             /\ Healthy /\ inbox[w] \in {<<"groups">>, <<"stop">>} => worker[w] \in {"ready", "loop"}
  <2>1. \/ inbox[w] = <<>>
        \/ At(driver, "joined") /\ inbox[w] = <<Head(driver).arg>>
        \/ engine = "failed" /\ Len(inbox[w]) = 1
    BY DEF IndInv, InboxInv
  <2>2. Len(inbox[w]) <= 1
    <3>1. CASE inbox[w] = <<>>
      BY <3>1
    <3>2. CASE inbox[w] = <<Head(driver).arg>>
      <4> DEFINE m == Head(driver).arg
      <4>1. inbox[w] = <<m>>
        BY <3>2
      <4> HIDE DEF m
      <4> QED BY <4>1
    <3>3. CASE Len(inbox[w]) = 1
      BY <3>3
    <3>4. inbox[w] = <<>> \/ inbox[w] = <<Head(driver).arg>> \/ Len(inbox[w]) = 1
      BY <2>1, Zenon
    <3> QED BY <3>1, <3>2, <3>3, <3>4, Zenon
  <2>3. ASSUME Healthy, inbox[w] # <<>>, NEW m, inbox[w] = <<m>> PROVE PlaceInv(w) /\ Expecting(w, m)
    <3>1. engine # "failed"
      BY <2>3 DEF Healthy, IndInv, EngineInv
    <3>2. At(driver, "joined") /\ Head(driver).arg = m
      BY <2>1, <2>3, <3>1
    <3>3. engine = "up"
      BY <3>1, <3>2 DEF IndInv, EngineInv, TypeOK, At
    <3>4. PlaceInv(w)
      BY <1>1, <2>3, <3>3, Situation
    <3>5. Head(driver) = Op("joined", m)
      <4>1. Head(driver) \in Steps
        BY <3>2, HeadOfDriver DEF IndInv, At
      <4> QED BY <3>2, <4>1 DEF At, Steps, Op
    <3> QED BY <2>3, <3>2, <3>4, <3>5 DEF Expecting, Doing, At
  <2>4. ASSUME Healthy, inbox[w] = <<"metadata">> PROVE worker[w] = "metadata"
    <3>1. inbox[w] # <<>>
      BY <2>4
    <3>2. PlaceInv(w) /\ Expecting(w, "metadata")
      BY <2>3, <2>4, <3>1
    <3> QED BY <3>2 DEF PlaceInv
  <2>5. ASSUME Healthy, inbox[w] = <<"groups">> PROVE worker[w] \in {"ready", "loop"}
    <3>1. inbox[w] # <<>>
      BY <2>5
    <3>2. PlaceInv(w) /\ Expecting(w, "groups")
      BY <2>3, <2>5, <3>1
    <3> QED BY <3>2 DEF PlaceInv, Calm
  <2>6. ASSUME Healthy, inbox[w] = <<"stop">> PROVE worker[w] \in {"ready", "loop"}
    <3>1. inbox[w] # <<>>
      BY <2>6
    <3>2. PlaceInv(w) /\ Expecting(w, "stop")
      BY <2>3, <2>6, <3>1
    <3> QED BY <3>2 DEF PlaceInv, Calm
  <2> QED BY <2>2, <2>4, <2>5, <2>6
<1> QED BY <1>2, <1>3 DEF LoopsAgree

\* Between two operations of the executor either every remote worker runs the
\* execution loop or none does, as the driver believes, and every worker is where
\* the broadcast that waits for it is meant to be received: for every number of
\* workers, with the loops started by the engine or by a task beside it, whatever
\* the engine is asked to do, and until the first failure.
THEOREM LoopsStayInStep ==
  Spec => []LoopsAgree
<1>1. Spec => []IndInv
  BY IndInvInit, IndInvStep, PTL DEF Spec
<1> QED BY <1>1, LoopsFollow, PTL

-----------------------------------------------------------------------------
\* The kernels.

\* An update of one entry of a matrix over the ranks.
LEMMA EntryUpdate ==
    ASSUME NEW S, NEW f \in [Ranks -> [Ranks -> S]], NEW p \in Ranks, NEW q \in Ranks,
           NEW v \in S, NEW g, g = [f EXCEPT ![p][q] = v]
    PROVE  /\ g \in [Ranks -> [Ranks -> S]]
           /\ \A a, b \in Ranks : g[a][b] = IF a = p /\ b = q THEN v ELSE f[a][b]
  OBVIOUS

\* A step of thread q of rank p moves its own pc and nobody else's.
LEMMA ThreadMoves ==
    ASSUME KernelTypeOK, NEW p \in Ranks, NEW q \in Ranks, NEW from \in BarrierSteps, NEW to \in BarrierSteps,
           Step(p, q, from, to)
    PROVE  /\ pc[p][q] = from
           /\ pc' \in [Ranks -> [Ranks -> BarrierSteps]]
           /\ \A a, b \in Ranks : pc'[a][b] = IF a = p /\ b = q THEN to ELSE pc[a][b]
           /\ UNCHANGED <<calls, phase, input, tmp>>
  BY EntryUpdate DEF Step, KernelTypeOK

\* A flag is raised or lowered at one entry.
LEMMA StartFlag ==
    ASSUME KernelTypeOK, NEW p \in Ranks, NEW q \in Ranks, NEW v \in BOOLEAN,
           start' = [start EXCEPT ![p][q] = v]
    PROVE  /\ start' \in [Ranks -> [Ranks -> BOOLEAN]]
           /\ \A a, b \in Ranks : start'[a][b] = IF a = p /\ b = q THEN v ELSE start[a][b]
<1>1. start \in [Ranks -> [Ranks -> BOOLEAN]]
  BY DEF KernelTypeOK
<1> QED
  BY <1>1, EntryUpdate

LEMMA EndFlag ==
    ASSUME KernelTypeOK, NEW p \in Ranks, NEW q \in Ranks, NEW v \in BOOLEAN,
           end' = [end EXCEPT ![p][q] = v]
    PROVE  /\ end' \in [Ranks -> [Ranks -> BOOLEAN]]
           /\ \A a, b \in Ranks : end'[a][b] = IF a = p /\ b = q THEN v ELSE end[a][b]
<1>1. end \in [Ranks -> [Ranks -> BOOLEAN]]
  BY DEF KernelTypeOK
<1> QED
  BY <1>1, EntryUpdate

-----------------------------------------------------------------------------
\* Every step keeps the types.
LEMMA KernelTypeStep == KernelTypeOK /\ [KernelNext]_kernelVars => KernelTypeOK'
<1> SUFFICES ASSUME KernelTypeOK, [KernelNext]_kernelVars PROVE KernelTypeOK'
  OBVIOUS
<1> USE DEF KernelPhases, BarrierSteps
<1>1. ASSUME NEW p \in Ranks, Produce(p) PROVE KernelTypeOK'
  BY <1>1 DEF KernelTypeOK, Produce
<1>2. ASSUME NEW p \in Ranks, Launch(p) PROVE KernelTypeOK'
  BY <1>2 DEF KernelTypeOK, Launch, Enter
<1>3. ASSUME NEW p \in Ranks, Kernel(p) PROVE KernelTypeOK'
  <2>1. CASE BeginWork(p)
    BY <2>1 DEF KernelTypeOK, BeginWork
  <2>2. CASE EndWork(p)
    BY <2>2 DEF KernelTypeOK, EndWork, Enter
  <2>3. CASE EndKernel(p)
    BY <2>3 DEF KernelTypeOK, EndKernel
  <2> QED
    BY <1>3, <2>1, <2>2, <2>3 DEF Kernel
<1>4. ASSUME NEW p \in Ranks, NEW q \in Ranks, Thread(p, q) PROVE KernelTypeOK'
  <2>1. CASE StartReset(p, q)
    BY <2>1, ThreadMoves, EndFlag DEF KernelTypeOK, StartReset
  <2>2. CASE StartSignal(p, q)
    BY <2>2, ThreadMoves, StartFlag DEF KernelTypeOK, StartSignal
  <2>3. CASE StartAwait(p, q)
    BY <2>3, ThreadMoves DEF KernelTypeOK, StartAwait
  <2>4. CASE EndReset(p, q)
    BY <2>4, ThreadMoves, StartFlag DEF KernelTypeOK, EndReset
  <2>5. CASE EndSignal(p, q)
    BY <2>5, ThreadMoves, EndFlag DEF KernelTypeOK, EndSignal
  <2>6. CASE EndAwait(p, q)
    BY <2>6, ThreadMoves DEF KernelTypeOK, EndAwait
  <2> QED
    BY <1>4, <2>1, <2>2, <2>3, <2>4, <2>5, <2>6 DEF Thread
<1>5. CASE UNCHANGED kernelVars
  BY <1>5 DEF KernelTypeOK, kernelVars
<1> QED
  BY <1>1, <1>2, <1>3, <1>4, <1>5 DEF KernelNext

-----------------------------------------------------------------------------
\* FlagsInv of the pair of thread b of rank a and thread a of rank b.
Pair(a, b) ==
    /\ start[a][b] <=> StartSignals(b, a) > StartResets(a, b)
    /\ end[a][b] <=> EndSignals(b, a) > EndResets(a, b) - 1 /\ EndResets(a, b) > 0
    /\ StartPasses(a, b) <= StartSignals(b, a)
    /\ EndPasses(a, b) <= EndSignals(b, a)

\* No counter of thread b of rank a moves.
Still(a, b) == UNCHANGED <<EndResets(a, b), StartSignals(a, b), StartPasses(a, b),
                           StartResets(a, b), EndSignals(a, b), EndPasses(a, b)>>

\* The order in which a thread counts up.
Ordered(a, b) ==
    /\ EndResets(a, b) \in Int /\ StartSignals(a, b) \in Int /\ StartPasses(a, b) \in Int
    /\ StartResets(a, b) \in Int /\ EndSignals(a, b) \in Int /\ EndPasses(a, b) \in Int
    /\ StartPasses(a, b) <= StartSignals(a, b) /\ StartSignals(a, b) <= EndResets(a, b)
    /\ EndPasses(a, b) <= EndSignals(a, b) /\ EndSignals(a, b) <= StartResets(a, b)
    /\ StartResets(a, b) <= StartPasses(a, b) /\ EndResets(a, b) <= EndPasses(a, b) + 1

LEMMA Counters ==
    ASSUME KernelTypeOK, NEW a \in Ranks, NEW b \in Ranks
    PROVE  Ordered(a, b)
<1> calls[a] \in Int /\ phase[a] \in KernelPhases /\ pc[a][b] \in BarrierSteps
  BY DEF KernelTypeOK
<1> QED
  BY DEF KernelPhases, BarrierSteps, BeyondStart, BeyondEnd, EndResets, StartSignals, StartPasses,
         StartResets, EndSignals, EndPasses, Ordered

\* A step counts for nothing but the thread that takes it.
LEMMA OthersCount ==
    ASSUME KernelTypeOK, NEW p \in Ranks, NEW q \in Ranks, NEW from \in BarrierSteps, NEW to \in BarrierSteps,
           Step(p, q, from, to), NEW a \in Ranks, NEW b \in Ranks, ~(a = p /\ b = q)
    PROVE  Still(a, b)
<1> UNCHANGED <<calls, phase, pc[a][b]>>
  BY ThreadMoves
<1> QED
  BY DEF BeyondStart, BeyondEnd, EndResets, StartSignals, StartPasses,
         StartResets, EndSignals, EndPasses, Still

\* What a thread of start_sync counts by its three steps.
LEMMA StartCounts ==
    ASSUME KernelTypeOK, NEW p \in Ranks, NEW q \in Ranks, NEW from \in BarrierSteps, NEW to \in BarrierSteps,
           phase[p] = "start", Step(p, q, from, to)
    PROVE  /\ UNCHANGED <<StartResets(p, q), EndSignals(p, q), EndPasses(p, q)>>
           /\ StartResets(p, q) = calls[p] - 1
           /\ from = "reset" /\ to = "signal" =>
                /\ EndResets(p, q) = calls[p] - 1 /\ EndResets(p, q)' = calls[p]
                /\ UNCHANGED <<StartSignals(p, q), StartPasses(p, q)>>
           /\ from = "signal" /\ to = "await" =>
                /\ StartSignals(p, q) = calls[p] - 1 /\ StartSignals(p, q)' = calls[p]
                /\ UNCHANGED <<EndResets(p, q), StartPasses(p, q)>>
           /\ from = "await" /\ to = "passed" =>
                /\ StartPasses(p, q) = calls[p] - 1 /\ StartPasses(p, q)' = calls[p]
                /\ UNCHANGED <<EndResets(p, q), StartSignals(p, q)>>
<1> /\ UNCHANGED <<calls, phase>>
    /\ pc[p][q] = from /\ pc'[p][q] = to
  BY ThreadMoves
<1> QED
  BY DEF BeyondStart, BeyondEnd, EndResets, StartSignals, StartPasses,
         StartResets, EndSignals, EndPasses

\* The same for end_sync.
LEMMA EndCounts ==
    ASSUME KernelTypeOK, NEW p \in Ranks, NEW q \in Ranks, NEW from \in BarrierSteps, NEW to \in BarrierSteps,
           phase[p] = "end", Step(p, q, from, to)
    PROVE  /\ UNCHANGED <<EndResets(p, q), StartSignals(p, q), StartPasses(p, q)>>
           /\ StartPasses(p, q) = calls[p]
           /\ from = "reset" /\ to = "signal" =>
                /\ StartResets(p, q) = calls[p] - 1 /\ StartResets(p, q)' = calls[p]
                /\ UNCHANGED <<EndSignals(p, q), EndPasses(p, q)>>
           /\ from = "signal" /\ to = "await" =>
                /\ EndSignals(p, q) = calls[p] - 1 /\ EndSignals(p, q)' = calls[p]
                /\ UNCHANGED <<StartResets(p, q), EndPasses(p, q)>>
           /\ from = "await" /\ to = "passed" =>
                /\ EndPasses(p, q) = calls[p] - 1 /\ EndPasses(p, q)' = calls[p]
                /\ UNCHANGED <<StartResets(p, q), EndSignals(p, q)>>
<1> /\ UNCHANGED <<calls, phase>>
    /\ pc[p][q] = from /\ pc'[p][q] = to
  BY ThreadMoves
<1> QED
  BY DEF BeyondStart, BeyondEnd, EndResets, StartSignals, StartPasses,
         StartResets, EndSignals, EndPasses

LEMMA ThreadFlags ==
    ASSUME IInv, NEW p \in Ranks, NEW q \in Ranks, Thread(p, q) PROVE FlagsInv'
<1> SUFFICES ASSUME NEW a \in Ranks, NEW b \in Ranks PROVE Pair(a, b)'
  BY DEF FlagsInv, Pair
<1>0. KernelTypeOK /\ Pair(a, b) /\ Pair(b, a)
  BY DEF IInv, FlagsInv, Pair
<1>c. calls[p] \in Int /\ start \in [Ranks -> [Ranks -> BOOLEAN]]
      /\ end \in [Ranks -> [Ranks -> BOOLEAN]]
  BY <1>0 DEF KernelTypeOK
<1>o. Ordered(a, b) /\ Ordered(b, a)
  BY <1>0, Counters
<1>m. ASSUME NEW from \in BarrierSteps, NEW to \in BarrierSteps, Step(p, q, from, to)
      PROVE  ((a = p /\ b = q) \/ Still(a, b)) /\ ((b = p /\ a = q) \/ Still(b, a))
  BY <1>0, <1>m, OthersCount
<1> USE DEF BarrierSteps
<1>1. CASE StartReset(p, q)
  <2>1. /\ Step(p, q, "reset", "signal") /\ phase[p] = "start" /\ start' = start
        /\ end'[a][b] = IF a = p /\ b = q THEN FALSE ELSE end[a][b]
    <3>1. /\ Step(p, q, "reset", "signal") /\ UNCHANGED start
          /\ phase[p] = "start" /\ end' = [end EXCEPT ![p][q] = FALSE]
      BY <1>1 DEF StartReset
    <3>2. \A x, y \in Ranks : end'[x][y] = IF x = p /\ y = q THEN FALSE ELSE end[x][y]
      <4>1. end \in [Ranks -> [Ranks -> BOOLEAN]]
        BY <1>0 DEF KernelTypeOK
      <4> QED BY <3>1, <4>1
    <3> QED BY <3>1, <3>2
  <2>2. /\ EndResets(p, q) = calls[p] - 1 /\ EndResets(p, q)' = calls[p]
        /\ UNCHANGED <<StartSignals(p, q), StartPasses(p, q), StartResets(p, q)>>
        /\ UNCHANGED <<EndSignals(p, q), EndPasses(p, q)>>
        /\ StartResets(p, q) = calls[p] - 1
    BY <1>0, <2>1, StartCounts
  <2>3. ((a = p /\ b = q) \/ Still(a, b)) /\ ((b = p /\ a = q) \/ Still(b, a))
    BY <1>m, <2>1
  <2>4. CASE a = p /\ b = q
    BY <1>0, <1>c, <1>o, <2>1, <2>2, <2>3, <2>4 DEF Pair, Still, Ordered
  <2>5. CASE b = p /\ a = q
    BY <1>0, <1>c, <1>o, <2>1, <2>2, <2>3, <2>5 DEF Pair, Still, Ordered
  <2>6. CASE ~(a = p /\ b = q) /\ ~(b = p /\ a = q)
    BY <1>0, <2>1, <2>3, <2>6 DEF Pair, Still
  <2> QED
    BY <2>4, <2>5, <2>6
<1>2. CASE StartSignal(p, q)
  <2>1. /\ Step(p, q, "signal", "await") /\ phase[p] = "start" /\ end' = end
        /\ start'[a][b] = IF a = q /\ b = p THEN TRUE ELSE start[a][b]
    <3>1. start' = [start EXCEPT ![q][p] = TRUE]
      BY <1>2 DEF StartSignal
    <3>2. start'[a][b] = IF a = q /\ b = p THEN TRUE ELSE start[a][b]
      BY <1>c, <3>1
    <3> QED
      BY <1>2, <3>2 DEF StartSignal
  <2>2. /\ StartSignals(p, q) = calls[p] - 1 /\ StartSignals(p, q)' = calls[p]
        /\ UNCHANGED <<EndResets(p, q), StartPasses(p, q), StartResets(p, q)>>
        /\ UNCHANGED <<EndSignals(p, q), EndPasses(p, q)>>
        /\ StartResets(p, q) = calls[p] - 1
    BY <1>0, <2>1, StartCounts
  <2>3. ((a = p /\ b = q) \/ Still(a, b)) /\ ((b = p /\ a = q) \/ Still(b, a))
    BY <1>m, <2>1
  <2>4. CASE a = p /\ b = q
    BY <1>0, <1>c, <1>o, <2>1, <2>2, <2>3, <2>4 DEF Pair, Still, Ordered
  <2>5. CASE b = p /\ a = q
    BY <1>0, <1>c, <1>o, <2>1, <2>2, <2>3, <2>5 DEF Pair, Still, Ordered
  <2>6. CASE ~(a = p /\ b = q) /\ ~(b = p /\ a = q)
    BY <1>0, <2>1, <2>3, <2>6 DEF Pair, Still
  <2> QED
    BY <2>4, <2>5, <2>6
<1>3. CASE StartAwait(p, q)
  <2>1. /\ Step(p, q, "await", "passed") /\ phase[p] = "start" /\ start[p][q]
        /\ start' = start /\ end' = end
    BY <1>3 DEF StartAwait
  <2>2. /\ StartPasses(p, q) = calls[p] - 1 /\ StartPasses(p, q)' = calls[p]
        /\ UNCHANGED <<EndResets(p, q), StartSignals(p, q), StartResets(p, q)>>
        /\ UNCHANGED <<EndSignals(p, q), EndPasses(p, q)>>
        /\ StartResets(p, q) = calls[p] - 1
    BY <1>0, <2>1, StartCounts
  <2>3. ((a = p /\ b = q) \/ Still(a, b)) /\ ((b = p /\ a = q) \/ Still(b, a))
    BY <1>m, <2>1
  <2>4. CASE a = p /\ b = q
    BY <1>0, <1>c, <1>o, <2>1, <2>2, <2>3, <2>4 DEF Pair, Still, Ordered
  <2>5. CASE b = p /\ a = q
    BY <1>0, <1>c, <1>o, <2>1, <2>2, <2>3, <2>5 DEF Pair, Still, Ordered
  <2>6. CASE ~(a = p /\ b = q) /\ ~(b = p /\ a = q)
    BY <1>0, <2>1, <2>3, <2>6 DEF Pair, Still
  <2> QED
    BY <2>4, <2>5, <2>6
<1>4. CASE EndReset(p, q)
  <2>1. /\ Step(p, q, "reset", "signal") /\ phase[p] = "end" /\ end' = end
        /\ start'[a][b] = IF a = p /\ b = q THEN FALSE ELSE start[a][b]
    <3>1. /\ Step(p, q, "reset", "signal") /\ UNCHANGED end
          /\ phase[p] = "end" /\ start' = [start EXCEPT ![p][q] = FALSE]
      BY <1>4 DEF EndReset
    <3>2. \A x, y \in Ranks : start'[x][y] = IF x = p /\ y = q THEN FALSE ELSE start[x][y]
      <4>1. start \in [Ranks -> [Ranks -> BOOLEAN]]
        BY <1>0 DEF KernelTypeOK
      <4> QED BY <3>1, <4>1
    <3> QED BY <3>1, <3>2
  <2>2. /\ StartResets(p, q) = calls[p] - 1 /\ StartResets(p, q)' = calls[p]
        /\ UNCHANGED <<EndSignals(p, q), EndPasses(p, q), EndResets(p, q)>>
        /\ UNCHANGED <<StartSignals(p, q), StartPasses(p, q)>>
        /\ StartPasses(p, q) = calls[p]
    BY <1>0, <2>1, EndCounts
  <2>3. ((a = p /\ b = q) \/ Still(a, b)) /\ ((b = p /\ a = q) \/ Still(b, a))
    BY <1>m, <2>1
  <2>4. CASE a = p /\ b = q
    BY <1>0, <1>c, <1>o, <2>1, <2>2, <2>3, <2>4 DEF Pair, Still, Ordered
  <2>5. CASE b = p /\ a = q
    BY <1>0, <1>c, <1>o, <2>1, <2>2, <2>3, <2>5 DEF Pair, Still, Ordered
  <2>6. CASE ~(a = p /\ b = q) /\ ~(b = p /\ a = q)
    BY <1>0, <2>1, <2>3, <2>6 DEF Pair, Still
  <2> QED
    BY <2>4, <2>5, <2>6
<1>5. CASE EndSignal(p, q)
  <2>1. /\ Step(p, q, "signal", "await") /\ phase[p] = "end" /\ start' = start
        /\ end'[a][b] = IF a = q /\ b = p THEN TRUE ELSE end[a][b]
    <3>1. end' = [end EXCEPT ![q][p] = TRUE]
      BY <1>5 DEF EndSignal
    <3>2. end'[a][b] = IF a = q /\ b = p THEN TRUE ELSE end[a][b]
      BY <1>c, <3>1
    <3> QED
      BY <1>5, <3>2 DEF EndSignal
  <2>2. /\ EndSignals(p, q) = calls[p] - 1 /\ EndSignals(p, q)' = calls[p]
        /\ UNCHANGED <<StartResets(p, q), EndPasses(p, q), EndResets(p, q)>>
        /\ UNCHANGED <<StartSignals(p, q), StartPasses(p, q)>>
        /\ StartPasses(p, q) = calls[p]
    BY <1>0, <2>1, EndCounts
  <2>3. ((a = p /\ b = q) \/ Still(a, b)) /\ ((b = p /\ a = q) \/ Still(b, a))
    BY <1>m, <2>1
  <2>4. calls[p] > 0
    BY <1>0, <2>1 DEF IInv, BuffersInv, KernelTypeOK
  <2>5. CASE a = p /\ b = q
    BY <1>0, <1>c, <1>o, <2>1, <2>2, <2>3, <2>4, <2>5 DEF Pair, Still, Ordered
  <2>6. CASE b = p /\ a = q
    BY <1>0, <1>c, <1>o, <2>1, <2>2, <2>3, <2>4, <2>6 DEF Pair, Still, Ordered
  <2>7. CASE ~(a = p /\ b = q) /\ ~(b = p /\ a = q)
    BY <1>0, <2>1, <2>3, <2>7 DEF Pair, Still
  <2> QED
    BY <2>5, <2>6, <2>7
<1>6. CASE EndAwait(p, q)
  <2>1. /\ Step(p, q, "await", "passed") /\ phase[p] = "end" /\ end[p][q]
        /\ start' = start /\ end' = end
    BY <1>6 DEF EndAwait
  <2>2. /\ EndPasses(p, q) = calls[p] - 1 /\ EndPasses(p, q)' = calls[p]
        /\ UNCHANGED <<StartResets(p, q), EndSignals(p, q), EndResets(p, q)>>
        /\ UNCHANGED <<StartSignals(p, q), StartPasses(p, q)>>
        /\ StartPasses(p, q) = calls[p]
    BY <1>0, <2>1, EndCounts
  <2>3. ((a = p /\ b = q) \/ Still(a, b)) /\ ((b = p /\ a = q) \/ Still(b, a))
    BY <1>m, <2>1
  <2>4. CASE a = p /\ b = q
    BY <1>0, <1>c, <1>o, <2>1, <2>2, <2>3, <2>4 DEF Pair, Still, Ordered
  <2>5. CASE b = p /\ a = q
    BY <1>0, <1>c, <1>o, <2>1, <2>2, <2>3, <2>5 DEF Pair, Still, Ordered
  <2>6. CASE ~(a = p /\ b = q) /\ ~(b = p /\ a = q)
    BY <1>0, <2>1, <2>3, <2>6 DEF Pair, Still
  <2> QED
    BY <2>4, <2>5, <2>6
<1> QED
  BY <1>1, <1>2, <1>3, <1>4, <1>5, <1>6 DEF Thread

\* The steps of a kernel between its barriers count nothing.
LEMMA KernelFlags ==
    ASSUME IInv, NEW p \in Ranks, Produce(p) \/ Launch(p) \/ Kernel(p)
    PROVE  FlagsInv'
<1> SUFFICES ASSUME NEW a \in Ranks, NEW b \in Ranks PROVE Pair(a, b)'
  BY DEF FlagsInv, Pair
<1>1. KernelTypeOK /\ Pair(a, b) /\ BuffersInv
  BY DEF IInv, FlagsInv, Pair
<1>2. ASSUME NEW c \in Ranks, NEW d \in Ranks PROVE Still(c, d)
  <2> USE DEF Still, BeyondStart, BeyondEnd, EndResets, StartSignals, StartPasses, StartResets,
              EndSignals, EndPasses
  <2>0. calls[c] \in Int /\ phase[c] \in KernelPhases /\ pc[c][d] \in BarrierSteps
    BY <1>1 DEF KernelTypeOK
  <2>1. CASE c # p
    <3> UNCHANGED <<calls[c], phase[c], pc[c][d]>>
      BY <1>1, <2>1 DEF Produce, Launch, Kernel, BeginWork, EndWork, EndKernel, Enter, KernelTypeOK
    <3> QED
      OBVIOUS
  <2>2. CASE c = p /\ Produce(p)
    BY <2>2 DEF Produce
  <2>3. CASE c = p /\ Launch(p)
    <3> phase[c] = "idle" /\ phase'[c] = "start" /\ calls'[c] = calls[c] + 1 /\ pc'[c][d] = "reset"
      BY <1>1, <2>3 DEF Launch, Enter, KernelTypeOK
    <3> QED
      BY <2>0
  <2>4. CASE c = p /\ BeginWork(p)
    <3> phase[c] = "start" /\ pc[c][d] = "passed" /\ phase'[c] = "work" /\ UNCHANGED <<calls, pc>>
      BY <1>1, <2>4 DEF BeginWork, AllPassed, KernelTypeOK
    <3> QED
      BY <2>0
  <2>5. CASE c = p /\ EndWork(p)
    <3> phase[c] = "work" /\ phase'[c] = "end" /\ pc'[c][d] = "reset" /\ UNCHANGED calls
      BY <1>1, <2>5 DEF EndWork, Enter, KernelTypeOK
    <3> QED
      BY <2>0
  <2>6. CASE c = p /\ EndKernel(p)
    <3> /\ phase[c] \in {"end", "gather"} /\ (phase[c] = "end" => pc[c][d] = "passed")
        /\ phase'[c] \in {"gather", "idle"} /\ UNCHANGED <<calls, pc>>
      BY <1>1, <2>6 DEF EndKernel, AllPassed, KernelTypeOK
    <3> QED
      BY <2>0
  <2> QED
    BY <2>1, <2>2, <2>3, <2>4, <2>5, <2>6 DEF Kernel
<1>3. Still(a, b) /\ Still(b, a)
  BY <1>2
<1>4. UNCHANGED <<start, end>>
  BY DEF Produce, Launch, Kernel, BeginWork, EndWork, EndKernel
<1> QED
  BY <1>1, <1>3, <1>4 DEF Pair, Still

-----------------------------------------------------------------------------
\* BuffersInv of one rank.
Buffers(p) ==
    /\ phase[p] # "idle" => input[p] = calls[p] /\ calls[p] > 0
    /\ phase[p] \notin {"start", "end"} => AllPassed(p)
    /\ phase[p] = "gather" => calls[p] \in TwoStage
    /\ phase[p] \in {"end", "gather", "idle"} /\ calls[p] \in TwoStage => tmp[p] = calls[p]
    /\ phase[p] = "start" /\ calls[p] - 1 \in TwoStage => tmp[p] = calls[p] - 1

LEMMA BuffersStep == IInv /\ [KernelNext]_kernelVars => BuffersInv'
<1> SUFFICES ASSUME IInv, [KernelNext]_kernelVars, NEW a \in Ranks PROVE Buffers(a)'
  BY DEF BuffersInv, Buffers
<1>0. KernelTypeOK /\ Buffers(a)
  BY DEF IInv, BuffersInv, Buffers
<1> USE DEF Buffers, AllPassed
<1>1. ASSUME NEW p \in Ranks, Produce(p) PROVE Buffers(a)'
  BY <1>0, <1>1 DEF Produce, KernelTypeOK
<1>2. ASSUME NEW p \in Ranks, Launch(p) PROVE Buffers(a)'
  <2>1. CASE a = p
    <3> /\ phase[a] = "idle" /\ phase'[a] = "start" /\ input[a] = calls[a] + 1
        /\ calls'[a] = calls[a] + 1 /\ UNCHANGED <<input, tmp>> /\ calls[a] \in Nat
      BY <1>0, <1>2, <2>1 DEF Launch, Enter, KernelTypeOK
    <3> QED
      BY <1>0
  <2>2. CASE a # p
    <3> UNCHANGED <<phase[a], calls[a], input[a], tmp[a], pc[a]>>
      BY <1>0, <1>2, <2>2 DEF Launch, Enter, KernelTypeOK
    <3> QED
      BY <1>0
  <2> QED
    BY <2>1, <2>2
<1>3. ASSUME NEW p \in Ranks, Kernel(p) PROVE Buffers(a)'
  <2>1. CASE a # p
    <3> UNCHANGED <<phase[a], calls[a], input[a], tmp[a], pc[a]>>
      BY <1>0, <1>3, <2>1 DEF Kernel, BeginWork, EndWork, EndKernel, Enter, KernelTypeOK
    <3> QED
      BY <1>0
  <2>2. CASE a = p /\ BeginWork(p)
    BY <1>0, <2>2 DEF BeginWork, KernelTypeOK
  <2>3. CASE a = p /\ EndWork(p)
    BY <1>0, <2>3 DEF EndWork, Enter, KernelTypeOK
  <2>4. CASE a = p /\ EndKernel(p)
    BY <1>0, <2>4 DEF EndKernel, KernelTypeOK
  <2> QED
    BY <1>3, <2>1, <2>2, <2>3, <2>4 DEF Kernel
<1>4. ASSUME NEW p \in Ranks, NEW q \in Ranks, Thread(p, q) PROVE Buffers(a)'
  <2>1. UNCHANGED <<calls, phase, input, tmp>> /\ phase[p] \in {"start", "end"}
    BY <1>4 DEF Thread, StartReset, StartSignal, StartAwait, EndReset, EndSignal, EndAwait, Step
  <2>2. a # p => UNCHANGED pc[a]
    BY <1>0, <1>4 DEF Thread, StartReset, StartSignal, StartAwait, EndReset, EndSignal,
                      EndAwait, Step, KernelTypeOK
  <2> QED
    BY <1>0, <2>1, <2>2
<1>5. CASE UNCHANGED kernelVars
  BY <1>0, <1>5 DEF kernelVars
<1> QED
  BY <1>1, <1>2, <1>3, <1>4, <1>5 DEF KernelNext

-----------------------------------------------------------------------------
\* Whoever works or gathers has all others within the part of a call in which
\* the buffers hold what they should.
LEMMA InvReads == IInv => ReadsInPlace
<1> SUFFICES ASSUME IInv, NEW p \in Ranks, NEW q \in Ranks
             PROVE  /\ phase[p] = "work" => input[q] = calls[p]
                    /\ phase[p] = "gather" => tmp[q] = calls[p]
  BY DEF ReadsInPlace
<1>1. KernelTypeOK /\ Pair(p, q) /\ Pair(q, p) /\ Buffers(p) /\ Buffers(q)
  BY DEF IInv, FlagsInv, BuffersInv, Pair, Buffers
<1>2. /\ calls[p] \in Nat /\ calls[q] \in Nat /\ phase[q] \in KernelPhases
      /\ pc[q][p] \in BarrierSteps
  BY <1>1 DEF KernelTypeOK
<1>3. CASE phase[p] = "work"
  <2>1. StartPasses(p, q) = calls[p] /\ EndSignals(p, q) = calls[p] - 1
    BY <1>1, <1>3 DEF StartPasses, EndSignals, BeyondStart, BeyondEnd, Buffers, AllPassed
  <2>2. StartSignals(q, p) >= calls[p] /\ EndPasses(q, p) <= calls[p] - 1
    BY <1>1, <2>1 DEF Pair
  <2>3. calls[q] = calls[p] /\ phase[q] # "idle"
    BY <1>2, <2>2 DEF StartSignals, EndPasses, BeyondStart, BeyondEnd, KernelPhases
  <2> QED
    BY <1>1, <1>3, <2>3 DEF Buffers
<1>4. CASE phase[p] = "gather"
  <2>1. /\ EndPasses(p, q) = calls[p] /\ StartSignals(p, q) = calls[p]
        /\ calls[p] \in TwoStage
    BY <1>1, <1>4 DEF EndPasses, StartSignals, BeyondStart, BeyondEnd, Buffers, AllPassed
  <2>2. EndSignals(q, p) >= calls[p] /\ StartPasses(q, p) <= calls[p]
    BY <1>1, <2>1 DEF Pair
  <2>3. \/ calls[q] = calls[p] /\ phase[q] \in {"end", "gather", "idle"}
        \/ calls[q] = calls[p] + 1 /\ phase[q] = "start"
    BY <1>2, <2>2 DEF EndSignals, StartPasses, BeyondStart, BeyondEnd, KernelPhases
  <2> QED
    BY <1>1, <1>2, <1>4, <2>1, <2>3 DEF Buffers
<1> QED
  BY <1>3, <1>4

LEMMA InvInit == KernelInit => IInv
  BY DEF KernelInit, IInv, KernelTypeOK, FlagsInv, BuffersInv, AllPassed, KernelPhases, BarrierSteps, BeyondStart,
         BeyondEnd, EndResets, StartSignals, StartPasses, StartResets, EndSignals, EndPasses

LEMMA InvStep == IInv /\ [KernelNext]_kernelVars => IInv'
<1> SUFFICES ASSUME IInv, [KernelNext]_kernelVars PROVE FlagsInv'
  BY KernelTypeStep, BuffersStep DEF IInv
<1>1. CASE UNCHANGED kernelVars
  BY <1>1 DEF IInv, FlagsInv, kernelVars, BeyondStart, BeyondEnd, EndResets, StartSignals,
              StartPasses, StartResets, EndSignals, EndPasses
<1>2. CASE KernelNext
  BY <1>2, ThreadFlags, KernelFlags DEF KernelNext
<1> QED
  BY <1>1, <1>2

\* What the signals count is an invariant of the kernels on any number of ranks.
THEOREM SignalsCount == KernelSpec => []IInv
<1>1. KernelInit => IInv
  BY InvInit
<1>2. IInv /\ [KernelNext]_kernelVars => IInv'
  BY InvStep
<1> QED
  BY <1>1, <1>2, PTL DEF KernelSpec

\* A kernel only reads what was meant for it: while it reduces, the inputs of
\* this call, and while a two-stage kernel gathers, the sums of this call,
\* although it ends without a barrier after gathering.
THEOREM ReadsInPlaceHolds == KernelSpec => []ReadsInPlace
<1>1. KernelSpec => []IInv
  BY SignalsCount
<1>2. IInv => ReadsInPlace
  BY InvReads
<1> QED
  BY <1>1, <1>2, PTL

-----------------------------------------------------------------------------
\* The forward passes.


\* What all ranks contribute to a call.
Contributions(call) == {<<q, call>> : q \in Ranks}

SumsType ==
    /\ partial \in [Ranks -> SUBSET (Ranks \X Nat)]
    /\ result \in [Ranks -> SUBSET (Ranks \X Nat)]

\* The temporary buffer holds the sum of the call that tmp names, and a kernel
\* that has nothing left to do has its result.
SumsInv ==
    /\ SumsType
    /\ \A p \in Ranks :
        /\ tmp[p] # 0 => partial[p] = Contributions(tmp[p])
        /\ \/ phase[p] = "idle" /\ calls[p] > 0
           \/ phase[p] = "end" /\ calls[p] \notin TwoStage
           => result[p] = Contributions(calls[p])

-----------------------------------------------------------------------------
LEMMA InitRefines == TPInit => KernelInit /\ SumsInv
<1> SUFFICES ASSUME TPInit PROVE KernelInit /\ SumsInv
  OBVIOUS
<1>1. KernelInit /\ partial = [p \in Ranks |-> {}] /\ result = [p \in Ranks |-> {}]
  BY DEF TPInit
<1> QED
  BY <1>1 DEF SumsInv, SumsType, KernelInit

\* Only forward passes touch the kernels, and they do what the kernels do.
LEMMA StepRefines ==
    ASSUME [TPNext]_allVars
    PROVE  \/ UNCHANGED <<kernelVars, partial, result>>
           \/ \E p \in Ranks : Reduce(p) /\ KernelNext
<1>1. CASE UNCHANGED allVars
  BY <1>1 DEF allVars, tpVars
<1>2. CASE LoadEmbedding \/ FinishLoading
  BY <1>2 DEF LoadEmbedding, FinishLoading
<1>3. ASSUME NEW name \in LinearLayers, NEW proj \in 0 .. 3, LoadTensor(name, proj)
      PROVE  UNCHANGED <<kernelVars, partial, result>>
  BY <1>3 DEF LoadTensor
<1>4. ASSUME NEW s \in Slots, NEW a \in DOMAIN Lora.adapters, ActivateLora(s, a)
      PROVE  UNCHANGED <<kernelVars, partial, result>>
  BY <1>4 DEF ActivateLora
<1>5. ASSUME NEW p \in Ranks, Reduce(p) PROVE KernelNext
  <2>1. \/ Produce(p) \/ Launch(p) \/ BeginWork(p) \/ EndWork(p) \/ EndKernel(p)
        \/ \E q \in Ranks : Thread(p, q)
    BY <1>5 DEF Reduce
  <2> QED
    BY <2>1 DEF KernelNext, Kernel
<1> QED
  BY <1>1, <1>2, <1>3, <1>4, <1>5 DEF TPNext

-----------------------------------------------------------------------------
LEMMA InputsOfCall ==
    ASSUME IInv, NEW p \in Ranks, phase[p] = "work"
    PROVE  InputsRead(p) = Contributions(calls[p])
<1>1. \A q \in Ranks : input[q] = calls[p]
  BY InvReads DEF ReadsInPlace
<1> QED
  BY <1>1 DEF InputsRead, Contributions

LEMMA GatheredOfCall ==
    ASSUME IInv, SumsInv, NEW p \in Ranks, phase[p] = "gather"
    PROVE  UNION {partial[q] : q \in Ranks} = Contributions(calls[p])
<1>1. \A q \in Ranks : tmp[q] = calls[p] /\ calls[p] # 0
  BY InvReads, SMTT(30) DEF ReadsInPlace, IInv, BuffersInv, KernelTypeOK
<1>2. \A q \in Ranks : partial[q] = Contributions(calls[p])
  BY <1>1 DEF SumsInv
<1> QED
  BY <1>2

LEMMA ContributionsType == \A call \in Nat : Contributions(call) \in SUBSET (Ranks \X Nat)
  BY DEF Contributions

\* A step of the kernels of a rank keeps the sums.
LEMMA SumsStep ==
    ASSUME IInv, SumsInv, NEW p \in Ranks, Reduce(p)
    PROVE  SumsInv'
<1> USE DEF SumsInv, SumsType
<1>0. /\ calls \in [Ranks -> Nat] /\ phase \in [Ranks -> KernelPhases] /\ tmp \in [Ranks -> Nat]
      /\ \A q \in Ranks : phase[q] # "idle" => calls[q] > 0
  BY DEF IInv, KernelTypeOK, BuffersInv
<1>1. CASE Produce(p) /\ UNCHANGED <<partial, result>>
  BY <1>1 DEF Produce
<1>2. CASE Launch(p) /\ UNCHANGED <<partial, result>>
  <2>1. /\ calls' = [calls EXCEPT ![p] = @ + 1] /\ phase' = [phase EXCEPT ![p] = "start"]
        /\ UNCHANGED tmp
    BY <1>2 DEF Launch, Enter
  <2> QED
    BY <1>0, <1>2, <2>1
<1>3. CASE BeginWork(p) /\ UNCHANGED <<partial, result>>
  BY <1>0, <1>3 DEF BeginWork
<1>4. ASSUME NEW q \in Ranks, Thread(p, q), UNCHANGED <<partial, result>> PROVE SumsInv'
  <2>1. UNCHANGED <<calls, phase, tmp>>
    BY <1>4 DEF Thread, Step, StartReset, StartSignal, StartAwait, EndReset, EndSignal, EndAwait
  <2> QED
    BY <1>4, <2>1
<1>5. CASE EndWork(p)
  <2>1. /\ phase[p] = "work" /\ phase' = [phase EXCEPT ![p] = "end"] /\ UNCHANGED calls
        /\ tmp' = [tmp EXCEPT ![p] = IF calls[p] \in TwoStage THEN calls[p] ELSE @]
    BY <1>5 DEF EndWork, Enter
  <2>2. InputsRead(p) = Contributions(calls[p]) /\ InputsRead(p) \in SUBSET (Ranks \X Nat)
    BY <1>0, <2>1, InputsOfCall, ContributionsType
  <2>3. CASE calls[p] \in TwoStage
    <3>1. partial' = [partial EXCEPT ![p] = InputsRead(p)] /\ UNCHANGED result
      BY <1>5, <2>1, <2>3 DEF Reduce, Produce, Launch, BeginWork, EndKernel, Thread, Step,
             StartReset, StartSignal, StartAwait, EndReset, EndSignal, EndAwait
    <3> QED
      BY <1>0, <2>1, <2>2, <2>3, <3>1
  <2>4. CASE calls[p] \notin TwoStage
    <3>1. result' = [result EXCEPT ![p] = InputsRead(p)] /\ UNCHANGED partial
      BY <1>5, <2>1, <2>4 DEF Reduce, Produce, Launch, BeginWork, EndKernel, Thread, Step,
             StartReset, StartSignal, StartAwait, EndReset, EndSignal, EndAwait
    <3> QED
      BY <1>0, <2>1, <2>2, <2>4, <3>1
  <2> QED
    BY <2>3, <2>4
<1>6. CASE /\ EndKernel(p) /\ UNCHANGED partial
           /\ result' = [result EXCEPT ![p] =
                IF phase[p] = "gather" THEN UNION {partial[q] : q \in Ranks} ELSE @]
  <2>1. /\ phase[p] \in {"end", "gather"} /\ UNCHANGED <<calls, tmp>>
        /\ phase' = [phase EXCEPT ![p] =
                IF @ = "end" /\ calls[p] \in TwoStage THEN "gather" ELSE "idle"]
    BY <1>6 DEF EndKernel
  <2>2. CASE phase[p] = "gather"
    <3>1. result' = [result EXCEPT ![p] = Contributions(calls[p])]
      BY <1>6, <2>2, GatheredOfCall
    <3>2. Contributions(calls[p]) \in SUBSET (Ranks \X Nat)
      BY <1>0, ContributionsType
    <3> QED
      BY <1>0, <1>6, <2>1, <2>2, <3>1, <3>2
  <2>3. CASE phase[p] = "end"
    BY <1>0, <1>6, <2>1, <2>3
  <2> QED
    BY <2>1, <2>2, <2>3
<1> QED
  BY <1>1, <1>2, <1>3, <1>4, <1>5, <1>6 DEF Reduce

LEMMA BothStep == IInv /\ SumsInv /\ [TPNext]_allVars => (IInv /\ SumsInv)'
<1> SUFFICES ASSUME IInv, SumsInv, [TPNext]_allVars PROVE (IInv /\ SumsInv)'
  OBVIOUS
<1>1. CASE UNCHANGED <<kernelVars, partial, result>>
  <2>1. IInv'
    BY <1>1, InvStep
  <2>2. UNCHANGED <<calls, phase, tmp, partial, result>>
    BY <1>1 DEF kernelVars
  <2> QED
    BY <2>1, <2>2 DEF SumsInv, SumsType
<1>2. ASSUME NEW p \in Ranks, Reduce(p), KernelNext PROVE (IInv /\ SumsInv)'
  BY <1>2, InvStep, SumsStep
<1> QED
  BY <1>1, <1>2, StepRefines

-----------------------------------------------------------------------------
\* Forward passes implement the kernels: loading a model, and putting adapters
\* into its slots, is nothing to them.
THEOREM PassesRefineKernels == TPSpec => KernelSpec
<1>1. TPInit => KernelInit
  BY InitRefines
<1>2. [TPNext]_allVars => [KernelNext]_kernelVars
  BY StepRefines
<1> QED
  BY <1>1, <1>2, PTL DEF TPSpec, KernelSpec

\* Every rank ends an all-reduce with the sum of what all ranks have contributed
\* to that call.
THEOREM SumsAreWholeHolds == TPSpec => []SumsAreWhole
<1>1. TPInit => IInv /\ SumsInv
  BY InitRefines, InvInit
<1>2. IInv /\ SumsInv /\ [TPNext]_allVars => (IInv /\ SumsInv)'
  BY BothStep
<1>3. SumsInv => SumsAreWhole
  BY DEF SumsInv, SumsAreWhole, Contributions
<1> QED
  BY <1>1, <1>2, <1>3, PTL DEF TPSpec
=============================================================================
