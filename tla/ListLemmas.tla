---------------------------- MODULE ListLemmas ----------------------------
(***************************************************************************)
(* Induction on the natural numbers without an operator, and what it shows *)
(* of Select and SumUpTo; facts about queues and about least members.      *)
(***************************************************************************)
EXTENDS Lists, SequencesExt, WellFoundedInduction, TLAPS

\* A set of natural numbers with 0 and the successor of each member is Nat:
\* a set that misses one misses a least one.
LEMMA NatIsInductive ==
  ASSUME NEW S \in SUBSET Nat, 0 \in S, \A n \in S : n + 1 \in S
  PROVE  S = Nat
<1> DEFINE R == OpToRel(<, Nat)
           T == Nat \ S
<1>1. IsWellFoundedOn(R, Nat)
  BY NatLessThanWellFounded
<1>2. \A x, y \in Nat : y < x => <<y, x>> \in R
  BY DEF OpToRel
<1> HIDE DEF R
<1>3. SUFFICES ASSUME T # {} PROVE FALSE
  OBVIOUS
<1>4. PICK x \in T : \A y \in T : <<y, x>> \notin R
  BY <1>1, <1>3, WFMin
<1>5. x \in Nat /\ x # 0
  OBVIOUS
<1>6. x - 1 \in Nat /\ x - 1 < x /\ (x - 1) + 1 = x
  BY <1>5
<1>7. <<x - 1, x>> \in R
  BY <1>2, <1>5, <1>6, Zenon
<1>8. x - 1 \in S
  BY <1>4, <1>6, <1>7, Zenon
<1> QED BY <1>6, <1>8

\* The same for the numbers up to n.
LEMMA UpToInductive ==
  ASSUME NEW n \in Nat, NEW A \in SUBSET (0 .. n),
         0 \in A, \A i \in A : i < n => i + 1 \in A
  PROVE  A = 0 .. n
<1> DEFINE S == {i \in Nat : i <= n => i \in A}
<1>1. 0 \in S
  OBVIOUS
<1>2. ASSUME NEW i \in S PROVE i + 1 \in S
  <2>1. i + 1 <= n => i <= n /\ i < n
    OBVIOUS
  <2> QED BY <2>1
<1>3. S = Nat
  <2> HIDE DEF S
  <2>1. S \subseteq Nat
    BY DEF S
  <2> QED BY <1>1, <1>2, <2>1, NatIsInductive
<1>4. \A i \in 0 .. n : i \in A
  <2> TAKE i \in 0 .. n
  <2>1. i \in S
    BY <1>3
  <2> QED BY <2>1
<1> QED BY <1>4

\* f begins with b, and each value of f is what G makes of the one before it.
StepFunction(G, n, V) == G \in [V \X (1 .. n) -> V]
RunsBy(f, n, V, b, G) ==
  /\ f \in [0 .. n -> V]
  /\ f[0] = b /\ \A i \in 1 .. n : f[i] = G[<<f[i - 1], i>>]

\* A function may be defined that way.
LEMMA RecursionExists ==
  ASSUME NEW n \in Nat, NEW V, NEW b, NEW G, b \in V, StepFunction(G, n, V)
  PROVE  \E f : RunsBy(f, n, V, b, G)
<1> USE DEF StepFunction, RunsBy
<1> DEFINE P(m) == \E f \in [0 .. m -> V] :
                      f[0] = b /\ \A i \in 1 .. m : f[i] = G[<<f[i - 1], i>>]
           S == {m \in Nat : m <= n => P(m)}
<1>1. P(0)
  <2> DEFINE h == [i \in 0 .. 0 |-> b]
  <2>1. h \in [0 .. 0 -> V] /\ h[0] = b /\ 1 .. 0 = {}
    OBVIOUS
  <2> HIDE DEF h
  <2> QED BY <2>1
<1>2. ASSUME NEW m \in Nat, m + 1 <= n, P(m)
      PROVE  P(m + 1)
  <2>1. PICK f \in [0 .. m -> V] :
           f[0] = b /\ \A i \in 1 .. m : f[i] = G[<<f[i - 1], i>>]
    BY <1>2
  <2> DEFINE v == G[<<f[m], m + 1>>]
             h == [i \in 0 .. m + 1 |-> IF i = m + 1 THEN v ELSE f[i]]
  <2>2. v \in V
    BY <1>2, <2>1
  <2>3. h \in [0 .. m + 1 -> V]
    BY <2>1, <2>2
  <2>4. h[0] = b /\ h[m + 1] = v /\ \A i \in 0 .. m : h[i] = f[i]
    BY <2>1
  <2>5. ASSUME NEW i \in 1 .. m + 1
        PROVE  h[i] = G[<<h[i - 1], i>>]
    <3>1. CASE i = m + 1
      <4>1. i - 1 = m /\ m \in 0 .. m
        BY <3>1
      <4> QED BY <2>4, <3>1, <4>1
    <3>2. CASE i # m + 1
      <4>1. i \in 1 .. m /\ i - 1 \in 0 .. m /\ i \in 0 .. m
        BY <3>2
      <4> QED BY <2>1, <2>4, <4>1
    <3> QED BY <3>1, <3>2
  <2> HIDE DEF h
  <2> QED BY <2>3, <2>4, <2>5
<1>3. S = Nat
  <2>1. 0 \in S
    BY <1>1
  <2>2. ASSUME NEW m \in S PROVE m + 1 \in S
    <3> HIDE DEF P
    <3>1. m + 1 <= n => m <= n
      OBVIOUS
    <3> QED BY <1>2, <2>2, <3>1
  <2> HIDE DEF P
  <2> QED BY <2>1, <2>2, NatIsInductive
<1> QED BY <1>3, SMTT(30)

\* The end of an interval.
LEMMA Intervals ==
  ASSUME NEW n \in Nat
  PROVE  /\ \A k \in 1 .. n + 1 : k \in 1 .. n \/ k = n + 1
         /\ \A k \in 1 .. n : k \in 1 .. n + 1 /\ k < n + 1
         /\ n + 1 \in 1 .. n + 1
         /\ \A k \in 1 .. n : k # n => k \in 1 .. n - 1 /\ k < n
         /\ \A k \in 1 .. n - 1 : k \in 1 .. n /\ k # n /\ k < n
         /\ n \notin 1 .. n - 1
OBVIOUS

-----------------------------------------------------------------------------
\* Select.

\* What Select keeps of each prefix of s.
Keeps(kept, s, S, T) ==
  /\ kept \in [0 .. Len(s) -> Seq(T)]
  /\ kept[0] = <<>>
  /\ \A i \in 1 .. Len(s) :
        kept[i] = IF s[i] \in S THEN Append(kept[i - 1], s[i]) ELSE kept[i - 1]
  /\ Select(s, S) = kept[Len(s)]

\* Select meets its recursion.
LEMMA SelectDef ==
  ASSUME NEW T, NEW s \in Seq(T), NEW S
  PROVE  \E kept : Keeps(kept, s, S, T)
<1> DEFINE n == Len(s)
           V == Seq(T)
           G == [x \in V \X (1 .. n) |->
                    IF s[x[2]] \in S THEN Append(x[1], s[x[2]]) ELSE x[1]]
           Is(f) == f = [i \in 0 .. Len(s) |->
                            IF i = 0 THEN <<>>
                            ELSE IF s[i] \in S THEN Append(f[i - 1], s[i]) ELSE f[i - 1]]
<1>1. n \in Nat /\ <<>> \in V
  OBVIOUS
<1>2. G \in [V \X (1 .. n) -> V]
  OBVIOUS
<1>3. PICK f : RunsBy(f, n, V, <<>>, G)
  <2>1. StepFunction(G, n, V)
    BY <1>2 DEF StepFunction
  <2> HIDE DEF G, V, n
  <2> QED BY <1>1, <2>1, RecursionExists
<1>4. \A i \in 1 .. n :
         f[i] = IF s[i] \in S THEN Append(f[i - 1], s[i]) ELSE f[i - 1]
  <2> TAKE i \in 1 .. n
  <2>1. i - 1 \in 0 .. n /\ f[i - 1] \in V
    BY <1>1, <1>3, SMTT(30) DEF RunsBy
  <2> QED BY <1>3, <2>1 DEF RunsBy
<1>5. Is(f)
  <2> DEFINE body(i) == IF i = 0 THEN <<>>
                        ELSE IF s[i] \in S THEN Append(f[i - 1], s[i]) ELSE f[i - 1]
  <2>1. \A i \in 0 .. n : f[i] = body(i)
    <3> TAKE i \in 0 .. n
    <3>1. i = 0 \/ i \in 1 .. n
      BY <1>1
    <3> QED BY <1>3, <1>4, <3>1 DEF RunsBy
  <2>2. f = [i \in 0 .. n |-> f[i]]
    BY <1>3 DEF RunsBy
  <2> HIDE DEF body, n
  <2>3. f = [i \in 0 .. n |-> body(i)]
    BY <2>1, <2>2
  <2> QED BY <2>3 DEF body, n
<1>6. Is(CHOOSE g : Is(g))
  BY <1>5
<1> DEFINE g == CHOOSE g : Is(g)
<1>7. Select(s, S) = g[Len(s)]
  BY DEF Select
<1> HIDE DEF g
<1>8. Is(g)
  BY <1>6 DEF g
<1>9. g = f
  <2> DEFINE A == {m \in Nat : m <= n => g[m] = f[m]}
  <2>1. DOMAIN g = 0 .. n
    BY <1>8
  <2>2. 0 \in A
    BY <1>1, <1>3, <1>8 DEF RunsBy
  <2>3. ASSUME NEW m \in A PROVE m + 1 \in A
    <3>1. CASE m + 1 <= n
      <4>1. m + 1 \in 1 .. n /\ (m + 1) - 1 = m /\ m <= n
        BY <1>1, <3>1
      <4>2. g[m + 1] = IF s[m + 1] \in S THEN Append(g[m], s[m + 1]) ELSE g[m]
        <5>1. m + 1 \in 0 .. Len(s) /\ m + 1 # 0
          BY <1>1, <4>1
        <5>2. g[m + 1] = IF m + 1 = 0 THEN <<>>
                         ELSE IF s[m + 1] \in S THEN Append(g[(m + 1) - 1], s[m + 1])
                              ELSE g[(m + 1) - 1]
          BY <1>8, <5>1
        <5> QED BY <4>1, <5>1, <5>2
      <4>3. f[m + 1] = IF s[m + 1] \in S THEN Append(f[m], s[m + 1]) ELSE f[m]
        BY <1>4, <4>1
      <4> QED BY <2>3, <4>1, <4>2, <4>3
    <3> QED BY <3>1
  <2>4. A = Nat
    <3> HIDE DEF A
    <3>1. A \subseteq Nat BY DEF A
    <3> QED BY <2>2, <2>3, <3>1, NatIsInductive
  <2>5. \A i \in 0 .. n : g[i] = f[i]
    <3> TAKE i \in 0 .. n
    <3>1. i \in A /\ i <= n
      BY <1>1, <2>4
    <3> QED BY <3>1
  <2>6. g = [i \in 0 .. n |-> g[i]] /\ f = [i \in 0 .. n |-> f[i]]
    <3>1. g = [i \in 0 .. n |-> g[i]]
      BY <1>8
    <3> QED BY <1>3, <3>1 DEF RunsBy
  <2> HIDE DEF n, Is
  <2> QED BY <2>5, <2>6
<1> QED BY <1>3, <1>4, <1>7, <1>9 DEF RunsBy, Keeps

\* Appending adds one member, and keeps members apart if it is a new one.
LEMMA AppendFacts ==
  ASSUME NEW T, NEW s \in Seq(T), NEW x \in T
  PROVE  /\ Append(s, x) \in Seq(T)
         /\ Len(Append(s, x)) = Len(s) + 1
         /\ Append(s, x) # <<>>
         /\ DOMAIN Append(s, x) = 1 .. Len(s) + 1
         /\ Append(s, x)[Len(s) + 1] = x
         /\ \A i \in 1 .. Len(s) : Append(s, x)[i] = s[i]
         /\ Len(s) \in Nat
OBVIOUS

LEMMA HeadFacts ==
  ASSUME NEW T, NEW s \in Seq(T), NEW x \in T
  PROVE  /\ s # <<>> => Len(s) >= 1 /\ Head(s) = s[1] /\ Head(Append(s, x)) = Head(s)
         /\ s = <<>> => Head(Append(s, x)) = x
<1>1. s # <<>> => Len(s) >= 1 /\ Head(s) = s[1]
  OBVIOUS
<1>2. Head(Append(s, x)) = Append(s, x)[1]
  OBVIOUS
<1>3. s # <<>> => 1 \in 1 .. Len(s)
  OBVIOUS
<1>4. Len(<<>>) + 1 = 1
  OBVIOUS
<1> QED BY <1>1, <1>2, <1>3, <1>4, AppendFacts

LEMMA RangeFacts ==
  ASSUME NEW T, NEW s \in Seq(T)
  PROVE  Range(s) \subseteq T /\ Range(s) = {s[i] : i \in 1 .. Len(s)}
<1>1. DOMAIN s = 1 .. Len(s) /\ \A i \in 1 .. Len(s) : s[i] \in T
  OBVIOUS
<1> QED BY <1>1 DEF Range

LEMMA RangeOfAppend ==
  ASSUME NEW T, NEW s \in Seq(T), NEW x \in T
  PROVE  Range(Append(s, x)) = Range(s) \cup {x}
<1>1. DOMAIN s = 1 .. Len(s) /\ Len(s) \in Nat
  OBVIOUS
<1>2. Range(s) = {s[i] : i \in 1 .. Len(s)}
  BY <1>1 DEF Range
<1>3. Range(Append(s, x)) = {Append(s, x)[i] : i \in 1 .. Len(s) + 1}
  BY AppendFacts DEF Range
<1>4. ASSUME NEW y \in Range(s) \cup {x} PROVE y \in Range(Append(s, x))
  <2>1. CASE y = x
    BY <1>1, <1>3, <2>1, AppendFacts
  <2>2. CASE y \in Range(s)
    <3>1. PICK i \in 1 .. Len(s) : s[i] = y
      BY <1>2, <2>2
    <3> QED BY <1>1, <1>3, <3>1, AppendFacts
  <2> QED BY <1>4, <2>1, <2>2
<1>5. ASSUME NEW y \in Range(Append(s, x)) PROVE y \in Range(s) \cup {x}
  <2>1. PICK i \in 1 .. Len(s) + 1 : Append(s, x)[i] = y
    BY <1>3, <1>5
  <2>2. CASE i = Len(s) + 1
    BY <2>1, <2>2, AppendFacts
  <2>3. CASE i \in 1 .. Len(s)
    BY <1>2, <2>1, <2>3, AppendFacts
  <2> QED BY <1>1, <2>2, <2>3
<1> QED BY <1>4, <1>5

LEMMA InjectiveAppend ==
  ASSUME NEW T, NEW s \in Seq(T), NEW x \in T, IsInjective(s), x \notin Range(s)
  PROVE  IsInjective(Append(s, x))
<1> SUFFICES ASSUME NEW i \in 1 .. Len(s) + 1, NEW j \in 1 .. Len(s) + 1,
                    Append(s, x)[i] = Append(s, x)[j]
             PROVE  i = j
  BY AppendFacts DEF IsInjective
<1>1. \A k \in 1 .. Len(s) : s[k] # x
  BY DEF Range
<1>2. \A k, l \in 1 .. Len(s) : s[k] = s[l] => k = l
  BY DEF IsInjective
<1> QED BY <1>1, <1>2, AppendFacts

\* A new one joins a queue at its end.
LEMMA JoinFacts ==
  ASSUME NEW T, NEW s \in Seq(T), NEW x \in T, IsInjective(s), x \notin Range(s)
  PROVE  /\ Append(s, x) \in Seq(T) /\ Append(s, x) # <<>>
         /\ Range(Append(s, x)) = Range(s) \cup {x}
         /\ IsInjective(Append(s, x))
         /\ s # <<>> => Head(Append(s, x)) = Head(s)
BY AppendFacts, RangeOfAppend, InjectiveAppend, HeadFacts

\* What Select keeps: the members that are in S and no others, each as often
\* as it was there, the first of s as the first; all of s if all are in S.
LEMMA SelectFacts ==
  ASSUME NEW T, NEW s \in Seq(T), NEW S
  PROVE  /\ Select(s, S) \in Seq(T)
         /\ Range(Select(s, S)) = Range(s) \cap S
         /\ IsInjective(s) => IsInjective(Select(s, S))
         /\ Len(Select(s, S)) <= Len(s)
         /\ s # <<>> /\ s[1] \in S => Select(s, S) # <<>> /\ Select(s, S)[1] = s[1]
         /\ Range(s) \subseteq S => Select(s, S) = s
<1>1. PICK kept : Keeps(kept, s, S, T)
  BY SelectDef
<1>2. DOMAIN s = 1 .. Len(s) /\ Len(s) \in Nat /\ \A i \in 1 .. Len(s) : s[i] \in T
  OBVIOUS
<1> DEFINE Before(i) == {s[j] : j \in 1 .. i}
           Good(i) == /\ Range(kept[i]) = Before(i) \cap S
                      /\ IsInjective(s) => IsInjective(kept[i])
                      /\ Len(kept[i]) <= i
                      /\ i >= 1 /\ s[1] \in S => kept[i] # <<>> /\ kept[i][1] = s[1]
                      /\ Range(s) \subseteq S =>
                            Len(kept[i]) = i /\ \A j \in 1 .. i : kept[i][j] = s[j]
           A == {i \in 0 .. Len(s) : Good(i)}
<1>3. 0 \in A
  <2>1. Range(<<>>) = {} /\ Len(<<>>) = 0 /\ 1 .. 0 = {} /\ 0 \in 0 .. Len(s)
    BY <1>2 DEF Range
  <2>2. IsInjective(<<>>)
    BY DEF IsInjective
  <2>3. Before(0) = {}
    BY <2>1
  <2> HIDE DEF Before
  <2>4. Good(0)
    BY <1>1, <2>1, <2>2, <2>3 DEF Keeps
  <2> QED BY <2>1, <2>4
<1>4. ASSUME NEW i \in A, i < Len(s) PROVE i + 1 \in A
  <2> DEFINE k == kept[i]
             x == s[i + 1]
  <2>1. i \in Nat /\ i + 1 \in 1 .. Len(s) /\ (i + 1) - 1 = i /\ i \in 0 .. Len(s)
    BY <1>2, <1>4
  <2>2. k \in Seq(T) /\ x \in T /\ Len(k) \in Nat
    BY <1>1, <1>2, <2>1 DEF Keeps
  <2>3. kept[i + 1] = IF x \in S THEN Append(k, x) ELSE k
    BY <1>1, <2>1 DEF Keeps
  <2>4. Good(i)
    BY <1>4
  <2>5. Before(i + 1) = Before(i) \cup {x}
    <3>1. \A j : j \in 1 .. i + 1 <=> j \in 1 .. i \/ j = i + 1
      BY <2>1
    <3> QED BY <3>1
  <2>6. IsInjective(s) => x \notin Before(i)
    <3>1. \A j \in 1 .. i : j \in DOMAIN s /\ i + 1 \in DOMAIN s /\ j # i + 1
      BY <1>2, <2>1
    <3> QED BY <3>1 DEF IsInjective
  <2>7. x \in Range(s)
    BY <1>2, <2>1 DEF Range
  <2>8. i = 0 => Before(i) = {} /\ x = s[1]
    BY <2>1
  <2> HIDE DEF Before, k, x
  <2>9. CASE x \in S
    <3>1. kept[i + 1] = Append(k, x)
      BY <2>3, <2>9
    <3>2. Range(Append(k, x)) = Before(i + 1) \cap S
      BY <2>2, <2>4, <2>5, <2>9, RangeOfAppend DEF k
    <3>3. IsInjective(s) => IsInjective(Append(k, x))
      BY <2>2, <2>4, <2>6, InjectiveAppend DEF k
    <3>4. Len(Append(k, x)) <= i + 1
      BY <2>1, <2>2, <2>4, AppendFacts DEF k
    <3>5. s[1] \in S => Append(k, x) # <<>> /\ Append(k, x)[1] = s[1]
      <4>1. CASE i = 0
        <5>1. k = <<>>
          BY <2>1, <2>2, <2>4, <4>1 DEF k
        <5> QED BY <2>2, <2>8, <4>1, <5>1, AppendFacts
      <4>2. CASE i >= 1
        <5>1. s[1] \in S => k # <<>> /\ k[1] = s[1]
          BY <2>4, <4>2 DEF k
        <5>2. k # <<>> => 1 \in 1 .. Len(k)
          BY <2>2
        <5> QED BY <2>2, <5>1, <5>2, AppendFacts
      <4> QED BY <2>1, <4>1, <4>2
    <3>6. ASSUME Range(s) \subseteq S
          PROVE  /\ Len(Append(k, x)) = i + 1
                 /\ \A j \in 1 .. i + 1 : Append(k, x)[j] = s[j]
      <4>1. Len(k) = i /\ \A j \in 1 .. i : k[j] = s[j]
        BY <2>4, <3>6 DEF k
      <4>2. \A j \in 1 .. i + 1 : j \in 1 .. i \/ j = i + 1
        BY <2>1
      <4>3. x = s[i + 1]
        BY DEF x
      <4>4. Append(k, x)[i + 1] = x /\ Len(Append(k, x)) = i + 1
        BY <2>2, <4>1, AppendFacts
      <4>5. \A j \in 1 .. i : Append(k, x)[j] = k[j]
        BY <2>2, <4>1, AppendFacts
      <4> QED BY <4>1, <4>2, <4>3, <4>4, <4>5
    <3>7. Good(i + 1)
      BY <2>1, <3>1, <3>2, <3>3, <3>4, <3>5, <3>6
    <3> QED BY <2>1, <3>7
  <2>10. CASE x \notin S
    <3>1. kept[i + 1] = k
      BY <2>3, <2>10
    <3>2. Range(k) = Before(i + 1) \cap S
      BY <2>4, <2>5, <2>10 DEF k
    <3>3. ~(Range(s) \subseteq S)
      BY <2>7, <2>10
    <3>4. s[1] \in S => k # <<>> /\ k[1] = s[1]
      BY <2>1, <2>4, <2>8, <2>10 DEF k
    <3>5. Len(k) <= i + 1 /\ (IsInjective(s) => IsInjective(k))
      BY <2>1, <2>2, <2>4 DEF k
    <3> QED BY <2>1, <3>1, <3>2, <3>3, <3>4, <3>5
  <2> QED BY <2>9, <2>10
<1>5. Good(Len(s))
  <2> HIDE DEF Good
  <2>1. A \subseteq 0 .. Len(s)
    OBVIOUS
  <2> HIDE DEF A
  <2>2. A = 0 .. Len(s)
    BY <1>2, <1>3, <1>4, <2>1, UpToInductive
  <2>3. Len(s) \in A
    BY <1>2, <2>2
  <2> QED BY <2>3 DEF A
<1>6. Before(Len(s)) = Range(s)
  BY <1>2 DEF Range
<1>7. Select(s, S) = kept[Len(s)] /\ kept[Len(s)] \in Seq(T)
  BY <1>1, <1>2 DEF Keeps
<1>8. Range(s) \subseteq S => kept[Len(s)] = s
  BY <1>2, <1>5, <1>7
<1>9. s # <<>> => Len(s) >= 1
  BY <1>2
<1> HIDE DEF Before
<1> QED BY <1>5, <1>6, <1>7, <1>8, <1>9

-----------------------------------------------------------------------------
\* SumUpTo.

\* The partial sums of f.
SumsUp(sum, f, n) ==
  /\ sum \in [0 .. n -> Int]
  /\ sum[0] = 0
  /\ \A i \in 1 .. n : sum[i] = sum[i - 1] + f[i]
  /\ SumUpTo(f, n) = sum[n]

\* SumUpTo meets its recursion.
LEMMA SumDef ==
  ASSUME NEW n \in Nat, NEW f, \A i \in 1 .. n : f[i] \in Int
  PROVE  \E sum : SumsUp(sum, f, n)
<1> DEFINE V == Int
           G == [x \in V \X (1 .. n) |-> x[1] + f[x[2]]]
           Is(g) == g = [i \in 0 .. n |-> IF i = 0 THEN 0 ELSE g[i - 1] + f[i]]
<1>1. PICK h : RunsBy(h, n, V, 0, G)
  <2>1. StepFunction(G, n, V)
    BY DEF StepFunction
  <2> HIDE DEF G
  <2> QED BY <2>1, RecursionExists
<1>2. \A i \in 1 .. n : h[i] = h[i - 1] + f[i]
  <2> TAKE i \in 1 .. n
  <2>1. i - 1 \in 0 .. n /\ h[i - 1] \in V
    BY <1>1 DEF RunsBy
  <2> QED BY <1>1, <2>1 DEF RunsBy
<1>3. Is(h)
  <2> DEFINE body(i) == IF i = 0 THEN 0 ELSE h[i - 1] + f[i]
  <2>1. \A i \in 0 .. n : h[i] = body(i)
    <3> TAKE i \in 0 .. n
    <3>1. i = 0 \/ i \in 1 .. n
      OBVIOUS
    <3> QED BY <1>1, <1>2, <3>1 DEF RunsBy
  <2>2. h = [i \in 0 .. n |-> h[i]]
    BY <1>1 DEF RunsBy
  <2> HIDE DEF body
  <2>3. h = [i \in 0 .. n |-> body(i)]
    BY <2>1, <2>2
  <2> QED BY <2>3 DEF body
<1>4. Is(CHOOSE g : Is(g))
  BY <1>3
<1> DEFINE g == CHOOSE g : Is(g)
<1>5. SumUpTo(f, n) = g[n]
  BY DEF SumUpTo
<1> HIDE DEF g
<1>6. Is(g)
  BY <1>4 DEF g
<1>7. g = h
  <2> DEFINE A == {m \in 0 .. n : g[m] = h[m]}
  <2>1. 0 \in A
    BY <1>1, <1>6 DEF RunsBy
  <2>2. ASSUME NEW m \in A, m < n PROVE m + 1 \in A
    <3>1. m + 1 \in 1 .. n /\ (m + 1) - 1 = m /\ m + 1 \in 0 .. n /\ m + 1 # 0
      BY <2>2
    <3>2. g[m + 1] = IF m + 1 = 0 THEN 0 ELSE g[(m + 1) - 1] + f[m + 1]
      BY <1>6, <3>1
    <3>3. h[m + 1] = h[m] + f[m + 1]
      BY <1>2, <3>1
    <3> QED BY <2>2, <3>1, <3>2, <3>3
  <2>3. A = 0 .. n
    <3> HIDE DEF A
    <3>1. A \in SUBSET (0 .. n)
      BY DEF A
    <3> QED BY <2>1, <2>2, <3>1, UpToInductive
  <2>4. \A i \in 0 .. n : g[i] = h[i]
    BY <2>3
  <2>5. g = [i \in 0 .. n |-> g[i]] /\ h = [i \in 0 .. n |-> h[i]]
    <3>1. g = [i \in 0 .. n |-> g[i]]
      BY <1>6
    <3> QED BY <1>1, <3>1 DEF RunsBy
  <2> HIDE DEF Is
  <2> QED BY <2>4, <2>5
<1> QED BY <1>1, <1>2, <1>5, <1>7 DEF RunsBy, SumsUp

\* Sums of natural numbers are ordered as their terms are.
LEMMA SumOrder ==
  ASSUME NEW n \in Nat, NEW f, NEW g,
         \A i \in 1 .. n : f[i] \in Nat /\ g[i] \in Nat /\ f[i] <= g[i]
  PROVE  SumUpTo(f, n) \in Nat /\ SumUpTo(g, n) \in Nat /\ SumUpTo(f, n) <= SumUpTo(g, n)
<1>1. PICK s : SumsUp(s, f, n)
  BY SumDef
<1>2. PICK t : SumsUp(t, g, n)
  BY SumDef
<1> DEFINE A == {i \in 0 .. n : s[i] \in Nat /\ t[i] \in Nat /\ s[i] <= t[i]}
<1>3. 0 \in A
  BY <1>1, <1>2 DEF SumsUp
<1>4. ASSUME NEW i \in A, i < n PROVE i + 1 \in A
  <2>1. i + 1 \in 1 .. n /\ (i + 1) - 1 = i /\ i + 1 \in 0 .. n
    BY <1>4
  <2>2. s[i + 1] = s[i] + f[i + 1] /\ t[i + 1] = t[i] + g[i + 1]
    BY <1>1, <1>2, <2>1 DEF SumsUp
  <2> QED BY <1>4, <2>1, <2>2
<1>5. n \in A
  <2>1. A \in SUBSET (0 .. n)
    OBVIOUS
  <2> HIDE DEF A
  <2> QED BY <1>3, <1>4, <2>1, UpToInductive
<1> QED BY <1>1, <1>2, <1>5 DEF SumsUp

\* Another term changes the sum by the difference.
LEMMA SumChange ==
  ASSUME NEW n \in Nat, NEW f, NEW g, NEW k \in 1 .. n,
         \A i \in 1 .. n : f[i] \in Int /\ g[i] \in Int,
         \A i \in 1 .. n : i # k => g[i] = f[i]
  PROVE  SumUpTo(g, n) = SumUpTo(f, n) - f[k] + g[k]
<1>1. PICK s : SumsUp(s, f, n)
  BY SumDef
<1>2. PICK t : SumsUp(t, g, n)
  BY SumDef
<1> DEFINE A == {i \in 0 .. n : t[i] = IF i < k THEN s[i] ELSE s[i] - f[k] + g[k]}
<1>3. 0 \in A
  BY <1>1, <1>2 DEF SumsUp
<1>4. ASSUME NEW i \in A, i < n PROVE i + 1 \in A
  <2>1. i + 1 \in 1 .. n /\ (i + 1) - 1 = i /\ i + 1 \in 0 .. n /\ i \in 0 .. n
    BY <1>4
  <2>2. s[i + 1] = s[i] + f[i + 1] /\ t[i + 1] = t[i] + g[i + 1] /\ s[i] \in Int /\ t[i] \in Int
    BY <1>1, <1>2, <2>1 DEF SumsUp
  <2>3. t[i] = IF i < k THEN s[i] ELSE s[i] - f[k] + g[k]
    BY <1>4
  <2>4. CASE i + 1 < k
    BY <2>1, <2>2, <2>3, <2>4
  <2>5. CASE i + 1 = k
    BY <2>1, <2>2, <2>3, <2>5
  <2>6. CASE i + 1 > k
    <3>1. i + 1 # k /\ ~(i < k)
      BY <2>1, <2>6
    <3>2. g[i + 1] = f[i + 1]
      BY <2>1, <3>1
    <3> QED BY <2>1, <2>2, <2>3, <2>6, <3>1, <3>2
  <2> QED BY <2>1, <2>4, <2>5, <2>6
<1>5. n \in A
  <2>1. A \in SUBSET (0 .. n)
    OBVIOUS
  <2> HIDE DEF A
  <2> QED BY <1>3, <1>4, <2>1, UpToInductive
<1> QED BY <1>1, <1>2, <1>5 DEF SumsUp

\* A term is no more than the sum.
LEMMA SumHasTerm ==
  ASSUME NEW n \in Nat, NEW f, NEW k \in 1 .. n, \A i \in 1 .. n : f[i] \in Nat
  PROVE  f[k] <= SumUpTo(f, n) /\ SumUpTo(f, n) \in Nat
<1> DEFINE g == [i \in 1 .. n |-> IF i = k THEN 0 ELSE f[i]]
<1>1. \A i \in 1 .. n : g[i] \in Nat /\ g[i] <= f[i] /\ (i # k => g[i] = f[i])
  OBVIOUS
<1>2. g[k] = 0
  OBVIOUS
<1> HIDE DEF g
<1>3. SumUpTo(g, n) \in Nat /\ SumUpTo(f, n) \in Nat
  BY <1>1, SumOrder
<1>4. SumUpTo(g, n) = SumUpTo(f, n) - f[k] + g[k]
  BY <1>1, SumChange
<1> QED BY <1>2, <1>3, <1>4

\* Nothing but zeros.
LEMMA SumOfZeros ==
  ASSUME NEW n \in Nat, NEW f, \A i \in 1 .. n : f[i] = 0
  PROVE  SumUpTo(f, n) = 0
<1>1. PICK s : SumsUp(s, f, n)
  BY SumDef
<1> DEFINE A == {i \in 0 .. n : s[i] = 0}
<1>2. 0 \in A
  BY <1>1 DEF SumsUp
<1>3. ASSUME NEW i \in A, i < n PROVE i + 1 \in A
  <2>1. i + 1 \in 1 .. n /\ (i + 1) - 1 = i /\ i + 1 \in 0 .. n
    BY <1>3
  <2>2. s[i + 1] = s[i] + f[i + 1]
    BY <1>1, <2>1 DEF SumsUp
  <2> QED BY <1>3, <2>1, <2>2
<1>4. n \in A
  <2>1. A \in SUBSET (0 .. n)
    OBVIOUS
  <2> HIDE DEF A
  <2> QED BY <1>2, <1>3, <2>1, UpToInductive
<1> QED BY <1>1, <1>4 DEF SumsUp

LEMMA SumIsInt ==
  ASSUME NEW n \in Nat, NEW f, \A i \in 1 .. n : f[i] \in Int
  PROVE  SumUpTo(f, n) \in Int
<1>1. PICK s : SumsUp(s, f, n)
  BY SumDef
<1> QED BY <1>1 DEF SumsUp

\* Only the terms matter.
LEMMA SumSame ==
  ASSUME NEW n \in Nat, NEW f, NEW g,
         \A i \in 1 .. n : f[i] \in Int /\ g[i] = f[i]
  PROVE  SumUpTo(g, n) = SumUpTo(f, n)
<1>1. CASE n = 0
  BY <1>1, SumOfZeros
<1>2. CASE n # 0
  <2>1. 1 \in 1 .. n
    BY <1>2
  <2>2. f[1] \in Int /\ g[1] = f[1] /\ SumUpTo(f, n) \in Int
    BY <2>1, SumIsInt
  <2>3. SumUpTo(g, n) = SumUpTo(f, n) - f[1] + g[1]
    BY <2>1, SumChange
  <2> QED BY <2>2, <2>3
<1> QED BY <1>1, <1>2

\* The sum of sums.
LEMMA SumAdd ==
  ASSUME NEW n \in Nat, NEW f, NEW g, NEW h,
         \A i \in 1 .. n : f[i] \in Int /\ g[i] \in Int /\ h[i] = f[i] + g[i]
  PROVE  SumUpTo(h, n) = SumUpTo(f, n) + SumUpTo(g, n)
<1>1. PICK s : SumsUp(s, f, n)
  BY SumDef
<1>2. PICK t : SumsUp(t, g, n)
  BY SumDef
<1>3. PICK u : SumsUp(u, h, n)
  BY SumDef
<1> DEFINE A == {i \in 0 .. n : u[i] = s[i] + t[i]}
<1>4. 0 \in A
  BY <1>1, <1>2, <1>3 DEF SumsUp
<1>5. ASSUME NEW i \in A, i < n PROVE i + 1 \in A
  <2>1. i + 1 \in 1 .. n /\ (i + 1) - 1 = i /\ i + 1 \in 0 .. n /\ i \in 0 .. n
    BY <1>5
  <2>2. s[i + 1] = s[i] + f[i + 1] /\ t[i + 1] = t[i] + g[i + 1] /\ u[i + 1] = u[i] + h[i + 1]
    BY <1>1, <1>2, <1>3, <2>1 DEF SumsUp
  <2>3. s[i] \in Int /\ t[i] \in Int /\ u[i] = s[i] + t[i]
    BY <1>1, <1>2, <1>5, <2>1 DEF SumsUp
  <2>4. h[i + 1] = f[i + 1] + g[i + 1] /\ f[i + 1] \in Int /\ g[i + 1] \in Int
    BY <2>1
  <2>5. u[i + 1] = s[i + 1] + t[i + 1]
    BY <2>2, <2>3, <2>4
  <2> QED BY <2>1, <2>5
<1>6. n \in A
  <2>1. A \in SUBSET (0 .. n)
    OBVIOUS
  <2> HIDE DEF A
  <2> QED BY <1>4, <1>5, <2>1, UpToInductive
<1> QED BY <1>1, <1>2, <1>3, <1>6 DEF SumsUp

-----------------------------------------------------------------------------
\* Queues without repetition.

LEMMA MembersFacts ==
  ASSUME NEW T, NEW s \in Seq(T)
  PROVE  /\ ToSet(s) \subseteq T /\ ToSet(s) = Range(s)
         /\ \A x : x \in ToSet(s) <=> \E i \in 1 .. Len(s) : s[i] = x
         /\ \A x : Contains(s, x) <=> x \in ToSet(s)
         /\ s = <<>> <=> ToSet(s) = {}
         /\ s # <<>> => Head(s) \in ToSet(s) /\ Head(s) = s[1] /\ Len(s) >= 1
<1>1. DOMAIN s = 1 .. Len(s) /\ Len(s) \in Nat /\ \A i \in 1 .. Len(s) : s[i] \in T
  OBVIOUS
<1>2. \A x : x \in ToSet(s) <=> \E i \in 1 .. Len(s) : s[i] = x
  BY <1>1 DEF ToSet
<1>3. ToSet(s) = Range(s)
  BY DEF ToSet, Range
<1>4. s # <<>> => Len(s) >= 1 /\ 1 \in 1 .. Len(s) /\ Head(s) = s[1]
  OBVIOUS
<1>5. s = <<>> => Len(s) = 0
  OBVIOUS
<1>6. s = <<>> => ToSet(s) = {}
  BY <1>1, <1>2, <1>5
<1> QED BY <1>1, <1>2, <1>3, <1>4, <1>6 DEF Contains

LEMMA TailFacts ==
  ASSUME NEW T, NEW s \in Seq(T), s # <<>>, IsInjective(s)
  PROVE  /\ Tail(s) \in Seq(T) /\ IsInjective(Tail(s))
         /\ ToSet(Tail(s)) = ToSet(s) \ {Head(s)}
         /\ DOMAIN Tail(s) = 1 .. Len(s) - 1
         /\ \A i \in 1 .. Len(s) - 1 : Tail(s)[i] = s[i + 1]
<1>1. /\ Tail(s) \in Seq(T) /\ Len(Tail(s)) = Len(s) - 1 /\ Len(s) \in Nat /\ Len(s) >= 1
      /\ DOMAIN Tail(s) = 1 .. Len(s) - 1 /\ DOMAIN s = 1 .. Len(s) /\ Head(s) = s[1]
  OBVIOUS
<1>2. \A i \in 1 .. Len(s) - 1 : Tail(s)[i] = s[i + 1]
  OBVIOUS
<1>3. \A i \in 1 .. Len(s) - 1 : i + 1 \in 1 .. Len(s) /\ i + 1 # 1
  BY <1>1
<1>4. \A a, b \in 1 .. Len(s) : s[a] = s[b] => a = b
  BY <1>1 DEF IsInjective
<1>5. IsInjective(Tail(s))
  <2> SUFFICES ASSUME NEW a \in 1 .. Len(s) - 1, NEW b \in 1 .. Len(s) - 1, Tail(s)[a] = Tail(s)[b]
               PROVE  a = b
    BY <1>1 DEF IsInjective
  <2>1. s[a + 1] = s[b + 1] /\ a + 1 \in 1 .. Len(s) /\ b + 1 \in 1 .. Len(s)
    BY <1>2, <1>3
  <2> QED BY <1>4, <2>1
<1>6. ASSUME NEW x PROVE x \in ToSet(Tail(s)) <=> x \in ToSet(s) \ {Head(s)}
  <2>1. x \in ToSet(Tail(s)) <=> \E i \in 1 .. Len(s) - 1 : Tail(s)[i] = x
    BY <1>1 DEF ToSet
  <2>2. x \in ToSet(s) <=> \E i \in 1 .. Len(s) : s[i] = x
    BY <1>1 DEF ToSet
  <2>3. ASSUME NEW i \in 1 .. Len(s) - 1, Tail(s)[i] = x PROVE x \in ToSet(s) \ {Head(s)}
    <3>1. s[i + 1] = x /\ i + 1 \in 1 .. Len(s) /\ i + 1 # 1
      BY <1>2, <1>3, <2>3
    <3>2. 1 \in 1 .. Len(s)
      BY <1>1
    <3>3. s[i + 1] # s[1]
      BY <1>4, <3>1, <3>2
    <3> QED BY <1>1, <2>2, <3>1, <3>3
  <2>4. ASSUME NEW i \in 1 .. Len(s), s[i] = x, x # Head(s) PROVE x \in ToSet(Tail(s))
    <3>1. i # 1
      BY <1>1, <2>4
    <3>2. i - 1 \in 1 .. Len(s) - 1 /\ (i - 1) + 1 = i
      BY <1>1, <3>1
    <3>3. Tail(s)[i - 1] = x
      BY <1>2, <2>4, <3>2
    <3> QED BY <2>1, <3>2, <3>3
  <2> QED BY <2>1, <2>2, <2>3, <2>4
<1> QED BY <1>1, <1>2, <1>5, <1>6

LEMMA SetOfAppend ==
  ASSUME NEW T, NEW s \in Seq(T), NEW x \in T
  PROVE  /\ Append(s, x) \in Seq(T) /\ ToSet(Append(s, x)) = ToSet(s) \cup {x}
         /\ IsInjective(s) /\ x \notin ToSet(s) => IsInjective(Append(s, x))
<1>1. Append(s, x) \in Seq(T)
  BY AppendFacts
<1>2. ToSet(Append(s, x)) = Range(Append(s, x)) /\ ToSet(s) = Range(s)
  BY <1>1, MembersFacts
<1>3. Range(Append(s, x)) = Range(s) \cup {x}
  BY RangeOfAppend
<1>4. IsInjective(s) /\ x \notin Range(s) => IsInjective(Append(s, x))
  BY InjectiveAppend
<1> QED BY <1>1, <1>2, <1>3, <1>4

LEMMA SetOfSelect ==
  ASSUME NEW T, NEW s \in Seq(T), NEW S
  PROVE  /\ Select(s, S) \in Seq(T) /\ ToSet(Select(s, S)) = ToSet(s) \cap S
         /\ IsInjective(s) => IsInjective(Select(s, S))
<1>1. Select(s, S) \in Seq(T)
  BY SelectFacts
<1> QED BY <1>1, SelectFacts, MembersFacts

\* The places of Reverse(p) \o q.
LEMMA ExtendFacts ==
  ASSUME NEW T, NEW p \in Seq(T), NEW q \in Seq(T)
  PROVE  LET e == Reverse(p) \o q IN
         /\ e \in Seq(T) /\ DOMAIN e = 1 .. Len(p) + Len(q)
         /\ \A i \in 1 .. Len(p) : e[i] = p[(Len(p) - i) + 1] /\ (Len(p) - i) + 1 \in 1 .. Len(p)
         /\ \A i \in 1 .. Len(p) + Len(q) : i > Len(p) => e[i] = q[i - Len(p)] /\ i - Len(p) \in 1 .. Len(q)
<1>1. Reverse(p) \in Seq(T) /\ Len(Reverse(p)) = Len(p) /\ Len(p) \in Nat /\ Len(q) \in Nat
  BY DEF Reverse
<1>2. \A i \in 1 .. Len(p) : Reverse(p)[i] = p[(Len(p) - i) + 1] /\ (Len(p) - i) + 1 \in 1 .. Len(p)
  BY <1>1 DEF Reverse
<1> DEFINE r == Reverse(p)
<1> HIDE DEF r
<1>3. r \o q \in Seq(T) /\ Len(r \o q) = Len(r) + Len(q) /\ DOMAIN (r \o q) = 1 .. Len(r) + Len(q)
  BY <1>1 DEF r
<1>4. /\ \A i \in 1 .. Len(r) : (r \o q)[i] = r[i]
      /\ \A i \in 1 .. Len(r) + Len(q) : i > Len(r) => (r \o q)[i] = q[i - Len(r)]
  BY <1>1 DEF r
<1>5. Len(r) = Len(p) /\ \A i \in 1 .. Len(p) : r[i] = p[(Len(p) - i) + 1]
  BY <1>1, <1>2 DEF r
<1>6. \A i \in 1 .. Len(p) + Len(q) : i > Len(p) => i - Len(p) \in 1 .. Len(q)
  BY <1>1
<1>7. \A i \in 1 .. Len(p) : (r \o q)[i] = p[(Len(p) - i) + 1]
  BY <1>4, <1>5
<1>8. \A i \in 1 .. Len(p) + Len(q) : i > Len(p) => (r \o q)[i] = q[i - Len(p)]
  BY <1>4, <1>5
<1> QED BY <1>2, <1>3, <1>5, <1>6, <1>7, <1>8 DEF r

LEMMA SetOfExtend ==
  ASSUME NEW T, NEW p \in Seq(T), NEW q \in Seq(T)
  PROVE  /\ Reverse(p) \o q \in Seq(T)
         /\ ToSet(Reverse(p) \o q) = ToSet(p) \cup ToSet(q)
         /\ IsInjective(p) /\ IsInjective(q) /\ ToSet(p) \cap ToSet(q) = {} =>
               IsInjective(Reverse(p) \o q)
<1> DEFINE e == Reverse(p) \o q
<1>1. /\ e \in Seq(T) /\ DOMAIN e = 1 .. Len(p) + Len(q)
      /\ \A i \in 1 .. Len(p) : e[i] = p[(Len(p) - i) + 1] /\ (Len(p) - i) + 1 \in 1 .. Len(p)
      /\ \A i \in 1 .. Len(p) + Len(q) : i > Len(p) => e[i] = q[i - Len(p)] /\ i - Len(p) \in 1 .. Len(q)
  BY ExtendFacts
<1> HIDE DEF e
<1>2. Len(p) \in Nat /\ Len(q) \in Nat /\ DOMAIN p = 1 .. Len(p) /\ DOMAIN q = 1 .. Len(q)
  OBVIOUS
<1>3. /\ \A x : x \in ToSet(p) <=> \E i \in 1 .. Len(p) : p[i] = x
      /\ \A x : x \in ToSet(q) <=> \E i \in 1 .. Len(q) : q[i] = x
      /\ \A x : x \in ToSet(e) <=> \E i \in 1 .. Len(p) + Len(q) : e[i] = x
  BY <1>1, <1>2, ZenonT(40) DEF ToSet
<1>4. \A i \in 1 .. Len(p) + Len(q) : e[i] \in ToSet(p) \cup ToSet(q)
  <2> SUFFICES ASSUME NEW i \in 1 .. Len(p) + Len(q) PROVE e[i] \in ToSet(p) \cup ToSet(q)
    OBVIOUS
  <2>1. CASE i > Len(p)
    BY <1>1, <1>3, <2>1
  <2>2. CASE ~(i > Len(p))
    <3>1. i \in 1 .. Len(p)
      BY <1>2, <2>2
    <3> QED BY <1>1, <1>3, <3>1
  <2> QED BY <2>1, <2>2
<1>5. \A x \in ToSet(p) : x \in ToSet(e)
  <2> SUFFICES ASSUME NEW i \in 1 .. Len(p) PROVE p[i] \in ToSet(e)
    BY <1>3
  <2> DEFINE j == (Len(p) - i) + 1
  <2>1. j \in 1 .. Len(p) /\ (Len(p) - j) + 1 = i /\ j \in 1 .. Len(p) + Len(q)
    BY <1>2
  <2> HIDE DEF j
  <2>2. e[j] = p[i]
    BY <1>1, <2>1
  <2> QED BY <1>3, <2>1, <2>2
<1>6. \A x \in ToSet(q) : x \in ToSet(e)
  <2> SUFFICES ASSUME NEW i \in 1 .. Len(q) PROVE q[i] \in ToSet(e)
    BY <1>3
  <2> DEFINE j == i + Len(p)
  <2>1. j \in 1 .. Len(p) + Len(q) /\ j > Len(p) /\ j - Len(p) = i
    BY <1>2
  <2> HIDE DEF j
  <2>2. e[j] = q[i]
    BY <1>1, <2>1
  <2> QED BY <1>3, <2>1, <2>2
<1>7. ToSet(e) = ToSet(p) \cup ToSet(q)
  BY <1>3, <1>4, <1>5, <1>6
<1>8. ASSUME IsInjective(p), IsInjective(q), ToSet(p) \cap ToSet(q) = {}
      PROVE  IsInjective(e)
  <2> SUFFICES ASSUME NEW a \in 1 .. Len(p) + Len(q), NEW b \in 1 .. Len(p) + Len(q), e[a] = e[b]
               PROVE  a = b
    BY <1>1 DEF IsInjective
  <2>1. \A i, j \in 1 .. Len(p) : p[i] = p[j] => i = j
    BY <1>2, <1>8 DEF IsInjective
  <2>2. \A i, j \in 1 .. Len(q) : q[i] = q[j] => i = j
    BY <1>2, <1>8 DEF IsInjective
  <2>3. CASE a > Len(p) /\ b > Len(p)
    <3>1. a - Len(p) = b - Len(p)
      BY <1>1, <2>2, <2>3, ZenonT(40)
    <3> QED BY <1>2, <3>1
  <2>4. CASE a <= Len(p) /\ b <= Len(p)
    <3>1. a \in 1 .. Len(p) /\ b \in 1 .. Len(p)
      BY <1>2, <2>4
    <3>2. (Len(p) - a) + 1 = (Len(p) - b) + 1
      BY <1>1, <2>1, <3>1, ZenonT(40)
    <3> QED BY <1>2, <3>2
  <2>5. CASE a <= Len(p) /\ b > Len(p)
    <3>1. a \in 1 .. Len(p)
      BY <1>2, <2>5
    <3>2. e[a] \in ToSet(p)
      BY <1>1, <1>3, <3>1
    <3>3. e[b] \in ToSet(q)
      BY <1>1, <1>3, <2>5
    <3> QED BY <1>8, <3>2, <3>3
  <2>6. CASE a > Len(p) /\ b <= Len(p)
    <3>1. b \in 1 .. Len(p)
      BY <1>2, <2>6
    <3>2. e[b] \in ToSet(p)
      BY <1>1, <1>3, <3>1
    <3>3. e[a] \in ToSet(q)
      BY <1>1, <1>3, <2>6
    <3> QED BY <1>8, <3>2, <3>3
  <2> QED BY <1>2, <2>3, <2>4, <2>5, <2>6
<1> QED BY <1>1, <1>7, <1>8 DEF e

-----------------------------------------------------------------------------
\* The least and the greatest of a set of numbers.

LEMMA MinFacts ==
  ASSUME NEW S \in SUBSET Nat, S # {}
  PROVE  Min(S) \in S /\ \A x \in S : Min(S) <= x
<1>1. IsWellFoundedOn(OpToRel(<, Nat), Nat)
  BY NatLessThanWellFounded
<1>2. \A i, j \in Nat : <<i, j>> \in OpToRel(<, Nat) <=> i < j
  BY DEF OpToRel
<1>3. S \subseteq Nat
  OBVIOUS
<1>4. PICK m \in S : ~\E k \in S : <<k, m>> \in OpToRel(<, Nat)
  BY <1>1, <1>3, WFMin
<1>5. \A x \in S : ~(x < m)
  BY <1>2, <1>3, <1>4, Zenon
<1>6. \A x \in S : m <= x
  BY <1>3, <1>5
<1>7. \E x \in S : \A y \in S : x <= y
  BY <1>6
<1> QED BY <1>7 DEF Min

LEMMA MaxFacts ==
  ASSUME NEW n \in Nat, NEW S \in SUBSET (1 .. n), S # {}
  PROVE  Max(S) \in S /\ \A x \in S : x <= Max(S)
<1> DEFINE R == {n - x : x \in S}
<1>1. R \in SUBSET Nat /\ R # {}
  <2>1. \A x \in S : n - x \in Nat
    OBVIOUS
  <2>2. PICK x : x \in S
    OBVIOUS
  <2>3. n - x \in R
    BY <2>2
  <2> QED BY <2>1, <2>3
<1>2. Min(R) \in R /\ \A y \in R : Min(R) <= y
  BY <1>1, MinFacts
<1>3. PICK m \in S : Min(R) = n - m
  BY <1>2
<1>4. ASSUME NEW x \in S PROVE m >= x
  <2>1. n - m <= n - x
    BY <1>2, <1>3
  <2> QED BY <2>1
<1>5. \E x \in S : \A y \in S : x >= y
  BY <1>4
<1>6. Max(S) \in S /\ \A y \in S : Max(S) >= y
  BY <1>5 DEF Max
<1> QED BY <1>6

LEMMA MinOfTwo ==
  ASSUME NEW a \in Int, NEW b \in Int
  PROVE  /\ Min({a, b}) \in Int
         /\ Min({a, b}) = a \/ Min({a, b}) = b
         /\ Min({a, b}) <= a /\ Min({a, b}) <= b
<1>1. \E x \in {a, b} : \A y \in {a, b} : x <= y
  OBVIOUS
<1>2. Min({a, b}) \in {a, b} /\ \A y \in {a, b} : Min({a, b}) <= y
  BY <1>1 DEF Min
<1> QED BY <1>2

-----------------------------------------------------------------------------
\* Products grow with their factors.

LEMMA Monotone ==
  ASSUME NEW k \in Nat, NEW m \in Nat, NEW n \in Nat, m <= n
  PROVE  /\ k * m \in Nat /\ k * n \in Nat
         /\ k * m <= k * n
         /\ k * (m + 1) = k * m + k
<1>1. PICK d \in Nat : n = m + d
  <2>1. n - m \in Nat /\ n = m + (n - m)
    OBVIOUS
  <2> QED BY <2>1
<1>2. k * n = k * m + k * d
  BY <1>1
<1>3. k * d \in Nat /\ k * m \in Nat
  OBVIOUS
<1>4. k * (m + 1) = k * m + k
  OBVIOUS
<1> QED BY <1>2, <1>3, <1>4

LEMMA MonotoneLeft ==
  ASSUME NEW j \in Nat, NEW k \in Nat, NEW m \in Nat, j <= k
  PROVE  j * m \in Nat /\ k * m \in Nat /\ j * m <= k * m /\ 1 * m = m /\ m * 0 = 0 /\ m * 1 = m
<1>1. m * j <= m * k
  BY Monotone
<1>2. m * j = j * m /\ m * k = k * m
  OBVIOUS
<1>3. j * m \in Nat /\ k * m \in Nat
  OBVIOUS
<1> QED BY <1>1, <1>2, <1>3

-----------------------------------------------------------------------------
\* Queues of numbers in order.

Increasing(s) == \A i, j \in DOMAIN s : i < j => s[i] < s[j]
Decreasing(s) == \A i, j \in DOMAIN s : i < j => s[j] < s[i]

LEMMA IncreasingAppend ==
  ASSUME NEW s \in Seq(Int), NEW x \in Int
  PROVE  /\ Increasing(s) /\ (\A y \in ToSet(s) : y < x) => Increasing(Append(s, x))
         /\ Decreasing(s) /\ (\A y \in ToSet(s) : x < y) => Decreasing(Append(s, x))
<1>1. /\ DOMAIN Append(s, x) = 1 .. Len(s) + 1 /\ Append(s, x)[Len(s) + 1] = x
      /\ \A i \in 1 .. Len(s) : Append(s, x)[i] = s[i]
      /\ Len(s) \in Nat /\ DOMAIN s = 1 .. Len(s)
  BY AppendFacts
<1>2. \A i \in 1 .. Len(s) : s[i] \in ToSet(s)
  BY <1>1, MembersFacts
<1> DEFINE e == Append(s, x)
<1>3. \A i, j \in 1 .. Len(s) + 1 : i < j => i \in 1 .. Len(s) /\ (j \in 1 .. Len(s) \/ j = Len(s) + 1)
  BY <1>1
<1> HIDE DEF e
<1>4. ASSUME Increasing(s), \A y \in ToSet(s) : y < x PROVE Increasing(e)
  <2>1. \A i, j \in 1 .. Len(s) : i < j => s[i] < s[j]
    BY <1>1, <1>4 DEF Increasing
  <2>2. \A i \in 1 .. Len(s) : s[i] < x
    BY <1>2, <1>4
  <2> QED BY <1>1, <1>3, <2>1, <2>2 DEF Increasing, e
<1>5. ASSUME Decreasing(s), \A y \in ToSet(s) : x < y PROVE Decreasing(e)
  <2>1. \A i, j \in 1 .. Len(s) : i < j => s[j] < s[i]
    BY <1>1, <1>5 DEF Decreasing
  <2>2. \A i \in 1 .. Len(s) : x < s[i]
    BY <1>2, <1>5
  <2> QED BY <1>1, <1>3, <2>1, <2>2 DEF Decreasing, e
<1> QED BY <1>4, <1>5 DEF e

LEMMA IncreasingTail ==
  ASSUME NEW s \in Seq(Int), s # <<>>, Increasing(s)
  PROVE  Increasing(Tail(s)) /\ \A y \in ToSet(Tail(s)) : Head(s) < y
<1>1. /\ Tail(s) \in Seq(Int) /\ Len(Tail(s)) = Len(s) - 1 /\ Len(s) \in Nat /\ Len(s) >= 1
      /\ DOMAIN Tail(s) = 1 .. Len(s) - 1 /\ DOMAIN s = 1 .. Len(s) /\ Head(s) = s[1]
      /\ \A i \in 1 .. Len(s) - 1 : Tail(s)[i] = s[i + 1]
  OBVIOUS
<1>2. \A i, j \in 1 .. Len(s) : i < j => s[i] < s[j]
  BY <1>1 DEF Increasing
<1> DEFINE t == Tail(s)
<1> HIDE DEF t
<1>3. \A i \in 1 .. Len(s) - 1 : i + 1 \in 1 .. Len(s) /\ 1 < i + 1 /\ 1 \in 1 .. Len(s)
  BY <1>1
<1>4. Increasing(t)
  <2> SUFFICES ASSUME NEW i \in 1 .. Len(s) - 1, NEW j \in 1 .. Len(s) - 1, i < j
               PROVE  t[i] < t[j]
    BY <1>1 DEF Increasing, t
  <2>1. i + 1 < j + 1 /\ i + 1 \in 1 .. Len(s) /\ j + 1 \in 1 .. Len(s)
    BY <1>1
  <2>2. t[i] = s[i + 1] /\ t[j] = s[j + 1]
    BY <1>1 DEF t
  <2> QED BY <1>2, <2>1, <2>2
<1>5. ASSUME NEW y \in ToSet(t) PROVE Head(s) < y
  <2>1. t \in Seq(Int) /\ Len(t) = Len(s) - 1
    BY <1>1 DEF t
  <2>2. PICK i \in 1 .. Len(s) - 1 : t[i] = y
    BY <1>5, <2>1, MembersFacts
  <2>3. y = s[i + 1]
    BY <1>1, <2>2 DEF t
  <2> QED BY <1>1, <1>2, <1>3, <2>3
<1> QED BY <1>4, <1>5 DEF t

LEMMA IncreasingSelect ==
  ASSUME NEW s \in Seq(Int), NEW S, Increasing(s)
  PROVE  Increasing(Select(s, S))
<1>1. PICK kept : Keeps(kept, s, S, Int)
  BY SelectDef
<1>2. DOMAIN s = 1 .. Len(s) /\ Len(s) \in Nat /\ \A i \in 1 .. Len(s) : s[i] \in Int
  OBVIOUS
<1>3. \A i, j \in 1 .. Len(s) : i < j => s[i] < s[j]
  BY <1>2 DEF Increasing
<1> DEFINE Good(i) == /\ Increasing(kept[i])
                      /\ \A y \in ToSet(kept[i]) : \E j \in 1 .. i : y = s[j]
           A == {i \in 0 .. Len(s) : Good(i)}
<1>4. 0 \in A
  <2>1. kept[0] = <<>>
    BY <1>1 DEF Keeps
  <2>2. Increasing(<<>>) /\ ToSet(<<>>) = {}
    BY DEF Increasing, ToSet
  <2> QED BY <1>2, <2>1, <2>2
<1>5. ASSUME NEW i \in A, i < Len(s) PROVE i + 1 \in A
  <2>1. i \in Nat /\ i + 1 \in 1 .. Len(s) /\ i \in 0 .. Len(s) /\ (i + 1) - 1 = i /\ i + 1 \in 0 .. Len(s)
    BY <1>2, <1>5
  <2> DEFINE k == kept[i]
             x == s[i + 1]
  <2>2. k \in Seq(Int) /\ x \in Int
    BY <1>1, <1>2, <2>1 DEF Keeps
  <2>3. kept[i + 1] = IF x \in S THEN Append(k, x) ELSE k
    BY <1>1, <2>1 DEF Keeps
  <2>4. Increasing(k) /\ \A y \in ToSet(k) : \E j \in 1 .. i : y = s[j]
    BY <1>5
  <2>5. \A j \in 1 .. i : j \in 1 .. i + 1 /\ j < i + 1 /\ j \in 1 .. Len(s)
    BY <1>2, <2>1
  <2>6. \A y \in ToSet(k) : y < x
    BY <1>3, <2>1, <2>4, <2>5
  <2>7. i + 1 \in 1 .. i + 1
    BY <2>1
  <2>8. Good(i + 1)
    <3> HIDE DEF k
    <3>1. CASE x \in S
      <4>1. Increasing(Append(k, x))
        BY <2>2, <2>4, <2>6, IncreasingAppend
      <4>2. ToSet(Append(k, x)) = ToSet(k) \cup {x}
        BY <2>2, SetOfAppend
      <4>3. \A y \in ToSet(Append(k, x)) : \E j \in 1 .. i + 1 : y = s[j]
        BY <2>4, <2>5, <2>7, <4>2
      <4> QED BY <2>3, <3>1, <4>1, <4>3
    <3>2. CASE x \notin S
      BY <2>3, <2>4, <2>5, <3>2
    <3> QED BY <3>1, <3>2
  <2> HIDE DEF Good
  <2> QED BY <2>1, <2>8
<1>6. Len(s) \in A
  <2>1. A \in SUBSET (0 .. Len(s))
    OBVIOUS
  <2> HIDE DEF A
  <2>2. A = 0 .. Len(s)
    BY <1>2, <1>4, <1>5, <2>1, UpToInductive
  <2> QED BY <1>2, <2>2
<1> QED BY <1>1, <1>6 DEF Keeps

LEMMA IncreasingExtend ==
  ASSUME NEW p \in Seq(Int), NEW q \in Seq(Int), Decreasing(p), Increasing(q),
         \A x \in ToSet(p), y \in ToSet(q) : x < y
  PROVE  Increasing(Reverse(p) \o q)
<1> DEFINE e == Reverse(p) \o q
<1>1. /\ e \in Seq(Int) /\ DOMAIN e = 1 .. Len(p) + Len(q)
      /\ \A i \in 1 .. Len(p) : e[i] = p[(Len(p) - i) + 1] /\ (Len(p) - i) + 1 \in 1 .. Len(p)
      /\ \A i \in 1 .. Len(p) + Len(q) : i > Len(p) => e[i] = q[i - Len(p)] /\ i - Len(p) \in 1 .. Len(q)
  BY ExtendFacts
<1>2. /\ Len(p) \in Nat /\ Len(q) \in Nat /\ DOMAIN p = 1 .. Len(p) /\ DOMAIN q = 1 .. Len(q)
      /\ \A i \in 1 .. Len(p) : p[i] \in ToSet(p)
      /\ \A i \in 1 .. Len(q) : q[i] \in ToSet(q)
  BY MembersFacts
<1>3. /\ \A i, j \in 1 .. Len(p) : i < j => p[j] < p[i]
      /\ \A i, j \in 1 .. Len(q) : i < j => q[i] < q[j]
  BY <1>2 DEF Increasing, Decreasing
<1> HIDE DEF e
<1> SUFFICES ASSUME NEW i \in 1 .. Len(p) + Len(q), NEW j \in 1 .. Len(p) + Len(q), i < j
             PROVE  e[i] < e[j]
  BY <1>1 DEF Increasing, e
<1>4. CASE j <= Len(p)
  <2>1. i \in 1 .. Len(p) /\ j \in 1 .. Len(p) /\ (Len(p) - j) + 1 < (Len(p) - i) + 1
    BY <1>2, <1>4
  <2> QED BY <1>1, <1>3, <2>1
<1>5. CASE i > Len(p)
  <2>1. j > Len(p) /\ i - Len(p) < j - Len(p)
    BY <1>2, <1>5
  <2> QED BY <1>1, <1>3, <1>5, <2>1
<1>6. CASE i <= Len(p) /\ j > Len(p)
  <2>1. i \in 1 .. Len(p)
    BY <1>2, <1>6
  <2>2. e[i] \in ToSet(p) /\ e[j] \in ToSet(q)
    BY <1>1, <1>2, <1>6, <2>1
  <2> QED BY <2>2
<1> QED BY <1>2, <1>4, <1>5, <1>6

\* Select of a sequence with one more element.
LEMMA SelectAppend ==
  ASSUME NEW T, NEW s \in Seq(T), NEW x \in T, NEW S
  PROVE  Select(Append(s, x), S) = IF x \in S THEN Append(Select(s, S), x) ELSE Select(s, S)
<1> DEFINE n == Len(s)
           t == Append(s, x)
<1>1. t \in Seq(T) /\ Len(t) = n + 1 /\ n \in Nat /\ t[n + 1] = x /\ \A i \in 1 .. n : t[i] = s[i]
  BY AppendFacts
<1> HIDE DEF t
<1>2. PICK k : Keeps(k, s, S, T)
  BY SelectDef
<1>3. PICK h : Keeps(h, t, S, T)
  BY <1>1, SelectDef
<1> DEFINE A == {i \in 0 .. n : h[i] = k[i]}
<1>4. 0 \in A
  BY <1>1, <1>2, <1>3 DEF Keeps
<1>5. ASSUME NEW i \in A, i < n PROVE i + 1 \in A
  <2>1. i + 1 \in 1 .. n /\ i + 1 \in 1 .. n + 1 /\ (i + 1) - 1 = i /\ i + 1 \in 0 .. n
    BY <1>1, <1>5
  <2>2. h[i + 1] = IF t[i + 1] \in S THEN Append(h[i], t[i + 1]) ELSE h[i]
    BY <1>1, <1>3, <2>1 DEF Keeps
  <2>3. k[i + 1] = IF s[i + 1] \in S THEN Append(k[i], s[i + 1]) ELSE k[i]
    BY <1>2, <2>1 DEF Keeps
  <2>4. t[i + 1] = s[i + 1] /\ h[i] = k[i]
    BY <1>1, <1>5, <2>1
  <2> QED BY <2>1, <2>2, <2>3, <2>4
<1>6. h[n] = k[n]
  <2>1. A \in SUBSET (0 .. n)
    OBVIOUS
  <2> HIDE DEF A
  <2>2. A = 0 .. n
    BY <1>1, <1>4, <1>5, <2>1, UpToInductive
  <2>3. n \in A
    BY <1>1, <2>2
  <2> QED BY <2>3 DEF A
<1>7. h[n + 1] = IF x \in S THEN Append(h[n], x) ELSE h[n]
  <2>1. n + 1 \in 1 .. n + 1 /\ (n + 1) - 1 = n
    BY <1>1
  <2> QED BY <1>1, <1>3, <2>1 DEF Keeps
<1>8. Select(t, S) = h[n + 1] /\ Select(s, S) = k[n]
  BY <1>1, <1>2, <1>3 DEF Keeps
<1> QED BY <1>6, <1>7, <1>8 DEF t

LEMMA SelectOfNone == \A S : Select(<<>>, S) = <<>>
<1> TAKE S
<1>1. <<>> \in Seq({}) /\ Len(<<>>) = 0
  OBVIOUS
<1>2. Select(<<>>, S) \in Seq({}) /\ Len(Select(<<>>, S)) <= 0
  BY <1>1, SelectFacts
<1> QED BY <1>2

\* One queue behind another.
LEMMA ConcatFacts ==
  ASSUME NEW T, NEW p \in Seq(T), NEW q \in Seq(T)
  PROVE  /\ p \o q \in Seq(T) /\ ToSet(p \o q) = ToSet(p) \cup ToSet(q)
         /\ IsInjective(p) /\ IsInjective(q) /\ ToSet(p) \cap ToSet(q) = {} => IsInjective(p \o q)
<1> DEFINE e == p \o q
           m == Len(p)
           n == Len(q)
<1>1. /\ e \in Seq(T) /\ m \in Nat /\ n \in Nat
      /\ DOMAIN e = 1 .. m + n /\ DOMAIN p = 1 .. m /\ DOMAIN q = 1 .. n
      /\ \A i \in 1 .. m : e[i] = p[i] /\ i \in 1 .. m + n
      /\ \A i \in 1 .. m + n : i > m => e[i] = q[i - m] /\ i - m \in 1 .. n
      /\ \A i \in 1 .. n : e[i + m] = q[i] /\ i + m \in 1 .. m + n
  OBVIOUS
<1> HIDE DEF e, m, n
<1>2. /\ \A x : x \in ToSet(p) <=> \E i \in 1 .. m : p[i] = x
      /\ \A x : x \in ToSet(q) <=> \E i \in 1 .. n : q[i] = x
      /\ \A x : x \in ToSet(e) <=> \E i \in 1 .. m + n : e[i] = x
  BY <1>1, Zenon DEF ToSet
<1>3. ASSUME NEW i \in 1 .. m + n
      PROVE  i \in 1 .. m \/ i > m
  BY <1>1
<1>4. ASSUME NEW x \in ToSet(e) PROVE x \in ToSet(p) \cup ToSet(q)
  BY <1>1, <1>2, <1>3, <1>4
<1>5. ASSUME NEW x \in ToSet(p) PROVE x \in ToSet(e)
  BY <1>1, <1>2, <1>5
<1>6. ASSUME NEW x \in ToSet(q) PROVE x \in ToSet(e)
  BY <1>1, <1>2, <1>6
<1>7. ASSUME IsInjective(p), IsInjective(q), ToSet(p) \cap ToSet(q) = {},
             NEW i \in 1 .. m + n, NEW j \in 1 .. m + n, e[i] = e[j]
      PROVE  i = j
  <2>1. \A a, b \in 1 .. m : p[a] = p[b] => a = b
    BY <1>1, <1>7 DEF IsInjective
  <2>2. \A a, b \in 1 .. n : q[a] = q[b] => a = b
    BY <1>1, <1>7 DEF IsInjective
  <2>3. CASE i > m /\ j > m
    <3>1. i - m = j - m
      <4>1. e[i] = q[i - m] /\ i - m \in 1 .. n /\ e[j] = q[j - m] /\ j - m \in 1 .. n
        BY <1>1, <2>3
      <4> QED BY <1>7, <2>2, <4>1
    <3> QED BY <1>1, <3>1
  <2>4. CASE i \in 1 .. m /\ j \in 1 .. m
    BY <1>1, <1>7, <2>1, <2>4, Zenon
  <2>5. CASE (i > m /\ j \in 1 .. m) \/ (j > m /\ i \in 1 .. m)
    <3>1. \E x : x \in ToSet(p) /\ x \in ToSet(q)
      BY <1>1, <1>2, <1>7, <2>5
    <3> QED BY <1>7, <3>1
  <2> QED BY <1>3, <2>3, <2>4, <2>5
<1>8. IsInjective(p) /\ IsInjective(q) /\ ToSet(p) \cap ToSet(q) = {} => IsInjective(e)
  BY <1>1, <1>7 DEF IsInjective
<1> QED BY <1>1, <1>4, <1>5, <1>6, <1>8 DEF e

-----------------------------------------------------------------------------
\* OneOfEach.

\* What OneOfEach has chosen of the first sets.
Chooses(chosen, sets, U) ==
  /\ chosen \in [0 .. Len(sets) -> SUBSET Seq(U)]
  /\ chosen[0] = {<<>>}
  /\ \A i \in 1 .. Len(sets) : chosen[i] = {Append(c, x) : c \in chosen[i - 1], x \in sets[i]}
  /\ OneOfEach(sets) = chosen[Len(sets)]

\* OneOfEach meets its recursion.
LEMMA OneOfEachDef ==
  ASSUME NEW U, NEW sets \in Seq(SUBSET U)
  PROVE  \E chosen : Chooses(chosen, sets, U)
<1> DEFINE n == Len(sets)
           V == SUBSET Seq(U)
           Longer(C, i) == {Append(c, x) : c \in C, x \in sets[i]}
           G == [y \in V \X (1 .. n) |-> Longer(y[1], y[2])]
           Is(f) == f = [i \in 0 .. Len(sets) |->
                            IF i = 0 THEN {<<>>} ELSE Longer(f[i - 1], i)]
<1>1. n \in Nat /\ {<<>>} \in V
  OBVIOUS
<1>2. \A C \in V, i \in 1 .. n : Longer(C, i) \in V
  <2> TAKE C \in V, i \in 1 .. n
  <2>1. sets[i] \in SUBSET U
    OBVIOUS
  <2>2. \A c \in C, x \in sets[i] : Append(c, x) \in Seq(U)
    BY <2>1
  <2> QED BY <2>2
<1> HIDE DEF Longer
<1>3. PICK f : RunsBy(f, n, V, {<<>>}, G)
  <2>1. StepFunction(G, n, V)
    <3> HIDE DEF V
    <3> QED BY <1>2 DEF StepFunction
  <2> HIDE DEF G, V, n
  <2> QED BY <1>1, <2>1, RecursionExists
<1>4. \A i \in 1 .. n : f[i] = Longer(f[i - 1], i)
  <2> TAKE i \in 1 .. n
  <2>1. i - 1 \in 0 .. n /\ f[i - 1] \in V
    <3> HIDE DEF V
    <3> QED BY <1>1, <1>3, SMTT(30) DEF RunsBy
  <2> HIDE DEF V
  <2> QED BY <1>3, <2>1 DEF RunsBy
<1>5. Is(f)
  <2> DEFINE body(i) == IF i = 0 THEN {<<>>} ELSE Longer(f[i - 1], i)
  <2>1. \A i \in 0 .. n : f[i] = body(i)
    <3> TAKE i \in 0 .. n
    <3>1. i = 0 \/ i \in 1 .. n
      BY <1>1
    <3> QED BY <1>3, <1>4, <3>1 DEF RunsBy
  <2>2. f = [i \in 0 .. n |-> f[i]]
    BY <1>3 DEF RunsBy
  <2> HIDE DEF body, n
  <2>3. f = [i \in 0 .. n |-> body(i)]
    BY <2>1, <2>2
  <2> QED BY <2>3 DEF body, n
<1>6. Is(CHOOSE g : Is(g))
  BY <1>5
<1> DEFINE g == CHOOSE g : Is(g)
<1>7. OneOfEach(sets) = g[Len(sets)]
  BY DEF OneOfEach, Longer
<1> HIDE DEF g
<1>8. Is(g)
  BY <1>6 DEF g
<1>9. g = f
  <2> DEFINE A == {m \in Nat : m <= n => g[m] = f[m]}
  <2>1. DOMAIN g = 0 .. n
    BY <1>8
  <2>2. 0 \in A
    BY <1>1, <1>3, <1>8 DEF RunsBy
  <2>3. ASSUME NEW m \in A PROVE m + 1 \in A
    <3>1. CASE m + 1 <= n
      <4>1. m + 1 \in 1 .. n /\ (m + 1) - 1 = m /\ m <= n
        BY <1>1, <3>1
      <4>2. g[m + 1] = Longer(g[m], m + 1)
        <5>1. m + 1 \in 0 .. Len(sets) /\ m + 1 # 0
          BY <1>1, <4>1
        <5>2. g[m + 1] = IF m + 1 = 0 THEN {<<>>} ELSE Longer(g[(m + 1) - 1], m + 1)
          BY <1>8, <5>1
        <5> QED BY <4>1, <5>1, <5>2
      <4>3. f[m + 1] = Longer(f[m], m + 1)
        <5> QED BY <1>4, <4>1
      <4> QED BY <2>3, <4>1, <4>2, <4>3
    <3> QED BY <3>1
  <2>4. A = Nat
    <3> HIDE DEF A
    <3>1. A \subseteq Nat BY DEF A
    <3> QED BY <2>2, <2>3, <3>1, NatIsInductive
  <2>5. \A i \in 0 .. n : g[i] = f[i]
    <3> TAKE i \in 0 .. n
    <3>1. i \in A /\ i <= n
      BY <1>1, <2>4
    <3> QED BY <3>1
  <2>6. g = [i \in 0 .. n |-> g[i]] /\ f = [i \in 0 .. n |-> f[i]]
    <3>1. g = [i \in 0 .. n |-> g[i]]
      BY <1>8
    <3> QED BY <1>3, <3>1 DEF RunsBy
  <2> HIDE DEF n, Is
  <2> QED BY <2>5, <2>6
<1>10. \A i \in 1 .. n : f[i] = {Append(c, x) : c \in f[i - 1], x \in sets[i]}
  BY <1>4 DEF Longer
<1> HIDE DEF G
<1> QED BY <1>3, <1>10, <1>7, <1>9 DEF RunsBy, Chooses

\* A member of OneOfEach(sets) has a member of each set at its place.
LEMMA OneOfEachFacts ==
  ASSUME NEW U, NEW sets \in Seq(SUBSET U), NEW c \in OneOfEach(sets)
  PROVE  /\ c \in Seq(U) /\ Len(c) = Len(sets)
         /\ \A i \in 1 .. Len(sets) : c[i] \in sets[i]
<1> DEFINE n == Len(sets)
<1>1. PICK chosen : Chooses(chosen, sets, U)
  BY OneOfEachDef
<1> DEFINE Fits(i) == \A d \in chosen[i] : Len(d) = i /\ \A j \in 1 .. i : d[j] \in sets[j]
           A == {i \in 0 .. n : Fits(i)}
<1>2. n \in Nat /\ A \in SUBSET (0 .. n)
  OBVIOUS
<1>3. 0 \in A
  BY <1>1 DEF Chooses
<1>4. ASSUME NEW i \in A, i < n PROVE i + 1 \in A
  <2>1. i + 1 \in 1 .. n /\ (i + 1) - 1 = i /\ i \in 0 .. n /\ i \in Nat /\ Fits(i)
    BY <1>2, <1>4
  <2>2. chosen[i + 1] = {Append(d, x) : d \in chosen[i], x \in sets[i + 1]}
    BY <1>1, <2>1 DEF Chooses
  <2>3. chosen[i] \subseteq Seq(U) /\ sets[i + 1] \subseteq U
    BY <1>1, <2>1 DEF Chooses
  <2>4. ASSUME NEW d \in chosen[i], NEW x \in sets[i + 1]
        PROVE  /\ Len(Append(d, x)) = i + 1
               /\ \A j \in 1 .. i + 1 : Append(d, x)[j] \in sets[j]
    <3>1. d \in Seq(U) /\ Len(d) = i /\ x \in U
      BY <2>1, <2>3
    <3>2. \A j \in 1 .. i : Append(d, x)[j] = d[j] /\ d[j] \in sets[j]
      BY <2>1, <3>1, AppendFacts
    <3>3. Append(d, x)[i + 1] = x /\ Len(Append(d, x)) = i + 1
      BY <3>1, AppendFacts
    <3> HIDE DEF n
    <3> QED BY <2>1, <3>2, <3>3, Intervals
  <2>5. Fits(i + 1)
    BY <2>2, <2>4
  <2> QED BY <2>1, <2>5
<1>5. n \in A
  <2> HIDE DEF A
  <2>1. A = 0 .. n
    BY <1>2, <1>3, <1>4, UpToInductive
  <2> QED BY <1>2, <2>1
<1>6. c \in chosen[n] /\ chosen[n] \subseteq Seq(U)
  BY <1>1, <1>2 DEF Chooses
<1> QED BY <1>5, <1>6

-----------------------------------------------------------------------------
\* When the members of s that are in S come first, Select returns them.
LEMMA SelectFirst ==
  ASSUME NEW T, NEW s \in Seq(T), NEW S, NEW n \in 0 .. Len(s),
         \A i \in 1 .. n : s[i] \in S,
         \A i \in n + 1 .. Len(s) : s[i] \notin S
  PROVE  Select(s, S) = SubSeq(s, 1, n)
<1>1. PICK kept : Keeps(kept, s, S, T)
  BY SelectDef
<1> DEFINE First(i) == IF i <= n THEN SubSeq(s, 1, i) ELSE SubSeq(s, 1, n)
           A == {i \in 0 .. Len(s) : kept[i] = First(i)}
<1>2. Len(s) \in Nat /\ A \in SUBSET (0 .. Len(s)) /\ n \in Nat
  OBVIOUS
<1>3. 0 \in A
  <2>1. First(0) = <<>>
    BY <1>2
  <2> QED BY <1>1, <1>2, <2>1 DEF Keeps
<1>4. ASSUME NEW i \in A, i < Len(s) PROVE i + 1 \in A
  <2>1. i + 1 \in 1 .. Len(s) /\ (i + 1) - 1 = i /\ i \in Nat /\ kept[i] = First(i)
    BY <1>2, <1>4
  <2>2. kept[i + 1] = IF s[i + 1] \in S THEN Append(kept[i], s[i + 1]) ELSE kept[i]
    BY <1>1, <2>1 DEF Keeps
  <2>3. CASE i + 1 <= n
    <3>1. kept[i + 1] = Append(SubSeq(s, 1, i), s[i + 1]) /\ i <= n /\ i + 1 \in 1 .. n
      BY <1>2, <2>1, <2>2, <2>3
    <3>2. Append(SubSeq(s, 1, i), s[i + 1]) = SubSeq(s, 1, i + 1)
      BY <2>1
    <3>3. kept[i + 1] = First(i + 1)
      BY <2>3, <3>1, <3>2
    <3> HIDE DEF First
    <3> QED BY <2>1, <3>3
  <2>4. CASE ~(i + 1 <= n)
    <3>1. i + 1 \in n + 1 .. Len(s) /\ (i <= n => i = n)
      BY <1>2, <2>1, <2>4
    <3>2. kept[i + 1] = First(i + 1)
      BY <2>1, <2>2, <2>4, <3>1
    <3> HIDE DEF First
    <3> QED BY <2>1, <3>2
  <2> QED BY <2>3, <2>4
<1>5. Len(s) \in A
  <2> HIDE DEF A
  <2>1. A = 0 .. Len(s)
    BY <1>2, <1>3, <1>4, UpToInductive
  <2> QED BY <1>2, <2>1
<1>6. kept[Len(s)] = SubSeq(s, 1, n)
  <2>1. Len(s) <= n => Len(s) = n
    BY <1>2
  <2> QED BY <1>5, <2>1
<1> QED BY <1>1, <1>6 DEF Keeps
=============================================================================
