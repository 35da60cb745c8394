-------------------------- MODULE SpecDecodeProofs --------------------------
(***************************************************************************)
(* Proofs about SpecDecode for every number of requests, every vocabulary, *)
(* every target model and every set of configurations.                     *)
(***************************************************************************)
EXTENDS SpecDecode, ListLemmas, FiniteSetTheorems

USE SpecDecodeAssumption

-----------------------------------------------------------------------------
\* Numbers.

LEMMA DivMod ==
  ASSUME NEW K \in Nat \ {0}, NEW m \in Nat, NEW j \in 0 .. K - 1
  PROVE  (m * K + j) \div K = m /\ ((m * K + j) % K) = j
<1> DEFINE a == m * K + j
           q == a \div K
           r == a % K
<1>1. a \in Nat
  BY MonotoneLeft
<1>2. q \in Nat /\ r \in 0 .. K - 1 /\ a = K * q + r
  BY <1>1
<1>3. K * m \in Nat /\ m * K = K * m
  BY Monotone
<1>4. q <= m
  <2> SUFFICES ASSUME m + 1 <= q PROVE FALSE
    BY <1>2
  <2>1. K * (m + 1) <= K * q /\ K * (m + 1) = K * m + K /\ K * q \in Nat
    BY <1>2, Monotone
  <2> HIDE DEF q, r
  <2> QED BY <1>2, <1>3, <2>1
<1>5. m <= q
  <2> SUFFICES ASSUME q + 1 <= m PROVE FALSE
    BY <1>2
  <2>1. K * (q + 1) <= K * m /\ K * (q + 1) = K * q + K /\ K * q \in Nat
    BY <1>2, Monotone
  <2> HIDE DEF q, r
  <2> QED BY <1>2, <1>3, <2>1
<1>6. q = m
  BY <1>2, <1>4, <1>5
<1> HIDE DEF q, r
<1> QED BY <1>2, <1>3, <1>6 DEF q, r

LEMMA DivModRange ==
  ASSUME NEW K \in Nat \ {0}, NEW n \in Nat, NEW x \in 0 .. n * K - 1
  PROVE  x \div K \in 0 .. n - 1 /\ x % K \in 0 .. K - 1 /\ x = (x \div K) * K + (x % K)
<1> DEFINE q == x \div K
           r == x % K
<1>1. n * K \in Nat /\ n * K = K * n
  BY Monotone
<1>2. x \in Nat /\ q \in Nat /\ r \in 0 .. K - 1 /\ x = K * q + r /\ x < n * K
  <2>1. x \in Nat /\ x < n * K
    BY <1>1
  <2>2. q \in Nat /\ r \in 0 .. K - 1 /\ x = K * q + r
    BY <2>1, SMTT(20)
  <2> HIDE DEF q, r
  <2> QED BY <2>1, <2>2
<1>3. q < n
  <2> SUFFICES ASSUME n <= q PROVE FALSE
    BY <1>2
  <2>1. K * n <= K * q /\ K * q \in Nat
    BY <1>2, Monotone
  <2> HIDE DEF q, r
  <2> QED BY <1>1, <1>2, <2>1
<1>4. K * q = q * K
  BY <1>2
<1> HIDE DEF q, r
<1>5. q \in 0 .. n - 1 /\ r \in 0 .. K - 1 /\ x = q * K + r
  BY <1>2, <1>3, <1>4
<1> QED BY <1>5 DEF q, r


LEMMA AtMostFacts ==
  ASSUME NEW a \in Int, NEW b \in Int
  PROVE  /\ AtMost(a, b) \in Int /\ AtMost(a, b) <= a /\ AtMost(a, b) <= b
         /\ AtMost(a, b) = a \/ AtMost(a, b) = b
BY DEF AtMost

-----------------------------------------------------------------------------
\* Sequences.

LEMMA CutFacts ==
  ASSUME NEW T, NEW s \in Seq(T), NEW n \in 0 .. Len(s)
  PROVE  /\ SubSeq(s, 1, n) \in Seq(T) /\ Len(SubSeq(s, 1, n)) = n
         /\ \A i \in 1 .. n : SubSeq(s, 1, n)[i] = s[i]
         /\ \A m \in 0 .. n : SubSeq(SubSeq(s, 1, n), 1, m) = SubSeq(s, 1, m)
<1>1. SubSeq(s, 1, n) \in Seq(T) /\ Len(SubSeq(s, 1, n)) = n
  OBVIOUS
<1>2. \A i \in 1 .. n : SubSeq(s, 1, n)[i] = s[i]
  OBVIOUS
<1>3. ASSUME NEW m \in 0 .. n
      PROVE  SubSeq(SubSeq(s, 1, n), 1, m) = SubSeq(s, 1, m)
  <2> DEFINE u == SubSeq(SubSeq(s, 1, n), 1, m)
             v == SubSeq(s, 1, m)
  <2>1. u \in Seq(T) /\ v \in Seq(T) /\ Len(u) = m /\ Len(v) = m
    BY <1>1
  <2>2. \A i \in 1 .. m : u[i] = v[i]
    BY <1>1, <1>2
  <2> HIDE DEF u, v
  <2>3. u = v
    BY <2>1, <2>2
  <2> QED BY <2>3 DEF u, v
<1> QED BY <1>1, <1>2, <1>3

LEMMA JoinedFacts ==
  ASSUME NEW T, NEW s \in Seq(T), NEW u \in Seq(T)
  PROVE  /\ s \o u \in Seq(T) /\ Len(s \o u) = Len(s) + Len(u)
         /\ \A i \in 1 .. Len(s) : (s \o u)[i] = s[i]
         /\ \A i \in 1 .. Len(u) : (s \o u)[Len(s) + i] = u[i]
         /\ \A i \in Len(s) + 1 .. Len(s) + Len(u) : (s \o u)[i] = u[i - Len(s)]
OBVIOUS

LEMMA SameSequence ==
  ASSUME NEW T, NEW s \in Seq(T), NEW u \in Seq(T), Len(s) = Len(u),
         \A i \in 1 .. Len(s) : s[i] = u[i]
  PROVE  s = u
OBVIOUS

\* What comes before a place of s \o u.
LEMMA CutOfJoined ==
  ASSUME NEW T, NEW s \in Seq(T), NEW u \in Seq(T)
  PROVE  /\ \A n \in 0 .. Len(s) : SubSeq(s \o u, 1, n) = SubSeq(s, 1, n)
         /\ \A n \in 0 .. Len(u) : SubSeq(s \o u, 1, Len(s) + n) = s \o SubSeq(u, 1, n)
<1>1. ASSUME NEW n \in 0 .. Len(s) PROVE SubSeq(s \o u, 1, n) = SubSeq(s, 1, n)
  <2>1. s \o u \in Seq(T) /\ n \in 0 .. Len(s \o u)
    OBVIOUS
  <2>2. /\ SubSeq(s \o u, 1, n) \in Seq(T) /\ Len(SubSeq(s \o u, 1, n)) = n
        /\ \A i \in 1 .. n : SubSeq(s \o u, 1, n)[i] = (s \o u)[i]
    BY <2>1, CutFacts
  <2>3. \A i \in 1 .. n : (s \o u)[i] = s[i]
    BY JoinedFacts
  <2>4. /\ SubSeq(s, 1, n) \in Seq(T) /\ Len(SubSeq(s, 1, n)) = n
        /\ \A i \in 1 .. n : SubSeq(s, 1, n)[i] = s[i]
    BY CutFacts
  <2> QED BY <2>2, <2>3, <2>4, SameSequence
<1>2. ASSUME NEW n \in 0 .. Len(u)
      PROVE  SubSeq(s \o u, 1, Len(s) + n) = s \o SubSeq(u, 1, n)
  <2> DEFINE a == SubSeq(s \o u, 1, Len(s) + n)
             b == s \o SubSeq(u, 1, n)
  <2>1. s \o u \in Seq(T) /\ Len(s) + n \in 0 .. Len(s \o u)
    OBVIOUS
  <2>2. /\ a \in Seq(T) /\ Len(a) = Len(s) + n
        /\ \A i \in 1 .. Len(s) + n : a[i] = (s \o u)[i]
    BY <2>1, CutFacts
  <2>3. /\ SubSeq(u, 1, n) \in Seq(T) /\ Len(SubSeq(u, 1, n)) = n
        /\ \A i \in 1 .. n : SubSeq(u, 1, n)[i] = u[i]
    BY CutFacts
  <2>4. b \in Seq(T) /\ Len(b) = Len(s) + n
    BY <2>3, JoinedFacts
  <2>5. ASSUME NEW i \in 1 .. Len(s) + n PROVE a[i] = b[i]
    <3>1. CASE i <= Len(s)
      <4>1. i \in 1 .. Len(s) /\ b[i] = s[i]
        BY <2>3, <3>1, JoinedFacts
      <4> QED BY <2>2, <4>1, JoinedFacts
    <3>2. CASE ~(i <= Len(s))
      <4>1. /\ i \in Len(s) + 1 .. Len(s) + n /\ i \in Len(s) + 1 .. Len(s) + Len(u)
            /\ i - Len(s) \in 1 .. n
        BY <3>2
      <4>2. b[i] = SubSeq(u, 1, n)[i - Len(s)]
        BY <2>3, <4>1, JoinedFacts
      <4>3. (s \o u)[i] = u[i - Len(s)]
        BY <4>1, JoinedFacts
      <4> QED BY <2>2, <2>3, <4>1, <4>2, <4>3
    <3> QED BY <3>1, <3>2
  <2> HIDE DEF a, b
  <2>6. a = b
    BY <2>2, <2>4, <2>5, SameSequence
  <2> QED BY <2>6 DEF a, b
<1> QED BY <1>1, <1>2

LEMMA PlaceFacts ==
  ASSUME NEW T, NEW s \in Seq(T)
  PROVE  /\ \A x \in Range(s) : Place(s, x) \in 1 .. Len(s) /\ s[Place(s, x)] = x
         /\ \A i \in 1 .. Len(s) : s[i] \in Range(s)
         /\ IsInjective(s) => \A i \in 1 .. Len(s) : Place(s, s[i]) = i
<1>1. ASSUME NEW x \in Range(s)
      PROVE  Place(s, x) \in 1 .. Len(s) /\ s[Place(s, x)] = x
  <2>1. \E i \in DOMAIN s : s[i] = x
    BY DEF Range
  <2> QED BY <2>1 DEF Place
<1>2. \A i \in 1 .. Len(s) : s[i] \in Range(s)
  BY DEF Range
<1>3. ASSUME IsInjective(s), NEW i \in 1 .. Len(s) PROVE Place(s, s[i]) = i
  <2>1. Place(s, s[i]) \in 1 .. Len(s) /\ s[Place(s, s[i])] = s[i]
    BY <1>1, <1>2
  <2>2. \A a, b \in DOMAIN s : s[a] = s[b] => a = b
    BY <1>3 DEF IsInjective
  <2> QED BY <2>1, <2>2
<1> QED BY <1>1, <1>2, <1>3

-----------------------------------------------------------------------------
\* What a step gives to a request.

Cells == [token : Tokens, context : Seq(Tokens)]
Outputs == Seq(Cells \cup {NoToken})

TypeInv ==
  /\ config \in Configs
  /\ waiting \in Seq(Requests) /\ running \in Seq(Requests)
  /\ out \in [Requests -> Seq(Tokens)]
  /\ given \in [Requests -> Seq(Seq(Tokens))]
  /\ \A r \in Requests : Len(given[r]) = Len(out[r])

\* The first n cells of c, and no others, have a token, each of which the target may
\* give behind the text of r and the tokens of the cells before it.
Good(r, c, n) ==
  /\ c \in Outputs /\ n \in 1 .. Len(c)
  /\ \A j \in 1 .. n :
        /\ c[j] \in Cells
        /\ c[j].token \in Target(r, c[j].context)
        /\ c[j].context = Text(r) \o TokensOf(SubSeq(c, 1, j - 1))
  /\ \A j \in n + 1 .. Len(c) : c[j] = NoToken

LEMMA ParamsFacts ==
  ASSUME config \in Configs, NEW r \in Requests
  PROVE  /\ Prompt(r) \in Seq(Tokens) /\ Len(Prompt(r)) >= 1
         /\ Params(r).max_tokens \in Nat \ {0}
         /\ Params(r).min_tokens \in Nat /\ Params(r).min_tokens <= Params(r).max_tokens
BY DEF Prompt, Params

LEMMA TextFacts ==
  ASSUME TypeInv, NEW r \in Requests
  PROVE  /\ Text(r) \in Seq(Tokens) /\ out[r] \in Seq(Tokens)
         /\ Len(Text(r)) = Len(Prompt(r)) + Len(out[r]) /\ Len(Text(r)) >= 1
BY ParamsFacts DEF TypeInv, Text

LEMMA CellFacts ==
  ASSUME NEW c \in Cells
  PROVE  c # NoToken /\ c.token \in Tokens /\ c.context \in Seq(Tokens)
BY DEF Cells

LEMMA TokensFacts ==
  ASSUME NEW c \in Seq(Cells)
  PROVE  /\ TokensOf(c) \in Seq(Tokens) /\ Len(TokensOf(c)) = Len(c)
         /\ \A i \in 1 .. Len(c) : TokensOf(c)[i] = c[i].token
<1>1. DOMAIN c = 1 .. Len(c) /\ \A i \in 1 .. Len(c) : c[i] \in Cells
  OBVIOUS
<1> QED BY <1>1, CellFacts DEF TokensOf

\* The cells with a token.
LEMMA GoodFacts ==
  ASSUME NEW r, NEW c, NEW n, Good(r, c, n)
  PROVE  \A m \in 0 .. n :
            /\ SubSeq(c, 1, m) \in Seq(Cells) /\ Len(SubSeq(c, 1, m)) = m
            /\ \A j \in 1 .. m : SubSeq(c, 1, m)[j] = c[j]
            /\ \A j \in 0 .. m : SubSeq(SubSeq(c, 1, m), 1, j) = SubSeq(c, 1, j)
<1> TAKE m \in 0 .. n
<1> DEFINE T == Cells \cup {NoToken}
<1>1. c \in Seq(T) /\ m \in 0 .. Len(c) /\ m \in Nat /\ \A j \in 1 .. m : c[j] \in Cells
  BY DEF Good, Outputs
<1>2. /\ SubSeq(c, 1, m) \in Seq(T) /\ Len(SubSeq(c, 1, m)) = m
      /\ \A j \in 1 .. m : SubSeq(c, 1, m)[j] = c[j]
      /\ \A j \in 0 .. m : SubSeq(SubSeq(c, 1, m), 1, j) = SubSeq(c, 1, j)
  BY <1>1, CutFacts
<1>3. SubSeq(c, 1, m) \in Seq(Cells)
  <2> DEFINE u == SubSeq(c, 1, m)
  <2>1. u \in Seq(T) /\ Len(u) = m /\ \A j \in 1 .. Len(u) : u[j] \in Cells
    BY <1>1, <1>2
  <2> HIDE DEF u, T
  <2>2. u \in Seq(Cells)
    BY <2>1
  <2> QED BY <2>2 DEF u
<1> QED BY <1>2, <1>3

\* Of the cells with a token a request is given the first ones, at least one, up to
\* the first that stops it.
LEMMA AppendedFacts ==
  ASSUME TypeInv, NEW r \in Requests, NEW c, NEW n, Good(r, c, n),
         Len(out[r]) < Params(r).max_tokens
  PROVE  /\ Valid(c) = SubSeq(c, 1, n) /\ Valid(c) # <<>>
         /\ \E a \in 1 .. n :
               /\ Appended(r, c) = SubSeq(c, 1, a)
               /\ \A j \in 1 .. a - 1 : ~Stops(r, out[r] \o TokensOf(SubSeq(c, 1, j)))
<1> DEFINE T == Cells \cup {NoToken}
           Cut(m) == SubSeq(c, 1, m)
<1>1. /\ c \in Seq(T) /\ n \in 1 .. Len(c) /\ n \in Nat
      /\ \A j \in 1 .. n : c[j] \in Cells
      /\ \A j \in n + 1 .. Len(c) : c[j] = NoToken
  BY DEF Good, Outputs
<1>2. \A m \in 0 .. n :
         /\ Cut(m) \in Seq(Cells) /\ Len(Cut(m)) = m /\ DOMAIN Cut(m) = 1 .. m
         /\ \A j \in 0 .. m : SubSeq(Cut(m), 1, j) = Cut(j)
  BY GoodFacts
<1>3. Valid(c) = Cut(n)
  <2> DEFINE S == Range(c) \ {NoToken}
  <2>1. \A j \in 1 .. n : c[j] \in S
    BY <1>1, CellFacts DEF Range
  <2>2. \A j \in n + 1 .. Len(c) : c[j] \notin S
    BY <1>1
  <2>3. n \in 0 .. Len(c)
    BY <1>1
  <2> HIDE DEF S, T
  <2>4. Select(c, S) = SubSeq(c, 1, n)
    BY <1>1, <2>1, <2>2, <2>3, SelectFirst
  <2> QED BY <2>4 DEF Valid, S
<1>4. Valid(c) # <<>>
  <2>1. Len(Cut(n)) = n /\ n >= 1
    BY <1>1, <1>2
  <2> HIDE DEF Cut
  <2> QED BY <1>3, <2>1
<1>5. PICK n1 \in 1 .. n : CutToMaxTokens(r, Cut(n)) = Cut(n1)
  <2> DEFINE m == Params(r).max_tokens - Len(out[r])
  <2>1. m \in Nat /\ m >= 1
    BY ParamsFacts, TextFacts DEF TypeInv
  <2>2. AtMost(n, m) \in 1 .. n
    <3>1. n \in Int /\ n >= 1 /\ m \in Int /\ m >= 1
      BY <1>1, <2>1
    <3> HIDE DEF m
    <3>2. /\ AtMost(n, m) \in Int /\ AtMost(n, m) <= n
          /\ AtMost(n, m) = n \/ AtMost(n, m) = m
      BY <3>1, AtMostFacts
    <3> QED BY <3>1, <3>2
  <2>3. Len(Cut(n)) = n /\ \A j \in 0 .. n : SubSeq(Cut(n), 1, j) = Cut(j)
    BY <1>1, <1>2
  <2>4. AtMost(n, m) \in 0 .. n
    BY <1>1, <2>2
  <2> HIDE DEF Cut
  <2>5. CutToMaxTokens(r, Cut(n)) = SubSeq(Cut(n), 1, AtMost(n, m))
    BY <2>3 DEF CutToMaxTokens
  <2> HIDE DEF m
  <2> QED BY <2>2, <2>3, <2>4, <2>5
<1> HIDE DEF Cut, T
<1>6. PICK n2 \in 1 .. n1 : CutAfterEos(r, Cut(n1)) = Cut(n2)
  <2>1. /\ n1 \in 0 .. n /\ n1 \in 1 .. n1 /\ n1 \in Nat
        /\ DOMAIN Cut(n1) = 1 .. n1 /\ \A j \in 0 .. n1 : SubSeq(Cut(n1), 1, j) = Cut(j)
    <3>1. n1 \in 0 .. n /\ n1 \in 1 .. n1 /\ n1 \in Nat
      BY <1>1
    <3> QED BY <3>1, <1>2
  <2> DEFINE eos == {j \in DOMAIN Cut(n1) : Cut(n1)[j].token = Eos}
  <2>2. CASE Params(r).ignore_eos \/ eos = {}
    BY <2>1, <2>2 DEF CutAfterEos
  <2>3. CASE ~(Params(r).ignore_eos \/ eos = {})
    <3>1. eos \in SUBSET Nat /\ eos \subseteq 1 .. n1 /\ eos # {}
      BY <2>1, <2>3
    <3>2. CutAfterEos(r, Cut(n1)) = SubSeq(Cut(n1), 1, Min(eos))
      BY <2>3 DEF CutAfterEos
    <3> HIDE DEF eos
    <3>3. Min(eos) \in eos
      BY <3>1, MinFacts
    <3>4. Min(eos) \in 1 .. n1 /\ Min(eos) \in 0 .. n1
      <4>1. Min(eos) \in 1 .. n1
        BY <3>1, <3>3
      <4> QED BY ONLY <2>1, <4>1
    <3> QED BY <2>1, <3>2, <3>4
  <2> QED BY <2>2, <2>3
<1>7. PICK a \in 1 .. n2 :
         /\ UpToStop(r, Cut(n2)) = Cut(a)
         /\ \A j \in 1 .. a - 1 : ~Stops(r, out[r] \o TokensOf(Cut(j)))
  <2>1. /\ n2 \in 1 .. n2 /\ n2 \in Nat
        /\ DOMAIN Cut(n2) = 1 .. n2 /\ \A j \in 0 .. n2 : SubSeq(Cut(n2), 1, j) = Cut(j)
    <3>1. n2 \in 0 .. n /\ n2 \in 1 .. n2 /\ n2 \in Nat
      BY <1>1
    <3> QED BY <3>1, <1>2
  <2> DEFINE stops == {j \in DOMAIN Cut(n2) : Stops(r, out[r] \o TokensOf(SubSeq(Cut(n2), 1, j)))}
  <2>2. /\ stops \in SUBSET Nat /\ stops \subseteq 1 .. n2
        /\ \A j \in 1 .. n2 : j \in stops <=> Stops(r, out[r] \o TokensOf(Cut(j)))
    <3>1. \A j \in 1 .. n2 : j \in 0 .. n2 /\ j \in Nat
      BY <2>1
    <3> QED BY <2>1, <3>1
  <2>3. UpToStop(r, Cut(n2)) =
           IF stops = {} THEN Cut(n2) ELSE SubSeq(Cut(n2), 1, Min(stops))
    BY DEF UpToStop
  <2> HIDE DEF stops
  <2>4. CASE stops = {}
    <3>1. \A j \in 1 .. n2 - 1 : j \in 1 .. n2
      BY <2>1
    <3> QED BY <2>1, <2>2, <2>3, <2>4, <3>1
  <2>5. CASE stops # {}
    <3>1. Min(stops) \in stops /\ \A j \in stops : Min(stops) <= j
      BY <2>2, <2>5, MinFacts
    <3>2. Min(stops) \in 1 .. n2 /\ Min(stops) \in 0 .. n2
      <4>1. Min(stops) \in 1 .. n2
        BY <2>2, <3>1
      <4> HIDE DEF Cut
      <4> QED BY ONLY <2>1, <4>1
    <3>3. \A j \in 1 .. Min(stops) - 1 : j \in 1 .. n2 /\ j \notin stops
      BY <2>1, <3>1, <3>2
    <3> QED BY <2>1, <2>2, <2>3, <2>5, <3>2, <3>3
  <2> QED BY <2>4, <2>5
<1>8. a \in 1 .. n
  BY <1>1
<1> QED BY <1>3, <1>4, <1>5, <1>6, <1>7, <1>8 DEF Appended, Cut

-----------------------------------------------------------------------------
\* The invariant.

\* The cache has the first n tokens of a text.
Covers(kv, text, n) == \A i \in 1 .. n : i \in DOMAIN kv /\ kv[i] = text[i]

QueuesInv ==
  /\ IsInjective(waiting) /\ IsInjective(running)
  /\ Range(waiting) \cap Range(running) = {}

\* Whether speculation is never switched off
NeverOff == config.disable_at > NumRequests

\* All but the last token of what runs are in the caches.
TargetCovered ==
  \A r \in Range(running) : Covers(target_kv[r], Text(r), Len(Text(r)) - 1)
DraftCovered ==
  UsesKv /\ NeverOff =>
    \A r \in Range(running) : Drafted(r) => Covers(draft_kv[r], Text(r), Len(Text(r)) - 1)

IInv ==
  /\ TypeInv /\ QueuesInv
  /\ OutputIsTargets /\ EveryStepEmits
  /\ TargetCovered /\ DraftCovered

-----------------------------------------------------------------------------
\* The output of a request after a step.

LEMMA JoinAssociates ==
  ASSUME NEW T, NEW s \in Seq(T), NEW u \in Seq(T), NEW v \in Seq(T)
  PROVE  (s \o u) \o v = s \o (u \o v)
<1> DEFINE a == (s \o u) \o v
           b == s \o (u \o v)
<1>1. /\ s \o u \in Seq(T) /\ Len(s \o u) = Len(s) + Len(u)
      /\ u \o v \in Seq(T) /\ Len(u \o v) = Len(u) + Len(v)
      /\ a \in Seq(T) /\ Len(a) = Len(s) + Len(u) + Len(v)
      /\ b \in Seq(T) /\ Len(b) = Len(s) + Len(u) + Len(v)
  OBVIOUS
<1>2. ASSUME NEW i \in 1 .. Len(a) PROVE a[i] = b[i]
  <2>1. CASE i <= Len(s)
    BY <1>1, <2>1
  <2>2. CASE i > Len(s) /\ i <= Len(s) + Len(u)
    BY <1>1, <2>2
  <2>3. CASE i > Len(s) + Len(u)
    BY <1>1, <2>3
  <2> QED BY <1>1, <2>1, <2>2, <2>3
<1> HIDE DEF a, b
<1>3. a = b
  BY <1>1, <1>2, SameSequence
<1> QED BY <1>3 DEF a, b

LEMMA TextsJoin ==
  /\ \A s, u, v \in Seq(Tokens) : (s \o u) \o v = s \o (u \o v)
  /\ \A s, u \in Seq(Seq(Tokens)) :
        /\ s \o u \in Seq(Seq(Tokens)) /\ Len(s \o u) = Len(s) + Len(u)
        /\ \A i \in 1 .. Len(s) : (s \o u)[i] = s[i]
        /\ \A i \in 1 .. Len(u) : (s \o u)[Len(s) + i] = u[i]
<1>1. ASSUME NEW s \in Seq(Tokens), NEW u \in Seq(Tokens), NEW v \in Seq(Tokens)
      PROVE  (s \o u) \o v = s \o (u \o v)
  BY JoinAssociates
<1>2. ASSUME NEW s \in Seq(Seq(Tokens)), NEW u \in Seq(Seq(Tokens))
      PROVE  /\ s \o u \in Seq(Seq(Tokens)) /\ Len(s \o u) = Len(s) + Len(u)
             /\ \A i \in 1 .. Len(s) : (s \o u)[i] = s[i]
             /\ \A i \in 1 .. Len(u) : (s \o u)[Len(s) + i] = u[i]
  BY JoinedFacts
<1> QED BY <1>1, <1>2

LEMMA TokensCut ==
  ASSUME NEW c \in Seq(Cells), NEW m \in 0 .. Len(c)
  PROVE  SubSeq(TokensOf(c), 1, m) = TokensOf(SubSeq(c, 1, m))
<1>1. /\ SubSeq(c, 1, m) \in Seq(Cells) /\ Len(SubSeq(c, 1, m)) = m
      /\ \A i \in 1 .. m : SubSeq(c, 1, m)[i] = c[i]
  BY CutFacts
<1>2. /\ TokensOf(c) \in Seq(Tokens) /\ Len(TokensOf(c)) = Len(c)
      /\ \A i \in 1 .. Len(c) : TokensOf(c)[i] = c[i].token
  BY TokensFacts
<1>3. m \in 0 .. Len(TokensOf(c))
  BY <1>2
<1>4. /\ SubSeq(TokensOf(c), 1, m) \in Seq(Tokens) /\ Len(SubSeq(TokensOf(c), 1, m)) = m
      /\ \A i \in 1 .. m : SubSeq(TokensOf(c), 1, m)[i] = TokensOf(c)[i]
  BY <1>2, <1>3, CutFacts
<1>5. /\ TokensOf(SubSeq(c, 1, m)) \in Seq(Tokens) /\ Len(TokensOf(SubSeq(c, 1, m))) = m
      /\ \A i \in 1 .. m : TokensOf(SubSeq(c, 1, m))[i] = SubSeq(c, 1, m)[i].token
  BY <1>1, TokensFacts
<1>6. \A i \in 1 .. m : SubSeq(TokensOf(c), 1, m)[i] = TokensOf(SubSeq(c, 1, m))[i]
  <2> TAKE i \in 1 .. m
  <2>1. i \in 1 .. Len(c)
    OBVIOUS
  <2> QED BY <1>1, <1>2, <1>4, <1>5, <2>1
<1> QED BY <1>4, <1>5, <1>6, SameSequence

\* A request that waits or runs has room for a token.
LEMMA LiveFacts ==
  ASSUME TypeInv, EndsAtFirstStop, NEW r \in Requests,
         r \in Range(waiting) \cup Range(running)
  PROVE  /\ out[r] # <<>> => ~Stops(r, out[r])
         /\ Len(out[r]) < Params(r).max_tokens
<1>1. out[r] # <<>> => ~Stops(r, out[r])
  BY DEF EndsAtFirstStop, Ended
<1> DEFINE M == Params(r).max_tokens
<1>2. /\ M \in Nat \ {0} /\ Params(r).min_tokens \in Nat /\ Params(r).min_tokens <= M
      /\ out[r] \in Seq(Tokens) /\ Len(out[r]) \in Nat
  BY ParamsFacts, TextFacts DEF TypeInv
<1>3. Len(out[r]) # M
  <2> SUFFICES ASSUME Len(out[r]) = M PROVE FALSE
    OBVIOUS
  <2>1. out[r] # <<>> /\ Stops(r, out[r])
    BY <1>2 DEF Stops
  <2> QED BY <1>1, <2>1
<1>4. ~(M < Len(out[r]))
  <2> SUFFICES ASSUME M < Len(out[r]) PROVE FALSE
    OBVIOUS
  <2>1. M \in 1 .. Len(out[r]) - 1 /\ M \in 0 .. Len(out[r])
    BY <1>2
  <2>2. Len(SubSeq(out[r], 1, M)) = M
    BY <1>2, <2>1, CutFacts
  <2>3. Stops(r, SubSeq(out[r], 1, M))
    BY <1>2, <2>2 DEF Stops
  <2> QED BY <2>1, <2>3 DEF EndsAtFirstStop
<1> QED BY <1>1, <1>2, <1>3, <1>4

ContextsOf(c) == [j \in DOMAIN c |-> c[j].context]

LEMMA ContextsFacts ==
  ASSUME NEW c \in Seq(Cells)
  PROVE  /\ ContextsOf(c) \in Seq(Seq(Tokens)) /\ Len(ContextsOf(c)) = Len(c)
         /\ \A i \in 1 .. Len(c) : ContextsOf(c)[i] = c[i].context
<1>1. DOMAIN c = 1 .. Len(c) /\ \A i \in 1 .. Len(c) : c[i] \in Cells
  OBVIOUS
<1> QED BY <1>1, CellFacts DEF ContextsOf

\* With o and g for its output and the contexts of that, a request is served as
\* OutputIsTargets says.
Served(r, o, g) ==
  /\ o \in Seq(Tokens) /\ g \in Seq(Seq(Tokens)) /\ Len(g) = Len(o)
  /\ \A j \in 1 .. Len(o) :
        /\ g[j] = Prompt(r) \o SubSeq(o, 1, j - 1)
        /\ o[j] \in Target(r, g[j])
  /\ \A j \in 1 .. Len(o) - 1 : ~Stops(r, SubSeq(o, 1, j))

LEMMA ServedFacts ==
  ASSUME TypeInv, OutputIsTargets, NEW r \in Requests
  PROVE  Served(r, out[r], given[r])
<1>1. out[r] \in Seq(Tokens) /\ given[r] \in Seq(Seq(Tokens)) /\ Len(given[r]) = Len(out[r])
  BY DEF TypeInv
<1>2. ASSUME NEW j \in 1 .. Len(out[r])
      PROVE  /\ given[r][j] = Prompt(r) \o SubSeq(out[r], 1, j - 1)
             /\ out[r][j] \in Target(r, given[r][j])
  <2>1. j \in DOMAIN out[r]
    BY <1>1
  <2> QED BY <2>1 DEF OutputIsTargets, Lossless
<1>3. \A j \in 1 .. Len(out[r]) - 1 : ~Stops(r, SubSeq(out[r], 1, j))
  BY DEF OutputIsTargets, EndsAtFirstStop
<1> QED BY <1>1, <1>2, <1>3 DEF Served

\* The facts of a joined output, at the set of the model's tokens.
LEMMA OutputsJoin ==
  \A s, u \in Seq(Tokens) :
     /\ s \o u \in Seq(Tokens) /\ Len(s \o u) = Len(s) + Len(u)
     /\ \A i \in 1 .. Len(s) : (s \o u)[i] = s[i]
     /\ \A i \in 1 .. Len(u) : (s \o u)[Len(s) + i] = u[i]
     /\ \A n \in 0 .. Len(s) : SubSeq(s \o u, 1, n) = SubSeq(s, 1, n)
     /\ \A n \in 0 .. Len(u) : SubSeq(s \o u, 1, Len(s) + n) = s \o SubSeq(u, 1, n)
<1> SUFFICES ASSUME NEW s \in Seq(Tokens), NEW u \in Seq(Tokens)
             PROVE  /\ s \o u \in Seq(Tokens) /\ Len(s \o u) = Len(s) + Len(u)
                    /\ \A i \in 1 .. Len(s) : (s \o u)[i] = s[i]
                    /\ \A i \in 1 .. Len(u) : (s \o u)[Len(s) + i] = u[i]
                    /\ \A n \in 0 .. Len(s) : SubSeq(s \o u, 1, n) = SubSeq(s, 1, n)
                    /\ \A n \in 0 .. Len(u) : SubSeq(s \o u, 1, Len(s) + n) = s \o SubSeq(u, 1, n)
  OBVIOUS
<1>1. /\ s \o u \in Seq(Tokens) /\ Len(s \o u) = Len(s) + Len(u)
      /\ \A i \in 1 .. Len(s) : (s \o u)[i] = s[i]
      /\ \A i \in 1 .. Len(u) : (s \o u)[Len(s) + i] = u[i]
  BY JoinedFacts
<1>2. /\ \A n \in 0 .. Len(s) : SubSeq(s \o u, 1, n) = SubSeq(s, 1, n)
      /\ \A n \in 0 .. Len(u) : SubSeq(s \o u, 1, Len(s) + n) = s \o SubSeq(u, 1, n)
  BY CutOfJoined
<1> QED BY ONLY <1>1, <1>2

LEMMA GivenFacts ==
  ASSUME TypeInv, OutputIsTargets, NEW r \in Requests,
         r \in Range(waiting) \cup Range(running),
         NEW c, NEW n, Good(r, c, n), NEW a \in 1 .. n,
         \A j \in 1 .. a - 1 : ~Stops(r, out[r] \o TokensOf(SubSeq(c, 1, j)))
  PROVE  LET more == SubSeq(c, 1, a)
         IN  /\ Served(r, out[r] \o TokensOf(more), given[r] \o ContextsOf(more))
             /\ Len(out[r] \o TokensOf(more)) = Len(out[r]) + a
             /\ Prompt(r) \o (out[r] \o TokensOf(more)) = Text(r) \o TokensOf(more)
<1> DEFINE more == SubSeq(c, 1, a)
           new == TokensOf(more)
           o == out[r] \o new
           g == given[r] \o ContextsOf(more)
           L == Len(out[r])
<1>1. /\ out[r] \in Seq(Tokens) /\ given[r] \in Seq(Seq(Tokens)) /\ Len(given[r]) = L
      /\ Prompt(r) \in Seq(Tokens) /\ L \in Nat /\ n \in Nat /\ a \in Nat
  BY ParamsFacts DEF TypeInv, Good
<1>2. /\ more \in Seq(Cells) /\ Len(more) = a
      /\ \A j \in 1 .. a : more[j] = c[j]
      /\ \A j \in 0 .. a : SubSeq(more, 1, j) = SubSeq(c, 1, j)
  <2>1. a \in 0 .. n
    BY <1>1
  <2> QED BY <2>1, GoodFacts
<1>3. /\ new \in Seq(Tokens) /\ Len(new) = a /\ \A j \in 1 .. a : new[j] = more[j].token
      /\ \A j \in 0 .. a : SubSeq(new, 1, j) = TokensOf(SubSeq(c, 1, j))
  <2> HIDE DEF more
  <2>1. new \in Seq(Tokens) /\ Len(new) = a /\ \A j \in 1 .. a : new[j] = more[j].token
    BY <1>2, TokensFacts
  <2>2. \A j \in 0 .. a : SubSeq(new, 1, j) = TokensOf(SubSeq(more, 1, j))
    BY <1>2, TokensCut
  <2> QED BY <1>2, <2>1, <2>2
<1>4. /\ ContextsOf(more) \in Seq(Seq(Tokens)) /\ Len(ContextsOf(more)) = a
      /\ \A j \in 1 .. a : ContextsOf(more)[j] = more[j].context
  <2> HIDE DEF more
  <2> QED BY <1>2, ContextsFacts
<1> HIDE DEF more, new
<1>5. /\ o \in Seq(Tokens) /\ Len(o) = L + a
      /\ \A j \in 1 .. L : o[j] = out[r][j]
      /\ \A j \in 1 .. a : o[L + j] = new[j]
      /\ \A j \in 0 .. L : SubSeq(o, 1, j) = SubSeq(out[r], 1, j)
      /\ \A j \in 0 .. a : SubSeq(o, 1, L + j) = out[r] \o SubSeq(new, 1, j)
  <2> DEFINE old == out[r]
  <2>1. old \in Seq(Tokens) /\ new \in Seq(Tokens) /\ L = Len(old) /\ Len(new) = a
    BY <1>1, <1>3
  <2> HIDE DEF old, L
  <2>2. /\ old \o new \in Seq(Tokens) /\ Len(old \o new) = Len(old) + Len(new)
        /\ \A j \in 1 .. Len(old) : (old \o new)[j] = old[j]
        /\ \A j \in 1 .. Len(new) : (old \o new)[Len(old) + j] = new[j]
        /\ \A j \in 0 .. Len(old) : SubSeq(old \o new, 1, j) = SubSeq(old, 1, j)
        /\ \A j \in 0 .. Len(new) : SubSeq(old \o new, 1, Len(old) + j) = old \o SubSeq(new, 1, j)
    BY ONLY <2>1, OutputsJoin, Zenon
  <2>3. o = old \o new
    BY DEF old
  <2> HIDE DEF o
  <2> QED BY <2>1, <2>2, <2>3 DEF old
<1>6. /\ g \in Seq(Seq(Tokens)) /\ Len(g) = L + a
      /\ \A j \in 1 .. L : g[j] = given[r][j]
      /\ \A j \in 1 .. a : g[L + j] = ContextsOf(more)[j]
  <2> DEFINE x == ContextsOf(more)
  <2> HIDE DEF x
  <2>1. given[r] \in Seq(Seq(Tokens)) /\ x \in Seq(Seq(Tokens)) /\ L = Len(given[r]) /\ Len(x) = a
    BY <1>1, <1>4 DEF x
  <2>2. /\ given[r] \o x \in Seq(Seq(Tokens)) /\ Len(given[r] \o x) = Len(given[r]) + Len(x)
        /\ \A j \in 1 .. Len(given[r]) : (given[r] \o x)[j] = given[r][j]
        /\ \A j \in 1 .. Len(x) : (given[r] \o x)[Len(given[r]) + j] = x[j]
    BY ONLY <2>1, TextsJoin
  <2> HIDE DEF L
  <2> QED BY <2>1, <2>2 DEF x
<1>7. Served(r, out[r], given[r])
  BY ServedFacts
<1>8. Text(r) = Prompt(r) \o out[r]
  BY DEF Text
<1>9. Prompt(r) \o o = Text(r) \o new
  <2>1. (Prompt(r) \o out[r]) \o new = Prompt(r) \o (out[r] \o new)
    BY ONLY <1>1, <1>3, TextsJoin
  <2> QED BY <1>8, <2>1
<1> HIDE DEF o, g
<1>10. ASSUME NEW j \in 1 .. L + a
       PROVE  g[j] = Prompt(r) \o SubSeq(o, 1, j - 1) /\ o[j] \in Target(r, g[j])
  <2>1. CASE j <= L
    <3>1. j \in 1 .. L /\ j - 1 \in 0 .. L
      BY <1>1, <2>1
    <3>2. SubSeq(o, 1, j - 1) = SubSeq(out[r], 1, j - 1)
      BY <1>5, <3>1
    <3>3. /\ given[r][j] = Prompt(r) \o SubSeq(out[r], 1, j - 1)
          /\ out[r][j] \in Target(r, given[r][j])
      BY <1>7, <3>1 DEF Served
    <3> QED BY <1>5, <1>6, <3>1, <3>2, <3>3
  <2>2. CASE ~(j <= L)
    <3> DEFINE i == j - L
    <3>1. /\ i \in 1 .. a /\ i \in 1 .. n /\ i - 1 \in 0 .. a /\ j = L + i
          /\ j - 1 = L + (i - 1)
      BY <1>1, <2>2
    <3> HIDE DEF i
    <3>2. SubSeq(o, 1, j - 1) = out[r] \o SubSeq(new, 1, i - 1)
      BY <1>5, <3>1
    <3>3. SubSeq(new, 1, i - 1) = TokensOf(SubSeq(c, 1, i - 1))
      BY <1>3, <3>1
    <3>4. SubSeq(new, 1, i - 1) \in Seq(Tokens)
      BY <1>3, <3>1, CutFacts
    <3>5. Prompt(r) \o SubSeq(o, 1, j - 1) = Text(r) \o SubSeq(new, 1, i - 1)
      <4> DEFINE before == SubSeq(new, 1, i - 1)
      <4> HIDE DEF before
      <4>1. before \in Seq(Tokens)
        BY <3>4 DEF before
      <4>2. (Prompt(r) \o out[r]) \o before = Prompt(r) \o (out[r] \o before)
        BY ONLY <1>1, <4>1, TextsJoin
      <4> QED BY <1>8, <3>2, <4>2 DEF before
    <3>6. c[i].context = Text(r) \o TokensOf(SubSeq(c, 1, i - 1)) /\ c[i].token \in Target(r, c[i].context)
      BY <3>1 DEF Good
    <3>7. g[j] = c[i].context /\ o[j] = c[i].token
      BY <1>2, <1>3, <1>4, <1>5, <1>6, <3>1
    <3> QED BY <3>3, <3>5, <3>6, <3>7
  <2> QED BY <2>1, <2>2
<1>11. ASSUME NEW j \in 1 .. (L + a) - 1
       PROVE  ~Stops(r, SubSeq(o, 1, j))
  <2>1. CASE j < L
    <3>1. j \in 1 .. L - 1 /\ j \in 0 .. L
      BY <1>1, <2>1
    <3> QED BY <1>5, <1>7, <3>1 DEF Served
  <2>2. CASE j = L
    <3>1. L \in 0 .. L /\ L >= 1
      BY <1>1, <2>2
    <3>2. SubSeq(out[r], 1, L) = out[r]
      BY <1>1
    <3>3. out[r] # <<>>
      BY <1>1, <3>1
    <3>4. ~Stops(r, out[r])
      BY <3>3, LiveFacts DEF OutputIsTargets
    <3> QED BY <1>5, <2>2, <3>1, <3>2, <3>4
  <2>3. CASE j > L
    <3> DEFINE i == j - L
    <3>1. i \in 1 .. a - 1 /\ i \in 0 .. a /\ j = L + i
      BY <1>1, <2>3
    <3> HIDE DEF i
    <3>2. SubSeq(o, 1, j) = out[r] \o TokensOf(SubSeq(c, 1, i))
      BY <1>3, <1>5, <3>1
    <3> QED BY <3>1, <3>2
  <2> QED BY <1>1, <2>1, <2>2, <2>3
<1>12. Served(r, o, g)
  BY <1>5, <1>6, <1>10, <1>11 DEF Served
<1> QED BY <1>5, <1>9, <1>12 DEF o, g, new, more

-----------------------------------------------------------------------------
\* The end of a step.

\* A step that serves every request, and ends those that stop, keeps OutputIsTargets.
LEMMA OutputAfter ==
  ASSUME config' = config, out' \in [Requests -> Seq(Tokens)],
         \A r \in Requests : Served(r, out'[r], given'[r]),
         \A r \in Requests :
            r \notin Range(waiting') \cup Range(running') <=> out'[r] # <<>> /\ Stops(r, out'[r])
  PROVE  OutputIsTargets'
<1>1. Lossless'
  <2>1. \A r \in Requests : \A j \in DOMAIN out'[r] :
           /\ given'[r][j] = Prompt(r) \o SubSeq(out'[r], 1, j - 1)
           /\ out'[r][j] \in Target(r, Prompt(r) \o SubSeq(out'[r], 1, j - 1))
    <3> TAKE r \in Requests
    <3> TAKE j \in DOMAIN out'[r]
    <3>1. j \in 1 .. Len(out'[r])
      OBVIOUS
    <3> QED BY <3>1 DEF Served
  <2> QED BY <2>1 DEF Lossless, Target, Allowed, Prompt, Params
<1>2. EndsAtFirstStop'
  <2>1. \A r \in Requests : \A j \in 1 .. Len(out'[r]) - 1 : ~Stops(r, SubSeq(out'[r], 1, j))
    BY DEF Served
  <2> QED BY <2>1 DEF EndsAtFirstStop, Ended, Stops, Prompt, Params
<1> QED BY <1>1, <1>2 DEF OutputIsTargets

\* What a step has for a request of its batch: cells with a token, and caches with
\* all but the last of those.
Computed(r, c, t, d) ==
  \E n \in 1 .. Len(c) :
     /\ Good(r, c, n)
     /\ Covers(t, Text(r) \o TokensOf(SubSeq(c, 1, n)), Len(Text(r)) + n - 1)
     /\ UsesKv /\ NeverOff /\ Drafted(r) =>
           Covers(d, Text(r) \o TokensOf(SubSeq(c, 1, n)), Len(Text(r)) + n - 1)

\* The queues of a step: running_now is what runs when it ends, if nothing stops.
StepQueues(batch, running_now) ==
  /\ batch \in Seq(Requests) /\ running_now \in Seq(Requests) /\ waiting' \in Seq(Requests)
  /\ IsInjective(batch) /\ IsInjective(running_now) /\ IsInjective(waiting')
  /\ Range(batch) \subseteq Range(running_now)
  /\ Range(waiting') \cap Range(running_now) = {}
  /\ Range(waiting') \cup Range(running_now) = Range(waiting) \cup Range(running)
  /\ Range(running_now) \subseteq Range(batch) \cup Range(running)

\* What ProcessOutputs gives to each request, and who stops.
More(batch, cells) ==
  [r \in Requests |-> IF r \in Range(batch) THEN Appended(r, cells[Place(batch, r)]) ELSE <<>>]
Stopped(batch, more) ==
  {r \in Range(batch) : more[r] # <<>> /\ Stops(r, out[r] \o TokensOf(more[r]))}
Kept(batch, running_now, stopped, kv, new) ==
  [r \in Requests |-> IF r \in stopped \/ r \notin Range(running_now) THEN <<>>
                      ELSE IF r \in Range(batch) THEN new[Place(batch, r)] ELSE kv[r]]

LEMMA ProcessIs ==
  ASSUME NEW batch, NEW running_now, NEW cells, NEW target, NEW draft,
         ProcessOutputs(batch, running_now, cells, target, draft)
  PROVE  LET more == More(batch, cells)
             stopped == Stopped(batch, more)
         IN  /\ failed' = \E i \in DOMAIN batch : Valid(cells[i]) = <<>>
             /\ out' = [r \in Requests |-> out[r] \o TokensOf(more[r])]
             /\ given' = [r \in Requests |-> given[r] \o ContextsOf(more[r])]
             /\ target_kv' = Kept(batch, running_now, stopped, target_kv, target)
             /\ draft_kv' = Kept(batch, running_now, stopped, draft_kv, draft)
             /\ running' = Select(running_now, Requests \ stopped)
BY DEF ProcessOutputs, More, Stopped, Kept, ContextsOf

LEMMA CoversLess ==
  ASSUME NEW kv, NEW text \in Seq(Tokens), NEW c \in Seq(Cells), NEW n \in 1 .. Len(c),
         NEW a \in 1 .. n,
         Covers(kv, text \o TokensOf(SubSeq(c, 1, n)), Len(text) + n - 1)
  PROVE  Covers(kv, text \o TokensOf(SubSeq(c, 1, a)), Len(text) + a - 1)
<1> DEFINE u == TokensOf(SubSeq(c, 1, n))
           v == TokensOf(SubSeq(c, 1, a))
           L == Len(text)
<1>1. n \in 0 .. Len(c) /\ a \in 0 .. Len(c) /\ L \in Nat /\ n \in Nat /\ a \in Nat
  OBVIOUS
<1>2. /\ u \in Seq(Tokens) /\ Len(u) = n /\ \A i \in 1 .. n : u[i] = c[i].token
      /\ v \in Seq(Tokens) /\ Len(v) = a /\ \A i \in 1 .. a : v[i] = c[i].token
  <2>1. ASSUME NEW m \in 0 .. Len(c)
        PROVE  /\ TokensOf(SubSeq(c, 1, m)) \in Seq(Tokens) /\ Len(TokensOf(SubSeq(c, 1, m))) = m
               /\ \A i \in 1 .. m : TokensOf(SubSeq(c, 1, m))[i] = c[i].token
    <3>1. /\ SubSeq(c, 1, m) \in Seq(Cells) /\ Len(SubSeq(c, 1, m)) = m
          /\ \A i \in 1 .. m : SubSeq(c, 1, m)[i] = c[i]
      BY CutFacts
    <3> DEFINE u1 == SubSeq(c, 1, m)
    <3> HIDE DEF u1
    <3>2. u1 \in Seq(Cells) /\ Len(u1) = m /\ \A i \in 1 .. m : u1[i] = c[i]
      BY <3>1 DEF u1
    <3>3. /\ TokensOf(u1) \in Seq(Tokens) /\ Len(TokensOf(u1)) = m
          /\ \A i \in 1 .. m : TokensOf(u1)[i] = u1[i].token
      BY <3>2, TokensFacts
    <3> QED BY <3>2, <3>3 DEF u1
  <2> QED BY <1>1, <2>1
<1> HIDE DEF u, v
<1>3. ASSUME NEW i \in 1 .. L + a - 1
      PROVE  i \in 1 .. L + n - 1 /\ (text \o u)[i] = (text \o v)[i]
  <2>1. i \in 1 .. L + n - 1
    BY <1>1
  <2>2. CASE i <= L
    <3>1. i \in 1 .. L
      BY <2>2
    <3> QED BY <1>2, <2>1, <3>1, JoinedFacts
  <2>3. CASE ~(i <= L)
    <3>1. i \in L + 1 .. L + n /\ i \in L + 1 .. L + a /\ i - L \in 1 .. a /\ i - L \in 1 .. n
      BY <1>1, <2>3
    <3>2. (text \o u)[i] = u[i - L]
      BY <1>2, <3>1, JoinedFacts
    <3>3. (text \o v)[i] = v[i - L]
      BY <1>2, <3>1, JoinedFacts
    <3> QED BY <1>2, <2>1, <3>1, <3>2, <3>3
  <2> QED BY <2>2, <2>3
<1>4. Covers(kv, text \o u, L + n - 1)
  BY DEF u
<1>5. Covers(kv, text \o v, L + a - 1)
  BY <1>3, <1>4 DEF Covers
<1> QED BY <1>5 DEF v

LEMMA CoveredAfter ==
  ASSUME config' = config,
         \A r \in Range(running') :
            LET text == Prompt(r) \o out'[r]
            IN  /\ Covers(target_kv'[r], text, Len(text) - 1)
                /\ UsesKv /\ NeverOff /\ Len(text) + config.k < config.draft_len =>
                      Covers(draft_kv'[r], text, Len(text) - 1)
  PROVE  TargetCovered' /\ DraftCovered'
BY DEF TargetCovered, DraftCovered, Text, Prompt, Params, Covers, UsesKv, NeverOff, Drafted

LEMMA ProcessStep ==
  ASSUME IInv, config' = config,
         NEW batch, NEW running_now, NEW cells, NEW target, NEW draft,
         StepQueues(batch, running_now),
         \A i \in DOMAIN batch : Computed(batch[i], cells[i], target[i], draft[i]),
         ProcessOutputs(batch, running_now, cells, target, draft)
  PROVE  IInv'
<1> DEFINE more == More(batch, cells)
           stopped == Stopped(batch, more)
<1>1. /\ failed' = \E i \in DOMAIN batch : Valid(cells[i]) = <<>>
      /\ out' = [r \in Requests |-> out[r] \o TokensOf(more[r])]
      /\ given' = [r \in Requests |-> given[r] \o ContextsOf(more[r])]
      /\ target_kv' = Kept(batch, running_now, stopped, target_kv, target)
      /\ draft_kv' = Kept(batch, running_now, stopped, draft_kv, draft)
      /\ running' = Select(running_now, Requests \ stopped)
  BY ProcessIs
<1>2. /\ \A r \in Requests : more[r] = IF r \in Range(batch) THEN Appended(r, cells[Place(batch, r)])
                                      ELSE <<>>
      /\ stopped = {r \in Range(batch) : more[r] # <<>> /\ Stops(r, out[r] \o TokensOf(more[r]))}
  BY DEF More, Stopped
<1> HIDE DEF more, stopped
<1>3. TypeInv /\ QueuesInv /\ OutputIsTargets /\ EndsAtFirstStop /\ TargetCovered /\ DraftCovered
  BY DEF IInv, OutputIsTargets
<1>4. /\ batch \in Seq(Requests) /\ running_now \in Seq(Requests) /\ waiting' \in Seq(Requests)
      /\ Range(batch) \subseteq Requests /\ Range(running_now) \subseteq Requests
      /\ Range(batch) \subseteq Range(running_now)
      /\ \A r \in Range(batch) : r \in Range(waiting) \cup Range(running)
  <2>1. batch \in Seq(Requests) /\ running_now \in Seq(Requests) /\ waiting' \in Seq(Requests)
    BY DEF StepQueues
  <2>2. Range(batch) \subseteq Requests /\ Range(running_now) \subseteq Requests
    BY <2>1, RangeFacts
  <2> QED BY <2>1, <2>2 DEF StepQueues
<1> DEFINE Gets(r, c, n, a) ==
             LET text == Text(r) \o TokensOf(SubSeq(c, 1, n))
                 i == Place(batch, r)
             IN  /\ Good(r, c, n) /\ a \in 1 .. n /\ more[r] = SubSeq(c, 1, a)
                 /\ \A j \in 1 .. a - 1 : ~Stops(r, out[r] \o TokensOf(SubSeq(c, 1, j)))
                 /\ Covers(target[i], text, Len(Text(r)) + n - 1)
                 /\ UsesKv /\ NeverOff /\ Drafted(r) => Covers(draft[i], text, Len(Text(r)) + n - 1)
<1>5. ASSUME NEW i \in DOMAIN batch
      PROVE  Valid(cells[i]) # <<>>
  <2>1. batch[i] \in Range(batch) /\ batch[i] \in Requests
    BY <1>4 DEF Range
  <2>2. PICK n \in 1 .. Len(cells[i]) : Good(batch[i], cells[i], n)
    BY DEF Computed
  <2>3. Len(out[batch[i]]) < Params(batch[i]).max_tokens
    BY <1>3, <1>4, <2>1, LiveFacts
  <2> QED BY <1>3, <2>1, <2>2, <2>3, AppendedFacts
<1>6. ASSUME NEW r \in Range(batch)
      PROVE  \E c, n, a : Gets(r, c, n, a)
  <2> DEFINE i == Place(batch, r)
             c == cells[i]
  <2>1. r \in Requests /\ i \in DOMAIN batch /\ batch[i] = r
    BY <1>4, PlaceFacts
  <2> HIDE DEF i
  <2>2. PICK n \in 1 .. Len(c) :
           /\ Good(r, c, n)
           /\ Covers(target[i], Text(r) \o TokensOf(SubSeq(c, 1, n)), Len(Text(r)) + n - 1)
           /\ UsesKv /\ NeverOff /\ Drafted(r) =>
                 Covers(draft[i], Text(r) \o TokensOf(SubSeq(c, 1, n)), Len(Text(r)) + n - 1)
    BY <2>1 DEF Computed
  <2>3. Len(out[r]) < Params(r).max_tokens
    BY <1>3, <1>4, <2>1, LiveFacts
  <2>4. PICK a \in 1 .. n :
           /\ Appended(r, c) = SubSeq(c, 1, a)
           /\ \A j \in 1 .. a - 1 : ~Stops(r, out[r] \o TokensOf(SubSeq(c, 1, j)))
    BY <1>3, <2>1, <2>2, <2>3, AppendedFacts
  <2>5. more[r] = SubSeq(c, 1, a)
    BY <1>2, <2>1, <2>4 DEF i
  <2>6. Gets(r, c, n, a)
    BY <2>2, <2>4, <2>5 DEF i
  <2> QED BY <2>6
<1>7. ASSUME NEW r \in Range(batch)
      PROVE  /\ Served(r, out'[r], given'[r]) /\ out'[r] # <<>> /\ more[r] # <<>>
             /\ \E c, n, a : Gets(r, c, n, a) /\ Prompt(r) \o out'[r] = Text(r) \o TokensOf(SubSeq(c, 1, a))
                                               /\ Len(out'[r]) = Len(out[r]) + a
  <2>1. r \in Requests
    BY <1>4
  <2>2. PICK c, n, a : Gets(r, c, n, a)
    BY <1>6
  <2>3. /\ Good(r, c, n) /\ a \in 1 .. n /\ more[r] = SubSeq(c, 1, a)
        /\ \A j \in 1 .. a - 1 : ~Stops(r, out[r] \o TokensOf(SubSeq(c, 1, j)))
    BY <2>2
  <2>4. /\ Served(r, out[r] \o TokensOf(more[r]), given[r] \o ContextsOf(more[r]))
        /\ Len(out[r] \o TokensOf(more[r])) = Len(out[r]) + a
        /\ Prompt(r) \o (out[r] \o TokensOf(more[r])) = Text(r) \o TokensOf(more[r])
    <3> DEFINE m == SubSeq(c, 1, a)
    <3>1. r \in Range(waiting) \cup Range(running)
      BY <1>4
    <3>2. TypeInv /\ OutputIsTargets
      BY <1>3
    <3> HIDE DEF Gets
    <3>3. /\ Served(r, out[r] \o TokensOf(m), given[r] \o ContextsOf(m))
          /\ Len(out[r] \o TokensOf(m)) = Len(out[r]) + a
          /\ Prompt(r) \o (out[r] \o TokensOf(m)) = Text(r) \o TokensOf(m)
      BY <2>1, <2>3, <3>1, <3>2, GivenFacts
    <3> QED BY <2>3, <3>3
  <2>5. out'[r] = out[r] \o TokensOf(more[r]) /\ given'[r] = given[r] \o ContextsOf(more[r])
    BY <1>1, <2>1
  <2>6. n \in Nat /\ a \in Nat /\ a >= 1 /\ Len(out[r]) \in Nat
    BY <1>3, <2>1, <2>3 DEF TypeInv, Good
  <2>7. out'[r] # <<>>
    <3>1. Len(out'[r]) = Len(out[r]) + a
      BY ONLY <2>4, <2>5, Zenon
    <3>2. Len(out'[r]) # 0
      BY ONLY <2>6, <3>1
    <3> QED BY <3>2
  <2>8. more[r] # <<>>
    <3>1. a \in 0 .. n
      BY <2>3, <2>6
    <3>2. Len(more[r]) = a
      BY <2>3, <3>1, GoodFacts
    <3> QED BY <2>6, <3>2
  <2> HIDE DEF Gets
  <2> QED BY <2>2, <2>3, <2>4, <2>5, <2>7, <2>8
<1>8. ASSUME NEW r \in Requests \ Range(batch)
      PROVE  out'[r] = out[r] /\ given'[r] = given[r] /\ Served(r, out'[r], given'[r])
  <2>1. more[r] = <<>>
    BY <1>2
  <2>2. out[r] \in Seq(Tokens) /\ given[r] \in Seq(Seq(Tokens)) /\ Served(r, out[r], given[r])
    BY <1>3, ServedFacts DEF TypeInv
  <2>3. TokensOf(<<>>) = <<>> /\ ContextsOf(<<>>) = <<>>
    BY DEF TokensOf, ContextsOf
  <2>4. out[r] \o <<>> = out[r] /\ given[r] \o <<>> = given[r]
    BY <2>2
  <2> QED BY <1>1, <2>1, <2>2, <2>3, <2>4
<1>9. \A r \in Requests : Served(r, out'[r], given'[r])
  BY <1>7, <1>8
<1>10. /\ running' \in Seq(Requests) /\ IsInjective(running')
       /\ Range(running') = Range(running_now) \ stopped
  <2>1. /\ running' \in Seq(Requests) /\ IsInjective(running')
        /\ Range(running') = Range(running_now) \cap (Requests \ stopped)
    BY <1>1, <1>4, SelectFacts DEF StepQueues
  <2> QED BY <1>4, <2>1
<1>11. TypeInv'
  <2>1. out' \in [Requests -> Seq(Tokens)] /\ given' \in [Requests -> Seq(Seq(Tokens))]
    <3>1. out' = [r \in Requests |-> out'[r]] /\ given' = [r \in Requests |-> given'[r]]
      BY <1>1
    <3>2. \A r \in Requests : out'[r] \in Seq(Tokens) /\ given'[r] \in Seq(Seq(Tokens))
      BY <1>9 DEF Served
    <3> QED BY <3>1, <3>2
  <2>2. \A r \in Requests : Len(given'[r]) = Len(out'[r])
    BY <1>9 DEF Served
  <2> QED BY <1>3, <1>4, <1>10, <2>1, <2>2 DEF TypeInv
<1>12. QueuesInv'
  BY <1>10 DEF QueuesInv, StepQueues
<1>13. ASSUME NEW r \in Requests
       PROVE  r \notin Range(waiting') \cup Range(running') <=> out'[r] # <<>> /\ Stops(r, out'[r])
  <2>1. CASE r \in Range(batch)
    <3>1. r \in Range(running_now) /\ r \notin Range(waiting')
      BY <1>4, <2>1 DEF StepQueues
    <3>2. out'[r] # <<>> /\ more[r] # <<>> /\ out'[r] = out[r] \o TokensOf(more[r])
      BY <1>1, <1>7, <2>1
    <3> QED BY <1>2, <1>10, <2>1, <3>1, <3>2
  <2>2. CASE r \notin Range(batch)
    <3>1. r \notin stopped
      BY <1>2, <2>2
    <3>2. r \in Range(waiting') \cup Range(running') <=> r \in Range(waiting) \cup Range(running)
      BY <1>10, <3>1 DEF StepQueues
    <3>3. out'[r] = out[r]
      BY <1>8, <2>2
    <3> QED BY <1>3, <3>2, <3>3 DEF EndsAtFirstStop, Ended
  <2> QED BY <2>1, <2>2
<1>14. OutputIsTargets'
  BY <1>9, <1>11, <1>13, OutputAfter DEF TypeInv
<1>15. EveryStepEmits'
  BY <1>1, <1>5 DEF EveryStepEmits
<1>16. ASSUME NEW r \in Range(running')
       PROVE  LET text == Prompt(r) \o out'[r]
              IN  /\ Covers(target_kv'[r], text, Len(text) - 1)
                  /\ UsesKv /\ NeverOff /\ Len(text) + config.k < config.draft_len =>
                        Covers(draft_kv'[r], text, Len(text) - 1)
  <2>1. r \in Requests /\ r \in Range(running_now) /\ r \notin stopped
    BY <1>4, <1>10
  <2>2. Text(r) \in Seq(Tokens) /\ Text(r) = Prompt(r) \o out[r] /\ Len(Text(r)) \in Nat
    BY <1>3, <2>1, TextFacts DEF Text
  <2>3. CASE r \in Range(batch)
    <3>1. PICK c, n, a : /\ Gets(r, c, n, a) /\ Prompt(r) \o out'[r] = Text(r) \o TokensOf(SubSeq(c, 1, a))
                         /\ Len(out'[r]) = Len(out[r]) + a
      BY <1>7, <2>3
    <3> DEFINE i == Place(batch, r)
               u == SubSeq(c, 1, n)
               text == Text(r) \o TokensOf(SubSeq(c, 1, a))
    <3>2. /\ target_kv'[r] = target[i] /\ draft_kv'[r] = draft[i]
      BY <1>1, <2>1, <2>3 DEF Kept
    <3>3. /\ Good(r, c, n) /\ a \in 1 .. n /\ n \in 1 .. Len(c) /\ n \in Nat
          /\ Covers(target[i], Text(r) \o TokensOf(SubSeq(c, 1, n)), Len(Text(r)) + n - 1)
          /\ UsesKv /\ NeverOff /\ Drafted(r) =>
                Covers(draft[i], Text(r) \o TokensOf(SubSeq(c, 1, n)), Len(Text(r)) + n - 1)
      <4>1. /\ Good(r, c, n) /\ a \in 1 .. n
            /\ Covers(target[i], Text(r) \o TokensOf(SubSeq(c, 1, n)), Len(Text(r)) + n - 1)
            /\ UsesKv /\ NeverOff /\ Drafted(r) =>
                  Covers(draft[i], Text(r) \o TokensOf(SubSeq(c, 1, n)), Len(Text(r)) + n - 1)
        BY <3>1
      <4>2. n \in 1 .. Len(c) /\ c \in Outputs
        BY <4>1 DEF Good
      <4>3. n \in Nat
        BY ONLY <4>2 DEF Outputs
      <4> QED BY <4>1, <4>2, <4>3
    <3> HIDE DEF Gets, i
    <3>4. /\ u \in Seq(Cells) /\ Len(u) = n /\ n \in 1 .. Len(u) /\ a \in 0 .. n /\ n \in 0 .. n
          /\ SubSeq(u, 1, n) = SubSeq(c, 1, n) /\ SubSeq(u, 1, a) = SubSeq(c, 1, a)
          /\ SubSeq(c, 1, a) \in Seq(Cells) /\ Len(SubSeq(c, 1, a)) = a
      <4>1. a \in 0 .. n /\ n \in 0 .. n /\ n \in 1 .. n
        BY <3>3
      <4> QED BY <3>3, <4>1, GoodFacts
    <3> HIDE DEF u
    <3>5. Covers(target[i], text, Len(Text(r)) + a - 1)
      BY <2>2, <3>3, <3>4, CoversLess
    <3>6. UsesKv /\ NeverOff /\ Drafted(r) => Covers(draft[i], text, Len(Text(r)) + a - 1)
      BY <2>2, <3>3, <3>4, CoversLess
    <3>7. Len(text) = Len(Text(r)) + a
      <4>1. /\ TokensOf(SubSeq(c, 1, a)) \in Seq(Tokens)
            /\ Len(TokensOf(SubSeq(c, 1, a))) = a
        BY <3>4, TokensFacts
      <4> DEFINE s == Text(r)
                 v == TokensOf(SubSeq(c, 1, a))
      <4> HIDE DEF s, v
      <4>2. s \in Seq(Tokens) /\ v \in Seq(Tokens) /\ Len(v) = a
        BY <2>2, <4>1 DEF s, v
      <4>3. Len(s \o v) = Len(s) + Len(v)
        BY ONLY <4>2, JoinedFacts
      <4> QED BY <4>2, <4>3 DEF s, v
    <3>8. Len(text) + config.k < config.draft_len => Drafted(r)
      <4>1. config.k \in Nat /\ config.draft_len \in Nat /\ a \in Nat
        BY <1>3, <3>3 DEF TypeInv
      <4> HIDE DEF text
      <4> QED BY <2>2, <3>7, <4>1 DEF Drafted
    <3>9. Len(text) - 1 = Len(Text(r)) + a - 1
      <4>1. a \in Nat
        BY <3>3
      <4> HIDE DEF text
      <4> QED BY <2>2, <3>7, <4>1
    <3> HIDE DEF text
    <3>10. Prompt(r) \o out'[r] = text
      BY <3>1 DEF text
    <3> QED BY <3>2, <3>5, <3>6, <3>8, <3>9, <3>10
  <2>4. CASE r \notin Range(batch)
    <3>1. r \in Range(running) /\ out'[r] = out[r]
      BY <1>8, <2>1, <2>4 DEF StepQueues
    <3>2. target_kv'[r] = target_kv[r] /\ draft_kv'[r] = draft_kv[r]
      BY <1>1, <2>1, <2>4 DEF Kept
    <3> QED BY <1>3, <2>2, <3>1, <3>2 DEF TargetCovered, DraftCovered, Drafted
  <2> QED BY <2>3, <2>4
<1>17. TargetCovered' /\ DraftCovered'
  BY <1>16, CoveredAfter
<1> QED BY <1>11, <1>12, <1>14, <1>15, <1>17 DEF IInv

-----------------------------------------------------------------------------
\* Steps without guesses.

LEMMA LenBound ==
  ASSUME NEW s \in Seq(Requests), IsInjective(s)
  PROVE  Len(s) <= NumRequests
<1> DEFINE D == 1 .. Len(s)
<1>1. Len(s) \in Nat /\ s \in [D -> Requests]
  OBVIOUS
<1>2. s \in Injection(D, Requests)
  BY <1>1 DEF Injection
<1>3. IsFiniteSet(Requests) /\ Cardinality(Requests) = NumRequests
  <2>1. 1 \in Int /\ NumRequests \in Int
    OBVIOUS
  <2>2. /\ IsFiniteSet(1 .. NumRequests)
        /\ Cardinality(1 .. NumRequests) = IF 1 > NumRequests THEN 0 ELSE NumRequests - 1 + 1
    BY ONLY <2>1, FS_Interval
  <2> QED BY <2>2 DEF Requests
<1>4. Cardinality(D) <= Cardinality(Requests)
  BY <1>2, <1>3, FS_Injection
<1>5. Cardinality(D) = Len(s)
  <2> DEFINE n == Len(s)
  <2>1. 1 \in Int /\ n \in Int /\ n \in Nat
    BY <1>1
  <2> HIDE DEF n
  <2>2. Cardinality(1 .. n) = IF 1 > n THEN 0 ELSE n - 1 + 1
    BY ONLY <2>1, FS_Interval
  <2>3. Cardinality(1 .. n) = n
    BY ONLY <2>1, <2>2
  <2> QED BY <2>3 DEF n
<1> QED BY <1>3, <1>4, <1>5

LEMMA ReadCovered ==
  ASSUME NEW kv, NEW text \in Seq(Tokens), NEW n \in 0 .. Len(text), Covers(kv, text, n)
  PROVE  Read(kv, n) = SubSeq(text, 1, n)
<1>1. /\ SubSeq(text, 1, n) \in Seq(Tokens) /\ Len(SubSeq(text, 1, n)) = n
      /\ \A i \in 1 .. n : SubSeq(text, 1, n)[i] = text[i]
  BY CutFacts
<1>2. Read(kv, n) = [i \in 1 .. n |-> text[i]]
  BY DEF Read, Covers
<1>3. SubSeq(text, 1, n) = [i \in 1 .. n |-> SubSeq(text, 1, n)[i]]
  BY <1>1
<1> QED BY <1>1, <1>2, <1>3

LEMMA ReadAll ==
  ASSUME NEW kv, NEW text \in Seq(Tokens), Covers(kv, text, Len(text))
  PROVE  Read(kv, Len(text)) = text
<1>1. Len(text) \in 0 .. Len(text) /\ SubSeq(text, 1, Len(text)) = text
  OBVIOUS
<1> QED BY <1>1, ReadCovered

LEMMA WrittenCovers ==
  ASSUME NEW kv, NEW text \in Seq(Tokens), NEW first \in 1 .. Len(text) + 1,
         Covers(kv, text, first - 1)
  PROVE  Covers(Written(kv, text, first), text, Len(text))
<1> DEFINE new == [i \in first .. Len(text) |-> text[i]]
<1>1. ASSUME NEW i \in 1 .. Len(text)
      PROVE  i \in DOMAIN Over(kv, new) /\ Over(kv, new)[i] = text[i]
  <2>1. CASE i < first
    <3>1. i \in 1 .. first - 1 /\ i \notin first .. Len(text)
      BY <2>1
    <3>2. i \in DOMAIN kv /\ kv[i] = text[i]
      BY <3>1 DEF Covers
    <3>3. i \notin DOMAIN new
      BY <3>1
    <3> HIDE DEF new
    <3>4. i \in DOMAIN kv \cup DOMAIN new
      BY <3>2
    <3> QED BY <3>2, <3>3, <3>4 DEF Over
  <2>2. CASE ~(i < first)
    <3>1. i \in first .. Len(text)
      BY <2>2
    <3>2. i \in DOMAIN new /\ new[i] = text[i]
      BY <3>1
    <3> HIDE DEF new
    <3>3. i \in DOMAIN kv \cup DOMAIN new
      BY <3>2
    <3> QED BY <3>2, <3>3 DEF Over
  <2> QED BY <2>1, <2>2
<1> QED BY <1>1 DEF Covers, Written

\* A cache of a text has as much of any that begins with it.
LEMMA CoversJoined ==
  ASSUME NEW kv, NEW text \in Seq(Tokens), NEW v \in Seq(Tokens), NEW n \in 0 .. Len(text)
  PROVE  Covers(kv, text, n) <=> Covers(kv, text \o v, n)
<1>1. \A i \in 1 .. n : (text \o v)[i] = text[i]
  <2>1. \A i \in 1 .. n : i \in 1 .. Len(text)
    OBVIOUS
  <2> QED BY <2>1, JoinedFacts
<1> QED BY <1>1 DEF Covers

\* One token of the target, and no token in the columns behind it.
LEMMA PlainGood ==
  ASSUME TypeInv, NEW r \in Requests, NEW token \in Target(r, Text(r)), NEW m \in Nat \ {0},
         NEW t, NEW d, Covers(t, Text(r), Len(Text(r))),
         UsesKv /\ NeverOff /\ Drafted(r) => Covers(d, Text(r), Len(Text(r)))
  PROVE  LET c == [j \in 1 .. m |-> IF j = 1 THEN Cell(token, Text(r)) ELSE NoToken]
         IN  Len(c) = m /\ Computed(r, c, t, d)
<1> DEFINE c == [j \in 1 .. m |-> IF j = 1 THEN Cell(token, Text(r)) ELSE NoToken]
           T == Cells \cup {NoToken}
<1>1. Text(r) \in Seq(Tokens) /\ Len(Text(r)) \in Nat
  BY TextFacts
<1>2. token \in Tokens
  BY DEF Target, Allowed
<1>3. Cell(token, Text(r)) \in Cells
  BY <1>1, <1>2 DEF Cell, Cells
<1>4. c \in Seq(T) /\ Len(c) = m /\ 1 \in 1 .. m /\ c[1] = Cell(token, Text(r))
  <2> HIDE DEF T
  <2>1. Cell(token, Text(r)) \in T /\ NoToken \in T
    BY <1>3 DEF T
  <2> QED BY <2>1
<1>5. \A j \in 2 .. m : c[j] = NoToken
  OBVIOUS
<1> HIDE DEF c
<1>6. c[1].token = token /\ c[1].context = Text(r)
  BY <1>4 DEF Cell
<1>7. Text(r) \o TokensOf(SubSeq(c, 1, 0)) = Text(r)
  <2>1. SubSeq(c, 1, 0) = <<>>
    BY <1>4
  <2>2. TokensOf(<<>>) = <<>>
    BY DEF TokensOf
  <2> DEFINE s == Text(r)
  <2>3. s \in Seq(Tokens)
    BY <1>1
  <2> HIDE DEF s
  <2>4. s \o <<>> = s
    BY <2>3
  <2> QED BY <2>1, <2>2, <2>4 DEF s
<1>8. Good(r, c, 1)
  <2>1. \A j \in 1 .. 1 : j = 1 /\ j - 1 = 0
    OBVIOUS
  <2>2. \A j \in 1 + 1 .. Len(c) : j \in 2 .. m
    BY <1>4
  <2>3. 1 \in 1 .. Len(c)
    BY <1>4
  <2>4. c \in Outputs
    BY <1>4 DEF Outputs
  <2> QED BY <1>3, <1>4, <1>5, <1>6, <1>7, <2>1, <2>2, <2>3, <2>4 DEF Good
<1>9. TokensOf(SubSeq(c, 1, 1)) \in Seq(Tokens)
  <2>1. 1 \in 0 .. 1
    OBVIOUS
  <2>2. SubSeq(c, 1, 1) \in Seq(Cells)
    BY <1>8, <2>1, GoodFacts
  <2> QED BY <2>2, TokensFacts
<1>10. Len(Text(r)) + 1 - 1 = Len(Text(r)) /\ Len(Text(r)) \in 0 .. Len(Text(r))
  BY <1>1
<1> DEFINE v == TokensOf(SubSeq(c, 1, 1))
<1>11. \A kv : Covers(kv, Text(r), Len(Text(r))) => Covers(kv, Text(r) \o v, Len(Text(r)))
  <2> HIDE DEF v
  <2>1. v \in Seq(Tokens)
    BY <1>9 DEF v
  <2> QED BY <1>1, <1>10, <2>1, CoversJoined
<1>12. Computed(r, c, t, d)
  BY <1>4, <1>8, <1>10, <1>11 DEF Computed
<1> QED BY <1>4, <1>12 DEF c

\* One token of the target for each request of the batch.
LEMMA NoSpecStep ==
  ASSUME IInv, config' = config,
         NEW batch, NEW running_now, NEW first, NEW lookahead,
         StepQueues(batch, running_now),
         \A i \in DOMAIN batch :
            /\ first[i] \in 1 .. Len(Text(batch[i])) + 1
            /\ Covers(target_kv[batch[i]], Text(batch[i]), first[i] - 1)
            /\ UsesKv /\ NeverOff /\ Drafted(batch[i]) =>
                  Covers(draft_kv[batch[i]], Text(batch[i]), first[i] - 1),
         RunNoSpec(batch, running_now, first, lookahead)
  PROVE  IInv'
<1> DEFINE skip_proposer == ShouldDisable(Len(running_now))
           target == [i \in DOMAIN batch |-> Written(target_kv[batch[i]], Text(batch[i]), first[i])]
           draft == [i \in DOMAIN batch |->
                       IF skip_proposer \/ ~UsesKv THEN draft_kv[batch[i]]
                       ELSE Written(draft_kv[batch[i]], Text(batch[i]), first[i])]
           context == [i \in DOMAIN batch |-> Read(target[i], Len(Text(batch[i])))]
           sets == [i \in DOMAIN batch |-> Target(batch[i], context[i])]
           Chosen(token) == [i \in DOMAIN batch |-> <<Cell(token[i], context[i])>>]
<1>1. PICK token \in OneOfEach(sets) :
         ProcessOutputs(batch, running_now, Chosen(token), target, draft)
  BY DEF RunNoSpec
<1>2. TypeInv /\ batch \in Seq(Requests) /\ running_now \in Seq(Requests) /\ IsInjective(running_now)
  BY DEF IInv, StepQueues
<1>3. NeverOff => ~skip_proposer
  <2>1. Len(running_now) <= NumRequests /\ Len(running_now) \in Nat
    BY <1>2, LenBound
  <2>2. config.disable_at \in Nat
    BY <1>2 DEF TypeInv
  <2> QED BY <2>1, <2>2 DEF NeverOff, ShouldDisable
<1>4. ASSUME NEW i \in DOMAIN batch
      PROVE  /\ batch[i] \in Requests /\ context[i] = Text(batch[i])
             /\ Covers(target[i], Text(batch[i]), Len(Text(batch[i])))
             /\ UsesKv /\ NeverOff /\ Drafted(batch[i]) =>
                   Covers(draft[i], Text(batch[i]), Len(Text(batch[i])))
  <2> DEFINE r == batch[i]
             text == Text(r)
  <2>1. r \in Requests
    BY <1>2
  <2>2. text \in Seq(Tokens) /\ first[i] \in 1 .. Len(text) + 1
    BY <1>2, <2>1, TextFacts
  <2>3. /\ target[i] = Written(target_kv[r], text, first[i])
        /\ UsesKv /\ NeverOff => draft[i] = Written(draft_kv[r], text, first[i])
        /\ context[i] = Read(target[i], Len(text))
    BY <1>3
  <2>4. /\ Covers(target_kv[r], text, first[i] - 1)
        /\ UsesKv /\ NeverOff /\ Drafted(r) => Covers(draft_kv[r], text, first[i] - 1)
    OBVIOUS
  <2> HIDE DEF r, text, target, draft, context
  <2>5. Covers(target[i], text, Len(text))
    BY <2>2, <2>3, <2>4, WrittenCovers
  <2>6. UsesKv /\ NeverOff /\ Drafted(r) => Covers(draft[i], text, Len(text))
    BY <2>2, <2>3, <2>4, WrittenCovers
  <2>7. context[i] = text
    BY <2>2, <2>3, <2>5, ReadAll
  <2> QED BY <2>1, <2>5, <2>6, <2>7 DEF r, text
<1>5. \A i \in DOMAIN batch : token[i] \in Target(batch[i], Text(batch[i]))
  <2>1. \A i \in DOMAIN batch : sets[i] = Target(batch[i], Text(batch[i])) /\ sets[i] \in SUBSET Tokens
    BY <1>4 DEF Target, Allowed
  <2>2. DOMAIN batch = 1 .. Len(batch) /\ Len(batch) \in Nat /\ DOMAIN sets = DOMAIN batch
    BY <1>2
  <2> HIDE DEF sets
  <2>3. sets = [i \in DOMAIN batch |-> sets[i]]
    BY DEF sets
  <2>4. sets \in Seq(SUBSET Tokens) /\ Len(sets) = Len(batch)
    BY <2>1, <2>2, <2>3
  <2> QED BY <2>1, <2>2, <2>4, OneOfEachFacts
<1> DEFINE cells == Chosen(token)
<1>6. ASSUME NEW i \in DOMAIN batch
      PROVE  Computed(batch[i], cells[i], target[i], draft[i])
  <2> DEFINE r == batch[i]
             c == [j \in 1 .. 1 |-> IF j = 1 THEN Cell(token[i], Text(r)) ELSE NoToken]
  <2>1. cells[i] = <<Cell(token[i], Text(r))>>
    BY <1>4
  <2>2. c = <<Cell(token[i], Text(r))>>
    OBVIOUS
  <2>3. 1 \in Nat \ {0}
    OBVIOUS
  <2> DEFINE t == target[i]
             d == draft[i]
  <2> HIDE DEF cells, target, draft, context, t, d
  <2>4. /\ r \in Requests /\ token[i] \in Target(r, Text(r)) /\ Covers(t, Text(r), Len(Text(r)))
        /\ UsesKv /\ NeverOff /\ Drafted(r) => Covers(d, Text(r), Len(Text(r)))
    BY <1>4, <1>5 DEF t, d
  <2> HIDE DEF r
  <2>5. Computed(r, c, t, d)
    BY <1>2, <2>3, <2>4, PlainGood
  <2> QED BY <2>1, <2>2, <2>5 DEF r, t, d
<1> HIDE DEF target, draft
<1>7. ProcessOutputs(batch, running_now, cells, target, draft)
  BY <1>1
<1> HIDE DEF cells
<1> QED BY <1>6, <1>7, ProcessStep

\* The first n of a queue, and the others.
LEMMA SplitFacts ==
  ASSUME NEW T, NEW s \in Seq(T), IsInjective(s), NEW n \in 0 .. Len(s)
  PROVE  LET a == SubSeq(s, 1, n)
             b == SubSeq(s, n + 1, Len(s))
         IN  /\ a \in Seq(T) /\ b \in Seq(T) /\ Len(a) = n
             /\ \A i \in 1 .. n : a[i] = s[i]
             /\ IsInjective(a) /\ IsInjective(b)
             /\ Range(a) \cap Range(b) = {} /\ Range(a) \cup Range(b) = Range(s)
<1> DEFINE a == SubSeq(s, 1, n)
           b == SubSeq(s, n + 1, Len(s))
           L == Len(s)
<1>1. /\ L \in Nat /\ n \in Nat /\ n <= L
      /\ a \in Seq(T) /\ DOMAIN a = 1 .. n /\ Len(a) = n /\ \A i \in 1 .. n : a[i] = s[i]
      /\ b \in Seq(T) /\ DOMAIN b = 1 .. L - n /\ \A i \in 1 .. L - n : b[i] = s[n + i]
      /\ DOMAIN s = 1 .. L
  OBVIOUS
<1>2. \A i, j \in 1 .. L : s[i] = s[j] => i = j
  BY <1>1 DEF IsInjective
<1> HIDE DEF a, b, L
<1>3. IsInjective(a)
  <2>1. \A i \in 1 .. n : i \in 1 .. L
    BY <1>1
  <2> QED BY <1>1, <1>2, <2>1 DEF IsInjective
<1>4. ASSUME NEW i \in 1 .. L - n PROVE n + i \in 1 .. L
  BY <1>1
<1>5. IsInjective(b)
  <2>1. ASSUME NEW i \in 1 .. L - n, NEW j \in 1 .. L - n, b[i] = b[j] PROVE i = j
    <3>1. n + i \in 1 .. L /\ n + j \in 1 .. L /\ s[n + i] = s[n + j]
      BY <1>1, <1>4, <2>1
    <3>2. n + i = n + j
      BY <1>2, <3>1
    <3> QED BY <1>1, <3>2
  <2> QED BY <1>1, <2>1 DEF IsInjective
<1>6. ASSUME NEW x \in Range(a), x \in Range(b) PROVE FALSE
  <2>1. PICK i \in 1 .. n : a[i] = x
    BY <1>1 DEF Range
  <2>2. PICK j \in 1 .. L - n : b[j] = x
    BY <1>1, <1>6 DEF Range
  <2>3. i \in 1 .. L /\ n + j \in 1 .. L /\ s[i] = s[n + j]
    BY <1>1, <1>4, <2>1, <2>2
  <2>4. i = n + j
    BY <1>2, <2>3
  <2> QED BY <1>1, <2>4
<1>7. ASSUME NEW x PROVE x \in Range(a) \cup Range(b) <=> x \in Range(s)
  <2>1. ASSUME x \in Range(a) PROVE x \in Range(s)
    <3>1. PICK i \in 1 .. n : a[i] = x
      BY <1>1, <2>1 DEF Range
    <3>2. i \in 1 .. L
      BY <1>1
    <3> QED BY <1>1, <3>1, <3>2 DEF Range
  <2>2. ASSUME x \in Range(b) PROVE x \in Range(s)
    <3>1. PICK j \in 1 .. L - n : b[j] = x
      BY <1>1, <2>2 DEF Range
    <3> QED BY <1>1, <1>4, <3>1 DEF Range
  <2>3. ASSUME x \in Range(s), x \notin Range(a) PROVE x \in Range(b)
    <3>1. PICK i \in 1 .. L : s[i] = x
      BY <1>1, <2>3 DEF Range
    <3>2. ~(i <= n)
      <4> SUFFICES ASSUME i <= n PROVE FALSE
        OBVIOUS
      <4>1. i \in 1 .. n
        OBVIOUS
      <4>2. i \in DOMAIN a /\ a[i] = x
        BY <1>1, <3>1, <4>1
      <4> QED BY <2>3, <4>2 DEF Range
    <3>3. i - n \in 1 .. L - n /\ n + (i - n) = i
      BY <1>1, <3>2
    <3>4. b[i - n] = x
      BY <1>1, <3>1, <3>3
    <3> QED BY <1>1, <3>3, <3>4 DEF Range
  <2> QED BY <2>1, <2>2, <2>3
<1>8. Range(a) \cap Range(b) = {} /\ Range(a) \cup Range(b) = Range(s)
  BY <1>6, <1>7
<1> QED BY <1>1, <1>3, <1>5, <1>8 DEF a, b, L

LEMMA BehindFacts ==
  ASSUME NEW T, NEW p \in Seq(T), NEW q \in Seq(T), IsInjective(p), IsInjective(q),
         Range(p) \cap Range(q) = {}
  PROVE  p \o q \in Seq(T) /\ IsInjective(p \o q) /\ Range(p \o q) = Range(p) \cup Range(q)
<1>1. p \o q \in Seq(T) /\ ToSet(p \o q) = ToSet(p) \cup ToSet(q)
  BY ConcatFacts
<1>2. ToSet(p) = Range(p) /\ ToSet(q) = Range(q) /\ ToSet(p \o q) = Range(p \o q)
  BY <1>1, MembersFacts
<1> QED BY <1>1, <1>2, ConcatFacts

LEMMA PrefillStep ==
  ASSUME IInv, NEW n \in Requests, Prefill(n)
  PROVE  IInv'
<1> DEFINE batch == SubSeq(waiting, 1, n)
           rest == SubSeq(waiting, n + 1, Len(waiting))
           running_now == running \o batch
           first == [i \in 1 .. n |-> 1]
<1>1. /\ n \in 1 .. Len(waiting) /\ waiting' = rest /\ config' = config
      /\ RunNoSpec(batch, running_now, first, 0)
  BY DEF Prefill
<1>2. /\ TypeInv /\ waiting \in Seq(Requests) /\ running \in Seq(Requests)
      /\ IsInjective(waiting) /\ IsInjective(running)
      /\ Range(waiting) \cap Range(running) = {}
  BY DEF IInv, TypeInv, QueuesInv
<1>3. /\ batch \in Seq(Requests) /\ rest \in Seq(Requests) /\ Len(batch) = n
      /\ IsInjective(batch) /\ IsInjective(rest)
      /\ Range(batch) \cap Range(rest) = {} /\ Range(batch) \cup Range(rest) = Range(waiting)
  <2>1. n \in 0 .. Len(waiting)
    BY <1>1
  <2> QED BY <1>2, <2>1, SplitFacts
<1> HIDE DEF batch, rest
<1>4. /\ running_now \in Seq(Requests) /\ IsInjective(running_now)
      /\ Range(running_now) = Range(running) \cup Range(batch)
  <2>1. Range(running) \cap Range(batch) = {}
    BY <1>2, <1>3
  <2> QED BY <1>2, <1>3, <2>1, BehindFacts
<1> HIDE DEF running_now
<1>5. StepQueues(batch, running_now)
  BY <1>1, <1>2, <1>3, <1>4 DEF StepQueues
<1>6. ASSUME NEW i \in DOMAIN batch
      PROVE  /\ first[i] \in 1 .. Len(Text(batch[i])) + 1
             /\ Covers(target_kv[batch[i]], Text(batch[i]), first[i] - 1)
             /\ UsesKv /\ NeverOff /\ Drafted(batch[i]) =>
                   Covers(draft_kv[batch[i]], Text(batch[i]), first[i] - 1)
  <2>1. i \in 1 .. n /\ batch[i] \in Requests
    BY <1>3
  <2>2. Len(Text(batch[i])) \in Nat
    BY <1>2, <2>1, TextFacts
  <2>3. first[i] = 1 /\ first[i] - 1 = 0
    BY <2>1
  <2>4. \A kv, text : Covers(kv, text, 0)
    BY DEF Covers
  <2> QED BY <2>2, <2>3, <2>4
<1> HIDE DEF first
<1> QED BY <1>1, <1>5, <1>6, NoSpecStep

-----------------------------------------------------------------------------
\* Proposals and their rows in the expanded batch.

LEMMA LookupFacts ==
  ASSUME config \in Configs, NEW text \in Seq(Tokens)
  PROVE  Lookup(text) \in {None} \cup [1 .. config.k -> Tokens]
<1> DEFINE L == Len(text)
           last == AtMost(config.lookup_max, L - 1)
           sizes == {n \in config.lookup_min .. last : Matches(text, n) # {}}
           n == Max(sizes)
           start == Min(Matches(text, n)) + n
<1>1. /\ L \in Nat /\ config.k \in Nat \ {0}
      /\ config.lookup_min \in Nat \ {0} /\ config.lookup_max \in Int
      /\ \A i \in 1 .. L : text[i] \in Tokens
  <2>1. config.k \in Nat \ {0} /\ config.lookup_max \in Nat /\ config.lookup_min \in 1 .. config.lookup_max
    OBVIOUS
  <2> QED BY <2>1
<1>2. CASE sizes = {}
  BY <1>2 DEF Lookup
<1>3. CASE sizes # {}
  <2>1. last \in Int /\ last <= L - 1
    <3>1. L - 1 \in Int
      BY <1>1
    <3> HIDE DEF L
    <3> QED BY <1>1, <3>1, AtMostFacts
  <2>2. sizes \in SUBSET (1 .. L)
    <3>1. config.lookup_min .. last \subseteq 1 .. L
      <4> HIDE DEF last, L
      <4> QED BY <1>1, <2>1
    <3> QED BY <3>1
  <2> HIDE DEF last
  <2>3. n \in sizes
    <3> HIDE DEF sizes, L
    <3> QED BY <1>1, <1>3, <2>2, MaxFacts
  <2>4. n \in 1 .. L /\ Matches(text, n) # {}
    BY <2>2, <2>3
  <2> HIDE DEF n, sizes
  <2>5. Matches(text, n) \in SUBSET Nat /\ \A i \in Matches(text, n) : i >= 1
    BY <2>4 DEF Matches
  <2>6. start \in Nat /\ start >= 1
    <3> DEFINE M == Matches(text, n)
    <3> HIDE DEF M
    <3>1. M \in SUBSET Nat /\ M # {} /\ \A i \in M : i >= 1
      BY <2>4, <2>5 DEF M
    <3>2. Min(M) \in M
      BY <3>1, MinFacts
    <3>3. Min(M) \in Nat /\ Min(M) >= 1
      BY <3>1, <3>2
    <3>4. n \in Nat
      BY <1>1, <2>4
    <3> QED BY <3>3, <3>4 DEF M
  <2> HIDE DEF start
  <2>7. \A j \in 1 .. config.k : text[AtMost(start + j - 1, L)] \in Tokens
    <3> TAKE j \in 1 .. config.k
    <3> DEFINE a == start + j - 1
    <3>1. a \in Int /\ a >= 1 /\ L \in Int /\ L >= 1
      BY <1>1, <2>4, <2>6
    <3> HIDE DEF a, L
    <3>2. /\ AtMost(a, L) \in Int /\ AtMost(a, L) <= L
          /\ AtMost(a, L) = a \/ AtMost(a, L) = L
      BY <3>1, AtMostFacts
    <3>3. AtMost(a, L) \in 1 .. L
      BY ONLY <3>1, <3>2
    <3> QED BY <1>1, <3>3 DEF a
  <2>8. Lookup(text) = [j \in 1 .. config.k |-> text[AtMost(start + j - 1, L)]]
    BY <1>3 DEF Lookup, sizes, n, start, last
  <2> HIDE DEF L
  <2> QED BY <2>7, <2>8
<1> QED BY <1>2, <1>3

LEMMA ProposalFacts ==
  ASSUME TypeInv, NEW batch \in Seq(Requests), NEW p \in Proposals(batch)
  PROVE  /\ Len(p) = Len(batch) /\ DOMAIN p = 1 .. Len(batch) /\ DOMAIN batch = 1 .. Len(batch)
         /\ p \in Seq({None} \cup Seq(Tokens))
         /\ \A i \in DOMAIN p :
               /\ batch[i] \in Requests
               /\ p[i] # None => p[i] \in Seq(Tokens) /\ Len(p[i]) = config.k
               /\ UsesKv /\ Drafted(batch[i]) => p[i] # None
<1> DEFINE guesses == [1 .. config.k -> Tokens]
           U == {None} \cup guesses
           sets == [i \in DOMAIN batch |-> Proposed(batch[i])]
<1>1. config.k \in Nat \ {0} /\ config \in Configs
  BY DEF TypeInv
<1>2. \A g \in guesses : g \in Seq(Tokens) /\ Len(g) = config.k /\ g # None
  <2> TAKE g \in guesses
  <2> DEFINE k == config.k
  <2>1. k \in Nat /\ g \in [1 .. k -> Tokens]
    BY <1>1
  <2> HIDE DEF k, guesses
  <2>2. g \in Seq(Tokens) /\ Len(g) = k
    BY <2>1
  <2> QED BY <2>2 DEF k
<1> HIDE DEF guesses
<1>3. ASSUME NEW r \in Requests
      PROVE  Proposed(r) \in SUBSET U /\ (UsesKv /\ Drafted(r) => Proposed(r) = guesses)
  <2>1. Lookup(Text(r)) \in U
    BY <1>1, TextFacts, LookupFacts DEF guesses
  <2> QED BY <2>1 DEF Proposed, guesses
<1>4. DOMAIN batch = 1 .. Len(batch) /\ Len(batch) \in Nat /\ \A i \in DOMAIN batch : batch[i] \in Requests
  OBVIOUS
<1> DEFINE s == sets
<1>5. s \in Seq(SUBSET U) /\ Len(s) = Len(batch) /\ \A i \in DOMAIN batch : s[i] = Proposed(batch[i])
  <2>1. s = [i \in 1 .. Len(batch) |-> s[i]] /\ \A i \in 1 .. Len(batch) : s[i] \in SUBSET U
    BY <1>3, <1>4
  <2>2. \A i \in DOMAIN batch : s[i] = Proposed(batch[i])
    OBVIOUS
  <2>3. s \in Seq(SUBSET U) /\ Len(s) = Len(batch)
    <3> HIDE DEF s, U
    <3> QED BY <1>4, <2>1
  <2> HIDE DEF s
  <2> QED BY <2>2, <2>3
<1>6. p \in OneOfEach(s)
  BY DEF Proposals
<1> HIDE DEF s, U
<1>7. p \in Seq(U) /\ Len(p) = Len(batch) /\ \A i \in 1 .. Len(batch) : p[i] \in s[i]
  BY <1>5, <1>6, OneOfEachFacts
<1>8. DOMAIN p = 1 .. Len(batch) /\ \A i \in DOMAIN p : p[i] \in U
  BY <1>4, <1>7
<1>9. p \in Seq({None} \cup Seq(Tokens))
  <2>1. U \subseteq {None} \cup Seq(Tokens)
    BY <1>2 DEF U
  <2> QED BY <1>7, <2>1
<1>10. ASSUME NEW i \in DOMAIN p
       PROVE  /\ p[i] # None => p[i] \in Seq(Tokens) /\ Len(p[i]) = config.k
              /\ UsesKv /\ Drafted(batch[i]) => p[i] # None
  <2>1. p[i] = None \/ p[i] \in guesses
    BY <1>8 DEF U
  <2>2. batch[i] \in Requests /\ p[i] \in Proposed(batch[i])
    BY <1>4, <1>5, <1>7, <1>8
  <2> QED BY <1>2, <1>3, <2>1, <2>2
<1> QED BY <1>4, <1>7, <1>8, <1>9, <1>10

LEMMA IndexFacts ==
  ASSUME NEW U, NEW p \in Seq(U)
  PROVE  /\ SpecIndices(p) \in Seq(DOMAIN p) /\ IsInjective(SpecIndices(p))
         /\ Range(SpecIndices(p)) = {i \in DOMAIN p : p[i] # None}
         /\ NonSpecIndices(p) \in Seq(DOMAIN p) /\ IsInjective(NonSpecIndices(p))
         /\ Range(NonSpecIndices(p)) = {i \in DOMAIN p : p[i] = None}
         /\ OriginalIndices(p) \in Seq(DOMAIN p) /\ IsInjective(OriginalIndices(p))
         /\ Range(OriginalIndices(p)) = DOMAIN p
<1> DEFINE D == DOMAIN p
           id == [i \in D |-> i]
<1>1. D = 1 .. Len(p) /\ Len(p) \in Nat
  OBVIOUS
<1>2. id \in Seq(D) /\ Range(id) = D /\ IsInjective(id)
  <2>1. id = [i \in 1 .. Len(p) |-> i] /\ \A i \in 1 .. Len(p) : i \in D
    BY <1>1
  <2>2. id \in Seq(D)
    <3> HIDE DEF D
    <3> QED BY <1>1, <2>1
  <2> QED BY <2>2 DEF Range, IsInjective
<1> HIDE DEF id
<1>3. \A S : /\ Select(id, S) \in Seq(D) /\ Range(Select(id, S)) = D \cap S
             /\ IsInjective(Select(id, S))
  BY <1>2, SelectFacts
<1>4. SpecIndices(p) = Select(id, {i \in D : p[i] # None}) /\ NonSpecIndices(p) = Select(id, {i \in D : p[i] = None})
  BY DEF SpecIndices, NonSpecIndices, id
<1>5. /\ SpecIndices(p) \in Seq(D) /\ IsInjective(SpecIndices(p))
      /\ Range(SpecIndices(p)) = {i \in D : p[i] # None}
  BY <1>3, <1>4
<1>6. /\ NonSpecIndices(p) \in Seq(D) /\ IsInjective(NonSpecIndices(p))
      /\ Range(NonSpecIndices(p)) = {i \in D : p[i] = None}
  BY <1>3, <1>4
<1>7. Range(SpecIndices(p)) \cap Range(NonSpecIndices(p)) = {}
  BY <1>5, <1>6
<1>8. /\ OriginalIndices(p) \in Seq(D) /\ IsInjective(OriginalIndices(p))
      /\ Range(OriginalIndices(p)) = Range(SpecIndices(p)) \cup Range(NonSpecIndices(p))
  BY <1>5, <1>6, <1>7, BehindFacts DEF OriginalIndices
<1> QED BY <1>5, <1>6, <1>8

\* The longest text that the target model sees of batch[i], and the rows of it.
Full(batch, p, i) == IF p[i] = None THEN Text(batch[i]) ELSE Text(batch[i]) \o p[i]
Row(batch, p, i, n) == [req |-> batch[i], text |-> SubSeq(Full(batch, p, i), 1, n)]
RowSet == [req : Requests, text : Seq(Tokens)]

LEMMA FullFacts ==
  ASSUME TypeInv, NEW batch \in Seq(Requests), NEW p \in Proposals(batch), NEW i \in DOMAIN p
  PROVE  /\ batch[i] \in Requests /\ Text(batch[i]) \in Seq(Tokens)
         /\ Len(Text(batch[i])) \in Nat /\ Len(Text(batch[i])) >= 1
         /\ Full(batch, p, i) \in Seq(Tokens)
         /\ p[i] = None => Len(Full(batch, p, i)) = Len(Text(batch[i]))
         /\ p[i] # None => Len(Full(batch, p, i)) = Len(Text(batch[i])) + config.k
         /\ Row(batch, p, i, Len(Text(batch[i]))) = [req |-> batch[i], text |-> Text(batch[i])]
         /\ \A n \in Len(Text(batch[i])) .. Len(Full(batch, p, i)) : Row(batch, p, i, n) \in RowSet
<1> DEFINE r == batch[i]
           s == Text(r)
           L == Len(s)
           k == config.k
           full == Full(batch, p, i)
<1>1. /\ r \in Requests /\ s \in Seq(Tokens) /\ L \in Nat /\ L >= 1 /\ k \in Nat /\ k >= 1
      /\ p[i] # None => p[i] \in Seq(Tokens) /\ Len(p[i]) = k
  <2>1. r \in Requests /\ (p[i] # None => p[i] \in Seq(Tokens) /\ Len(p[i]) = k)
    BY ProposalFacts
  <2>2. s \in Seq(Tokens) /\ L \in Nat /\ L >= 1
    BY <2>1, TextFacts
  <2>3. k \in Nat /\ k >= 1
    BY DEF TypeInv
  <2> QED BY <2>1, <2>2, <2>3
<1>2. full = IF p[i] = None THEN s ELSE s \o p[i]
  BY DEF Full
<1>3. TargetRows(r, p[i]) = [j \in 1 .. k + 1 |-> [req |-> r, text |-> s \o SubSeq(p[i], 1, j - 1)]]
  BY DEF TargetRows, TokenIdsToScore
<1>4. \A n : Row(batch, p, i, n) = [req |-> r, text |-> SubSeq(full, 1, n)]
  BY DEF Row
<1> DEFINE q == p[i]
<1> HIDE DEF r, s, k, full, q
<1>5. full \in Seq(Tokens) /\ (q = None => Len(full) = L) /\ (q # None => Len(full) = L + k)
  <2>1. q # None => s \o q \in Seq(Tokens) /\ Len(s \o q) = L + k
    <3> SUFFICES ASSUME q # None PROVE s \o q \in Seq(Tokens) /\ Len(s \o q) = L + k
      OBVIOUS
    <3>1. s \in Seq(Tokens) /\ q \in Seq(Tokens) /\ Len(q) = k
      BY <1>1 DEF q
    <3>2. s \o q \in Seq(Tokens) /\ Len(s \o q) = Len(s) + Len(q)
      BY ONLY <3>1, JoinedFacts
    <3> QED BY <3>1, <3>2
  <2> QED BY <1>1, <1>2, <2>1 DEF q
<1>6. SubSeq(full, 1, L) = s
  <2>1. SubSeq(s, 1, L) = s
    BY <1>1
  <2>2. q # None => SubSeq(s \o q, 1, L) = SubSeq(s, 1, L)
    <3>1. L \in 0 .. L
      BY <1>1
    <3> QED BY <1>1, <3>1, CutOfJoined DEF q
  <2> QED BY <1>2, <2>1, <2>2 DEF q
<1>9. Row(batch, p, i, L) = [req |-> r, text |-> s]
  BY <1>4, <1>6
<1>11. ASSUME NEW n \in L .. Len(full) PROVE Row(batch, p, i, n) \in RowSet
  <2> DEFINE u == SubSeq(full, 1, n)
  <2>1. u \in Seq(Tokens)
    <3>1. n \in 0 .. Len(full)
      BY <1>1, <1>5
    <3> HIDE DEF full
    <3> QED BY <1>5, <3>1, CutFacts
  <2>2. Row(batch, p, i, n) = [req |-> r, text |-> u]
    BY <1>4
  <2> HIDE DEF u
  <2> QED BY <1>1, <2>1, <2>2 DEF RowSet
<1> QED BY <1>1, <1>5, <1>9, <1>11 DEF r, s, k, full, q

LEMMA FullCut ==
  ASSUME TypeInv, NEW batch \in Seq(Requests), NEW p \in Proposals(batch), NEW i \in DOMAIN p,
         NEW n \in Len(Text(batch[i])) .. Len(Full(batch, p, i))
  PROVE  /\ Len(SubSeq(Full(batch, p, i), 1, n)) = n
         /\ Last(SubSeq(Full(batch, p, i), 1, n)) = Full(batch, p, i)[n]
<1> DEFINE L == Len(Text(batch[i]))
           full == Full(batch, p, i)
<1>1. L \in Nat /\ L >= 1 /\ full \in Seq(Tokens) /\ n \in L .. Len(full)
  BY FullFacts
<1> HIDE DEF L, full
<1>2. n \in 0 .. Len(full) /\ n \in 1 .. n
  BY <1>1
<1>3. /\ Len(SubSeq(full, 1, n)) = n
      /\ \A m \in 1 .. n : SubSeq(full, 1, n)[m] = full[m]
  BY <1>1, <1>2, CutFacts
<1>4. Last(SubSeq(full, 1, n)) = full[n]
  BY <1>2, <1>3 DEF Last
<1> QED BY <1>3, <1>4 DEF full

LEMMA FullRows ==
  ASSUME TypeInv, NEW batch \in Seq(Requests), NEW p \in Proposals(batch), NEW i \in DOMAIN p,
         p[i] # None, NEW j \in 1 .. config.k + 1
  PROVE  /\ TargetRows(batch[i], p[i])[j] = Row(batch, p, i, Len(Text(batch[i])) + j - 1)
         /\ SubSeq(Full(batch, p, i), 1, Len(Text(batch[i])) + j - 1) =
               Text(batch[i]) \o SubSeq(p[i], 1, j - 1)
<1> DEFINE s == Text(batch[i])
           L == Len(s)
           q == p[i]
           k == config.k
<1>1. s \in Seq(Tokens) /\ L \in Nat
  BY FullFacts
<1>2. q \in Seq(Tokens) /\ Len(q) = k /\ k \in Nat
  BY ProposalFacts DEF TypeInv
<1>3. j - 1 \in 0 .. k /\ L + j - 1 = L + (j - 1)
  <2>1. j \in 1 .. k + 1
    OBVIOUS
  <2> HIDE DEF k, L
  <2> QED BY <1>1, <1>2, <2>1
<1> HIDE DEF s, q, k
<1>4. SubSeq(s \o q, 1, L + (j - 1)) = s \o SubSeq(q, 1, j - 1)
  BY <1>1, <1>2, <1>3, CutOfJoined
<1>5. Full(batch, p, i) = s \o q
  BY DEF Full, s, q
<1>6. TargetRows(batch[i], q)[j] = [req |-> batch[i], text |-> s \o SubSeq(q, 1, j - 1)]
  BY DEF TargetRows, TokenIdsToScore, s
<1>7. Row(batch, p, i, L + j - 1) = [req |-> batch[i], text |-> SubSeq(s \o q, 1, L + j - 1)]
  BY <1>5 DEF Row
<1> QED BY <1>3, <1>4, <1>5, <1>6, <1>7 DEF s, q

LEMMA ScoringFacts ==
  ASSUME TypeInv, NEW batch \in Seq(Requests), NEW p \in Proposals(batch)
  PROVE  LET spec == SpecIndices(p)
             size == config.k + 1
             scoring == Len(spec) * size
             rows == ScoringInput(batch, p)
         IN  /\ scoring \in Nat /\ rows \in Seq(RowSet) /\ Len(rows) = scoring
             /\ \A x \in 1 .. scoring : \E i \in DOMAIN p, j \in 1 .. size :
                   p[i] # None /\ rows[x] = Row(batch, p, i, Len(Text(batch[i])) + j - 1)
             /\ \A i \in DOMAIN p, j \in 1 .. size : p[i] # None =>
                   LET x == (Place(spec, i) - 1) * size + j
                   IN  x \in 1 .. scoring /\ rows[x] = Row(batch, p, i, Len(Text(batch[i])) + j - 1)
<1> DEFINE spec == SpecIndices(p)
           size == config.k + 1
           N == Len(spec)
           scoring == N * size
           rows == ScoringInput(batch, p)
           Of(i, j) == TargetRows(batch[i], p[i])[j]
<1>1. /\ spec \in Seq(DOMAIN p) /\ IsInjective(spec) /\ Range(spec) = {i \in DOMAIN p : p[i] # None}
      /\ N \in Nat /\ DOMAIN spec = 1 .. N
  <2>1. p \in Seq({None} \cup Seq(Tokens))
    BY ProposalFacts
  <2>2. /\ spec \in Seq(DOMAIN p) /\ IsInjective(spec)
        /\ Range(spec) = {i \in DOMAIN p : p[i] # None}
    BY <2>1, IndexFacts
  <2> HIDE DEF spec
  <2> QED BY <2>2
<1>2. config.k \in Nat /\ size \in Nat /\ size \in Nat \ {0}
  BY DEF TypeInv
<1>3. rows = [x \in 1 .. scoring |-> Of(spec[(x - 1) \div size + 1], ((x - 1) % size) + 1)]
  BY DEF ScoringInput
<1>4. ASSUME NEW i \in DOMAIN p, p[i] # None, NEW j \in 1 .. size
      PROVE  /\ Of(i, j) = Row(batch, p, i, Len(Text(batch[i])) + j - 1)
             /\ Of(i, j) \in RowSet
  <2>1. Of(i, j) = Row(batch, p, i, Len(Text(batch[i])) + j - 1)
    <3>1. j \in 1 .. config.k + 1
      OBVIOUS
    <3> HIDE DEF size
    <3>2. TargetRows(batch[i], p[i])[j] = Row(batch, p, i, Len(Text(batch[i])) + j - 1)
      BY <1>4, <3>1, FullRows
    <3> QED BY <3>2
  <2> DEFINE L == Len(Text(batch[i]))
             M == Len(Full(batch, p, i))
  <2>2. L \in Nat /\ M = L + config.k /\ \A n \in L .. M : Row(batch, p, i, n) \in RowSet
    <3>1. Len(Text(batch[i])) \in Nat
      BY FullFacts, Zenon
    <3>2. M = L + config.k
      BY <1>4, FullFacts, Zenon
    <3>3. \A n \in L .. M : Row(batch, p, i, n) \in RowSet
      BY FullFacts, Zenon
    <3> HIDE DEF L, M
    <3> QED BY <1>4, <3>1, <3>2, <3>3 DEF L
  <2> HIDE DEF L, M
  <2>3. L + j - 1 \in L .. M
    BY <1>2, <2>2
  <2> QED BY <2>1, <2>2, <2>3 DEF L
<1> HIDE DEF spec, size, N, rows, Of
<1>5. scoring \in Nat
  BY <1>1, <1>2, MonotoneLeft
<1>6. ASSUME NEW x \in 1 .. scoring
      PROVE  \E i \in DOMAIN p, j \in 1 .. size : p[i] # None /\ rows[x] = Of(i, j)
  <2> DEFINE m == (x - 1) \div size
             j == (x - 1) % size
             i == spec[m + 1]
  <2>1. x - 1 \in 0 .. N * size - 1
    BY <1>5
  <2>2. m \in 0 .. N - 1 /\ j \in 0 .. size - 1
    BY <1>1, <1>2, <2>1, DivModRange
  <2>3. rows[x] = Of(i, j + 1)
    BY <1>3
  <2> HIDE DEF m, j
  <2>4. m + 1 \in 1 .. N /\ j + 1 \in 1 .. size
    BY <1>1, <1>2, <2>2
  <2>5. i \in Range(spec)
    BY <1>1, <2>4 DEF Range
  <2> QED BY <1>1, <2>3, <2>4, <2>5
<1>7. ASSUME NEW i \in DOMAIN p, p[i] # None, NEW j \in 1 .. size
      PROVE  LET x == (Place(spec, i) - 1) * size + j
             IN  x \in 1 .. scoring /\ rows[x] = Of(i, j)
  <2> DEFINE m == Place(spec, i) - 1
             x == m * size + j
  <2>1. Place(spec, i) \in 1 .. N /\ spec[Place(spec, i)] = i
    <3>1. i \in Range(spec)
      BY <1>1, <1>7
    <3> QED BY <1>1, <3>1, PlaceFacts DEF N
  <2>2. m \in 0 .. N - 1 /\ m \in Nat /\ m + 1 = Place(spec, i)
    BY <1>1, <2>1
  <2> HIDE DEF m
  <2>3. j - 1 \in 0 .. size - 1 /\ j \in Nat /\ j >= 1 /\ j <= size
    BY <1>2
  <2>4. (m * size + (j - 1)) \div size = m /\ (m * size + (j - 1)) % size = j - 1
    BY <1>2, <2>2, <2>3, DivMod
  <2>5. m * size \in Nat /\ m * size + size <= N * size
    BY <1>1, <1>2, <2>2, MonotoneLeft
  <2> DEFINE y == m * size
  <2> HIDE DEF y
  <2>6. x \in 1 .. scoring /\ x - 1 = y + (j - 1)
    <3>1. y \in Nat /\ y + size <= scoring /\ x = y + j
      BY <2>5 DEF y
    <3> HIDE DEF scoring, x
    <3> QED BY <1>2, <1>5, <2>3, <3>1
  <2>7. (x - 1) \div size = m /\ (x - 1) % size = j - 1
    BY <2>4, <2>6 DEF y
  <2> HIDE DEF x
  <2>8. (j - 1) + 1 = j
    BY <2>3
  <2>9. rows[x] = Of(spec[(x - 1) \div size + 1], ((x - 1) % size) + 1)
    BY <1>3, <2>6
  <2>10. rows[x] = Of(i, j)
    BY <2>1, <2>2, <2>7, <2>8, <2>9
  <2> QED BY <2>6, <2>10 DEF x, m
<1>8. rows \in Seq(RowSet) /\ Len(rows) = scoring
  <2>1. \A x \in 1 .. scoring : rows[x] \in RowSet
    BY <1>4, <1>6
  <2>2. rows = [x \in 1 .. scoring |-> rows[x]]
    BY <1>3
  <2> DEFINE T == RowSet
  <2> HIDE DEF scoring, T
  <2>3. scoring \in Nat /\ rows = [x \in 1 .. scoring |-> rows[x]] /\ \A x \in 1 .. scoring : rows[x] \in T
    BY <1>5, <2>1, <2>2 DEF T
  <2>4. rows \in Seq(T) /\ Len(rows) = scoring
    BY ONLY <2>3
  <2> QED BY <2>4 DEF T
<1>9. \A x \in 1 .. scoring : \E i \in DOMAIN p, j \in 1 .. size :
         p[i] # None /\ rows[x] = Row(batch, p, i, Len(Text(batch[i])) + j - 1)
  BY <1>4, <1>6
<1>10. \A i \in DOMAIN p, j \in 1 .. size : p[i] # None =>
          LET x == (Place(spec, i) - 1) * size + j
          IN  x \in 1 .. scoring /\ rows[x] = Row(batch, p, i, Len(Text(batch[i])) + j - 1)
  BY <1>4, <1>7
<1> QED BY <1>5, <1>8, <1>9, <1>10 DEF spec, size, N, rows

\* The rows of the expanded batch are those of the texts, each at its place.
LEMMA RowFacts ==
  ASSUME TypeInv, NEW batch \in Seq(Requests), NEW p \in Proposals(batch)
  PROVE  LET spec == SpecIndices(p)
             non == NonSpecIndices(p)
             size == config.k + 1
             scoring == Len(spec) * size
             rows == Expanded(batch, p)
         IN  /\ scoring \in Nat /\ rows \in Seq(RowSet) /\ Len(rows) = scoring + Len(non)
             /\ \A x \in DOMAIN rows :
                   \E i \in DOMAIN p : \E n \in Len(Text(batch[i])) .. Len(Full(batch, p, i)) :
                      rows[x] = Row(batch, p, i, n)
             /\ \A i \in DOMAIN p, j \in 1 .. size : p[i] # None =>
                   LET x == (Place(spec, i) - 1) * size + j
                   IN  x \in 1 .. scoring /\ rows[x] = Row(batch, p, i, Len(Text(batch[i])) + j - 1)
             /\ \A i \in DOMAIN p : p[i] = None =>
                   /\ Place(non, i) \in 1 .. Len(non)
                   /\ rows[scoring + Place(non, i)] = Row(batch, p, i, Len(Text(batch[i])))
<1> DEFINE spec == SpecIndices(p)
           non == NonSpecIndices(p)
           size == config.k + 1
           scoring == Len(spec) * size
           rows == Expanded(batch, p)
           a == ScoringInput(batch, p)
           b == [m \in DOMAIN non |-> [req |-> batch[non[m]], text |-> Text(batch[non[m]])]]
           X(i, j) == (Place(spec, i) - 1) * size + j
           At(i, j) == Row(batch, p, i, Len(Text(batch[i])) + j - 1)
           First(i) == Row(batch, p, i, Len(Text(batch[i])))
<1>1. /\ non \in Seq(DOMAIN p) /\ IsInjective(non) /\ Range(non) = {i \in DOMAIN p : p[i] = None}
      /\ Len(non) \in Nat /\ DOMAIN non = 1 .. Len(non)
  <2>1. p \in Seq({None} \cup Seq(Tokens))
    BY ProposalFacts
  <2>2. /\ non \in Seq(DOMAIN p) /\ IsInjective(non)
        /\ Range(non) = {i \in DOMAIN p : p[i] = None}
    BY <2>1, IndexFacts
  <2> HIDE DEF non
  <2> QED BY <2>2
<1>2. scoring \in Nat /\ a \in Seq(RowSet) /\ Len(a) = scoring
  BY ScoringFacts, Zenon
<1>3. \A x \in 1 .. scoring : \E i \in DOMAIN p, j \in 1 .. size : p[i] # None /\ a[x] = At(i, j)
  BY ScoringFacts, Zenon
<1>4. \A i \in DOMAIN p, j \in 1 .. size : p[i] # None => X(i, j) \in 1 .. scoring /\ a[X(i, j)] = At(i, j)
  BY ScoringFacts, Zenon
<1>5. rows = a \o b
  BY DEF Expanded
<1> HIDE DEF X, scoring, a, rows, non
<1>6. \A m \in DOMAIN non :
         /\ non[m] \in DOMAIN p /\ p[non[m]] = None
         /\ b[m] = First(non[m]) /\ b[m] \in RowSet
  <2> TAKE m \in DOMAIN non
  <2>1. non[m] \in Range(non)
    BY DEF Range
  <2> DEFINE i == non[m]
  <2>2. i \in DOMAIN p /\ p[i] = None
    BY <1>1, <2>1
  <2>3. b[m] = [req |-> batch[i], text |-> Text(batch[i])]
    OBVIOUS
  <2> HIDE DEF i, b
  <2>4. First(i) = [req |-> batch[i], text |-> Text(batch[i])]
    BY <2>2, FullFacts
  <2>5. batch[i] \in Requests /\ Text(batch[i]) \in Seq(Tokens)
    BY <2>2, FullFacts
  <2>6. b[m] \in RowSet
    BY <2>3, <2>5 DEF RowSet
  <2> QED BY <2>2, <2>3, <2>4, <2>6 DEF i
<1>7. b \in Seq(RowSet) /\ Len(b) = Len(non)
  <2>1. b = [m \in 1 .. Len(non) |-> b[m]] /\ \A m \in 1 .. Len(non) : b[m] \in RowSet
    BY <1>1, <1>6
  <2> HIDE DEF b
  <2> QED BY <1>1, <2>1
<1> HIDE DEF b
<1>8. /\ rows \in Seq(RowSet) /\ Len(rows) = scoring + Len(non)
      /\ \A x \in 1 .. scoring : rows[x] = a[x]
      /\ \A m \in 1 .. Len(non) : rows[scoring + m] = b[m]
      /\ DOMAIN rows = 1 .. scoring + Len(non)
  <2>0. /\ a \o b \in Seq(RowSet) /\ Len(a \o b) = Len(a) + Len(b)
        /\ \A x \in 1 .. Len(a) : (a \o b)[x] = a[x]
        /\ \A m \in 1 .. Len(b) : (a \o b)[Len(a) + m] = b[m]
    <3>1. a \in Seq(RowSet) /\ b \in Seq(RowSet)
      BY <1>2, <1>7
    <3> HIDE DEF RowSet
    <3> QED BY ONLY <3>1, JoinedFacts
  <2>1. /\ rows \in Seq(RowSet) /\ Len(rows) = Len(a) + Len(b)
        /\ \A x \in 1 .. Len(a) : rows[x] = a[x]
        /\ \A m \in 1 .. Len(b) : rows[Len(a) + m] = b[m]
    BY ONLY <1>5, <2>0, Zenon
  <2>2. DOMAIN rows = 1 .. Len(rows)
    BY <2>1
  <2> QED BY <1>2, <1>7, <2>1, <2>2
<1>9. ASSUME NEW x \in DOMAIN rows
      PROVE  \E i \in DOMAIN p : \E n \in Len(Text(batch[i])) .. Len(Full(batch, p, i)) :
                rows[x] = Row(batch, p, i, n)
  <2>1. CASE x <= scoring
    <3>1. x \in 1 .. scoring
      BY <1>2, <1>8, <2>1
    <3>2. PICK i \in DOMAIN p, j \in 1 .. size : p[i] # None /\ a[x] = At(i, j)
      BY <1>3, <3>1
    <3> DEFINE L == Len(Text(batch[i]))
               M == Len(Full(batch, p, i))
    <3>3. L \in Nat /\ M = L + config.k /\ config.k \in Nat
      <4>1. config.k \in Nat
        BY DEF TypeInv
      <4>2. L \in Nat
        BY FullFacts, Zenon
      <4>3. M = L + config.k
        BY <3>2, FullFacts, Zenon
      <4> QED BY <4>1, <4>2, <4>3
    <3> HIDE DEF L, M
    <3>4. L + j - 1 \in L .. M
      BY <3>3
    <3>5. rows[x] = Row(batch, p, i, L + j - 1)
      BY <1>8, <3>1, <3>2 DEF L
    <3> QED BY <3>4, <3>5 DEF L, M
  <2>2. CASE ~(x <= scoring)
    <3> DEFINE m == x - scoring
    <3>1. m \in 1 .. Len(non) /\ x = scoring + m
      BY <1>1, <1>2, <1>8, <2>2
    <3> HIDE DEF m
    <3>2. rows[x] = First(non[m]) /\ non[m] \in DOMAIN p /\ p[non[m]] = None
      BY <1>1, <1>6, <1>8, <3>1
    <3> DEFINE i == non[m]
               L == Len(Text(batch[i]))
               M == Len(Full(batch, p, i))
    <3>3. L \in Nat /\ M = L
      <4>1. i \in DOMAIN p /\ p[i] = None
        BY <3>2
      <4> HIDE DEF i
      <4> QED BY <4>1, FullFacts, Zenon
    <3>4. L \in L .. M /\ i \in DOMAIN p /\ rows[x] = Row(batch, p, i, L)
      BY <3>2, <3>3
    <3> QED BY <3>4
  <2> QED BY <2>1, <2>2
<1>10. \A i \in DOMAIN p, j \in 1 .. size : p[i] # None =>
          X(i, j) \in 1 .. scoring /\ rows[X(i, j)] = At(i, j)
  BY <1>4, <1>8
<1>11. ASSUME NEW i \in DOMAIN p, p[i] = None
       PROVE  Place(non, i) \in 1 .. Len(non) /\ rows[scoring + Place(non, i)] = First(i)
  <2>1. i \in Range(non)
    BY <1>1, <1>11
  <2>2. Place(non, i) \in 1 .. Len(non) /\ non[Place(non, i)] = i
    BY <1>1, <2>1, PlaceFacts
  <2> QED BY <1>1, <1>6, <1>8, <2>2
<1> QED BY <1>2, <1>8, <1>9, <1>10, <1>11 DEF X, scoring, rows, non

\* Each text has a row for every prefix that the step asks about.
LEMMA RowOf ==
  ASSUME TypeInv, NEW batch \in Seq(Requests), NEW p \in Proposals(batch), NEW i \in DOMAIN p,
         NEW n \in Len(Text(batch[i])) .. Len(Full(batch, p, i))
  PROVE  \E x \in DOMAIN Expanded(batch, p) : Expanded(batch, p)[x] = Row(batch, p, i, n)
<1> DEFINE spec == SpecIndices(p)
           non == NonSpecIndices(p)
           size == config.k + 1
           scoring == Len(spec) * size
           rows == Expanded(batch, p)
           L == Len(Text(batch[i]))
<1>1. L \in Nat /\ config.k \in Nat
  BY FullFacts DEF TypeInv
<1>2. scoring \in Nat /\ rows \in Seq(RowSet) /\ Len(rows) = scoring + Len(non)
  BY RowFacts, Zenon
<1>3. Len(non) \in Nat
  <2>1. p \in Seq({None} \cup Seq(Tokens))
    BY ProposalFacts
  <2>2. non \in Seq(DOMAIN p)
    BY <2>1, IndexFacts
  <2> HIDE DEF non
  <2> QED BY <2>2
<1> DEFINE total == Len(rows)
<1>4. DOMAIN rows = 1 .. total
  BY <1>2
<1>5. CASE p[i] = None
  <2>1. Len(Full(batch, p, i)) = L
    BY <1>5, FullFacts
  <2>2. n = L
    BY <1>1, <2>1
  <2>3. Place(non, i) \in 1 .. Len(non) /\ rows[scoring + Place(non, i)] = Row(batch, p, i, L)
    BY <1>5, RowFacts, Zenon
  <2> DEFINE m == Place(non, i)
  <2> HIDE DEF m, scoring, rows, total, non
  <2>4. scoring + m \in 1 .. total
    BY <1>2, <1>3, <2>3 DEF m, total
  <2> QED BY <1>4, <2>2, <2>3, <2>4 DEF m, rows
<1>6. CASE p[i] # None
  <2> DEFINE j == n - L + 1
  <2>1. Len(Full(batch, p, i)) = L + config.k
    BY <1>6, FullFacts
  <2>2. j \in 1 .. size /\ L + j - 1 = n
    BY <1>1, <2>1
  <2> HIDE DEF j
  <2> DEFINE x == (Place(spec, i) - 1) * size + j
  <2>3. x \in 1 .. scoring /\ rows[x] = Row(batch, p, i, L + j - 1)
    <3> DEFINE X(y, z) == (Place(spec, y) - 1) * size + z
    <3>1. \A y \in DOMAIN p, z \in 1 .. size : p[y] # None =>
             /\ X(y, z) \in 1 .. scoring
             /\ rows[X(y, z)] = Row(batch, p, y, Len(Text(batch[y])) + z - 1)
      BY RowFacts, Zenon
    <3>2. x = X(i, j)
      BY DEF x
    <3> HIDE DEF spec, size, scoring, rows, X, x
    <3> QED BY <1>6, <2>2, <3>1, <3>2
  <2> HIDE DEF x, scoring, rows, total, non
  <2>4. x \in 1 .. total
    BY <1>2, <1>3, <2>3 DEF total
  <2> QED BY <1>4, <2>2, <2>3, <2>4 DEF rows
<1> QED BY <1>5, <1>6

-----------------------------------------------------------------------------
\* What the target model reads.

\* When the rows of a text were written, the cache has the longest of them.
LEMMA ScoredFacts ==
  ASSUME TypeInv, NEW batch \in Seq(Requests), IsInjective(batch), NEW p \in Proposals(batch),
         NEW i \in DOMAIN p,
         Covers(target_kv[batch[i]], Text(batch[i]), Len(Text(batch[i])) - 1)
  PROVE  Covers(Scored(Expanded(batch, p), batch[i]), Full(batch, p, i), Len(Full(batch, p, i)))
<1> DEFINE r == batch[i]
           L == Len(Text(r))
           full == Full(batch, p, i)
           M == Len(full)
           rows == Expanded(batch, p)
           mine == {x \in DOMAIN rows : rows[x].req = r}
           lengths == {Len(rows[x].text) : x \in mine}
           Of(n) == CHOOSE x \in mine : Len(rows[x].text) = n
           new == [n \in lengths |-> Last(rows[Of(n)].text)]
           kv == Scored(rows, r)
<1>1. kv = Over(target_kv[r], new)
  BY DEF Scored
<1>2. L \in Nat /\ L >= 1 /\ full \in Seq(Tokens) /\ Text(r) \in Seq(Tokens)
  BY FullFacts
<1>3. M \in Nat /\ L <= M
  <2>1. config.k \in Nat
    BY DEF TypeInv
  <2>2. (p[i] = None => M = L) /\ (p[i] # None => M = L + config.k)
    <3>1. p[i] = None => M = L
      BY FullFacts, Zenon
    <3>2. p[i] # None => M = L + config.k
      BY FullFacts, Zenon
    <3> QED BY <3>1, <3>2
  <2> HIDE DEF L, M
  <2> QED BY <1>2, <2>1, <2>2
<1>4. \A n \in L .. M : /\ Len(SubSeq(full, 1, n)) = n /\ Last(SubSeq(full, 1, n)) = full[n]
  BY FullCut
<1>5. DOMAIN p = DOMAIN batch
  BY ProposalFacts
<1>6. \A y \in DOMAIN p : \A n : Row(batch, p, y, n).req = batch[y] /\ Row(batch, p, y, n).text = SubSeq(Full(batch, p, y), 1, n)
  BY DEF Row
<1> HIDE DEF rows, full, M, L, kv
<1>7. ASSUME NEW x \in mine
      PROVE  \E n \in L .. M : rows[x] = Row(batch, p, i, n)
  <2>1. \A y \in DOMAIN rows : \E z \in DOMAIN p :
           \E n \in Len(Text(batch[z])) .. Len(Full(batch, p, z)) : rows[y] = Row(batch, p, z, n)
    BY RowFacts, Zenon DEF rows
  <2>2. PICK z \in DOMAIN p :
           \E n \in Len(Text(batch[z])) .. Len(Full(batch, p, z)) : rows[x] = Row(batch, p, z, n)
    BY <2>1
  <2>3. batch[z] = r
    BY <1>6, <2>2
  <2>4. z = i
    BY <1>5, <2>3 DEF IsInjective
  <2> QED BY <2>2, <2>4 DEF L, M, full
<1>8. \A x \in mine : \E n \in L .. M :
         Len(rows[x].text) = n /\ Last(rows[x].text) = full[n]
  <2> TAKE x \in mine
  <2>1. PICK n \in L .. M : rows[x] = Row(batch, p, i, n)
    BY <1>7
  <2>2. rows[x].text = SubSeq(full, 1, n)
    BY <1>6, <2>1 DEF full
  <2> QED BY <1>4, <2>2
<1>9. ASSUME NEW n \in L .. M
      PROVE  n \in lengths /\ new[n] = full[n]
  <2>1. PICK x \in DOMAIN rows : rows[x] = Row(batch, p, i, n)
    BY RowOf DEF rows, L, M, full
  <2>2. rows[x].req = r /\ rows[x].text = SubSeq(full, 1, n)
    <3>1. rows[x] = [req |-> r, text |-> SubSeq(full, 1, n)]
      BY <2>1 DEF Row, full
    <3> QED BY <3>1
  <2>3. x \in mine /\ Len(rows[x].text) = n
    BY <1>4, <2>2
  <2> HIDE DEF mine
  <2>4. n \in lengths
    BY <2>3
  <2>5. Of(n) \in mine /\ Len(rows[Of(n)].text) = n
    BY <2>3
  <2>6. new[n] = Last(rows[Of(n)].text)
    BY <2>4
  <2> HIDE DEF Of, new
  <2>7. Last(rows[Of(n)].text) = full[n]
    BY <1>8, <2>5
  <2> QED BY <2>4, <2>6, <2>7
<1>10. DOMAIN new = lengths /\ \A n \in lengths : n \in L .. M
  <2>1. \A n \in lengths : n \in L .. M
    <3> HIDE DEF mine
    <3> QED BY <1>8
  <2> QED BY <2>1
<1> HIDE DEF new, lengths
<1>11. ASSUME NEW n \in 1 .. M
       PROVE  n \in DOMAIN kv /\ kv[n] = full[n]
  <2>1. CASE n < L
    <3>1. n \notin lengths /\ n \in 1 .. L - 1
      BY <1>2, <1>10, <2>1
    <3>2. n \in DOMAIN target_kv[r] /\ target_kv[r][n] = Text(r)[n]
      BY <3>1 DEF Covers, L
    <3>3. full[n] = Text(r)[n]
      <4>1. p[i] # None => p[i] \in Seq(Tokens)
        BY ProposalFacts
      <4>2. full = IF p[i] = None THEN Text(r) ELSE Text(r) \o p[i]
        BY DEF full, Full
      <4> DEFINE s == Text(r)
                 q == p[i]
      <4>3. s \in Seq(Tokens) /\ n \in 1 .. Len(s)
        BY <1>2, <2>1 DEF L
      <4> HIDE DEF s, q
      <4>4. q \in Seq(Tokens) => (s \o q)[n] = s[n]
        BY <4>3, JoinedFacts
      <4> QED BY <4>1, <4>2, <4>4 DEF s, q
    <3>4. n \in DOMAIN target_kv[r] \cup DOMAIN new /\ n \notin DOMAIN new
      BY <1>10, <3>1, <3>2
    <3> QED BY <1>1, <3>2, <3>3, <3>4 DEF Over
  <2>2. CASE ~(n < L)
    <3>1. n \in L .. M
      BY <1>2, <1>3, <2>2
    <3>2. n \in DOMAIN new /\ new[n] = full[n]
      BY <1>9, <1>10, <3>1
    <3>3. n \in DOMAIN target_kv[r] \cup DOMAIN new
      BY <3>2
    <3> QED BY <1>1, <3>2, <3>3 DEF Over
  <2> QED BY <2>1, <2>2
<1> QED BY <1>11 DEF Covers, M, full, kv, rows

\* The contexts of the verdicts about a proposal.
Contexts(r, tokens) == [j \in 1 .. config.k + 1 |-> Text(r) \o SubSeq(tokens, 1, j - 1)]

\* Every row is judged in its own text.
LEMMA ContextsAreOwn ==
  ASSUME TypeInv, NEW batch \in Seq(Requests), IsInjective(batch), NEW p \in Proposals(batch),
         \A i \in DOMAIN batch :
            Covers(target_kv[batch[i]], Text(batch[i]), Len(Text(batch[i])) - 1),
         NEW x \in DOMAIN Expanded(batch, p)
  PROVE  ContextOf(Expanded(batch, p)[x], Expanded(batch, p)) = Expanded(batch, p)[x].text
<1> DEFINE rows == Expanded(batch, p)
<1>1. \A y \in DOMAIN rows : \E z \in DOMAIN p :
         \E n \in Len(Text(batch[z])) .. Len(Full(batch, p, z)) : rows[y] = Row(batch, p, z, n)
  BY RowFacts, Zenon
<1>0. PICK i \in DOMAIN p :
         \E n \in Len(Text(batch[i])) .. Len(Full(batch, p, i)) : rows[x] = Row(batch, p, i, n)
  BY <1>1
<1>2. PICK n \in Len(Text(batch[i])) .. Len(Full(batch, p, i)) : rows[x] = Row(batch, p, i, n)
  BY <1>0
<1> DEFINE full == Full(batch, p, i)
           kv == Scored(rows, batch[i])
<1>3. full \in Seq(Tokens) /\ Len(Text(batch[i])) \in Nat
  BY FullFacts
<1>4. Covers(kv, full, Len(full))
  <2>1. i \in DOMAIN batch
    BY ProposalFacts
  <2> QED BY <2>1, ScoredFacts
<1>5. rows[x].req = batch[i] /\ rows[x].text = SubSeq(full, 1, n) /\ Len(SubSeq(full, 1, n)) = n
  <2>1. rows[x] = [req |-> batch[i], text |-> SubSeq(full, 1, n)]
    BY <1>2 DEF Row
  <2>2. Len(SubSeq(full, 1, n)) = n
    BY FullCut
  <2> HIDE DEF rows, full
  <2> QED BY <2>1, <2>2
<1>6. ContextOf(rows[x], rows) = Read(kv, n)
  <2> HIDE DEF rows, full
  <2> QED BY <1>5 DEF ContextOf, kv
<1> HIDE DEF rows, full, kv
<1>7. Read(kv, n) = SubSeq(full, 1, n)
  <2>1. n \in Len(Text(batch[i])) .. Len(full)
    BY DEF full
  <2>2. n \in 0 .. Len(full) /\ Covers(kv, full, n)
    <3>1. n \in 0 .. Len(full) /\ \A m \in 1 .. n : m \in 1 .. Len(full)
      BY <1>3, <2>1
    <3> QED BY <1>4, <3>1 DEF Covers
  <2> QED BY <1>3, <2>2, ReadCovered
<1> QED BY <1>5, <1>6, <1>7 DEF rows

\* And each verdict is in the text that it is about.
LEMMA ScoresFacts ==
  ASSUME TypeInv, NEW batch \in Seq(Requests), IsInjective(batch), NEW p \in Proposals(batch),
         \A i \in DOMAIN batch :
            Covers(target_kv[batch[i]], Text(batch[i]), Len(Text(batch[i])) - 1),
         NEW i \in DOMAIN p
  PROVE  /\ p[i] = None => Scores(batch, p)[i][1] = Text(batch[i])
         /\ p[i] # None => Scores(batch, p)[i] = Contexts(batch[i], p[i])
<1> DEFINE spec == SpecIndices(p)
           non == NonSpecIndices(p)
           size == config.k + 1
           scoring == Len(spec) * size
           rows == Expanded(batch, p)
           texts == [x \in DOMAIN rows |-> rows[x].text]
           contexts == [x \in DOMAIN rows |-> ContextOf(rows[x], rows)]
           total == Len(contexts)
           X(y, z) == (Place(spec, y) - 1) * size + z
           L == Len(Text(batch[i]))
<1>1. contexts = texts
  BY ContextsAreOwn
<1>2. scoring \in Nat /\ rows \in Seq(RowSet) /\ Len(rows) = scoring + Len(non)
  BY RowFacts, Zenon
<1>3. Len(non) \in Nat
  <2>1. p \in Seq({None} \cup Seq(Tokens))
    BY ProposalFacts
  <2>2. non \in Seq(DOMAIN p)
    BY <2>1, IndexFacts
  <2> HIDE DEF non
  <2> QED BY <2>2
<1>4. \A z \in 1 .. size : p[i] # None =>
         X(i, z) \in 1 .. scoring /\ rows[X(i, z)] = Row(batch, p, i, L + z - 1)
  <2>1. \A y \in DOMAIN p, z \in 1 .. size : p[y] # None =>
           X(y, z) \in 1 .. scoring /\ rows[X(y, z)] = Row(batch, p, y, Len(Text(batch[y])) + z - 1)
    BY RowFacts, Zenon
  <2> HIDE DEF X, size, scoring, rows
  <2> QED BY <2>1
<1>5. p[i] = None =>
         Place(non, i) \in 1 .. Len(non) /\ rows[scoring + Place(non, i)] = Row(batch, p, i, L)
  BY RowFacts, Zenon
<1>6. Scores(batch, p)[i] =
         IF p[i] = None THEN <<SubSeq(contexts, scoring + 1, total)[Place(non, i)]>>
         ELSE [j \in 1 .. size |-> SubSeq(contexts, 1, scoring)[X(i, j)]]
  BY DEF Scores, ContractBatch, SplitScoringOutput
<1> HIDE DEF contexts, X, scoring, rows, non, size
<1>7. \A x \in DOMAIN rows : rows[x].text \in Seq(Tokens)
  <2>1. \A x \in DOMAIN rows : rows[x] \in RowSet
    BY <1>2
  <2> QED BY <2>1 DEF RowSet
<1>8. contexts \in Seq(Seq(Tokens)) /\ total = scoring + Len(non)
  <2> DEFINE T == Seq(Tokens)
             R == RowSet
             n == Len(rows)
  <2>1. rows \in Seq(R) /\ DOMAIN rows = 1 .. n /\ n \in Nat
    <3>1. rows \in Seq(R)
      BY <1>2
    <3> HIDE DEF R
    <3> QED BY <3>1
  <2>2. texts = [x \in 1 .. n |-> texts[x]] /\ \A x \in 1 .. n : texts[x] \in T
    BY <1>7, <2>1
  <2> HIDE DEF T, texts, n
  <2>3. texts \in Seq(T) /\ Len(texts) = n
    BY ONLY <2>1, <2>2
  <2> QED BY <1>1, <1>2, <2>3 DEF T, n
<1>9. \A x \in DOMAIN rows : contexts[x] = rows[x].text
  BY <1>1
<1>10. DOMAIN rows = 1 .. scoring + Len(non)
  BY <1>2
<1>11. ASSUME p[i] = None PROVE Scores(batch, p)[i][1] = Text(batch[i])
  <2> DEFINE m == Place(non, i)
  <2>1. m \in 1 .. Len(non) /\ rows[scoring + m] = [req |-> batch[i], text |-> Text(batch[i])]
    <3>1. Row(batch, p, i, L) = [req |-> batch[i], text |-> Text(batch[i])]
      BY FullFacts, Zenon
    <3> QED BY <1>5, <1>11, <3>1
  <2> HIDE DEF m, total
  <2>2. SubSeq(contexts, scoring + 1, total)[m] = contexts[scoring + m] /\ scoring + m \in DOMAIN rows
    <3> DEFINE T == Seq(Tokens)
    <3>1. contexts \in Seq(T) /\ total = Len(contexts)
      BY <1>8 DEF total
    <3> HIDE DEF T
    <3>2. scoring + m \in 1 .. total /\ m \in 1 .. total - scoring
      BY <1>2, <1>3, <1>8, <2>1
    <3>3. SubSeq(contexts, scoring + 1, total)[m] = contexts[scoring + m]
      BY <1>2, <3>1, <3>2
    <3> QED BY <1>8, <1>10, <3>2, <3>3
  <2>3. contexts[scoring + m] = Text(batch[i])
    BY <1>9, <2>1, <2>2
  <2> DEFINE v == SubSeq(contexts, scoring + 1, total)[m]
  <2>4. Scores(batch, p)[i] = <<v>>
    BY <1>6, <1>11 DEF m
  <2>5. v = Text(batch[i])
    BY <2>2, <2>3
  <2> HIDE DEF v
  <2> QED BY <2>4, <2>5
<1>12. ASSUME p[i] # None
       PROVE  Scores(batch, p)[i] = [j \in 1 .. size |-> Text(batch[i]) \o SubSeq(p[i], 1, j - 1)]
  <2>1. ASSUME NEW j \in 1 .. size
        PROVE  SubSeq(contexts, 1, scoring)[X(i, j)] = Text(batch[i]) \o SubSeq(p[i], 1, j - 1)
    <3>1. X(i, j) \in 1 .. scoring /\ rows[X(i, j)] = Row(batch, p, i, L + j - 1)
      BY <1>4, <1>12
    <3> DEFINE x == X(i, j)
               T == Seq(Tokens)
    <3> HIDE DEF x, T, total, L
    <3>2. x \in DOMAIN rows /\ scoring \in 0 .. Len(contexts)
      BY <1>2, <1>3, <1>8, <1>10, <3>1 DEF x, total
    <3>3. SubSeq(contexts, 1, scoring)[x] = contexts[x]
      BY <1>8, <3>1, <3>2, CutFacts DEF T, x
    <3>4. contexts[x] = SubSeq(Full(batch, p, i), 1, L + j - 1)
      <4>1. rows[x] = [req |-> batch[i], text |-> SubSeq(Full(batch, p, i), 1, L + j - 1)]
        BY <3>1 DEF Row, x
      <4> QED BY <1>9, <3>2, <4>1
    <3>5. j \in 1 .. config.k + 1
      BY DEF size
    <3>6. SubSeq(Full(batch, p, i), 1, L + j - 1) = Text(batch[i]) \o SubSeq(p[i], 1, j - 1)
      BY <1>12, <3>5, FullRows DEF L
    <3> QED BY <3>3, <3>4, <3>6 DEF x
  <2> QED BY <1>6, <1>12, <2>1
<1>13. ASSUME p[i] # None PROVE Scores(batch, p)[i] = Contexts(batch[i], p[i])
  BY <1>12, <1>13 DEF Contexts, size
<1> QED BY <1>11, <1>13

-----------------------------------------------------------------------------
\* What a verdict makes of a proposal.

LEMMA MakeGood ==
  ASSUME NEW r, NEW c \in Outputs, NEW n \in 1 .. Len(c), NEW q \in Seq(Tokens), n - 1 <= Len(q),
         \A j \in 1 .. n :
            /\ c[j] \in Cells /\ c[j].token \in Target(r, c[j].context)
            /\ c[j].context = Text(r) \o SubSeq(q, 1, j - 1),
         \A j \in 1 .. n - 1 : c[j].token = q[j],
         \A j \in n + 1 .. Len(c) : c[j] = NoToken
  PROVE  Good(r, c, n)
<1> DEFINE T == Cells \cup {NoToken}
<1>1. c \in Seq(T) /\ n \in Nat
  BY DEF Outputs
<1>2. ASSUME NEW j \in 1 .. n
      PROVE  SubSeq(q, 1, j - 1) = TokensOf(SubSeq(c, 1, j - 1))
  <2> DEFINE u == SubSeq(c, 1, j - 1)
  <2>1. j - 1 \in 0 .. Len(c) /\ j - 1 \in 0 .. Len(q) /\ \A m \in 1 .. j - 1 : m \in 1 .. n - 1 /\ m \in 1 .. n
    BY <1>1
  <2>2. u \in Seq(T) /\ Len(u) = j - 1 /\ \A m \in 1 .. j - 1 : u[m] = c[m]
    <3> HIDE DEF T
    <3> QED BY <1>1, <2>1, CutFacts
  <2>3. \A m \in 1 .. Len(u) : u[m] \in Cells
    BY <2>1, <2>2
  <2> HIDE DEF u, T
  <2>4. u \in Seq(Cells)
    BY <2>2, <2>3
  <2>5. /\ TokensOf(u) \in Seq(Tokens) /\ Len(TokensOf(u)) = j - 1
        /\ \A m \in 1 .. j - 1 : TokensOf(u)[m] = u[m].token
    BY <2>2, <2>4, TokensFacts
  <2>6. /\ SubSeq(q, 1, j - 1) \in Seq(Tokens) /\ Len(SubSeq(q, 1, j - 1)) = j - 1
        /\ \A m \in 1 .. j - 1 : SubSeq(q, 1, j - 1)[m] = q[m]
    BY <2>1, CutFacts
  <2>7. \A m \in 1 .. j - 1 : SubSeq(q, 1, j - 1)[m] = TokensOf(u)[m]
    BY <2>1, <2>2, <2>5, <2>6
  <2>8. SubSeq(q, 1, j - 1) = TokensOf(u)
    BY <2>5, <2>6, <2>7, SameSequence
  <2> QED BY <2>8 DEF u
<1> QED BY <1>2 DEF Good

\* The caches that have what was guessed have what is left of it.
LEMMA CoversGood ==
  ASSUME TypeInv, NEW r \in Requests, NEW c, NEW n, Good(r, c, n), NEW q \in Seq(Tokens),
         n - 1 <= Len(q), \A j \in 1 .. n - 1 : c[j].token = q[j],
         NEW kv, Covers(kv, Text(r) \o q, Len(Text(r)) + Len(q))
  PROVE  Covers(kv, Text(r) \o TokensOf(SubSeq(c, 1, n)), Len(Text(r)) + n - 1)
<1> DEFINE s == Text(r)
           L == Len(s)
           v == TokensOf(SubSeq(c, 1, n))
<1>1. s \in Seq(Tokens) /\ L \in Nat /\ n \in Nat /\ n >= 1
  BY TextFacts DEF Good, Outputs
<1>2. v \in Seq(Tokens) /\ Len(v) = n /\ \A j \in 1 .. n : v[j] = c[j].token
  <2> DEFINE u == SubSeq(c, 1, n)
  <2>1. n \in 0 .. n
    BY <1>1
  <2>2. u \in Seq(Cells) /\ Len(u) = n /\ \A j \in 1 .. n : u[j] = c[j]
    BY <2>1, GoodFacts
  <2> HIDE DEF u
  <2>3. /\ TokensOf(u) \in Seq(Tokens) /\ Len(TokensOf(u)) = Len(u)
        /\ \A j \in 1 .. Len(u) : TokensOf(u)[j] = u[j].token
    BY <2>2, TokensFacts
  <2>4. v = TokensOf(u)
    BY DEF u
  <2> HIDE DEF v
  <2> QED BY <2>2, <2>3, <2>4
<1> HIDE DEF s, v
<1>3. ASSUME NEW j \in 1 .. L + n - 1
      PROVE  j \in 1 .. L + Len(q) /\ (s \o q)[j] = (s \o v)[j]
  <2>1. j \in 1 .. L + Len(q)
    BY <1>1
  <2>2. CASE j <= L
    <3>1. j \in 1 .. Len(s)
      BY <2>2
    <3> QED BY <1>1, <1>2, <2>1, <3>1, JoinedFacts
  <2>3. CASE ~(j <= L)
    <3> DEFINE m == j - L
    <3>1. m \in 1 .. n - 1 /\ m \in 1 .. n /\ m \in 1 .. Len(q) /\ j = L + m
      BY <1>1, <2>3
    <3> HIDE DEF m
    <3>2. (s \o q)[L + m] = q[m]
      BY <1>1, <3>1, JoinedFacts
    <3>3. (s \o v)[L + m] = v[m]
      BY <1>1, <1>2, <3>1, JoinedFacts
    <3> QED BY <1>2, <2>1, <3>1, <3>2, <3>3
  <2> QED BY <2>2, <2>3
<1>4. Covers(kv, s \o q, L + Len(q))
  BY DEF s
<1> QED BY <1>3, <1>4 DEF Covers, s, v

\* Columns without any token can be left out.
LEMMA GoodCut ==
  ASSUME NEW r, NEW c, NEW n, Good(r, c, n), NEW m \in n .. Len(c)
  PROVE  /\ Good(r, SubSeq(c, 1, m), n) /\ Len(SubSeq(c, 1, m)) = m
         /\ SubSeq(SubSeq(c, 1, m), 1, n) = SubSeq(c, 1, n)
<1> DEFINE T == Cells \cup {NoToken}
           u == SubSeq(c, 1, m)
<1>1. c \in Seq(T) /\ n \in 1 .. Len(c) /\ n \in Nat /\ Len(c) \in Nat
  BY DEF Good, Outputs
<1>2. m \in 0 .. Len(c) /\ n \in 0 .. m /\ n \in 1 .. m
  BY <1>1
<1>3. /\ u \in Seq(T) /\ Len(u) = m /\ \A j \in 1 .. m : u[j] = c[j]
      /\ \A j \in 0 .. m : SubSeq(u, 1, j) = SubSeq(c, 1, j)
  <2> HIDE DEF T
  <2> QED BY <1>1, <1>2, CutFacts
<1> HIDE DEF u
<1>4. ASSUME NEW j \in 1 .. n
      PROVE  /\ u[j] \in Cells /\ u[j].token \in Target(r, u[j].context)
             /\ u[j].context = Text(r) \o TokensOf(SubSeq(u, 1, j - 1))
  <2>1. j \in 1 .. m /\ j - 1 \in 0 .. m
    BY <1>1, <1>2
  <2> QED BY <1>3, <2>1 DEF Good
<1>5. ASSUME NEW j \in n + 1 .. Len(u) PROVE u[j] = NoToken
  <2>1. j \in 1 .. m /\ j \in n + 1 .. Len(c)
    BY <1>1, <1>2, <1>3
  <2> QED BY <1>3, <2>1 DEF Good
<1>6. Good(r, u, n)
  <2>1. u \in Outputs /\ n \in 1 .. Len(u)
    BY <1>2, <1>3 DEF Outputs
  <2> QED BY <1>4, <1>5, <2>1 DEF Good
<1> QED BY <1>2, <1>3, <1>6 DEF u

LEMMA LimitFacts ==
  ASSUME config.k \in Nat, NEW accepted
  PROVE  /\ Limit(accepted) \in 1 .. config.k + 1
         /\ \A j \in 1 .. config.k : j < Limit(accepted) => accepted[j]
         /\ Limit(accepted) <= config.k => ~accepted[Limit(accepted)]
<1> DEFINE S == {j \in 1 .. config.k : ~accepted[j]} \cup {config.k + 1}
<1>1. S \in SUBSET Nat /\ S # {} /\ \A j \in S : j \in 1 .. config.k + 1
  OBVIOUS
<1>2. \A j \in 1 .. config.k : ~accepted[j] => j \in S
  OBVIOUS
<1>3. \A j \in S : j <= config.k => ~accepted[j]
  OBVIOUS
<1>4. Limit(accepted) = Min(S)
  BY DEF Limit
<1> HIDE DEF S
<1>5. Min(S) \in S /\ \A j \in S : Min(S) <= j
  BY <1>1, MinFacts
<1>6. ASSUME NEW j \in 1 .. config.k, j < Min(S) PROVE accepted[j]
  <2> SUFFICES ASSUME ~accepted[j] PROVE FALSE
    OBVIOUS
  <2>1. j \in S /\ Min(S) \in Nat
    BY <1>1, <1>2, <1>5
  <2>2. Min(S) <= j
    BY <1>5, <2>1
  <2> QED BY ONLY <1>6, <2>1, <2>2
<1> QED BY <1>1, <1>3, <1>4, <1>5, <1>6

\* What the rejection sampler leaves of a proposal is good.
LEMMA JudgedGood ==
  ASSUME TypeInv, NEW r \in Requests, NEW tokens \in Seq(Tokens), Len(tokens) = config.k,
         NEW c \in Judged(r, tokens, Contexts(r, tokens))
  PROVE  /\ c \in Outputs /\ Len(c) = config.k + 1
         /\ \E n \in 1 .. config.k + 1 :
               /\ Good(r, c, n) /\ (UsesKv => n <= config.k)
               /\ \A j \in 1 .. n - 1 : c[j].token = tokens[j]
<1> DEFINE k == config.k
           contexts == [j \in 1 .. k + 1 |-> Text(r) \o SubSeq(tokens, 1, j - 1)]
           T == Cells \cup {NoToken}
<1>1. k \in Nat /\ k >= 1 /\ Text(r) \in Seq(Tokens)
  BY TextFacts DEF TypeInv
<1>2. PICK accepted \in [1 .. k -> BOOLEAN], token \in Tokens :
         MayJudge(r, tokens, contexts, accepted, token) /\ c = CreateOutput(tokens, contexts, accepted, token)
  <2>1. c \in Judged(r, tokens, contexts)
    BY DEF Contexts
  <2> HIDE DEF contexts
  <2>2. PICK v \in [1 .. k -> BOOLEAN] \X Tokens :
           /\ MayJudge(r, tokens, contexts, v[1], v[2])
           /\ c = CreateOutput(tokens, contexts, v[1], v[2])
    BY <2>1, Zenon DEF Judged
  <2>3. v[1] \in [1 .. k -> BOOLEAN] /\ v[2] \in Tokens
    OBVIOUS
  <2> QED BY <2>2, <2>3, Zenon
<1> DEFINE limit == Limit(accepted)
           n == IF limit <= k \/ BonusEnabled THEN limit ELSE k
<1>3. limit \in 1 .. k + 1 /\ \A j \in 1 .. k : j < limit => accepted[j]
  BY <1>1, LimitFacts
<1>4. /\ \A j \in 1 .. k : accepted[j] => tokens[j] \in Target(r, contexts[j])
      /\ token \in Target(r, contexts[limit])
  BY <1>2 DEF MayJudge
<1>5. c = [j \in 1 .. k + 1 |->
             IF j < limit THEN Cell(tokens[j], contexts[j])
             ELSE IF j = limit /\ (j <= k \/ BonusEnabled) THEN Cell(token, contexts[j])
             ELSE NoToken]
  BY <1>2 DEF CreateOutput
<1>6. \A j \in 1 .. k + 1 : contexts[j] \in Seq(Tokens) /\ contexts[j] = Text(r) \o SubSeq(tokens, 1, j - 1)
  <2> TAKE j \in 1 .. k + 1
  <2> DEFINE s == Text(r)
             u == SubSeq(tokens, 1, j - 1)
  <2>1. j - 1 \in 0 .. Len(tokens)
    BY <1>1
  <2>2. u \in Seq(Tokens) /\ s \in Seq(Tokens)
    BY <1>1, <2>1, CutFacts
  <2>3. contexts[j] = s \o u
    OBVIOUS
  <2> HIDE DEF s, u, contexts
  <2>4. s \o u \in Seq(Tokens)
    BY <2>2
  <2> QED BY <2>3, <2>4 DEF s, u
<1> HIDE DEF contexts, limit, k
<1>7. n \in 1 .. k + 1 /\ n <= limit /\ (UsesKv => n <= k) /\ (limit <= n \/ (n = k /\ limit = k + 1 /\ ~BonusEnabled))
  BY <1>1, <1>3 DEF BonusEnabled
<1>8. n = limit => limit <= k \/ BonusEnabled
  BY <1>1, <1>3
<1> HIDE DEF n
<1>9. \A j \in 1 .. k : tokens[j] \in Tokens
  BY DEF k
<1>10. ASSUME NEW j \in 1 .. n
       PROVE  /\ c[j] \in Cells /\ c[j].token \in Target(r, contexts[j]) /\ c[j].context = contexts[j]
              /\ j < limit => c[j].token = tokens[j]
  <2>1. j \in 1 .. k + 1 /\ j <= limit
    BY <1>1, <1>3, <1>7
  <2>2. CASE j < limit
    <3>1. j \in 1 .. k
      BY <1>1, <1>3, <2>1, <2>2
    <3>2. c[j] = Cell(tokens[j], contexts[j])
      BY <1>5, <2>1, <2>2
    <3>3. tokens[j] \in Target(r, contexts[j]) /\ tokens[j] \in Tokens
      BY <1>3, <1>4, <1>9, <2>2, <3>1
    <3> QED BY <1>6, <2>1, <3>2, <3>3 DEF Cell, Cells
  <2>3. CASE ~(j < limit)
    <3>1. j = limit /\ n = limit
      BY <1>1, <1>3, <1>7, <2>1, <2>3
    <3>2. c[j] = Cell(token, contexts[j])
      BY <1>5, <1>8, <2>1, <2>3, <3>1
    <3> QED BY <1>2, <1>4, <1>6, <2>1, <2>3, <3>1, <3>2 DEF Cell, Cells
  <2> QED BY <2>2, <2>3
<1>11. ASSUME NEW j \in n + 1 .. k + 1
       PROVE  c[j] = NoToken
  <2>1. j \in 1 .. k + 1 /\ ~(j < limit) /\ (j = limit => n = k /\ j = k + 1 /\ ~BonusEnabled)
    BY <1>1, <1>3, <1>7
  <2>2. ~(j <= k) \/ j # limit
    BY <1>1, <2>1
  <2> QED BY <1>5, <2>1, <2>2
<1>12. c \in Seq(T) /\ Len(c) = k + 1
  <2>1. \A j \in 1 .. k + 1 : j \in 1 .. n \/ j \in n + 1 .. k + 1
    BY <1>1, <1>7
  <2>2. \A j \in 1 .. k + 1 : c[j] \in T
    BY <1>10, <1>11, <2>1
  <2>3. c = [j \in 1 .. k + 1 |-> c[j]]
    BY <1>5
  <2> DEFINE K == k + 1
  <2>4. K \in Nat
    BY <1>1
  <2>5. c = [j \in 1 .. K |-> c[j]] /\ \A j \in 1 .. K : c[j] \in T
    BY <2>2, <2>3
  <2> HIDE DEF T, K
  <2>6. c \in Seq(T) /\ Len(c) = K
    BY ONLY <2>4, <2>5
  <2> QED BY <2>6 DEF K
<1>13. \A j \in 1 .. n - 1 : c[j].token = tokens[j]
  <2> TAKE j \in 1 .. n - 1
  <2>1. j \in 1 .. n /\ j < limit
    BY <1>1, <1>3, <1>7
  <2> QED BY <1>10, <2>1
<1>14. Good(r, c, n)
  <2>1. n \in 1 .. Len(c) /\ n - 1 <= Len(tokens) /\ c \in Outputs
    BY <1>1, <1>7, <1>12 DEF Outputs, k
  <2>2. \A j \in 1 .. n :
           /\ c[j] \in Cells /\ c[j].token \in Target(r, c[j].context)
           /\ c[j].context = Text(r) \o SubSeq(tokens, 1, j - 1)
    <3> TAKE j \in 1 .. n
    <3>1. j \in 1 .. k + 1
      BY <1>1, <1>7
    <3> QED BY <1>6, <1>10, <3>1
  <2>3. \A j \in n + 1 .. Len(c) : c[j] = NoToken
    BY <1>11, <1>12
  <2> QED BY <1>13, <2>1, <2>2, <2>3, MakeGood
<1> QED BY <1>7, <1>12, <1>13, <1>14 DEF Outputs, k

\* What a step that speculates may give to batch[i], and the caches it leaves.
Verdicts(batch, p, i) ==
  IF p[i] = None THEN Plain(batch[i], Scores(batch, p)[i][1])
  ELSE Judged(batch[i], p[i], Scores(batch, p)[i])
TargetAfter(batch, p, i) == Scored(Expanded(batch, p), batch[i])
DraftAfter(batch, p, i) ==
  IF p[i] = None \/ ~UsesKv THEN draft_kv[batch[i]] ELSE DraftKvAfter(batch[i], p[i])

LEMMA DraftFacts ==
  ASSUME TypeInv, NEW r \in Requests, NEW tokens \in Seq(Tokens), Len(tokens) = config.k,
         Covers(draft_kv[r], Text(r), Len(Text(r)) - 1)
  PROVE  LET q == SubSeq(tokens, 1, config.k - 1)
         IN  /\ q \in Seq(Tokens) /\ Len(q) = config.k - 1
             /\ \A j \in 1 .. config.k - 1 : q[j] = tokens[j]
             /\ Covers(DraftKvAfter(r, tokens), Text(r) \o q, Len(Text(r)) + Len(q))
<1> DEFINE k == config.k
           q == SubSeq(tokens, 1, k - 1)
           s == Text(r)
           L == Len(s)
           seen == s \o q
           kv == draft_kv[r]
<1>1. s \in Seq(Tokens) /\ L \in Nat /\ L >= 1 /\ k \in Nat /\ k >= 1
  BY TextFacts DEF TypeInv
<1>2. q \in Seq(Tokens) /\ Len(q) = k - 1 /\ \A j \in 1 .. k - 1 : q[j] = tokens[j]
  <2>1. k - 1 \in 0 .. Len(tokens)
    BY <1>1
  <2> HIDE DEF k
  <2> QED BY <2>1, CutFacts
<1>3. DraftKvAfter(r, tokens) = Written(kv, seen, L)
  BY DEF DraftKvAfter
<1>4. Covers(kv, s, L - 1)
  OBVIOUS
<1> HIDE DEF s, q, kv, k
<1>5. seen \in Seq(Tokens) /\ Len(seen) = L + Len(q)
  BY <1>1, <1>2
<1>6. Covers(kv, seen, L - 1)
  <2>1. L - 1 \in 0 .. Len(s)
    BY <1>1
  <2> QED BY <1>1, <1>2, <1>4, <2>1, CoversJoined
<1>7. L \in 1 .. Len(seen) + 1
  BY <1>1, <1>2, <1>5
<1> HIDE DEF seen, L
<1>8. Covers(Written(kv, seen, L), seen, Len(seen))
  BY <1>5, <1>6, <1>7, WrittenCovers
<1> QED BY <1>2, <1>3, <1>5, <1>8 DEF seen, s, q, k, L

LEMMA VerdictsGood ==
  ASSUME TypeInv, NEW batch \in Seq(Requests), IsInjective(batch), NEW p \in Proposals(batch),
         \A i \in DOMAIN batch :
            /\ Covers(target_kv[batch[i]], Text(batch[i]), Len(Text(batch[i])) - 1)
            /\ UsesKv /\ NeverOff /\ Drafted(batch[i]) =>
                  Covers(draft_kv[batch[i]], Text(batch[i]), Len(Text(batch[i])) - 1),
         NEW i \in DOMAIN p, NEW c \in Verdicts(batch, p, i)
  PROVE  /\ c \in Outputs /\ Len(c) = config.k + 1
         /\ Computed(batch[i], c, TargetAfter(batch, p, i), DraftAfter(batch, p, i))
<1> DEFINE r == batch[i]
           k == config.k
           full == Full(batch, p, i)
           t == TargetAfter(batch, p, i)
           d == DraftAfter(batch, p, i)
<1>1. /\ i \in DOMAIN batch /\ r \in Requests /\ (p[i] # None => p[i] \in Seq(Tokens) /\ Len(p[i]) = k)
      /\ UsesKv /\ Drafted(r) => p[i] # None
  BY ProposalFacts
<1>2. k \in Nat /\ k >= 1 /\ Text(r) \in Seq(Tokens) /\ Len(Text(r)) \in Nat
  <2>1. Text(r) \in Seq(Tokens)
    BY <1>1, TextFacts
  <2>2. k \in Nat /\ k >= 1
    BY DEF TypeInv
  <2> HIDE DEF r
  <2> QED BY <2>1, <2>2
<1>3. Covers(t, full, Len(full))
  BY <1>1, ScoredFacts DEF TargetAfter
<1>4. UsesKv /\ NeverOff /\ Drafted(r) => Covers(draft_kv[r], Text(r), Len(Text(r)) - 1)
  BY <1>1
<1>5. CASE p[i] = None
  <2>1. Scores(batch, p)[i][1] = Text(r)
    BY <1>5, ScoresFacts
  <2>2. PICK token \in Target(r, Text(r)) :
           c = [j \in 1 .. k + 1 |-> IF j = 1 THEN Cell(token, Text(r)) ELSE NoToken]
    BY <1>5, <2>1 DEF Verdicts, Plain
  <2>3. full = Text(r)
    BY <1>5 DEF Full
  <2>4. k + 1 \in Nat \ {0}
    BY <1>2
  <2> HIDE DEF r, k, full, t, d
  <2>5. Covers(t, Text(r), Len(Text(r)))
    BY <1>3, <2>3
  <2>6. UsesKv /\ NeverOff /\ Drafted(r) => Covers(d, Text(r), Len(Text(r)))
    BY <1>1, <1>5
  <2>7. Len(c) = k + 1 /\ Computed(r, c, t, d)
    <3> DEFINE m == k + 1
               u == [j \in 1 .. m |-> IF j = 1 THEN Cell(token, Text(r)) ELSE NoToken]
    <3>1. c = u
      BY <2>2
    <3>2. m \in Nat \ {0}
      BY <2>4
    <3> HIDE DEF m
    <3>3. Len(u) = m /\ Computed(r, u, t, d)
      BY <1>1, <2>5, <2>6, <3>2, PlainGood
    <3> QED BY <3>1, <3>3, Zenon DEF m
  <2>8. c \in Outputs
    BY <2>7 DEF Computed, Good
  <2> QED BY <2>7, <2>8 DEF r, k, t, d
<1>6. CASE p[i] # None
  <2> DEFINE tokens == p[i]
             contexts == Contexts(r, tokens)
  <2>1. tokens \in Seq(Tokens) /\ Len(tokens) = k
    BY <1>1, <1>6
  <2>2. Scores(batch, p)[i] = contexts
    BY <1>6, ScoresFacts
  <2>3. c \in Judged(r, tokens, contexts)
    BY <1>6, <2>2 DEF Verdicts, contexts
  <2>4. full = Text(r) \o tokens /\ Len(full) = Len(Text(r)) + Len(tokens)
    <3>1. full = Text(r) \o tokens
      BY <1>6 DEF Full
    <3> DEFINE s == Text(r)
    <3>2. s \in Seq(Tokens)
      BY <1>2
    <3> HIDE DEF full, tokens, s
    <3>3. Len(s \o tokens) = Len(s) + Len(tokens)
      BY ONLY <2>1, <3>2, JoinedFacts
    <3> QED BY <3>1, <3>3 DEF s
  <2>5. UsesKv => d = DraftKvAfter(r, tokens)
    BY <1>6 DEF DraftAfter
  <2> HIDE DEF r, full, t, d, tokens
  <2>6. /\ c \in Outputs /\ Len(c) = k + 1
        /\ \E n \in 1 .. k + 1 :
              /\ Good(r, c, n) /\ (UsesKv => n <= k)
              /\ \A j \in 1 .. n - 1 : c[j].token = tokens[j]
    BY <1>1, <2>1, <2>3, JudgedGood DEF k
  <2>7. PICK n \in 1 .. k + 1 :
           /\ Good(r, c, n) /\ (UsesKv => n <= k)
           /\ \A j \in 1 .. n - 1 : c[j].token = tokens[j]
    BY <2>6
  <2> HIDE DEF k
  <2> DEFINE text == Text(r) \o TokensOf(SubSeq(c, 1, n))
             size == Len(Text(r)) + n - 1
  <2>8. Covers(t, text, size)
    <3>1. n - 1 <= Len(tokens) /\ Covers(t, Text(r) \o tokens, Len(Text(r)) + Len(tokens))
      BY <1>2, <1>3, <2>1, <2>4
    <3> QED BY <1>1, <2>1, <2>7, <3>1, CoversGood
  <2>9. ASSUME UsesKv, NeverOff, Drafted(r)
        PROVE  Covers(d, text, size)
    <3> DEFINE q == SubSeq(tokens, 1, k - 1)
    <3>1. Covers(draft_kv[r], Text(r), Len(Text(r)) - 1)
      BY <1>4, <2>9
    <3>2. /\ q \in Seq(Tokens) /\ Len(q) = k - 1
          /\ \A j \in 1 .. k - 1 : q[j] = tokens[j]
          /\ Covers(DraftKvAfter(r, tokens), Text(r) \o q, Len(Text(r)) + Len(q))
      BY <1>1, <2>1, <3>1, DraftFacts DEF k
    <3> HIDE DEF q
    <3>3. n - 1 <= Len(q) /\ \A j \in 1 .. n - 1 : c[j].token = q[j]
      <4>1. n - 1 <= k - 1 /\ \A j \in 1 .. n - 1 : j \in 1 .. k - 1
        BY <1>2, <2>7, <2>9
      <4> QED BY <2>7, <3>2, <4>1
    <3>4. Covers(d, Text(r) \o q, Len(Text(r)) + Len(q))
      BY <2>5, <2>9, <3>2
    <3> QED BY <1>1, <2>7, <3>2, <3>3, <3>4, CoversGood
  <2>10. n \in 1 .. Len(c)
    BY <2>6
  <2>11. Computed(r, c, t, d)
    BY <2>7, <2>8, <2>9, <2>10 DEF Computed
  <2> QED BY <2>6, <2>11 DEF r, k, t, d
<1> QED BY <1>5, <1>6

\* Each request of the batch has one of the verdicts about itself.
LEMMA VerifiedFacts ==
  ASSUME NEW batch, NEW p \in Seq({None} \cup Seq(Tokens)),
         \A i \in DOMAIN p : Verdicts(batch, p, i) \subseteq Outputs,
         NEW cells \in VerifyTokens(batch, p, Scores(batch, p))
  PROVE  DOMAIN cells = DOMAIN p /\ \A i \in DOMAIN p : cells[i] \in Verdicts(batch, p, i)
<1> DEFINE order == OriginalIndices(p)
           D == DOMAIN p
           outputs == [m \in DOMAIN order |-> Verdicts(batch, p, order[m])]
<1>1. order \in Seq(D) /\ IsInjective(order) /\ Range(order) = D
  BY IndexFacts
<1>2. PICK rows \in OneOfEach(outputs) : cells = Rearranged(rows, order)
  BY DEF VerifyTokens, Verdicts
<1> HIDE DEF order
<1>3. DOMAIN order = 1 .. Len(order) /\ Len(order) \in Nat /\ \A m \in DOMAIN order : order[m] \in D
  BY <1>1
<1>4. \A m \in DOMAIN order : outputs[m] = Verdicts(batch, p, order[m]) /\ outputs[m] \in SUBSET Outputs
  BY <1>3
<1>5. outputs \in Seq(SUBSET Outputs) /\ Len(outputs) = Len(order)
  <2> DEFINE T == SUBSET Outputs
             n == Len(order)
  <2>1. outputs = [m \in 1 .. n |-> outputs[m]] /\ (\A m \in 1 .. n : outputs[m] \in T) /\ n \in Nat
    BY <1>3, <1>4
  <2> HIDE DEF T, n, outputs
  <2>2. outputs \in Seq(T) /\ Len(outputs) = n
    BY ONLY <2>1
  <2> QED BY <2>2 DEF T, n
<1> HIDE DEF outputs
<1>6. \A m \in 1 .. Len(order) : rows[m] \in outputs[m]
  BY <1>2, <1>5, OneOfEachFacts
<1>7. DOMAIN cells = D /\ \A i \in D : cells[i] = rows[Place(order, i)]
  BY <1>1, <1>2 DEF Rearranged
<1>8. ASSUME NEW i \in D PROVE cells[i] \in Verdicts(batch, p, i)
  <2>1. Place(order, i) \in 1 .. Len(order) /\ order[Place(order, i)] = i
    BY <1>1, PlaceFacts
  <2> QED BY <1>3, <1>4, <1>6, <1>7, <2>1
<1> QED BY <1>7, <1>8

\* No step that gives a token to a request is left out.
LEMMA SampledFacts ==
  ASSUME config.k \in Nat, NEW batch, NEW cells, NEW t, NEW d,
         \A i \in DOMAIN cells :
            Len(cells[i]) = config.k + 1 /\ Computed(batch[i], cells[i], t[i], d[i])
  PROVE  \A i \in DOMAIN cells : Computed(batch[i], SampledSteps(cells)[i], t[i], d[i])
<1> DEFINE k == config.k
           empty == {j \in 1 .. k + 1 : \A i \in DOMAIN cells : cells[i][j] = NoToken}
           all == empty \cup {k + 2}
           steps == Min(all) - 1
<1>1. all \in SUBSET Nat /\ all # {} /\ k + 2 \in all /\ k \in Nat
  OBVIOUS
<1>2. Min(all) \in all /\ Min(all) \in Nat /\ Min(all) <= k + 2
  <2> HIDE DEF all
  <2>1. Min(all) \in all /\ \A j \in all : Min(all) <= j
    BY <1>1, MinFacts
  <2> QED BY <1>1, <2>1
<1>3. \A i \in DOMAIN cells : SampledSteps(cells)[i] = SubSeq(cells[i], 1, steps)
  BY DEF SampledSteps
<1>4. ASSUME NEW i \in DOMAIN cells
      PROVE  Computed(batch[i], SampledSteps(cells)[i], t[i], d[i])
  <2> DEFINE r == batch[i]
             c == cells[i]
  <2>1. Len(c) = k + 1
    OBVIOUS
  <2>2. PICK n \in 1 .. Len(c) :
           /\ Good(r, c, n)
           /\ Covers(t[i], Text(r) \o TokensOf(SubSeq(c, 1, n)), Len(Text(r)) + n - 1)
           /\ UsesKv /\ NeverOff /\ Drafted(r) =>
                 Covers(d[i], Text(r) \o TokensOf(SubSeq(c, 1, n)), Len(Text(r)) + n - 1)
    BY DEF Computed
  <2>3. \A j \in all : n < j
    <3> TAKE j \in all
    <3>1. CASE j = k + 2
      BY <1>1, <2>1, <3>1
    <3>2. CASE j \in empty
      <4>1. cells[i][j] = NoToken /\ j \in Nat /\ j >= 1
        BY <3>2
      <4>2. n \in Nat /\ (j <= n => c[j] \in Cells)
        BY <2>2, <4>1 DEF Good, Outputs
      <4>3. ~(j <= n)
        BY <4>1, <4>2, CellFacts
      <4> QED BY <4>1, <4>2, <4>3
    <3> QED BY <3>1, <3>2
  <2>4. steps \in n .. Len(c)
    <3>0. n \in Nat
      BY <1>1, <2>1
    <3> HIDE DEF all
    <3>1. n < Min(all) /\ n \in Nat
      BY <1>2, <2>3, <3>0
    <3> QED BY <1>1, <1>2, <2>1, <3>1
  <2> HIDE DEF steps, r, c, all
  <2> DEFINE u == SubSeq(c, 1, steps)
  <2>5. Good(r, u, n) /\ Len(u) = steps /\ SubSeq(u, 1, n) = SubSeq(c, 1, n)
    BY <2>2, <2>4, GoodCut
  <2>6. SampledSteps(cells)[i] = u
    BY <1>3 DEF c
  <2> HIDE DEF u
  <2>7. n \in 1 .. Len(u)
    BY <2>5 DEF Good
  <2> QED BY <2>2, <2>5, <2>6, <2>7 DEF Computed, r
<1> QED BY <1>4

LEMMA SpeculativeStep ==
  ASSUME IInv, config' = config, NEW batch, StepQueues(batch, batch),
         \A i \in DOMAIN batch :
            /\ Covers(target_kv[batch[i]], Text(batch[i]), Len(Text(batch[i])) - 1)
            /\ UsesKv /\ NeverOff /\ Drafted(batch[i]) =>
                  Covers(draft_kv[batch[i]], Text(batch[i]), Len(Text(batch[i])) - 1),
         RunSpeculativeStep(batch)
  PROVE  IInv'
<1>1. TypeInv /\ batch \in Seq(Requests) /\ IsInjective(batch) /\ config.k \in Nat
  BY DEF IInv, StepQueues, TypeInv
<1>2. PICK p \in Proposals(batch) :
         \E cells \in VerifyTokens(batch, p, Scores(batch, p)) :
            ProcessOutputs(batch, batch, SampledSteps(cells),
               [i \in DOMAIN batch |-> Scored(Expanded(batch, p), batch[i])],
               [i \in DOMAIN batch |-> IF p[i] = None \/ ~UsesKv THEN draft_kv[batch[i]]
                                       ELSE DraftKvAfter(batch[i], p[i])])
  BY DEF RunSpeculativeStep
<1> DEFINE target == [i \in DOMAIN batch |-> TargetAfter(batch, p, i)]
           draft == [i \in DOMAIN batch |-> DraftAfter(batch, p, i)]
<1>3. PICK cells \in VerifyTokens(batch, p, Scores(batch, p)) :
         ProcessOutputs(batch, batch, SampledSteps(cells), target, draft)
  BY <1>2 DEF TargetAfter, DraftAfter
<1>4. DOMAIN p = DOMAIN batch /\ p \in Seq({None} \cup Seq(Tokens))
  BY <1>1, ProposalFacts
<1>5. \A i \in DOMAIN p : \A c \in Verdicts(batch, p, i) :
         /\ c \in Outputs /\ Len(c) = config.k + 1
         /\ Computed(batch[i], c, TargetAfter(batch, p, i), DraftAfter(batch, p, i))
  BY <1>1, VerdictsGood
<1>6. DOMAIN cells = DOMAIN batch /\ \A i \in DOMAIN batch : cells[i] \in Verdicts(batch, p, i)
  BY <1>3, <1>4, <1>5, VerifiedFacts
<1>7. \A i \in DOMAIN cells :
         Len(cells[i]) = config.k + 1 /\ Computed(batch[i], cells[i], target[i], draft[i])
  BY <1>4, <1>5, <1>6
<1> HIDE DEF target, draft
<1>8. \A i \in DOMAIN cells : Computed(batch[i], SampledSteps(cells)[i], target[i], draft[i])
  BY <1>1, <1>7, SampledFacts
<1> DEFINE steps == SampledSteps(cells)
<1>9. \A i \in DOMAIN batch : Computed(batch[i], steps[i], target[i], draft[i])
  BY <1>6, <1>8
<1>10. ProcessOutputs(batch, batch, steps, target, draft)
  BY <1>3
<1> HIDE DEF steps
<1> QED BY <1>9, <1>10, ProcessStep

LEMMA DecodeStep ==
  ASSUME IInv, NEW victims, Decode(victims)
  PROVE  IInv'
<1> DEFINE n == Len(running) - victims
           batch == SubSeq(running, 1, n)
           rest == SubSeq(running, n + 1, Len(running))
           first == [i \in DOMAIN batch |-> Len(Text(batch[i]))]
<1>1. /\ TypeInv /\ waiting \in Seq(Requests) /\ running \in Seq(Requests)
      /\ IsInjective(waiting) /\ IsInjective(running)
      /\ Range(waiting) \cap Range(running) = {}
      /\ TargetCovered /\ DraftCovered
  BY DEF IInv, TypeInv, QueuesInv
<1>2. victims \in 0 .. config.preemptions - preempted /\ victims < Len(running) /\ config' = config
  BY DEF Decode
<1>3. n \in 0 .. Len(running)
  BY <1>1, <1>2
<1>4. /\ batch \in Seq(Requests) /\ rest \in Seq(Requests) /\ Len(batch) = n
      /\ IsInjective(batch) /\ IsInjective(rest)
      /\ Range(batch) \cap Range(rest) = {} /\ Range(batch) \cup Range(rest) = Range(running)
  <2> HIDE DEF n
  <2> QED BY <1>1, <1>3, SplitFacts
<1>5. /\ waiting' = SubSeq(running, Len(batch) + 1, Len(running)) \o waiting
      /\ IF ShouldDisable(Len(batch)) THEN RunNoSpec(batch, batch, first, config.k)
         ELSE RunSpeculativeStep(batch)
  BY DEF Decode
<1>6. waiting' = rest \o waiting
  BY <1>4, <1>5
<1> HIDE DEF batch, rest, n
<1>7. /\ waiting' \in Seq(Requests) /\ IsInjective(waiting')
      /\ Range(waiting') = Range(rest) \cup Range(waiting)
  <2>1. Range(rest) \cap Range(waiting) = {}
    BY <1>1, <1>4
  <2> QED BY <1>1, <1>4, <1>6, <2>1, BehindFacts
<1>8. StepQueues(batch, batch)
  BY <1>1, <1>4, <1>7 DEF StepQueues
<1>9. ASSUME NEW i \in DOMAIN batch
      PROVE  /\ Len(Text(batch[i])) \in 1 .. Len(Text(batch[i])) + 1
             /\ Covers(target_kv[batch[i]], Text(batch[i]), Len(Text(batch[i])) - 1)
             /\ UsesKv /\ NeverOff /\ Drafted(batch[i]) =>
                   Covers(draft_kv[batch[i]], Text(batch[i]), Len(Text(batch[i])) - 1)
  <2>1. batch[i] \in Range(batch) /\ batch[i] \in Requests
    BY <1>4 DEF Range
  <2>2. batch[i] \in Range(running)
    BY <1>4, <2>1
  <2> DEFINE r == batch[i]
             L == Len(Text(r))
  <2> HIDE DEF r
  <2>3. L \in Nat /\ L >= 1
    BY <1>1, <2>1, TextFacts DEF r
  <2>4. L \in 1 .. L + 1
    BY <2>3
  <2> QED BY <1>1, <2>2, <2>4 DEF TargetCovered, DraftCovered, r
<1>10. CASE ShouldDisable(Len(batch))
  <2>1. \A i \in DOMAIN batch : first[i] = Len(Text(batch[i]))
    OBVIOUS
  <2>2. RunNoSpec(batch, batch, first, config.k)
    BY <1>5, <1>10
  <2> HIDE DEF first
  <2>3. \A i \in DOMAIN batch :
           /\ first[i] \in 1 .. Len(Text(batch[i])) + 1
           /\ Covers(target_kv[batch[i]], Text(batch[i]), first[i] - 1)
           /\ UsesKv /\ NeverOff /\ Drafted(batch[i]) =>
                 Covers(draft_kv[batch[i]], Text(batch[i]), first[i] - 1)
    BY <1>9, <2>1
  <2> QED BY <1>2, <1>8, <2>2, <2>3, NoSpecStep
<1>11. CASE ~ShouldDisable(Len(batch))
  <2>1. RunSpeculativeStep(batch)
    BY <1>5, <1>11
  <2>2. \A i \in DOMAIN batch :
           /\ Covers(target_kv[batch[i]], Text(batch[i]), Len(Text(batch[i])) - 1)
           /\ UsesKv /\ NeverOff /\ Drafted(batch[i]) =>
                 Covers(draft_kv[batch[i]], Text(batch[i]), Len(Text(batch[i])) - 1)
    BY <1>9
  <2> QED BY <1>2, <1>8, <2>1, <2>2, SpeculativeStep
<1> QED BY <1>10, <1>11

-----------------------------------------------------------------------------
\* The invariant holds.

LEMMA InitIInv == Init => IInv
<1> SUFFICES ASSUME Init PROVE IInv
  OBVIOUS
<1>1. /\ config \in Configs /\ waiting = [r \in Requests |-> r] /\ running = <<>>
      /\ out = [r \in Requests |-> <<>>] /\ given = [r \in Requests |-> <<>>] /\ failed = FALSE
  BY DEF Init
<1>2. waiting \in Seq(Requests) /\ IsInjective(waiting) /\ Range(waiting) = Requests
  <2>1. waiting \in Seq(Requests)
    <3>1. waiting = [r \in 1 .. NumRequests |-> r] /\ \A r \in 1 .. NumRequests : r \in Requests
      BY <1>1 DEF Requests
    <3> QED BY <3>1
  <2>2. DOMAIN waiting = Requests /\ \A r \in Requests : waiting[r] = r
    BY <1>1
  <2> QED BY <2>1, <2>2 DEF IsInjective, Range
<1>3. running \in Seq(Requests) /\ IsInjective(running) /\ Range(running) = {}
  BY <1>1 DEF IsInjective, Range
<1>4. /\ out \in [Requests -> Seq(Tokens)] /\ given \in [Requests -> Seq(Seq(Tokens))]
      /\ \A r \in Requests : out[r] = <<>> /\ Len(out[r]) = 0 /\ Len(given[r]) = 0
  BY <1>1
<1>5. TypeInv
  BY <1>1, <1>2, <1>3, <1>4 DEF TypeInv
<1>6. OutputIsTargets
  <2>1. Lossless
    BY <1>4 DEF Lossless
  <2>2. EndsAtFirstStop
    BY <1>2, <1>4 DEF EndsAtFirstStop, Ended
  <2> QED BY <2>1, <2>2 DEF OutputIsTargets
<1> QED BY <1>1, <1>2, <1>3, <1>5, <1>6 DEF IInv, QueuesInv, EveryStepEmits, TargetCovered, DraftCovered

LEMMA StepIInv == IInv /\ [Next]_vars => IInv'
<1> SUFFICES ASSUME IInv, [Next]_vars PROVE IInv'
  OBVIOUS
<1>1. CASE \E n \in Requests : Prefill(n)
  BY <1>1, PrefillStep
<1>2. CASE \E victims \in 0 .. NumRequests - 1 : Decode(victims)
  BY <1>2, DecodeStep
<1>3. CASE UNCHANGED vars
  <2>1. TypeInv' /\ QueuesInv' /\ EveryStepEmits'
    BY <1>3 DEF IInv, TypeInv, QueuesInv, EveryStepEmits, vars
  <2>2. OutputIsTargets'
    <3>1. Lossless'
      BY <1>3 DEF IInv, OutputIsTargets, Lossless, Target, Allowed, Prompt, Params, vars
    <3>2. EndsAtFirstStop'
      BY <1>3 DEF IInv, OutputIsTargets, EndsAtFirstStop, Ended, Stops, Prompt, Params, vars
    <3> QED BY <3>1, <3>2 DEF OutputIsTargets
  <2>3. TargetCovered'
    BY <1>3 DEF IInv, TargetCovered, Covers, Text, Prompt, Params, vars
  <2>4. DraftCovered'
    BY <1>3 DEF IInv, DraftCovered, Covers, Text, UsesKv, NeverOff, Drafted, Prompt, Params, vars
  <2> QED BY <2>1, <2>2, <2>3, <2>4 DEF IInv
<1> QED BY <1>1, <1>2, <1>3 DEF Next, Idle

LEMMA Invariant == Spec => []IInv
BY InitIInv, StepIInv, PTL DEF Spec

(***************************************************************************)
(* Speculation is lossless: for every number of requests and of guessed    *)
(* tokens, every target model, proposer and mix of the batch, every output *)
(* token is one that the target may give behind exactly the tokens before  *)
(* it, and a request ends with the first token that stops it.              *)
(***************************************************************************)
THEOREM SpeculationIsLossless == Spec => []OutputIsTargets
<1>1. IInv => OutputIsTargets
  BY DEF IInv
<1> QED BY <1>1, Invariant, PTL

(***************************************************************************)
(* Every step gives every request of its batch a token, however its guess  *)
(* was judged: the assertion of the output processor holds.                *)
(***************************************************************************)
THEOREM StepsEmit == Spec => []EveryStepEmits
<1>1. IInv => EveryStepEmits
  BY DEF IInv
<1> QED BY <1>1, Invariant, PTL

(***************************************************************************)
(* Where speculation is never switched off, a request the draft model will *)
(* guess for has all keys but those of its last token in the draft model's *)
(* cache (_run_no_spec: "so that the KV cache is consistent").             *)
(***************************************************************************)
THEOREM DraftCacheIsComplete == Spec => [](NeverOff => DraftKvComplete)
<1>1. ASSUME IInv, NeverOff PROVE DraftKvComplete
  <2> SUFFICES ASSUME NEW r \in Range(running), UsesKv /\ Drafted(r)
               PROVE  LET n == Len(Text(r)) - 1 IN Read(draft_kv[r], n) = SubSeq(Text(r), 1, n)
    BY DEF DraftKvComplete
  <2>1. TypeInv /\ DraftCovered /\ r \in Requests
    BY <1>1, RangeFacts DEF IInv, TypeInv
  <2>2. Text(r) \in Seq(Tokens) /\ Len(Text(r)) \in Nat /\ Len(Text(r)) >= 1
    BY <2>1, TextFacts
  <2> DEFINE text == Text(r)
             n == Len(text) - 1
  <2>3. Covers(draft_kv[r], text, n)
    BY <1>1, <2>1 DEF DraftCovered
  <2> HIDE DEF text
  <2>4. text \in Seq(Tokens) /\ n \in 0 .. Len(text)
    BY <2>2 DEF text
  <2>5. Read(draft_kv[r], n) = SubSeq(text, 1, n)
    BY <2>3, <2>4, ReadCovered
  <2> QED BY <2>5 DEF text
<1> QED BY <1>1, Invariant, PTL

=============================================================================
