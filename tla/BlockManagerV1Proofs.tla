------------------------ MODULE BlockManagerV1Proofs ------------------------
(***************************************************************************)
(* Proofs about BlockManagerV1 for every number of groups, sequences and   *)
(* blocks, when no sliding window is configured.                           *)
(***************************************************************************)
EXTENDS BlockManagerV1, FiniteSetTheorems, TLAPS

USE BlockManagerAssumption

-----------------------------------------------------------------------------
\* Counting.

\* The sequences whose table refers to b.
Holders(b) == {s \in Seqs : b \in Entries(block_tables[s])}

LEMMA SeqsFinite == IsFiniteSet(Seqs) /\ IsFiniteSet(Blocks)
<1>1. IsFiniteSet(Index)
  BY FS_Interval DEF Index
<1>2. IsFiniteSet(Seqs)
  BY <1>1, FS_Product DEF Seqs
<1>3. IsFiniteSet(Blocks)
  BY FS_Union DEF Blocks
<1> QED BY <1>2, <1>3

LEMMA SubsetCard ==
  ASSUME NEW S, IsFiniteSet(S), NEW T, T \subseteq S
  PROVE  /\ IsFiniteSet(T)
         /\ Cardinality(T) \in Nat
         /\ Cardinality(T) <= Cardinality(S)
         /\ Cardinality(S \ T) = Cardinality(S) - Cardinality(T)
         /\ Cardinality(T) = 0 <=> T = {}
<1>1. IsFiniteSet(T) /\ Cardinality(T) <= Cardinality(S)
  BY FS_Subset
<1>2. Cardinality(T) \in Nat
  BY <1>1, FS_CardinalityType
<1>3. Cardinality(T) = 0 <=> T = {}
  BY <1>1, FS_EmptySet
<1>4. S \cap T = T
  OBVIOUS
<1>5. Cardinality(S \ T) = Cardinality(S) - Cardinality(T)
  BY <1>4, FS_Difference
<1> QED BY <1>1, <1>2, <1>3, <1>5

\* Without a window every entry of a table is live.
LEMMA LiveIsEntries ==
  ASSUME SlidingWindow = 0, NEW t
  PROVE  Live(t) = Entries(t)
BY DEF Live

LEMMA UsesCounts ==
  ASSUME SlidingWindow = 0, NEW U, U \subseteq Seqs, NEW b
  PROVE  /\ Uses(U, b) = Cardinality(U \cap Holders(b))
         /\ Uses(Seqs, b) = Cardinality(Holders(b))
         /\ Uses(U, b) \in Nat
         /\ Uses(U, b) = 0 <=> U \cap Holders(b) = {}
         /\ Cardinality(Holders(b) \ U) = Uses(Seqs, b) - Uses(U, b)
<1>1. {s \in U : b \in Live(block_tables[s])} = U \cap Holders(b)
  BY LiveIsEntries DEF Holders
<1>2. {s \in Seqs : b \in Live(block_tables[s])} = Holders(b)
  BY LiveIsEntries DEF Holders
<1>3. IsFiniteSet(Holders(b))
  BY SeqsFinite, SubsetCard DEF Holders
<1>4. U \cap Holders(b) \subseteq Holders(b)
  OBVIOUS
<1>5. Holders(b) \ U = Holders(b) \ (U \cap Holders(b))
  OBVIOUS
<1>6. /\ Cardinality(U \cap Holders(b)) \in Nat
      /\ Cardinality(Holders(b) \ U) = Cardinality(Holders(b)) - Cardinality(U \cap Holders(b))
      /\ Cardinality(U \cap Holders(b)) = 0 <=> U \cap Holders(b) = {}
  BY <1>3, <1>4, <1>5, SubsetCard
<1> QED BY <1>1, <1>2, <1>6 DEF Uses

\* A finite set injects into any finite set that is not smaller, so that the
\* blocks Fresh hands out exist.
LEMMA FreshBlocks ==
  ASSUME NEW S, IsFiniteSet(S), NEW F, IsFiniteSet(F), CanFresh(S, F)
  PROVE  Fresh(S, F) \in Injection(S, F)
<1> DEFINE m == Cardinality(S)
           n == Cardinality(F)
<1>1. PICK f \in Bijection(1 .. m, S) : TRUE
  BY FS_CardinalityType DEF ExistsBijection
<1>2. PICK h \in Bijection(1 .. n, F) : TRUE
  BY FS_CardinalityType DEF ExistsBijection
<1>3. m \in Nat /\ n \in Nat /\ m <= n
  BY FS_CardinalityType DEF CanFresh
<1> DEFINE inv == [x \in S |-> CHOOSE i \in 1 .. m : f[i] = x]
           j == [x \in S |-> h[inv[x]]]
<1>4. \A x \in S : inv[x] \in 1 .. m /\ f[inv[x]] = x
  BY <1>1 DEF Bijection, Surjection
<1>5. \A x \in S : inv[x] \in 1 .. n
  BY <1>3, <1>4
<1>6. j \in [S -> F]
  BY <1>2, <1>5 DEF Bijection, Injection
<1>7. ASSUME NEW x \in S, NEW y \in S, j[x] = j[y]
      PROVE  x = y
  <2>1. h[inv[x]] = h[inv[y]]
    BY <1>7
  <2>2. inv[x] = inv[y]
    BY <2>1, <1>2, <1>5 DEF Bijection, Injection, IsInjective
  <2> QED BY <2>2, <1>4
<1>8. j \in Injection(S, F)
  BY <1>6, <1>7 DEF Injection, IsInjective
<1> QED BY <1>8 DEF Fresh

-----------------------------------------------------------------------------
\* The next state.

LEMMA UsesPrime ==
  ASSUME SlidingWindow = 0, NEW b
  PROVE  Uses(Seqs, b)' = Cardinality({s \in Seqs : b \in Entries(block_tables'[s])})
BY LiveIsEntries DEF Uses

\* The three facts about blocks, as they look after a step.
BlocksOK ==
  /\ free_blocks \subseteq Blocks
  /\ ref_count \in [Blocks -> Nat]
  /\ block_tables \in [Seqs -> Seq(Blocks)]
  /\ FreeIffUnreferenced
  /\ RefCountCoversTables
  /\ TablesInjective

LEMMA UnchangedBlocks ==
  ASSUME BlocksOK, SlidingWindow = 0, UNCHANGED <<free_blocks, ref_count, block_tables>>
  PROVE  BlocksOK'
<1>1. \A b : Uses(Seqs, b)' = Uses(Seqs, b)
  BY DEF Uses
<1> QED BY <1>1 DEF BlocksOK, FreeIffUnreferenced, RefCountCoversTables, TablesInjective

\* A fresh block is in no table.
LEMMA FreeIsUnused ==
  ASSUME BlocksOK, SlidingWindow = 0, NEW b \in free_blocks
  PROVE  Holders(b) = {} /\ b \in Blocks /\ ref_count[b] = 0
<1>1. b \in Blocks /\ ref_count[b] = 0
  BY DEF BlocksOK, FreeIffUnreferenced
<1>2. Uses(Seqs, b) = 0
  <2>1. Uses(Seqs, b) <= 0
    BY <1>1 DEF BlocksOK, RefCountCoversTables
  <2>2. Uses(Seqs, b) \in Nat
    BY UsesCounts
  <2> QED BY <2>1, <2>2
<1>3. Seqs \cap Holders(b) = {}
  BY <1>2, UsesCounts
<1> QED BY <1>1, <1>3 DEF Holders

\* Freeing the tables of the sequences in U.
LEMMA FreeTables ==
  ASSUME BlocksOK, SlidingWindow = 0, NEW U, U \subseteq Seqs,
         ~DoubleFrees(Frees(U)), DropRefs(Frees(U)),
         block_tables' = WithoutTables(U)
  PROVE  BlocksOK'
<1>1. \A b \in Blocks : Uses(U, b) \in Nat /\ Uses(U, b) <= ref_count[b] /\ ref_count[b] \in Nat
  <2> TAKE b \in Blocks
  <2>1. Uses(U, b) \in Nat /\ ref_count[b] \in Nat
    BY UsesCounts DEF BlocksOK
  <2>2. ~(Uses(U, b) > ref_count[b])
    BY DEF DoubleFrees, Frees
  <2> QED BY <2>1, <2>2
<1>2. ref_count' = [b \in Blocks |-> ref_count[b] - Uses(U, b)]
  BY DEF DropRefs, Frees
<1>3. free_blocks' = free_blocks \cup {b \in Blocks : Uses(U, b) > 0 /\ ref_count[b] = Uses(U, b)}
  BY DEF DropRefs, Frees
<1>4. ref_count' \in [Blocks -> Nat]
  BY <1>1, <1>2
<1>5. FreeIffUnreferenced'
  <2> SUFFICES ASSUME NEW b \in Blocks PROVE b \in free_blocks' <=> ref_count'[b] = 0
    BY DEF FreeIffUnreferenced
  <2>1. b \in free_blocks <=> ref_count[b] = 0
    BY DEF BlocksOK, FreeIffUnreferenced
  <2> QED BY <1>1, <1>2, <1>3, <2>1
<1>6. ASSUME NEW b \in Blocks PROVE Uses(Seqs, b)' <= ref_count'[b]
  <2>1. {s \in Seqs : b \in Entries(block_tables'[s])} = Holders(b) \ U
    BY DEF WithoutTables, Holders, Entries, Range
  <2>2. Uses(Seqs, b)' = Cardinality(Holders(b) \ U)
    BY <2>1, UsesPrime
  <2>4. Cardinality(Holders(b) \ U) = Uses(Seqs, b) - Uses(U, b)
    BY UsesCounts
  <2>3. Uses(Seqs, b) <= ref_count[b] /\ Uses(Seqs, b) \in Nat
    BY UsesCounts DEF BlocksOK, RefCountCoversTables
  <2> QED BY <2>2, <2>3, <2>4, <1>1, <1>2
<1>7. block_tables' \in [Seqs -> Seq(Blocks)] /\ TablesInjective'
  BY DEF BlocksOK, WithoutTables, TablesInjective, IsInjective
<1>8. free_blocks' \subseteq Blocks
  BY <1>3 DEF BlocksOK
<1> QED BY <1>4, <1>5, <1>6, <1>7, <1>8 DEF BlocksOK, RefCountCoversTables

\* The blocks handed out for S are distinct and were free.
LEMMA FreshAreFree ==
  ASSUME BlocksOK, NEW S, IsFiniteSet(S), NEW F,
         F = FreeGpu \/ F = FreeCpu, CanFresh(S, F)
  PROVE  /\ Fresh(S, F) \in [S -> F]
         /\ \A x, y \in S : Fresh(S, F)[x] = Fresh(S, F)[y] => x = y
         /\ F \subseteq free_blocks
<1>1. F \subseteq Blocks /\ F \subseteq free_blocks
  BY DEF BlocksOK, FreeGpu, FreeCpu
<1>2. IsFiniteSet(F)
  BY <1>1, SeqsFinite, SubsetCard
<1>3. Fresh(S, F) \in Injection(S, F)
  BY <1>2, FreshBlocks
<1> QED BY <1>1, <1>3 DEF Injection, IsInjective

LEMMA FreshOne ==
  ASSUME BlocksOK, FreeGpu # {}
  PROVE  Fresh({1}, FreeGpu)[1] \in free_blocks
<1>1. IsFiniteSet(FreeGpu)
  BY SeqsFinite, SubsetCard DEF BlocksOK, FreeGpu
<1>2. Cardinality(FreeGpu) \in Nat /\ Cardinality(FreeGpu) # 0
  BY <1>1, FS_CardinalityType, FS_EmptySet
<1>3. IsFiniteSet({1}) /\ Cardinality({1}) = 1
  BY FS_Singleton
<1>4. CanFresh({1}, FreeGpu)
  BY <1>2, <1>3 DEF CanFresh
<1> QED BY <1>3, <1>4, FreshAreFree

\* A block some table refers to is referenced, hence not free.
LEMMA HeldIsReferenced ==
  ASSUME BlocksOK, SlidingWindow = 0, NEW b \in Blocks, NEW s \in Holders(b)
  PROVE  ref_count[b] \in Nat \ {0} /\ b \notin free_blocks
<1>1. b \notin free_blocks
  BY FreeIsUnused
<1> QED BY <1>1 DEF BlocksOK, FreeIffUnreferenced

LEMMA HoldersFinite ==
  ASSUME NEW b
  PROVE  IsFiniteSet(Holders(b)) /\ Cardinality(Holders(b)) \in Nat
BY SeqsFinite, SubsetCard DEF Holders

LEMMA HoldersCovered ==
  ASSUME BlocksOK, SlidingWindow = 0, NEW b \in Blocks
  PROVE  Cardinality(Holders(b)) <= ref_count[b] /\ ref_count[b] \in Nat
<1>1. Uses(Seqs, b) <= ref_count[b] /\ ref_count[b] \in Nat
  BY DEF BlocksOK, RefCountCoversTables
<1>2. Uses(Seqs, b) = Cardinality(Holders(b))
  <2>1. {s \in Seqs : b \in Live(block_tables[s])} = Holders(b)
    BY LiveIsEntries DEF Holders
  <2> QED BY <2>1 DEF Uses
<1> QED BY <1>1, <1>2

\* How the count of a block may change with its holders.
LEMMA CoverGrows ==
  ASSUME BlocksOK, SlidingWindow = 0, NEW b \in Blocks,
         NEW T, IsFiniteSet(T), NEW H, H \subseteq Holders(b) \cup T
  PROVE  Cardinality(H) \in Nat /\ Cardinality(H) <= ref_count[b] + Cardinality(T)
<1>1. /\ IsFiniteSet(Holders(b) \cup T)
      /\ Cardinality(Holders(b) \cup T)
           = Cardinality(Holders(b)) + Cardinality(T) - Cardinality(Holders(b) \cap T)
  BY HoldersFinite, FS_Union
<1>2. Cardinality(Holders(b) \cap T) \in Nat
  BY HoldersFinite, SubsetCard
<1>3. Cardinality(H) \in Nat /\ Cardinality(H) <= Cardinality(Holders(b) \cup T)
  BY <1>1, SubsetCard
<1>4. Cardinality(Holders(b)) <= ref_count[b] /\ ref_count[b] \in Nat
  BY HoldersCovered
<1>5. Cardinality(T) \in Nat /\ Cardinality(Holders(b)) \in Nat
  BY FS_CardinalityType, HoldersFinite
<1> QED BY <1>1, <1>2, <1>3, <1>4, <1>5

LEMMA CoverShrinks ==
  ASSUME BlocksOK, SlidingWindow = 0, NEW b \in Blocks, NEW s \in Holders(b)
  PROVE  Cardinality(Holders(b) \ {s}) <= ref_count[b] - 1
<1>1. Cardinality(Holders(b) \ {s}) = Cardinality(Holders(b)) - 1
  BY HoldersFinite, FS_RemoveElement
<1>2. Cardinality(Holders(b)) <= ref_count[b] /\ ref_count[b] \in Nat
  BY HoldersCovered
<1> QED BY <1>1, <1>2, HoldersFinite

-----------------------------------------------------------------------------
\* Appending a slot.

LEMMA NewBlockKeepsBlocksOK ==
  ASSUME BlocksOK, SlidingWindow = 0, NEW s \in Seqs, FreeGpu # {},
         NewBlock(s, block_tables[s])
  PROVE  BlocksOK'
<1> DEFINE t == block_tables[s]
           b == Fresh({1}, FreeGpu)[1]
<1>1. /\ block_tables' = [block_tables EXCEPT ![s] = Append(t, b)]
      /\ ref_count' = [ref_count EXCEPT ![b] = 1]
      /\ free_blocks' = free_blocks \ {b}
  BY DEF NewBlock
<1>2. b \in free_blocks /\ b \in Blocks /\ Holders(b) = {}
  BY FreshOne, FreeIsUnused
<1> HIDE DEF b
<1>3. t \in Seq(Blocks) /\ \A i \in DOMAIN t : t[i] # b
  BY <1>2 DEF BlocksOK, Holders, Entries, Range
<1>4. Append(t, b) \in Seq(Blocks) /\ Entries(Append(t, b)) = Entries(t) \cup {b}
  <2>1. Append(t, b) \in Seq(Blocks) /\ DOMAIN Append(t, b) = DOMAIN t \cup {Len(t) + 1}
    BY <1>2, <1>3
  <2>2. Append(t, b)[Len(t) + 1] = b /\ \A i \in DOMAIN t : Append(t, b)[i] = t[i]
    BY <1>2, <1>3
  <2> QED BY <2>1, <2>2 DEF Entries, Range
<1>5. IsInjective(Append(t, b))
  BY <1>3 DEF BlocksOK, TablesInjective, IsInjective
<1>6. block_tables' \in [Seqs -> Seq(Blocks)] /\ TablesInjective'
  BY <1>1, <1>4, <1>5 DEF BlocksOK, TablesInjective
<1>7. ASSUME NEW c \in Blocks PROVE Uses(Seqs, c)' <= ref_count'[c]
  <2> DEFINE H == {r \in Seqs : c \in Entries(block_tables'[r])}
  <2>1. CASE c = b
    <3>1. H = {s}
      BY <1>1, <1>2, <1>4, <2>1 DEF Holders, BlocksOK
    <3>2. Uses(Seqs, c)' = Cardinality(H)
      BY UsesPrime
    <3>3. Cardinality(H) = 1
      BY <3>1, FS_Singleton
    <3>4. ref_count'[c] = 1
      BY <1>1, <1>2, <2>1 DEF BlocksOK
    <3> QED BY <3>2, <3>3, <3>4
  <2>2. CASE c # b
    <3>1. H \subseteq Holders(c) \cup {}
      BY <1>1, <1>4, <2>2 DEF Holders, BlocksOK
    <3>2. Cardinality(H) <= ref_count[c]
      BY <3>1, CoverGrows, FS_EmptySet DEF BlocksOK
    <3> QED BY <3>2, <2>2, <1>1, UsesPrime DEF BlocksOK
  <2> QED BY <2>1, <2>2
<1>8. FreeIffUnreferenced'
  BY <1>1, <1>2 DEF BlocksOK, FreeIffUnreferenced
<1>9. ref_count' \in [Blocks -> Nat] /\ free_blocks' \subseteq Blocks
  BY <1>1, <1>2 DEF BlocksOK
<1> QED BY <1>6, <1>7, <1>8, <1>9 DEF BlocksOK, RefCountCoversTables

LEMMA CopyOnWriteKeepsBlocksOK ==
  ASSUME BlocksOK, SlidingWindow = 0, NEW s \in Seqs, block_tables[s] # <<>>,
         CopyOnWrite(s, block_tables[s])
  PROVE  BlocksOK'
<1> DEFINE t == block_tables[s]
           last == t[Len(t)]
           b == Fresh({1}, FreeGpu)[1]
<1>1. CASE FreeGpu = {} \/ ref_count[last] = 0
  BY <1>1, UnchangedBlocks DEF CopyOnWrite, Fail
<1>2. CASE FreeGpu # {} /\ ref_count[last] # 0
  <2>1. /\ block_tables' = [block_tables EXCEPT ![s] = [t EXCEPT ![Len(t)] = b]]
        /\ ref_count' = [ref_count EXCEPT ![b] = 1, ![last] = @ - 1]
        /\ free_blocks' = (free_blocks \ {b})
                             \cup (IF ref_count[last] = 1 THEN {last} ELSE {})
    BY <1>2 DEF CopyOnWrite
  <2>2. b \in free_blocks /\ b \in Blocks /\ Holders(b) = {} /\ ref_count[b] = 0
    BY <1>2, FreshOne, FreeIsUnused
  <2> HIDE DEF b
  <2>3. t \in Seq(Blocks) /\ Len(t) \in Nat \ {0} /\ Len(t) \in DOMAIN t
    BY DEF BlocksOK
  <2>4. last \in Blocks /\ s \in Holders(last)
    BY <2>3 DEF Holders, Entries, Range
  <2>5. ref_count[last] \in Nat \ {0} /\ last # b
    BY <2>2, <2>4, HeldIsReferenced
  <2>6. \A i, j \in DOMAIN t : t[i] = t[j] => i = j
    BY DEF BlocksOK, TablesInjective, IsInjective
  <2>7. \A i \in DOMAIN t : t[i] # b
    BY <2>2 DEF BlocksOK, Holders, Entries, Range
  <2> DEFINE u == [t EXCEPT ![Len(t)] = b]
  <2>8. u \in Seq(Blocks) /\ DOMAIN u = DOMAIN t
    BY <2>2, <2>3
  <2>9. IsInjective(u)
    BY <2>6, <2>7, <2>8 DEF IsInjective
  <2>10. /\ b \in Entries(u)
         /\ last \notin Entries(u)
         /\ \A c \in Entries(u) : c = b \/ c \in Entries(t)
    BY <2>3, <2>5, <2>6, <2>8 DEF Entries, Range
  <2> HIDE DEF u
  <2>11. block_tables' = [block_tables EXCEPT ![s] = u]
    BY <2>1 DEF u
  <2>12. block_tables' \in [Seqs -> Seq(Blocks)] /\ TablesInjective'
    BY <2>11, <2>8, <2>9 DEF BlocksOK, TablesInjective
  <2>13. \A c \in Blocks : ref_count'[c] = IF c = last THEN ref_count[c] - 1
                                             ELSE IF c = b THEN 1 ELSE ref_count[c]
    BY <2>1, <2>2, <2>4, <2>5 DEF BlocksOK
  <2>14. ref_count' \in [Blocks -> Nat] /\ free_blocks' \subseteq Blocks
    <3>1. ref_count \in [Blocks -> Nat] /\ free_blocks \subseteq Blocks
      BY DEF BlocksOK
    <3> HIDE DEF last
    <3>2. DOMAIN ref_count' = Blocks /\ ref_count' = [c \in Blocks |-> ref_count'[c]]
      BY <2>1, <3>1
    <3>3. \A c \in Blocks : ref_count'[c] \in Nat
      BY <2>5, <2>13, <3>1
    <3>4. free_blocks' \subseteq Blocks
      BY <2>1, <2>4, <3>1
    <3> QED BY <3>2, <3>3, <3>4
  <2>15. FreeIffUnreferenced'
    <3> SUFFICES ASSUME NEW c \in Blocks PROVE c \in free_blocks' <=> ref_count'[c] = 0
      BY DEF FreeIffUnreferenced
    <3>1. c \in free_blocks <=> ref_count[c] = 0
      BY DEF BlocksOK, FreeIffUnreferenced
    <3>2. c \in free_blocks' <=>
              (c \in free_blocks /\ c # b) \/ (c = last /\ ref_count[last] = 1)
      BY <2>1
    <3>3. ref_count'[c] = IF c = last THEN ref_count[c] - 1
                          ELSE IF c = b THEN 1 ELSE ref_count[c]
      BY <2>13
    <3>4. c = last => (c \notin free_blocks /\ c # b /\ ref_count[c] \in Nat)
      BY <3>1, <2>5
    <3> HIDE DEF last
    <3> QED BY <3>1, <3>2, <3>3, <3>4
  <2>16. ASSUME NEW c \in Blocks PROVE Uses(Seqs, c)' <= ref_count'[c]
    <3> DEFINE H == {r \in Seqs : c \in Entries(block_tables'[r])}
    <3>0. Uses(Seqs, c)' = Cardinality(H)
      BY UsesPrime
    <3>1. CASE c = b
      <4>1. H = {s}
        BY <2>2, <2>10, <2>11, <3>1 DEF Holders, BlocksOK
      <4>2. Cardinality(H) = 1
        BY <4>1, FS_Singleton
      <4>3. ref_count'[c] = 1
        BY <3>1, <2>5, <2>13
      <4> QED BY <4>2, <4>3, <3>0
    <3>2. CASE c = last
      <4>1. H = Holders(c) \ {s}
        BY <2>5, <2>10, <2>11, <3>2 DEF Holders, BlocksOK
      <4>2. Cardinality(H) <= ref_count[c] - 1
        BY <4>1, <2>4, <3>2, CoverShrinks
      <4> QED BY <4>2, <3>0, <3>2, <2>13
    <3>3. CASE c # b /\ c # last
      <4>1. H \subseteq Holders(c) \cup {}
        BY <2>10, <2>11, <3>3 DEF Holders, BlocksOK
      <4>2. Cardinality(H) <= ref_count[c]
        BY <4>1, CoverGrows, FS_EmptySet DEF BlocksOK
      <4> QED BY <4>2, <3>0, <3>3, <2>13
    <3> QED BY <3>1, <3>2, <3>3
  <2> QED BY <2>12, <2>14, <2>15, <2>16 DEF BlocksOK, RefCountCoversTables
<1> QED BY <1>1, <1>2

-----------------------------------------------------------------------------
\* Sharing: forks.

LEMMA SampleKeepsBlocksOK ==
  ASSUME BlocksOK, SlidingWindow = 0, NEW g \in Groups, Sample(g)
  PROVE  BlocksOK'
<1> DEFINE running == SeqsWith(g, "RUNNING")
           p == CHOOSE s \in running : TRUE
           children == IF NumSeqs(g) < BestOf
                         THEN {s \in Seqs : s[1] = g /\ status[s] = "none"} ELSE {}
<1>1. /\ running # {}
      /\ block_tables' = [s \in Seqs |->
             IF s \in children THEN block_tables[p] ELSE block_tables[s]]
      /\ ref_count' = [b \in Blocks |->
             IF b \in Entries(block_tables[p])
               THEN ref_count[b] + Cardinality(children) ELSE ref_count[b]]
      /\ free_blocks' = free_blocks
  BY DEF Sample
<1>2. p \in Seqs
  BY <1>1 DEF SeqsWith, SeqsOf
<1>3. children \subseteq Seqs
  OBVIOUS
<1> HIDE DEF running, p, children
<1>4. IsFiniteSet(children) /\ Cardinality(children) \in Nat
  BY <1>3, SeqsFinite, SubsetCard
<1>5. block_tables' \in [Seqs -> Seq(Blocks)] /\ TablesInjective'
  BY <1>1, <1>2 DEF BlocksOK, TablesInjective, IsInjective
<1>6. ASSUME NEW b \in Blocks
      PROVE  /\ ref_count'[b] \in Nat
             /\ Uses(Seqs, b)' <= ref_count'[b]
             /\ b \in free_blocks' <=> ref_count'[b] = 0
  <2> DEFINE H == {r \in Seqs : b \in Entries(block_tables'[r])}
  <2>0. Uses(Seqs, b)' = Cardinality(H)
    BY UsesPrime
  <2>1. ref_count[b] \in Nat /\ (b \in free_blocks <=> ref_count[b] = 0)
    BY DEF BlocksOK, FreeIffUnreferenced
  <2>2. CASE b \in Entries(block_tables[p])
    <3>1. p \in Holders(b)
      BY <1>2, <2>2 DEF Holders
    <3>2. ref_count[b] # 0
      BY <3>1, HeldIsReferenced
    <3>3. H \subseteq Holders(b) \cup children
      BY <1>1 DEF Holders
    <3>4. Cardinality(H) <= ref_count[b] + Cardinality(children)
      BY <3>3, <1>4, CoverGrows
    <3>5. ref_count'[b] = ref_count[b] + Cardinality(children)
      BY <1>1, <2>2
    <3> QED BY <2>0, <2>1, <3>2, <3>4, <3>5, <1>1, <1>4
  <2>3. CASE b \notin Entries(block_tables[p])
    <3>1. H \subseteq Holders(b) \cup {}
      BY <1>1, <2>3 DEF Holders
    <3>2. Cardinality(H) <= ref_count[b] + Cardinality({})
      BY <3>1, CoverGrows, FS_EmptySet
    <3>3. Cardinality(H) <= ref_count[b]
      BY <3>2, <2>1, FS_EmptySet
    <3>4. ref_count'[b] = ref_count[b]
      BY <1>1, <2>3
    <3> QED BY <2>0, <2>1, <3>3, <3>4, <1>1
  <2> QED BY <2>2, <2>3
<1>7. ref_count' \in [Blocks -> Nat]
  BY <1>1, <1>6
<1> QED BY <1>1, <1>5, <1>6, <1>7 DEF BlocksOK, FreeIffUnreferenced, RefCountCoversTables

LEMMA BeamReplaceKeepsBlocksOK ==
  ASSUME BlocksOK, SlidingWindow = 0, NEW p \in Seqs, NEW d \in Seqs,
         BeamReplace(p, d)
  PROVE  BlocksOK'
<1> DEFINE forked == [b \in Blocks |-> IF b \in Entries(block_tables[p])
                                          THEN ref_count[b] + 1 ELSE ref_count[b]]
           freed == Live(block_tables[d])
<1>1. CASE \E b \in freed : forked[b] = 0
  BY <1>1, UnchangedBlocks DEF BeamReplace, Fail
<1>2. CASE ~ \E b \in freed : forked[b] = 0
  <2>1. /\ p # d
        /\ ref_count' = [b \in Blocks |-> IF b \in freed THEN forked[b] - 1 ELSE forked[b]]
        /\ free_blocks' = free_blocks \cup {b \in freed : forked[b] = 1}
        /\ block_tables' = [block_tables EXCEPT ![d] = block_tables[p]]
    BY <1>2 DEF BeamReplace
  <2>2. freed = Entries(block_tables[d]) /\ freed \subseteq Blocks
    BY LiveIsEntries DEF BlocksOK, Entries, Range
  <2>3. block_tables' \in [Seqs -> Seq(Blocks)] /\ TablesInjective'
    BY <2>1 DEF BlocksOK, TablesInjective
  <2>4. ASSUME NEW b \in Blocks
        PROVE  /\ ref_count'[b] \in Nat
               /\ Uses(Seqs, b)' <= ref_count'[b]
               /\ b \in free_blocks' <=> ref_count'[b] = 0
    <3> DEFINE H == {r \in Seqs : b \in Entries(block_tables'[r])}
               inP == b \in Entries(block_tables[p])
               inD == b \in Entries(block_tables[d])
    <3>0. Uses(Seqs, b)' = Cardinality(H)
      BY UsesPrime
    <3>1. ref_count[b] \in Nat /\ (b \in free_blocks <=> ref_count[b] = 0)
      BY DEF BlocksOK, FreeIffUnreferenced
    <3>2. inP => p \in Holders(b)
      BY DEF Holders
    <3>3. inD => d \in Holders(b)
      BY DEF Holders
    <3>4. inP \/ inD => ref_count[b] # 0
      BY <3>2, <3>3, HeldIsReferenced
    <3>5. ref_count'[b] = IF inD THEN forked[b] - 1 ELSE forked[b]
      BY <2>1, <2>2
    <3>6. forked[b] = IF inP THEN ref_count[b] + 1 ELSE ref_count[b]
      OBVIOUS
    <3>7. b \in free_blocks' <=> b \in free_blocks \/ (inD /\ forked[b] = 1)
      BY <2>1, <2>2
    <3>8. ref_count'[b] \in Nat /\ (b \in free_blocks' <=> ref_count'[b] = 0)
      BY <3>1, <3>4, <3>5, <3>6, <3>7
    <3>9. Cardinality(H) <= ref_count'[b]
      <4>1. CASE inD /\ ~inP
        <5>1. H = Holders(b) \ {d}
          BY <2>1, <4>1 DEF Holders, BlocksOK
        <5>2. Cardinality(H) <= ref_count[b] - 1
          BY <5>1, <4>1, <3>3, CoverShrinks
        <5> QED BY <5>2, <4>1, <3>5, <3>6
      <4>2. CASE inP /\ ~inD
        <5>1. H \subseteq Holders(b) \cup {d}
          BY <2>1 DEF Holders, BlocksOK
        <5>2. IsFiniteSet({d}) /\ Cardinality({d}) = 1
          BY FS_Singleton
        <5>3. Cardinality(H) <= ref_count[b] + 1
          BY <5>1, <5>2, CoverGrows
        <5> QED BY <5>3, <4>2, <3>5, <3>6
      <4>3. CASE inP <=> inD
        <5>1. H \subseteq Holders(b) \cup {}
          BY <2>1, <4>3 DEF Holders, BlocksOK
        <5>2. Cardinality(H) <= ref_count[b] + Cardinality({})
          BY <5>1, CoverGrows, FS_EmptySet
        <5>3. Cardinality(H) <= ref_count[b]
          BY <5>2, <3>1, FS_EmptySet
        <5>4. ref_count'[b] = ref_count[b]
          BY <4>3, <3>1, <3>5, <3>6
        <5> QED BY <5>3, <5>4
      <4> QED BY <4>1, <4>2, <4>3
    <3> QED BY <3>0, <3>8, <3>9
  <2>5. ref_count' \in [Blocks -> Nat]
    BY <2>1, <2>4
  <2>6. free_blocks' \subseteq Blocks
    BY <2>1, <2>2 DEF BlocksOK
  <2> QED BY <2>3, <2>4, <2>5, <2>6 DEF BlocksOK, FreeIffUnreferenced, RefCountCoversTables
<1> QED BY <1>1, <1>2

-----------------------------------------------------------------------------
\* Allocation of a prompt.

LEMMA LogicalBlocksNat ==
  ASSUME NEW n \in Nat
  PROVE  LogicalBlocks(n) \in Nat
<1>1. BlockSize \in Nat \ {0} /\ n + BlockSize - 1 \in Nat
  OBVIOUS
<1> QED BY <1>1 DEF LogicalBlocks

LEMMA AllocateKeepsBlocksOK ==
  ASSUME BlocksOK, length \in [Seqs -> 0 .. MaxLen], SlidingWindow = 0,
         NEW g \in Groups, Allocate(g)
  PROVE  BlocksOK'
<1> DEFINE waiting == SeqsWith(g, "WAITING")
           n == LogicalBlocks(length[CHOOSE s \in waiting : TRUE])
           k == RequiredBlocks(g)
           new == Fresh(1 .. k, FreeGpu)
           table == [i \in 1 .. n |-> IF i <= k THEN new[i] ELSE new[((i - 1) % k) + 1]]
<1>1. /\ waiting # {}
      /\ CanAllocate(g) = "OK"
      /\ free_blocks' = free_blocks \ Entries(new)
      /\ ref_count' = [b \in Blocks |->
             IF b \in Entries(new) THEN NumSeqs(g) ELSE ref_count[b]]
      /\ block_tables' = [s \in Seqs |->
             IF s \in waiting THEN table ELSE block_tables[s]]
  BY DEF Allocate
<1>2. waiting \subseteq SeqsOf(g) /\ SeqsOf(g) \subseteq Seqs
  BY DEF SeqsWith, SeqsOf
<1>3. n \in Nat /\ k = n
  <2>1. length[CHOOSE s \in waiting : TRUE] \in Nat
    BY <1>1, <1>2
  <2> QED BY <2>1, LogicalBlocksNat DEF RequiredBlocks
<1>4. IsFiniteSet(1 .. n) /\ CanFresh(1 .. n, FreeGpu)
  <2>1. IsFiniteSet(1 .. n) /\ Cardinality(1 .. n) = n
    BY <1>3, FS_Interval
  <2>2. Cardinality(FreeGpu) \in Nat
    BY SeqsFinite, SubsetCard DEF BlocksOK, FreeGpu
  <2>3. Cardinality(FreeGpu) - n >= Watermark
    BY <1>1, <1>3 DEF CanAllocate, AllocStatus
  <2> QED BY <2>1, <2>2, <2>3, <1>3 DEF CanFresh
<1>5. /\ new \in [1 .. n -> FreeGpu]
      /\ \A x, y \in 1 .. n : new[x] = new[y] => x = y
      /\ FreeGpu \subseteq free_blocks
  <2> DEFINE f == Fresh(1 .. n, FreeGpu)
  <2>1. /\ f \in [1 .. n -> FreeGpu]
        /\ \A x, y \in 1 .. n : f[x] = f[y] => x = y
        /\ FreeGpu \subseteq free_blocks
    <3> HIDE DEF n
    <3> QED BY <1>4, FreshAreFree
  <2>2. new = f
    BY <1>3
  <2> HIDE DEF new, f
  <2> QED BY <2>1, <2>2
<1>6. table = new
  BY <1>3, <1>5
<1>7. NumSeqs(g) \in Nat \ {0} /\ Cardinality(waiting) <= NumSeqs(g) /\ Cardinality(waiting) \in Nat
  <2>1. IsFiniteSet(SeqsOf(g))
    BY <1>2, SeqsFinite, SubsetCard
  <2>2. NumSeqs(g) \in Nat /\ Cardinality(waiting) \in Nat
        /\ Cardinality(waiting) <= NumSeqs(g) /\ Cardinality(waiting) # 0
    BY <1>1, <1>2, <2>1, SubsetCard, FS_CardinalityType DEF NumSeqs
  <2> QED BY <2>2
<1> HIDE DEF new, k, n, waiting
<1>8. new \in Seq(Blocks) /\ IsInjective(new)
  BY <1>3, <1>5 DEF IsInjective, BlocksOK
<1>9. Entries(new) \subseteq free_blocks
  BY <1>5 DEF Entries, Range
<1>10. block_tables' \in [Seqs -> Seq(Blocks)] /\ TablesInjective'
  BY <1>1, <1>6, <1>8 DEF BlocksOK, TablesInjective
<1>11. ASSUME NEW b \in Blocks
       PROVE  /\ ref_count'[b] \in Nat
              /\ Uses(Seqs, b)' <= ref_count'[b]
              /\ b \in free_blocks' <=> ref_count'[b] = 0
  <2> DEFINE H == {r \in Seqs : b \in Entries(block_tables'[r])}
  <2>0. Uses(Seqs, b)' = Cardinality(H)
    BY UsesPrime
  <2>1. ref_count[b] \in Nat /\ (b \in free_blocks <=> ref_count[b] = 0)
    BY DEF BlocksOK, FreeIffUnreferenced
  <2>2. CASE b \in Entries(new)
    <3>1. Holders(b) = {}
      BY <1>9, <2>2, FreeIsUnused
    <3>2. H = waiting
      BY <1>1, <1>2, <1>6, <2>2, <3>1 DEF Holders
    <3>3. ref_count'[b] = NumSeqs(g) /\ b \notin free_blocks'
      BY <1>1, <2>2
    <3> QED BY <2>0, <3>2, <3>3, <1>7
  <2>3. CASE b \notin Entries(new)
    <3>1. H \subseteq Holders(b) \cup {}
      BY <1>1, <1>6, <2>3 DEF Holders
    <3>2. Cardinality(H) <= ref_count[b] + Cardinality({})
      BY <3>1, CoverGrows, FS_EmptySet
    <3>3. Cardinality(H) <= ref_count[b]
      BY <3>2, <2>1, FS_EmptySet
    <3>4. ref_count'[b] = ref_count[b] /\ (b \in free_blocks' <=> b \in free_blocks)
      BY <1>1, <2>3
    <3> QED BY <2>0, <2>1, <3>3, <3>4
  <2> QED BY <2>2, <2>3
<1>12. ref_count' \in [Blocks -> Nat] /\ free_blocks' \subseteq Blocks
  BY <1>1, <1>11 DEF BlocksOK
<1> QED BY <1>10, <1>11, <1>12 DEF BlocksOK, FreeIffUnreferenced, RefCountCoversTables

-----------------------------------------------------------------------------
\* Swapping.

\* Every entry of a table is a different block: a block occurs once in every
\* table that has it.
LEMMA OccurrencesAreUses ==
  ASSUME BlocksOK, SlidingWindow = 0, NEW U, U \subseteq Seqs, NEW b
  PROVE  Occurrences(U, b) = Uses(U, b)
<1> DEFINE S == U \cap Holders(b)
           at(s) == {i \in DOMAIN block_tables[s] : block_tables[s][i] = b}
           P == UNION {{s} \X at(s) : s \in U}
           f == [s \in S |-> <<s, CHOOSE i \in at(s) : TRUE>>]
<1>1. \A s \in U : at(s) # {} <=> s \in S
  BY DEF Holders, Entries, Range
<1>2. \A s \in U : \A i, j \in at(s) : i = j
  BY DEF BlocksOK, TablesInjective, IsInjective
<1>3. \A s \in S : (CHOOSE i \in at(s) : TRUE) \in at(s)
  BY <1>1
<1> HIDE DEF at
<1>4. f \in [S -> P]
  BY <1>3
<1>5. \A r, s \in S : f[r] = f[s] => r = s
  OBVIOUS
<1>6. ASSUME NEW p \in P PROVE \E s \in S : f[s] = p
  <2>1. PICK s \in U : p \in {s} \X at(s)
    OBVIOUS
  <2>2. PICK i \in at(s) : p = <<s, i>>
    BY <2>1
  <2>3. s \in S /\ (CHOOSE j \in at(s) : TRUE) = i
    BY <1>1, <1>2, <1>3, <2>2
  <2> QED BY <2>2, <2>3
<1>7. f \in Bijection(S, P)
  BY <1>4, <1>5, <1>6 DEF Bijection, Injection, Surjection, IsInjective
<1>8. IsFiniteSet(S)
  BY HoldersFinite, SubsetCard
<1>9. Cardinality(P) = Cardinality(S)
  BY <1>7, <1>8, FS_Bijection DEF ExistsBijection
<1>10. Occurrences(U, b) = Cardinality(P)
  BY DEF Occurrences, at
<1> QED BY <1>9, <1>10, UsesCounts

LEMMA PhysicalBlocksFinite ==
  ASSUME BlocksOK, NEW g
  PROVE  PhysicalBlocks(g) \subseteq Blocks /\ IsFiniteSet(PhysicalBlocks(g))
<1>1. PhysicalBlocks(g) \subseteq Blocks
  BY DEF PhysicalBlocks, UnfinishedSeqs, SeqsOf, BlocksOK, Entries, Range
<1> QED BY <1>1, SeqsFinite, SubsetCard

\* Moving the tables of U, the holders of the blocks P, to free blocks.
LEMMA MoveKeepsBlocksOK ==
  ASSUME BlocksOK, SlidingWindow = 0, NEW U, U \subseteq Seqs,
         NEW P, P \subseteq Blocks,
         \A o : o \in P <=> \E s \in U : o \in Entries(block_tables[s]),
         NEW F, F \subseteq free_blocks, NEW m \in [P -> F],
         \A x, y \in P : m[x] = m[y] => x = y,
         ~DoubleFreesMoving(U), NEW st, MoveTables(U, m, st)
  PROVE  BlocksOK'
<1>1. /\ block_tables' = [s \in Seqs |->
             IF s \in U THEN Moved(block_tables[s], m) ELSE block_tables[s]]
      /\ free_blocks' = (free_blocks \ Entries(m))
             \cup {b \in P : ref_count[b] = Occurrences(U, b)}
      /\ ref_count' = [b \in Blocks |->
             IF b \in Entries(m) THEN MovedRefs(U, CHOOSE o \in P : m[o] = b)
             ELSE ref_count[b] - Occurrences(U, b)]
  BY DEF MoveTables
<1>2. \A b : Occurrences(U, b) = Uses(U, b) /\ Uses(U, b) \in Nat
  BY OccurrencesAreUses, UsesCounts
<1>3. \A b \in Blocks : Uses(U, b) <= ref_count[b] /\ ref_count[b] \in Nat
  BY <1>2 DEF DoubleFreesMoving, BlocksOK
<1>4. Entries(m) \subseteq free_blocks /\ Entries(m) \subseteq Blocks
  BY DEF Entries, Range, BlocksOK
<1>5. \A o \in P : o \notin free_blocks /\ (\E s \in U : s \in Holders(o))
  <2> TAKE o \in P
  <2>1. PICK s \in U : o \in Entries(block_tables[s])
    OBVIOUS
  <2>2. s \in Holders(o)
    BY <2>1 DEF Holders
  <2> QED BY <2>2, HeldIsReferenced
<1>6. \A s \in U : /\ block_tables[s] \in Seq(Blocks)
                   /\ \A i \in DOMAIN block_tables[s] : block_tables[s][i] \in P
  BY DEF BlocksOK, Entries, Range
<1>7. \A s \in U : /\ Moved(block_tables[s], m) \in Seq(Blocks)
                   /\ IsInjective(Moved(block_tables[s], m))
                   /\ \A o \in P : m[o] \in Entries(Moved(block_tables[s], m))
                                     <=> o \in Entries(block_tables[s])
                   /\ Entries(Moved(block_tables[s], m)) \subseteq Entries(m)
  <2> TAKE s \in U
  <2> DEFINE t == block_tables[s]
             u == Moved(t, m)
  <2>1. t \in Seq(Blocks) /\ (\A i \in DOMAIN t : t[i] \in P) /\ IsInjective(t)
    BY <1>6 DEF BlocksOK, TablesInjective
  <2>2. DOMAIN u = DOMAIN t /\ \A i \in DOMAIN t : u[i] = m[t[i]] /\ u[i] \in Entries(m)
    BY <2>1 DEF Moved, Entries, Range
  <2>3. u \in Seq(Blocks)
    <3>1. DOMAIN t = 1 .. Len(t) /\ Len(t) \in Nat
      BY <2>1
    <3>2. u = [i \in 1 .. Len(t) |-> m[t[i]]]
      BY <3>1 DEF Moved
    <3>3. \A i \in 1 .. Len(t) : m[t[i]] \in Blocks
      BY <3>1, <2>1, <2>2, <1>4
    <3> QED BY <3>1, <3>2, <3>3
  <2>4. IsInjective(u)
    <3> SUFFICES ASSUME NEW i \in DOMAIN u, NEW j \in DOMAIN u, u[i] = u[j]
                 PROVE  i = j
      BY DEF IsInjective
    <3>1. m[t[i]] = m[t[j]] /\ t[i] \in P /\ t[j] \in P
      BY <2>1, <2>2
    <3>2. t[i] = t[j]
      BY <3>1
    <3> QED BY <3>2, <2>1, <2>2 DEF IsInjective
  <2>5. \A o \in P : m[o] \in Entries(u) <=> o \in Entries(t)
    BY <2>1, <2>2 DEF Entries, Range
  <2>6. Entries(u) \subseteq Entries(m)
    BY <2>2 DEF Entries, Range
  <2> QED BY <2>3, <2>4, <2>5, <2>6
<1>8. block_tables' \in [Seqs -> Seq(Blocks)] /\ TablesInjective'
  BY <1>1, <1>7 DEF BlocksOK, TablesInjective
<1>9. ASSUME NEW b \in Blocks
      PROVE  /\ ref_count'[b] \in Nat
             /\ Uses(Seqs, b)' <= ref_count'[b]
             /\ b \in free_blocks' <=> ref_count'[b] = 0
  <2> DEFINE H == {r \in Seqs : b \in Entries(block_tables'[r])}
  <2>0. Uses(Seqs, b)' = Cardinality(H)
    BY UsesPrime
  <2>1. ref_count[b] \in Nat /\ (b \in free_blocks <=> ref_count[b] = 0)
    BY DEF BlocksOK, FreeIffUnreferenced
  <2>2. CASE b \in Entries(m)
    <3>1. PICK o \in P : m[o] = b
      BY <2>2 DEF Entries, Range
    <3>2. (CHOOSE x \in P : m[x] = b) = o
      BY <3>1
    <3>3. ref_count'[b] = Uses(U, o)
      BY <1>1, <1>2, <2>2, <3>2 DEF MovedRefs
    <3>4. Holders(b) = {}
      BY <1>4, <2>2, FreeIsUnused
    <3>5. H = U \cap Holders(o)
      BY <1>1, <1>7, <3>1, <3>4 DEF Holders
    <3>6. Cardinality(H) = Uses(U, o) /\ Uses(U, o) # 0
      <4>1. U \cap Holders(o) # {}
        BY <1>5
      <4>2. Uses(U, o) = Cardinality(U \cap Holders(o)) /\ Uses(U, o) # 0
        BY <4>1, UsesCounts
      <4> HIDE DEF H
      <4> QED BY <4>2, <3>5
    <3>7. b \notin free_blocks'
      BY <1>1, <1>4, <1>5, <2>2
    <3> QED BY <2>0, <3>3, <3>6, <3>7, <1>2
  <2>3. CASE b \notin Entries(m)
    <3>1. ref_count'[b] = ref_count[b] - Uses(U, b)
      BY <1>1, <1>2, <2>3
    <3>2. H = Holders(b) \ U
      BY <1>1, <1>7, <2>3 DEF Holders
    <3>3. Cardinality(Holders(b) \ U) = Uses(Seqs, b) - Uses(U, b)
      BY UsesCounts
    <3>4. Uses(Seqs, b) <= ref_count[b] /\ Uses(Seqs, b) \in Nat
      BY UsesCounts DEF BlocksOK, RefCountCoversTables
    <3>5. b \in free_blocks' <=> b \in free_blocks \/ (b \in P /\ ref_count[b] = Uses(U, b))
      BY <1>1, <1>2, <2>3
    <3>6. b \notin P => Uses(U, b) = 0
      <4>1. b \notin P => U \cap Holders(b) = {}
        BY DEF Holders
      <4> QED BY <4>1, UsesCounts
    <3>7. b \in P => b \notin free_blocks
      BY <1>5
    <3>8. ref_count'[b] \in Nat /\ Cardinality(H) <= ref_count'[b]
      <4>1. Cardinality(H) = Uses(Seqs, b) - Uses(U, b)
        BY <3>2, <3>3
      <4>2. Uses(U, b) \in Nat /\ Uses(U, b) <= ref_count[b]
        BY <1>2, <1>3
      <4> HIDE DEF H
      <4> QED BY <4>1, <4>2, <3>1, <3>4, <2>1
    <3>9. b \in free_blocks' <=> ref_count'[b] = 0
      BY <3>1, <3>5, <3>6, <3>7, <2>1, <1>2, <1>3
    <3> QED BY <2>0, <3>8, <3>9
  <2> QED BY <2>2, <2>3
<1>10. ref_count' \in [Blocks -> Nat] /\ free_blocks' \subseteq Blocks
  BY <1>1, <1>9 DEF BlocksOK
<1> QED BY <1>8, <1>9, <1>10 DEF BlocksOK, FreeIffUnreferenced, RefCountCoversTables

\* All unfinished sequences of a group share one status: the blocks of the
\* group are those of the sequences a swap moves.
LEMMA UnfinishedAreAlike ==
  ASSUME UniformStatus, status \in [Seqs -> Statuses], NEW g,
         NEW st \in {"RUNNING", "SWAPPED"}, SeqsWith(g, st) # {}
  PROVE  UnfinishedSeqs(g) = SeqsWith(g, st)
<1>1. PICK r \in Seqs : r[1] = g /\ status[r] = st
  BY DEF SeqsWith, SeqsOf
<1>2. SeqsWith(g, st) \subseteq UnfinishedSeqs(g)
  BY DEF SeqsWith, UnfinishedSeqs
<1>3. ASSUME NEW s \in UnfinishedSeqs(g) PROVE status[s] = st
  <2>1. s \in Seqs /\ s[1] = g /\ status[s] \in {"WAITING", "RUNNING", "SWAPPED"}
    BY <1>3 DEF UnfinishedSeqs, SeqsOf, Statuses
  <2> QED BY <1>1, <2>1 DEF UniformStatus
<1>4. UnfinishedSeqs(g) \subseteq SeqsWith(g, st)
  BY <1>3 DEF UnfinishedSeqs, SeqsWith
<1> QED BY <1>2, <1>4

LEMMA SwapKeepsBlocksOK ==
  ASSUME BlocksOK, SlidingWindow = 0, UniformStatus, status \in [Seqs -> Statuses],
         NEW g, NEW st \in {"RUNNING", "SWAPPED"}, NEW to,
         NEW F, F = FreeGpu \/ F = FreeCpu,
         SeqsWith(g, st) # {}, CanFresh(PhysicalBlocks(g), F),
         ~DoubleFreesMoving(SeqsWith(g, st)),
         MoveTables(SeqsWith(g, st), Fresh(PhysicalBlocks(g), F), to)
  PROVE  BlocksOK'
<1> DEFINE U == SeqsWith(g, st)
           P == PhysicalBlocks(g)
           m == Fresh(P, F)
<1>1. U \subseteq Seqs
  BY DEF SeqsWith, SeqsOf
<1>2. \A o : o \in P <=> \E s \in U : o \in Entries(block_tables[s])
  BY UnfinishedAreAlike DEF PhysicalBlocks
<1>3. P \subseteq Blocks /\ IsFiniteSet(P)
  BY PhysicalBlocksFinite
<1>4. /\ m \in [P -> F]
      /\ \A x, y \in P : m[x] = m[y] => x = y
      /\ F \subseteq free_blocks
  BY <1>3, FreshAreFree
<1>5. ~DoubleFreesMoving(U) /\ MoveTables(U, m, to)
  OBVIOUS
<1> HIDE DEF U, P, m
<1> QED BY <1>1, <1>2, <1>3, <1>4, <1>5, MoveKeepsBlocksOK

-----------------------------------------------------------------------------
\* The steps of the block manager.

LEMMA FreesKeepsBlocksOK ==
  ASSUME BlocksOK, SlidingWindow = 0,
         \/ \E s \in Seqs : Finish(s)
         \/ \E g \in Groups : Abort(g) \/ PreemptByRecompute(g)
  PROVE  BlocksOK'
<1>1. CASE \E s \in Seqs : Finish(s)
  <2>1. PICK s \in Seqs : Finish(s)
    BY <1>1
  <2>2. CASE DoubleFrees(Frees({s}))
    BY <2>1, <2>2, UnchangedBlocks DEF Finish, Fail
  <2>3. CASE ~DoubleFrees(Frees({s}))
    BY <2>1, <2>3, FreeTables DEF Finish
  <2> QED BY <2>2, <2>3
<1>2. CASE \E g \in Groups : Abort(g)
  <2>1. PICK g \in Groups : Abort(g)
    BY <1>2
  <2> DEFINE U == UnfinishedSeqs(g)
  <2>2. U \subseteq Seqs
    BY DEF UnfinishedSeqs, SeqsOf
  <2>3. CASE DoubleFrees(Frees(U))
    BY <2>1, <2>3, UnchangedBlocks DEF Abort, Fail
  <2>4. CASE ~DoubleFrees(Frees(U))
    BY <2>1, <2>2, <2>4, FreeTables DEF Abort
  <2> QED BY <2>3, <2>4
<1>3. CASE \E g \in Groups : PreemptByRecompute(g)
  <2>1. PICK g \in Groups : PreemptByRecompute(g)
    BY <1>3
  <2> DEFINE U == SeqsWith(g, "RUNNING")
  <2>2. U \subseteq Seqs
    BY DEF SeqsWith, SeqsOf
  <2>3. CASE Cardinality(U) # 1 \/ DoubleFrees(Frees(U))
    BY <2>1, <2>3, UnchangedBlocks DEF PreemptByRecompute, Fail
  <2>4. CASE Cardinality(U) = 1 /\ ~DoubleFrees(Frees(U))
    BY <2>1, <2>2, <2>4, FreeTables DEF PreemptByRecompute
  <2> QED BY <2>3, <2>4
<1> QED BY <1>1, <1>2, <1>3

LEMMA AppendSlotKeepsBlocksOK ==
  ASSUME BlocksOK, SlidingWindow = 0, NEW s \in Seqs, AppendSlot(s)
  PROVE  BlocksOK'
<1> DEFINE t == block_tables[s]
           n == LogicalBlocks(length[s])
<1>1. CASE t = <<>>
  BY <1>1, UnchangedBlocks DEF AppendSlot, Fail
<1>2. CASE t # <<>> /\ Len(t) >= n
  <2>1. WriteToLast(s, t)
    BY <1>2 DEF AppendSlot
  <2>2. CASE t[Len(t)] \notin GpuBlocks
    BY <2>1, <2>2, UnchangedBlocks DEF WriteToLast, Fail
  <2>3. CASE t[Len(t)] \in GpuBlocks /\ IsShared(t[Len(t)])
    BY <1>2, <2>1, <2>3, CopyOnWriteKeepsBlocksOK DEF WriteToLast
  <2>4. CASE t[Len(t)] \in GpuBlocks /\ ~IsShared(t[Len(t)])
    <3>1. block_tables' = block_tables
      BY <2>1, <2>4 DEF WriteToLast, BlocksOK
    <3> QED BY <2>1, <2>4, <3>1, UnchangedBlocks DEF WriteToLast
  <2> QED BY <2>2, <2>3, <2>4
<1>3. CASE t # <<>> /\ ~(Len(t) >= n) /\ Len(t) # n - 1
  BY <1>3, UnchangedBlocks DEF AppendSlot, Fail
<1>4. CASE t # <<>> /\ ~(Len(t) >= n) /\ Len(t) = n - 1
  <2>1. NewBlock(s, t)
    BY <1>4 DEF AppendSlot
  <2>2. CASE FreeGpu = {}
    BY <2>1, <2>2, UnchangedBlocks DEF NewBlock, Fail
  <2>3. CASE FreeGpu # {}
    BY <2>1, <2>3, NewBlockKeepsBlocksOK
  <2> QED BY <2>2, <2>3
<1> QED BY <1>1, <1>2, <1>3, <1>4

LEMMA SwapActionsKeepBlocksOK ==
  ASSUME IndInv, BlocksOK, SlidingWindow = 0, NEW g \in Groups,
         PreemptBySwap(g) \/ SwapIn(g)
  PROVE  BlocksOK'
<1>1. UniformStatus /\ status \in [Seqs -> Statuses]
  BY DEF IndInv, TypeOK
<1>2. CASE PreemptBySwap(g)
  <2> DEFINE U == SeqsWith(g, "RUNNING")
  <2>1. CASE ~CanSwapOut(g) \/ DoubleFreesMoving(U)
    BY <1>2, <2>1, UnchangedBlocks DEF PreemptBySwap, Fail
  <2>2. CASE CanSwapOut(g) /\ ~DoubleFreesMoving(U)
    <3>1. /\ U # {} /\ CanFresh(PhysicalBlocks(g), FreeCpu)
          /\ MoveTables(U, Fresh(PhysicalBlocks(g), FreeCpu), "SWAPPED")
      BY <1>2, <2>2 DEF PreemptBySwap, CanSwapOut
    <3> QED BY <1>1, <2>2, <3>1, SwapKeepsBlocksOK
  <2> QED BY <2>1, <2>2
<1>3. CASE SwapIn(g)
  <2> DEFINE U == SeqsWith(g, "SWAPPED")
  <2>1. CASE DoubleFreesMoving(U)
    BY <1>3, <2>1, UnchangedBlocks DEF SwapIn, Fail
  <2>2. CASE ~DoubleFreesMoving(U)
    <3>1. /\ U # {} /\ CanSwapIn(g) = "OK"
          /\ MoveTables(U, Fresh(PhysicalBlocks(g), FreeGpu), "RUNNING")
      BY <1>3, <2>2 DEF SwapIn
    <3>2. Cardinality(FreeGpu) - (Cardinality(PhysicalBlocks(g)) + Cardinality(U)) >= Watermark
      BY <3>1 DEF CanSwapIn, AllocStatus
    <3>3. U \subseteq Seqs
      BY DEF SeqsWith, SeqsOf
    <3>4. Cardinality(U) \in Nat /\ Cardinality(FreeGpu) \in Nat
      BY <3>3, SeqsFinite, SubsetCard DEF BlocksOK, FreeGpu
    <3>5. Cardinality(PhysicalBlocks(g)) \in Nat
      BY PhysicalBlocksFinite, FS_CardinalityType
    <3>6. CanFresh(PhysicalBlocks(g), FreeGpu)
      BY <3>2, <3>4, <3>5 DEF CanFresh
    <3> QED BY <1>1, <2>2, <3>1, <3>6, SwapKeepsBlocksOK
  <2> QED BY <2>1, <2>2
<1> QED BY <1>2, <1>3

LEMMA StepKeepsBlocksOK ==
  ASSUME IndInv, SlidingWindow = 0, Next
  PROVE  BlocksOK'
<1>1. BlocksOK /\ length \in [Seqs -> 0 .. MaxLen]
  BY DEF IndInv, TypeOK, BlocksOK
<1>2. ASSUME NEW g \in Groups, NEW n \in PromptLens, Submit(g, n) PROVE BlocksOK'
  BY <1>1, <1>2, UnchangedBlocks DEF Submit
<1>3. ASSUME NEW g \in Groups, Allocate(g) PROVE BlocksOK'
  BY <1>1, <1>3, AllocateKeepsBlocksOK
<1>4. ASSUME NEW g \in Groups, IgnorePrompt(g) PROVE BlocksOK'
  BY <1>1, <1>4, UnchangedBlocks DEF IgnorePrompt
<1>5. ASSUME NEW g \in Groups, Sample(g) PROVE BlocksOK'
  BY <1>1, <1>5, SampleKeepsBlocksOK
<1>6. ASSUME NEW g \in Groups, Abort(g) \/ PreemptByRecompute(g) PROVE BlocksOK'
  BY <1>1, <1>6, FreesKeepsBlocksOK
<1>7. ASSUME NEW g \in Groups, Retire(g) PROVE BlocksOK'
  BY <1>1, <1>7, UnchangedBlocks DEF Retire
<1>8. ASSUME NEW g \in Groups, BeginAppendSlots(g) PROVE BlocksOK'
  BY <1>1, <1>8, UnchangedBlocks DEF BeginAppendSlots
<1>9. ASSUME NEW g \in Groups, PreemptBySwap(g) \/ SwapIn(g) PROVE BlocksOK'
  BY <1>1, <1>9, SwapActionsKeepBlocksOK
<1>10. ASSUME NEW g \in Groups, IgnoreSwapped(g) PROVE BlocksOK'
  BY <1>1, <1>10, UnchangedBlocks DEF IgnoreSwapped
<1>11. ASSUME NEW s \in Seqs, Finish(s) PROVE BlocksOK'
  BY <1>1, <1>11, FreesKeepsBlocksOK
<1>12. ASSUME NEW s \in Seqs, AppendSlot(s) PROVE BlocksOK'
  BY <1>1, <1>12, AppendSlotKeepsBlocksOK
<1>13. ASSUME NEW p \in Seqs, NEW d \in Seqs, BeamReplace(p, d) PROVE BlocksOK'
  BY <1>1, <1>13, BeamReplaceKeepsBlocksOK
<1> QED BY <1>2, <1>3, <1>4, <1>5, <1>6, <1>7, <1>8, <1>9, <1>10, <1>11, <1>12, <1>13
           DEF Next

\* The variables that are not about blocks.
QueuesTypeOK ==
  /\ status \in [Seqs -> Statuses]
  /\ length \in [Seqs -> 0 .. MaxLen]
  /\ sampled \in [Groups -> BOOLEAN]
  /\ todo \subseteq Seqs
  /\ error \in Errors

LEMMA WithStatusType ==
  ASSUME QueuesTypeOK, NEW U, NEW st \in Statuses
  PROVE  WithStatus(U, st) \in [Seqs -> Statuses]
BY DEF QueuesTypeOK, WithStatus

\* Moving all unfinished sequences of a group, or part of them to a status that
\* is not one of the queues, keeps the others of the group alike.
LEMMA WithStatusUniform ==
  ASSUME QueuesTypeOK, UniformStatus, NEW g, NEW U, U \subseteq Seqs,
         NEW st \in Statuses, status' = WithStatus(U, st),
         \/ st \in {"none", "FINISHED"}
         \/ /\ \A s \in U : s[1] = g
            /\ \A s \in Seqs : s[1] = g /\ status[s] \in {"WAITING", "RUNNING", "SWAPPED"}
                                => s \in U \/ status[s] = st
  PROVE  UniformStatus'
<1> SUFFICES ASSUME NEW r \in Seqs, NEW s \in Seqs, r[1] = s[1],
                    status'[r] \in {"WAITING", "RUNNING", "SWAPPED"},
                    status'[s] \in {"WAITING", "RUNNING", "SWAPPED"}
             PROVE  status'[r] = status'[s]
  BY DEF UniformStatus
<1>1. \A q \in Seqs : status'[q] = IF q \in U THEN st ELSE status[q]
  BY DEF WithStatus
<1>2. CASE st \in {"none", "FINISHED"}
  <2>1. r \notin U /\ s \notin U
    BY <1>1, <1>2
  <2> QED BY <2>1, <1>1 DEF UniformStatus
<1>3. CASE /\ \A q \in U : q[1] = g
           /\ \A q \in Seqs : q[1] = g /\ status[q] \in {"WAITING", "RUNNING", "SWAPPED"}
                               => q \in U \/ status[q] = st
  <2>1. CASE r[1] = g
    BY <1>1, <1>3, <2>1
  <2>2. CASE r[1] # g
    <3>1. r \notin U /\ s \notin U
      BY <1>3, <2>2
    <3> QED BY <3>1, <1>1 DEF UniformStatus
  <2> QED BY <2>1, <2>2
<1> QED BY <1>2, <1>3

LEMMA FailKeepsQueues ==
  ASSUME QueuesTypeOK, UniformStatus, NEW e \in Errors, Fail(e)
  PROVE  QueuesTypeOK' /\ UniformStatus'
BY DEF QueuesTypeOK, UniformStatus, Fail

LEMMA StepKeepsQueues ==
  ASSUME IndInv, Next
  PROVE  QueuesTypeOK' /\ UniformStatus'
<1>0. QueuesTypeOK /\ UniformStatus /\ status \in [Seqs -> Statuses]
  BY DEF IndInv, TypeOK, QueuesTypeOK
<1>a. \A g : SeqsOf(g) \subseteq Seqs /\ \A st : SeqsWith(g, st) \subseteq SeqsOf(g)
  BY DEF SeqsOf, SeqsWith
<1>b. \A g : UnfinishedSeqs(g) \subseteq Seqs
  BY DEF SeqsOf, UnfinishedSeqs
<1>c. \A g, st : \A s \in SeqsWith(g, st) : s \in Seqs /\ s[1] = g /\ status[s] = st
  BY DEF SeqsOf, SeqsWith
\* The others of a group are alike with the members of SeqsWith(g, st).
<1>d. ASSUME NEW g, NEW st \in {"WAITING", "RUNNING", "SWAPPED"}, SeqsWith(g, st) # {}
      PROVE  \A s \in Seqs : s[1] = g /\ status[s] \in {"WAITING", "RUNNING", "SWAPPED"}
                              => s \in SeqsWith(g, st)
  <2>1. PICK r \in Seqs : r[1] = g /\ status[r] = st
    BY <1>d, <1>c
  <2> QED BY <1>0, <2>1 DEF UniformStatus, SeqsWith, SeqsOf
<1>1. ASSUME NEW g \in Groups, NEW n \in PromptLens, Submit(g, n)
      PROVE  QueuesTypeOK' /\ UniformStatus'
  <2>1. <<g, 1>> \in Seqs /\ n \in 0 .. MaxLen
    BY DEF Seqs, Index
  <2>2. QueuesTypeOK'
    BY <1>0, <1>1, <2>1 DEF Submit, QueuesTypeOK, Statuses
  <2>3. \A s \in Seqs : s[1] = g => status[s] = "none"
    BY <1>1 DEF Submit, SeqsOf
  <2>4. \A s \in Seqs : status'[s] = IF s = <<g, 1>> THEN "WAITING" ELSE status[s]
    BY <1>0, <1>1, <2>1 DEF Submit
  <2>5. UniformStatus'
    BY <1>0, <2>3, <2>4 DEF UniformStatus
  <2> QED BY <2>2, <2>5
<1>2. ASSUME NEW g \in Groups, Allocate(g)
      PROVE  QueuesTypeOK' /\ UniformStatus'
  <2>1. /\ SeqsWith(g, "WAITING") # {}
        /\ status' = WithStatus(SeqsWith(g, "WAITING"), "RUNNING")
        /\ UNCHANGED <<length, sampled, todo, error>>
    BY <1>2 DEF Allocate
  <2>2. UniformStatus'
    <3> DEFINE U == SeqsWith(g, "WAITING")
    <3>1. /\ U \subseteq Seqs /\ (\A s \in U : s[1] = g)
          /\ \A s \in Seqs : s[1] = g /\ status[s] \in {"WAITING", "RUNNING", "SWAPPED"}
                             => s \in U
      BY <1>a, <1>c, <1>d, <2>1
    <3>2. status' = WithStatus(U, "RUNNING")
      BY <2>1
    <3> HIDE DEF U
    <3> QED BY <1>0, <3>1, <3>2, WithStatusUniform DEF Statuses
  <2> QED BY <1>0, <2>1, <2>2, WithStatusType DEF QueuesTypeOK, Statuses
<1>3. ASSUME NEW g \in Groups, IgnorePrompt(g)
      PROVE  QueuesTypeOK' /\ UniformStatus'
  <2>1. /\ status' = WithStatus(SeqsWith(g, "WAITING"), "FINISHED")
        /\ UNCHANGED <<length, sampled, todo, error>>
    BY <1>3 DEF IgnorePrompt
  <2>2. UniformStatus'
    BY <1>0, <1>a, <2>1, WithStatusUniform DEF Statuses
  <2> QED BY <1>0, <2>1, <2>2, WithStatusType DEF QueuesTypeOK, Statuses
<1>4. ASSUME NEW g \in Groups, Sample(g)
      PROVE  QueuesTypeOK' /\ UniformStatus'
  <2> DEFINE running == SeqsWith(g, "RUNNING")
             p == CHOOSE s \in running : TRUE
             children == IF NumSeqs(g) < BestOf
                           THEN {s \in Seqs : s[1] = g /\ status[s] = "none"} ELSE {}
  <2>1. /\ running # {}
        /\ \A s \in running : length[s] < MaxLen
        /\ status' = WithStatus(children, "RUNNING")
        /\ length' = [s \in Seqs |->
               IF s \in running THEN length[s] + 1
               ELSE IF s \in children THEN length[p] + 1 ELSE length[s]]
        /\ sampled' = [sampled EXCEPT ![g] = TRUE]
        /\ UNCHANGED <<todo, error>>
    BY <1>4 DEF Sample
  <2>2. p \in running /\ p \in Seqs /\ running \subseteq Seqs
    BY <2>1, <1>a
  <2>3. \A s \in Seqs : s[1] = g /\ status[s] \in {"WAITING", "RUNNING", "SWAPPED"}
                         => status[s] = "RUNNING"
    BY <2>1, <1>c, <1>d
  <2>4. children \subseteq Seqs /\ \A s \in children : s[1] = g
    OBVIOUS
  <2> HIDE DEF running, p, children
  <2>5. length' \in [Seqs -> 0 .. MaxLen]
    BY <1>0, <2>1, <2>2 DEF QueuesTypeOK
  <2>6. UniformStatus'
    BY <1>0, <2>1, <2>3, <2>4, WithStatusUniform DEF Statuses
  <2> QED BY <1>0, <2>1, <2>5, <2>6, WithStatusType DEF QueuesTypeOK, Statuses
<1>5. ASSUME NEW g \in Groups, Abort(g)
      PROVE  QueuesTypeOK' /\ UniformStatus'
  <2>1. CASE DoubleFrees(Frees(UnfinishedSeqs(g)))
    BY <1>0, <1>5, <2>1, FailKeepsQueues DEF Abort, Errors
  <2>2. CASE ~DoubleFrees(Frees(UnfinishedSeqs(g)))
    <3>1. /\ status' = WithStatus(UnfinishedSeqs(g), "FINISHED")
          /\ UNCHANGED <<length, sampled, todo, error>>
      BY <1>5, <2>2 DEF Abort
    <3>2. UniformStatus'
      BY <1>0, <1>b, <3>1, WithStatusUniform DEF Statuses
    <3> QED BY <1>0, <3>1, <3>2, WithStatusType DEF QueuesTypeOK, Statuses
  <2> QED BY <2>1, <2>2
<1>6. ASSUME NEW g \in Groups, Retire(g)
      PROVE  QueuesTypeOK' /\ UniformStatus'
  <2>1. /\ status' = WithStatus(SeqsOf(g), "none")
        /\ length' = [s \in Seqs |-> IF s[1] = g THEN 0 ELSE length[s]]
        /\ UNCHANGED <<sampled, todo, error>>
    BY <1>6 DEF Retire
  <2>2. UniformStatus'
    BY <1>0, <1>a, <2>1, WithStatusUniform DEF Statuses
  <2>3. length' \in [Seqs -> 0 .. MaxLen]
    BY <1>0, <2>1 DEF QueuesTypeOK
  <2> QED BY <1>0, <2>1, <2>2, <2>3, WithStatusType DEF QueuesTypeOK, Statuses
<1>7. ASSUME NEW g \in Groups, BeginAppendSlots(g)
      PROVE  QueuesTypeOK' /\ UniformStatus'
  BY <1>0, <1>7, <1>a DEF BeginAppendSlots, QueuesTypeOK, UniformStatus
<1>8. ASSUME NEW g \in Groups, PreemptByRecompute(g)
      PROVE  QueuesTypeOK' /\ UniformStatus'
  <2> DEFINE U == SeqsWith(g, "RUNNING")
  <2>1. CASE Cardinality(U) # 1 \/ DoubleFrees(Frees(U))
    BY <1>0, <1>8, <2>1, FailKeepsQueues DEF PreemptByRecompute, Errors
  <2>2. CASE Cardinality(U) = 1 /\ ~DoubleFrees(Frees(U))
    <3>1. /\ U # {}
          /\ status' = WithStatus(U, "WAITING")
          /\ sampled' = [sampled EXCEPT ![g] = FALSE]
          /\ UNCHANGED <<length, todo, error>>
      BY <1>8, <2>2 DEF PreemptByRecompute
    <3>2. /\ U \subseteq Seqs /\ (\A s \in U : s[1] = g)
          /\ \A s \in Seqs : s[1] = g /\ status[s] \in {"WAITING", "RUNNING", "SWAPPED"}
                             => s \in U
      BY <1>a, <1>c, <1>d, <3>1
    <3> HIDE DEF U
    <3>3. UniformStatus'
      BY <1>0, <3>1, <3>2, WithStatusUniform DEF Statuses
    <3> QED BY <1>0, <3>1, <3>3, WithStatusType DEF QueuesTypeOK, Statuses
  <2> QED BY <2>1, <2>2
<1>9. ASSUME NEW g \in Groups, PreemptBySwap(g)
      PROVE  QueuesTypeOK' /\ UniformStatus'
  <2> DEFINE U == SeqsWith(g, "RUNNING")
  <2>1. CASE ~CanSwapOut(g) \/ DoubleFreesMoving(U)
    BY <1>0, <1>9, <2>1, FailKeepsQueues DEF PreemptBySwap, Errors
  <2>2. CASE CanSwapOut(g) /\ ~DoubleFreesMoving(U)
    <3>1. /\ U # {}
          /\ status' = WithStatus(U, "SWAPPED")
          /\ UNCHANGED <<length, sampled, todo, error>>
      BY <1>9, <2>2 DEF PreemptBySwap, MoveTables
    <3>2. /\ U \subseteq Seqs /\ (\A s \in U : s[1] = g)
          /\ \A s \in Seqs : s[1] = g /\ status[s] \in {"WAITING", "RUNNING", "SWAPPED"}
                             => s \in U
      BY <1>a, <1>c, <1>d, <3>1
    <3> HIDE DEF U
    <3>3. UniformStatus'
      BY <1>0, <3>1, <3>2, WithStatusUniform DEF Statuses
    <3> QED BY <1>0, <3>1, <3>3, WithStatusType DEF QueuesTypeOK, Statuses
  <2> QED BY <2>1, <2>2
<1>10. ASSUME NEW g \in Groups, SwapIn(g)
       PROVE  QueuesTypeOK' /\ UniformStatus'
  <2> DEFINE U == SeqsWith(g, "SWAPPED")
  <2>1. CASE DoubleFreesMoving(U)
    BY <1>0, <1>10, <2>1, FailKeepsQueues DEF SwapIn, Errors
  <2>2. CASE ~DoubleFreesMoving(U)
    <3>1. /\ U # {} /\ U \subseteq Seqs
          /\ status' = WithStatus(U, "RUNNING")
          /\ todo' = U
          /\ sampled' = [sampled EXCEPT ![g] = FALSE]
          /\ UNCHANGED <<length, error>>
      BY <1>10, <1>a, <2>2 DEF SwapIn, MoveTables
    <3>2. /\ \A s \in U : s[1] = g
          /\ \A s \in Seqs : s[1] = g /\ status[s] \in {"WAITING", "RUNNING", "SWAPPED"}
                             => s \in U
      BY <1>c, <1>d, <3>1
    <3> HIDE DEF U
    <3>3. UniformStatus'
      BY <1>0, <3>1, <3>2, WithStatusUniform DEF Statuses
    <3> QED BY <1>0, <3>1, <3>3, WithStatusType DEF QueuesTypeOK, Statuses
  <2> QED BY <2>1, <2>2
<1>11. ASSUME NEW g \in Groups, IgnoreSwapped(g)
       PROVE  QueuesTypeOK' /\ UniformStatus'
  <2>1. /\ status' = WithStatus(SeqsOf(g), "FINISHED")
        /\ UNCHANGED <<length, sampled, todo, error>>
    BY <1>11 DEF IgnoreSwapped
  <2>2. UniformStatus'
    BY <1>0, <1>a, <2>1, WithStatusUniform DEF Statuses
  <2> QED BY <1>0, <2>1, <2>2, WithStatusType DEF QueuesTypeOK, Statuses
<1>12. ASSUME NEW s \in Seqs, Finish(s)
       PROVE  QueuesTypeOK' /\ UniformStatus'
  <2>1. CASE DoubleFrees(Frees({s}))
    BY <1>0, <1>12, <2>1, FailKeepsQueues DEF Finish, Errors
  <2>2. CASE ~DoubleFrees(Frees({s}))
    <3>1. /\ status' = WithStatus({s}, "FINISHED")
          /\ UNCHANGED <<length, sampled, todo, error>>
      BY <1>12, <2>2 DEF Finish
    <3>2. UniformStatus'
      BY <1>0, <3>1, WithStatusUniform DEF Statuses
    <3> QED BY <1>0, <3>1, <3>2, WithStatusType DEF QueuesTypeOK, Statuses
  <2> QED BY <2>1, <2>2
<1>13. ASSUME NEW s \in Seqs, AppendSlot(s)
       PROVE  QueuesTypeOK' /\ UniformStatus'
  <2>1. \/ Fail("KeyError") \/ Fail("Assert") \/ Fail("OutOfMemory") \/ Fail("DoubleFree")
        \/ todo' = todo \ {s} /\ UNCHANGED <<status, length, sampled, error>>
    BY <1>13 DEF AppendSlot, WriteToLast, CopyOnWrite, NewBlock
  <2>2. CASE todo' = todo \ {s} /\ UNCHANGED <<status, length, sampled, error>>
    BY <1>0, <2>2 DEF QueuesTypeOK, UniformStatus
  <2> QED BY <1>0, <2>1, <2>2, FailKeepsQueues DEF Errors
<1>14. ASSUME NEW p \in Seqs, NEW d \in Seqs, BeamReplace(p, d)
       PROVE  QueuesTypeOK' /\ UniformStatus'
  <2>1. \/ Fail("DoubleFree")
        \/ /\ length' = [length EXCEPT ![d] = length[p]]
           /\ UNCHANGED <<status, sampled, todo, error>>
    BY <1>14 DEF BeamReplace
  <2>2. CASE Fail("DoubleFree")
    BY <1>0, <2>2, FailKeepsQueues DEF Errors
  <2>3. CASE /\ length' = [length EXCEPT ![d] = length[p]]
             /\ UNCHANGED <<status, sampled, todo, error>>
    BY <1>0, <2>3 DEF QueuesTypeOK, UniformStatus
  <2> QED BY <2>1, <2>2, <2>3
<1> QED BY <1>1, <1>2, <1>3, <1>4, <1>5, <1>6, <1>7, <1>8, <1>9, <1>10, <1>11, <1>12,
           <1>13, <1>14 DEF Next

-----------------------------------------------------------------------------
\* The theorems.

LEMMA InitInv ==
  ASSUME SlidingWindow = 0, Init
  PROVE  IndInv
<1>1. BlocksOK
  <2>1. \A b \in Blocks : Holders(b) = {}
    BY DEF Init, Holders, Entries, Range
  <2>2. \A b \in Blocks : Uses(Seqs, b) = 0
    <3> TAKE b \in Blocks
    <3>1. Seqs \cap Holders(b) = {}
      BY <2>1
    <3> QED BY <3>1, UsesCounts
  <2> QED BY <2>2 DEF Init, BlocksOK, FreeIffUnreferenced, RefCountCoversTables,
             TablesInjective, IsInjective
<1>2. TypeOK /\ UniformStatus
  BY DEF Init, TypeOK, UniformStatus, Statuses, Errors
<1> QED BY <1>1, <1>2 DEF IndInv, BlocksOK

LEMMA StepInv ==
  ASSUME SlidingWindow = 0, IndInv, [Next]_vars
  PROVE  IndInv'
<1>1. CASE Next
  BY <1>1, StepKeepsBlocksOK, StepKeepsQueues
     DEF BlocksOK, QueuesTypeOK, IndInv, TypeOK
<1>2. CASE UNCHANGED vars
  <2>1. BlocksOK
    BY DEF IndInv, TypeOK, BlocksOK
  <2>2. BlocksOK'
    BY <1>2, <2>1, UnchangedBlocks DEF vars
  <2> QED BY <1>2, <2>2 DEF vars, BlocksOK, IndInv, TypeOK, UniformStatus
<1> QED BY <1>1, <1>2

\* In every reachable state of every instance without a sliding window, the
\* free list is exactly the unreferenced blocks, every table is covered by the
\* counts of its blocks and lists none twice, and the sequences of a group move
\* between the scheduler's queues together.
THEOREM BlockAccounting ==
  ASSUME SlidingWindow = 0
  PROVE  Spec => []IndInv
<1>1. Init => IndInv
  BY InitInv
<1>2. IndInv /\ [Next]_vars => IndInv'
  BY StepInv
<1> QED BY <1>1, <1>2, PTL DEF Spec

\* No block is on a free list while a block table refers to it: KV cache that a
\* sequence still reads is never handed out to another one.
THEOREM NoBlockReusedWhileHeld ==
  ASSUME SlidingWindow = 0
  PROVE  Spec => []NoUseAfterFree
<1>1. IndInv => NoUseAfterFree
  <2> SUFFICES ASSUME IndInv, NEW s \in Seqs, NEW b \in free_blocks,
                      b \in Live(block_tables[s])
               PROVE  FALSE
    BY DEF NoUseAfterFree
  <2>1. BlocksOK
    BY DEF IndInv, TypeOK, BlocksOK
  <2>2. s \in Holders(b)
    BY LiveIsEntries DEF Holders
  <2> QED BY <2>1, <2>2, FreeIsUnused
<1> QED BY <1>1, BlockAccounting, PTL

\* The variables keep their types.
THEOREM TypeCorrect ==
  ASSUME SlidingWindow = 0
  PROVE  Spec => []TypeOK
<1>1. IndInv => TypeOK
  BY DEF IndInv
<1> QED BY <1>1, BlockAccounting, PTL
-----------------------------------------------------------------------------
\* Slots.  What makes WriteIsExclusive and NoAllocatorError inductive.

\* The token of the last output has no slot yet.
Pending(s) == sampled[s[1]] \/ s \in todo

\* The tokens of s that have a slot.
Slotted(s) == IF Pending(s) THEN length[s] - 1 ELSE length[s]

\* The table of a sequence that runs covers the tokens that have a slot and
\* is on the device; that of a swapped one lacks the slot of the last token.
TablesInv ==
  \A s \in Seqs :
    /\ status[s] = "RUNNING" =>
         /\ Slotted(s) \in Nat \ {0}
         /\ Len(block_tables[s]) = LogicalBlocks(Slotted(s))
         /\ Entries(block_tables[s]) \subseteq GpuBlocks
    /\ status[s] = "SWAPPED" =>
         /\ length[s] - 1 \in Nat \ {0}
         /\ Len(block_tables[s]) = LogicalBlocks(length[s] - 1)
    /\ status[s] = "WAITING" => length[s] \in Nat \ {0} /\ ~sampled[s[1]]

\* A group waits with one sequence.
OneWaits ==
  \A r, s \in Seqs :
    r[1] = s[1] /\ status[r] = "WAITING" /\ status[s] = "WAITING" => r = s

\* The blocks that the loop of _append_slots may still need are there.
TodoInv ==
  /\ \A s \in todo : status[s] = "RUNNING" /\ ~sampled[s[1]]
  /\ Cardinality(todo) <= Cardinality(FreeGpu)

Last(s) == block_tables[s][Len(block_tables[s])]

\* WriteIsExclusive, without a window and with the lengths left to TablesInv.
Exclusive(s) == \A r \in Seqs \ {s} : Last(s) \notin Entries(block_tables[r])
LastsInv == \A s \in Seqs : status[s] = "RUNNING" /\ ~Pending(s) => Exclusive(s)

Slots == TablesInv /\ OneWaits /\ TodoInv /\ LastsInv

LEMMA LogicalBlocksStep ==
  ASSUME NEW n \in Nat \ {0}
  PROVE  /\ LogicalBlocks(n) \in Nat \ {0}
         /\ LogicalBlocks(n + 1) \in Nat
         /\ LogicalBlocks(n) <= LogicalBlocks(n + 1)
         /\ LogicalBlocks(n + 1) <= LogicalBlocks(n) + 1
<1> DEFINE a == n + BlockSize - 1
           q == a \div BlockSize
           r == a % BlockSize
           p == (a + 1) \div BlockSize
           u == (a + 1) % BlockSize
<1>1. BlockSize \in Nat \ {0} /\ a \in Nat /\ a >= BlockSize
  OBVIOUS
<1>2. q \in Nat /\ r \in 0 .. (BlockSize - 1) /\ a = BlockSize * q + r
  BY <1>1
<1>3. p \in Nat /\ u \in 0 .. (BlockSize - 1) /\ a + 1 = BlockSize * p + u
  BY <1>1
<1>4. LogicalBlocks(n) = q /\ LogicalBlocks(n + 1) = p
  BY <1>1 DEF LogicalBlocks
<1> HIDE DEF a, q, r, p, u
<1>5. q # 0
  BY <1>1, <1>2
<1>6. q <= p
  <2> SUFFICES ASSUME p <= q - 1 PROVE FALSE
    BY <1>2, <1>3
  <2>1. BlockSize * p <= BlockSize * (q - 1)
    BY <1>1, <1>2, <1>3
  <2>2. BlockSize * (q - 1) = BlockSize * q - BlockSize
    BY <1>1, <1>2
  <2> QED BY <1>1, <1>2, <1>3, <2>1, <2>2
<1>7. p <= q + 1
  <2> SUFFICES ASSUME q + 2 <= p PROVE FALSE
    BY <1>2, <1>3
  <2>1. BlockSize * (q + 2) <= BlockSize * p
    BY <1>1, <1>2, <1>3
  <2>2. BlockSize * (q + 2) = BlockSize * q + 2 * BlockSize
    BY <1>1, <1>2
  <2> QED BY <1>1, <1>2, <1>3, <2>1, <2>2
<1> QED BY <1>2, <1>3, <1>4, <1>5, <1>6, <1>7

\* Freeing whole tables never frees a block twice.
LEMMA NoDoubleFree ==
  ASSUME BlocksOK, SlidingWindow = 0, NEW U, U \subseteq Seqs
  PROVE  ~DoubleFrees(Frees(U)) /\ ~DoubleFreesMoving(U)
<1>1. ASSUME NEW b \in Blocks PROVE Uses(U, b) <= ref_count[b] /\ Uses(U, b) \in Nat /\ ref_count[b] \in Nat
  <2>1. Cardinality(Holders(b) \ U) \in Nat /\ Cardinality(Holders(b)) \in Nat
    BY HoldersFinite, SubsetCard
  <2>2. Cardinality(Holders(b)) <= ref_count[b] /\ ref_count[b] \in Nat
    BY HoldersCovered
  <2>3. Uses(Seqs, b) = Cardinality(Holders(b)) /\ Uses(U, b) \in Nat
        /\ Cardinality(Holders(b) \ U) = Uses(Seqs, b) - Uses(U, b)
    BY UsesCounts
  <2> QED BY <2>1, <2>2, <2>3
<1>2. \A b \in Blocks : Occurrences(U, b) = Uses(U, b)
  BY OccurrencesAreUses
<1> QED BY <1>1, <1>2 DEF DoubleFrees, DoubleFreesMoving, Frees

\* The last block of a table is one of its blocks, and not free.
LEMMA LastIsHeld ==
  ASSUME BlocksOK, SlidingWindow = 0, TablesInv, NEW s \in Seqs, status[s] = "RUNNING"
  PROVE  /\ block_tables[s] \in Seq(Blocks) /\ Len(block_tables[s]) \in Nat \ {0}
         /\ Last(s) \in Entries(block_tables[s])
         /\ Last(s) \in GpuBlocks
         /\ Last(s) \in Blocks
         /\ Last(s) \notin free_blocks
         /\ s \in Holders(Last(s))
<1>1. block_tables[s] \in Seq(Blocks)
  BY DEF BlocksOK
<1>2. Len(block_tables[s]) \in Nat \ {0}
  BY LogicalBlocksStep DEF TablesInv
<1>3. Len(block_tables[s]) \in DOMAIN block_tables[s]
  BY <1>1, <1>2
<1>4. Last(s) \in Entries(block_tables[s])
  BY <1>3 DEF Last, Entries, Range
<1>5. Last(s) \in GpuBlocks
  BY <1>4 DEF TablesInv
<1>6. Last(s) \in Blocks /\ s \in Holders(Last(s))
  BY <1>4, <1>5 DEF Blocks, Holders
<1> QED BY <1>1, <1>2, <1>4, <1>5, <1>6, HeldIsReferenced

\* A last block stays its sequence's own while the other tables only get
\* blocks that other tables had, or fresh ones.
LEMMA LastStaysOwn ==
  ASSUME BlocksOK, SlidingWindow = 0, TablesInv, LastsInv,
         NEW s \in Seqs, status[s] = "RUNNING", ~Pending(s),
         block_tables'[s] = block_tables[s],
         \A r \in Seqs \ {s} : \E q \in Seqs \ {s} :
            Entries(block_tables'[r]) \subseteq Entries(block_tables[q]) \cup free_blocks
  PROVE  Exclusive(s)'
<1>1. \A q \in Seqs \ {s} : Last(s) \notin Entries(block_tables[q]) \cup free_blocks
  BY LastIsHeld DEF LastsInv, Exclusive
<1>2. Last(s)' = Last(s)
  BY DEF Last
<1> QED BY <1>1, <1>2 DEF Exclusive

LEMMA FailKeepsSlots ==
  ASSUME Slots, NEW e, Fail(e)
  PROVE  Slots'
BY DEF Slots, Fail, TablesInv, OneWaits, TodoInv, LastsInv, Exclusive, Last, Pending, Slotted,
       FreeGpu

\* With no loop of _append_slots running, nothing is needed of the free list.
LEMMA NothingToDo ==
  ASSUME BlocksOK', todo' = {}
  PROVE  TodoInv'
<1>1. Cardinality({}) = 0
  BY FS_EmptySet
<1>2. FreeGpu' \subseteq Blocks
  BY DEF BlocksOK, FreeGpu
<1>3. Cardinality(FreeGpu') \in Nat
  BY <1>2, SeqsFinite, SubsetCard
<1> QED BY <1>1, <1>3 DEF TodoInv

SlotsIndInv == IndInv /\ Slots /\ NoAllocatorError

LEMMA Facts ==
  ASSUME SlotsIndInv
  PROVE  /\ BlocksOK /\ QueuesTypeOK /\ UniformStatus /\ Slots
         /\ TablesInv /\ OneWaits /\ TodoInv /\ LastsInv
         /\ \A s \in Seqs : s[1] \in Groups /\ length[s] \in Nat
                            /\ block_tables[s] \in Seq(Blocks)
BY DEF SlotsIndInv, IndInv, TypeOK, BlocksOK, QueuesTypeOK, Slots, Seqs

\* Steps that take sequences out of the running ones, or none.
LEMMA SlotsShrink ==
  ASSUME SlotsIndInv, BlocksOK', SlidingWindow = 0, todo = {}, todo' = {},
         \A s \in Seqs :
           /\ status'[s] = "RUNNING" => /\ status[s] = "RUNNING"
                                        /\ block_tables'[s] = block_tables[s]
                                        /\ length'[s] = length[s]
                                        /\ sampled'[s[1]] = sampled[s[1]]
           /\ status'[s] = "SWAPPED" => /\ status[s] = "SWAPPED"
                                        /\ block_tables'[s] = block_tables[s]
                                        /\ length'[s] = length[s]
           /\ status'[s] = "WAITING" => length'[s] \in Nat \ {0} /\ ~sampled'[s[1]]
           /\ Entries(block_tables'[s]) \subseteq Entries(block_tables[s]),
         OneWaits'
  PROVE  Slots'
<1>1. BlocksOK /\ TablesInv /\ LastsInv
  BY Facts
<1>2. TablesInv'
  BY <1>1 DEF TablesInv, Slotted, Pending
<1>3. LastsInv'
  <2> SUFFICES ASSUME NEW s \in Seqs, status'[s] = "RUNNING", ~Pending(s)'
               PROVE  Exclusive(s)'
    BY DEF LastsInv
  <2>1. status[s] = "RUNNING" /\ ~Pending(s) /\ block_tables'[s] = block_tables[s]
    BY DEF Pending
  <2> QED BY <1>1, <2>1, LastStaysOwn
<1> QED BY <1>2, <1>3, NothingToDo DEF Slots

LEMMA EntriesOfNone == Entries(<<>>) = {}
BY DEF Entries, Range

\* Freed tables.
LEMMA WithoutTablesShrinks ==
  ASSUME NEW U, block_tables' = WithoutTables(U), NEW s \in Seqs
  PROVE  /\ Entries(block_tables'[s]) \subseteq Entries(block_tables[s])
         /\ s \notin U => block_tables'[s] = block_tables[s]
BY EntriesOfNone DEF WithoutTables

LEMMA SubmitSlots ==
  ASSUME SlotsIndInv, BlocksOK', SlidingWindow = 0,
         NEW g \in Groups, NEW n \in PromptLens, Submit(g, n)
  PROVE  Slots' /\ NoAllocatorError'
<1>1. /\ QueuesTypeOK /\ OneWaits /\ TablesInv
      /\ \A s \in Seqs : s[1] \in Groups
  BY Facts
<1>2. /\ status' = [status EXCEPT ![<<g, 1>>] = "WAITING"]
      /\ length' = [length EXCEPT ![<<g, 1>>] = n]
      /\ sampled' = [sampled EXCEPT ![g] = FALSE]
      /\ UNCHANGED <<free_blocks, ref_count, block_tables, todo, error>>
      /\ todo = {}
      /\ \A s \in Seqs : s[1] = g => status[s] = "none"
  BY DEF Submit, Idle, SeqsOf
<1>3. n \in Nat \ {0}
  OBVIOUS
<1>4. OneWaits'
  BY <1>1, <1>2 DEF OneWaits, QueuesTypeOK
<1>5. \A s \in Seqs :
        /\ s = <<g, 1>> => status'[s] = "WAITING" /\ length'[s] = n /\ ~sampled'[s[1]]
        /\ s # <<g, 1>> => status'[s] = status[s] /\ length'[s] = length[s]
        /\ s[1] # g => sampled'[s[1]] = sampled[s[1]]
        /\ status[s] \in {"RUNNING", "SWAPPED", "WAITING"} => s[1] # g
  <2> TAKE s \in Seqs
  <2>1. status \in [Seqs -> Statuses] /\ length \in [Seqs -> 0 .. MaxLen]
        /\ sampled \in [Groups -> BOOLEAN] /\ s[1] \in Groups
    BY <1>1 DEF QueuesTypeOK
  <2>2. s = <<g, 1>> => s[1] = g
    OBVIOUS
  <2> QED BY <1>2, <2>1, <2>2
<1>6. \A s \in Seqs :
        /\ status'[s] = "RUNNING" => /\ status[s] = "RUNNING"
                                     /\ block_tables'[s] = block_tables[s]
                                     /\ length'[s] = length[s]
                                     /\ sampled'[s[1]] = sampled[s[1]]
        /\ status'[s] = "SWAPPED" => /\ status[s] = "SWAPPED"
                                     /\ block_tables'[s] = block_tables[s]
                                     /\ length'[s] = length[s]
        /\ status'[s] = "WAITING" => length'[s] \in Nat \ {0} /\ ~sampled'[s[1]]
        /\ Entries(block_tables'[s]) \subseteq Entries(block_tables[s])
  <2> TAKE s \in Seqs
  <2>1. block_tables'[s] = block_tables[s]
    BY <1>2
  <2>2. CASE s = <<g, 1>>
    <3>1. status'[s] = "WAITING" /\ length'[s] \in Nat \ {0} /\ ~sampled'[s[1]]
      BY <1>3, <1>5, <2>2
    <3> QED BY <2>1, <3>1
  <2>3. CASE s # <<g, 1>>
    <3>1. status'[s] = status[s] /\ length'[s] = length[s]
          /\ (s[1] # g => sampled'[s[1]] = sampled[s[1]])
          /\ (status[s] \in {"RUNNING", "SWAPPED", "WAITING"} => s[1] # g)
      BY <1>5, <2>3
    <3>2. status[s] = "WAITING" => length[s] \in Nat \ {0} /\ ~sampled[s[1]]
      BY <1>1 DEF TablesInv
    <3> QED BY <2>1, <3>1, <3>2
  <2> QED BY <2>2, <2>3
<1>7. Slots'
  BY <1>2, <1>4, <1>6, SlotsShrink
<1> QED BY <1>2, <1>7 DEF SlotsIndInv, NoAllocatorError

\* Steps that only change statuses, or drop tables too.
LEMMA LeavingSlots ==
  ASSUME SlotsIndInv, BlocksOK', SlidingWindow = 0, Idle,
         NEW U, U \subseteq Seqs, NEW st \in {"none", "FINISHED"},
         status' = WithStatus(U, st),
         block_tables' = block_tables \/ block_tables' = WithoutTables(U),
         \A s \in Seqs \ U : length'[s] = length[s],
         UNCHANGED <<sampled, todo, error>>
  PROVE  Slots' /\ NoAllocatorError'
<1>1. OneWaits /\ TablesInv
  BY Facts
<1>2. \A s \in Seqs : /\ s \in U => status'[s] = st
                      /\ s \notin U => status'[s] = status[s]
                      /\ s \notin U => block_tables'[s] = block_tables[s]
                      /\ Entries(block_tables'[s]) \subseteq Entries(block_tables[s])
  BY WithoutTablesShrinks DEF WithStatus
<1>3. OneWaits'
  BY <1>1, <1>2 DEF OneWaits
<1>4. Slots'
  BY <1>1, <1>2, <1>3, SlotsShrink DEF Idle, TablesInv
<1> QED BY <1>4 DEF SlotsIndInv, NoAllocatorError

LEMMA LeavingActions ==
  ASSUME SlotsIndInv, BlocksOK', SlidingWindow = 0,
         \/ \E s \in Seqs : Finish(s)
         \/ \E g \in Groups : IgnorePrompt(g) \/ Abort(g) \/ Retire(g) \/ IgnoreSwapped(g)
  PROVE  Slots' /\ NoAllocatorError'
<1>1. BlocksOK /\ \A s \in Seqs : length[s] \in Nat
  BY Facts
<1>2. ASSUME NEW s \in Seqs, Finish(s) PROVE Slots' /\ NoAllocatorError'
  <2>1. {s} \subseteq Seqs /\ ~DoubleFrees(Frees({s}))
    BY <1>1, NoDoubleFree
  <2> QED BY <1>2, <2>1, LeavingSlots DEF Finish
<1>3. ASSUME NEW g \in Groups, IgnorePrompt(g) PROVE Slots' /\ NoAllocatorError'
  <2>1. SeqsWith(g, "WAITING") \subseteq Seqs
    BY DEF SeqsWith, SeqsOf
  <2> QED BY <1>3, <2>1, LeavingSlots DEF IgnorePrompt
<1>4. ASSUME NEW g \in Groups, Abort(g) PROVE Slots' /\ NoAllocatorError'
  <2>1. UnfinishedSeqs(g) \subseteq Seqs
    BY DEF UnfinishedSeqs, SeqsOf
  <2>2. ~DoubleFrees(Frees(UnfinishedSeqs(g)))
    BY <1>1, <2>1, NoDoubleFree
  <2> QED BY <1>4, <2>1, <2>2, LeavingSlots DEF Abort
<1>5. ASSUME NEW g \in Groups, Retire(g) PROVE Slots' /\ NoAllocatorError'
  <2> DEFINE W == {s \in Seqs : s[1] = g}
  <2>1. /\ Idle /\ status' = WithStatus(SeqsOf(g), "none")
        /\ length' = [s \in Seqs |-> IF s[1] = g THEN 0 ELSE length[s]]
        /\ UNCHANGED <<free_blocks, ref_count, block_tables, sampled, todo, error>>
    BY <1>5 DEF Retire
  <2>2. status' = WithStatus(W, "none")
    BY <2>1 DEF WithStatus, SeqsOf
  <2>3. \A s \in Seqs \ W : length'[s] = length[s]
    BY <2>1
  <2>4. W \subseteq Seqs
    OBVIOUS
  <2> HIDE DEF W
  <2> QED BY <2>1, <2>2, <2>3, <2>4, LeavingSlots
<1>6. ASSUME NEW g \in Groups, IgnoreSwapped(g) PROVE Slots' /\ NoAllocatorError'
  <2>1. SeqsOf(g) \subseteq Seqs
    BY DEF SeqsOf
  <2> QED BY <1>6, <2>1, LeavingSlots DEF IgnoreSwapped
<1> QED BY <1>2, <1>3, <1>4, <1>5, <1>6

\* GetMaxNumRunningSeqs is one only for a group with one running sequence, so
\* that the assertion of _preempt_by_recompute holds.
LEMMA OneToRecompute ==
  ASSUME SlotsIndInv, NEW g \in Groups, SeqsWith(g, "RUNNING") # {},
         GetMaxNumRunningSeqs(g) = 1
  PROVE  Cardinality(SeqsWith(g, "RUNNING")) = 1
<1> DEFINE U == SeqsWith(g, "RUNNING")
<1>1. U \subseteq Seqs /\ U \subseteq SeqsOf(g) /\ SeqsOf(g) \subseteq Seqs
  BY DEF SeqsWith, SeqsOf
<1>2. /\ IsFiniteSet(U) /\ Cardinality(U) \in Nat /\ Cardinality(U) # 0
      /\ Cardinality(SeqsOf(g)) \in Nat /\ Cardinality(U) <= Cardinality(SeqsOf(g))
  <2>1. IsFiniteSet(SeqsOf(g)) /\ Cardinality(SeqsOf(g)) \in Nat
    BY <1>1, SeqsFinite, SubsetCard
  <2> QED BY <1>1, <2>1, SubsetCard
<1>3. U = UnfinishedSeqs(g)
  BY Facts, UnfinishedAreAlike DEF QueuesTypeOK
<1>4. CASE BestOf = 1
  <2>1. SeqsOf(g) \subseteq {<<g, 1>>}
    BY <1>4 DEF SeqsOf, Seqs, Index
  <2>2. IsFiniteSet({<<g, 1>>}) /\ Cardinality({<<g, 1>>}) = 1
    BY FS_Singleton
  <2>3. Cardinality(SeqsOf(g)) <= Cardinality({<<g, 1>>})
    BY <2>1, <2>2, SubsetCard
  <2> QED BY <1>2, <2>2, <2>3
<1>5. CASE BestOf # 1
  BY <1>3, <1>5 DEF GetMaxNumRunningSeqs
<1> QED BY <1>4, <1>5

LEMMA RecomputeSlots ==
  ASSUME SlotsIndInv, BlocksOK', SlidingWindow = 0,
         NEW g \in Groups, PreemptByRecompute(g)
  PROVE  Slots' /\ NoAllocatorError'
<1> DEFINE U == SeqsWith(g, "RUNNING")
<1>1. /\ BlocksOK /\ QueuesTypeOK /\ UniformStatus /\ OneWaits /\ TablesInv
      /\ \A s \in Seqs : s[1] \in Groups /\ length[s] \in Nat
  BY Facts
<1>2. U \subseteq Seqs /\ U # {} /\ GetMaxNumRunningSeqs(g) = 1 /\ sampled[g] /\ Idle
  BY DEF PreemptByRecompute, SeqsWith, SeqsOf
<1>3. Cardinality(U) = 1 /\ ~DoubleFrees(Frees(U))
  BY <1>1, <1>2, OneToRecompute, NoDoubleFree
<1>4. /\ block_tables' = WithoutTables(U) /\ status' = WithStatus(U, "WAITING")
      /\ sampled' = [sampled EXCEPT ![g] = FALSE]
      /\ UNCHANGED <<length, todo, error>>
  BY <1>3 DEF PreemptByRecompute
<1>5. PICK u : U = {u}
  <2>1. IsFiniteSet(U)
    BY <1>2, SeqsFinite, SubsetCard
  <2> QED BY <1>3, <2>1, FS_Singleton
<1>6. u \in Seqs /\ u[1] = g /\ status[u] = "RUNNING"
      /\ \A s \in Seqs : s[1] = g /\ s # u => status[s] \in {"none", "FINISHED"}
  <2>1. UnfinishedSeqs(g) = U
    BY <1>1, <1>2, UnfinishedAreAlike DEF QueuesTypeOK
  <2>2. u \in Seqs /\ u[1] = g /\ status[u] = "RUNNING"
    BY <1>5 DEF SeqsWith, SeqsOf
  <2> QED BY <1>5, <2>1, <2>2 DEF UnfinishedSeqs, SeqsOf
<1>7. length[u] \in Nat \ {0}
  BY <1>1, <1>6 DEF TablesInv, Slotted
<1>8. /\ status'[u] = "WAITING"
      /\ \A s \in Seqs \ {u} : status'[s] = status[s] /\ block_tables'[s] = block_tables[s]
      /\ \A s \in Seqs : Entries(block_tables'[s]) \subseteq Entries(block_tables[s])
  BY <1>4, <1>5, <1>6, WithoutTablesShrinks DEF WithStatus
<1>9. \A s \in Seqs : /\ s[1] = g => ~sampled'[s[1]]
                      /\ s[1] # g => sampled'[s[1]] = sampled[s[1]]
  BY <1>1, <1>4 DEF QueuesTypeOK
<1> HIDE DEF U
<1>10. OneWaits'
  BY <1>1, <1>6, <1>8 DEF OneWaits
<1>11. \A s \in Seqs : s[1] = g /\ s # u => status'[s] \in {"none", "FINISHED"}
  BY <1>6, <1>8
<1>12. \A s \in Seqs :
        /\ status'[s] = "RUNNING" => /\ status[s] = "RUNNING"
                                     /\ block_tables'[s] = block_tables[s]
                                     /\ length'[s] = length[s]
                                     /\ sampled'[s[1]] = sampled[s[1]]
        /\ status'[s] = "SWAPPED" => /\ status[s] = "SWAPPED"
                                     /\ block_tables'[s] = block_tables[s]
                                     /\ length'[s] = length[s]
        /\ status'[s] = "WAITING" => length'[s] \in Nat \ {0} /\ ~sampled'[s[1]]
  <2> TAKE s \in Seqs
  <2>1. CASE s = u
    BY <1>4, <1>6, <1>7, <1>8, <1>9, <2>1
  <2>2. CASE s # u /\ s[1] = g
    BY <1>11, <2>2
  <2>3. CASE s # u /\ s[1] # g
    BY <1>1, <1>4, <1>8, <1>9, <2>3 DEF TablesInv
  <2> QED BY <2>1, <2>2, <2>3
<1>13. Slots'
  BY <1>2, <1>4, <1>8, <1>10, <1>12, SlotsShrink DEF Idle
<1> QED BY <1>4, <1>13 DEF SlotsIndInv, NoAllocatorError

\* The prompt's table is fresh, and as long as the prompt.
LEMMA AllocateSlots ==
  ASSUME SlotsIndInv, BlocksOK', SlidingWindow = 0, NEW g \in Groups, Allocate(g)
  PROVE  Slots' /\ NoAllocatorError'
<1> DEFINE waiting == SeqsWith(g, "WAITING")
           n == LogicalBlocks(length[CHOOSE s \in waiting : TRUE])
           k == RequiredBlocks(g)
           new == Fresh(1 .. k, FreeGpu)
           table == [i \in 1 .. n |-> IF i <= k THEN new[i] ELSE new[((i - 1) % k) + 1]]
<1>1. /\ waiting # {} /\ CanAllocate(g) = "OK" /\ Idle
      /\ block_tables' = [s \in Seqs |->
             IF s \in waiting THEN table ELSE block_tables[s]]
      /\ status' = WithStatus(waiting, "RUNNING")
      /\ UNCHANGED <<length, sampled, todo, error>>
  BY DEF Allocate
<1>2. /\ BlocksOK /\ QueuesTypeOK /\ UniformStatus /\ OneWaits /\ TablesInv /\ LastsInv
      /\ \A s \in Seqs : s[1] \in Groups /\ length[s] \in Nat
  BY Facts
<1>3. waiting \subseteq Seqs /\ \A s \in waiting : s[1] = g /\ status[s] = "WAITING"
  BY DEF SeqsWith, SeqsOf
<1>4. PICK w \in waiting : waiting = {w}
  BY <1>1, <1>2, <1>3 DEF OneWaits
<1>5. n = LogicalBlocks(length[w]) /\ length[w] \in Nat \ {0} /\ ~sampled[g]
  BY <1>2, <1>3, <1>4 DEF TablesInv
<1>6. n \in Nat \ {0} /\ k = n
  BY <1>5, LogicalBlocksStep DEF RequiredBlocks
<1>7. IsFiniteSet(1 .. n) /\ CanFresh(1 .. n, FreeGpu)
  <2>1. IsFiniteSet(1 .. n) /\ Cardinality(1 .. n) = n
    BY <1>6, FS_Interval
  <2>2. Cardinality(FreeGpu) \in Nat
    BY <1>2, SeqsFinite, SubsetCard DEF BlocksOK, FreeGpu
  <2>3. Cardinality(FreeGpu) - n >= Watermark
    BY <1>1, <1>6 DEF CanAllocate, AllocStatus
  <2> QED BY <1>6, <2>1, <2>2, <2>3 DEF CanFresh
<1>8. new \in [1 .. n -> FreeGpu] /\ \A x, y \in 1 .. n : new[x] = new[y] => x = y
  <2>1. new = Fresh(1 .. n, FreeGpu)
    BY <1>6
  <2> HIDE DEF n, k, new
  <2>2. /\ Fresh(1 .. n, FreeGpu) \in [1 .. n -> FreeGpu]
        /\ \A x, y \in 1 .. n :
             Fresh(1 .. n, FreeGpu)[x] = Fresh(1 .. n, FreeGpu)[y] => x = y
    BY <1>2, <1>7, FreshAreFree
  <2> QED BY <2>1, <2>2
<1>9. table = [i \in 1 .. n |-> new[i]]
  BY <1>6
<1>10. /\ Len(table) = n /\ DOMAIN table = 1 .. n
       /\ Entries(table) \subseteq FreeGpu
       /\ table[n] \in Entries(table)
  <2> HIDE DEF n, new, table
  <2>1. DOMAIN table = 1 .. n /\ Len(table) = n
    BY <1>6, <1>9
  <2>2. \A i \in 1 .. n : table[i] \in FreeGpu
    BY <1>8, <1>9
  <2> QED BY <1>6, <2>1, <2>2 DEF Entries, Range
<1> HIDE DEF waiting, n, k, new, table
<1>11. /\ status'[w] = "RUNNING" /\ block_tables'[w] = table /\ w \in Seqs /\ w[1] = g
       /\ \A s \in Seqs \ {w} : status'[s] = status[s] /\ block_tables'[s] = block_tables[s]
       /\ \A s \in Seqs : Pending(s)' = Pending(s) /\ Slotted(s)' = Slotted(s)
  BY <1>1, <1>3, <1>4 DEF WithStatus, Pending, Slotted
<1>12. ~Pending(w) /\ Slotted(w) = length[w]
  BY <1>1, <1>5, <1>11 DEF Pending, Slotted, Idle
<1>13. TablesInv'
  <2>1. Entries(table) \subseteq GpuBlocks
    BY <1>10 DEF FreeGpu
  <2> QED BY <1>1, <1>2, <1>5, <1>10, <1>11, <1>12, <2>1 DEF TablesInv
<1>14. OneWaits'
  BY <1>2, <1>11 DEF OneWaits
<1>15. LastsInv'
  <2> SUFFICES ASSUME NEW s \in Seqs, status'[s] = "RUNNING", ~Pending(s)'
               PROVE  Exclusive(s)'
    BY DEF LastsInv
  <2>1. CASE s = w
    <3>1. Last(w)' = table[n]
      BY <1>10, <1>11 DEF Last
    <3>2. table[n] \in free_blocks
      BY <1>10 DEF FreeGpu
    <3>3. Holders(table[n]) = {}
      BY <1>2, <3>2, FreeIsUnused
    <3> QED BY <1>11, <2>1, <3>1, <3>3 DEF Exclusive, Holders
  <2>2. CASE s # w
    <3>1. status[s] = "RUNNING" /\ ~Pending(s) /\ block_tables'[s] = block_tables[s]
      BY <1>11, <2>2
    <3>2. \A r \in Seqs \ {s} :
            Entries(block_tables'[r]) \subseteq Entries(block_tables[r]) \cup free_blocks
      BY <1>10, <1>11 DEF FreeGpu
    <3> QED BY <1>2, <3>1, <3>2, LastStaysOwn
  <2> QED BY <2>1, <2>2
<1> QED BY <1>1, <1>13, <1>14, <1>15, NothingToDo DEF Idle, Slots, SlotsIndInv, NoAllocatorError

LEMMA SampleSlots ==
  ASSUME SlotsIndInv, BlocksOK', SlidingWindow = 0, NEW g \in Groups, Sample(g)
  PROVE  Slots' /\ NoAllocatorError'
<1> DEFINE running == SeqsWith(g, "RUNNING")
           p == CHOOSE s \in running : TRUE
           children == IF NumSeqs(g) < BestOf
                         THEN {s \in Seqs : s[1] = g /\ status[s] = "none"} ELSE {}
<1>1. /\ Idle /\ running # {} /\ ~sampled[g]
      /\ status' = WithStatus(children, "RUNNING")
      /\ length' = [s \in Seqs |->
             IF s \in running THEN length[s] + 1
             ELSE IF s \in children THEN length[p] + 1 ELSE length[s]]
      /\ block_tables' = [s \in Seqs |->
             IF s \in children THEN block_tables[p] ELSE block_tables[s]]
      /\ sampled' = [sampled EXCEPT ![g] = TRUE]
      /\ UNCHANGED <<todo, error>>
  BY DEF Sample
<1>2. /\ BlocksOK /\ QueuesTypeOK /\ UniformStatus /\ OneWaits /\ TablesInv /\ LastsInv
      /\ \A s \in Seqs : s[1] \in Groups /\ length[s] \in Nat
  BY Facts
<1>3. /\ p \in running
      /\ \A s \in Seqs : s \in running <=> s[1] = g /\ status[s] = "RUNNING"
      /\ running \subseteq Seqs
  BY <1>1 DEF SeqsWith, SeqsOf
<1>4. \A s \in Seqs : s \in children => s[1] = g /\ status[s] = "none"
  OBVIOUS
<1> HIDE DEF running, p, children
<1>5. p \in Seqs /\ p[1] = g /\ status[p] = "RUNNING"
  BY <1>3
<1>6. \A s \in Seqs : /\ s[1] = g => sampled'[s[1]]
                      /\ s[1] # g => sampled'[s[1]] = sampled[s[1]]
  BY <1>1, <1>2 DEF QueuesTypeOK
<1>7. \A s \in Seqs : s[1] = g /\ status[s] = "RUNNING" =>
        Slotted(s) = length[s] /\ length[s] \in Nat \ {0}
  BY <1>1, <1>2 DEF Slotted, Pending, Idle, TablesInv
<1>8. \A s \in Seqs : /\ s \in children => status'[s] = "RUNNING"
                      /\ s \notin children => status'[s] = status[s]
  BY <1>1 DEF WithStatus
<1>9. TablesInv'
  <2> SUFFICES ASSUME NEW s \in Seqs
               PROVE  /\ status'[s] = "RUNNING" =>
                           /\ Slotted(s)' \in Nat \ {0}
                           /\ Len(block_tables'[s]) = LogicalBlocks(Slotted(s)')
                           /\ Entries(block_tables'[s]) \subseteq GpuBlocks
                      /\ status'[s] = "SWAPPED" =>
                           /\ length'[s] - 1 \in Nat \ {0}
                           /\ Len(block_tables'[s]) = LogicalBlocks(length'[s] - 1)
                      /\ status'[s] = "WAITING" => length'[s] \in Nat \ {0} /\ ~sampled'[s[1]]
    BY DEF TablesInv
  <2>1. CASE s \in children
    <3>1. status'[s] = "RUNNING" /\ s \notin running /\ s[1] = g
      BY <1>3, <1>4, <1>8, <2>1
    <3>2. block_tables'[s] = block_tables[p] /\ length'[s] = length[p] + 1
      BY <1>1, <2>1, <3>1
    <3>3. Slotted(s)' = length[p]
      BY <1>2, <1>5, <1>6, <3>1, <3>2 DEF Slotted, Pending
    <3> QED BY <1>2, <1>5, <1>7, <3>1, <3>2, <3>3 DEF TablesInv
  <2>2. CASE s \notin children /\ s \in running
    <3>1. /\ status'[s] = "RUNNING" /\ s[1] = g /\ status[s] = "RUNNING"
          /\ block_tables'[s] = block_tables[s] /\ length'[s] = length[s] + 1
      BY <1>1, <1>3, <1>8, <2>2
    <3>2. Slotted(s)' = length[s]
      BY <1>2, <1>6, <3>1 DEF Slotted, Pending
    <3> QED BY <1>2, <1>7, <3>1, <3>2 DEF TablesInv
  <2>3. CASE s \notin children /\ s \notin running
    <3>1. /\ status'[s] = status[s] /\ block_tables'[s] = block_tables[s]
          /\ length'[s] = length[s]
      BY <1>1, <1>8, <2>3
    <3>2. s[1] = g => status[s] \notin {"WAITING", "RUNNING", "SWAPPED"}
                      \/ (status[s] = "RUNNING" /\ s \in running)
      BY <1>2, <1>3, <1>5 DEF UniformStatus
    <3>3. CASE s[1] = g
      BY <1>3, <2>3, <3>1, <3>2, <3>3
    <3>4. CASE s[1] # g
      <4>1. sampled'[s[1]] = sampled[s[1]] /\ Slotted(s)' = Slotted(s)
        BY <1>1, <1>6, <3>1, <3>4 DEF Slotted, Pending
      <4> QED BY <1>2, <3>1, <4>1 DEF TablesInv
    <3> QED BY <3>3, <3>4
  <2> QED BY <2>1, <2>2, <2>3
<1>10. OneWaits'
  BY <1>2, <1>8 DEF OneWaits
<1>11. LastsInv'
  <2> SUFFICES ASSUME NEW s \in Seqs, status'[s] = "RUNNING", ~Pending(s)'
               PROVE  Exclusive(s)'
    BY DEF LastsInv
  <2>1. s[1] # g /\ sampled'[s[1]] = sampled[s[1]]
    BY <1>6 DEF Pending
  <2>2. s \notin children /\ p # s
    BY <1>4, <1>5, <2>1
  <2>3. status[s] = "RUNNING" /\ ~Pending(s) /\ block_tables'[s] = block_tables[s]
    BY <1>1, <1>8, <2>1, <2>2 DEF Pending
  <2>4. \A r \in Seqs : /\ r \in children => block_tables'[r] = block_tables[p]
                        /\ r \notin children => block_tables'[r] = block_tables[r]
    BY <1>1
  <2>5. \A r \in Seqs \ {s} : \E q \in Seqs \ {s} :
          Entries(block_tables'[r]) \subseteq Entries(block_tables[q]) \cup free_blocks
    BY <1>5, <2>2, <2>4
  <2> QED BY <1>2, <2>3, <2>5, LastStaysOwn
<1> QED BY <1>1, <1>9, <1>10, <1>11, NothingToDo DEF Idle, Slots, SlotsIndInv, NoAllocatorError

\* BeamReplace gives d the table and the length of p; both wait for a slot.
LEMMA BeamReplaceSlots ==
  ASSUME SlotsIndInv, BlocksOK', SlidingWindow = 0,
         NEW p \in Seqs, NEW d \in Seqs, BeamReplace(p, d)
  PROVE  Slots' /\ NoAllocatorError'
<1> DEFINE forked == [b \in Blocks |-> IF b \in Entries(block_tables[p])
                                         THEN ref_count[b] + 1 ELSE ref_count[b]]
           freed == Live(block_tables[d])
<1>1. /\ BlocksOK /\ QueuesTypeOK /\ OneWaits /\ TablesInv /\ LastsInv
      /\ \A s \in Seqs : s[1] \in Groups /\ length[s] \in Nat
                         /\ block_tables[s] \in Seq(Blocks)
  BY Facts
<1>2. ~\E b \in freed : forked[b] = 0
  <2> SUFFICES ASSUME NEW b \in freed PROVE forked[b] # 0
    OBVIOUS
  <2>1. b \in Entries(block_tables[d]) /\ b \in Blocks
    BY <1>1, LiveIsEntries DEF Entries, Range
  <2>2. ref_count[b] \in Nat \ {0}
    BY <1>1, <2>1, HeldIsReferenced DEF Holders
  <2> QED BY <2>1, <2>2
<1>3. /\ Idle /\ p # d /\ p[1] = d[1] /\ sampled[p[1]]
      /\ status[p] = "RUNNING" /\ status[d] = "RUNNING"
      /\ block_tables' = [block_tables EXCEPT ![d] = block_tables[p]]
      /\ length' = [length EXCEPT ![d] = length[p]]
      /\ UNCHANGED <<status, sampled, todo, error>>
  BY <1>2 DEF BeamReplace
<1>4. /\ block_tables'[d] = block_tables[p] /\ length'[d] = length[p]
      /\ \A s \in Seqs \ {d} : block_tables'[s] = block_tables[s] /\ length'[s] = length[s]
  BY <1>1, <1>3 DEF BlocksOK, QueuesTypeOK
<1>5. /\ Slotted(d)' = Slotted(p)
      /\ \A s \in Seqs \ {d} : Slotted(s)' = Slotted(s)
      /\ \A s \in Seqs : Pending(s)' = Pending(s)
  BY <1>3, <1>4 DEF Slotted, Pending
<1>6. TablesInv'
  <2> SUFFICES ASSUME NEW s \in Seqs
               PROVE  /\ status'[s] = "RUNNING" =>
                           /\ Slotted(s)' \in Nat \ {0}
                           /\ Len(block_tables'[s]) = LogicalBlocks(Slotted(s)')
                           /\ Entries(block_tables'[s]) \subseteq GpuBlocks
                      /\ status'[s] = "SWAPPED" =>
                           /\ length'[s] - 1 \in Nat \ {0}
                           /\ Len(block_tables'[s]) = LogicalBlocks(length'[s] - 1)
                      /\ status'[s] = "WAITING" => length'[s] \in Nat \ {0} /\ ~sampled'[s[1]]
    BY DEF TablesInv
  <2>1. CASE s = d
    BY <1>1, <1>3, <1>4, <1>5, <2>1 DEF TablesInv
  <2>2. CASE s # d
    BY <1>1, <1>3, <1>4, <1>5, <2>2 DEF TablesInv
  <2> QED BY <2>1, <2>2
<1>7. OneWaits'
  BY <1>1, <1>3 DEF OneWaits
<1>8. LastsInv'
  <2> SUFFICES ASSUME NEW s \in Seqs, status'[s] = "RUNNING", ~Pending(s)'
               PROVE  Exclusive(s)'
    BY DEF LastsInv
  <2>1. s # d /\ s # p /\ status[s] = "RUNNING" /\ ~Pending(s)
        /\ block_tables'[s] = block_tables[s]
    BY <1>3, <1>4 DEF Pending
  <2>2. \A r \in Seqs \ {s} : \E q \in Seqs \ {s} :
          Entries(block_tables'[r]) \subseteq Entries(block_tables[q]) \cup free_blocks
    BY <1>4, <2>1
  <2> QED BY <1>1, <2>1, <2>2, LastStaysOwn
<1> QED BY <1>3, <1>6, <1>7, <1>8, NothingToDo DEF Idle, Slots, SlotsIndInv, NoAllocatorError

\* can_append_slots counts a free block for every sequence of the loop.
LEMMA BeginSlots ==
  ASSUME SlotsIndInv, BlocksOK', SlidingWindow = 0, NEW g \in Groups, BeginAppendSlots(g)
  PROVE  Slots' /\ NoAllocatorError'
<1>1. /\ BlocksOK /\ QueuesTypeOK /\ OneWaits /\ TablesInv /\ LastsInv
      /\ \A s \in Seqs : s[1] \in Groups
  BY Facts
<1>2. /\ sampled[g] /\ CanAppendSlots(g) /\ todo = {}
      /\ todo' = SeqsWith(g, "RUNNING")
      /\ sampled' = [sampled EXCEPT ![g] = FALSE]
      /\ UNCHANGED <<free_blocks, ref_count, block_tables, status, length, error>>
  BY DEF BeginAppendSlots, Idle
<1>3. \A s \in Seqs : s \in todo' <=> s[1] = g /\ status[s] = "RUNNING"
  BY <1>2 DEF SeqsWith, SeqsOf
<1>4. \A s \in Seqs : /\ s[1] = g => ~sampled'[s[1]] /\ sampled[s[1]]
                      /\ s[1] # g => sampled'[s[1]] = sampled[s[1]]
  BY <1>1, <1>2 DEF QueuesTypeOK
<1>5. \A s \in Seqs : status[s] = "RUNNING" =>
        (Pending(s)' <=> Pending(s)) /\ Slotted(s)' = Slotted(s)
  BY <1>2, <1>3, <1>4 DEF Pending, Slotted
<1>6. TablesInv'
  BY <1>1, <1>2, <1>4, <1>5 DEF TablesInv
<1>7. OneWaits'
  BY <1>1, <1>2 DEF OneWaits
<1>8. TodoInv'
  <2>1. Cardinality(todo') <= Cardinality(FreeGpu')
    BY <1>2 DEF CanAppendSlots, FreeGpu
  <2>2. \A s \in todo' : status'[s] = "RUNNING" /\ ~sampled'[s[1]]
    BY <1>2, <1>3, <1>4 DEF SeqsWith, SeqsOf
  <2> QED BY <2>1, <2>2 DEF TodoInv
<1>9. LastsInv'
  <2> SUFFICES ASSUME NEW s \in Seqs, status'[s] = "RUNNING", ~Pending(s)'
               PROVE  Exclusive(s)'
    BY DEF LastsInv
  <2>1. status[s] = "RUNNING" /\ ~Pending(s)
    BY <1>2, <1>5
  <2> QED BY <1>1, <1>2, <2>1 DEF LastsInv, Exclusive, Last
<1> QED BY <1>2, <1>6, <1>7, <1>8, <1>9 DEF Slots, SlotsIndInv, NoAllocatorError

\* One block less in the free list is enough for one sequence less to serve.
LEMMA OneSlotLess ==
  ASSUME BlocksOK, QueuesTypeOK, TodoInv, NEW s \in todo, todo' = todo \ {s},
         NEW b, free_blocks \ {b} \subseteq free_blocks', free_blocks' \subseteq Blocks,
         UNCHANGED <<status, sampled>>
  PROVE  TodoInv'
<1>1. IsFiniteSet(todo) /\ IsFiniteSet(FreeGpu)
  BY SeqsFinite, SubsetCard DEF BlocksOK, QueuesTypeOK, FreeGpu
<1>2. Cardinality(todo \ {s}) = Cardinality(todo) - 1 /\ Cardinality(todo) \in Nat
  BY <1>1, FS_RemoveElement, FS_CardinalityType
<1>3. Cardinality(FreeGpu \ {b}) >= Cardinality(FreeGpu) - 1
      /\ Cardinality(FreeGpu) \in Nat /\ Cardinality(FreeGpu \ {b}) \in Nat
  <2>1. IsFiniteSet(FreeGpu \ {b})
        /\ Cardinality(FreeGpu \ {b})
             = IF b \in FreeGpu THEN Cardinality(FreeGpu) - 1 ELSE Cardinality(FreeGpu)
    BY <1>1, FS_RemoveElement
  <2> QED BY <1>1, <2>1, FS_CardinalityType
<1>4. Cardinality(FreeGpu \ {b}) <= Cardinality(FreeGpu') /\ Cardinality(FreeGpu') \in Nat
  <2>1. FreeGpu \ {b} \subseteq FreeGpu' /\ FreeGpu' \subseteq Blocks
    BY DEF FreeGpu
  <2>2. IsFiniteSet(FreeGpu')
    BY <2>1, SeqsFinite, SubsetCard
  <2> QED BY <2>1, <2>2, SubsetCard
<1>5. Cardinality(todo) <= Cardinality(FreeGpu)
  BY DEF TodoInv
<1>6. Cardinality(todo') <= Cardinality(FreeGpu')
  BY <1>2, <1>3, <1>4, <1>5
<1> QED BY <1>6 DEF TodoInv

\* While a sequence is left to serve there is a free block.
LEMMA RoomForTodo ==
  ASSUME BlocksOK, QueuesTypeOK, TodoInv, todo # {}
  PROVE  FreeGpu # {}
<1>1. IsFiniteSet(todo)
  BY SeqsFinite, SubsetCard DEF QueuesTypeOK
<1>2. Cardinality(todo) \in Nat /\ Cardinality(todo) # 0
  BY <1>1, FS_CardinalityType, FS_EmptySet
<1>3. Cardinality({}) = 0
  BY FS_EmptySet
<1> QED BY <1>2, <1>3 DEF TodoInv

\* The slot of s is appended: b is the block that may have been taken for it.
LEMMA SlotAppended ==
  ASSUME SlotsIndInv, BlocksOK', SlidingWindow = 0, NEW s \in todo, NEW b \in FreeGpu,
         todo' = todo \ {s}, UNCHANGED <<status, length, sampled, error>>,
         free_blocks \ {b} \subseteq free_blocks',
         \A r \in Seqs \ {s} : block_tables'[r] = block_tables[r],
         Len(block_tables'[s]) = LogicalBlocks(length[s]),
         Entries(block_tables'[s]) \subseteq Entries(block_tables[s]) \cup {b},
         \A r \in Seqs \ {s} : Last(s)' \notin Entries(block_tables[r])
  PROVE  Slots' /\ NoAllocatorError'
<1>1. /\ BlocksOK /\ QueuesTypeOK /\ OneWaits /\ TablesInv /\ TodoInv /\ LastsInv
      /\ \A r \in Seqs : length[r] \in Nat
      /\ s \in Seqs
  BY Facts DEF QueuesTypeOK
<1>2. status[s] = "RUNNING" /\ ~sampled[s[1]] /\ ~Pending(s)' /\ Slotted(s)' = length[s]
  BY <1>1 DEF TodoInv, Pending, Slotted
<1>3. length[s] \in Nat \ {0}
  <2>1. Slotted(s) \in Nat \ {0}
    BY <1>1, <1>2 DEF TablesInv
  <2> QED BY <1>1, <2>1 DEF Slotted
<1>4. \A r \in Seqs \ {s} : (Pending(r)' <=> Pending(r)) /\ Slotted(r)' = Slotted(r)
  BY DEF Pending, Slotted
<1>5. TablesInv'
  <2> SUFFICES ASSUME NEW r \in Seqs
               PROVE  /\ status'[r] = "RUNNING" =>
                           /\ Slotted(r)' \in Nat \ {0}
                           /\ Len(block_tables'[r]) = LogicalBlocks(Slotted(r)')
                           /\ Entries(block_tables'[r]) \subseteq GpuBlocks
                      /\ status'[r] = "SWAPPED" =>
                           /\ length'[r] - 1 \in Nat \ {0}
                           /\ Len(block_tables'[r]) = LogicalBlocks(length'[r] - 1)
                      /\ status'[r] = "WAITING" => length'[r] \in Nat \ {0} /\ ~sampled'[r[1]]
    BY DEF TablesInv
  <2>1. CASE r = s
    <3>1. Entries(block_tables[s]) \subseteq GpuBlocks /\ b \in GpuBlocks
      BY <1>1, <1>2 DEF TablesInv, FreeGpu
    <3> QED BY <1>2, <1>3, <2>1, <3>1
  <2>2. CASE r # s
    BY <1>1, <1>4, <2>2 DEF TablesInv
  <2> QED BY <2>1, <2>2
<1>6. OneWaits'
  BY <1>1 DEF OneWaits
<1>7. TodoInv'
  <2>1. free_blocks' \subseteq Blocks
    BY DEF BlocksOK
  <2> QED BY <1>1, <2>1, OneSlotLess
<1>8. LastsInv'
  <2> SUFFICES ASSUME NEW r \in Seqs, status'[r] = "RUNNING", ~Pending(r)'
               PROVE  Exclusive(r)'
    BY DEF LastsInv
  <2>1. CASE r = s
    BY <2>1 DEF Exclusive
  <2>2. CASE r # s
    <3>1. status[r] = "RUNNING" /\ ~Pending(r) /\ block_tables'[r] = block_tables[r]
      BY <1>4, <2>2
    <3>2. \A q \in Seqs \ {r} :
            Entries(block_tables'[q]) \subseteq Entries(block_tables[q]) \cup free_blocks
      BY DEF FreeGpu
    <3> QED BY <1>1, <3>1, <3>2, LastStaysOwn
  <2> QED BY <2>1, <2>2
<1> QED BY <1>5, <1>6, <1>7, <1>8 DEF Slots, SlotsIndInv, NoAllocatorError

\* A block with one reference is in no other table.
LEMMA SoleHolder ==
  ASSUME BlocksOK, SlidingWindow = 0, NEW c \in Blocks, ref_count[c] = 1,
         NEW s \in Holders(c), NEW r \in Seqs \ {s}
  PROVE  c \notin Entries(block_tables[r])
<1> SUFFICES ASSUME r \in Holders(c) PROVE FALSE
  BY DEF Holders
<1>1. IsFiniteSet(Holders(c)) /\ Cardinality(Holders(c)) \in Nat /\ Cardinality(Holders(c)) <= 1
  BY HoldersFinite, HoldersCovered
<1>2. IsFiniteSet(Holders(c) \ {s}) /\ Cardinality(Holders(c) \ {s}) = Cardinality(Holders(c)) - 1
  BY <1>1, FS_RemoveElement
<1>3. Cardinality(Holders(c) \ {s}) \in Nat /\ Cardinality(Holders(c) \ {s}) # 0
  BY <1>2, FS_CardinalityType, FS_EmptySet
<1> QED BY <1>1, <1>2, <1>3

LEMMA AppendSlotSlots ==
  ASSUME SlotsIndInv, BlocksOK', SlidingWindow = 0, NEW s \in Seqs, AppendSlot(s)
  PROVE  Slots' /\ NoAllocatorError'
<1> DEFINE t == block_tables[s]
           n == LogicalBlocks(length[s])
           b == Fresh({1}, FreeGpu)[1]
           last == t[Len(t)]
<1>1. /\ BlocksOK /\ QueuesTypeOK /\ TablesInv /\ TodoInv
      /\ length[s] \in Nat /\ t \in Seq(Blocks)
  BY Facts
<1>2. error = "none" /\ s \in todo
  BY DEF AppendSlot
<1>3. status[s] = "RUNNING" /\ ~sampled[s[1]] /\ Slotted(s) = length[s] - 1
  BY <1>1, <1>2 DEF TodoInv, Slotted, Pending
<1>4. length[s] - 1 \in Nat \ {0} /\ Len(t) = LogicalBlocks(length[s] - 1)
  BY <1>1, <1>3 DEF TablesInv
<1>5. n \in Nat /\ Len(t) <= n /\ n <= Len(t) + 1 /\ Len(t) \in Nat \ {0}
  <2> DEFINE k == length[s] - 1
  <2>1. k + 1 = length[s] /\ k \in Nat \ {0} /\ Len(t) = LogicalBlocks(k)
    BY <1>1, <1>4
  <2> HIDE DEF k
  <2>2. /\ LogicalBlocks(k) \in Nat \ {0} /\ LogicalBlocks(k + 1) \in Nat
        /\ LogicalBlocks(k) <= LogicalBlocks(k + 1)
        /\ LogicalBlocks(k + 1) <= LogicalBlocks(k) + 1
    BY <2>1, LogicalBlocksStep
  <2> QED BY <2>1, <2>2
<1>6. FreeGpu # {}
  BY <1>1, <1>2, RoomForTodo
<1>7. b \in free_blocks /\ b \in FreeGpu
  <2>1. b \in free_blocks
    BY <1>1, <1>6, FreshOne
  <2>2. IsFiniteSet({1}) /\ Cardinality({1}) = 1
    BY FS_Singleton
  <2>3. IsFiniteSet(FreeGpu)
    BY <1>1, SeqsFinite, SubsetCard DEF BlocksOK, FreeGpu
  <2>4. CanFresh({1}, FreeGpu)
    <3>1. Cardinality(FreeGpu) \in Nat /\ Cardinality(FreeGpu) # 0
      BY <1>6, <2>3, FS_CardinalityType, FS_EmptySet
    <3> QED BY <2>2, <3>1 DEF CanFresh
  <2>5. Fresh({1}, FreeGpu) \in [{1} -> FreeGpu]
    BY <1>1, <2>2, <2>4, FreshAreFree
  <2> QED BY <2>1, <2>5
<1>8. Holders(b) = {}
  BY <1>1, <1>7, FreeIsUnused
<1>9. /\ last = Last(s) /\ last \in Entries(t) /\ last \in GpuBlocks /\ last \in Blocks
      /\ s \in Holders(last) /\ ref_count[last] \in Nat \ {0}
  <2>1. last = Last(s)
    BY DEF Last
  <2>2. /\ Last(s) \in Entries(t) /\ Last(s) \in GpuBlocks /\ Last(s) \in Blocks
        /\ s \in Holders(Last(s))
    BY <1>1, <1>3, LastIsHeld
  <2>3. ref_count[Last(s)] \in Nat \ {0}
    BY <1>1, <2>2, HeldIsReferenced
  <2> QED BY <2>1, <2>2, <2>3
<1>10. t # <<>>
  BY <1>5
<1> HIDE DEF n, b
<1>11. CASE Len(t) >= n
  <2>1. Len(t) = n /\ WriteToLast(s, t)
    BY <1>5, <1>10, <1>11 DEF AppendSlot, n
  <2>2. CASE IsShared(last)
    <3>1. CopyOnWrite(s, t)
      BY <1>9, <2>1, <2>2 DEF WriteToLast
    <3>2. /\ block_tables' = [block_tables EXCEPT ![s] = [t EXCEPT ![Len(t)] = b]]
          /\ free_blocks' = (free_blocks \ {b})
                              \cup (IF ref_count[last] = 1 THEN {last} ELSE {})
          /\ todo' = todo \ {s}
          /\ UNCHANGED <<status, length, sampled, error>>
      BY <1>6, <1>9, <3>1 DEF CopyOnWrite, b
    <3> DEFINE u == [t EXCEPT ![Len(t)] = b]
    <3>3. block_tables'[s] = u /\ \A r \in Seqs \ {s} : block_tables'[r] = block_tables[r]
      BY <1>1, <3>2 DEF BlocksOK
    <3>4. Len(u) = Len(t) /\ u[Len(t)] = b /\ Entries(u) \subseteq Entries(t) \cup {b}
      BY <1>1, <1>5 DEF Entries, Range
    <3> HIDE DEF u
    <3>5. Last(s)' = b
      BY <3>3, <3>4 DEF Last
    <3>6. \A r \in Seqs \ {s} : Last(s)' \notin Entries(block_tables[r])
      BY <1>8, <3>5 DEF Holders
    <3>7. Len(block_tables'[s]) = LogicalBlocks(length[s])
      BY <2>1, <3>3, <3>4 DEF n
    <3> QED BY <1>2, <1>7, <3>2, <3>3, <3>4, <3>6, <3>7, SlotAppended
  <2>3. CASE ~IsShared(last)
    <3>1. /\ block_tables' = [block_tables EXCEPT ![s] = t]
          /\ todo' = todo \ {s}
          /\ UNCHANGED <<free_blocks, ref_count, status, length, sampled, error>>
      BY <1>9, <2>1, <2>3 DEF WriteToLast
    <3>2. block_tables' = block_tables
      BY <1>1, <3>1 DEF BlocksOK
    <3>3. Last(s)' = last
      BY <1>9, <3>2 DEF Last
    <3>4. \A r \in Seqs \ {s} : Last(s)' \notin Entries(block_tables[r])
      BY <1>1, <1>9, <2>3, <3>3, SoleHolder DEF IsShared
    <3>5. Len(block_tables'[s]) = LogicalBlocks(length[s])
      BY <2>1, <3>2 DEF n
    <3> QED BY <1>2, <1>7, <3>1, <3>2, <3>4, <3>5, SlotAppended
  <2> QED BY <2>2, <2>3
<1>12. CASE ~(Len(t) >= n)
  <2>1. Len(t) = n - 1 /\ NewBlock(s, t)
    BY <1>5, <1>10, <1>12 DEF AppendSlot, n
  <2>2. /\ block_tables' = [block_tables EXCEPT ![s] = Append(t, b)]
        /\ free_blocks' = free_blocks \ {b}
        /\ todo' = todo \ {s}
        /\ UNCHANGED <<status, length, sampled, error>>
    BY <1>6, <2>1 DEF NewBlock, b
  <2> DEFINE u == Append(t, b)
  <2>3. block_tables'[s] = u /\ \A r \in Seqs \ {s} : block_tables'[r] = block_tables[r]
    BY <1>1, <2>2 DEF BlocksOK
  <2>4. Len(u) = Len(t) + 1 /\ u[Len(u)] = b /\ Entries(u) \subseteq Entries(t) \cup {b}
    <3>1. Len(u) = Len(t) + 1 /\ DOMAIN u = 1 .. (Len(t) + 1) /\ u[Len(t) + 1] = b
          /\ \A i \in 1 .. Len(t) : u[i] = t[i]
      BY <1>1
    <3> QED BY <1>1, <1>5, <3>1 DEF Entries, Range
  <2> HIDE DEF u
  <2>5. Last(s)' = b
    BY <2>3, <2>4 DEF Last
  <2>6. \A r \in Seqs \ {s} : Last(s)' \notin Entries(block_tables[r])
    BY <1>8, <2>5 DEF Holders
  <2>7. Len(block_tables'[s]) = LogicalBlocks(length[s])
    BY <1>5, <2>1, <2>3, <2>4 DEF n
  <2>8. free_blocks \ {b} \subseteq free_blocks'
    BY <2>2
  <2> QED BY <1>2, <1>7, <2>2, <2>3, <2>4, <2>6, <2>7, <2>8, SlotAppended
<1> QED BY <1>11, <1>12

\* What a move of the unfinished tables of a group does: they keep their
\* lengths and what they share, and get free blocks of the other device.
LEMMA Moves ==
  ASSUME SlotsIndInv, SlidingWindow = 0, NEW g \in Groups, NEW st \in {"RUNNING", "SWAPPED"},
         NEW F, F = FreeGpu \/ F = FreeCpu,
         SeqsWith(g, st) # {}, CanFresh(PhysicalBlocks(g), F), NEW to,
         MoveTables(SeqsWith(g, st), Fresh(PhysicalBlocks(g), F), to)
  PROVE  /\ SeqsWith(g, st) \subseteq Seqs
         /\ \A s \in Seqs : s \in SeqsWith(g, st) <=> s[1] = g /\ status[s] = st
         /\ \A s \in Seqs \ SeqsWith(g, st) :
              status'[s] = status[s] /\ block_tables'[s] = block_tables[s]
         /\ \A s \in SeqsWith(g, st) :
              /\ status'[s] = to
              /\ DOMAIN block_tables'[s] = DOMAIN block_tables[s]
              /\ Len(block_tables'[s]) = Len(block_tables[s])
              /\ Entries(block_tables'[s]) \subseteq F
         /\ \A r, s \in SeqsWith(g, st) :
              \A i \in DOMAIN block_tables[r], j \in DOMAIN block_tables[s] :
                block_tables[r][i] = block_tables[s][j]
                  <=> block_tables'[r][i] = block_tables'[s][j]
         /\ \E E \in SUBSET F : /\ free_blocks \ E \subseteq free_blocks'
                                /\ IsFiniteSet(E)
                                /\ Cardinality(E) <= Cardinality(PhysicalBlocks(g))
<1> DEFINE U == SeqsWith(g, st)
           P == PhysicalBlocks(g)
           m == Fresh(P, F)
<1>1. /\ BlocksOK /\ QueuesTypeOK /\ UniformStatus
      /\ \A s \in Seqs : block_tables[s] \in Seq(Blocks)
  BY Facts
<1>2. U \subseteq Seqs /\ \A s \in Seqs : s \in U <=> s[1] = g /\ status[s] = st
  BY DEF SeqsWith, SeqsOf
<1>3. UnfinishedSeqs(g) = U
  BY <1>1, UnfinishedAreAlike DEF QueuesTypeOK
<1>4. IsFiniteSet(P)
  BY <1>1, PhysicalBlocksFinite
<1>5. m \in [P -> F] /\ \A x, y \in P : m[x] = m[y] => x = y
  BY <1>1, <1>4, FreshAreFree
<1>6. \A s \in U : \A i \in DOMAIN block_tables[s] : block_tables[s][i] \in P
  BY <1>3 DEF PhysicalBlocks, Entries, Range
<1>7. /\ block_tables' = [s \in Seqs |->
             IF s \in U THEN Moved(block_tables[s], m) ELSE block_tables[s]]
      /\ free_blocks' = (free_blocks \ Entries(m))
             \cup {b \in P : ref_count[b] = Occurrences(U, b)}
      /\ status' = WithStatus(U, to)
  BY <1>5 DEF MoveTables
<1> HIDE DEF U, P, m
<1>8. \A s \in Seqs : /\ s \in U => /\ status'[s] = to
                                    /\ block_tables'[s] = Moved(block_tables[s], m)
                      /\ s \notin U => status'[s] = status[s] /\ block_tables'[s] = block_tables[s]
  BY <1>7 DEF WithStatus
<1>9. ASSUME NEW s \in U
      PROVE  /\ DOMAIN block_tables'[s] = DOMAIN block_tables[s]
             /\ Len(block_tables'[s]) = Len(block_tables[s])
             /\ \A i \in DOMAIN block_tables[s] : block_tables'[s][i] = m[block_tables[s][i]]
             /\ Entries(block_tables'[s]) \subseteq F
  <2>1. block_tables'[s] = [i \in DOMAIN block_tables[s] |-> m[block_tables[s][i]]]
    BY <1>2, <1>8 DEF Moved
  <2>2. block_tables[s] \in Seq(Blocks) /\ \A i \in DOMAIN block_tables[s] : block_tables[s][i] \in P
    BY <1>1, <1>2, <1>6
  <2>3. \A i \in DOMAIN block_tables[s] : m[block_tables[s][i]] \in F
    BY <1>5, <2>2
  <2>4. DOMAIN block_tables'[s] = DOMAIN block_tables[s]
    BY <2>1
  <2>5. Len(block_tables'[s]) = Len(block_tables[s])
    BY <2>1, <2>2
  <2> QED BY <2>1, <2>3, <2>4, <2>5 DEF Entries, Range
<1>10. ASSUME NEW r \in U, NEW s \in U,
              NEW i \in DOMAIN block_tables[r], NEW j \in DOMAIN block_tables[s]
       PROVE  block_tables[r][i] = block_tables[s][j]
                <=> block_tables'[r][i] = block_tables'[s][j]
  BY <1>5, <1>6, <1>9
<1>11. \E E \in SUBSET F : /\ free_blocks \ E \subseteq free_blocks'
                           /\ IsFiniteSet(E)
                           /\ Cardinality(E) <= Cardinality(P)
  <2>1. Entries(m) \subseteq F /\ m \in Surjection(P, Entries(m))
    BY <1>5 DEF Entries, Range, Surjection
  <2>2. IsFiniteSet(Entries(m)) /\ Cardinality(Entries(m)) <= Cardinality(P)
    BY <1>4, <2>1, FS_Surjection
  <2>3. free_blocks \ Entries(m) \subseteq free_blocks'
    BY <1>7
  <2> QED BY <2>1, <2>2, <2>3
<1> QED BY <1>2, <1>8, <1>9, <1>10, <1>11 DEF U, P

LEMMA SwapOutSlots ==
  ASSUME SlotsIndInv, BlocksOK', SlidingWindow = 0, NEW g \in Groups, PreemptBySwap(g)
  PROVE  Slots' /\ NoAllocatorError'
<1> DEFINE U == SeqsWith(g, "RUNNING")
<1>1. /\ BlocksOK /\ QueuesTypeOK /\ OneWaits /\ TablesInv /\ LastsInv
      /\ \A s \in Seqs : s[1] \in Groups /\ length[s] \in Nat
  BY Facts
<1>2. Idle /\ U # {} /\ sampled[g] /\ U \subseteq Seqs
  BY DEF PreemptBySwap, SeqsWith, SeqsOf
<1>3. CASE ~CanSwapOut(g)
  <2>1. Fail("NoSwapSpace")
    BY <1>3 DEF PreemptBySwap
  <2>2. Slots'
    BY <2>1, FailKeepsSlots DEF SlotsIndInv
  <2> QED BY <2>1, <2>2 DEF Fail, NoAllocatorError
<1>4. CASE CanSwapOut(g)
  <2>1. ~DoubleFreesMoving(U)
    BY <1>1, <1>2, NoDoubleFree
  <2>2. /\ MoveTables(U, Fresh(PhysicalBlocks(g), FreeCpu), "SWAPPED")
        /\ UNCHANGED <<length, sampled, todo, error>>
    BY <1>4, <2>1 DEF PreemptBySwap
  <2>3. CanFresh(PhysicalBlocks(g), FreeCpu)
    BY <1>4 DEF CanSwapOut
  <2>4. /\ \A s \in Seqs : s \in U <=> s[1] = g /\ status[s] = "RUNNING"
        /\ \A s \in Seqs \ U : status'[s] = status[s] /\ block_tables'[s] = block_tables[s]
        /\ \A s \in U : /\ status'[s] = "SWAPPED"
                        /\ Len(block_tables'[s]) = Len(block_tables[s])
                        /\ Entries(block_tables'[s]) \subseteq FreeCpu
    BY <1>2, <2>2, <2>3, Moves
  <2> HIDE DEF U
  <2>5. \A s \in Seqs : (Pending(s)' <=> Pending(s)) /\ Slotted(s)' = Slotted(s)
    BY <2>2 DEF Pending, Slotted
  <2>6. \A s \in U : status[s] = "RUNNING" /\ Slotted(s) = length[s] - 1
    BY <1>2, <2>4 DEF Slotted, Pending
  <2>7. TablesInv'
    <3> SUFFICES ASSUME NEW s \in Seqs
                 PROVE  /\ status'[s] = "RUNNING" =>
                             /\ Slotted(s)' \in Nat \ {0}
                             /\ Len(block_tables'[s]) = LogicalBlocks(Slotted(s)')
                             /\ Entries(block_tables'[s]) \subseteq GpuBlocks
                        /\ status'[s] = "SWAPPED" =>
                             /\ length'[s] - 1 \in Nat \ {0}
                             /\ Len(block_tables'[s]) = LogicalBlocks(length'[s] - 1)
                        /\ status'[s] = "WAITING" => length'[s] \in Nat \ {0} /\ ~sampled'[s[1]]
      BY DEF TablesInv
    <3>1. CASE s \in U
      BY <1>1, <2>2, <2>4, <2>6, <3>1 DEF TablesInv
    <3>2. CASE s \notin U
      BY <1>1, <2>2, <2>4, <2>5, <3>2 DEF TablesInv
    <3> QED BY <3>1, <3>2
  <2>8. OneWaits'
    BY <1>1, <2>4 DEF OneWaits
  <2>9. LastsInv'
    <3> SUFFICES ASSUME NEW s \in Seqs, status'[s] = "RUNNING", ~Pending(s)'
                 PROVE  Exclusive(s)'
      BY DEF LastsInv
    <3>1. s \notin U /\ status[s] = "RUNNING" /\ ~Pending(s)
          /\ block_tables'[s] = block_tables[s]
      BY <2>4, <2>5
    <3>2. \A r \in Seqs \ {s} :
            Entries(block_tables'[r]) \subseteq Entries(block_tables[r]) \cup free_blocks
      BY <2>4 DEF FreeCpu
    <3> QED BY <1>1, <3>1, <3>2, LastStaysOwn
  <2> QED BY <1>2, <2>2, <2>7, <2>8, <2>9, NothingToDo
          DEF Idle, Slots, SlotsIndInv, NoAllocatorError
<1> QED BY <1>3, <1>4

\* can_swap_in leaves a free block for every sequence it brings back.
LEMMA SwapInSlots ==
  ASSUME SlotsIndInv, BlocksOK', SlidingWindow = 0, NEW g \in Groups, SwapIn(g)
  PROVE  Slots' /\ NoAllocatorError'
<1> DEFINE U == SeqsWith(g, "SWAPPED")
           P == PhysicalBlocks(g)
<1>1. /\ BlocksOK /\ QueuesTypeOK /\ UniformStatus /\ OneWaits /\ TablesInv /\ LastsInv
      /\ \A s \in Seqs : s[1] \in Groups /\ length[s] \in Nat
  BY Facts
<1>2. Idle /\ U # {} /\ CanSwapIn(g) = "OK" /\ U \subseteq Seqs
  BY DEF SwapIn, SeqsWith, SeqsOf
<1>3. ~DoubleFreesMoving(U)
  BY <1>1, <1>2, NoDoubleFree
<1>4. /\ MoveTables(U, Fresh(P, FreeGpu), "RUNNING")
      /\ todo' = U
      /\ sampled' = [sampled EXCEPT ![g] = FALSE]
      /\ UNCHANGED <<length, error>>
  BY <1>3 DEF SwapIn
<1>5. /\ Cardinality(FreeGpu) - (Cardinality(P) + Cardinality(U)) >= 0
      /\ Cardinality(U) \in Nat /\ Cardinality(FreeGpu) \in Nat /\ Cardinality(P) \in Nat
      /\ IsFiniteSet(FreeGpu)
  <2>1. Cardinality(FreeGpu) - (Cardinality(P) + Cardinality(U)) >= Watermark
    BY <1>2 DEF CanSwapIn, AllocStatus
  <2>2. Cardinality(U) \in Nat /\ Cardinality(FreeGpu) \in Nat /\ IsFiniteSet(FreeGpu)
    BY <1>1, <1>2, SeqsFinite, SubsetCard DEF BlocksOK, FreeGpu
  <2>3. Cardinality(P) \in Nat
    BY <1>1, PhysicalBlocksFinite, FS_CardinalityType
  <2> QED BY <2>1, <2>2, <2>3
<1>6. CanFresh(P, FreeGpu)
  BY <1>5 DEF CanFresh
<1>7. /\ \A s \in Seqs : s \in U <=> s[1] = g /\ status[s] = "SWAPPED"
      /\ \A s \in Seqs \ U : status'[s] = status[s] /\ block_tables'[s] = block_tables[s]
      /\ \A s \in U : /\ status'[s] = "RUNNING"
                      /\ Len(block_tables'[s]) = Len(block_tables[s])
                      /\ Entries(block_tables'[s]) \subseteq FreeGpu
      /\ \E E \in SUBSET FreeGpu : /\ free_blocks \ E \subseteq free_blocks'
                                   /\ IsFiniteSet(E)
                                   /\ Cardinality(E) <= Cardinality(P)
  BY <1>2, <1>4, <1>6, Moves
<1> HIDE DEF U, P
<1>8. \A s \in Seqs : /\ s[1] = g => ~sampled'[s[1]]
                      /\ s[1] # g => sampled'[s[1]] = sampled[s[1]]
  BY <1>1, <1>4 DEF QueuesTypeOK
<1>9. \A s \in Seqs \ U : s[1] = g => status[s] \notin {"WAITING", "RUNNING", "SWAPPED"}
  BY <1>1, <1>2, <1>7 DEF UniformStatus
<1>10. \A s \in Seqs \ U : s[1] # g =>
         (Pending(s)' <=> Pending(s)) /\ Slotted(s)' = Slotted(s)
  BY <1>2, <1>4, <1>8 DEF Pending, Slotted, Idle
<1>11. \A s \in U : Pending(s)' /\ Slotted(s)' = length[s] - 1
  BY <1>4 DEF Pending, Slotted
<1>12. TablesInv'
  <2> SUFFICES ASSUME NEW s \in Seqs
               PROVE  /\ status'[s] = "RUNNING" =>
                           /\ Slotted(s)' \in Nat \ {0}
                           /\ Len(block_tables'[s]) = LogicalBlocks(Slotted(s)')
                           /\ Entries(block_tables'[s]) \subseteq GpuBlocks
                      /\ status'[s] = "SWAPPED" =>
                           /\ length'[s] - 1 \in Nat \ {0}
                           /\ Len(block_tables'[s]) = LogicalBlocks(length'[s] - 1)
                      /\ status'[s] = "WAITING" => length'[s] \in Nat \ {0} /\ ~sampled'[s[1]]
    BY DEF TablesInv
  <2>1. CASE s \in U
    <3>1. Entries(block_tables'[s]) \subseteq GpuBlocks
      BY <1>7, <2>1 DEF FreeGpu
    <3>2. /\ status[s] = "SWAPPED" /\ status'[s] = "RUNNING"
          /\ Len(block_tables'[s]) = Len(block_tables[s])
      BY <1>7, <2>1
    <3> QED BY <1>1, <1>11, <2>1, <3>1, <3>2 DEF TablesInv
  <2>2. CASE s \notin U /\ s[1] = g
    BY <1>7, <1>9, <2>2
  <2>3. CASE s \notin U /\ s[1] # g
    BY <1>1, <1>4, <1>7, <1>8, <1>10, <2>3 DEF TablesInv
  <2> QED BY <2>1, <2>2, <2>3
<1>13. OneWaits'
  BY <1>1, <1>7 DEF OneWaits
<1>14. TodoInv'
  <2>1. PICK E \in SUBSET FreeGpu : /\ free_blocks \ E \subseteq free_blocks'
                                    /\ IsFiniteSet(E)
                                    /\ Cardinality(E) <= Cardinality(P)
    BY <1>7
  <2>2. Cardinality(FreeGpu \ E) = Cardinality(FreeGpu) - Cardinality(E)
        /\ Cardinality(E) \in Nat /\ Cardinality(FreeGpu \ E) \in Nat
    BY <1>5, SubsetCard
  <2>3. FreeGpu \ E \subseteq FreeGpu' /\ FreeGpu' \subseteq Blocks
    BY <2>1 DEF FreeGpu, BlocksOK
  <2>4. Cardinality(FreeGpu \ E) <= Cardinality(FreeGpu') /\ Cardinality(FreeGpu') \in Nat
    <3>1. IsFiniteSet(FreeGpu')
      BY <2>3, SeqsFinite, SubsetCard
    <3> QED BY <2>3, <3>1, SubsetCard
  <2>5. Cardinality(todo') <= Cardinality(FreeGpu')
    BY <1>4, <1>5, <2>1, <2>2, <2>4
  <2>6. \A s \in todo' : status'[s] = "RUNNING" /\ ~sampled'[s[1]]
    BY <1>2, <1>4, <1>7, <1>8
  <2> QED BY <2>5, <2>6 DEF TodoInv
<1>15. LastsInv'
  <2> SUFFICES ASSUME NEW s \in Seqs, status'[s] = "RUNNING", ~Pending(s)'
               PROVE  Exclusive(s)'
    BY DEF LastsInv
  <2>1. s \notin U
    BY <1>11
  <2>2. status[s] = "RUNNING" /\ block_tables'[s] = block_tables[s] /\ s[1] # g
    BY <1>7, <1>9, <2>1
  <2>3. ~Pending(s)
    BY <1>10, <2>1, <2>2
  <2>4. \A r \in Seqs \ {s} :
          Entries(block_tables'[r]) \subseteq Entries(block_tables[r]) \cup free_blocks
    BY <1>7 DEF FreeGpu
  <2> QED BY <1>1, <2>2, <2>3, <2>4, LastStaysOwn
<1> QED BY <1>4, <1>12, <1>13, <1>14, <1>15 DEF Slots, SlotsIndInv, NoAllocatorError

LEMMA InitSlots ==
  ASSUME SlidingWindow = 0, Init
  PROVE  SlotsIndInv
<1>1. IndInv
  BY InitInv
<1>2. Cardinality({}) = 0 /\ FreeGpu \subseteq Blocks
  BY FS_EmptySet DEF Init, FreeGpu
<1>3. Cardinality(FreeGpu) \in Nat
  BY <1>2, SeqsFinite, SubsetCard
<1>4. TodoInv
  BY <1>2, <1>3 DEF Init, TodoInv
<1>5. TablesInv /\ OneWaits /\ LastsInv /\ NoAllocatorError
  BY DEF Init, TablesInv, OneWaits, LastsInv, NoAllocatorError
<1> QED BY <1>1, <1>4, <1>5 DEF SlotsIndInv, Slots

LEMMA StepSlots ==
  ASSUME SlidingWindow = 0, SlotsIndInv, [Next]_vars
  PROVE  SlotsIndInv'
<1>1. IndInv'
  BY StepInv DEF SlotsIndInv
<1>2. BlocksOK'
  BY <1>1 DEF IndInv, TypeOK, BlocksOK
<1>3. CASE Next
  <2>1. Slots' /\ NoAllocatorError'
    BY <1>2, <1>3, SubmitSlots, AllocateSlots, SampleSlots, LeavingActions, BeginSlots,
       RecomputeSlots, SwapOutSlots, SwapInSlots, AppendSlotSlots, BeamReplaceSlots DEF Next
  <2> QED BY <1>1, <2>1 DEF SlotsIndInv
<1>4. CASE UNCHANGED vars
  <2>1. Slots' /\ NoAllocatorError'
    BY <1>4 DEF vars, SlotsIndInv, Slots, NoAllocatorError, TablesInv, OneWaits, TodoInv,
       LastsInv, Exclusive, Last, Pending, Slotted, FreeGpu
  <2> QED BY <1>1, <2>1 DEF SlotsIndInv
<1> QED BY <1>3, <1>4

LEMMA SlotsInductive ==
  ASSUME SlidingWindow = 0
  PROVE  Spec => []SlotsIndInv
<1>1. Init => SlotsIndInv
  BY InitSlots
<1>2. SlotsIndInv /\ [Next]_vars => SlotsIndInv'
  BY StepSlots
<1> QED BY <1>1, <1>2, PTL DEF Spec

\* Once its slot is appended, a running sequence has a table of the length of
\* its logical blocks whose last block no other table lists (append_slots,
\* copy-on-write), and what can_allocate, can_append_slots and can_swap_in
\* allow never finds the free list empty, frees a block twice or fails an
\* assertion: for every number of groups, sequences and blocks.
THEOREM SlotsAreSound ==
  ASSUME SlidingWindow = 0
  PROVE  Spec => []SlotsInv
<1>1. SlotsIndInv => SlotsInv
  <2> SUFFICES ASSUME SlotsIndInv PROVE WriteIsExclusive
    BY DEF SlotsIndInv, SlotsInv
  <2>1. TablesInv /\ LastsInv
    BY Facts
  <2> SUFFICES ASSUME NEW s \in Seqs, status[s] = "RUNNING", ~sampled[s[1]], s \notin todo
               PROVE  /\ Len(block_tables[s]) = LogicalBlocks(length[s])
                      /\ \A r \in Seqs \ {s} : Last(s) \notin Live(block_tables[r])
    BY DEF WriteIsExclusive, Last
  <2>2. ~Pending(s) /\ Slotted(s) = length[s]
    BY DEF Pending, Slotted
  <2> QED BY <2>1, <2>2, LiveIsEntries DEF TablesInv, LastsInv, Exclusive
<1> QED BY <1>1, SlotsInductive, PTL

\* Only swap_out and swap_in take sequences from the device and back.
LEMMA StepKeepsSharing ==
  ASSUME SlidingWindow = 0, SlotsIndInv, Next,
         NEW r \in Seqs, NEW s \in Seqs, status[r] # status'[r], status[s] # status'[s],
         {status'[r], status'[s], status[r], status[s]} = {"RUNNING", "SWAPPED"},
         r[1] = s[1]
  PROVE  \A i \in DOMAIN block_tables[r], j \in DOMAIN block_tables[s] :
           /\ i \in DOMAIN block_tables'[r] /\ j \in DOMAIN block_tables'[s]
           /\ block_tables[r][i] = block_tables[s][j]
                <=> block_tables'[r][i] = block_tables'[s][j]
<1>1. BlocksOK /\ QueuesTypeOK
  BY Facts
<1>2. ASSUME NEW U, NEW st \in {"none", "FINISHED", "WAITING"}, status' = WithStatus(U, st)
      PROVE  FALSE
  BY <1>2 DEF WithStatus
<1>3. ASSUME NEW g \in Groups, Sample(g) PROVE FALSE
  <2> DEFINE C == {q \in Seqs : q[1] = g /\ status[q] = "none"}
  <2>1. \E U \in SUBSET C : status' = WithStatus(U, "RUNNING")
    BY <1>3 DEF Sample
  <2> QED BY <2>1 DEF WithStatus
<1>4. ASSUME NEW g \in Groups, Allocate(g) PROVE FALSE
  BY <1>4 DEF Allocate, WithStatus, SeqsWith
<1>5. ASSUME status' = status PROVE FALSE
  BY <1>5
<1>6. ASSUME NEW g \in Groups, NEW n \in PromptLens, Submit(g, n) PROVE FALSE
  BY <1>1, <1>6 DEF Submit, QueuesTypeOK
<1>7. ASSUME NEW g \in Groups, PreemptBySwap(g)
      PROVE  \A i \in DOMAIN block_tables[r], j \in DOMAIN block_tables[s] :
               /\ i \in DOMAIN block_tables'[r] /\ j \in DOMAIN block_tables'[s]
               /\ block_tables[r][i] = block_tables[s][j]
                    <=> block_tables'[r][i] = block_tables'[s][j]
  <2> DEFINE U == SeqsWith(g, "RUNNING")
  <2>1. CanSwapOut(g) /\ ~DoubleFreesMoving(U)
    BY <1>5, <1>7 DEF PreemptBySwap, Fail
  <2>2. /\ U # {} /\ CanFresh(PhysicalBlocks(g), FreeCpu)
        /\ MoveTables(U, Fresh(PhysicalBlocks(g), FreeCpu), "SWAPPED")
    BY <1>7, <2>1 DEF PreemptBySwap, CanSwapOut
  <2>3. /\ r \in U /\ s \in U
        /\ DOMAIN block_tables'[r] = DOMAIN block_tables[r]
        /\ DOMAIN block_tables'[s] = DOMAIN block_tables[s]
    BY <2>2, Moves
  <2> QED BY <2>2, <2>3, Moves
<1>8. ASSUME NEW g \in Groups, SwapIn(g)
      PROVE  \A i \in DOMAIN block_tables[r], j \in DOMAIN block_tables[s] :
               /\ i \in DOMAIN block_tables'[r] /\ j \in DOMAIN block_tables'[s]
               /\ block_tables[r][i] = block_tables[s][j]
                    <=> block_tables'[r][i] = block_tables'[s][j]
  <2> DEFINE U == SeqsWith(g, "SWAPPED")
             P == PhysicalBlocks(g)
  <2>1. ~DoubleFreesMoving(U)
    BY <1>5, <1>8 DEF SwapIn, Fail
  <2>2. U # {} /\ MoveTables(U, Fresh(P, FreeGpu), "RUNNING") /\ CanSwapIn(g) = "OK"
    BY <1>8, <2>1 DEF SwapIn
  <2>3. CanFresh(P, FreeGpu)
    <3>1. Cardinality(FreeGpu) - (Cardinality(P) + Cardinality(U)) >= Watermark
      BY <2>2 DEF CanSwapIn, AllocStatus
    <3>2. U \subseteq Seqs
      BY DEF SeqsWith, SeqsOf
    <3>3. Cardinality(U) \in Nat /\ Cardinality(FreeGpu) \in Nat
      BY <1>1, <3>2, SeqsFinite, SubsetCard DEF BlocksOK, FreeGpu
    <3>4. Cardinality(P) \in Nat
      BY <1>1, PhysicalBlocksFinite, FS_CardinalityType
    <3> QED BY <3>1, <3>3, <3>4 DEF CanFresh
  <2>4. /\ r \in U /\ s \in U
        /\ DOMAIN block_tables'[r] = DOMAIN block_tables[r]
        /\ DOMAIN block_tables'[s] = DOMAIN block_tables[s]
    BY <2>2, <2>3, Moves
  <2> QED BY <2>2, <2>3, <2>4, Moves
<1>9. ASSUME NEW q \in Seqs, AppendSlot(q) PROVE FALSE
  <2>1. status' = status
    BY <1>9 DEF AppendSlot, WriteToLast, CopyOnWrite, NewBlock, Fail
  <2> QED BY <1>5, <2>1
<1>10. ASSUME NEW q \in Seqs, Finish(q) PROVE FALSE
  BY <1>2, <1>5, <1>10 DEF Finish, Fail
<1>11. ASSUME NEW g \in Groups,
              \/ IgnorePrompt(g) \/ Abort(g) \/ Retire(g) \/ BeginAppendSlots(g)
              \/ PreemptByRecompute(g) \/ IgnoreSwapped(g)
       PROVE  FALSE
  BY <1>2, <1>5, <1>11 DEF IgnorePrompt, Abort, Retire, BeginAppendSlots, PreemptByRecompute,
     IgnoreSwapped, Fail
<1>12. ASSUME NEW p \in Seqs, NEW d \in Seqs, BeamReplace(p, d) PROVE FALSE
  BY <1>5, <1>12 DEF BeamReplace, Fail
<1> QED BY <1>3, <1>4, <1>6, <1>7, <1>8, <1>9, <1>10, <1>11, <1>12 DEF Next

\* A swap keeps which positions of which tables of a group share a block, so
\* that what was forked before it is still copied on write after it (swap_out,
\* swap_in).
THEOREM SwapsKeepSharing ==
  ASSUME SlidingWindow = 0
  PROVE  Spec => SwapKeepsSharing
<1>1. SlotsIndInv /\ [Next]_vars =>
        [\A r, s \in Seqs :
          status[r] # status'[r] /\ status[s] # status'[s]
          /\ {status'[r], status'[s], status[r], status[s]} = {"RUNNING", "SWAPPED"}
          /\ r[1] = s[1]
          => \A i \in DOMAIN block_tables[r], j \in DOMAIN block_tables[s] :
                /\ i \in DOMAIN block_tables'[r] /\ j \in DOMAIN block_tables'[s]
                /\ block_tables[r][i] = block_tables[s][j]
                     <=> block_tables'[r][i] = block_tables'[s][j]]_vars
  BY StepKeepsSharing
<1> QED BY <1>1, SlotsInductive, PTL DEF Spec, SwapKeepsSharing
=============================================================================
