-------------------------- MODULE SchedulerProofs --------------------------
(***************************************************************************)
(* What the scheduler keeps, for every number of requests, every mix of    *)
(* settings and every choice of what arrives, is aborted and stops: the    *)
(* queues, the devices and the limits (QueuesInv), the order of service,   *)
(* and what a step reports.                                                *)
(***************************************************************************)
EXTENDS Scheduler, ListLemmas, FiniteSetTheorems

USE SchedulerAssumption DEF Groups

-----------------------------------------------------------------------------
\* The settings.

Limits ==
    /\ PromptLens \subseteq Nat \ {0} /\ BestOfs \subseteq Nat \ {0}
    /\ MaxTokens \in Nat \ {0} /\ MaxModelLen \in Nat \ {0} /\ MaxNumSeqs \in Nat \ {0}
    /\ GpuBlocks \in Nat /\ CpuBlocks \in Nat /\ Watermark \in Nat
    /\ Chunked \in BOOLEAN /\ MaxBatchedTokens \in Nat
    /\ MaxBatchedTokens >= MaxNumSeqs
    /\ Chunked \/ MaxBatchedTokens >= MaxModelLen
    /\ MaxModelLen <= GpuBlocks

LEMMA LimitsHold == config \in Configs => Limits
<1> SUFFICES ASSUME config \in Configs PROVE Limits
  OBVIOUS
<1> DEFINE c == config
<1>1. /\ c.prompt_lens \subseteq Nat \ {0}
      /\ c.best_ofs \subseteq Nat \ {0}
      /\ {c.max_tokens, c.max_model_len, c.max_num_seqs} \subseteq Nat \ {0}
      /\ {c.gpu_blocks, c.cpu_blocks, c.watermark} \subseteq Nat
      /\ c.chunked \in BOOLEAN
      /\ c.max_num_batched_tokens \in Nat
      /\ c.max_num_batched_tokens >= c.max_num_seqs
      /\ c.chunked \/ c.max_num_batched_tokens >= c.max_model_len
      /\ c.max_model_len <= c.gpu_blocks
  BY Zenon
<1>2. c.max_tokens \in Nat \ {0} /\ c.max_model_len \in Nat \ {0} /\ c.max_num_seqs \in Nat \ {0}
  BY <1>1
<1>3. c.gpu_blocks \in Nat /\ c.cpu_blocks \in Nat /\ c.watermark \in Nat
  BY <1>1
<1> QED BY <1>1, <1>2, <1>3, Zenon DEF Limits, PromptLens, BestOfs, MaxTokens, MaxModelLen,
           MaxBatchedTokens, MaxNumSeqs, GpuBlocks, CpuBlocks, Watermark, Chunked

LEMMA SameConfig ==
  ASSUME config' = config
  PROVE  /\ PromptLens' = PromptLens /\ BestOfs' = BestOfs /\ MaxTokens' = MaxTokens
         /\ MaxModelLen' = MaxModelLen /\ MaxBatchedTokens' = MaxBatchedTokens
         /\ MaxNumSeqs' = MaxNumSeqs /\ GpuBlocks' = GpuBlocks /\ CpuBlocks' = CpuBlocks
         /\ Watermark' = Watermark /\ Chunked' = Chunked /\ Single' = Single
         /\ GroupType' = GroupType
BY DEF PromptLens, BestOfs, MaxTokens, MaxModelLen, MaxBatchedTokens, MaxNumSeqs, GpuBlocks,
       CpuBlocks, Watermark, Chunked, Single, GroupType

-----------------------------------------------------------------------------
\* The records of the groups.

LEMMA LiveFacts ==
  ASSUME NEW n \in Nat, NEW S \in SUBSET (1 .. n)
  PROVE  /\ IsFiniteSet(S) /\ Cardinality(S) \in Nat /\ Cardinality(S) <= n
         /\ Cardinality(1 .. n) = n
         /\ S = {} <=> Cardinality(S) = 0
         /\ \A T \in SUBSET S : /\ Cardinality(T) \in Nat /\ Cardinality(T) <= Cardinality(S)
                                /\ Cardinality(S \ T) = Cardinality(S) - Cardinality(T)
<1>1. IsFiniteSet(1 .. n) /\ Cardinality(1 .. n) = n
  BY FS_Interval
<1>2. IsFiniteSet(S) /\ Cardinality(S) <= Cardinality(1 .. n)
  BY <1>1, FS_Subset
<1>3. Cardinality(S) \in Nat /\ (S = {} <=> Cardinality(S) = 0)
  BY <1>2, FS_CardinalityType, FS_EmptySet
<1>4. ASSUME NEW T \in SUBSET S
      PROVE  /\ Cardinality(T) \in Nat /\ Cardinality(T) <= Cardinality(S)
             /\ Cardinality(S \ T) = Cardinality(S) - Cardinality(T)
  <2>1. IsFiniteSet(T) /\ Cardinality(T) <= Cardinality(S)
    BY <1>2, FS_Subset
  <2>2. Cardinality(T) \in Nat
    BY <2>1, FS_CardinalityType
  <2>3. Cardinality(S \ T) = Cardinality(S) - Cardinality(S \cap T)
    BY <1>2, FS_Difference
  <2>4. S \cap T = T
    OBVIOUS
  <2> QED BY <2>1, <2>2, <2>3, <2>4
<1> QED BY <1>1, <1>2, <1>3, <1>4

\* A group of the right type and in a state it can be in.
Good(r) == r \in GroupType /\ GroupInv(r)

\* What all proofs use of such a group.
LEMMA GoodFacts ==
  ASSUME Limits, NEW r, Good(r)
  PROVE  /\ r.best_of \in Nat /\ r.best_of >= 1 /\ r.seqs \in Nat /\ r.seqs >= 1
         /\ r.live \in SUBSET (1 .. r.best_of) /\ r.flagged \in SUBSET r.live
         /\ IsFiniteSet(r.live) /\ Cardinality(r.live) \in Nat /\ Cardinality(r.flagged) \in Nat
         /\ Cardinality(r.live) <= r.best_of /\ Cardinality(r.flagged) <= Cardinality(r.live)
         /\ Cardinality(r.live) <= r.seqs /\ r.seqs <= r.best_of
         /\ Cardinality(r.live \ r.flagged) = Cardinality(r.live) - Cardinality(r.flagged)
         /\ r.live = {} <=> Cardinality(r.live) = 0
         /\ r.live = {} <=> r.status = "finished"
<1>1. r.best_of \in Nat /\ r.best_of >= 1 /\ r.seqs \in Nat /\ r.seqs >= 1
  <2>1. r.best_of \in BestOfs \cup {1} /\ r.seqs \in BestOfs \cup {1}
    BY DEF Good, GroupType
  <2>2. \A n \in BestOfs \cup {1} : n \in Nat /\ n >= 1
    BY DEF Limits
  <2> QED BY <2>1, <2>2, Zenon
<1>2. r.live \in SUBSET (1 .. r.best_of) /\ r.flagged \in SUBSET r.live
  BY DEF Good, GroupInv
<1>3. r.live = {} <=> r.status = "finished"
  BY DEF Good, GroupInv
<1>4. /\ IsFiniteSet(r.live) /\ Cardinality(r.live) \in Nat /\ Cardinality(r.flagged) \in Nat
      /\ Cardinality(r.live) <= r.best_of /\ Cardinality(r.flagged) <= Cardinality(r.live)
      /\ Cardinality(r.live \ r.flagged) = Cardinality(r.live) - Cardinality(r.flagged)
      /\ r.live = {} <=> Cardinality(r.live) = 0
  BY <1>1, <1>2, LiveFacts
<1>5. r.seqs = r.best_of \/ (r.seqs = 1 /\ r.live = {1})
  BY DEF Good, GroupInv
<1>6. Cardinality({1}) = 1
  BY FS_Singleton
<1>7. Cardinality(r.live) <= r.seqs
  <2>1. CASE r.seqs = r.best_of
    BY <1>4, <2>1
  <2>2. CASE r.seqs = 1 /\ r.live = {1}
    <3>1. Cardinality(r.live) = 1
      BY <1>6, <2>2
    <3> QED BY <1>1, <2>2, <3>1
  <2> QED BY <1>5, <2>1, <2>2
<1>8. r.seqs <= r.best_of
  BY <1>1, <1>5
<1> QED BY <1>1, <1>2, <1>3, <1>4, <1>7, <1>8, Zenon

LEMMA NewGood ==
  ASSUME Limits, NEW len \in Nat \ {0}, NEW n \in BestOfs \cup {1}
  PROVE  Good(New(len, n)) /\ New(len, n).status = "waiting" /\ New(len, n).live = {1}
<1>1. n \in Nat /\ n >= 1
  BY DEF Limits
<1>2. MaxTokens \in Nat /\ 0 \in 0 .. MaxTokens /\ MaxTokens # 0
  BY DEF Limits
<1>3. New(len, n) \in GroupType
  BY <1>1, <1>2 DEF New, GroupType
<1>4. GroupInv(New(len, n))
  BY <1>1, <1>2 DEF New, GroupInv
<1> QED BY <1>3, <1>4 DEF New, Good

LEMMA EndedGood ==
  ASSUME Limits
  PROVE  /\ Good(Ended) /\ Ended.status = "finished" /\ Ended.live = {} /\ Ended.seqs = 1
         /\ Ended.best_of = 1 /\ Ended.refs = 0 /\ ~Ended.decode
<1>1. New(1, 1) \in GroupType
  BY NewGood DEF Good
<1>2. Ended \in GroupType
  BY <1>1 DEF Ended, GroupType
<1>3. MaxTokens # 0
  BY DEF Limits
<1>4. GroupInv(Ended)
  BY <1>3 DEF Ended, New, GroupInv
<1> QED BY <1>2, <1>4 DEF Ended, New, Good

LEMMA AllocatedGood ==
  ASSUME Limits, NEW r, Good(r), r.status = "waiting"
  PROVE  /\ Good(Allocated(r)) /\ Allocated(r).slots = Allocated(r).len
         /\ Allocated(r) = [r EXCEPT !.status = "running", !.slots = r.len, !.prefix = r.len,
                                     !.refs = r.seqs]
<1>1. Allocated(r) \in GroupType
  BY GoodFacts DEF Good, Allocated, GroupType
<1>2. r \in GroupType /\ r.len \in Nat
  BY DEF Good, GroupType
<1>3. GroupInv(r) /\ Cardinality(r.live) <= r.seqs
  BY GoodFacts DEF Good
<1>4. /\ Allocated(r).live = r.live /\ Allocated(r).best_of = r.best_of /\ Allocated(r).seqs = r.seqs
      /\ Allocated(r).flagged = r.flagged /\ Allocated(r).len = r.len /\ Allocated(r).out = r.out
      /\ Allocated(r).decode = r.decode /\ Allocated(r).status = "running"
      /\ Allocated(r).slots = r.len /\ Allocated(r).prefix = r.len /\ Allocated(r).refs = r.seqs
  BY <1>2 DEF Allocated, GroupType
<1>5. r.live # {}
  BY <1>3 DEF GroupInv
<1>6. GroupInv(Allocated(r))
  BY <1>2, <1>3, <1>4, <1>5 DEF GroupInv
<1> QED BY <1>1, <1>4, <1>6 DEF Allocated, Good

LEMMA AppendedGood ==
  ASSUME Limits, NEW r, Good(r), r.status \in {"running", "swapped"}
  PROVE  Good(Appended(r)) /\ Appended(r).slots = Appended(r).len
<1>1. Appended(r) \in GroupType /\ r \in GroupType /\ r.len \in Nat /\ r.slots \in Nat /\ r.prefix \in Nat
  BY DEF Good, Appended, GroupType
<1>2. GroupInv(Appended(r))
  BY <1>1 DEF Good, Appended, GroupInv, GroupType
<1> QED BY <1>1, <1>2 DEF Appended, Good, GroupType

LEMMA RecomputedGood ==
  ASSUME Limits, NEW r, Good(r), r.status = "running"
  PROVE  Good(Recomputed(r))
<1>1. r \in GroupType
  BY DEF Good
<1>2. Recomputed(r) \in GroupType
  <2> DEFINE zero == 0
             no == FALSE
  <2>1. zero \in Nat /\ zero \in Int /\ no \in BOOLEAN
    OBVIOUS
  <2>2. Recomputed(r) = [r EXCEPT !.status = "waiting", !.computed = zero, !.decode = no,
                                  !.slots = zero, !.prefix = zero, !.refs = zero]
    BY DEF Recomputed
  <2> HIDE DEF zero, no
  <2> QED BY <1>1, <2>1, <2>2 DEF GroupType
<1>3. GroupInv(Recomputed(r))
  BY <1>1 DEF Good, Recomputed, GroupInv, GroupType
<1> QED BY <1>2, <1>3 DEF Good

LEMMA SwappedGood ==
  ASSUME Limits, NEW r, Good(r), r.status = "running"
  PROVE  Good([r EXCEPT !.status = "swapped"])
<1>1. [r EXCEPT !.status = "swapped"] \in GroupType /\ r \in GroupType
  BY DEF Good, GroupType
<1>2. GroupInv([r EXCEPT !.status = "swapped"])
  BY <1>1 DEF Good, GroupInv, GroupType
<1> QED BY <1>1, <1>2 DEF Good

\* update_num_computed_tokens and _process_model_outputs on a group that has
\* been scheduled, field by field.
CanPrefill(r) == 1 \in r.live /\ ~r.decode
Next1(r, chunk, stop) == Sampled(Computed(r, chunk), CanPrefill(r), stop)

LEMMA ComputedFields ==
  ASSUME Limits, NEW r, Good(r), NEW chunk \in Int
  PROVE  LET c == Computed(r, chunk) IN
         /\ c \in GroupType /\ c.computed = r.computed + chunk
         /\ c.decode <=> r.decode \/ r.computed + chunk = r.len
         /\ c.status = r.status /\ c.best_of = r.best_of /\ c.seqs = r.seqs /\ c.live = r.live
         /\ c.flagged = r.flagged /\ c.len = r.len /\ c.out = r.out /\ c.slots = r.slots
         /\ c.prefix = r.prefix /\ c.refs = r.refs
<1>1. r \in GroupType
  BY DEF Good
<1>2. r.computed + chunk \in Int /\ (r.decode \/ r.computed + chunk = r.len) \in BOOLEAN
  BY <1>1 DEF GroupType
<1> DEFINE now == r.computed + chunk
           past == r.decode \/ r.computed + chunk = r.len
<1>3. Computed(r, chunk) = [r EXCEPT !.computed = now, !.decode = past]
  BY DEF Computed
<1>4. now \in Int /\ past \in BOOLEAN
  BY <1>2
<1>5. (past <=> r.decode \/ r.computed + chunk = r.len) /\ now = r.computed + chunk
  OBVIOUS
<1> HIDE DEF now, past
<1>6. Computed(r, chunk) \in GroupType
  BY <1>1, <1>3, <1>4 DEF GroupType
<1>7. /\ Computed(r, chunk).computed = now /\ Computed(r, chunk).decode = past
      /\ Computed(r, chunk).status = r.status /\ Computed(r, chunk).best_of = r.best_of
      /\ Computed(r, chunk).seqs = r.seqs /\ Computed(r, chunk).live = r.live
      /\ Computed(r, chunk).flagged = r.flagged /\ Computed(r, chunk).len = r.len
      /\ Computed(r, chunk).out = r.out /\ Computed(r, chunk).slots = r.slots
      /\ Computed(r, chunk).prefix = r.prefix /\ Computed(r, chunk).refs = r.refs
  BY <1>1, <1>3, <1>4 DEF GroupType
<1> QED BY <1>5, <1>6, <1>7

\* A sequence that goes on: the group is not over, and nothing but the first
\* token makes new sequences.
GoesOn(s, r) ==
    /\ s.status = r.status /\ s.best_of = r.best_of /\ s.seqs = r.best_of
    /\ s.len = r.len + 1 /\ s.out = r.out + 1 /\ s.slots = r.slots /\ s.prefix = r.prefix
    /\ s.live # {} /\ s.flagged \subseteq s.live
    /\ s.out = MaxTokens => s.flagged = s.live
    /\ s.out \in 0 .. MaxTokens
Goes(s, r) ==
    \/ r.seqs # r.best_of /\ s.live = 1 .. r.best_of /\ s.refs = r.best_of
    \/ /\ r.seqs = r.best_of /\ s.live = r.live \ r.flagged
       /\ s.refs = r.refs - Cardinality(r.flagged)

LEMMA SampledFields ==
  ASSUME Limits, NEW r, Good(r), r.status = "running", NEW chunk \in Int, NEW stop
  PROVE  LET s == Next1(r, chunk, stop) IN
         \/ s = Ended /\ r.live = r.flagged /\ r.seqs = r.best_of
         \/ /\ GoesOn(s, r) /\ Goes(s, r) /\ s \in GroupType /\ r.out # MaxTokens
            /\ s.computed = r.computed + chunk
            /\ s.decode <=> r.decode \/ r.computed + chunk = r.len
<1> DEFINE c == Computed(r, chunk)
           p == CanPrefill(r)
           f == Finalised(c)
           k == Fork(f, p)
           next == [k EXCEPT !.len = @ + 1, !.out = @ + 1]
           s == Next1(r, chunk, stop)
<1>1. /\ c \in GroupType /\ c.computed = r.computed + chunk
      /\ c.decode <=> r.decode \/ r.computed + chunk = r.len
      /\ c.status = r.status /\ c.best_of = r.best_of /\ c.seqs = r.seqs /\ c.live = r.live
      /\ c.flagged = r.flagged /\ c.len = r.len /\ c.out = r.out /\ c.slots = r.slots
      /\ c.prefix = r.prefix /\ c.refs = r.refs
  BY ComputedFields
<1>2. /\ r \in GroupType /\ r.out \in 0 .. MaxTokens /\ r.len \in Nat
      /\ r.seqs = r.best_of \/ (r.seqs = 1 /\ r.live = {1} /\ r.flagged = {} /\ ~r.decode)
      /\ r.out = MaxTokens => r.flagged = r.live
      /\ r.live # {} /\ r.flagged \subseteq r.live /\ Cardinality(r.live) <= r.refs
  BY GoodFacts DEF Good, GroupType, GroupInv
<1>3. /\ r.best_of \in Nat /\ r.best_of >= 1 /\ r.live \in SUBSET (1 .. r.best_of)
      /\ Cardinality(r.flagged) \in Nat /\ Cardinality(r.flagged) <= Cardinality(r.live)
      /\ Cardinality(r.live) \in Nat /\ r.seqs \in Nat
  BY GoodFacts
<1> HIDE DEF c
<1>4. c.refs - Cardinality(c.flagged) \in Nat
  BY <1>1, <1>2, <1>3 DEF GroupType
<1>5. f = [c EXCEPT !.live = c.live \ c.flagged, !.flagged = {}, !.refs = c.refs - Cardinality(c.flagged)]
  BY DEF Finalised
<1> DEFINE none == {}
<1>6. /\ f \in GroupType /\ f.live = c.live \ c.flagged /\ f.flagged = {}
      /\ f.refs = c.refs - Cardinality(c.flagged)
      /\ f.status = c.status /\ f.best_of = c.best_of /\ f.seqs = c.seqs /\ f.len = c.len /\ f.out = c.out
      /\ f.slots = c.slots /\ f.prefix = c.prefix /\ f.computed = c.computed /\ f.decode = c.decode
  <2>1. none \in SUBSET Nat /\ c.live \ c.flagged \in SUBSET Nat /\ none = {}
    BY <1>1 DEF GroupType
  <2> HIDE DEF none
  <2>2. f = [c EXCEPT !.live = c.live \ c.flagged, !.flagged = none, !.refs = c.refs - Cardinality(c.flagged)]
    BY <1>5, <2>1
  <2> HIDE DEF f
  <2>3. f \in GroupType
    BY <1>1, <1>4, <2>1, <2>2 DEF GroupType
  <2> QED BY <1>1, <1>4, <2>1, <2>2, <2>3 DEF GroupType
<1> HIDE DEF f
<1>7. /\ k \in GroupType /\ k.flagged = {} /\ k.seqs = r.best_of
      /\ k.status = c.status /\ k.best_of = c.best_of /\ k.len = c.len /\ k.out = c.out
      /\ k.slots = c.slots /\ k.prefix = c.prefix /\ k.computed = c.computed /\ k.decode = c.decode
      /\ \/ r.seqs # r.best_of /\ k.live = 1 .. r.best_of /\ k.refs = r.best_of
         \/ r.seqs = r.best_of /\ k.live = f.live /\ k.refs = f.refs
  <2>1. CASE r.seqs = r.best_of
    <3>1. ~(f.best_of > f.seqs)
      BY <1>1, <1>3, <1>6, <2>1
    <3>2. k = f
      BY <3>1 DEF Fork
    <3> QED BY <1>1, <1>6, <2>1, <3>2
  <2>2. CASE r.seqs # r.best_of
    <3>1. r.seqs = 1 /\ r.live = {1} /\ r.flagged = {} /\ ~r.decode
      BY <1>2, <2>2
    <3>2. p
      BY <3>1 DEF CanPrefill
    <3>3. f.best_of > f.seqs
      BY <1>1, <1>3, <1>6, <2>2, <3>1
    <3>4. k = [f EXCEPT !.seqs = f.best_of, !.live = 1 .. f.best_of, !.refs = f.best_of]
      BY <3>2, <3>3 DEF Fork
    <3>5. f.best_of \in Nat /\ f.best_of \in BestOfs \cup {1} /\ f.best_of = r.best_of
      BY <1>1, <1>3, <1>6 DEF GroupType
    <3>6. 1 .. f.best_of \in SUBSET Nat
      BY <3>5
    <3> DEFINE all == 1 .. f.best_of
    <3>7. k = [f EXCEPT !.seqs = f.best_of, !.live = all, !.refs = f.best_of] /\ all \in SUBSET Nat
      BY <3>4, <3>6
    <3>8. all = 1 .. r.best_of
      BY <3>5
    <3> HIDE DEF all, k
    <3>9. k \in GroupType
      BY <1>6, <3>5, <3>7 DEF GroupType
    <3> QED BY <1>6, <2>2, <3>5, <3>7, <3>8, <3>9 DEF GroupType
  <2> QED BY <2>1, <2>2
<1>8. s = IF k.live = {} THEN Ended
          ELSE [next EXCEPT !.flagged = IF MustStop(next) THEN next.live ELSE next.live \cap stop]
  BY DEF Next1, Sampled, c, f
<1> HIDE DEF k, s, p
<1>9. CASE k.live = {}
  <2>1. 1 \in 1 .. r.best_of
    BY <1>3
  <2>2. r.seqs = r.best_of /\ f.live = {}
    BY <1>7, <1>9, <2>1
  <2>3. r.live = r.flagged
    BY <1>1, <1>2, <1>6, <2>2
  <2> QED BY <1>8, <1>9, <2>2, <2>3 DEF s
<1>10. CASE k.live # {}
  <2>1. r.out # MaxTokens
    <3> SUFFICES ASSUME r.out = MaxTokens PROVE FALSE
      OBVIOUS
    <3>1. r.flagged = r.live /\ r.flagged # {}
      BY <1>2
    <3>2. r.seqs = r.best_of
      BY <1>2, <3>1
    <3>3. f.live = {}
      BY <1>1, <1>6, <3>1
    <3> QED BY <1>7, <1>10, <3>2, <3>3
  <2>2. MaxTokens \in Nat
    BY DEF Limits
  <2>3. k.len + 1 \in Nat /\ k.out + 1 \in 0 .. MaxTokens /\ k.out + 1 \in Nat
    BY <1>1, <1>2, <1>7, <2>1, <2>2
  <2>4. /\ next \in GroupType /\ next.len = k.len + 1 /\ next.out = k.out + 1 /\ next.live = k.live
        /\ next.status = k.status /\ next.best_of = k.best_of /\ next.seqs = k.seqs
        /\ next.slots = k.slots /\ next.prefix = k.prefix /\ next.refs = k.refs
        /\ next.computed = k.computed /\ next.decode = k.decode
    BY <1>7, <2>3 DEF GroupType
  <2> HIDE DEF next
  <2> DEFINE fl == IF MustStop(next) THEN next.live ELSE next.live \cap stop
  <2>5. s = [next EXCEPT !.flagged = fl]
    BY <1>8, <1>10
  <2>6. fl \subseteq next.live /\ (next.out = MaxTokens => fl = next.live)
    BY DEF MustStop
  <2>7. fl \in SUBSET Nat
    BY <2>4, <2>6 DEF GroupType
  <2> HIDE DEF fl
  <2>8. s \in GroupType
    BY <2>4, <2>5, <2>7 DEF GroupType
  <2>9. /\ s.flagged = fl /\ s.len = k.len + 1 /\ s.out = k.out + 1 /\ s.live = k.live
        /\ s.status = k.status /\ s.best_of = k.best_of /\ s.seqs = k.seqs
        /\ s.slots = k.slots /\ s.prefix = k.prefix /\ s.refs = k.refs
        /\ s.computed = k.computed /\ s.decode = k.decode
    BY <2>4, <2>5, <2>7 DEF GroupType
  <2>10. GoesOn(s, r)
    BY <1>1, <1>7, <1>10, <2>3, <2>4, <2>6, <2>9 DEF GoesOn
  <2>11. Goes(s, r)
    BY <1>1, <1>6, <1>7, <2>9 DEF Goes
  <2>12. s.computed = r.computed + chunk /\ (s.decode <=> r.decode \/ r.computed + chunk = r.len)
    BY <1>1, <1>7, <2>9
  <2> QED BY <2>1, <2>8, <2>10, <2>11, <2>12 DEF s
<1> QED BY <1>9, <1>10

LEMMA SampledGood ==
  ASSUME Limits, NEW r, Good(r), r.status = "running", r.slots = r.len, NEW chunk \in Int, NEW stop
  PROVE  Good(Next1(r, chunk, stop))
<1> DEFINE s == Next1(r, chunk, stop)
<1>1. CASE s = Ended
  BY <1>1, EndedGood
<1>2. CASE GoesOn(s, r) /\ Goes(s, r) /\ s \in GroupType
  <2>1. /\ r.best_of \in Nat /\ r.best_of >= 1 /\ r.live \in SUBSET (1 .. r.best_of)
        /\ Cardinality(r.live) \in Nat /\ Cardinality(r.flagged) \in Nat
        /\ Cardinality(r.live \ r.flagged) = Cardinality(r.live) - Cardinality(r.flagged)
        /\ Cardinality(1 .. r.best_of) = r.best_of
    BY GoodFacts, LiveFacts
  <2>2. /\ r.len \in Nat /\ r.slots \in Nat /\ r.prefix \in Nat /\ r.refs \in Nat
        /\ r.prefix <= r.slots /\ Cardinality(r.live) <= r.refs
    BY DEF Good, GroupType, GroupInv
  <2>3. Cardinality(s.live) <= s.refs /\ s.live \subseteq 1 .. r.best_of
    <3> HIDE DEF s
    <3>1. CASE s.live = 1 .. r.best_of /\ s.refs = r.best_of
      BY <2>1, <3>1
    <3>2. CASE s.live = r.live \ r.flagged /\ s.refs = r.refs - Cardinality(r.flagged)
      BY <2>1, <2>2, <3>2
    <3> QED BY <1>2, <3>1, <3>2 DEF Goes
  <2>4. GroupInv(s)
    <3> HIDE DEF s
    <3> QED BY <1>2, <2>1, <2>2, <2>3 DEF GoesOn, GroupInv
  <2> QED BY <1>2, <2>4 DEF Good
<1> QED BY <1>1, <1>2, SampledFields

\* In the middle of a prompt.
LEMMA ComputedGood ==
  ASSUME Limits, NEW r, Good(r), r.status = "running", r.slots = r.len, NEW chunk \in Int,
         CanPrefill(r), ~(r.computed + chunk >= r.len)
  PROVE  Good(Computed(r, chunk))
<1> DEFINE c == Computed(r, chunk)
<1>1. /\ c \in GroupType /\ c.computed = r.computed + chunk
      /\ c.decode <=> r.decode \/ r.computed + chunk = r.len
      /\ c.status = r.status /\ c.best_of = r.best_of /\ c.seqs = r.seqs /\ c.live = r.live
      /\ c.flagged = r.flagged /\ c.len = r.len /\ c.out = r.out /\ c.slots = r.slots
      /\ c.prefix = r.prefix /\ c.refs = r.refs
  BY ComputedFields
<1> HIDE DEF c
<1>2. r.computed + chunk # r.len
  BY DEF Good, GroupType
<1>3. ~c.decode /\ c.status # "waiting"
  BY <1>1, <1>2 DEF CanPrefill
<1>4. GroupInv(r)
  BY DEF Good
<1>5. GroupInv(c)
  BY <1>1, <1>3, <1>4 DEF GroupInv
<1> QED BY <1>1, <1>5 DEF Good, c

-----------------------------------------------------------------------------
\* Types, groups and queues: the part of the invariant that is inductive by
\* itself.

Core == TypeOK /\ GroupsInv /\ QueuesAgree

LEMMA CoreFacts ==
  ASSUME Core
  PROVE  /\ Limits /\ NumGroups \in Nat
         /\ \A g \in Groups : Good(group[g]) /\ (g \in plan.scheduled => group[g].slots = group[g].len)
         /\ group \in [Groups -> GroupType] /\ plan \in PlanType
         /\ waiting \in Seq(Groups) /\ plan.preempted \in Seq(Groups)
         /\ \A g \in Groups : /\ LiveSeqs(g) \in Nat /\ MaxNumRunningSeqs(g) \in Nat
                              /\ LiveSeqs(g) <= MaxNumRunningSeqs(g)
                              /\ LiveSeqs(g) = Cardinality(group[g].live)
<1>1. config \in Configs /\ group \in [Groups -> GroupType] /\ plan \in PlanType /\ waiting \in Seq(Groups)
  BY DEF Core, TypeOK
<1>2. Limits
  BY <1>1, LimitsHold
<1>3. plan.preempted \in Seq(Groups)
  BY <1>1 DEF PlanType
<1>4. \A g \in Groups : Good(group[g]) /\ (g \in plan.scheduled => group[g].slots = group[g].len)
  BY <1>1 DEF Core, GroupsInv, Good
<1>5. ASSUME NEW g \in Groups
      PROVE  /\ LiveSeqs(g) \in Nat /\ MaxNumRunningSeqs(g) \in Nat
             /\ LiveSeqs(g) <= MaxNumRunningSeqs(g)
             /\ LiveSeqs(g) = Cardinality(group[g].live)
  <2>1. Good(group[g])
    BY <1>4
  <2>2. /\ group[g].best_of \in Nat /\ Cardinality(group[g].live) \in Nat
        /\ Cardinality(group[g].live) <= group[g].best_of
    BY <1>2, <2>1, GoodFacts
  <2> QED BY <2>2 DEF LiveSeqs, MaxNumRunningSeqs
<1> QED BY <1>1, <1>2, <1>3, <1>4, <1>5

LEMMA PlanFields ==
  ASSUME NEW q \in PlanType
  PROVE  /\ q.prefills \in SUBSET Groups /\ q.scheduled \in SUBSET Groups
         /\ q.chunk \in [Groups -> Int] /\ q.tokens \in [Groups -> Int] /\ q.seqs \in [Groups -> Nat]
         /\ q.preempted \in Seq(Groups) /\ q.swapped_out \in SUBSET Groups
         /\ q.ignored \in SUBSET Groups /\ q.infeasible \in SUBSET Groups
BY DEF PlanType

LEMMA NewPlanFacts ==
  /\ NewPlan \in PlanType /\ NewPlan.scheduled = {} /\ NewPlan.preempted = <<>>
  /\ NewPlan.prefills = {} /\ NewPlan.ignored = {} /\ NewPlan.infeasible = {}
  /\ NewPlan.swapped_out = {} /\ ToSet(NewPlan.preempted) = {} /\ IsInjective(NewPlan.preempted)
  /\ \A g \in Groups : NewPlan.tokens[g] = 0 /\ NewPlan.seqs[g] = 0 /\ NewPlan.chunk[g] = 0
<1>1. <<>> \in Seq(Groups)
  OBVIOUS
<1>2. [g \in Groups |-> 0] \in [Groups -> Int] /\ [g \in Groups |-> 0] \in [Groups -> Nat]
  OBVIOUS
<1>3. NewPlan \in PlanType
  BY <1>1, <1>2 DEF NewPlan, PlanType
<1>4. NewPlan.preempted = <<>>
  BY DEF NewPlan
<1>5. ToSet(<<>>) = {} /\ IsInjective(<<>>)
  BY <1>1 DEF ToSet, IsInjective
<1> QED BY <1>3, <1>4, <1>5 DEF NewPlan

IsScheduled(q, g, c, t, s) ==
  /\ q \in PlanType /\ q.scheduled = plan.scheduled \cup {g}
  /\ q.chunk = [plan.chunk EXCEPT ![g] = c]
  /\ q.tokens = [plan.tokens EXCEPT ![g] = t]
  /\ q.seqs = [plan.seqs EXCEPT ![g] = s]
  /\ q.preempted = plan.preempted /\ q.swapped_out = plan.swapped_out
  /\ q.ignored = plan.ignored /\ q.infeasible = plan.infeasible /\ q.prefills = plan.prefills

LEMMA ScheduledFacts ==
  ASSUME plan \in PlanType, NEW g \in Groups, NEW c \in Int, NEW t \in Int, NEW s \in Nat
  PROVE  IsScheduled(Scheduled(g, c, t, s), g, c, t, s)
<1> DEFINE sc == plan.scheduled \cup {g}
           ch == [plan.chunk EXCEPT ![g] = c]
           tk == [plan.tokens EXCEPT ![g] = t]
           sq == [plan.seqs EXCEPT ![g] = s]
<1>1. sc \in SUBSET Groups /\ ch \in [Groups -> Int] /\ tk \in [Groups -> Int] /\ sq \in [Groups -> Nat]
  BY PlanFields
<1>2. Scheduled(g, c, t, s) = [plan EXCEPT !.scheduled = sc, !.chunk = ch, !.tokens = tk, !.seqs = sq]
  BY DEF Scheduled
<1> HIDE DEF sc, ch, tk, sq
<1>3. Scheduled(g, c, t, s) \in PlanType
  BY <1>1, <1>2 DEF PlanType
<1>4. /\ Scheduled(g, c, t, s).scheduled = sc /\ Scheduled(g, c, t, s).chunk = ch
      /\ Scheduled(g, c, t, s).tokens = tk /\ Scheduled(g, c, t, s).seqs = sq
      /\ Scheduled(g, c, t, s).preempted = plan.preempted
      /\ Scheduled(g, c, t, s).swapped_out = plan.swapped_out
      /\ Scheduled(g, c, t, s).ignored = plan.ignored
      /\ Scheduled(g, c, t, s).infeasible = plan.infeasible
      /\ Scheduled(g, c, t, s).prefills = plan.prefills
  BY <1>1, <1>2 DEF PlanType
<1> QED BY <1>3, <1>4 DEF sc, ch, tk, sq, IsScheduled

\* The budget.
LEMMA NumNewTokensFacts ==
  ASSUME Core, NEW g \in Groups, NEW chunking \in BOOLEAN
  PROVE  /\ RemainingTokens \in Int /\ Total(plan.tokens) \in Int /\ Total(plan.seqs) \in Nat
         /\ RemainingTokens = MaxBatchedTokens - Total(plan.tokens)
         /\ NumNewTokens(g, chunking) \in Int
         /\ LET each == IF group[g].decode THEN 1 ELSE group[g].len - group[g].computed IN
            /\ each \in Int
            /\ chunking /\ LiveSeqs(g) = 1 =>
                  /\ NumNewTokens(g, chunking) <= each /\ NumNewTokens(g, chunking) <= RemainingTokens
                  /\ NumNewTokens(g, chunking) \in {each, RemainingTokens}
            /\ ~chunking \/ LiveSeqs(g) # 1 => NumNewTokens(g, chunking) = LiveSeqs(g) * each
<1>1. /\ Limits /\ NumGroups \in Nat /\ group[g] \in GroupType /\ plan \in PlanType /\ LiveSeqs(g) \in Nat
  BY CoreFacts
<1>2. plan.tokens \in [Groups -> Int] /\ plan.seqs \in [Groups -> Nat]
  BY <1>1, PlanFields
<1>3. Total(plan.tokens) \in Int
  BY <1>1, <1>2, SumIsInt DEF Total
<1>4. Total(plan.seqs) \in Nat
  <2> DEFINE f == plan.seqs
  <2>1. \A i \in 1 .. NumGroups : f[i] \in Nat /\ f[i] <= f[i]
    BY <1>2
  <2> HIDE DEF f
  <2>2. SumUpTo(f, NumGroups) \in Nat
    BY <1>1, <2>1, SumOrder
  <2> QED BY <2>2 DEF Total, f
<1>5. RemainingTokens \in Int /\ RemainingTokens = MaxBatchedTokens - Total(plan.tokens)
  BY <1>1, <1>3 DEF RemainingTokens, Limits
<1> DEFINE each == IF group[g].decode THEN 1 ELSE group[g].len - group[g].computed
<1>6. each \in Int
  BY <1>1 DEF GroupType
<1>7. NumNewTokens(g, chunking) = IF chunking /\ LiveSeqs(g) = 1 THEN Min({each, RemainingTokens})
                                  ELSE LiveSeqs(g) * each
  BY DEF NumNewTokens
<1> HIDE DEF each
<1>8. CASE chunking /\ LiveSeqs(g) = 1
  <2>1. NumNewTokens(g, chunking) = Min({each, RemainingTokens})
    BY <1>7, <1>8
  <2>2. /\ Min({each, RemainingTokens}) \in Int
        /\ Min({each, RemainingTokens}) = each \/ Min({each, RemainingTokens}) = RemainingTokens
        /\ Min({each, RemainingTokens}) <= each /\ Min({each, RemainingTokens}) <= RemainingTokens
    BY <1>5, <1>6, MinOfTwo
  <2>3. /\ NumNewTokens(g, chunking) \in Int /\ NumNewTokens(g, chunking) \in {each, RemainingTokens}
        /\ NumNewTokens(g, chunking) <= each /\ NumNewTokens(g, chunking) <= RemainingTokens
    BY <2>1, <2>2
  <2> QED BY <1>3, <1>4, <1>5, <1>6, <1>8, <2>3 DEF each
<1>9. CASE ~(chunking /\ LiveSeqs(g) = 1)
  <2>1. LiveSeqs(g) * each \in Int
    BY <1>1, <1>6
  <2> QED BY <1>3, <1>4, <1>5, <1>6, <1>7, <1>9, <2>1 DEF each
<1> QED BY <1>8, <1>9

\* One group moves.
LEMMA OneGroup ==
  ASSUME Core, config' = config, NEW g \in Groups, NEW r, group' = [group EXCEPT ![g] = r], Good(r),
         plan'.scheduled \subseteq plan.scheduled \cup {g},
         g \in plan'.scheduled => r.slots = r.len
  PROVE  /\ group' \in [Groups -> GroupType] /\ (group \in [Groups -> GroupType])' /\ GroupsInv'
         /\ group'[g] = r /\ \A h \in Groups : h # g => group'[h] = group[h]
         /\ \A h \in Groups : group'[h] = IF h = g THEN r ELSE group[h]
<1>1. /\ group \in [Groups -> GroupType]
      /\ \A h \in Groups : Good(group[h]) /\ (h \in plan.scheduled => group[h].slots = group[h].len)
  BY CoreFacts
<1>2. MaxTokens' = MaxTokens /\ GroupType' = GroupType
  BY SameConfig
<1>3. r \in GroupType
  BY DEF Good
<1>4. \A h \in Groups : group'[h] = IF h = g THEN r ELSE group[h]
  BY <1>1
<1>5. group' \in [Groups -> GroupType]
  BY <1>1, <1>3
<1>6. ASSUME NEW h \in Groups
      PROVE  GroupInv(group'[h]) /\ (h \in plan'.scheduled => group'[h].slots = group'[h].len)
  BY <1>1, <1>4 DEF Good
<1>7. GroupsInv'
  BY <1>2, <1>6 DEF GroupsInv, GroupInv
<1> QED BY <1>2, <1>4, <1>5, <1>7

\* No group moves.
LEMMA NoGroup ==
  ASSUME Core, config' = config, group' = group, plan'.scheduled \subseteq plan.scheduled
  PROVE  (group \in [Groups -> GroupType])' /\ GroupsInv'
<1>1. /\ group \in [Groups -> GroupType]
      /\ \A h \in Groups : Good(group[h]) /\ (h \in plan.scheduled => group[h].slots = group[h].len)
  BY CoreFacts
<1>2. MaxTokens' = MaxTokens /\ GroupType' = GroupType
  BY SameConfig
<1>3. GroupsInv'
  BY <1>1, <1>2 DEF GroupsInv, GroupInv, Good
<1> QED BY <1>1, <1>2, <1>3

\* Where the groups are.
LEMMA Places ==
  ASSUME Core
  PROVE  /\ ToSet(waiting) \subseteq Groups /\ Preempted \subseteq Groups /\ OnGpu \subseteq Groups
         /\ running \subseteq Groups /\ swapped \subseteq Groups /\ plan.swapped_out \subseteq Groups
         /\ todo \subseteq Groups
         /\ (ToSet(waiting) \cup Preempted) \cap OnGpu = {}
         /\ (ToSet(waiting) \cup Preempted) \cap (swapped \cup plan.swapped_out) = {}
         /\ OnGpu \cap (swapped \cup plan.swapped_out) = {}
         /\ plan.scheduled \subseteq OnGpu
         /\ \A g \in Groups :
               /\ group[g].status = "waiting" <=> g \in ToSet(waiting) \cup Preempted
               /\ group[g].status = "running" <=> g \in OnGpu
               /\ group[g].status = "swapped" <=> g \in swapped \cup plan.swapped_out
<1>1. /\ waiting \in Seq(Groups) /\ plan.preempted \in Seq(Groups) /\ plan \in PlanType
  BY CoreFacts
<1>2. ToSet(waiting) \subseteq Groups /\ Preempted \subseteq Groups
  BY <1>1, MembersFacts DEF Preempted
<1>3. plan.scheduled \subseteq Groups /\ plan.swapped_out \subseteq Groups
  BY <1>1, PlanFields
<1>4. running \subseteq Groups /\ swapped \subseteq Groups /\ todo \subseteq Groups
  BY DEF Core, TypeOK
<1>5. OnGpu \subseteq Groups
  BY <1>3, <1>4 DEF OnGpu
<1>6. \A g \in Groups :
         /\ group[g].status = "waiting" <=> g \in ToSet(waiting) \cup Preempted
         /\ group[g].status = "running" <=> g \in OnGpu
         /\ group[g].status = "swapped" <=> g \in swapped \cup plan.swapped_out
  BY DEF Core, QueuesAgree
<1>7. "waiting" # "running" /\ "waiting" # "swapped" /\ "running" # "swapped"
  OBVIOUS
<1>8. plan.scheduled \subseteq OnGpu
  BY DEF Core, QueuesAgree, OnGpu
<1> QED BY <1>2, <1>3, <1>4, <1>5, <1>6, <1>7, <1>8, Zenon

\* The first of the waiting queue leaves it.
LEMMA HeadLeaves ==
  ASSUME Core, waiting # <<>>, phase = "prefill", waiting' = Tail(waiting)
  PROVE  LET g == Head(waiting) IN
         /\ g \in Groups /\ g \in ToSet(waiting) /\ group[g].status = "waiting" /\ group[g].live # {}
         /\ g \notin Preempted /\ g \notin OnGpu /\ g \notin plan.scheduled
         /\ g \notin swapped /\ g \notin plan.swapped_out /\ g <= arrived
         /\ waiting' \in Seq(Groups) /\ IsInjective(waiting') /\ ToSet(waiting') = ToSet(waiting) \ {g}
<1> DEFINE g == Head(waiting)
<1>1. waiting \in Seq(Groups) /\ IsInjective(waiting)
  BY CoreFacts DEF Core, QueuesAgree
<1>2. g \in ToSet(waiting) /\ ToSet(waiting) \subseteq Groups
  BY <1>1, MembersFacts
<1>3. waiting' \in Seq(Groups) /\ IsInjective(waiting') /\ ToSet(waiting') = ToSet(waiting) \ {g}
  BY <1>1, TailFacts
<1>4. ToSet(waiting) \cap Preempted = {}
  BY DEF Core, QueuesAgree
<1> HIDE DEF g
<1>5. group[g].status = "waiting"
  BY <1>2, Places
<1>6. group[g].live # {}
  BY <1>2, <1>5, CoreFacts, GoodFacts
<1>7. ~(g > arrived)
  BY <1>2, <1>5 DEF Core, QueuesAgree
<1>8. g \in Nat /\ arrived \in Nat
  BY <1>2 DEF Core, TypeOK
<1> QED BY <1>2, <1>3, <1>4, <1>5, <1>6, <1>7, <1>8, Places DEF g

-----------------------------------------------------------------------------
\* What the actions do, with what their proofs need of the group that moves.

\* Group g, which was fine, becomes r.
Moves(g, r) ==
  /\ g \in Groups /\ Good(group[g]) /\ Good(r)
  /\ group' = [group EXCEPT ![g] = r]
  /\ \A h \in Groups : group'[h] = IF h = g THEN r ELSE group[h]
  /\ (group \in [Groups -> GroupType])' /\ GroupsInv'

\* The plan but for what a lemma says of it.
KeepsLists ==
  /\ plan'.preempted = plan.preempted /\ plan'.swapped_out = plan.swapped_out
  /\ Preempted' = Preempted /\ (Preempts' <=> Preempts)
KeepsCounts ==
  /\ plan'.chunk = plan.chunk /\ plan'.tokens = plan.tokens /\ plan'.seqs = plan.seqs
  /\ plan'.scheduled = plan.scheduled

\* Group g leaves the waiting queue.
LeavesWaiting(g) ==
  /\ phase = "prefill" /\ error = "none" /\ waiting # <<>> /\ g = Head(waiting) /\ waiting' = Tail(waiting)
  /\ g \in Groups /\ g \in ToSet(waiting) /\ group[g].status = "waiting" /\ group[g].live # {}
  /\ g \notin Preempted /\ g \notin OnGpu /\ g \notin plan.scheduled
  /\ g \notin swapped /\ g \notin plan.swapped_out /\ g <= arrived
  /\ waiting' \in Seq(Groups) /\ IsInjective(waiting') /\ ToSet(waiting') = ToSet(waiting) \ {g}
  /\ UNCHANGED <<arrived, running, swapped, phase, todo, lost, reported, error>>

Ignores(g) ==
  /\ LeavesWaiting(g) /\ Moves(g, Ended) /\ Ended.status = "finished"
  /\ NumNewTokens(g, Chunked) > PromptLimit \/ NeverFits(g)
  /\ plan' \in PlanType /\ KeepsLists /\ KeepsCounts /\ plan'.prefills = plan.prefills
  /\ plan'.infeasible = plan.infeasible /\ plan'.ignored = plan.ignored \cup {g}
  /\ OnGpu' = OnGpu

LEMMA IgnoreEffect ==
  ASSUME Core, IgnorePrompt, config' = config
  PROVE  \E g : Ignores(g)
<1> DEFINE g == Head(waiting)
<1>1. /\ phase = "prefill" /\ error = "none" /\ waiting # <<>> /\ waiting' = Tail(waiting)
      /\ group' = [group EXCEPT ![g] = Ended]
      /\ plan' = [plan EXCEPT !.ignored = plan.ignored \cup {g}]
      /\ NumNewTokens(g, Chunked) > PromptLimit \/ NeverFits(g)
      /\ UNCHANGED <<arrived, running, swapped, phase, todo, lost, reported, error>>
  BY DEF IgnorePrompt, At
<1>2. LeavesWaiting(g)
  BY <1>1, HeadLeaves DEF LeavesWaiting
<1>3. g \in Groups
  BY <1>2 DEF LeavesWaiting
<1> HIDE DEF g
<1>4. /\ Good(Ended) /\ Ended.status = "finished" /\ Good(group[g])
  BY <1>3, CoreFacts, EndedGood
<1>5. /\ plan' \in PlanType /\ plan'.preempted = plan.preempted /\ plan'.swapped_out = plan.swapped_out
      /\ KeepsCounts /\ plan'.prefills = plan.prefills
      /\ plan'.infeasible = plan.infeasible /\ plan'.ignored = plan.ignored \cup {g}
  <2>1. plan \in PlanType /\ plan.ignored \cup {g} \in SUBSET Groups
    BY <1>3, CoreFacts, PlanFields
  <2> DEFINE i == plan.ignored \cup {g}
  <2>2. plan' = [plan EXCEPT !.ignored = i] /\ i \in SUBSET Groups
    BY <1>1, <2>1
  <2> HIDE DEF i
  <2>3. /\ plan' \in PlanType /\ plan'.preempted = plan.preempted /\ plan'.swapped_out = plan.swapped_out
        /\ KeepsCounts /\ plan'.prefills = plan.prefills
        /\ plan'.infeasible = plan.infeasible /\ plan'.ignored = i
    BY <2>1, <2>2 DEF PlanType, KeepsCounts
  <2> QED BY <2>3 DEF i
<1>6. Moves(g, Ended)
  <2>1. g \notin plan'.scheduled /\ plan'.scheduled = plan.scheduled
    BY <1>2, <1>5 DEF LeavesWaiting, KeepsCounts
  <2> QED BY <1>1, <1>3, <1>4, <2>1, OneGroup DEF Moves
<1>7. KeepsLists /\ OnGpu' = OnGpu
  BY <1>1, <1>5 DEF KeepsLists, KeepsCounts, Preempted, OnGpu, Preempts
<1>8. Ignores(g)
  BY <1>1, <1>2, <1>4, <1>5, <1>6, <1>7 DEF Ignores
<1> QED BY <1>8

\* Group g is scheduled, for new tokens and chunk of them computed.
Schedules(g, chunk, new, seqs) ==
  /\ chunk \in Int /\ new \in Int /\ seqs \in Nat
  /\ plan' \in PlanType /\ KeepsLists
  /\ plan'.scheduled = plan.scheduled \cup {g}
  /\ plan'.chunk = [plan.chunk EXCEPT ![g] = chunk]
  /\ plan'.tokens = [plan.tokens EXCEPT ![g] = new]
  /\ plan'.seqs = [plan.seqs EXCEPT ![g] = seqs]
  /\ plan'.ignored = plan.ignored /\ plan'.infeasible = plan.infeasible

LEMMA ScheduledEffect ==
  ASSUME Core, NEW g \in Groups, NEW c \in Int, NEW new \in Int, NEW seqs \in Nat,
         plan' = Scheduled(g, c, new, seqs)
         \/ plan' = [Scheduled(g, c, new, seqs) EXCEPT !.prefills = plan.prefills \cup {g}]
  PROVE  /\ Schedules(g, c, new, seqs)
         /\ plan' = Scheduled(g, c, new, seqs) => plan'.prefills = plan.prefills
         /\ plan' # Scheduled(g, c, new, seqs) => plan'.prefills = plan.prefills \cup {g}
<1> DEFINE q == Scheduled(g, c, new, seqs)
           pre == plan.prefills \cup {g}
<1>1. plan \in PlanType
  BY CoreFacts
<1>2. IsScheduled(q, g, c, new, seqs)
  BY <1>1, ScheduledFacts
<1>3. pre \in SUBSET Groups
  BY <1>1, PlanFields
<1>4. plan' = q \/ plan' = [q EXCEPT !.prefills = pre]
  OBVIOUS
<1> HIDE DEF q, pre
<1>5. /\ plan' \in PlanType /\ plan'.preempted = plan.preempted /\ plan'.swapped_out = plan.swapped_out
      /\ plan'.scheduled = plan.scheduled \cup {g}
      /\ plan'.chunk = [plan.chunk EXCEPT ![g] = c]
      /\ plan'.tokens = [plan.tokens EXCEPT ![g] = new]
      /\ plan'.seqs = [plan.seqs EXCEPT ![g] = seqs]
      /\ plan'.ignored = plan.ignored /\ plan'.infeasible = plan.infeasible
      /\ plan' = q => plan'.prefills = plan.prefills
      /\ plan' # q => plan'.prefills = pre
  BY <1>2, <1>3, <1>4 DEF IsScheduled, PlanType
<1>6. KeepsLists
  BY <1>5 DEF KeepsLists, Preempted, Preempts
<1> QED BY <1>5, <1>6 DEF Schedules, q, pre

Prefills(g, new) ==
  /\ LeavesWaiting(g) /\ Moves(g, Allocated(group[g]))
  /\ Allocated(group[g]).slots = Allocated(group[g]).len /\ Allocated(group[g]).status = "running"
  /\ new = NumNewTokens(g, Chunked) /\ new <= PromptLimit /\ ~NeverFits(g)
  /\ CanAllocate(g) /\ CanSchedule(new, MaxNumRunningSeqs(g))
  /\ Schedules(g, new, new, MaxNumRunningSeqs(g)) /\ plan'.prefills = plan.prefills \cup {g}
  /\ OnGpu' = OnGpu \cup {g}

LEMMA PrefillEffect ==
  ASSUME Core, Prefill, config' = config
  PROVE  \E g, new : Prefills(g, new)
<1> DEFINE g == Head(waiting)
           new == NumNewTokens(g, Chunked)
           seqs == MaxNumRunningSeqs(g)
           q == Scheduled(g, new, new, seqs)
<1>1. /\ phase = "prefill" /\ error = "none" /\ waiting # <<>> /\ waiting' = Tail(waiting)
      /\ plan' = [q EXCEPT !.prefills = q.prefills \cup {g}]
      /\ new <= PromptLimit /\ ~NeverFits(g) /\ CanAllocate(g) /\ CanSchedule(new, seqs)
      /\ UNCHANGED <<arrived, running, swapped, phase, todo, lost, reported, error>>
  BY DEF Prefill, At
<1>2. LeavesWaiting(g)
  BY <1>1, HeadLeaves DEF LeavesWaiting
<1>3. g \in Groups
  BY <1>2 DEF LeavesWaiting
<1>4. group' = [group EXCEPT ![g] = Allocated(group[g])]
  <2>1. group' = [group EXCEPT ![g] = Allocated(@)]
    BY DEF Prefill
  <2> QED BY <1>3, <2>1, CoreFacts
<1>5. new = NumNewTokens(g, Chunked) /\ seqs = MaxNumRunningSeqs(g)
  OBVIOUS
<1> HIDE DEF g, new, seqs
<1>6. /\ Limits /\ Good(group[g]) /\ seqs \in Nat /\ plan \in PlanType
  BY <1>3, <1>5, CoreFacts
<1>7. /\ Good(Allocated(group[g])) /\ Allocated(group[g]).slots = Allocated(group[g]).len
      /\ Allocated(group[g]).status = "running"
  <2>1. group[g] \in GroupType /\ group[g].status = "waiting"
    BY <1>2, <1>6 DEF Good, LeavesWaiting
  <2>2. Allocated(group[g]).status = "running"
    BY <2>1 DEF Allocated, GroupType
  <2> QED BY <1>6, <2>1, <2>2, AllocatedGood
<1>8. new \in Int
  BY <1>3, <1>5, <1>6, NumNewTokensFacts DEF Limits
<1>9. IsScheduled(q, g, new, new, seqs)
  BY <1>3, <1>6, <1>8, ScheduledFacts
<1>10. plan' = [q EXCEPT !.prefills = plan.prefills \cup {g}]
  BY <1>1, <1>9 DEF IsScheduled
<1>11. Schedules(g, new, new, seqs) /\ plan'.prefills = plan.prefills \cup {g}
  <2>1. Schedules(g, new, new, seqs) /\ (plan' # q => plan'.prefills = plan.prefills \cup {g})
    BY <1>3, <1>6, <1>8, <1>10, ScheduledEffect
  <2>2. plan'.prefills = plan.prefills \cup {g}
    BY <1>9, <1>10 DEF IsScheduled, PlanType
  <2> QED BY <2>1, <2>2
<1> HIDE DEF q
<1>12. plan'.scheduled = plan.scheduled \cup {g}
  BY <1>11 DEF Schedules
<1>13. Moves(g, Allocated(group[g]))
  BY <1>3, <1>4, <1>6, <1>7, <1>12, OneGroup DEF Moves
<1>14. OnGpu' = OnGpu \cup {g}
  BY <1>1, <1>2, <1>11, <1>12 DEF OnGpu, Schedules, KeepsLists, LeavesWaiting
<1>15. Prefills(g, new)
  BY <1>1, <1>2, <1>5, <1>7, <1>11, <1>13, <1>14 DEF Prefills
<1> QED BY <1>15

\* A group on the GPU loses its place to g, the first of todo.
Victimises(g, v) ==
  /\ phase = "running" /\ error = "none"
  /\ todo = OnGpu \ plan.scheduled /\ todo # {} /\ g = Min(todo) /\ v = Max(todo)
  /\ g \in Groups /\ v \in Groups /\ g \in todo /\ v \in todo /\ \A h \in todo : g <= h /\ h <= v
  /\ group[v].status = "running" /\ group[v].live # {} /\ v \in OnGpu /\ g \in OnGpu
  /\ v \notin plan.scheduled /\ v \notin Preempted /\ v \notin plan.swapped_out
  /\ v \notin ToSet(waiting) /\ v \notin swapped
  /\ NumNewTokens(g, Chunked) # 0 /\ ~CanAppendSlots(g)
  /\ UNCHANGED <<arrived, queues, phase, reported>>

GivesBack(g) ==
  /\ plan' \in PlanType /\ plan'.scheduled = plan.scheduled /\ plan'.chunk = plan.chunk
  /\ plan'.tokens = [plan.tokens EXCEPT ![g] = 0] /\ plan'.seqs = [plan.seqs EXCEPT ![g] = 0]
  /\ plan'.prefills = plan.prefills /\ plan'.ignored = plan.ignored
  /\ plan'.infeasible = plan.infeasible

Recomputes(g, v) ==
  /\ Victimises(g, v) /\ GivesBack(g) /\ todo' = todo \ {v} /\ error' = error
  /\ MaxNumRunningSeqs(v) = 1 /\ Moves(v, Recomputed(group[v]))
  /\ Recomputed(group[v]).status = "waiting"
  /\ lost' = [lost EXCEPT !.gpu = @ + Leak(group[v])]
  /\ plan'.preempted = Append(plan.preempted, v) /\ plan'.swapped_out = plan.swapped_out
  /\ IsInjective(plan'.preempted) /\ Preempted' = Preempted \cup {v} /\ Preempts'
  /\ OnGpu' = OnGpu \ {v}

SwapsOut(g, v) ==
  /\ Victimises(g, v) /\ GivesBack(g) /\ todo' = todo \ {v} /\ UNCHANGED <<error, lost>>
  /\ MaxNumRunningSeqs(v) # 1 /\ Blocks(v) <= FreeCpu
  /\ Moves(v, [group[v] EXCEPT !.status = "swapped"])
  /\ [group[v] EXCEPT !.status = "swapped"].status = "swapped"
  /\ plan'.preempted = plan.preempted /\ plan'.swapped_out = plan.swapped_out \cup {v}
  /\ Preempted' = Preempted /\ Preempts' /\ OnGpu' = OnGpu \ {v}

RunsOut(g, v) ==
  /\ Victimises(g, v) /\ MaxNumRunningSeqs(v) # 1 /\ ~(Blocks(v) <= FreeCpu)
  /\ error' = "no swap space" /\ UNCHANGED <<todo, group, lost, plan>>

LEMMA TodoFacts ==
  ASSUME Core, todo # {}
  PROVE  /\ Min(todo) \in todo /\ Max(todo) \in todo /\ todo \in SUBSET Groups
         /\ \A h \in todo : Min(todo) <= h /\ h <= Max(todo)
<1>1. todo \in SUBSET (1 .. NumGroups) /\ todo \in SUBSET Nat /\ NumGroups \in Nat
  BY DEF Core, TypeOK
<1> QED BY <1>1, MinFacts, MaxFacts

LEMMA PreemptEffect ==
  ASSUME Core, Preempt, config' = config
  PROVE  \E g, v : Recomputes(g, v) \/ SwapsOut(g, v) \/ RunsOut(g, v)
<1> DEFINE g == Min(todo)
           v == Max(todo)
           counted == [plan EXCEPT !.tokens = [plan.tokens EXCEPT ![g] = 0],
                                   !.seqs = [plan.seqs EXCEPT ![g] = 0]]
           rec == Recomputed(group[v])
           out == [group[v] EXCEPT !.status = "swapped"]
<1>1. /\ phase = "running" /\ error = "none" /\ ~RunningStops /\ ~CanAppendSlots(g)
      /\ UNCHANGED <<arrived, queues, phase, reported>>
  BY DEF Preempt, At
<1>2. todo # {} /\ NumNewTokens(g, Chunked) # 0
  BY <1>1 DEF RunningStops
<1>3. /\ g \in todo /\ v \in todo /\ todo \in SUBSET Groups
      /\ \A h \in todo : g <= h /\ h <= v
  BY <1>2, TodoFacts
<1>4. todo = OnGpu \ plan.scheduled
  BY <1>1 DEF Core, QueuesAgree
<1>5. \/ /\ MaxNumRunningSeqs(v) = 1
         /\ todo' = todo \ {v}
         /\ group' = [group EXCEPT ![v] = Recomputed(@)]
         /\ lost' = [lost EXCEPT !.gpu = @ + Leak(group[v])]
         /\ plan' = [counted EXCEPT !.preempted = Append(counted.preempted, v)]
         /\ UNCHANGED error
      \/ /\ MaxNumRunningSeqs(v) # 1 /\ Blocks(v) <= FreeCpu
         /\ todo' = todo \ {v}
         /\ group' = [group EXCEPT ![v] = [@ EXCEPT !.status = "swapped"]]
         /\ plan' = [counted EXCEPT !.swapped_out = counted.swapped_out \cup {v}]
         /\ UNCHANGED <<lost, error>>
      \/ /\ MaxNumRunningSeqs(v) # 1 /\ ~(Blocks(v) <= FreeCpu)
         /\ error' = "no swap space"
         /\ UNCHANGED <<todo, group, lost, plan>>
  BY DEF Preempt, Victim, Requeue
<1>6. g = Min(todo) /\ v = Max(todo)
  OBVIOUS
<1>7. plan \in PlanType /\ group \in [Groups -> GroupType] /\ Limits
  BY CoreFacts
<1>8. /\ counted \in PlanType
      /\ counted.tokens = [plan.tokens EXCEPT ![g] = 0] /\ counted.seqs = [plan.seqs EXCEPT ![g] = 0]
      /\ counted.scheduled = plan.scheduled /\ counted.chunk = plan.chunk
      /\ counted.prefills = plan.prefills /\ counted.ignored = plan.ignored
      /\ counted.infeasible = plan.infeasible /\ counted.preempted = plan.preempted
      /\ counted.swapped_out = plan.swapped_out
  <2> DEFINE tk == [plan.tokens EXCEPT ![g] = 0]
             sq == [plan.seqs EXCEPT ![g] = 0]
  <2>1. tk \in [Groups -> Int] /\ sq \in [Groups -> Nat]
    <3>1. plan.tokens \in [Groups -> Int] /\ plan.seqs \in [Groups -> Nat]
      BY <1>7, PlanFields
    <3> DEFINE zero == 0
    <3>2. zero \in Int /\ zero \in Nat
      OBVIOUS
    <3> HIDE DEF zero
    <3>3. [plan.tokens EXCEPT ![g] = zero] \in [Groups -> Int] /\ [plan.seqs EXCEPT ![g] = zero] \in [Groups -> Nat]
      BY <3>1, <3>2
    <3> QED BY <3>3 DEF zero
  <2>2. counted = [plan EXCEPT !.tokens = tk, !.seqs = sq]
    OBVIOUS
  <2> HIDE DEF tk, sq, counted
  <2>3. /\ counted \in PlanType /\ counted.tokens = tk /\ counted.seqs = sq
        /\ counted.scheduled = plan.scheduled /\ counted.chunk = plan.chunk
        /\ counted.prefills = plan.prefills /\ counted.ignored = plan.ignored
        /\ counted.infeasible = plan.infeasible /\ counted.preempted = plan.preempted
        /\ counted.swapped_out = plan.swapped_out
    BY <1>7, <2>1, <2>2 DEF PlanType
  <2> QED BY <2>3 DEF tk, sq
<1> HIDE DEF g, v, counted
<1>9. Victimises(g, v)
  <2>1. v \in OnGpu /\ v \notin plan.scheduled /\ v \in Groups /\ g \in Groups
    BY <1>3, <1>4
  <2>2. group[v].status = "running"
    BY <2>1, Places
  <2>3. group[v].live # {}
    BY <2>1, <2>2, CoreFacts, GoodFacts
  <2>4. v \notin Preempted /\ v \notin plan.swapped_out /\ v \notin ToSet(waiting) /\ v \notin swapped
    BY <2>1, Places
  <2> QED BY <1>1, <1>2, <1>3, <1>4, <1>6, <2>1, <2>2, <2>3, <2>4 DEF Victimises
<1>10. v \in Groups /\ group[v].status = "running" /\ Good(group[v]) /\ group[v] \in GroupType
  BY <1>9, CoreFacts DEF Victimises, Good
<1>11. /\ Good(rec) /\ rec.status = "waiting" /\ Good(out) /\ out.status = "swapped"
  <2>1. rec.status = "waiting" /\ out.status = "swapped"
    BY <1>10 DEF Recomputed, GroupType
  <2> QED BY <1>7, <1>10, <2>1, RecomputedGood, SwappedGood
<1>12. CASE /\ MaxNumRunningSeqs(v) = 1 /\ todo' = todo \ {v}
            /\ group' = [group EXCEPT ![v] = Recomputed(@)]
            /\ lost' = [lost EXCEPT !.gpu = @ + Leak(group[v])]
            /\ plan' = [counted EXCEPT !.preempted = Append(counted.preempted, v)]
            /\ UNCHANGED error
  <2> DEFINE pre == Append(counted.preempted, v)
  <2>1. plan.preempted \in Seq(Groups) /\ IsInjective(plan.preempted) /\ v \notin ToSet(plan.preempted)
    BY <1>9, CoreFacts DEF Victimises, Preempted, Core, QueuesAgree
  <2>2. pre \in Seq(Groups) /\ ToSet(pre) = ToSet(plan.preempted) \cup {v} /\ IsInjective(pre)
    BY <1>8, <1>10, <2>1, SetOfAppend
  <2>3. plan' = [counted EXCEPT !.preempted = pre] /\ pre = Append(plan.preempted, v)
    BY <1>8, <1>12
  <2>4. pre # <<>>
    <3>1. v \in Groups /\ plan.preempted \in Seq(Groups)
      BY <1>10, <2>1
    <3>2. Append(plan.preempted, v) # <<>>
      BY <3>1, AppendFacts, SMTT(60)
    <3> QED BY <2>3, <3>2
  <2> HIDE DEF pre
  <2>5. /\ plan' \in PlanType /\ plan'.tokens = counted.tokens /\ plan'.seqs = counted.seqs
        /\ plan'.scheduled = counted.scheduled /\ plan'.chunk = counted.chunk
        /\ plan'.prefills = counted.prefills /\ plan'.ignored = counted.ignored
        /\ plan'.infeasible = counted.infeasible /\ plan'.preempted = pre
        /\ plan'.swapped_out = counted.swapped_out
    BY <1>8, <2>2, <2>3 DEF PlanType
  <2>6. GivesBack(g)
    BY <1>8, <2>5 DEF GivesBack
  <2>7. group' = [group EXCEPT ![v] = rec]
    BY <1>7, <1>10, <1>12
  <2>8. Moves(v, rec)
    <3>1. plan'.scheduled = plan.scheduled /\ v \notin plan.scheduled
      BY <1>9, <2>6 DEF GivesBack, Victimises
    <3> HIDE DEF rec
    <3> QED BY <1>10, <1>11, <2>7, <3>1, OneGroup DEF Moves
  <2>9. Preempted' = Preempted \cup {v} /\ Preempts'
    BY <2>2, <2>4, <2>5 DEF Preempted, Preempts
  <2>10. OnGpu' = OnGpu \ {v}
    BY <1>8, <1>9, <2>5, <2>9 DEF OnGpu, Victimises, queues
  <2>11. Recomputes(g, v)
    BY <1>8, <1>9, <1>11, <1>12, <2>2, <2>3, <2>5, <2>6, <2>8, <2>9, <2>10 DEF Recomputes
  <2> QED BY <2>11
<1>13. CASE /\ MaxNumRunningSeqs(v) # 1 /\ Blocks(v) <= FreeCpu
            /\ todo' = todo \ {v}
            /\ group' = [group EXCEPT ![v] = [@ EXCEPT !.status = "swapped"]]
            /\ plan' = [counted EXCEPT !.swapped_out = counted.swapped_out \cup {v}]
            /\ UNCHANGED <<lost, error>>
  <2> DEFINE so == counted.swapped_out \cup {v}
  <2>1. so \in SUBSET Groups /\ so = plan.swapped_out \cup {v} /\ so # {}
    BY <1>7, <1>8, <1>10, PlanFields
  <2>2. plan' = [counted EXCEPT !.swapped_out = so]
    BY <1>13
  <2> HIDE DEF so
  <2>3. /\ plan' \in PlanType /\ plan'.tokens = counted.tokens /\ plan'.seqs = counted.seqs
        /\ plan'.scheduled = counted.scheduled /\ plan'.chunk = counted.chunk
        /\ plan'.prefills = counted.prefills /\ plan'.ignored = counted.ignored
        /\ plan'.infeasible = counted.infeasible /\ plan'.preempted = counted.preempted
        /\ plan'.swapped_out = so
    BY <1>8, <2>1, <2>2 DEF PlanType
  <2>4. GivesBack(g)
    BY <1>8, <2>3 DEF GivesBack
  <2>5. group' = [group EXCEPT ![v] = out]
    BY <1>7, <1>10, <1>13
  <2>6. Moves(v, out)
    <3>1. plan'.scheduled = plan.scheduled /\ v \notin plan.scheduled
      BY <1>9, <2>4 DEF GivesBack, Victimises
    <3> HIDE DEF out
    <3> QED BY <1>10, <1>11, <2>5, <3>1, OneGroup DEF Moves
  <2>7. Preempted' = Preempted /\ Preempts'
    BY <1>8, <2>1, <2>3 DEF Preempted, Preempts
  <2>8. OnGpu' = OnGpu \ {v}
    BY <1>8, <1>9, <2>1, <2>3, <2>7 DEF OnGpu, Victimises, queues
  <2>9. SwapsOut(g, v)
    BY <1>8, <1>9, <1>11, <1>13, <2>1, <2>3, <2>4, <2>6, <2>7, <2>8 DEF SwapsOut
  <2> QED BY <2>9
<1>14. CASE /\ MaxNumRunningSeqs(v) # 1 /\ ~(Blocks(v) <= FreeCpu)
            /\ error' = "no swap space" /\ UNCHANGED <<todo, group, lost, plan>>
  <2>1. RunsOut(g, v)
    BY <1>9, <1>14 DEF RunsOut
  <2> QED BY <2>1
<1> QED BY <1>5, <1>12, <1>13, <1>14

\* The first of todo, g, gets its slots.
Appends(g, new) ==
  /\ phase = "running" /\ error = "none"
  /\ todo = OnGpu \ plan.scheduled /\ g = Min(todo) /\ g \in todo /\ \A h \in todo : g <= h
  /\ g \in Groups /\ g \in OnGpu /\ g \notin plan.scheduled /\ g \notin Preempted
  /\ g \notin plan.swapped_out /\ group[g].status = "running" /\ group[g].live # {}
  /\ Moves(g, Appended(group[g]))
  /\ Appended(group[g]).slots = Appended(group[g]).len /\ Appended(group[g]).status = "running"
  /\ new = NumNewTokens(g, Chunked) /\ new # 0 /\ CanAppendSlots(g)
  /\ Schedules(g, IF IsPrefill(g) THEN new ELSE 1, new,
                  IF Chunked THEN MaxNumRunningSeqs(g) ELSE plan.seqs[g])
  /\ plan'.prefills = plan.prefills /\ OnGpu' = OnGpu /\ todo' = todo \ {g}
  /\ UNCHANGED <<arrived, queues, phase, lost, reported, error>>

LEMMA AppendEffect ==
  ASSUME Core, AppendSlots, config' = config
  PROVE  \E g, new : Appends(g, new)
<1> DEFINE g == Min(todo)
           new == NumNewTokens(g, Chunked)
           chunk == IF IsPrefill(g) THEN new ELSE 1
           seqs == IF Chunked THEN MaxNumRunningSeqs(g) ELSE plan.seqs[g]
           next == Appended(group[g])
<1>1. /\ phase = "running" /\ error = "none" /\ ~RunningStops /\ CanAppendSlots(g)
      /\ todo' = todo \ {g} /\ group' = [group EXCEPT ![g] = Appended(@)]
      /\ plan' = Scheduled(g, chunk, new, seqs)
      /\ UNCHANGED <<arrived, queues, phase, lost, reported, error>>
  BY DEF AppendSlots, At
<1>2. todo # {} /\ new # 0
  BY <1>1 DEF RunningStops
<1>3. g \in todo /\ todo \in SUBSET Groups /\ \A h \in todo : g <= h
  BY <1>2, TodoFacts
<1>4. todo = OnGpu \ plan.scheduled
  BY <1>1 DEF Core, QueuesAgree
<1>5. g = Min(todo) /\ new = NumNewTokens(g, Chunked)
  OBVIOUS
<1> HIDE DEF g, new
<1>6. g \in Groups /\ g \in OnGpu /\ g \notin plan.scheduled
  BY <1>3, <1>4
<1>7. /\ group[g].status = "running" /\ g \notin Preempted /\ g \notin plan.swapped_out
      /\ g \notin ToSet(waiting)
  BY <1>6, Places
<1>8. /\ Limits /\ Good(group[g]) /\ group[g] \in GroupType /\ plan \in PlanType
      /\ MaxNumRunningSeqs(g) \in Nat /\ group \in [Groups -> GroupType]
  BY <1>6, CoreFacts DEF Good
<1>9. group[g].live # {}
  BY <1>7, <1>8, GoodFacts
<1>10. Good(next) /\ next.slots = next.len /\ next.status = "running"
  <2>1. next.status = "running"
    BY <1>8 DEF Appended, GroupType
  <2> QED BY <1>7, <1>8, <2>1, AppendedGood
<1>11. new \in Int
  BY <1>5, <1>6, <1>8, NumNewTokensFacts DEF Limits
<1>12. chunk \in Int /\ seqs \in Nat
  BY <1>6, <1>8, <1>11, PlanFields
<1> HIDE DEF chunk, seqs
<1>13. Schedules(g, chunk, new, seqs) /\ plan'.prefills = plan.prefills
  BY <1>1, <1>6, <1>11, <1>12, ScheduledEffect
<1>14. group' = [group EXCEPT ![g] = next]
  BY <1>1, <1>6, <1>8
<1> HIDE DEF next
<1>15. Moves(g, next)
  <2>1. plan'.scheduled = plan.scheduled \cup {g}
    BY <1>13 DEF Schedules
  <2> QED BY <1>6, <1>8, <1>10, <1>14, <2>1, OneGroup DEF Moves
<1>16. OnGpu' = OnGpu
  BY <1>1, <1>6, <1>13 DEF OnGpu, Schedules, KeepsLists, queues
<1>17. Appends(g, new)
  BY <1>1, <1>2, <1>3, <1>4, <1>5, <1>6, <1>7, <1>9, <1>10, <1>13, <1>15, <1>16
  DEF Appends, chunk, seqs, next
<1> QED BY <1>17

\* The first of todo is on the CPU.
OnCpu(g) ==
  /\ phase = "swapped" /\ error = "none" /\ ~Preempts /\ plan.swapped_out = {}
  /\ todo \subseteq swapped /\ g = Min(todo) /\ g \in todo /\ g \in swapped /\ g \in Groups
  /\ group[g].status = "swapped" /\ group[g].live # {}
  /\ g \notin OnGpu /\ g \notin plan.scheduled /\ g \notin Preempted /\ g \notin ToSet(waiting)
  /\ todo' = todo \ {g} /\ swapped' = swapped \ {g}
  /\ UNCHANGED <<arrived, waiting, running, phase, reported, error>>

LEMMA OnCpuFacts ==
  ASSUME Core, At("swapped"), todo # {}, NEW g, g = Min(todo), todo' = todo \ {g}, swapped' = swapped \ {g},
         UNCHANGED <<arrived, waiting, running, phase, reported, error>>
  PROVE  OnCpu(g)
<1>1. phase = "swapped" /\ error = "none"
  BY DEF At
<1>2. todo \subseteq swapped /\ ~Preempts
  BY <1>1 DEF Core, QueuesAgree
<1>3. plan.swapped_out = {}
  BY <1>2 DEF Preempts
<1>4. g \in todo /\ g \in Groups
  BY TodoFacts
<1>5. g \in swapped
  BY <1>2, <1>4
<1>6. /\ group[g].status = "swapped" /\ g \notin OnGpu /\ g \notin plan.scheduled
      /\ g \notin Preempted /\ g \notin ToSet(waiting)
  BY <1>4, <1>5, Places
<1>7. group[g].live # {}
  BY <1>4, <1>6, CoreFacts, GoodFacts
<1> QED BY <1>1, <1>2, <1>3, <1>4, <1>5, <1>6, <1>7 DEF OnCpu

Returns(g, new) ==
  /\ OnCpu(g) /\ Moves(g, Appended(group[g]))
  /\ Appended(group[g]).slots = Appended(group[g]).len /\ Appended(group[g]).status = "running"
  /\ new = NumNewTokens(g, FALSE) /\ CanSchedule(new, MaxNumRunningSeqs(g)) /\ CanSwapIn(g)
  /\ Schedules(g, IF IsPrefill(g) THEN new ELSE 1, new, MaxNumRunningSeqs(g))
  /\ plan'.prefills = plan.prefills /\ OnGpu' = OnGpu \cup {g} /\ UNCHANGED lost

LEMMA SwapInEffect ==
  ASSUME Core, SwapIn, config' = config
  PROVE  \E g, new : Returns(g, new)
<1> DEFINE g == Min(todo)
           new == NumNewTokens(g, FALSE)
           chunk == IF IsPrefill(g) THEN new ELSE 1
           next == Appended(group[g])
<1>1. /\ At("swapped") /\ todo # {} /\ CanSwapIn(g) /\ CanSchedule(new, MaxNumRunningSeqs(g))
      /\ todo' = todo \ {g} /\ swapped' = swapped \ {g} /\ group' = [group EXCEPT ![g] = Appended(@)]
      /\ plan' = Scheduled(g, chunk, new, MaxNumRunningSeqs(g))
      /\ UNCHANGED <<arrived, waiting, running, phase, lost, reported, error>>
  BY DEF SwapIn
<1>2. OnCpu(g)
  BY <1>1, OnCpuFacts
<1>3. new = NumNewTokens(g, FALSE)
  OBVIOUS
<1> HIDE DEF g, new
<1>4. g \in Groups /\ group[g].status = "swapped"
  BY <1>2 DEF OnCpu
<1>5. /\ Limits /\ Good(group[g]) /\ group[g] \in GroupType /\ plan \in PlanType
      /\ MaxNumRunningSeqs(g) \in Nat /\ group \in [Groups -> GroupType]
  BY <1>4, CoreFacts DEF Good
<1>6. Good(next) /\ next.slots = next.len /\ next.status = "running"
  <2>1. next.status = "running"
    BY <1>5 DEF Appended, GroupType
  <2> QED BY <1>4, <1>5, <2>1, AppendedGood
<1>7. new \in Int
  BY <1>3, <1>4, NumNewTokensFacts
<1>8. chunk \in Int
  BY <1>7
<1> HIDE DEF chunk
<1>9. Schedules(g, chunk, new, MaxNumRunningSeqs(g)) /\ plan'.prefills = plan.prefills
  <2> DEFINE seqs == MaxNumRunningSeqs(g)
  <2>1. seqs \in Nat /\ plan' = Scheduled(g, chunk, new, seqs)
    BY <1>1, <1>5
  <2> HIDE DEF seqs
  <2>2. Schedules(g, chunk, new, seqs) /\ plan'.prefills = plan.prefills
    BY <1>4, <1>7, <1>8, <2>1, ScheduledEffect
  <2> QED BY <2>2 DEF seqs
<1>10. group' = [group EXCEPT ![g] = next]
  BY <1>1, <1>4, <1>5
<1> HIDE DEF next
<1>11. Moves(g, next)
  <2>1. plan'.scheduled = plan.scheduled \cup {g}
    BY <1>9 DEF Schedules
  <2> QED BY <1>4, <1>5, <1>6, <1>10, <2>1, OneGroup DEF Moves
<1>12. OnGpu' = OnGpu \cup {g}
  BY <1>1, <1>2, <1>9 DEF OnGpu, Schedules, KeepsLists, OnCpu
<1>13. Returns(g, new)
  BY <1>1, <1>2, <1>3, <1>6, <1>9, <1>11, <1>12 DEF Returns, chunk, next
<1> QED BY <1>13

NeverReturns(g) ==
  /\ OnCpu(g) /\ Moves(g, Ended) /\ Ended.status = "finished" /\ Required(g) > GpuBlocks
  /\ lost' = [lost EXCEPT !.cpu = @ + Blocks(g)]
  /\ plan' \in PlanType /\ KeepsLists /\ KeepsCounts /\ plan'.prefills = plan.prefills
  /\ plan'.ignored = plan.ignored /\ plan'.infeasible = plan.infeasible \cup {g}
  /\ OnGpu' = OnGpu

LEMMA FailSwappedEffect ==
  ASSUME Core, FailSwapped, config' = config
  PROVE  \E g : NeverReturns(g)
<1> DEFINE g == Min(todo)
           i == plan.infeasible \cup {g}
<1>1. /\ At("swapped") /\ todo # {} /\ Required(g) > GpuBlocks
      /\ todo' = todo \ {g} /\ swapped' = swapped \ {g} /\ group' = [group EXCEPT ![g] = Ended]
      /\ lost' = [lost EXCEPT !.cpu = @ + Blocks(g)]
      /\ plan' = [plan EXCEPT !.infeasible = i]
      /\ UNCHANGED <<arrived, waiting, running, phase, reported, error>>
  BY DEF FailSwapped
<1>2. OnCpu(g)
  BY <1>1, OnCpuFacts
<1>3. i = plan.infeasible \cup {g}
  OBVIOUS
<1> HIDE DEF g, i
<1>4. g \in Groups /\ g \notin plan.scheduled
  BY <1>2 DEF OnCpu
<1>5. Good(group[g]) /\ plan \in PlanType /\ Good(Ended) /\ Ended.status = "finished"
  BY <1>4, CoreFacts, EndedGood
<1>6. /\ plan' \in PlanType /\ plan'.preempted = plan.preempted /\ plan'.swapped_out = plan.swapped_out
      /\ KeepsCounts /\ plan'.prefills = plan.prefills
      /\ plan'.ignored = plan.ignored /\ plan'.infeasible = i
  <2>1. i \in SUBSET Groups
    BY <1>3, <1>4, <1>5, PlanFields
  <2> QED BY <1>1, <1>5, <2>1 DEF PlanType, KeepsCounts
<1>7. Moves(g, Ended)
  <2>1. plan'.scheduled = plan.scheduled
    BY <1>6 DEF KeepsCounts
  <2> QED BY <1>1, <1>4, <1>5, <2>1, OneGroup DEF Moves
<1>8. KeepsLists /\ OnGpu' = OnGpu
  BY <1>1, <1>6 DEF KeepsLists, KeepsCounts, Preempted, OnGpu, Preempts
<1>9. NeverReturns(g)
  BY <1>1, <1>2, <1>3, <1>5, <1>6, <1>7, <1>8 DEF NeverReturns
<1> QED BY <1>9

-----------------------------------------------------------------------------
\* Between two steps.

AtRest ==
  /\ phase = "idle" /\ plan = NewPlan /\ Preempted = {} /\ OnGpu = running /\ ~Preempts
  /\ plan.scheduled = {} /\ plan.preempted = <<>> /\ plan.swapped_out = {}

LEMMA IdleFacts ==
  ASSUME Core, At("idle")
  PROVE  AtRest /\ error = "none"
<1>1. phase = "idle" /\ error = "none" /\ plan = NewPlan
  BY DEF At, Core, QueuesAgree
<1>2. Preempted = {}
  BY <1>1, NewPlanFacts DEF Preempted
<1>3. OnGpu = running
  BY <1>1, <1>2, NewPlanFacts DEF OnGpu
<1> QED BY <1>1, <1>2, <1>3, NewPlanFacts DEF AtRest, Preempts

Adds(g, len, n) ==
  /\ AtRest /\ error = "none" /\ len \in PromptLens /\ n \in BestOfs
  /\ g = arrived + 1 /\ g \in Groups /\ group[g].status = "finished"
  /\ Moves(g, New(len, n)) /\ New(len, n).status = "waiting"
  /\ arrived' = g /\ waiting' = Append(waiting, g) /\ waiting' \in Seq(Groups) /\ IsInjective(waiting')
  /\ ToSet(waiting') = ToSet(waiting) \cup {g} /\ waiting' # <<>>
  /\ UNCHANGED <<running, swapped, phase, todo, plan, lost, reported, error>>
  /\ Preempted' = Preempted /\ OnGpu' = OnGpu

LEMMA AddEffect ==
  ASSUME Core, NEW len \in PromptLens, NEW n \in BestOfs, AddSeqGroup(len, n), config' = config
  PROVE  \E g : Adds(g, len, n)
<1> DEFINE g == arrived + 1
<1>1. /\ At("idle") /\ arrived < NumGroups /\ arrived' = g
      /\ group' = [group EXCEPT ![g] = New(len, n)] /\ waiting' = Append(waiting, g)
      /\ UNCHANGED <<running, swapped, phase, todo, plan, lost, reported, error>>
  BY DEF AddSeqGroup
<1>2. AtRest /\ error = "none"
  BY <1>1, IdleFacts
<1>3. arrived \in Nat /\ arrived <= NumGroups /\ NumGroups \in Nat
  BY DEF Core, TypeOK
<1>4. g \in Groups /\ g > arrived
  BY <1>1, <1>3
<1>5. group[g].status = "finished"
  BY <1>4 DEF Core, QueuesAgree
<1>6. g = arrived + 1
  OBVIOUS
<1> HIDE DEF g
<1>7. /\ Limits /\ Good(group[g]) /\ waiting \in Seq(Groups) /\ IsInjective(waiting)
  BY <1>4, CoreFacts DEF Core, QueuesAgree
<1>8. g \notin ToSet(waiting)
  BY <1>4, <1>5, Places
<1>9. /\ waiting' \in Seq(Groups) /\ IsInjective(waiting') /\ waiting' # <<>>
      /\ ToSet(waiting') = ToSet(waiting) \cup {g}
  <2>1. waiting' # <<>>
    <3>1. Append(waiting, g) # <<>>
      BY <1>4, <1>7, AppendFacts, SMTT(30)
    <3> QED BY <1>1, <3>1
  <2> QED BY <1>1, <1>4, <1>7, <1>8, <2>1, SetOfAppend
<1>10. Good(New(len, n)) /\ New(len, n).status = "waiting"
  BY <1>7, NewGood DEF Limits
<1>11. Moves(g, New(len, n))
  <2>1. plan'.scheduled = plan.scheduled /\ plan.scheduled = {}
    BY <1>1, <1>2 DEF AtRest
  <2> QED BY <1>1, <1>4, <1>7, <1>10, <2>1, OneGroup DEF Moves
<1>12. Preempted' = Preempted /\ OnGpu' = OnGpu
  BY <1>1 DEF Preempted, OnGpu
<1>13. Adds(g, len, n)
  BY <1>1, <1>2, <1>4, <1>5, <1>6, <1>9, <1>10, <1>11, <1>12 DEF Adds
<1> QED BY <1>13

Aborts(g) ==
  /\ AtRest /\ error = "none" /\ g \in Groups /\ group[g].live # {} /\ Moves(g, Ended)
  /\ Ended.status = "finished"
  /\ waiting' = Select(waiting, Groups \ {g}) /\ waiting' \in Seq(Groups) /\ IsInjective(waiting')
  /\ ToSet(waiting') = ToSet(waiting) \ {g}
  /\ running' = running \ {g} /\ swapped' = swapped \ {g} /\ OnGpu' = OnGpu \ {g}
  /\ lost' = IF g \in running THEN [lost EXCEPT !.gpu = @ + Leak(group[g])] ELSE lost
  /\ UNCHANGED <<arrived, phase, todo, plan, reported, error>> /\ Preempted' = Preempted

LEMMA AbortEffect ==
  ASSUME Core, NEW g \in Groups, AbortSeqGroup(g), config' = config
  PROVE  Aborts(g)
<1>1. /\ At("idle") /\ group[g].live # {} /\ group' = [group EXCEPT ![g] = Ended]
      /\ waiting' = Select(waiting, Groups \ {g}) /\ running' = running \ {g} /\ swapped' = swapped \ {g}
      /\ lost' = IF g \in running THEN [lost EXCEPT !.gpu = @ + Leak(group[g])] ELSE lost
      /\ UNCHANGED <<arrived, phase, todo, plan, reported, error>>
  BY DEF AbortSeqGroup
<1>2. AtRest /\ error = "none"
  BY <1>1, IdleFacts
<1>3. Good(Ended) /\ Ended.status = "finished" /\ Good(group[g])
  BY CoreFacts, EndedGood
<1>4. Moves(g, Ended)
  <2>1. plan'.scheduled = plan.scheduled /\ plan.scheduled = {}
    BY <1>1, <1>2 DEF AtRest
  <2> QED BY <1>1, <1>3, <2>1, OneGroup DEF Moves
<1>5. waiting \in Seq(Groups) /\ IsInjective(waiting) /\ ToSet(waiting) \subseteq Groups
  BY CoreFacts, Places DEF Core, QueuesAgree
<1>6. waiting' \in Seq(Groups) /\ IsInjective(waiting') /\ ToSet(waiting') = ToSet(waiting) \ {g}
  <2> DEFINE S == Groups \ {g}
  <2>1. ToSet(waiting) \cap S = ToSet(waiting) \ {g} /\ waiting' = Select(waiting, S)
    BY <1>1, <1>5
  <2> HIDE DEF S
  <2> QED BY <1>5, <2>1, SetOfSelect
<1>7. Preempted' = Preempted /\ OnGpu' = OnGpu \ {g}
  BY <1>1, <1>2 DEF Preempted, OnGpu, AtRest
<1> QED BY <1>1, <1>2, <1>3, <1>4, <1>6, <1>7 DEF Aborts

-----------------------------------------------------------------------------
\* A step of the engine on the groups it has scheduled.

Ran(g) ==
  /\ Good(group[g]) /\ group[g].status = "running" /\ group[g].slots = group[g].len
  /\ plan.chunk[g] \in Int /\ g \in OnGpu
  /\ \/ /\ CanPrefill(group[g]) /\ ~(group[g].computed + plan.chunk[g] >= group[g].len)
        /\ group'[g] = Computed(group[g], plan.chunk[g])
     \/ /\ CanPrefill(group[g]) => group[g].computed + plan.chunk[g] >= group[g].len
        /\ \E stop : group'[g] = Next1(group[g], plan.chunk[g], stop)

Over == {g \in plan.scheduled : group'[g].live = {}}

Executes ==
  /\ phase = "exec" /\ error = "none" /\ running = OnGpu /\ plan.scheduled \subseteq Groups
  /\ \A g \in Groups : g \notin plan.scheduled => group'[g] = group[g]
  /\ \A g \in plan.scheduled : Ran(g)
  /\ \A g \in Groups : Good(group'[g])
  /\ \A g \in plan.scheduled : group'[g].status = IF g \in Over THEN "finished" ELSE "running"
  /\ (group \in [Groups -> GroupType])' /\ GroupsInv'
  /\ running' = running \ Over /\ reported' = reported \cup Over
  /\ lost' = [lost EXCEPT !.gpu = @ + Total([g \in Groups |-> IF g \in Over THEN Leak(group[g]) ELSE 0])]
  /\ phase' = "idle" /\ plan' = NewPlan /\ OnGpu' = running' /\ Preempted' = {}
  /\ UNCHANGED <<arrived, waiting, swapped, todo, error>>

LEMMA RanGood ==
  ASSUME Limits, NEW g \in Groups, Ran(g)
  PROVE  /\ Good(group'[g])
         /\ group'[g].status = "running" \/ (group'[g].status = "finished" /\ group'[g].live = {})
<1>1. /\ Good(group[g]) /\ group[g].status = "running" /\ group[g].slots = group[g].len
      /\ plan.chunk[g] \in Int
  BY DEF Ran
<1>2. CASE /\ CanPrefill(group[g]) /\ ~(group[g].computed + plan.chunk[g] >= group[g].len)
           /\ group'[g] = Computed(group[g], plan.chunk[g])
  BY <1>1, <1>2, ComputedGood, ComputedFields
<1>3. ASSUME NEW stop, group'[g] = Next1(group[g], plan.chunk[g], stop)
      PROVE  /\ Good(group'[g])
             /\ group'[g].status = "running" \/ (group'[g].status = "finished" /\ group'[g].live = {})
  <2>1. Good(group'[g])
    BY <1>1, <1>3, SampledGood
  <2>2. group'[g] = Ended \/ GoesOn(group'[g], group[g])
    BY <1>1, <1>3, SampledFields
  <2>3. Ended.status = "finished" /\ Ended.live = {}
    BY EndedGood
  <2> QED BY <1>1, <2>1, <2>2, <2>3 DEF GoesOn
<1> QED BY <1>2, <1>3 DEF Ran

LEMMA ExecuteEffect ==
  ASSUME Core, Execute, config' = config
  PROVE  Executes
<1>1. /\ phase = "exec" /\ error = "none" /\ phase' = "idle" /\ plan' = NewPlan
      /\ running' = running \ Over /\ reported' = reported \cup Over
      /\ lost' = [lost EXCEPT !.gpu = @ + Total([g \in Groups |-> IF g \in Over THEN Leak(group[g]) ELSE 0])]
      /\ UNCHANGED <<arrived, waiting, swapped, todo, error>>
  BY DEF Execute, At, Over
<1>2. PICK stop : group' = [g \in Groups |->
              IF g \notin plan.scheduled THEN group[g]
              ELSE LET r == Computed(group[g], plan.chunk[g]) IN
                   IF DoSample(g) THEN Sampled(r, IsPrefill(g), stop[g]) ELSE r]
  BY DEF Execute
<1>3. running = OnGpu /\ plan.scheduled \subseteq OnGpu /\ OnGpu \subseteq Groups
  BY <1>1, Places DEF Core, QueuesAgree
<1>4. Limits /\ plan \in PlanType
  BY CoreFacts
<1>5. \A g \in Groups : g \notin plan.scheduled => group'[g] = group[g]
  BY <1>2
<1>6. ASSUME NEW g \in plan.scheduled PROVE Ran(g)
  <2>1. g \in Groups /\ g \in OnGpu
    BY <1>3
  <2>2. Good(group[g]) /\ group[g].slots = group[g].len /\ group[g].status = "running"
    BY <2>1, CoreFacts, Places
  <2>3. plan.chunk[g] \in Int
    BY <1>4, <2>1, PlanFields
  <2>4. IsPrefill(g) <=> CanPrefill(group[g])
    BY DEF IsPrefill, CanPrefill
  <2>5. DoSample(g) <=> (CanPrefill(group[g]) => group[g].computed + plan.chunk[g] >= group[g].len)
    BY <2>4 DEF DoSample
  <2>6. CASE DoSample(g)
    <3>1. group'[g] = Sampled(Computed(group[g], plan.chunk[g]), IsPrefill(g), stop[g])
      BY <1>2, <2>1, <2>6
    <3>2. IsPrefill(g) = CanPrefill(group[g])
      BY DEF IsPrefill, CanPrefill
    <3>3. group'[g] = Next1(group[g], plan.chunk[g], stop[g])
      BY <3>1, <3>2, Zenon DEF Next1
    <3> QED BY <2>1, <2>2, <2>3, <2>5, <2>6, <3>3, Zenon DEF Ran
  <2>7. CASE ~DoSample(g)
    <3>1. group'[g] = Computed(group[g], plan.chunk[g])
      BY <1>2, <2>1, <2>7
    <3> QED BY <2>1, <2>2, <2>3, <2>5, <2>7, <3>1, Zenon DEF Ran
  <2> QED BY <2>6, <2>7
<1>7. ASSUME NEW g \in Groups PROVE Good(group'[g])
  <2>1. CASE g \in plan.scheduled
    BY <1>4, <1>6, <2>1, RanGood
  <2>2. CASE g \notin plan.scheduled
    BY <1>5, <2>2, CoreFacts
  <2> QED BY <2>1, <2>2
<1>8. \A g \in plan.scheduled : group'[g].status = IF g \in Over THEN "finished" ELSE "running"
  <2> SUFFICES ASSUME NEW g \in plan.scheduled
               PROVE  group'[g].status = IF g \in Over THEN "finished" ELSE "running"
    OBVIOUS
  <2>1. g \in Groups /\ Ran(g)
    BY <1>3, <1>6
  <2>2. /\ Good(group'[g])
        /\ group'[g].status = "running" \/ (group'[g].status = "finished" /\ group'[g].live = {})
    BY <1>4, <2>1, RanGood
  <2>3. group'[g].live = {} <=> group'[g].status = "finished"
    BY <1>4, <2>2, GoodFacts
  <2> QED BY <2>2, <2>3 DEF Over
<1>9. NewPlan.scheduled = {}
  BY NewPlanFacts
<1>10. (group \in [Groups -> GroupType])'
  <2>1. \A g \in Groups : group'[g] \in GroupType
    BY <1>7 DEF Good
  <2>2. GroupType' = GroupType
    BY SameConfig
  <2>3. group' = [g \in Groups |-> group'[g]]
    BY <1>2
  <2> QED BY <2>1, <2>2, <2>3
<1>11. GroupsInv'
  <2>1. MaxTokens' = MaxTokens
    BY SameConfig
  <2>2. \A g \in Groups : GroupInv(group'[g]) /\ g \notin plan'.scheduled
    BY <1>1, <1>7, <1>9 DEF Good
  <2> QED BY <2>1, <2>2 DEF GroupsInv, GroupInv
<1>12. OnGpu' = running' /\ Preempted' = {}
  BY <1>1, NewPlanFacts DEF OnGpu, Preempted
<1> QED BY <1>1, <1>3, <1>5, <1>6, <1>7, <1>8, <1>10, <1>11, <1>12 DEF Executes

-----------------------------------------------------------------------------
\* The queues are put together again.

Commits ==
  /\ phase = "commit" /\ error = "none" /\ ~OverBudget
  /\ waiting' = Reverse(plan.preempted) \o waiting /\ waiting' \in Seq(Groups) /\ IsInjective(waiting')
  /\ ToSet(waiting') = Preempted \cup ToSet(waiting)
  /\ running' = OnGpu /\ OnGpu' = OnGpu /\ swapped' = swapped \cup plan.swapped_out
  /\ reported' = reported \cup IgnoredSeqGroups
  /\ \/ plan.scheduled = {} /\ phase' = "idle" /\ plan' = NewPlan /\ Preempted' = {}
     \/ plan.scheduled # {} /\ phase' = "exec" /\ plan' = plan /\ Preempted' = Preempted
  /\ UNCHANGED <<group, arrived, todo, lost, error>>

Fails ==
  /\ phase = "commit" /\ error = "none"
  /\ \/ OverBudget /\ error' = "budget"
     \/ /\ \E g \in plan.scheduled : IsPrefill(g) /\ group[g].seqs > 1
        /\ error' = "prefill of several sequences"
  /\ UNCHANGED <<group, arrived, queues, phase, todo, plan, lost, reported>>

LEMMA CommitEffect ==
  ASSUME Core, Commit, config' = config
  PROVE  Commits \/ Fails
<1>1. CASE OverBudget
  <2>1. Fails
    BY <1>1 DEF Commit, Fail, Fails, At
  <2> QED BY <2>1
<1>2. CASE ~OverBudget /\ \E g \in plan.scheduled : IsPrefill(g) /\ group[g].seqs > 1
  <2>1. Fails
    BY <1>2 DEF Commit, Fail, Fails, At
  <2> QED BY <2>1
<1>3. CASE ~OverBudget /\ ~\E g \in plan.scheduled : IsPrefill(g) /\ group[g].seqs > 1
  <2>1. /\ phase = "commit" /\ error = "none"
        /\ waiting' = Reverse(plan.preempted) \o waiting
        /\ running' = (running \cup plan.scheduled) \ (ToSet(plan.preempted) \cup plan.swapped_out)
        /\ swapped' = swapped \cup plan.swapped_out
        /\ reported' = reported \cup IgnoredSeqGroups
        /\ \/ plan.scheduled = {} /\ phase' = "idle" /\ plan' = NewPlan
           \/ plan.scheduled # {} /\ phase' = "exec" /\ plan' = plan
        /\ UNCHANGED <<group, arrived, todo, lost, error>>
    BY <1>3 DEF Commit, At, ExtendLeft
  <2>2. /\ waiting \in Seq(Groups) /\ plan.preempted \in Seq(Groups)
        /\ IsInjective(waiting) /\ IsInjective(plan.preempted)
        /\ ToSet(plan.preempted) \cap ToSet(waiting) = {}
    BY <2>1, CoreFacts DEF Core, QueuesAgree, Preempted
  <2>3. /\ waiting' \in Seq(Groups) /\ IsInjective(waiting')
        /\ ToSet(waiting') = ToSet(plan.preempted) \cup ToSet(waiting)
    BY <2>1, <2>2, SetOfExtend
  <2>4. running' = OnGpu
    BY <2>1 DEF OnGpu, Preempted
  <2>5. /\ ToSet(NewPlan.preempted) = {} /\ NewPlan.scheduled = {} /\ NewPlan.swapped_out = {}
    BY NewPlanFacts
  <2>6. CASE plan.scheduled = {} /\ phase' = "idle" /\ plan' = NewPlan
    <3>1. Preempted' = {} /\ OnGpu' = running'
      BY <2>5, <2>6 DEF Preempted, OnGpu
    <3>2. Commits
      BY <1>3, <2>1, <2>3, <2>4, <2>6, <3>1 DEF Commits, Preempted
    <3> QED BY <3>2
  <2>7. CASE plan.scheduled # {} /\ phase' = "exec" /\ plan' = plan
    <3>1. Preempted' = Preempted
      BY <2>7 DEF Preempted
    <3>2. plan.scheduled \cap (Preempted \cup plan.swapped_out) = {}
      BY DEF Core, QueuesAgree
    <3>3. OnGpu' = OnGpu
      BY <2>1, <2>4, <2>7, <3>1, <3>2 DEF OnGpu
    <3>4. Commits
      BY <1>3, <2>1, <2>3, <2>4, <2>7, <3>1, <3>3 DEF Commits, Preempted
    <3> QED BY <3>4
  <2> QED BY <2>1, <2>6, <2>7
<1> QED BY <1>1, <1>2, <1>3

-----------------------------------------------------------------------------
\* From loop to loop.

Counted(q) ==
  /\ q \in PlanType /\ q.scheduled = {} /\ q.preempted = <<>> /\ q.swapped_out = {}
  /\ q.prefills = {} /\ q.ignored = {} /\ q.infeasible = {} /\ q.seqs = CountRunning
  /\ q.tokens = NewPlan.tokens /\ q.chunk = NewPlan.chunk

Starts ==
  /\ AtRest /\ error = "none" /\ Counted(plan') /\ Preempted' = {} /\ OnGpu' = running /\ ~Preempts'
  /\ waiting # <<>> \/ running # {} \/ swapped # {}
  /\ \/ ~Chunked /\ swapped = {} /\ phase' = "prefill" /\ todo' = {}
     \/ (Chunked \/ swapped # {}) /\ phase' = "running" /\ todo' = running
  /\ UNCHANGED <<group, arrived, queues, lost, reported, error>>

LEMMA ScheduleEffect ==
  ASSUME Core, Schedule, config' = config
  PROVE  Starts
<1>1. /\ At("idle") /\ plan' = [NewPlan EXCEPT !.seqs = CountRunning]
      /\ waiting # <<>> \/ running # {} \/ swapped # {}
      /\ \/ ~Chunked /\ swapped = {} /\ phase' = "prefill" /\ todo' = {}
         \/ (Chunked \/ swapped # {}) /\ phase' = "running" /\ todo' = running
      /\ UNCHANGED <<group, arrived, queues, lost, reported, error>>
  BY DEF Schedule
<1>2. CountRunning \in [Groups -> Nat]
  BY CoreFacts DEF CountRunning
<1>3. Counted(plan')
  <2>1. NewPlan \in PlanType
    BY NewPlanFacts
  <2> DEFINE c == CountRunning
  <2>2. plan' = [NewPlan EXCEPT !.seqs = c] /\ c \in [Groups -> Nat]
    BY <1>1, <1>2
  <2> HIDE DEF c
  <2>3. /\ plan' \in PlanType /\ plan'.seqs = c /\ plan'.tokens = NewPlan.tokens
        /\ plan'.chunk = NewPlan.chunk /\ plan'.scheduled = NewPlan.scheduled
        /\ plan'.preempted = NewPlan.preempted /\ plan'.swapped_out = NewPlan.swapped_out
        /\ plan'.prefills = NewPlan.prefills /\ plan'.ignored = NewPlan.ignored
        /\ plan'.infeasible = NewPlan.infeasible
    BY <2>1, <2>2 DEF PlanType
  <2> QED BY <2>3, NewPlanFacts DEF c, Counted
<1>4. Preempted' = {} /\ OnGpu' = running /\ ~Preempts'
  <2>1. ToSet(<<>>) = {}
    BY NewPlanFacts
  <2>2. Preempted' = {}
    BY <1>3, <2>1 DEF Counted, Preempted
  <2> QED BY <1>1, <1>3, <2>2 DEF Counted, OnGpu, Preempts, queues
<1> QED BY <1>1, <1>3, <1>4, IdleFacts DEF Starts

Turns ==
  /\ error = "none" /\ phase' \in Phases
  /\ \/ phase = "prefill" /\ PrefillStops /\ phase' = AfterPrefill
     \/ phase = "running" /\ RunningStops /\ phase' = AfterRunning
     \/ phase = "swapped" /\ SwappedStops /\ phase' = AfterSwapped
  /\ phase' = "running" => /\ todo' = running /\ phase = "prefill" /\ ~Chunked /\ plan.scheduled = {}
                           /\ running = OnGpu /\ plan.prefills = {} /\ ~Preempts
  /\ phase' = "swapped" => todo' = swapped /\ phase = "running" /\ ~Preempts
  /\ phase' = "prefill" => Chunked /\ phase \in {"running", "swapped"}
  /\ phase' = "commit" \/ phase' = "prefill" => todo' = {}
  /\ phase' \in {"running", "swapped", "prefill", "commit"}
  /\ UNCHANGED <<group, arrived, queues, plan, lost, reported, error>>
  /\ Preempted' = Preempted /\ OnGpu' = OnGpu /\ (Preempts' <=> Preempts)

LEMMA TurnEffect ==
  ASSUME Core, PrefillDone \/ RunningDone \/ SwappedDone, config' = config
  PROVE  Turns
<1>1. /\ error = "none"
      /\ \/ phase = "prefill" /\ PrefillStops /\ GoOn(AfterPrefill)
         \/ phase = "running" /\ RunningStops /\ GoOn(AfterRunning)
         \/ phase = "swapped" /\ SwappedStops /\ GoOn(AfterSwapped)
  BY DEF PrefillDone, RunningDone, SwappedDone, At
<1>2. (AfterPrefill = "running" /\ ~Chunked /\ plan.prefills = {}) \/ AfterPrefill = "commit"
  BY DEF AfterPrefill
<1>3. \/ AfterRunning = "swapped" /\ ~Preempts
      \/ AfterRunning = "prefill" /\ Chunked
      \/ AfterRunning = "commit"
  BY DEF AfterRunning
<1>4. (AfterSwapped = "prefill" /\ Chunked) \/ AfterSwapped = "commit"
  BY DEF AfterSwapped
<1>5. \A p \in {"running", "swapped", "prefill", "commit"} : GoOn(p) =>
         /\ phase' = p
         /\ todo' = CASE p = "running" -> running [] p = "swapped" -> swapped [] OTHER -> {}
         /\ UNCHANGED <<group, arrived, queues, plan, lost, reported, error>>
  BY DEF GoOn
<1>6. /\ phase = "prefill" /\ ~Chunked => plan.scheduled = plan.prefills /\ ~Preempts
  BY DEF Core, QueuesAgree
<1>7. ~Preempts /\ plan.scheduled = {} => running = OnGpu
  <2> SUFFICES ASSUME ~Preempts, plan.scheduled = {} PROVE running = OnGpu
    OBVIOUS
  <2>1. plan.preempted = <<>> /\ plan.swapped_out = {}
    BY DEF Preempts
  <2>2. Preempted = {}
    BY <2>1, NewPlanFacts DEF Preempted
  <2> QED BY <2>1, <2>2 DEF OnGpu
<1>8. /\ phase' \in {"running", "swapped", "prefill", "commit"}
      /\ todo' = CASE phase' = "running" -> running [] phase' = "swapped" -> swapped [] OTHER -> {}
      /\ UNCHANGED <<group, arrived, queues, plan, lost, reported, error>>
      /\ \/ phase = "prefill" /\ PrefillStops /\ phase' = AfterPrefill
         \/ phase = "running" /\ RunningStops /\ phase' = AfterRunning
         \/ phase = "swapped" /\ SwappedStops /\ phase' = AfterSwapped
  BY <1>1, <1>2, <1>3, <1>4, <1>5
<1>9. Preempted' = Preempted /\ OnGpu' = OnGpu /\ (Preempts' <=> Preempts)
  BY <1>8 DEF Preempted, OnGpu, Preempts, queues
<1>10. phase' \in Phases
  BY <1>8 DEF Phases
<1>11. phase' = "running" => /\ todo' = running /\ phase = "prefill" /\ ~Chunked /\ plan.scheduled = {}
                             /\ running = OnGpu /\ plan.prefills = {} /\ ~Preempts
  BY <1>2, <1>3, <1>4, <1>6, <1>7, <1>8
<1>12. phase' = "swapped" => todo' = swapped /\ phase = "running" /\ ~Preempts
  BY <1>2, <1>3, <1>4, <1>8
<1>13. phase' = "prefill" => Chunked /\ phase \in {"running", "swapped"}
  BY <1>2, <1>3, <1>4, <1>8
<1>14. phase' = "commit" \/ phase' = "prefill" => todo' = {}
  BY <1>8
<1> QED BY <1>1, <1>8, <1>9, <1>10, <1>11, <1>12, <1>13, <1>14 DEF Turns

-----------------------------------------------------------------------------
\* The core is inductive.

LEMMA IgnoreCore ==
  ASSUME Core, NEW g, Ignores(g), config' = config
  PROVE  Core'
<1>1. TypeOK'
  BY DEF Core, TypeOK, Ignores, LeavesWaiting, Moves
<1>2. QueuesAgree'
  BY SameConfig DEF Core, QueuesAgree, Ignores, LeavesWaiting, Moves, KeepsLists, KeepsCounts
<1> QED BY <1>1, <1>2 DEF Core, Ignores, Moves

LEMMA PrefillCore ==
  ASSUME Core, NEW g, NEW new, Prefills(g, new), config' = config
  PROVE  Core'
<1>1. TypeOK'
  BY DEF Core, TypeOK, Prefills, LeavesWaiting, Moves, Schedules
<1>2. QueuesAgree'
  BY SameConfig DEF Core, QueuesAgree, Prefills, LeavesWaiting, Moves, KeepsLists, Schedules
<1> QED BY <1>1, <1>2 DEF Core, Prefills, Moves

LEMMA LostType ==
  ASSUME lost \in [gpu : Nat, cpu : Nat], NEW n \in Nat
  PROVE  /\ [lost EXCEPT !.gpu = @ + n] \in [gpu : Nat, cpu : Nat]
         /\ [lost EXCEPT !.gpu = @ + n].gpu = lost.gpu + n
         /\ [lost EXCEPT !.gpu = @ + n].cpu = lost.cpu
         /\ [lost EXCEPT !.cpu = @ + n] \in [gpu : Nat, cpu : Nat]
         /\ [lost EXCEPT !.cpu = @ + n].cpu = lost.cpu + n
         /\ [lost EXCEPT !.cpu = @ + n].gpu = lost.gpu
OBVIOUS

\* Blocks of a group.
LEMMA BlocksFacts ==
  ASSUME Limits, NEW r, Good(r)
  PROVE  /\ Leak(r) \in Nat
         /\ r.status \in {"running", "swapped"} => BlocksOf(r) \in Nat /\ Leak(r) <= BlocksOf(r)
         /\ r.prefix \in Nat /\ r.slots \in Nat /\ r.len \in Nat /\ r.refs \in Nat
<1>1. r.prefix \in Nat /\ r.slots \in Nat /\ r.len \in Nat /\ r.refs \in Nat
  BY DEF Good, GroupType
<1>2. Leak(r) \in Nat /\ Leak(r) <= r.prefix
  BY <1>1 DEF Leak
<1>3. ASSUME r.status \in {"running", "swapped"} PROVE BlocksOf(r) \in Nat /\ Leak(r) <= BlocksOf(r)
  <2>1. r.prefix <= r.slots
    BY <1>3 DEF Good, GroupInv
  <2>2. Cardinality(r.live) \in Nat
    BY GoodFacts
  <2>3. r.slots - r.prefix \in Nat
    BY <1>1, <2>1
  <2>4. Cardinality(r.live) * (r.slots - r.prefix) \in Nat
    BY <2>2, <2>3, MonotoneLeft
  <2> QED BY <1>1, <1>2, <2>4 DEF BlocksOf
<1> QED BY <1>1, <1>2, <1>3

LEMMA RecomputeCore ==
  ASSUME Core, NEW g, NEW v, Recomputes(g, v), config' = config
  PROVE  Core'
<1>1. lost \in [gpu : Nat, cpu : Nat]
  BY DEF Core, TypeOK
<1>2. Leak(group[v]) \in Nat
  BY CoreFacts, BlocksFacts DEF Recomputes, Victimises
<1>3. lost' \in [gpu : Nat, cpu : Nat]
  BY <1>1, <1>2, LostType DEF Recomputes
<1>4. TypeOK'
  BY <1>3 DEF Core, TypeOK, Recomputes, Victimises, GivesBack, Moves, queues
<1>5. QueuesAgree'
  <2>1. \A h \in Groups : group'[h].status = IF h = v THEN "waiting" ELSE group[h].status
    BY DEF Recomputes, Moves
  <2>2. /\ plan'.scheduled = plan.scheduled
        /\ Preempted' = Preempted \cup {v} /\ plan'.swapped_out = plan.swapped_out
    BY DEF Recomputes, GivesBack
  <2>3. /\ phase = "running" /\ todo = OnGpu \ plan.scheduled /\ OnGpu' = OnGpu \ {v}
        /\ todo' = todo \ {v} /\ v \in OnGpu /\ v \in Groups /\ v \notin plan.scheduled
        /\ v \notin Preempted /\ v \notin plan.swapped_out /\ v \notin ToSet(waiting) /\ v \notin swapped
        /\ group[v].status = "running"
        /\ UNCHANGED <<arrived, waiting, running, swapped, phase>>
    BY DEF Recomputes, Victimises, queues
  <2>4. \A h \in Groups :
           /\ group'[h].status = "waiting" <=> h \in ToSet(waiting') \cup Preempted'
           /\ group'[h].status = "running" <=> h \in OnGpu'
           /\ group'[h].status = "swapped" <=> h \in swapped' \cup plan'.swapped_out
           /\ h > arrived' => group'[h].status = "finished"
    BY <2>1, <2>2, <2>3 DEF Core, QueuesAgree
  <2>5. IsInjective(waiting') /\ IsInjective(plan'.preempted)
    BY <2>2, <2>3 DEF Core, QueuesAgree, Recomputes
  <2>6. /\ plan'.scheduled \cap (Preempted' \cup plan'.swapped_out) = {}
        /\ ToSet(waiting') \cap Preempted' = {}
    BY <2>2, <2>3 DEF Core, QueuesAgree
  <2> QED BY <2>2, <2>3, <2>4, <2>5, <2>6 DEF QueuesAgree
<1> QED BY <1>4, <1>5 DEF Core, Recomputes, Moves

LEMMA SwapOutCore ==
  ASSUME Core, NEW g, NEW v, SwapsOut(g, v), config' = config
  PROVE  Core'
<1>1. TypeOK'
  BY DEF Core, TypeOK, SwapsOut, Victimises, GivesBack, Moves, queues
<1>2. QueuesAgree'
  <2>1. \A h \in Groups : group'[h].status = IF h = v THEN "swapped" ELSE group[h].status
    BY DEF SwapsOut, Moves
  <2>2. /\ plan'.scheduled = plan.scheduled
        /\ Preempted' = Preempted /\ plan'.swapped_out = plan.swapped_out \cup {v}
        /\ plan'.preempted = plan.preempted
    BY DEF SwapsOut, GivesBack
  <2>3. /\ phase = "running" /\ todo = OnGpu \ plan.scheduled /\ OnGpu' = OnGpu \ {v}
        /\ todo' = todo \ {v} /\ v \in OnGpu /\ v \in Groups /\ v \notin plan.scheduled
        /\ v \notin Preempted /\ v \notin plan.swapped_out /\ v \notin ToSet(waiting) /\ v \notin swapped
        /\ group[v].status = "running"
        /\ UNCHANGED <<arrived, waiting, running, swapped, phase>>
    BY DEF SwapsOut, Victimises, queues
  <2>4. \A h \in Groups :
           /\ group'[h].status = "waiting" <=> h \in ToSet(waiting') \cup Preempted'
           /\ group'[h].status = "running" <=> h \in OnGpu'
           /\ group'[h].status = "swapped" <=> h \in swapped' \cup plan'.swapped_out
           /\ h > arrived' => group'[h].status = "finished"
    BY <2>1, <2>2, <2>3 DEF Core, QueuesAgree
  <2>5. IsInjective(waiting') /\ IsInjective(plan'.preempted)
    BY <2>2, <2>3 DEF Core, QueuesAgree, SwapsOut
  <2>6. /\ plan'.scheduled \cap (Preempted' \cup plan'.swapped_out) = {}
        /\ ToSet(waiting') \cap Preempted' = {}
    BY <2>2, <2>3 DEF Core, QueuesAgree
  <2> QED BY <2>2, <2>3, <2>4, <2>5, <2>6 DEF QueuesAgree
<1> QED BY <1>1, <1>2 DEF Core, SwapsOut, Moves

LEMMA AppendCore ==
  ASSUME Core, NEW g, NEW new, Appends(g, new), config' = config
  PROVE  Core'
<1>1. TypeOK'
  BY DEF Core, TypeOK, Appends, Moves, Schedules, queues
<1>2. QueuesAgree'
  <2>1. \A h \in Groups : group'[h].status = group[h].status
    BY DEF Appends, Moves
  <2>2. plan'.scheduled = plan.scheduled \cup {g} /\ Preempted' = Preempted
        /\ plan'.preempted = plan.preempted /\ plan'.swapped_out = plan.swapped_out
    BY DEF Appends, Schedules, KeepsLists
  <2>3. /\ phase = "running" /\ todo = OnGpu \ plan.scheduled /\ OnGpu' = OnGpu /\ todo' = todo \ {g}
        /\ g \notin Preempted /\ g \notin plan.swapped_out
        /\ UNCHANGED <<arrived, waiting, running, swapped, phase>>
    BY DEF Appends, queues
  <2> QED BY <2>1, <2>2, <2>3 DEF Core, QueuesAgree
<1> QED BY <1>1, <1>2 DEF Core, Appends, Moves

LEMMA ReturnCore ==
  ASSUME Core, NEW g, NEW new, Returns(g, new), config' = config
  PROVE  Core'
<1>1. TypeOK'
  BY DEF Core, TypeOK, Returns, OnCpu, Moves, Schedules
<1>2. QueuesAgree'
  <2>1. \A h \in Groups : group'[h].status = IF h = g THEN "running" ELSE group[h].status
    BY DEF Returns, Moves
  <2>2. plan'.scheduled = plan.scheduled \cup {g} /\ Preempted' = Preempted /\ (Preempts' <=> Preempts)
        /\ plan'.preempted = plan.preempted /\ plan'.swapped_out = plan.swapped_out
    BY DEF Returns, Schedules, KeepsLists
  <2>3. /\ phase = "swapped" /\ todo \subseteq swapped /\ g \in swapped /\ ~Preempts /\ plan.swapped_out = {}
        /\ OnGpu' = OnGpu \cup {g} /\ g \notin Preempted /\ g \notin ToSet(waiting)
        /\ g \in Groups /\ group[g].status = "swapped"
        /\ todo' = todo \ {g} /\ swapped' = swapped \ {g}
        /\ UNCHANGED <<arrived, waiting, running, phase>>
    BY DEF Returns, OnCpu
  <2>4. \A h \in Groups :
           /\ group'[h].status = "waiting" <=> h \in ToSet(waiting') \cup Preempted'
           /\ group'[h].status = "running" <=> h \in OnGpu'
           /\ group'[h].status = "swapped" <=> h \in swapped' \cup plan'.swapped_out
           /\ h > arrived' => group'[h].status = "finished"
    BY <2>1, <2>2, <2>3 DEF Core, QueuesAgree
  <2>5. IsInjective(waiting') /\ IsInjective(plan'.preempted)
    BY <2>2, <2>3 DEF Core, QueuesAgree
  <2>6. /\ plan'.scheduled \cap (Preempted' \cup plan'.swapped_out) = {}
        /\ ToSet(waiting') \cap Preempted' = {}
    BY <2>2, <2>3 DEF Core, QueuesAgree
  <2> QED BY <2>2, <2>3, <2>4, <2>5, <2>6 DEF QueuesAgree
<1> QED BY <1>1, <1>2 DEF Core, Returns, Moves

LEMMA NeverReturnCore ==
  ASSUME Core, NEW g, NeverReturns(g), config' = config
  PROVE  Core'
<1>1. lost \in [gpu : Nat, cpu : Nat]
  BY DEF Core, TypeOK
<1>2. Blocks(g) \in Nat
  BY CoreFacts, BlocksFacts DEF NeverReturns, OnCpu, Blocks
<1>3. lost' \in [gpu : Nat, cpu : Nat]
  BY <1>1, <1>2, LostType DEF NeverReturns
<1>4. TypeOK'
  BY <1>3 DEF Core, TypeOK, NeverReturns, OnCpu, Moves
<1>5. QueuesAgree'
  BY SameConfig DEF Core, QueuesAgree, NeverReturns, OnCpu, Moves, KeepsLists, KeepsCounts
<1> QED BY <1>4, <1>5 DEF Core, NeverReturns, Moves

LEMMA AddCore ==
  ASSUME Core, NEW g, NEW len, NEW n, Adds(g, len, n), config' = config
  PROVE  Core'
<1>1. TypeOK'
  BY DEF Core, TypeOK, Adds, Moves
<1>2. QueuesAgree'
  <2>1. \A h \in Groups : group'[h].status = IF h = g THEN "waiting" ELSE group[h].status
    BY DEF Adds, Moves
  <2>2. /\ phase = "idle" /\ plan = NewPlan /\ UNCHANGED <<running, swapped, phase, todo, plan>>
        /\ Preempted' = Preempted /\ OnGpu' = OnGpu /\ g \in Groups /\ group[g].status = "finished"
        /\ ToSet(waiting') = ToSet(waiting) \cup {g} /\ IsInjective(waiting')
        /\ arrived' = g /\ g = arrived + 1
    BY DEF Adds, AtRest
  <2>3. \A h \in Groups : h > arrived' => h > arrived /\ h # g
    BY <2>2 DEF Core, TypeOK
  <2>4. \A h \in Groups :
           /\ group'[h].status = "waiting" <=> h \in ToSet(waiting') \cup Preempted'
           /\ group'[h].status = "running" <=> h \in OnGpu'
           /\ group'[h].status = "swapped" <=> h \in swapped' \cup plan'.swapped_out
           /\ h > arrived' => group'[h].status = "finished"
    BY <2>1, <2>2, <2>3 DEF Core, QueuesAgree
  <2> QED BY <2>2, <2>4 DEF Core, QueuesAgree
<1> QED BY <1>1, <1>2 DEF Core, Adds, Moves

LEMMA AbortCore ==
  ASSUME Core, NEW g, Aborts(g), config' = config
  PROVE  Core'
<1>1. lost \in [gpu : Nat, cpu : Nat]
  BY DEF Core, TypeOK
<1>2. Leak(group[g]) \in Nat
  BY CoreFacts, BlocksFacts DEF Aborts
<1>3. lost' \in [gpu : Nat, cpu : Nat]
  BY <1>1, <1>2, LostType DEF Aborts
<1>4. TypeOK'
  BY <1>3 DEF Core, TypeOK, Aborts, Moves
<1>5. QueuesAgree'
  <2>1. \A h \in Groups : group'[h].status = IF h = g THEN "finished" ELSE group[h].status
    BY DEF Aborts, Moves
  <2>2. /\ phase = "idle" /\ plan = NewPlan /\ UNCHANGED <<arrived, phase, todo, plan>>
        /\ Preempted' = Preempted /\ Preempted = {} /\ OnGpu' = OnGpu \ {g} /\ g \in Groups
        /\ plan.swapped_out = {} /\ plan.scheduled = {} /\ swapped' = swapped \ {g}
        /\ ToSet(waiting') = ToSet(waiting) \ {g} /\ IsInjective(waiting')
    BY DEF Aborts, AtRest
  <2>3. \A h \in Groups :
           /\ group'[h].status = "waiting" <=> h \in ToSet(waiting') \cup Preempted'
           /\ group'[h].status = "running" <=> h \in OnGpu'
           /\ group'[h].status = "swapped" <=> h \in swapped' \cup plan'.swapped_out
           /\ h > arrived' => group'[h].status = "finished"
    BY <2>1, <2>2 DEF Core, QueuesAgree
  <2> QED BY <2>2, <2>3 DEF Core, QueuesAgree
<1> QED BY <1>4, <1>5 DEF Core, Aborts, Moves

LEMMA StartCore ==
  ASSUME Core, Starts, config' = config
  PROVE  Core'
<1>1. plan'.scheduled \subseteq plan.scheduled /\ group' = group
  BY DEF Starts, Counted
<1>2. (group \in [Groups -> GroupType])' /\ GroupsInv'
  BY <1>1, NoGroup
<1>3. TypeOK'
  BY <1>2 DEF Core, TypeOK, Starts, Counted, queues, Phases
<1>4. IsInjective(plan'.preempted)
  BY NewPlanFacts DEF Starts, Counted
<1>5. QueuesAgree'
  BY <1>4, SameConfig DEF Core, QueuesAgree, Starts, Counted, AtRest, queues
<1> QED BY <1>2, <1>3, <1>5 DEF Core

LEMMA TurnCore ==
  ASSUME Core, Turns, config' = config
  PROVE  Core'
<1>1. (group \in [Groups -> GroupType])' /\ GroupsInv'
  BY NoGroup DEF Turns
<1>2. todo' \subseteq Groups
  BY DEF Core, TypeOK, Turns, Phases
<1>3. TypeOK'
  BY <1>1, <1>2 DEF Core, TypeOK, Turns, queues
<1>4. QueuesAgree'
  BY SameConfig DEF Core, QueuesAgree, Turns, queues
<1> QED BY <1>1, <1>3, <1>4 DEF Core

LEMMA CommitCore ==
  ASSUME Core, Commits, config' = config
  PROVE  Core'
<1>1. plan' \in PlanType /\ plan'.scheduled \subseteq plan.scheduled
  BY CoreFacts, NewPlanFacts DEF Commits
<1>2. (group \in [Groups -> GroupType])' /\ GroupsInv'
  BY <1>1, NoGroup DEF Commits
<1>3. /\ running' \subseteq Groups /\ swapped' \subseteq Groups /\ reported' \subseteq Groups
      /\ phase' \in Phases
  <2>1. plan.ignored \subseteq Groups /\ plan.infeasible \subseteq Groups
    BY CoreFacts, PlanFields
  <2>2. IgnoredSeqGroups \subseteq Groups
    BY <2>1 DEF IgnoredSeqGroups
  <2> QED BY <2>2, Places DEF Commits, Core, TypeOK, Phases
<1>4. TypeOK'
  BY <1>1, <1>2, <1>3 DEF Core, TypeOK, Commits
<1>5. QueuesAgree'
  <2>1. /\ phase = "commit" /\ IsInjective(waiting') /\ ToSet(waiting') = Preempted \cup ToSet(waiting)
        /\ running' = OnGpu /\ OnGpu' = OnGpu /\ swapped' = swapped \cup plan.swapped_out
        /\ UNCHANGED <<group, arrived>>
    BY DEF Commits
  <2>2. CASE plan.scheduled = {} /\ phase' = "idle" /\ plan' = NewPlan /\ Preempted' = {}
    BY <2>1, <2>2, NewPlanFacts DEF Core, QueuesAgree
  <2>3. CASE plan.scheduled # {} /\ phase' = "exec" /\ plan' = plan /\ Preempted' = Preempted
    BY <2>1, <2>3 DEF Core, QueuesAgree
  <2> QED BY <2>2, <2>3 DEF Commits
<1> QED BY <1>2, <1>4, <1>5 DEF Core

LEMMA FailCore ==
  ASSUME Core, Fails \/ (\E g, v : RunsOut(g, v)), config' = config
  PROVE  Core' /\ UNCHANGED <<group, arrived, queues, phase, todo, plan, lost, reported>>
<1>1. UNCHANGED <<group, arrived, queues, phase, todo, plan, lost, reported>> /\ error' \in Errors
  BY DEF Fails, RunsOut, Victimises, Errors, queues
<1>2. (group \in [Groups -> GroupType])' /\ GroupsInv'
  BY <1>1, NoGroup
<1>3. TypeOK'
  BY <1>1, <1>2 DEF Core, TypeOK, queues
<1>4. Preempted' = Preempted /\ OnGpu' = OnGpu /\ (Preempts' <=> Preempts)
  BY <1>1 DEF Preempted, OnGpu, Preempts, queues
<1>5. QueuesAgree'
  BY <1>1, <1>4, SameConfig DEF Core, QueuesAgree, queues
<1> QED BY <1>1, <1>2, <1>3, <1>5 DEF Core

LEMMA OverLeaks ==
  ASSUME Core, Executes
  PROVE  /\ \A g \in Groups : Leak(group[g]) \in Nat
         /\ Total([g \in Groups |-> IF g \in Over THEN Leak(group[g]) ELSE 0]) \in Nat
<1>1. \A g \in Groups : Leak(group[g]) \in Nat
  BY CoreFacts, BlocksFacts
<1> DEFINE f == [g \in Groups |-> IF g \in Over THEN Leak(group[g]) ELSE 0]
<1>2. \A g \in 1 .. NumGroups : f[g] \in Nat
  BY <1>1
<1> HIDE DEF f
<1>3. Total(f) \in Nat
  BY <1>2, SumOrder DEF Total
<1> QED BY <1>1, <1>3 DEF f

LEMMA ExecuteCore ==
  ASSUME Core, Executes, config' = config
  PROVE  Core'
<1>1. lost \in [gpu : Nat, cpu : Nat]
  BY DEF Core, TypeOK
<1>2. lost' \in [gpu : Nat, cpu : Nat]
  BY <1>1, OverLeaks, LostType DEF Executes
<1>3. Over \subseteq plan.scheduled
  BY DEF Over
<1>4. TypeOK'
  BY <1>2, <1>3, NewPlanFacts DEF Core, TypeOK, Executes, Phases
<1>5. QueuesAgree'
  <2>1. /\ phase = "exec" /\ phase' = "idle" /\ plan' = NewPlan /\ running = OnGpu
        /\ OnGpu' = running' /\ Preempted' = {} /\ running' = running \ Over
        /\ UNCHANGED <<arrived, waiting, swapped>>
        /\ \A g \in plan.scheduled : group'[g].status = IF g \in Over THEN "finished" ELSE "running"
        /\ \A g \in Groups : g \notin plan.scheduled => group'[g] = group[g]
    BY DEF Executes
  <2>2. /\ Preempted \subseteq ToSet(waiting) /\ plan.swapped_out \subseteq swapped
        /\ plan.scheduled \subseteq OnGpu /\ IsInjective(waiting)
    BY <2>1, Places DEF Core, QueuesAgree
  <2>3. ASSUME NEW h \in Groups
        PROVE  /\ group'[h].status = "waiting" <=> h \in ToSet(waiting') \cup Preempted'
               /\ group'[h].status = "running" <=> h \in OnGpu'
               /\ group'[h].status = "swapped" <=> h \in swapped' \cup plan'.swapped_out
               /\ h > arrived' => group'[h].status = "finished"
    <3>1. /\ group[h].status = "waiting" <=> h \in ToSet(waiting)
          /\ group[h].status = "running" <=> h \in OnGpu
          /\ group[h].status = "swapped" <=> h \in swapped
          /\ h > arrived => group[h].status = "finished"
      BY <2>2 DEF Core, QueuesAgree
    <3>2. plan'.swapped_out = {}
      BY <2>1, NewPlanFacts
    <3>3. CASE h \in plan.scheduled
      <4>1. group[h].status = "running" /\ h \in OnGpu
        BY <2>2, <3>1, <3>3
      <4> QED BY <1>3, <2>1, <3>1, <3>2, <3>3, <4>1
    <3>4. CASE h \notin plan.scheduled
      BY <1>3, <2>1, <3>1, <3>2, <3>4
    <3> QED BY <3>3, <3>4
  <2> QED BY <2>1, <2>2, <2>3, NewPlanFacts DEF QueuesAgree
<1> QED BY <1>4, <1>5 DEF Core, Executes

-----------------------------------------------------------------------------
\* Every step is one of these.
Happens ==
  \/ \E g, len, n : Adds(g, len, n)
  \/ \E g : Aborts(g)
  \/ Starts \/ Turns
  \/ \E g : Ignores(g)
  \/ \E g, new : Prefills(g, new)
  \/ \E g, v : Recomputes(g, v)
  \/ \E g, v : SwapsOut(g, v)
  \/ \E g, new : Appends(g, new)
  \/ \E g, new : Returns(g, new)
  \/ \E g : NeverReturns(g)
  \/ Commits \/ Executes
  \/ Fails \/ \E g, v : RunsOut(g, v)

LEMMA Effects ==
  ASSUME Core, Next
  PROVE  Happens /\ config' = config
<1>1. config' = config
  BY DEF Next
<1>2. ASSUME NEW len \in PromptLens, NEW n \in BestOfs, AddSeqGroup(len, n) PROVE Happens
  BY <1>1, <1>2, AddEffect DEF Happens
<1>3. ASSUME NEW g \in Groups, AbortSeqGroup(g) PROVE Happens
  BY <1>1, <1>3, AbortEffect DEF Happens
<1>4. CASE Schedule
  BY <1>1, <1>4, ScheduleEffect DEF Happens
<1>5. CASE IgnorePrompt
  BY <1>1, <1>5, IgnoreEffect DEF Happens
<1>6. CASE Prefill
  BY <1>1, <1>6, PrefillEffect DEF Happens
<1>7. CASE PrefillDone \/ RunningDone \/ SwappedDone
  BY <1>1, <1>7, TurnEffect DEF Happens
<1>8. CASE Preempt
  BY <1>1, <1>8, PreemptEffect DEF Happens
<1>9. CASE AppendSlots
  BY <1>1, <1>9, AppendEffect DEF Happens
<1>10. CASE FailSwapped
  BY <1>1, <1>10, FailSwappedEffect DEF Happens
<1>11. CASE SwapIn
  BY <1>1, <1>11, SwapInEffect DEF Happens
<1>12. CASE Commit
  BY <1>1, <1>12, CommitEffect DEF Happens
<1>13. CASE Execute
  BY <1>1, <1>13, ExecuteEffect DEF Happens
<1> QED BY <1>1, <1>2, <1>3, <1>4, <1>5, <1>6, <1>7, <1>8, <1>9, <1>10, <1>11, <1>12, <1>13 DEF Next, Step

LEMMA StepCore ==
  ASSUME Core, Happens, config' = config
  PROVE  Core'
BY AddCore, AbortCore, StartCore, TurnCore, IgnoreCore, PrefillCore, RecomputeCore, SwapOutCore, AppendCore,
   ReturnCore, NeverReturnCore, CommitCore, ExecuteCore, FailCore DEF Happens

LEMMA StayCore ==
  ASSUME Core, UNCHANGED vars
  PROVE  Core'
<1>1. UNCHANGED <<config, group, arrived, queues, phase, todo, plan, lost, reported, error>>
  BY DEF vars
<1>2. (group \in [Groups -> GroupType])' /\ GroupsInv'
  BY <1>1, NoGroup
<1>3. TypeOK'
  BY <1>1, <1>2 DEF Core, TypeOK, queues
<1>4. Preempted' = Preempted /\ OnGpu' = OnGpu /\ (Preempts' <=> Preempts)
  BY <1>1 DEF Preempted, OnGpu, Preempts, queues
<1>5. QueuesAgree'
  BY <1>1, <1>4, SameConfig DEF Core, QueuesAgree, queues
<1> QED BY <1>2, <1>3, <1>5 DEF Core

LEMMA InitCore == Init => Core
<1> SUFFICES ASSUME Init PROVE Core
  OBVIOUS
<1>1. Limits /\ NumGroups \in Nat
  BY LimitsHold DEF Init
<1>2. \A g \in Groups : group[g] = Ended
  BY DEF Init
<1>3. Good(Ended) /\ Ended.status = "finished"
  BY <1>1, EndedGood
<1>4. waiting = <<>> /\ waiting \in Seq(Groups) /\ ToSet(waiting) = {} /\ IsInjective(waiting)
  BY NewPlanFacts DEF Init
<1>5. plan = NewPlan /\ Preempted = {} /\ OnGpu = {} /\ plan \in PlanType
  BY NewPlanFacts DEF Init, Preempted, OnGpu
<1>6. group \in [Groups -> GroupType]
  <2>1. Ended \in GroupType
    BY <1>3 DEF Good
  <2> QED BY <2>1 DEF Init
<1>7. TypeOK
  BY <1>1, <1>4, <1>5, <1>6 DEF Init, TypeOK, Phases, Errors
<1>8. GroupsInv
  BY <1>2, <1>3, <1>5, NewPlanFacts DEF GroupsInv, Good
<1>9. QueuesAgree
  BY <1>2, <1>3, <1>4, <1>5, NewPlanFacts DEF Init, QueuesAgree
<1> QED BY <1>7, <1>8, <1>9 DEF Core

-----------------------------------------------------------------------------
\* The devices.

OnDevice(st) == st = "running" \/ st = "swapped"

LEMMA HeldFacts ==
  ASSUME Core, NEW st, OnDevice(st)
  PROVE  /\ \A g \in Groups : BlocksIn(st)[g] \in Nat /\ (group[g].status = st => Blocks(g) \in Nat)
         /\ \A g \in Groups : BlocksIn(st)[g] = IF group[g].status = st THEN Blocks(g) ELSE 0
         /\ Held(st) \in Nat
<1>1. \A g \in Groups : BlocksIn(st)[g] = IF group[g].status = st THEN Blocks(g) ELSE 0
  BY DEF BlocksIn
<1>2. ASSUME NEW g \in Groups, group[g].status = st PROVE Blocks(g) \in Nat
  BY <1>2, CoreFacts, BlocksFacts DEF OnDevice, Blocks
<1>3. \A g \in Groups : BlocksIn(st)[g] \in Nat
  BY <1>1, <1>2
<1>4. NumGroups \in Nat
  BY CoreFacts
<1>5. Held(st) \in Nat
  BY <1>3, <1>4, SumOrder DEF Held, Total
<1> QED BY <1>1, <1>2, <1>3, <1>5

LEMMA HeldAfter ==
  ASSUME Core', NEW st, OnDevice(st)
  PROVE  /\ \A g \in Groups : BlocksIn(st)'[g] \in Nat
                              /\ (group'[g].status = st => BlocksOf(group'[g]) \in Nat)
         /\ \A g \in Groups : BlocksIn(st)'[g] = IF group'[g].status = st THEN BlocksOf(group'[g]) ELSE 0
         /\ Held(st)' = Total(BlocksIn(st)') /\ Held(st)' \in Nat
<1>1. (/\ \A g \in Groups : BlocksIn(st)[g] \in Nat /\ (group[g].status = st => Blocks(g) \in Nat)
       /\ \A g \in Groups : BlocksIn(st)[g] = IF group[g].status = st THEN Blocks(g) ELSE 0
       /\ Held(st) \in Nat)'
  BY HeldFacts, PTL
<1> QED BY <1>1 DEF Blocks, Held, Total

\* One group moves, and its blocks with it.
LEMMA HeldMoves ==
  ASSUME Core, Core', NEW g, NEW r, Moves(g, r), NEW st, OnDevice(st)
  PROVE  /\ Held(st)' = Held(st) - (IF group[g].status = st THEN Blocks(g) ELSE 0)
                                 + (IF r.status = st THEN BlocksOf(r) ELSE 0)
         /\ Held(st) \in Nat /\ group[g].status = st => Blocks(g) \in Nat
<1> DEFINE f == BlocksIn(st)
           e == BlocksIn(st)'
<1>1. /\ \A h \in Groups : f[h] \in Nat /\ f[h] = IF group[h].status = st THEN Blocks(h) ELSE 0
      /\ Held(st) \in Nat /\ \A h \in Groups : group[h].status = st => Blocks(h) \in Nat
  BY HeldFacts
<1>2. /\ \A h \in Groups : e[h] \in Nat /\ e[h] = IF group'[h].status = st THEN BlocksOf(group'[h]) ELSE 0
      /\ Held(st)' = Total(e)
  BY HeldAfter
<1>3. g \in Groups /\ \A h \in Groups : group'[h] = IF h = g THEN r ELSE group[h]
  BY DEF Moves
<1>4. NumGroups \in Nat /\ Held(st) = Total(f)
  BY CoreFacts DEF Held
<1> HIDE DEF f, e
<1>5. \A h \in Groups : h # g => e[h] = f[h]
  BY <1>1, <1>2, <1>3 DEF Blocks
<1>6. SumUpTo(e, NumGroups) = SumUpTo(f, NumGroups) - f[g] + e[g]
  <2>1. g \in 1 .. NumGroups /\ \A h \in 1 .. NumGroups : f[h] \in Int /\ e[h] \in Int
    BY <1>1, <1>2, <1>3
  <2>2. \A h \in 1 .. NumGroups : h # g => e[h] = f[h]
    BY <1>5
  <2>3. NumGroups \in Nat
    BY <1>4
  <2> HIDE SchedulerAssumption DEF Groups
  <2> QED BY <2>1, <2>2, <2>3, SumChange
<1>7. f[g] = (IF group[g].status = st THEN Blocks(g) ELSE 0) /\ e[g] = (IF r.status = st THEN BlocksOf(r) ELSE 0)
  BY <1>1, <1>2, <1>3
<1> QED BY <1>1, <1>2, <1>3, <1>4, <1>6, <1>7, Zenon DEF Total

\* No group moves.
LEMMA HeldStays ==
  ASSUME group' = group, NEW st
  PROVE  Held(st)' = Held(st)
BY DEF Held, BlocksIn, Blocks

\* The device of a group: what an action says of its status.
LEMMA FreeFacts ==
  ASSUME Core
  PROVE  /\ FreeGpu \in Int /\ FreeCpu \in Int /\ Held("running") \in Nat /\ Held("swapped") \in Nat
         /\ FreeGpu = GpuBlocks - lost.gpu - Held("running")
         /\ FreeCpu = CpuBlocks - lost.cpu - Held("swapped")
         /\ GpuBlocks \in Nat /\ CpuBlocks \in Nat /\ Watermark \in Nat
         /\ lost.gpu \in Nat /\ lost.cpu \in Nat
<1>1. GpuBlocks \in Nat /\ CpuBlocks \in Nat /\ Watermark \in Nat
  BY CoreFacts DEF Limits
<1>2. lost.gpu \in Nat /\ lost.cpu \in Nat
  BY DEF Core, TypeOK
<1>3. Held("running") \in Nat /\ Held("swapped") \in Nat
  BY HeldFacts DEF OnDevice
<1> QED BY <1>1, <1>2, <1>3 DEF FreeGpu, FreeCpu

LEMMA FreeAfter ==
  ASSUME config' = config
  PROVE  /\ FreeGpu' = GpuBlocks - lost'.gpu - Held("running")'
         /\ FreeCpu' = CpuBlocks - lost'.cpu - Held("swapped")'
BY SameConfig DEF FreeGpu, FreeCpu

\* The blocks a group needs for its next step.
LEMMA AppendedBlocks ==
  ASSUME Limits, NEW r, Good(r), r.status \in {"running", "swapped"}
  PROVE  BlocksOf(Appended(r)) \in Nat /\ BlocksOf(Appended(r)) <= BlocksOf(r) + Cardinality(r.live)
<1>1. /\ r.prefix \in Nat /\ r.slots \in Nat /\ r.len \in Nat /\ Cardinality(r.live) \in Nat
      /\ r.prefix <= r.slots /\ r.slots <= r.len /\ r.len <= r.slots + 1 /\ r \in GroupType
  BY GoodFacts DEF Good, GroupType, GroupInv
<1>2. /\ Appended(r).prefix = r.prefix /\ Appended(r).slots = r.len /\ Appended(r).live = r.live
  BY <1>1 DEF Appended, GroupType
<1> DEFINE k == Cardinality(r.live)
           d == r.slots - r.prefix
<1>3. d \in Nat /\ k \in Nat /\ (r.len - r.prefix = d \/ r.len - r.prefix = d + 1)
  BY <1>1
<1> HIDE DEF k, d
<1>4. k * d \in Nat /\ k * (d + 1) = k * d + k
  BY <1>3, Monotone
<1>5. k * (r.len - r.prefix) \in Nat /\ k * (r.len - r.prefix) <= k * d + k
  BY <1>3, <1>4
<1>6. BlocksOf(Appended(r)) = r.prefix + k * (r.len - r.prefix) /\ BlocksOf(r) = r.prefix + k * d
  BY <1>2 DEF BlocksOf, k, d
<1> QED BY <1>1, <1>4, <1>5, <1>6 DEF k

LEMMA AllocatedBlocks ==
  ASSUME Limits, NEW r, Good(r), r.status = "waiting"
  PROVE  BlocksOf(Allocated(r)) = r.len /\ r.len \in Nat
<1>1. r \in GroupType /\ r.len \in Nat /\ Cardinality(r.live) \in Nat
  BY GoodFacts DEF Good, GroupType
<1>2. /\ Allocated(r).prefix = r.len /\ Allocated(r).slots = r.len /\ Allocated(r).live = r.live
  BY <1>1 DEF Allocated, GroupType
<1>3. BlocksOf(Allocated(r)) = r.len + Cardinality(r.live) * (r.len - r.len)
  BY <1>2 DEF BlocksOf
<1>4. r.len - r.len = 0 /\ Cardinality(r.live) * 0 = 0
  BY <1>1, MonotoneLeft
<1> QED BY <1>1, <1>3, <1>4

\* What a step does not give back, it still holds.
LEMMA RanBlocks ==
  ASSUME Core, NEW g \in plan.scheduled, g \in Groups, Ran(g)
  PROVE  (IF group'[g].status = "running" THEN BlocksOf(group'[g]) ELSE 0)
           + (IF g \in Over THEN Leak(group[g]) ELSE 0) <= Blocks(g)
<1> DEFINE r == group[g]
           s == group'[g]
<1>1. /\ Limits /\ Good(r) /\ r.status = "running" /\ r.slots = r.len /\ plan.chunk[g] \in Int
  BY CoreFacts DEF Ran
<1>2. /\ Leak(r) \in Nat /\ BlocksOf(r) \in Nat /\ Leak(r) <= BlocksOf(r)
      /\ r.prefix \in Nat /\ r.slots \in Nat
  BY <1>1, BlocksFacts
<1>3. /\ r.prefix <= r.slots /\ (r.seqs # r.best_of => r.prefix = r.len) /\ r.live # {}
  BY <1>1, GoodFacts DEF Good, GroupInv
<1>4. s.live = {} <=> g \in Over
  BY DEF Over
<1> HIDE DEF r, s
<1>5. CASE s = Ended
  <2>1. s.live = {} /\ s.status # "running"
    BY <1>1, <1>5, EndedGood
  <2> QED BY <1>2, <1>4, <2>1 DEF r, s, Blocks
<1>6. CASE GoesOn(s, r) /\ Goes(s, r)
  <2>1. s.status = "running" /\ s.prefix = r.prefix /\ s.slots = r.slots /\ g \notin Over
    BY <1>1, <1>4, <1>6 DEF GoesOn
  <2>2. BlocksOf(s) <= BlocksOf(r)
    <3>1. /\ Cardinality(r.live) \in Nat /\ Cardinality(r.flagged) \in Nat
          /\ Cardinality(r.flagged) <= Cardinality(r.live)
          /\ Cardinality(r.live \ r.flagged) = Cardinality(r.live) - Cardinality(r.flagged)
          /\ r.best_of \in Nat /\ Cardinality(1 .. r.best_of) = r.best_of
      BY <1>1, GoodFacts, LiveFacts
    <3>2. CASE r.seqs # r.best_of /\ s.live = 1 .. r.best_of
      <4>1. r.slots - r.prefix = 0
        BY <1>1, <1>2, <1>3, <3>2
      <4>2. Cardinality(r.live) * 0 = 0 /\ r.best_of * 0 = 0
        BY <3>1, MonotoneLeft
      <4>3. BlocksOf(s) = r.prefix + r.best_of * (r.slots - r.prefix)
        BY <2>1, <3>1, <3>2 DEF BlocksOf
      <4>4. BlocksOf(r) = r.prefix + Cardinality(r.live) * (r.slots - r.prefix)
        BY DEF BlocksOf
      <4> QED BY <1>2, <4>1, <4>2, <4>3, <4>4
    <3>3. CASE s.live = r.live \ r.flagged
      <4> DEFINE j == Cardinality(r.live \ r.flagged)
                 k == Cardinality(r.live)
                 d == r.slots - r.prefix
      <4>1. j \in Nat /\ k \in Nat /\ j <= k /\ d \in Nat
        BY <1>2, <1>3, <3>1
      <4>2. BlocksOf(s) = r.prefix + j * d /\ BlocksOf(r) = r.prefix + k * d
        BY <2>1, <3>3 DEF BlocksOf
      <4> HIDE DEF j, k, d
      <4>3. j * d \in Nat /\ k * d \in Nat /\ j * d <= k * d
        BY <4>1, MonotoneLeft
      <4> QED BY <1>2, <4>2, <4>3
    <3> QED BY <1>6, <3>2, <3>3 DEF Goes
  <2>3. BlocksOf(s) \in Int
    <3>1. s.status = "running" /\ Good(s)
      BY <1>1, <2>1, RanGood DEF s
    <3> QED BY <1>1, <3>1, BlocksFacts
  <2> QED BY <1>2, <2>1, <2>2, <2>3 DEF r, s, Blocks
<1>7. CASE s = Computed(r, plan.chunk[g])
  <2>1. /\ s.status = "running" /\ s.live = r.live /\ s.prefix = r.prefix /\ s.slots = r.slots
    BY <1>1, <1>7, ComputedFields
  <2>2. g \notin Over /\ BlocksOf(s) = BlocksOf(r)
    BY <1>3, <1>4, <2>1 DEF BlocksOf
  <2> QED BY <1>2, <2>1, <2>2 DEF r, s, Blocks
<1>8. s = Ended \/ (GoesOn(s, r) /\ Goes(s, r)) \/ s = Computed(r, plan.chunk[g])
  <2>1. \/ s = Computed(r, plan.chunk[g])
        \/ \E stop : s = Next1(r, plan.chunk[g], stop)
    BY DEF Ran, r, s
  <2>2. ASSUME NEW stop, s = Next1(r, plan.chunk[g], stop)
        PROVE  s = Ended \/ (GoesOn(s, r) /\ Goes(s, r))
    BY <1>1, <2>2, SampledFields DEF r
  <2> QED BY <2>1, <2>2
<1> QED BY <1>5, <1>6, <1>7, <1>8

LEMMA ExecuteHeld ==
  ASSUME Core, Core', Executes, config' = config
  PROVE  FreeGpu' >= FreeGpu /\ FreeCpu' = FreeCpu
<1> DEFINE f == BlocksIn("running")
           e == BlocksIn("running")'
           l == [g \in Groups |-> IF g \in Over THEN Leak(group[g]) ELSE 0]
           s == [g \in Groups |-> e[g] + l[g]]
<1>1. /\ \A h \in Groups : f[h] \in Nat /\ f[h] = IF group[h].status = "running" THEN Blocks(h) ELSE 0
      /\ Held("running") \in Nat
  BY HeldFacts DEF OnDevice
<1>2. /\ \A h \in Groups : e[h] \in Nat
                           /\ e[h] = IF group'[h].status = "running" THEN BlocksOf(group'[h]) ELSE 0
      /\ Held("running")' = Total(e) /\ Held("running") = Total(f)
  BY HeldAfter DEF OnDevice, Held
<1>3. \A h \in Groups : l[h] \in Nat /\ l[h] = IF h \in Over THEN Leak(group[h]) ELSE 0
  BY OverLeaks
<1>4. \A h \in Groups : s[h] = e[h] + l[h]
  OBVIOUS
<1>5. lost' = [lost EXCEPT !.gpu = @ + Total(l)]
  BY DEF Executes
<1>6. NumGroups \in Nat
  BY CoreFacts
<1> HIDE DEF f, e, l, s
<1>7. \A h \in Groups : s[h] \in Nat /\ s[h] <= f[h]
  <2> SUFFICES ASSUME NEW h \in Groups PROVE s[h] \in Nat /\ s[h] <= f[h]
    OBVIOUS
  <2>1. s[h] \in Nat
    BY <1>2, <1>3, <1>4
  <2>2. CASE h \in plan.scheduled
    <3>1. Ran(h) /\ group[h].status = "running"
      BY <2>2 DEF Executes, Ran
    <3>2. (IF group'[h].status = "running" THEN BlocksOf(group'[h]) ELSE 0)
             + (IF h \in Over THEN Leak(group[h]) ELSE 0) <= Blocks(h)
      BY <2>2, <3>1, RanBlocks
    <3>3. e[h] + l[h] <= f[h]
      BY <1>1, <1>2, <1>3, <3>1, <3>2
    <3> QED BY <1>4, <2>1, <3>3
  <2>3. CASE h \notin plan.scheduled
    <3>1. group'[h] = group[h] /\ h \notin Over
      BY <2>3 DEF Executes, Over
    <3>2. e[h] = f[h] /\ l[h] = 0
      BY <1>1, <1>2, <1>3, <3>1 DEF Blocks
    <3> QED BY <1>1, <1>4, <2>1, <3>2
  <2> QED BY <2>2, <2>3
<1>8. SumUpTo(s, NumGroups) = SumUpTo(e, NumGroups) + SumUpTo(l, NumGroups)
  BY <1>2, <1>3, <1>4, <1>6, SumAdd
<1>9. SumUpTo(s, NumGroups) <= SumUpTo(f, NumGroups)
  BY <1>1, <1>6, <1>7, SumOrder
<1>10. Total(e) \in Nat /\ Total(l) \in Nat /\ Total(f) \in Nat
  BY <1>1, <1>2, <1>3, <1>6, SumOrder DEF Total
<1>11. Total(e) + Total(l) <= Total(f)
  BY <1>8, <1>9 DEF Total
<1>12. lost'.gpu = lost.gpu + Total(l) /\ lost'.cpu = lost.cpu
  BY <1>5, <1>10, LostType DEF Core, TypeOK
<1>13. Held("swapped")' = Held("swapped")
  <2> DEFINE a == BlocksIn("swapped")
             b == BlocksIn("swapped")'
  <2>1. \A h \in Groups : a[h] \in Nat /\ a[h] = IF group[h].status = "swapped" THEN Blocks(h) ELSE 0
    BY HeldFacts DEF OnDevice
  <2>2. /\ \A h \in Groups : b[h] = IF group'[h].status = "swapped" THEN BlocksOf(group'[h]) ELSE 0
        /\ Held("swapped")' = Total(b) /\ Held("swapped") = Total(a)
    BY HeldAfter DEF OnDevice, Held
  <2> HIDE DEF a, b
  <2>3. \A h \in Groups : b[h] = a[h]
    <3> SUFFICES ASSUME NEW h \in Groups PROVE b[h] = a[h]
      OBVIOUS
    <3>1. CASE h \in plan.scheduled
      <4>1. group[h].status = "running" /\ group'[h].status # "swapped"
        BY <3>1 DEF Executes, Ran
      <4> QED BY <2>1, <2>2, <4>1
    <3>2. CASE h \notin plan.scheduled
      <4>1. group'[h] = group[h]
        BY <3>2 DEF Executes
      <4> QED BY <2>1, <2>2, <4>1 DEF Blocks
    <3> QED BY <3>1, <3>2
  <2>4. SumUpTo(b, NumGroups) = SumUpTo(a, NumGroups)
    BY <1>6, <2>1, <2>3, SumSame
  <2> QED BY <2>2, <2>4 DEF Total
<1>14. /\ FreeGpu' = GpuBlocks - lost'.gpu - Total(e) /\ FreeGpu = GpuBlocks - lost.gpu - Total(f)
       /\ FreeCpu' = CpuBlocks - lost'.cpu - Held("swapped")' /\ FreeCpu = CpuBlocks - lost.cpu - Held("swapped")
       /\ lost.gpu \in Nat /\ GpuBlocks \in Nat
  BY <1>2, FreeFacts, FreeAfter
<1> QED BY <1>10, <1>11, <1>12, <1>13, <1>14

\* What a group holds of a device.
OnIt(st, r) == IF r.status = st THEN BlocksOf(r) ELSE 0

LEMMA FreeMoves ==
  ASSUME Core, Core', config' = config, NEW g, NEW r, Moves(g, r)
  PROVE  /\ FreeGpu' = FreeGpu + OnIt("running", group[g]) - OnIt("running", r) + lost.gpu - lost'.gpu
         /\ FreeCpu' = FreeCpu + OnIt("swapped", group[g]) - OnIt("swapped", r) + lost.cpu - lost'.cpu
         /\ FreeGpu \in Int /\ FreeCpu \in Int
         /\ OnIt("running", group[g]) \in Nat /\ OnIt("running", r) \in Nat
         /\ OnIt("swapped", group[g]) \in Nat /\ OnIt("swapped", r) \in Nat
         /\ lost.gpu \in Nat /\ lost.cpu \in Nat /\ lost'.gpu \in Nat /\ lost'.cpu \in Nat
<1>1. /\ FreeGpu \in Int /\ FreeCpu \in Int /\ Held("running") \in Nat /\ Held("swapped") \in Nat
      /\ FreeGpu = GpuBlocks - lost.gpu - Held("running")
      /\ FreeCpu = CpuBlocks - lost.cpu - Held("swapped")
      /\ GpuBlocks \in Nat /\ CpuBlocks \in Nat /\ lost.gpu \in Nat /\ lost.cpu \in Nat
  BY FreeFacts
<1>2. /\ FreeGpu' = GpuBlocks - lost'.gpu - Held("running")'
      /\ FreeCpu' = CpuBlocks - lost'.cpu - Held("swapped")'
  BY FreeAfter
<1>3. /\ Held("running")' = Held("running") - OnIt("running", group[g]) + OnIt("running", r)
      /\ Held("swapped")' = Held("swapped") - OnIt("swapped", group[g]) + OnIt("swapped", r)
  BY HeldMoves DEF OnIt, Blocks, OnDevice
<1>4. lost'.gpu \in Nat /\ lost'.cpu \in Nat
  BY DEF Core, TypeOK
<1>5. Limits /\ Good(group[g]) /\ Good(r)
  BY CoreFacts DEF Moves
<1>6. /\ OnIt("running", group[g]) \in Nat /\ OnIt("running", r) \in Nat
      /\ OnIt("swapped", group[g]) \in Nat /\ OnIt("swapped", r) \in Nat
  BY <1>5, BlocksFacts DEF OnIt
<1> QED BY <1>1, <1>2, <1>3, <1>4, <1>6

LEMMA AddMemory ==
  ASSUME Core, Core', MemoryRespected, config' = config,
         (\E g, len, n : Adds(g, len, n)) \/ (\E g : Ignores(g))
  PROVE  MemoryRespected'
<1>1. PICK g, r : /\ Moves(g, r) /\ lost' = lost
                  /\ group[g].status \in {"finished", "waiting"} /\ r.status \in {"finished", "waiting"}
  <2>1. ASSUME NEW g, NEW len, NEW n, Adds(g, len, n)
        PROVE  \E h, r : /\ Moves(h, r) /\ lost' = lost
                  /\ group[h].status \in {"finished", "waiting"} /\ r.status \in {"finished", "waiting"}
    BY <2>1 DEF Adds
  <2>2. ASSUME NEW g, Ignores(g)
        PROVE  \E h, r : /\ Moves(h, r) /\ lost' = lost
                  /\ group[h].status \in {"finished", "waiting"} /\ r.status \in {"finished", "waiting"}
    BY <2>2 DEF Ignores, LeavesWaiting
  <2> QED BY <2>1, <2>2
<1>2. /\ OnIt("running", group[g]) = 0 /\ OnIt("running", r) = 0
      /\ OnIt("swapped", group[g]) = 0 /\ OnIt("swapped", r) = 0
  BY <1>1 DEF OnIt
<1> QED BY <1>1, <1>2, FreeMoves DEF MemoryRespected

LEMMA PrefillMemory ==
  ASSUME Core, Core', MemoryRespected, config' = config, NEW g, NEW new, Prefills(g, new)
  PROVE  MemoryRespected'
<1> DEFINE r == Allocated(group[g])
<1>1. /\ Moves(g, r) /\ lost' = lost /\ group[g].status = "waiting" /\ r.status = "running"
      /\ FreeGpu - group[g].len >= Watermark
  BY DEF Prefills, LeavesWaiting, CanAllocate
<1>2. BlocksOf(r) = group[g].len /\ group[g].len \in Nat /\ Watermark \in Nat
  BY <1>1, CoreFacts, AllocatedBlocks DEF Moves, Limits
<1> HIDE DEF r
<1>3. /\ OnIt("running", group[g]) = 0 /\ OnIt("running", r) = group[g].len
      /\ OnIt("swapped", group[g]) = 0 /\ OnIt("swapped", r) = 0
  BY <1>1, <1>2 DEF OnIt
<1> QED BY <1>1, <1>2, <1>3, FreeMoves DEF MemoryRespected

LEMMA RecomputeMemory ==
  ASSUME Core, Core', MemoryRespected, config' = config, NEW g, NEW v, Recomputes(g, v)
  PROVE  MemoryRespected'
<1> DEFINE r == Recomputed(group[v])
<1>1. /\ Moves(v, r) /\ group[v].status = "running" /\ r.status = "waiting"
      /\ lost' = [lost EXCEPT !.gpu = @ + Leak(group[v])]
  BY DEF Recomputes, Victimises
<1>2. Leak(group[v]) \in Nat /\ Leak(group[v]) <= BlocksOf(group[v])
  BY <1>1, CoreFacts, BlocksFacts DEF Moves
<1>3. lost'.gpu = lost.gpu + Leak(group[v]) /\ lost'.cpu = lost.cpu
  BY <1>1, <1>2, LostType DEF Core, TypeOK
<1> HIDE DEF r
<1>4. /\ OnIt("running", group[v]) = BlocksOf(group[v]) /\ OnIt("running", r) = 0
      /\ OnIt("swapped", group[v]) = 0 /\ OnIt("swapped", r) = 0
  BY <1>1 DEF OnIt
<1> QED BY <1>1, <1>2, <1>3, <1>4, FreeMoves DEF MemoryRespected

LEMMA SwapOutMemory ==
  ASSUME Core, Core', MemoryRespected, config' = config, NEW g, NEW v, SwapsOut(g, v)
  PROVE  MemoryRespected'
<1> DEFINE r == [group[v] EXCEPT !.status = "swapped"]
<1>1. /\ Moves(v, r) /\ group[v].status = "running" /\ r.status = "swapped" /\ lost' = lost
      /\ BlocksOf(group[v]) <= FreeCpu
  BY DEF SwapsOut, Victimises, Blocks
<1>2. BlocksOf(r) = BlocksOf(group[v])
  <2>1. group[v] \in GroupType
    BY <1>1 DEF Moves, Good
  <2>2. r.prefix = group[v].prefix /\ r.slots = group[v].slots /\ r.live = group[v].live
    BY <2>1 DEF GroupType
  <2> QED BY <2>2 DEF BlocksOf
<1> HIDE DEF r
<1>3. /\ OnIt("running", group[v]) = BlocksOf(group[v]) /\ OnIt("running", r) = 0
      /\ OnIt("swapped", group[v]) = 0 /\ OnIt("swapped", r) = BlocksOf(group[v])
  BY <1>1, <1>2 DEF OnIt
<1> QED BY <1>1, <1>3, FreeMoves DEF MemoryRespected

LEMMA AppendMemory ==
  ASSUME Core, Core', MemoryRespected, config' = config, NEW g, NEW new, Appends(g, new)
  PROVE  MemoryRespected'
<1> DEFINE r == Appended(group[g])
<1>1. /\ Moves(g, r) /\ group[g].status = "running" /\ r.status = "running" /\ lost' = lost
      /\ Cardinality(group[g].live) <= FreeGpu
  BY DEF Appends, CanAppendSlots, LiveSeqs
<1>2. /\ BlocksOf(r) \in Nat /\ BlocksOf(r) <= BlocksOf(group[g]) + Cardinality(group[g].live)
      /\ BlocksOf(group[g]) \in Nat /\ Cardinality(group[g].live) \in Nat
  BY <1>1, CoreFacts, AppendedBlocks, BlocksFacts, GoodFacts DEF Moves
<1> HIDE DEF r
<1>3. /\ OnIt("running", group[g]) = BlocksOf(group[g]) /\ OnIt("running", r) = BlocksOf(r)
      /\ OnIt("swapped", group[g]) = 0 /\ OnIt("swapped", r) = 0
  BY <1>1 DEF OnIt
<1> QED BY <1>1, <1>2, <1>3, FreeMoves DEF MemoryRespected

LEMMA ReturnMemory ==
  ASSUME Core, Core', MemoryRespected, config' = config, NEW g, NEW new, Returns(g, new)
  PROVE  MemoryRespected'
<1> DEFINE r == Appended(group[g])
<1>1. /\ Moves(g, r) /\ group[g].status = "swapped" /\ r.status = "running" /\ lost' = lost
      /\ FreeGpu - (BlocksOf(group[g]) + Cardinality(group[g].live)) >= Watermark
  BY DEF Returns, OnCpu, CanSwapIn, Required, Blocks, LiveSeqs
<1>2. /\ BlocksOf(r) \in Nat /\ BlocksOf(r) <= BlocksOf(group[g]) + Cardinality(group[g].live)
      /\ BlocksOf(group[g]) \in Nat /\ Cardinality(group[g].live) \in Nat /\ Watermark \in Nat
  BY <1>1, CoreFacts, AppendedBlocks, BlocksFacts, GoodFacts DEF Moves, Limits
<1> HIDE DEF r
<1>3. /\ OnIt("running", group[g]) = 0 /\ OnIt("running", r) = BlocksOf(r)
      /\ OnIt("swapped", group[g]) = BlocksOf(group[g]) /\ OnIt("swapped", r) = 0
  BY <1>1 DEF OnIt
<1> QED BY <1>1, <1>2, <1>3, FreeMoves DEF MemoryRespected

LEMMA NeverReturnMemory ==
  ASSUME Core, Core', MemoryRespected, config' = config, NEW g, NeverReturns(g)
  PROVE  MemoryRespected'
<1>1. /\ Moves(g, Ended) /\ group[g].status = "swapped" /\ Ended.status = "finished"
      /\ lost' = [lost EXCEPT !.cpu = @ + BlocksOf(group[g])]
  BY DEF NeverReturns, OnCpu, Blocks
<1>2. BlocksOf(group[g]) \in Nat
  BY <1>1, CoreFacts, BlocksFacts DEF Moves
<1>3. lost'.gpu = lost.gpu /\ lost'.cpu = lost.cpu + BlocksOf(group[g])
  BY <1>1, <1>2, LostType DEF Core, TypeOK
<1>4. /\ OnIt("running", group[g]) = 0 /\ OnIt("running", Ended) = 0
      /\ OnIt("swapped", group[g]) = BlocksOf(group[g]) /\ OnIt("swapped", Ended) = 0
  BY <1>1 DEF OnIt
<1> QED BY <1>1, <1>2, <1>3, <1>4, FreeMoves DEF MemoryRespected

LEMMA AbortMemory ==
  ASSUME Core, Core', MemoryRespected, config' = config, NEW g, Aborts(g)
  PROVE  MemoryRespected'
<1>1. /\ Moves(g, Ended) /\ Ended.status = "finished" /\ OnGpu = running
      /\ lost' = IF g \in running THEN [lost EXCEPT !.gpu = @ + Leak(group[g])] ELSE lost
  BY DEF Aborts, AtRest
<1>2. OnIt("running", Ended) = 0 /\ OnIt("swapped", Ended) = 0
  BY <1>1 DEF OnIt
<1>3. CASE g \in running
  <2>1. group[g].status = "running"
    BY <1>1, <1>3, Places DEF Moves
  <2>2. Leak(group[g]) \in Nat /\ Leak(group[g]) <= BlocksOf(group[g])
    BY <1>1, <2>1, CoreFacts, BlocksFacts DEF Moves
  <2>3. lost'.gpu = lost.gpu + Leak(group[g]) /\ lost'.cpu = lost.cpu
    BY <1>1, <1>3, <2>2, LostType DEF Core, TypeOK
  <2>4. OnIt("running", group[g]) = BlocksOf(group[g]) /\ OnIt("swapped", group[g]) = 0
    BY <2>1 DEF OnIt
  <2> QED BY <1>1, <1>2, <2>2, <2>3, <2>4, FreeMoves DEF MemoryRespected
<1>4. CASE g \notin running
  <2>1. lost'.gpu = lost.gpu /\ lost'.cpu = lost.cpu
    BY <1>1, <1>4
  <2> DEFINE a == OnIt("running", group[g])
             b == OnIt("swapped", group[g])
  <2>2. /\ FreeGpu' = FreeGpu + a /\ FreeCpu' = FreeCpu + b
        /\ a \in Nat /\ b \in Nat /\ FreeGpu \in Int /\ FreeCpu \in Int
    BY <1>1, <1>2, <2>1, FreeMoves
  <2> HIDE DEF a, b
  <2> QED BY <2>2 DEF MemoryRespected
<1> QED BY <1>3, <1>4

LEMMA StillMemory ==
  ASSUME MemoryRespected, config' = config, group' = group, lost' = lost
  PROVE  MemoryRespected'
<1>1. Held("running")' = Held("running") /\ Held("swapped")' = Held("swapped")
  BY HeldStays
<1>2. FreeGpu' = FreeGpu /\ FreeCpu' = FreeCpu
  BY <1>1, FreeAfter DEF FreeGpu, FreeCpu
<1> QED BY <1>2 DEF MemoryRespected

LEMMA MemoryStep ==
  ASSUME Core, Core', MemoryRespected, Happens, config' = config
  PROVE  MemoryRespected'
<1>1. ASSUME Starts \/ Turns \/ Commits \/ Fails \/ \E g, v : RunsOut(g, v)
      PROVE  MemoryRespected'
  <2>1. group' = group /\ lost' = lost
    BY <1>1 DEF Starts, Turns, Commits, Fails, RunsOut
  <2> QED BY <2>1, StillMemory
<1>2. ASSUME Executes PROVE MemoryRespected'
  <2>1. FreeGpu' >= FreeGpu /\ FreeCpu' = FreeCpu /\ FreeGpu \in Int /\ FreeCpu \in Int
    BY <1>2, ExecuteHeld, FreeFacts
  <2>2. (FreeGpu \in Int)'
    BY FreeFacts, PTL
  <2> QED BY <2>1, <2>2 DEF MemoryRespected
<1> QED BY <1>1, <1>2, AddMemory, PrefillMemory, RecomputeMemory, SwapOutMemory, AppendMemory,
           ReturnMemory, NeverReturnMemory, AbortMemory DEF Happens

LEMMA InitMemory == Init => MemoryRespected
<1> SUFFICES ASSUME Init PROVE MemoryRespected
  OBVIOUS
<1>1. /\ Limits /\ NumGroups \in Nat /\ lost.gpu = 0 /\ lost.cpu = 0
      /\ \A g \in Groups : group[g].status = "finished"
  BY InitCore, CoreFacts, EndedGood DEF Init
<1>2. /\ \A g \in Groups : BlocksIn("running")[g] = 0
      /\ \A g \in Groups : BlocksIn("swapped")[g] = 0
  BY <1>1 DEF BlocksIn
<1>3. Held("running") = 0 /\ Held("swapped") = 0
  BY <1>1, <1>2, SumOfZeros DEF Held, Total
<1> QED BY <1>1, <1>3 DEF MemoryRespected, FreeGpu, FreeCpu, Limits

-----------------------------------------------------------------------------
\* The sequences that run.

WOf(r) == IF r.best_of > r.seqs THEN r.best_of ELSE Cardinality(r.live)

LEMMA WFacts ==
  ASSUME Limits, NEW r, Good(r)
  PROVE  /\ WOf(r) \in Nat /\ Cardinality(r.live) <= WOf(r)
         /\ r.live # {} => WOf(r) >= 1
<1> DEFINE k == Cardinality(r.live)
<1>1. /\ r.best_of \in Nat /\ r.best_of >= 1 /\ k \in Nat /\ k <= r.best_of
      /\ (r.live # {} => k # 0)
  BY GoodFacts
<1>3. WOf(r) = IF r.best_of > r.seqs THEN r.best_of ELSE k
  BY DEF WOf
<1> HIDE DEF k
<1>4. WOf(r) \in Nat /\ k <= WOf(r) /\ (r.live # {} => WOf(r) >= 1)
  BY <1>1, <1>3
<1> QED BY <1>4 DEF k

LEMMA ForkedFacts ==
  ASSUME Core
  PROVE  /\ \A g \in Groups : MaxNumRunningSeqs(g) = WOf(group[g]) /\ WOf(group[g]) \in Nat
         /\ \A g \in Groups : /\ Forked(OnGpu)[g] = IF g \in OnGpu THEN WOf(group[g]) ELSE 0
                              /\ Forked(OnGpu)[g] \in Nat
         /\ Total(Forked(OnGpu)) \in Nat
         /\ plan.seqs \in [Groups -> Nat] /\ Total(plan.seqs) \in Nat
<1>1. \A g \in Groups : MaxNumRunningSeqs(g) = WOf(group[g]) /\ WOf(group[g]) \in Nat
  BY CoreFacts, WFacts DEF MaxNumRunningSeqs, WOf, LiveSeqs
<1>2. \A g \in Groups : /\ Forked(OnGpu)[g] = IF g \in OnGpu THEN WOf(group[g]) ELSE 0
                        /\ Forked(OnGpu)[g] \in Nat
  BY <1>1 DEF Forked
<1>3. NumGroups \in Nat /\ plan.seqs \in [Groups -> Nat]
  BY CoreFacts, PlanFields
<1>4. Total(Forked(OnGpu)) \in Nat
  BY <1>2, <1>3, SumOrder DEF Total
<1>5. Total(plan.seqs) \in Nat
  BY <1>3, SumOrder DEF Total
<1> QED BY <1>1, <1>2, <1>3, <1>4, <1>5

LEMMA ForkedAfter ==
  ASSUME Core'
  PROVE  /\ \A g \in Groups : MaxNumRunningSeqs(g)' = WOf(group'[g]) /\ WOf(group'[g]) \in Nat
         /\ \A g \in Groups : /\ Forked(OnGpu)'[g] = IF g \in OnGpu' THEN WOf(group'[g]) ELSE 0
                              /\ Forked(OnGpu)'[g] \in Nat
         /\ Total(Forked(OnGpu))' = Total(Forked(OnGpu)') /\ Total(Forked(OnGpu))' \in Nat
         /\ plan'.seqs \in [Groups -> Nat] /\ Total(plan'.seqs) \in Nat
         /\ Total(plan.seqs)' = Total(plan'.seqs)
<1>1. (/\ \A g \in Groups : MaxNumRunningSeqs(g) = WOf(group[g]) /\ WOf(group[g]) \in Nat
       /\ \A g \in Groups : /\ Forked(OnGpu)[g] = IF g \in OnGpu THEN WOf(group[g]) ELSE 0
                            /\ Forked(OnGpu)[g] \in Nat
       /\ Total(Forked(OnGpu)) \in Nat
       /\ plan.seqs \in [Groups -> Nat] /\ Total(plan.seqs) \in Nat)'
  BY ForkedFacts, PTL
<1> QED BY <1>1 DEF Total, WOf

\* No more of them than before: nobody has come, and nobody has grown.
LEMMA FewerOnGpu ==
  ASSUME Core, Core', config' = config, GpuInLimit,
         \A g \in OnGpu' : g \in OnGpu /\ WOf(group'[g]) <= WOf(group[g])
  PROVE  GpuInLimit'
<1>1. /\ \A g \in 1 .. NumGroups : /\ Forked(OnGpu)[g] = IF g \in OnGpu THEN WOf(group[g]) ELSE 0
                                   /\ Forked(OnGpu)[g] \in Nat
      /\ \A g \in 1 .. NumGroups : WOf(group[g]) \in Nat
      /\ Total(Forked(OnGpu)) \in Nat
  BY ForkedFacts
<1>2. /\ \A g \in 1 .. NumGroups : /\ Forked(OnGpu)'[g] = IF g \in OnGpu' THEN WOf(group'[g]) ELSE 0
                                   /\ Forked(OnGpu)'[g] \in Nat
      /\ Total(Forked(OnGpu))' = Total(Forked(OnGpu)') /\ Total(Forked(OnGpu))' \in Nat
  BY ForkedAfter
<1>3. NumGroups \in Nat /\ MaxNumSeqs \in Nat /\ MaxNumSeqs' = MaxNumSeqs
  BY CoreFacts, SameConfig DEF Limits
<1> DEFINE f == Forked(OnGpu)
           e == Forked(OnGpu)'
<1>4. \A g \in 1 .. NumGroups : e[g] <= f[g]
  BY <1>1, <1>2
<1>5. SumUpTo(e, NumGroups) <= SumUpTo(f, NumGroups)
  <2> HIDE DEF f, e
  <2>1. \A g \in 1 .. NumGroups : e[g] \in Nat /\ f[g] \in Nat /\ e[g] <= f[g]
    BY <1>1, <1>2, <1>4 DEF f, e
  <2> HIDE SchedulerAssumption DEF Groups
  <2> QED BY <1>3, <2>1, SumOrder
<1> QED BY <1>1, <1>2, <1>3, <1>5 DEF GpuInLimit, Total

\* All of them are counted, so the count says how many they are.
LEMMA CountedOnGpu ==
  ASSUME Core', config' = config, CountsInLimit',
         \A g \in OnGpu' : WOf(group'[g]) <= plan'.seqs[g]
  PROVE  GpuInLimit'
<1>1. /\ \A g \in 1 .. NumGroups : /\ Forked(OnGpu)'[g] = IF g \in OnGpu' THEN WOf(group'[g]) ELSE 0
                                   /\ Forked(OnGpu)'[g] \in Nat
      /\ Total(Forked(OnGpu))' = Total(Forked(OnGpu)') /\ Total(Forked(OnGpu))' \in Nat
      /\ plan'.seqs \in [Groups -> Nat] /\ Total(plan'.seqs) \in Nat
      /\ Total(plan.seqs)' = Total(plan'.seqs)
  BY ForkedAfter
<1>2. (NumGroups \in Nat /\ MaxNumSeqs \in Nat)'
  <2>1. (Limits /\ NumGroups \in Nat)'
    BY CoreFacts, PTL
  <2> QED BY <2>1 DEF Limits
<1> DEFINE f == plan'.seqs
           e == Forked(OnGpu)'
<1>3. \A g \in 1 .. NumGroups : e[g] \in Nat /\ f[g] \in Nat /\ e[g] <= f[g]
  BY <1>1
<1>4. SumUpTo(e, NumGroups) <= SumUpTo(f, NumGroups)
  <2> HIDE DEF f, e
  <2> HIDE SchedulerAssumption DEF Groups
  <2> QED BY <1>2, <1>3, SumOrder
<1> QED BY <1>1, <1>2, <1>4 DEF GpuInLimit, CountsInLimit, Total

\* One count changes.
LEMMA OneCount ==
  ASSUME Core, NEW f \in [Groups -> Int], NEW g \in Groups, NEW x \in Int
  PROVE  /\ [f EXCEPT ![g] = x] \in [Groups -> Int]
         /\ \A h \in Groups : [f EXCEPT ![g] = x][h] = IF h = g THEN x ELSE f[h]
         /\ Total([f EXCEPT ![g] = x]) = Total(f) - f[g] + x
         /\ Total(f) \in Int /\ f[g] \in Int
<1> DEFINE e == [f EXCEPT ![g] = x]
<1>1. /\ e \in [Groups -> Int]
      /\ \A h \in Groups : e[h] = IF h = g THEN x ELSE f[h]
  OBVIOUS
<1>2. NumGroups \in Nat
  BY CoreFacts
<1> HIDE DEF e
<1>3. g \in 1 .. NumGroups /\ \A h \in 1 .. NumGroups : f[h] \in Int /\ e[h] \in Int
  BY <1>1
<1>4. (\A h \in 1 .. NumGroups : h # g => e[h] = f[h]) /\ e[g] = x
  BY <1>1
<1>5. SumUpTo(e, NumGroups) = SumUpTo(f, NumGroups) - f[g] + e[g]
  <2> HIDE SchedulerAssumption DEF Groups
  <2> QED BY <1>2, <1>3, <1>4, SumChange
<1>6. Total(f) \in Int
  BY <1>2, SumIsInt DEF Total
<1> QED BY <1>1, <1>3, <1>4, <1>5, <1>6 DEF Total, e

\* What a group counts for does not change while it is moved, and never grows.
LEMMA SameW ==
  ASSUME NEW r \in GroupType
  PROVE  /\ WOf(Allocated(r)) = WOf(r) /\ WOf(Appended(r)) = WOf(r)
         /\ Allocated(r).decode = r.decode /\ Allocated(r).computed = r.computed
         /\ Allocated(r).len = r.len /\ Allocated(r).refs = r.seqs
         /\ Appended(r).decode = r.decode /\ Appended(r).computed = r.computed
         /\ Appended(r).len = r.len /\ Appended(r).refs = r.refs
         /\ Recomputed(r).refs = 0 /\ Recomputed(r).computed = 0 /\ Recomputed(r).len = r.len
<1>1. /\ Allocated(r).best_of = r.best_of /\ Allocated(r).seqs = r.seqs /\ Allocated(r).live = r.live
      /\ Allocated(r).decode = r.decode /\ Allocated(r).computed = r.computed
      /\ Allocated(r).len = r.len /\ Allocated(r).refs = r.seqs
  BY DEF Allocated, GroupType
<1>2. /\ Appended(r).best_of = r.best_of /\ Appended(r).seqs = r.seqs /\ Appended(r).live = r.live
      /\ Appended(r).decode = r.decode /\ Appended(r).computed = r.computed
      /\ Appended(r).len = r.len /\ Appended(r).refs = r.refs
  BY DEF Appended, GroupType
<1>3. Recomputed(r).refs = 0 /\ Recomputed(r).computed = 0 /\ Recomputed(r).len = r.len
  BY DEF Recomputed, GroupType
<1> QED BY <1>1, <1>2, <1>3 DEF WOf

LEMMA RanW ==
  ASSUME Limits, NEW g, Ran(g), group'[g].live # {}
  PROVE  WOf(group'[g]) <= WOf(group[g])
<1> DEFINE r == group[g]
           s == group'[g]
<1>1. Good(r) /\ r.status = "running" /\ plan.chunk[g] \in Int
  BY DEF Ran
<1>2. /\ r.best_of \in Nat /\ r.seqs \in Nat /\ r.seqs <= r.best_of
      /\ Cardinality(r.live) \in Nat /\ Cardinality(r.flagged) \in Nat
      /\ Cardinality(1 .. r.best_of) = r.best_of
      /\ Cardinality(r.live \ r.flagged) = Cardinality(r.live) - Cardinality(r.flagged)
  BY <1>1, GoodFacts, LiveFacts
<1>3. CASE s = Computed(r, plan.chunk[g])
  <2>1. s.best_of = r.best_of /\ s.seqs = r.seqs /\ s.live = r.live
    BY <1>1, <1>3, ComputedFields
  <2>2. WOf(s) = WOf(r) /\ WOf(r) \in Nat
    BY <1>2, <2>1 DEF WOf
  <2> QED BY <2>2
<1>4. ASSUME NEW stop, s = Next1(r, plan.chunk[g], stop)
      PROVE  WOf(s) <= WOf(r)
  <2>1. s # Ended
    BY <1>1, EndedGood
  <2>2. GoesOn(s, r) /\ Goes(s, r)
    BY <1>1, <1>4, <2>1, SampledFields
  <2>3. WOf(s) = Cardinality(s.live)
    BY <1>2, <2>2 DEF GoesOn, WOf
  <2>4. CASE r.seqs # r.best_of /\ s.live = 1 .. r.best_of
    BY <1>2, <2>3, <2>4 DEF WOf
  <2>5. CASE r.seqs = r.best_of /\ s.live = r.live \ r.flagged
    BY <1>2, <2>3, <2>5 DEF WOf
  <2> QED BY <2>2, <2>4, <2>5 DEF Goes
<1> QED BY <1>3, <1>4 DEF Ran

\* Requests of one sequence.
LEMMA SingleFacts ==
  ASSUME Core, Single, NEW g \in Groups
  PROVE  /\ group[g].best_of = 1 /\ group[g].seqs = 1 /\ group[g].live \subseteq {1}
         /\ group[g].status # "finished" => /\ group[g].live = {1} /\ LiveSeqs(g) = 1
                                            /\ WOf(group[g]) = 1 /\ MaxNumRunningSeqs(g) = 1
                                            /\ (IsPrefill(g) <=> ~group[g].decode)
         /\ WOf(group[g]) = LiveSeqs(g) /\ LiveSeqs(g) \in {0, 1}
<1>1. /\ Limits /\ Good(group[g]) /\ group[g] \in GroupType
  BY CoreFacts DEF Good
<1>2. group[g].best_of \in BestOfs \cup {1} /\ group[g].seqs \in BestOfs \cup {1}
  BY <1>1 DEF GroupType
<1>3. group[g].best_of = 1 /\ group[g].seqs = 1
  BY <1>2 DEF Single
<1>4. group[g].live \in SUBSET (1 .. 1) /\ (group[g].live = {} <=> group[g].status = "finished")
  BY <1>1, <1>3, GoodFacts
<1>5. group[g].live \subseteq {1}
  BY <1>4
<1>6. Cardinality({1}) = 1 /\ Cardinality({}) = 0
  BY FS_Singleton, FS_EmptySet
<1>7. group[g].live = {} \/ group[g].live = {1}
  BY <1>5
<1>8. LiveSeqs(g) \in {0, 1} /\ (group[g].live = {1} => LiveSeqs(g) = 1)
  BY <1>6, <1>7 DEF LiveSeqs
<1>9. WOf(group[g]) = LiveSeqs(g) /\ MaxNumRunningSeqs(g) = LiveSeqs(g)
  BY <1>3 DEF WOf, MaxNumRunningSeqs, LiveSeqs
<1> QED BY <1>3, <1>4, <1>5, <1>7, <1>8, <1>9 DEF IsPrefill

\* The four parts, one for all.
LEMMA SeqsOf ==
  ASSUME config' = config
  PROVE  /\ SeqsInv /\ (~Chunked \/ Single) => GpuInLimit /\ CountsInLimit /\ AllCounted /\ OthersNotCounted
         /\ (~Chunked \/ Single => (GpuInLimit /\ CountsInLimit /\ AllCounted /\ OthersNotCounted)') => SeqsInv'
BY SameConfig DEF SeqsInv

LEMMA CountsStay ==
  ASSUME Core, config' = config, CountsInLimit, plan'.seqs = plan.seqs \/ plan' = NewPlan
  PROVE  CountsInLimit'
<1>1. NumGroups \in Nat /\ MaxNumSeqs \in Nat /\ MaxNumSeqs' = MaxNumSeqs
  BY CoreFacts, SameConfig DEF Limits
<1>2. CASE plan'.seqs = plan.seqs
  BY <1>1, <1>2 DEF CountsInLimit, Total
<1>3. CASE plan' = NewPlan
  <2> DEFINE f == plan'.seqs
  <2>1. \A g \in 1 .. NumGroups : f[g] = 0
    BY <1>3, NewPlanFacts
  <2> HIDE DEF f
  <2>2. SumUpTo(f, NumGroups) = 0
    BY <1>1, <2>1, SumOfZeros
  <2> QED BY <1>1, <2>2 DEF CountsInLimit, Total, f
<1> QED BY <1>2, <1>3

LEMMA RestSeqs ==
  ASSUME Core, Core', SeqsInv, config' = config, phase' \in {"idle", "exec"},
         plan'.seqs = plan.seqs \/ plan' = NewPlan,
         \A g \in OnGpu' : g \in OnGpu /\ WOf(group'[g]) <= WOf(group[g])
  PROVE  SeqsInv'
<1> SUFFICES ASSUME ~Chunked \/ Single
             PROVE  (GpuInLimit /\ CountsInLimit /\ AllCounted /\ OthersNotCounted)'
  BY SeqsOf
<1>1. GpuInLimit /\ CountsInLimit
  BY SeqsOf
<1>2. GpuInLimit' /\ CountsInLimit'
  BY <1>1, FewerOnGpu, CountsStay
<1>3. ~Adding' /\ phase' # "prefill"
  BY DEF Adding
<1> QED BY <1>2, <1>3 DEF AllCounted, OthersNotCounted

LEMMA SameSeqs ==
  ASSUME Core, Core', SeqsInv, config' = config, phase' = phase, OnGpu' = OnGpu,
         plan'.seqs = plan.seqs, plan'.tokens = plan.tokens, Preempts' <=> Preempts,
         \A g \in OnGpu' : WOf(group'[g]) = WOf(group[g])
  PROVE  SeqsInv'
<1> SUFFICES ASSUME ~Chunked \/ Single
             PROVE  (GpuInLimit /\ CountsInLimit /\ AllCounted /\ OthersNotCounted)'
  BY SeqsOf
<1>1. GpuInLimit /\ CountsInLimit /\ AllCounted /\ OthersNotCounted
  BY SeqsOf
<1>2. OnGpu \subseteq Groups /\ \A g \in Groups : WOf(group[g]) \in Nat /\ MaxNumRunningSeqs(g) = WOf(group[g])
  BY Places, ForkedFacts
<1>3. \A g \in Groups : MaxNumRunningSeqs(g)' = WOf(group'[g])
  BY ForkedAfter
<1>4. GpuInLimit' /\ CountsInLimit'
  <2>1. \A g \in OnGpu' : g \in OnGpu /\ WOf(group'[g]) <= WOf(group[g])
    BY <1>2
  <2> QED BY <1>1, <2>1, FewerOnGpu, CountsStay
<1>5. (Adding' <=> Adding) /\ (Chunked' <=> Chunked) /\ RemainingTokens' = RemainingTokens
  BY SameConfig DEF Adding, RemainingTokens, Total
<1>6. AllCounted'
  BY <1>1, <1>2, <1>3, <1>5 DEF AllCounted
<1>7. OthersNotCounted'
  BY <1>1 DEF OthersNotCounted
<1> QED BY <1>4, <1>6, <1>7

\* A group joins those on the GPU while all of these are counted.
LEMMA ArriveSeqs ==
  ASSUME Core, Core', SeqsInv, config' = config, NEW g \in Groups, NEW c, NEW new,
         phase \in {"prefill", "swapped"}, phase' = phase, Chunked \/ ~Preempts,
         Schedules(g, c, new, WOf(group[g])), CanSchedule(new, WOf(group[g])),
         OnGpu' = OnGpu \cup {g}, g \notin OnGpu, WOf(group'[g]) = WOf(group[g]),
         \A h \in Groups : h # g => group'[h] = group[h]
  PROVE  SeqsInv'
<1> SUFFICES ASSUME ~Chunked \/ Single
             PROVE  (GpuInLimit /\ CountsInLimit /\ AllCounted /\ OthersNotCounted)'
  BY SeqsOf
<1> DEFINE w == WOf(group[g])
<1>1. GpuInLimit /\ CountsInLimit /\ AllCounted /\ OthersNotCounted
  BY SeqsOf
<1>2. /\ new > 0 /\ Total(plan.tokens) + new <= MaxBatchedTokens
      /\ Total(plan.seqs) + w <= MaxNumSeqs /\ new \in Int
  BY DEF CanSchedule, Schedules
<1>3. /\ OnGpu \subseteq Groups /\ \A h \in Groups : WOf(group[h]) \in Nat /\ MaxNumRunningSeqs(h) = WOf(group[h])
      /\ plan.seqs \in [Groups -> Nat] /\ Total(plan.seqs) \in Nat
  BY Places, ForkedFacts
<1>4. /\ Limits /\ Total(plan.tokens) \in Int /\ RemainingTokens = MaxBatchedTokens - Total(plan.tokens)
      /\ MaxNumSeqs \in Nat /\ MaxBatchedTokens \in Nat /\ MaxNumSeqs' = MaxNumSeqs
  BY NumNewTokensFacts, CoreFacts, SameConfig DEF Limits
<1>5. ~(RemainingTokens <= 0)
  BY <1>2, <1>4
<1>6. \A h \in OnGpu : WOf(group[h]) <= plan.seqs[h]
  BY <1>1, <1>3, <1>5 DEF AllCounted, Adding
<1>7. plan'.seqs = [plan.seqs EXCEPT ![g] = w]
  BY DEF Schedules
<1>8. /\ w \in Nat /\ plan.seqs[g] \in Nat
  BY <1>3
<1> HIDE DEF w
<1>9. /\ \A h \in Groups : plan'.seqs[h] = IF h = g THEN w ELSE plan.seqs[h]
      /\ Total(plan'.seqs) = Total(plan.seqs) - plan.seqs[g] + w
  BY <1>3, <1>7, <1>8, OneCount
<1>10. CountsInLimit'
  <2>1. Total(plan.seqs)' = Total(plan'.seqs)
    BY DEF Total
  <2>2. Total(plan'.seqs) <= MaxNumSeqs
    <3>1. \A x1, x2, x3, x4, x5 \in Int : x2 >= 0 /\ x1 = x3 - x2 + x4 /\ x3 + x4 <= x5 => x1 <= x5
      OBVIOUS
    <3>2. Total(plan'.seqs) = Total(plan.seqs) - plan.seqs[g] + w /\ Total(plan.seqs) \in Int
          /\ plan.seqs[g] \in Int /\ plan.seqs[g] >= 0 /\ w \in Int /\ MaxNumSeqs \in Int
      BY <1>3, <1>4, <1>8, <1>9
    <3>3. Total(plan'.seqs) \in Int
      BY <3>2
    <3> QED BY <1>2, <3>1, <3>2, <3>3
  <2> QED BY <1>4, <2>1, <2>2 DEF CountsInLimit
<1>11. \A h \in OnGpu' : WOf(group'[h]) <= plan'.seqs[h]
  <2> SUFFICES ASSUME NEW h \in OnGpu' PROVE WOf(group'[h]) <= plan'.seqs[h]
    OBVIOUS
  <2>1. CASE h = g
    BY <1>8, <1>9, <2>1 DEF w
  <2>2. CASE h # g
    BY <1>3, <1>6, <1>9, <2>2
  <2> QED BY <2>1, <2>2
<1>12. GpuInLimit'
  BY <1>10, <1>11, CountedOnGpu
<1>13. AllCounted'
  <2>1. \A h \in OnGpu' : MaxNumRunningSeqs(h)' <= plan'.seqs[h]
    BY <1>3, <1>11, ForkedAfter
  <2> QED BY <2>1 DEF AllCounted
<1>14. OthersNotCounted'
  BY <1>1, <1>9 DEF OthersNotCounted
<1> QED BY <1>10, <1>12, <1>13, <1>14

\* A group leaves them: the default policy adds no other in that step.
LEMMA VictimSeqs ==
  ASSUME Core, Core', SeqsInv, config' = config, NEW g \in Groups, GivesBack(g),
         phase = "running", phase' = phase, Preempts', OnGpu' \subseteq OnGpu,
         \A h \in OnGpu' : group'[h] = group[h]
  PROVE  SeqsInv'
<1> SUFFICES ASSUME ~Chunked \/ Single
             PROVE  (GpuInLimit /\ CountsInLimit /\ AllCounted /\ OthersNotCounted)'
  BY SeqsOf
<1>1. GpuInLimit /\ CountsInLimit
  BY SeqsOf
<1>2. /\ OnGpu \subseteq Groups /\ \A h \in Groups : WOf(group[h]) \in Nat
      /\ plan.seqs \in [Groups -> Nat] /\ Total(plan.seqs) \in Nat
  BY Places, ForkedFacts
<1>3. GpuInLimit'
  <2>1. \A h \in OnGpu' : h \in OnGpu /\ WOf(group'[h]) <= WOf(group[h])
    BY <1>2
  <2> QED BY <1>1, <2>1, FewerOnGpu
<1>4. plan'.seqs = [plan.seqs EXCEPT ![g] = 0] /\ plan.seqs[g] \in Nat
  BY <1>2 DEF GivesBack
<1>5. CountsInLimit'
  <2> DEFINE zero == 0
  <2>1. zero \in Int /\ plan'.seqs = [plan.seqs EXCEPT ![g] = zero] /\ zero = 0
    BY <1>4
  <2> HIDE DEF zero
  <2>2. Total(plan'.seqs) = Total(plan.seqs) - plan.seqs[g] + zero
    BY <1>2, <2>1, OneCount
  <2>3. Total(plan.seqs)' = Total(plan'.seqs)
    BY DEF Total
  <2>4. MaxNumSeqs \in Nat /\ MaxNumSeqs' = MaxNumSeqs
    BY CoreFacts, SameConfig DEF Limits
  <2> QED BY <1>1, <1>2, <1>4, <2>1, <2>2, <2>3, <2>4 DEF CountsInLimit
<1>6. AllCounted' /\ OthersNotCounted'
  BY DEF AllCounted, OthersNotCounted, Adding
<1> QED BY <1>3, <1>5, <1>6

LEMMA AppendSeqs ==
  ASSUME Core, Core', SeqsInv, SingleInv, config' = config, NEW g, NEW new, Appends(g, new)
  PROVE  SeqsInv'
<1> SUFFICES ASSUME ~Chunked \/ Single
             PROVE  (GpuInLimit /\ CountsInLimit /\ AllCounted /\ OthersNotCounted)'
  BY SeqsOf
<1>1. GpuInLimit /\ CountsInLimit /\ AllCounted
  BY SeqsOf
<1>2. /\ g \in Groups /\ phase = "running" /\ phase' = phase /\ OnGpu' = OnGpu /\ g \in OnGpu
      /\ \A h \in Groups : group'[h] = IF h = g THEN Appended(group[g]) ELSE group[h]
      /\ plan'.seqs = [plan.seqs EXCEPT ![g] = IF Chunked THEN MaxNumRunningSeqs(g) ELSE plan.seqs[g]]
      /\ plan'.scheduled = plan.scheduled \cup {g} /\ (Preempts' <=> Preempts)
      /\ group[g] \in GroupType /\ (Chunked' <=> Chunked)
  <2>1. /\ g \in Groups /\ phase = "running" /\ phase' = phase /\ OnGpu' = OnGpu /\ g \in OnGpu
        /\ Moves(g, Appended(group[g]))
        /\ Schedules(g, IF IsPrefill(g) THEN new ELSE 1, new,
                        IF Chunked THEN MaxNumRunningSeqs(g) ELSE plan.seqs[g])
    BY DEF Appends
  <2>2. /\ plan'.seqs = [plan.seqs EXCEPT ![g] = IF Chunked THEN MaxNumRunningSeqs(g) ELSE plan.seqs[g]]
        /\ plan'.scheduled = plan.scheduled \cup {g} /\ (Preempts' <=> Preempts)
    BY <2>1, Zenon DEF Schedules, KeepsLists
  <2>3. /\ \A h \in Groups : group'[h] = IF h = g THEN Appended(group[g]) ELSE group[h]
        /\ group[g] \in GroupType
    BY <2>1 DEF Moves, Good
  <2>4. Chunked' <=> Chunked
    BY SameConfig
  <2> QED BY <2>1, <2>2, <2>3, <2>4
<1>3. /\ OnGpu \subseteq Groups /\ \A h \in Groups : WOf(group[h]) \in Nat /\ MaxNumRunningSeqs(h) = WOf(group[h])
      /\ plan.seqs \in [Groups -> Nat]
      /\ \A h \in OnGpu : group[h].status = "running"
  BY Places, ForkedFacts
<1>4. \A h \in Groups : WOf(group'[h]) = WOf(group[h])
  BY <1>2, SameW
<1>5. GpuInLimit'
  <2>1. \A h \in OnGpu' : h \in OnGpu /\ WOf(group'[h]) <= WOf(group[h])
    BY <1>2, <1>3, <1>4
  <2> QED BY <1>1, <2>1, FewerOnGpu
<1>6. OthersNotCounted'
  BY <1>2 DEF OthersNotCounted
<1>7. CASE ~Chunked
  <2>1. plan'.seqs = plan.seqs
    BY <1>2, <1>3, <1>7
  <2>2. CountsInLimit'
    BY <1>1, <2>1, CountsStay
  <2>3. AllCounted'
    BY <1>1, <1>2, <1>3, <1>4, <1>7, <2>1, ForkedAfter DEF AllCounted, Adding
  <2> QED BY <1>5, <1>6, <2>2, <2>3
<1>8. CASE Chunked
  <2>1. Single
    BY <1>8
  <2>2. AllCounted'
    BY <1>2, <1>8 DEF AllCounted, Adding
  <2>3. \A h \in Groups : plan.seqs[h] = IF h \in plan.scheduled THEN 1 ELSE 0
    BY <1>8, <2>1 DEF SingleInv, SinglePlan
  <2>4. \A h \in OnGpu : WOf(group[h]) = 1
    BY <1>3, <2>1, SingleFacts
  <2>5. MaxNumRunningSeqs(g) = 1
    BY <1>2, <1>3, <2>4
  <2>6. \A h \in Groups : plan'.seqs[h] = IF h \in plan'.scheduled THEN 1 ELSE 0
    BY <1>2, <1>3, <1>8, <2>3, <2>5
  <2>7. plan'.scheduled \subseteq OnGpu'
    BY <1>2, Places
  <2> DEFINE f == plan'.seqs
             e == Forked(OnGpu)'
  <2>8. \A h \in 1 .. NumGroups : f[h] \in Nat /\ e[h] \in Nat /\ f[h] <= e[h]
    <3> SUFFICES ASSUME NEW h \in 1 .. NumGroups PROVE f[h] \in Nat /\ e[h] \in Nat /\ f[h] <= e[h]
      OBVIOUS
    <3>1. e[h] = (IF h \in OnGpu' THEN WOf(group'[h]) ELSE 0) /\ e[h] \in Nat
      BY ForkedAfter
    <3>2. h \in OnGpu' => e[h] = 1
      BY <1>2, <1>4, <2>4, <3>1
    <3> QED BY <2>6, <2>7, <3>1, <3>2
  <2>9. SumUpTo(f, NumGroups) <= SumUpTo(e, NumGroups) /\ SumUpTo(f, NumGroups) \in Nat
        /\ SumUpTo(e, NumGroups) \in Nat
    <3>1. NumGroups \in Nat
      BY CoreFacts
    <3> HIDE DEF f, e
    <3> HIDE SchedulerAssumption DEF Groups
    <3> QED BY <2>8, <3>1, SumOrder
  <2>10. MaxNumSeqs' \in Nat /\ Total(Forked(OnGpu))' = SumUpTo(e, NumGroups)
         /\ Total(plan.seqs)' = SumUpTo(f, NumGroups)
    BY CoreFacts, SameConfig DEF Limits, Total
  <2>11. CountsInLimit'
    <3>1. SumUpTo(e, NumGroups) <= MaxNumSeqs'
      BY <1>5, <2>10 DEF GpuInLimit
    <3> HIDE DEF f, e
    <3>2. SumUpTo(f, NumGroups) <= MaxNumSeqs'
      BY <2>9, <2>10, <3>1
    <3> QED BY <2>10, <3>2 DEF CountsInLimit
  <2> QED BY <1>5, <1>6, <2>2, <2>11
<1> QED BY <1>7, <1>8

LEMMA StartSeqs ==
  ASSUME Core, Core', SeqsInv, config' = config, Starts
  PROVE  SeqsInv'
<1> SUFFICES ASSUME ~Chunked \/ Single
             PROVE  (GpuInLimit /\ CountsInLimit /\ AllCounted /\ OthersNotCounted)'
  BY SeqsOf
<1>1. GpuInLimit
  BY SeqsOf
<1>2. /\ OnGpu' = OnGpu /\ OnGpu = running /\ group' = group /\ plan'.seqs = CountRunning
      /\ phase' \in {"prefill", "running"} /\ (phase' = "prefill" => ~Chunked) /\ (Chunked' <=> Chunked)
  BY SameConfig DEF Starts, AtRest, Counted
<1>3. /\ OnGpu \subseteq Groups /\ \A h \in Groups : WOf(group[h]) \in Nat /\ MaxNumRunningSeqs(h) = WOf(group[h])
      /\ \A h \in Groups : /\ Forked(OnGpu)[h] = IF h \in OnGpu THEN WOf(group[h]) ELSE 0
                           /\ Forked(OnGpu)[h] \in Nat
      /\ Total(Forked(OnGpu)) \in Nat
  BY Places, ForkedFacts
<1>4. \A h \in Groups : plan'.seqs[h] = IF ~Chunked /\ h \in OnGpu THEN WOf(group[h]) ELSE 0
  BY <1>2, <1>3 DEF CountRunning
<1>5. GpuInLimit'
  <2>1. \A h \in OnGpu' : h \in OnGpu /\ WOf(group'[h]) <= WOf(group[h])
    BY <1>2, <1>3
  <2> QED BY <1>1, <2>1, FewerOnGpu
<1>6. CountsInLimit'
  <2> DEFINE f == plan'.seqs
             e == Forked(OnGpu)
  <2>1. \A h \in 1 .. NumGroups : f[h] \in Nat /\ e[h] \in Nat /\ f[h] <= e[h]
    BY <1>3, <1>4
  <2>2. NumGroups \in Nat /\ MaxNumSeqs \in Nat /\ MaxNumSeqs' = MaxNumSeqs
    BY CoreFacts, SameConfig DEF Limits
  <2>3. SumUpTo(f, NumGroups) <= SumUpTo(e, NumGroups) /\ SumUpTo(f, NumGroups) \in Nat
        /\ SumUpTo(e, NumGroups) \in Nat
    <3> HIDE DEF f, e
    <3> HIDE SchedulerAssumption DEF Groups
    <3> QED BY <2>1, <2>2, SumOrder
  <2>4. SumUpTo(e, NumGroups) <= MaxNumSeqs
    BY <1>1 DEF GpuInLimit, Total
  <2>5. Total(plan.seqs)' = SumUpTo(f, NumGroups)
    BY DEF Total
  <2> HIDE DEF f, e
  <2>6. SumUpTo(f, NumGroups) <= MaxNumSeqs'
    BY <2>2, <2>3, <2>4
  <2> QED BY <2>5, <2>6 DEF CountsInLimit
<1>7. AllCounted'
  <2>1. CASE Chunked
    BY <1>2, <2>1 DEF AllCounted, Adding
  <2>2. CASE ~Chunked
    <3>1. \A h \in OnGpu' : MaxNumRunningSeqs(h)' <= plan'.seqs[h]
      BY <1>2, <1>3, <1>4, <2>2, ForkedAfter
    <3> QED BY <3>1 DEF AllCounted
  <2> QED BY <2>1, <2>2
<1>8. OthersNotCounted'
  BY <1>2, <1>4 DEF OthersNotCounted
<1> QED BY <1>5, <1>6, <1>7, <1>8

\* When the loop over running has come to its end, each group on the GPU has
\* been counted, or there are no tokens left.
Each(g) == IF group[g].decode THEN 1 ELSE group[g].len - group[g].computed

LEMMA EachLacksTokens ==
  ASSUME Core, SingleInv, Single, NEW g \in Groups, group[g].status # "finished"
  PROVE  /\ Each(g) \in Nat /\ Each(g) >= 1
         /\ NumNewTokens(g, TRUE) \in {Each(g), RemainingTokens}
         /\ NumNewTokens(g, TRUE) <= Each(g) /\ NumNewTokens(g, TRUE) <= RemainingTokens
         /\ NumNewTokens(g, FALSE) = Each(g) /\ RemainingTokens \in Int
<1> DEFINE each == Each(g)
<1>1. LacksTokens(group[g]) /\ group[g] \in GroupType
  BY CoreFacts DEF SingleInv, Good
<1>2. group[g].len \in Nat /\ (~group[g].decode => group[g].computed \in 0 .. group[g].len - 1)
  BY <1>1 DEF LacksTokens, GroupType
<1>3. each \in Nat /\ each >= 1
  BY <1>2 DEF Each
<1>4. LiveSeqs(g) = 1
  BY SingleFacts
<1>5. /\ NumNewTokens(g, TRUE) \in {each, RemainingTokens}
      /\ NumNewTokens(g, TRUE) <= each /\ NumNewTokens(g, TRUE) <= RemainingTokens
  BY <1>4, NumNewTokensFacts DEF Each
<1>6. NumNewTokens(g, FALSE) = LiveSeqs(g) * each /\ RemainingTokens \in Int
  BY NumNewTokensFacts DEF Each
<1> HIDE DEF each
<1>7. NumNewTokens(g, FALSE) = each
  <2>1. NumNewTokens(g, FALSE) = 1 * each
    BY <1>4, <1>6
  <2>2. 1 * each = each
    BY <1>3
  <2> QED BY <2>1, <2>2
<1> QED BY <1>3, <1>5, <1>6, <1>7 DEF each

LEMMA ChunkedFull ==
  ASSUME Core, SingleInv, Single, Chunked, phase = "running", RunningStops
  PROVE  (\A g \in OnGpu : MaxNumRunningSeqs(g) <= plan.seqs[g]) \/ RemainingTokens <= 0
<1>1. todo = OnGpu \ plan.scheduled /\ OnGpu \subseteq Groups /\ \A g \in OnGpu : group[g].status = "running"
  BY Places DEF Core, QueuesAgree
<1>2. CASE todo = {}
  <2> SUFFICES ASSUME NEW g \in OnGpu PROVE MaxNumRunningSeqs(g) <= plan.seqs[g]
    OBVIOUS
  <2>1. g \in Groups /\ g \in plan.scheduled
    BY <1>1, <1>2
  <2>2. plan.seqs[g] = 1
    BY <2>1 DEF SingleInv, SinglePlan
  <2>3. MaxNumRunningSeqs(g) = 1
    BY <1>1, <2>1, SingleFacts
  <2> QED BY <2>2, <2>3
<1>3. CASE todo # {}
  <2> DEFINE g == Min(todo)
             n == NumNewTokens(g, TRUE)
  <2>1. g \in Groups /\ group[g].status # "finished" /\ n = 0
    BY <1>1, <1>3, TodoFacts DEF RunningStops
  <2> HIDE DEF g
  <2>2. Each(g) \in Nat /\ Each(g) >= 1 /\ n \in {Each(g), RemainingTokens}
    BY <2>1, EachLacksTokens
  <2> HIDE DEF n
  <2>3. RemainingTokens = 0
    BY <2>1, <2>2
  <2> QED BY <2>3
<1> QED BY <1>2, <1>3

LEMMA TurnSeqs ==
  ASSUME Core, Core', SeqsInv, SingleInv, config' = config, Turns
  PROVE  SeqsInv'
<1> SUFFICES ASSUME ~Chunked \/ Single
             PROVE  (GpuInLimit /\ CountsInLimit /\ AllCounted /\ OthersNotCounted)'
  BY SeqsOf
<1>1. GpuInLimit /\ CountsInLimit /\ AllCounted /\ OthersNotCounted
  BY SeqsOf
<1>2. /\ OnGpu' = OnGpu /\ group' = group /\ plan' = plan /\ (Preempts' <=> Preempts)
      /\ (Chunked' <=> Chunked) /\ RemainingTokens' = RemainingTokens
      /\ \A h : MaxNumRunningSeqs(h)' = MaxNumRunningSeqs(h)
  BY SameConfig DEF Turns, RemainingTokens, Total, MaxNumRunningSeqs, LiveSeqs
<1>3. /\ OnGpu \subseteq Groups /\ \A h \in Groups : WOf(group[h]) \in Nat /\ MaxNumRunningSeqs(h) = WOf(group[h])
  BY Places, ForkedFacts
<1>4. GpuInLimit' /\ CountsInLimit'
  <2>1. \A h \in OnGpu' : h \in OnGpu /\ WOf(group'[h]) <= WOf(group[h])
    BY <1>2, <1>3
  <2> QED BY <1>1, <1>2, <2>1, FewerOnGpu, CountsStay
<1>5. AllCounted'
  <2> SUFFICES ASSUME Adding', Chunked \/ ~Preempts
               PROVE  \/ \A g \in OnGpu : MaxNumRunningSeqs(g) <= plan.seqs[g]
                      \/ Chunked /\ RemainingTokens <= 0
    BY <1>2 DEF AllCounted
  <2>1. CASE Adding
    BY <1>1, <2>1 DEF AllCounted
  <2>2. CASE ~Adding
    <3>1. phase = "running" /\ Chunked /\ RunningStops
      BY <2>2 DEF Turns, Adding
    <3> QED BY <3>1, ChunkedFull
  <2> QED BY <2>1, <2>2
<1>6. OthersNotCounted'
  <2> SUFFICES ASSUME phase' = "prefill", NEW g \in Groups \ OnGpu
               PROVE  plan.seqs[g] = 0
    BY <1>2 DEF OthersNotCounted
  <2>1. Chunked /\ Single
    BY DEF Turns
  <2>2. g \notin plan.scheduled
    BY Places
  <2> QED BY <2>1, <2>2 DEF SingleInv, SinglePlan
<1> QED BY <1>4, <1>5, <1>6

-----------------------------------------------------------------------------
\* Requests of one sequence: nothing is swapped, lost or over the budget.

LEMMA TokensFacts ==
  ASSUME Core
  PROVE  /\ plan.tokens \in [Groups -> Int] /\ Total(plan.tokens) \in Int
         /\ MaxBatchedTokens \in Nat /\ MaxNumSeqs \in Nat /\ MaxNumSeqs <= MaxBatchedTokens
<1>1. plan.tokens \in [Groups -> Int] /\ NumGroups \in Nat
  BY CoreFacts, PlanFields
<1>2. Total(plan.tokens) \in Int
  BY <1>1, SumIsInt DEF Total
<1> QED BY <1>1, <1>2, CoreFacts DEF Limits

LEMMA SingleOf ==
  ASSUME config' = config
  PROVE  /\ SingleInv /\ Single =>
               NothingSwapped /\ TokensInLimit /\ \A g \in Groups : LacksTokens(group[g]) /\ SinglePlan(g)
         /\ (Single => /\ NothingSwapped' /\ TokensInLimit'
                       /\ \A g \in Groups : LacksTokens(group'[g]) /\ SinglePlan(g)') => SingleInv'
BY SameConfig DEF SingleInv, LacksTokens

LEMMA NoLeak ==
  ASSUME Core, SingleInv, Single, NEW g \in Groups, group[g].status # "finished"
  PROVE  Leak(group[g]) = 0
<1>1. LacksTokens(group[g]) /\ group[g] \in GroupType
  BY CoreFacts DEF SingleInv, Good
<1>2. group[g].refs \in Nat /\ group[g].refs <= 1
  BY <1>1 DEF LacksTokens, GroupType
<1>3. Cardinality(group[g].live) = 1
  BY SingleFacts DEF LiveSeqs
<1> QED BY <1>2, <1>3 DEF Leak

LEMMA SameLost ==
  ASSUME NEW x \in [gpu : Nat, cpu : Nat], NEW y \in [gpu : Nat, cpu : Nat], x.gpu = y.gpu, x.cpu = y.cpu
  PROVE  x = y
OBVIOUS

LEMMA NothingLeaks ==
  ASSUME Core, Core', lost' = [lost EXCEPT !.gpu = @ + 0]
  PROVE  lost' = lost
<1> DEFINE zero == 0
<1>1. lost \in [gpu : Nat, cpu : Nat] /\ lost' \in [gpu : Nat, cpu : Nat]
  BY DEF Core, TypeOK
<1>2. zero \in Nat /\ zero = 0 /\ lost' = [lost EXCEPT !.gpu = @ + zero]
  OBVIOUS
<1> HIDE DEF zero
<1>3. lost'.gpu = lost.gpu + zero /\ lost'.cpu = lost.cpu
  BY <1>1, <1>2, LostType
<1>4. lost'.gpu = lost.gpu
  <2>1. lost.gpu \in Nat
    BY <1>1
  <2> QED BY <1>2, <1>3, <2>1
<1> QED BY <1>1, <1>3, <1>4, SameLost

\* What is planned of a group that has not moved.
LEMMA SinglePlanStays ==
  ASSUME Core', SingleInv, Single, config' = config, NEW h \in Groups,
         h \in plan'.scheduled <=> h \in plan.scheduled,
         h \in plan.scheduled => plan'.chunk[h] = plan.chunk[h],
         plan'.tokens[h] = plan.tokens[h], Chunked => plan'.seqs[h] = plan.seqs[h],
         h \in OnGpu' => h \in OnGpu /\ group'[h].decode = group[h].decode
                         /\ group'[h].len = group[h].len /\ group'[h].computed = group[h].computed,
         phase' = "running" => phase = "running" \/ plan.tokens[h] = 0
  PROVE  SinglePlan(h)'
<1>1. SinglePlan(h)
  BY DEF SingleInv
<1>2. h \in plan'.scheduled => h \in OnGpu'
  <2>1. (plan.scheduled \subseteq OnGpu)'
    BY Places, PTL
  <2> QED BY <2>1
<1>3. Chunked' <=> Chunked
  BY SameConfig
<1> QED BY <1>1, <1>2, <1>3 DEF SinglePlan

LEMMA QuietSingle ==
  ASSUME Core, Core', SingleInv, Single, config' = config,
         plan'.scheduled = plan.scheduled, lost' = lost, error' = error,
         \A h \in Groups : /\ h \in plan.scheduled => plan'.chunk[h] = plan.chunk[h]
                           /\ plan'.tokens[h] = plan.tokens[h]
                           /\ Chunked => plan'.seqs[h] = plan.seqs[h]
                           /\ group'[h] = group[h] \/ (h \notin OnGpu' /\ LacksTokens(group'[h])),
         OnGpu' \subseteq OnGpu, swapped' \subseteq swapped \cup plan.swapped_out,
         plan'.swapped_out \subseteq plan.swapped_out, plan'.infeasible \subseteq plan.infeasible,
         phase' = "running" => phase = "running" \/ plan.scheduled = {}
  PROVE  SingleInv'
<1>1. NothingSwapped /\ TokensInLimit /\ \A g \in Groups : LacksTokens(group[g]) /\ SinglePlan(g)
  BY SingleOf
<1>2. NothingSwapped'
  BY <1>1 DEF NothingSwapped
<1>3. TokensInLimit'
  <2> DEFINE f == plan.tokens
             e == plan'.tokens
  <2>1. \A h \in 1 .. NumGroups : f[h] \in Int /\ e[h] = f[h]
    BY CoreFacts, PlanFields
  <2>2. NumGroups \in Nat /\ MaxBatchedTokens' = MaxBatchedTokens
    BY CoreFacts, SameConfig
  <2>3. SumUpTo(e, NumGroups) = SumUpTo(f, NumGroups)
    <3> HIDE DEF e, f
    <3> HIDE SchedulerAssumption DEF Groups
    <3> QED BY <2>1, <2>2, SumSame
  <2> QED BY <1>1, <2>2, <2>3 DEF TokensInLimit, Total
<1>4. ASSUME NEW h \in Groups PROVE LacksTokens(group'[h]) /\ SinglePlan(h)'
  <2>1. LacksTokens(group'[h])
    BY <1>1
  <2>2. plan.scheduled = {} => plan.tokens[h] = 0
    BY <1>1 DEF SinglePlan
  <2>3. h \in OnGpu' => h \in OnGpu /\ group'[h] = group[h]
    OBVIOUS
  <2>4. SinglePlan(h)'
    BY <2>2, <2>3, SinglePlanStays
  <2> QED BY <2>1, <2>4
<1> QED BY <1>2, <1>3, <1>4, SingleOf

\* With one sequence per group no victim is swapped, and no swap fails.
LEMMA NeverSwaps ==
  ASSUME Core, SingleInv, Single
  PROVE  /\ \A g, v : ~SwapsOut(g, v) /\ ~RunsOut(g, v)
         /\ \A g, new : ~Returns(g, new) /\ ~NeverReturns(g)
         /\ SeqsInv => ~Fails
<1>1. ASSUME NEW g, NEW v, Victimises(g, v) PROVE MaxNumRunningSeqs(v) = 1
  <2>1. v \in Groups /\ group[v].status # "finished"
    BY <1>1 DEF Victimises
  <2> QED BY <2>1, SingleFacts
<1>2. \A g, v : ~SwapsOut(g, v) /\ ~RunsOut(g, v)
  BY <1>1 DEF SwapsOut, RunsOut
<1>3. swapped = {}
  BY DEF SingleInv, NothingSwapped
<1>4. \A g, new : ~Returns(g, new) /\ ~NeverReturns(g)
  BY <1>3 DEF Returns, NeverReturns, OnCpu
<1>5. ASSUME SeqsInv PROVE ~Fails
  <2>1. CountsInLimit /\ TokensInLimit
    BY <1>5 DEF SeqsInv, SingleInv
  <2>2. /\ Total(plan.tokens) \in Int /\ Total(plan.seqs) \in Nat
        /\ MaxBatchedTokens \in Nat /\ MaxNumSeqs \in Nat
    BY TokensFacts, ForkedFacts
  <2>3. ~OverBudget
    <3>1. Total(plan.tokens) <= MaxBatchedTokens /\ Total(plan.seqs) <= MaxNumSeqs
      BY <2>1 DEF CountsInLimit, TokensInLimit
    <3> QED BY <2>2, <3>1 DEF OverBudget
  <2>4. \A g \in plan.scheduled : ~(group[g].seqs > 1)
    <3>1. plan.scheduled \subseteq Groups
      BY CoreFacts, PlanFields
    <3> QED BY <3>1, SingleFacts
  <2> QED BY <2>3, <2>4 DEF Fails
<1> QED BY <1>2, <1>4, <1>5

\* Nothing of those on the GPU changes.
LEMMA RestSingle ==
  ASSUME Core, Core', SingleInv, Single, config' = config,
         (\E g, len, n : Adds(g, len, n)) \/ (\E g : Aborts(g)) \/ (\E g : Ignores(g)) \/ (\E g, v : Recomputes(g, v))
  PROVE  SingleInv'
<1>1. ASSUME NEW g, NEW len, NEW n, Adds(g, len, n) PROVE SingleInv'
  <2>1. /\ plan' = plan /\ lost' = lost /\ error' = error /\ OnGpu' = OnGpu /\ swapped' = swapped
        /\ phase' = phase /\ g \in Groups /\ group[g].status = "finished"
        /\ \A h \in Groups : group'[h] = IF h = g THEN New(len, n) ELSE group[h]
        /\ len \in PromptLens
    BY <1>1 DEF Adds, Moves
  <2>2. g \notin OnGpu
    BY <2>1, Places
  <2>3. LacksTokens(New(len, n))
    <3>1. len \in Nat \ {0}
      BY <2>1, CoreFacts DEF Limits
    <3>2. New(len, n).refs = 0 /\ New(len, n).computed = 0 /\ New(len, n).len = len
      BY DEF New
    <3> QED BY <3>1, <3>2 DEF LacksTokens
  <2> QED BY <2>1, <2>2, <2>3, QuietSingle
<1>2. LacksTokens(Ended)
  BY CoreFacts, EndedGood DEF LacksTokens
<1>3. ASSUME NEW g, Aborts(g) PROVE SingleInv'
  <2>1. /\ plan' = plan /\ error' = error /\ OnGpu' = OnGpu \ {g} /\ swapped' = swapped \ {g} /\ phase' = phase
        /\ g \in Groups /\ group[g].status # "finished" /\ OnGpu = running
        /\ \A h \in Groups : group'[h] = IF h = g THEN Ended ELSE group[h]
        /\ lost' = IF g \in running THEN [lost EXCEPT !.gpu = @ + Leak(group[g])] ELSE lost
    BY <1>3, CoreFacts, GoodFacts DEF Aborts, AtRest, Moves
  <2>2. Leak(group[g]) = 0
    BY <2>1, NoLeak
  <2>3. lost' = lost
    BY <2>1, <2>2, NothingLeaks
  <2> QED BY <1>2, <2>1, <2>3, QuietSingle
<1>4. ASSUME NEW g, Ignores(g) PROVE SingleInv'
  <2>1. /\ plan'.chunk = plan.chunk /\ plan'.tokens = plan.tokens /\ plan'.seqs = plan.seqs
        /\ plan'.scheduled = plan.scheduled /\ plan'.swapped_out = plan.swapped_out
        /\ plan'.infeasible = plan.infeasible
        /\ lost' = lost /\ error' = error /\ OnGpu' = OnGpu /\ swapped' = swapped
        /\ phase' = phase /\ g \in Groups /\ g \notin OnGpu
        /\ \A h \in Groups : group'[h] = IF h = g THEN Ended ELSE group[h]
    BY <1>4 DEF Ignores, LeavesWaiting, KeepsLists, KeepsCounts, Moves
  <2> QED BY <1>2, <2>1, QuietSingle
<1>5. ASSUME NEW g, NEW v, Recomputes(g, v) PROVE SingleInv'
  <2>1. /\ g \in Groups /\ v \in Groups /\ group[v].status # "finished" /\ g \notin plan.scheduled
        /\ plan'.chunk = plan.chunk /\ plan'.scheduled = plan.scheduled
        /\ plan'.tokens = [plan.tokens EXCEPT ![g] = 0] /\ plan'.seqs = [plan.seqs EXCEPT ![g] = 0]
        /\ plan'.swapped_out = plan.swapped_out /\ plan'.infeasible = plan.infeasible
        /\ swapped' = swapped /\ phase' = phase /\ OnGpu' = OnGpu \ {v} /\ phase = "running"
    <3>1. Victimises(g, v) /\ GivesBack(g) /\ OnGpu' = OnGpu \ {v} /\ plan'.swapped_out = plan.swapped_out
      BY <1>5 DEF Recomputes
    <3>2. /\ g \in Groups /\ v \in Groups /\ group[v].status = "running" /\ g \notin plan.scheduled
          /\ swapped' = swapped /\ phase' = phase /\ phase = "running"
      BY <3>1 DEF Victimises, queues
    <3>3. /\ plan'.chunk = plan.chunk /\ plan'.scheduled = plan.scheduled
          /\ plan'.tokens = [plan.tokens EXCEPT ![g] = 0] /\ plan'.seqs = [plan.seqs EXCEPT ![g] = 0]
          /\ plan'.infeasible = plan.infeasible
      BY <3>1, Zenon DEF GivesBack
    <3>4. group[v].status # "finished"
      BY <3>2
    <3> QED BY <3>1, <3>2, <3>3, <3>4
  <2>2. /\ lost' = [lost EXCEPT !.gpu = @ + Leak(group[v])] /\ error' = error
        /\ \A h \in Groups : group'[h] = IF h = v THEN Recomputed(group[v]) ELSE group[h]
        /\ Good(group[v])
    BY <1>5 DEF Recomputes, Moves
  <2>3. Leak(group[v]) = 0
    BY <2>1, NoLeak
  <2>4. lost' = lost
    BY <2>2, <2>3, NothingLeaks
  <2>5. SinglePlan(g)
    BY <2>1 DEF SingleInv
  <2>6. \A h \in Groups : plan'.tokens[h] = plan.tokens[h] /\ (Chunked => plan'.seqs[h] = plan.seqs[h])
    <3>1. plan.tokens \in [Groups -> Int] /\ plan.seqs \in [Groups -> Nat]
      BY CoreFacts, PlanFields
    <3>2. plan.tokens[g] = 0 /\ (Chunked => plan.seqs[g] = 0)
      BY <2>1, <2>5 DEF SinglePlan
    <3> QED BY <2>1, <3>1, <3>2
  <2>7. LacksTokens(Recomputed(group[v]))
    <3>1. group[v] \in GroupType /\ group[v].len \in Nat /\ group[v].len >= 1
      BY <2>2, CoreFacts DEF Good, GroupInv, GroupType
    <3>2. /\ Recomputed(group[v]).refs = 0 /\ Recomputed(group[v]).computed = 0
          /\ Recomputed(group[v]).len = group[v].len
      BY <3>1, SameW
    <3> QED BY <3>1, <3>2 DEF LacksTokens
  <2> HIDE DEF Recomputed
  <2> QED BY <2>1, <2>2, <2>4, <2>6, <2>7, QuietSingle
<1> QED BY <1>1, <1>3, <1>4, <1>5

LEMMA TurnSingle ==
  ASSUME Core, Core', SingleInv, Single, config' = config, Starts \/ Turns \/ Commits
  PROVE  SingleInv'
<1>1. \A h \in Groups : h \notin plan.scheduled => plan.tokens[h] = 0 /\ (Chunked => plan.seqs[h] = 0)
  BY DEF SingleInv, SinglePlan
<1>2. CASE Starts
  <2>1. /\ plan.scheduled = {} /\ plan'.scheduled = {} /\ plan'.tokens = NewPlan.tokens
        /\ plan'.seqs = CountRunning /\ plan'.swapped_out = {} /\ plan'.infeasible = {}
        /\ group' = group /\ lost' = lost /\ error' = error /\ swapped' = swapped /\ OnGpu' = OnGpu
    BY <1>2 DEF Starts, AtRest, Counted, queues
  <2>2. \A h \in Groups : plan'.tokens[h] = 0 /\ (Chunked => plan'.seqs[h] = 0)
    BY <2>1, NewPlanFacts DEF CountRunning
  <2> QED BY <1>1, <2>1, <2>2, QuietSingle
<1>3. CASE Turns
  <2>1. /\ plan' = plan /\ group' = group /\ lost' = lost /\ error' = error /\ swapped' = swapped
        /\ OnGpu' = OnGpu /\ (phase' = "running" => plan.scheduled = {})
    BY <1>3 DEF Turns, queues
  <2> QED BY <2>1, QuietSingle
<1>4. CASE Commits
  <2>1. /\ group' = group /\ lost' = lost /\ error' = error /\ OnGpu' = OnGpu
        /\ swapped' = swapped \cup plan.swapped_out /\ phase' # "running"
        /\ plan' = plan \/ (plan' = NewPlan /\ plan.scheduled = {})
    BY <1>4 DEF Commits
  <2>2. \A h \in Groups : plan'.tokens[h] = plan.tokens[h] /\ (Chunked => plan'.seqs[h] = plan.seqs[h])
    BY <1>1, <2>1, NewPlanFacts
  <2>3. /\ plan'.scheduled = plan.scheduled /\ plan'.swapped_out \subseteq plan.swapped_out
        /\ plan'.infeasible \subseteq plan.infeasible
        /\ \A h \in plan.scheduled : plan'.chunk[h] = plan.chunk[h]
    BY <2>1, NewPlanFacts
  <2> QED BY <2>1, <2>2, <2>3, QuietSingle
<1> QED BY <1>2, <1>3, <1>4

\* A group is scheduled: what is planned of it is sound, and of the others as before.
LEMMA ScheduleSingle ==
  ASSUME Core, Core', SingleInv, Single, config' = config,
         NEW g \in Groups, NEW r, NEW c, NEW new, NEW n, Schedules(g, c, new, n), Moves(g, r),
         lost' = lost, error' = error, swapped' = swapped, phase' = phase,
         OnGpu' \subseteq OnGpu \cup {g},
         LacksTokens(r), new >= 0, Total(plan'.tokens) <= MaxBatchedTokens,
         ~r.decode => IF Chunked THEN c \in 1 .. r.len - r.computed ELSE c = r.len - r.computed,
         phase = "running" /\ ~Chunked => new <= 1, Chunked => n = 1
  PROVE  SingleInv'
<1>1. NothingSwapped /\ TokensInLimit /\ \A h \in Groups : LacksTokens(group[h]) /\ SinglePlan(h)
  BY SingleOf
<1>2. /\ plan'.scheduled = plan.scheduled \cup {g} /\ plan'.infeasible = plan.infeasible
      /\ plan'.swapped_out = plan.swapped_out
      /\ plan'.chunk = [plan.chunk EXCEPT ![g] = c] /\ plan'.tokens = [plan.tokens EXCEPT ![g] = new]
      /\ plan'.seqs = [plan.seqs EXCEPT ![g] = n]
      /\ \A h \in Groups : group'[h] = IF h = g THEN r ELSE group[h]
  BY DEF Schedules, KeepsLists, Moves
<1>3. /\ plan.chunk \in [Groups -> Int] /\ plan.tokens \in [Groups -> Int] /\ plan.seqs \in [Groups -> Nat]
  BY CoreFacts, PlanFields
<1>4. \A h \in Groups : /\ plan'.chunk[h] = IF h = g THEN c ELSE plan.chunk[h]
                        /\ plan'.tokens[h] = IF h = g THEN new ELSE plan.tokens[h]
                        /\ plan'.seqs[h] = IF h = g THEN n ELSE plan.seqs[h]
  BY <1>2, <1>3
<1>5. NothingSwapped' /\ TokensInLimit'
  BY <1>1, <1>2, SameConfig DEF NothingSwapped, TokensInLimit, Total
<1>6. LacksTokens(group'[g]) /\ SinglePlan(g)'
  <2>1. group'[g] = r /\ g \in plan'.scheduled
    BY <1>2
  <2>2. plan'.chunk[g] = c /\ plan'.tokens[g] = new /\ plan'.seqs[g] = n
    BY <1>4
  <2>3. Chunked' <=> Chunked
    BY SameConfig
  <2> QED BY <2>1, <2>2, <2>3 DEF SinglePlan
<1>7. ASSUME NEW h \in Groups, h # g PROVE LacksTokens(group'[h]) /\ SinglePlan(h)'
  <2>1. group'[h] = group[h] /\ (h \in plan'.scheduled <=> h \in plan.scheduled) /\ (h \in OnGpu' => h \in OnGpu)
    BY <1>2, <1>7
  <2>2. /\ plan'.chunk[h] = plan.chunk[h] /\ plan'.tokens[h] = plan.tokens[h]
        /\ plan'.seqs[h] = plan.seqs[h]
    BY <1>4, <1>7
  <2>3. SinglePlan(h)'
    BY <2>1, <2>2, SinglePlanStays
  <2> QED BY <1>1, <2>1, <2>3
<1> QED BY <1>5, <1>6, <1>7, SingleOf

LEMMA PrefillSingle ==
  ASSUME Core, Core', SingleInv, Single, config' = config, NEW g, NEW new, Prefills(g, new)
  PROVE  SingleInv'
<1> DEFINE r == Allocated(group[g])
           n == MaxNumRunningSeqs(g)
<1>1. /\ g \in Groups /\ Moves(g, r) /\ Schedules(g, new, new, n) /\ CanSchedule(new, n)
      /\ new = NumNewTokens(g, Chunked) /\ OnGpu' = OnGpu \cup {g} /\ phase = "prefill"
      /\ lost' = lost /\ error' = error /\ swapped' = swapped /\ phase' = phase
      /\ group[g].status = "waiting" /\ g \notin plan.scheduled
  BY DEF Prefills, LeavesWaiting
<1>2. n = 1 /\ group[g].seqs = 1
  BY <1>1, SingleFacts
<1>3. /\ group[g] \in GroupType /\ ~group[g].decode /\ group[g].computed = 0 /\ LacksTokens(group[g])
      /\ group[g].len \in Nat
  BY <1>1, CoreFacts DEF Good, GroupInv, SingleInv, GroupType
<1>4. /\ r.decode = group[g].decode /\ r.computed = 0 /\ r.len = group[g].len /\ r.refs = 1
  BY <1>2, <1>3, SameW
<1>5. LacksTokens(r)
  BY <1>1, <1>3, <1>4 DEF LacksTokens
<1>6. /\ Each(g) = group[g].len - 0 /\ new \in Int /\ new > 0
      /\ Total(plan.tokens) + new <= MaxBatchedTokens
  BY <1>1, <1>3 DEF Each, CanSchedule, Schedules
<1>7. IF Chunked THEN new \in 1 .. r.len - r.computed ELSE new = r.len - r.computed
  <2>1. CASE Chunked
    <3>1. Chunked = TRUE
      BY <2>1, CoreFacts DEF Limits
    <3>2. new <= Each(g)
      BY <1>1, <3>1, EachLacksTokens
    <3> QED BY <1>3, <1>4, <1>6, <2>1, <3>2
  <2>2. CASE ~Chunked
    <3>1. Chunked = FALSE
      BY <2>2, CoreFacts DEF Limits
    <3>2. new = Each(g)
      BY <1>1, <3>1, EachLacksTokens
    <3> QED BY <1>4, <1>6, <2>2, <3>2
  <2> QED BY <2>1, <2>2
<1>8. Total(plan'.tokens) <= MaxBatchedTokens
  <2>1. plan.tokens[g] = 0
    BY <1>1 DEF SingleInv, SinglePlan
  <2>2. plan'.tokens = [plan.tokens EXCEPT ![g] = new]
    BY <1>1 DEF Schedules
  <2>3. Total(plan'.tokens) = Total(plan.tokens) - plan.tokens[g] + new /\ Total(plan.tokens) \in Int
    <3> DEFINE f == plan.tokens
    <3>1. f \in [Groups -> Int] /\ plan'.tokens = [f EXCEPT ![g] = new] /\ g \in Groups /\ new \in Int
      BY <1>1, <1>6, <2>2, TokensFacts
    <3> HIDE DEF f
    <3>2. Total([f EXCEPT ![g] = new]) = Total(f) - f[g] + new /\ Total(f) \in Int
      BY <3>1, OneCount
    <3> QED BY <3>1, <3>2 DEF f
  <2> QED BY <1>6, <2>1, <2>3
<1>9. new >= 0
  BY <1>6
<1> HIDE DEF r, n
<1> QED BY <1>1, <1>2, <1>5, <1>7, <1>8, <1>9, ScheduleSingle

LEMMA AppendSingle ==
  ASSUME Core, Core', SingleInv, SeqsInv, Single, config' = config, NEW g, NEW new, Appends(g, new)
  PROVE  SingleInv'
<1> DEFINE r == Appended(group[g])
           n == IF Chunked THEN MaxNumRunningSeqs(g) ELSE plan.seqs[g]
           c == IF IsPrefill(g) THEN new ELSE 1
<1>1. /\ g \in Groups /\ Moves(g, r) /\ Schedules(g, c, new, n)
      /\ new = NumNewTokens(g, Chunked) /\ new # 0 /\ OnGpu' = OnGpu /\ phase = "running"
      /\ lost' = lost /\ error' = error /\ swapped' = swapped /\ phase' = phase
      /\ group[g].status = "running" /\ g \notin plan.scheduled /\ g \in OnGpu
  BY DEF Appends, queues
<1>2. /\ Chunked => n = 1
      /\ MaxNumRunningSeqs(g) = 1 /\ (IsPrefill(g) <=> ~group[g].decode)
  BY <1>1, SingleFacts
<1>3. group[g] \in GroupType /\ group[g].len \in Nat /\ LacksTokens(group[g]) /\ SinglePlan(g)
  BY <1>1, CoreFacts DEF Good, SingleInv, GroupType
<1>4. r.decode = group[g].decode /\ r.computed = group[g].computed /\ r.len = group[g].len
      /\ r.refs = group[g].refs
  BY <1>3, SameW
<1>5. LacksTokens(r)
  BY <1>1, <1>3, <1>4 DEF LacksTokens
<1>6. /\ plan'.tokens = [plan.tokens EXCEPT ![g] = new] /\ new \in Int
      /\ plan'.scheduled = plan.scheduled \cup {g}
  BY <1>1 DEF Schedules
<1>7. /\ Total(plan'.tokens) = Total(plan.tokens) - plan.tokens[g] + new
      /\ plan'.tokens \in [Groups -> Int]
      /\ \A h \in Groups : plan'.tokens[h] = IF h = g THEN new ELSE plan.tokens[h]
      /\ Total(plan.tokens) \in Int
  <2> DEFINE f == plan.tokens
  <2>1. f \in [Groups -> Int] /\ plan'.tokens = [f EXCEPT ![g] = new] /\ g \in Groups /\ new \in Int
    BY <1>1, <1>6, TokensFacts
  <2> HIDE DEF f
  <2>2. /\ Total([f EXCEPT ![g] = new]) = Total(f) - f[g] + new
        /\ [f EXCEPT ![g] = new] \in [Groups -> Int]
        /\ \A h \in Groups : [f EXCEPT ![g] = new][h] = IF h = g THEN new ELSE f[h]
        /\ Total(f) \in Int
    BY <2>1, OneCount
  <2> QED BY <2>1, <2>2 DEF f
<1>8. plan.tokens[g] = 0 /\ (~Chunked => group[g].decode)
  BY <1>1, <1>3 DEF SinglePlan
<1>9. Chunked \in BOOLEAN /\ MaxBatchedTokens \in Nat /\ TokensInLimit
  BY CoreFacts DEF Limits, SingleInv
<1>10. CASE Chunked
  <2>1. Chunked = TRUE
    BY <1>9, <1>10
  <2>2. /\ Each(g) \in Nat /\ Each(g) >= 1 /\ new \in {Each(g), RemainingTokens} /\ new <= Each(g)
        /\ new <= RemainingTokens /\ RemainingTokens \in Int
    BY <1>1, <2>1, EachLacksTokens
  <2>3. RemainingTokens = MaxBatchedTokens - Total(plan.tokens) /\ Total(plan.tokens) <= MaxBatchedTokens
    BY <1>9 DEF RemainingTokens, TokensInLimit
  <2>4. new >= 1
    BY <1>1, <1>7, <1>9, <2>2, <2>3
  <2>5. Total(plan'.tokens) <= MaxBatchedTokens
    BY <1>6, <1>7, <1>8, <1>9, <2>2, <2>3
  <2>6. ~r.decode => c \in 1 .. r.len - r.computed
    <3> SUFFICES ASSUME ~r.decode PROVE c \in 1 .. r.len - r.computed
      OBVIOUS
    <3>1. c = new /\ Each(g) = r.len - r.computed
      BY <1>2, <1>4 DEF Each
    <3> QED BY <1>6, <2>2, <2>4, <3>1
  <2>7. new >= 0
    BY <1>6, <2>4
  <2> HIDE DEF r, n, c
  <2> QED BY <1>1, <1>2, <1>5, <1>10, <2>5, <2>6, <2>7, ScheduleSingle
<1>11. CASE ~Chunked
  <2>1. Chunked = FALSE
    BY <1>9, <1>11
  <2>2. new = 1
    <3>1. NumNewTokens(g, FALSE) = Each(g) /\ Each(g) = 1
      BY <1>1, <1>8, <1>11, EachLacksTokens DEF Each
    <3> QED BY <1>1, <2>1, <3>1
  <2>3. Total(plan'.tokens) <= MaxBatchedTokens
    <3> DEFINE f == [h \in Groups |-> plan'.tokens[h]]
               e == Forked(OnGpu)
    <3>1. plan'.scheduled \subseteq OnGpu /\ OnGpu \subseteq Groups /\ \A h \in OnGpu : group[h].status = "running"
      BY <1>1, <1>6, Places
    <3>2. \A h \in Groups : e[h] = (IF h \in OnGpu THEN WOf(group[h]) ELSE 0) /\ e[h] \in Nat
      BY ForkedFacts
    <3>3. \A h \in OnGpu : WOf(group[h]) = 1
      BY <3>1, SingleFacts
    <3>4. \A h \in Groups : plan.tokens[h] \in Int /\ plan.tokens[h] >= 0 /\ plan.tokens[h] <= 1
                            /\ (h \notin plan.scheduled => plan.tokens[h] = 0)
      <4>1. plan.tokens \in [Groups -> Int]
        BY TokensFacts
      <4> QED BY <1>1, <1>11, <4>1 DEF SingleInv, SinglePlan
    <3>5. \A h \in 1 .. NumGroups : f[h] \in Nat /\ e[h] \in Nat /\ f[h] <= e[h]
      <4> SUFFICES ASSUME NEW h \in Groups PROVE f[h] \in Nat /\ e[h] \in Nat /\ f[h] <= e[h]
        OBVIOUS
      <4>1. f[h] = IF h = g THEN 1 ELSE plan.tokens[h]
        BY <1>7, <2>2
      <4>2. f[h] \in Nat /\ f[h] <= 1
        BY <3>4, <4>1
      <4>3. h \in OnGpu => e[h] = 1
        BY <3>2, <3>3
      <4>4. h \notin OnGpu => f[h] = 0
        BY <1>1, <3>1, <3>4, <4>1, Places
      <4> HIDE DEF f, e
      <4> QED BY <3>2, <4>2, <4>3, <4>4
    <3>6. NumGroups \in Nat
      BY CoreFacts
    <3>7. SumUpTo(f, NumGroups) <= SumUpTo(e, NumGroups) /\ SumUpTo(f, NumGroups) \in Nat
          /\ SumUpTo(e, NumGroups) \in Nat
      <4> HIDE DEF f, e
      <4> HIDE SchedulerAssumption DEF Groups
      <4> QED BY <3>5, <3>6, SumOrder
    <3>8. f = plan'.tokens
      BY <1>7
    <3>9. SumUpTo(e, NumGroups) <= MaxNumSeqs
      BY <1>11 DEF SeqsInv, GpuInLimit, Total
    <3>10. MaxNumSeqs \in Nat /\ MaxNumSeqs <= MaxBatchedTokens /\ MaxBatchedTokens \in Nat
      BY TokensFacts
    <3> HIDE DEF e, f
    <3>11. SumUpTo(f, NumGroups) <= MaxBatchedTokens
      BY <3>7, <3>9, <3>10
    <3> QED BY <3>8, <3>11 DEF Total
  <2>4. r.decode /\ new >= 0 /\ new <= 1
    BY <1>4, <1>8, <1>11, <2>2
  <2> HIDE DEF r, n, c
  <2> QED BY <1>1, <1>5, <1>11, <2>3, <2>4, ScheduleSingle
<1> QED BY <1>10, <1>11

\* What a step makes of a group that has one sequence.
LEMMA RanSingle ==
  ASSUME Core, SingleInv, Single, NEW g \in Groups, g \in plan.scheduled, Ran(g)
  PROVE  /\ LacksTokens(group'[g])
         /\ ~Chunked => group'[g].decode \/ group'[g].status = "finished"
<1> DEFINE r == group[g]
           s == group'[g]
           c == plan.chunk[g]
<1>1. /\ Limits /\ Good(r) /\ r.status = "running" /\ c \in Int /\ r \in GroupType
      /\ LacksTokens(r) /\ SinglePlan(g)
  BY CoreFacts DEF Ran, SingleInv, Good
<1>2. /\ r.seqs = r.best_of /\ (CanPrefill(r) <=> ~r.decode)
  BY <1>1, SingleFacts DEF CanPrefill
<1>3. /\ r.refs \in Nat /\ r.refs <= 1 /\ r.len \in Nat /\ r.computed \in Int
      /\ (~r.decode => r.computed \in 0 .. r.len - 1)
      /\ (~r.decode => IF Chunked THEN c \in 1 .. r.len - r.computed ELSE c = r.len - r.computed)
  BY <1>1 DEF LacksTokens, SinglePlan, GroupType
<1> HIDE DEF c
<1>4. CASE CanPrefill(r) /\ ~(r.computed + c >= r.len) /\ s = Computed(r, c)
  <2>1. /\ s.computed = r.computed + c /\ s.len = r.len /\ s.refs = r.refs
        /\ (s.decode <=> r.decode \/ r.computed + c = r.len)
    BY <1>1, <1>4, ComputedFields
  <2>2. ~r.decode
    BY <1>2, <1>4
  <2>3. Chunked /\ c >= 1 /\ c \in Int
    BY <1>1, <1>3, <1>4, <2>2
  <2>4. s.computed \in 0 .. s.len - 1
    BY <1>3, <1>4, <2>1, <2>2, <2>3
  <2> QED BY <1>3, <2>1, <2>3, <2>4 DEF LacksTokens
<1>5. ASSUME CanPrefill(r) => r.computed + c >= r.len, NEW stop, s = Next1(r, c, stop)
      PROVE  LacksTokens(s) /\ (~Chunked => s.decode \/ s.status = "finished")
  <2>1. CASE s = Ended
    BY <1>1, <2>1, EndedGood DEF LacksTokens
  <2>2. CASE s # Ended
    <3>1. /\ GoesOn(s, r) /\ Goes(s, r) /\ s.computed = r.computed + c
          /\ (s.decode <=> r.decode \/ r.computed + c = r.len)
      BY <1>1, <1>5, <2>2, SampledFields
    <3>2. s.refs = r.refs - Cardinality(r.flagged) /\ Cardinality(r.flagged) \in Nat
      BY <1>1, <1>2, <3>1, GoodFacts DEF Goes
    <3>3. s.refs <= 1
      BY <1>3, <3>2
    <3>4. s.decode
      <4>1. CASE r.decode
        BY <3>1, <4>1
      <4>2. CASE ~r.decode
        <5>1. r.computed + c >= r.len /\ c \in Int
          BY <1>1, <1>2, <1>5, <4>2
        <5>2. c <= r.len - r.computed
          BY <1>3, <4>2, <5>1
        <5>3. r.computed + c = r.len
          BY <1>3, <5>1, <5>2
        <5> QED BY <3>1, <5>3
      <4> QED BY <4>1, <4>2
    <3> QED BY <3>3, <3>4 DEF LacksTokens
  <2> QED BY <2>1, <2>2
<1> QED BY <1>4, <1>5 DEF Ran, c

LEMMA ExecuteSingle ==
  ASSUME Core, Core', SingleInv, Single, config' = config, Executes
  PROVE  SingleInv'
<1>1. NothingSwapped /\ TokensInLimit /\ \A g \in Groups : LacksTokens(group[g]) /\ SinglePlan(g)
  BY SingleOf
<1>2. /\ plan' = NewPlan /\ swapped' = swapped /\ error' = error /\ phase' = "idle" /\ OnGpu = running
      /\ OnGpu' \subseteq OnGpu /\ plan.scheduled \subseteq Groups
      /\ \A g \in Groups : g \notin plan.scheduled => group'[g] = group[g]
      /\ \A g \in plan.scheduled : Ran(g)
      /\ lost' = [lost EXCEPT !.gpu = @ + Total([g \in Groups |-> IF g \in Over THEN Leak(group[g]) ELSE 0])]
      /\ \A g \in plan.scheduled : g \in OnGpu' => group'[g].status # "finished"
  <2>1. \A g \in plan.scheduled : g \in running' => g \notin Over
    BY DEF Executes
  <2> QED BY <2>1 DEF Executes
<1>3. lost' = lost
  <2> DEFINE f == [g \in Groups |-> IF g \in Over THEN Leak(group[g]) ELSE 0]
  <2>1. \A g \in 1 .. NumGroups : f[g] = 0
    <3> SUFFICES ASSUME NEW g \in Groups, g \in Over PROVE Leak(group[g]) = 0
      OBVIOUS
    <3>1. group[g].status # "finished"
      BY <1>2 DEF Over, Ran
    <3> QED BY <3>1, NoLeak
  <2>2. NumGroups \in Nat
    BY CoreFacts
  <2> HIDE DEF f
  <2>3. Total(f) = 0
    BY <2>1, <2>2, SumOfZeros DEF Total
  <2> QED BY <1>2, <2>3, NothingLeaks DEF f
<1>4. NothingSwapped'
  BY <1>1, <1>2, <1>3, NewPlanFacts DEF NothingSwapped
<1>5. TokensInLimit'
  <2> DEFINE f == plan'.tokens
  <2>1. \A h \in 1 .. NumGroups : f[h] = 0
    BY <1>2, NewPlanFacts
  <2>2. NumGroups \in Nat /\ MaxBatchedTokens' = MaxBatchedTokens /\ MaxBatchedTokens \in Nat
    BY CoreFacts, SameConfig DEF Limits
  <2> HIDE DEF f
  <2>3. SumUpTo(f, NumGroups) = 0
    BY <2>1, <2>2, SumOfZeros
  <2> QED BY <2>2, <2>3 DEF TokensInLimit, Total, f
<1>6. ASSUME NEW h \in Groups PROVE LacksTokens(group'[h]) /\ SinglePlan(h)'
  <2>1. LacksTokens(group'[h]) /\ (h \in plan.scheduled /\ ~Chunked => group'[h].decode \/ group'[h].status = "finished")
    BY <1>1, <1>2, RanSingle
  <2>2. ~Chunked /\ h \in OnGpu' => group'[h].decode
    <3>1. CASE h \in plan.scheduled
      BY <1>2, <2>1, <3>1
    <3>2. CASE h \notin plan.scheduled
      BY <1>1, <1>2, <3>2 DEF SinglePlan
    <3> QED BY <3>1, <3>2
  <2>3. /\ h \notin plan'.scheduled /\ plan'.tokens[h] = 0 /\ plan'.seqs[h] = 0
    BY <1>2, NewPlanFacts
  <2>4. Chunked' <=> Chunked
    BY SameConfig
  <2>5. SinglePlan(h)'
    BY <1>2, <2>2, <2>3, <2>4 DEF SinglePlan
  <2> QED BY <2>1, <2>5
<1> QED BY <1>4, <1>5, <1>6, SingleOf

LEMMA SingleStep ==
  ASSUME Core, Core', SingleInv, SeqsInv, Happens, config' = config
  PROVE  SingleInv'
<1> SUFFICES ASSUME Single PROVE SingleInv'
  BY SingleOf
<1> QED BY RestSingle, TurnSingle, PrefillSingle, AppendSingle, ExecuteSingle, NeverSwaps DEF Happens

LEMMA SeqsStep ==
  ASSUME Core, Core', SeqsInv, SingleInv, Happens, config' = config
  PROVE  SeqsInv'
<1>1. OnGpu \subseteq Groups /\ \A h \in Groups : WOf(group[h]) \in Nat /\ MaxNumRunningSeqs(h) = WOf(group[h])
  BY Places, ForkedFacts
<1>2. ASSUME NEW g, NEW len, NEW n, Adds(g, len, n) PROVE SeqsInv'
  <2>1. /\ plan' = plan /\ OnGpu' = OnGpu /\ phase' = "idle" /\ g \in Groups /\ group[g].status = "finished"
        /\ \A h \in Groups : group'[h] = IF h = g THEN New(len, n) ELSE group[h]
    BY <1>2 DEF Adds, Moves, AtRest
  <2>2. g \notin OnGpu
    BY <2>1, Places
  <2>3. \A h \in OnGpu' : h \in OnGpu /\ WOf(group'[h]) <= WOf(group[h])
    BY <1>1, <2>1, <2>2
  <2> QED BY <2>1, <2>3, RestSeqs
<1>3. ASSUME NEW g, Aborts(g) PROVE SeqsInv'
  <2>1. /\ plan' = plan /\ OnGpu' = OnGpu \ {g} /\ phase' = "idle" /\ g \in Groups
        /\ \A h \in Groups : group'[h] = IF h = g THEN Ended ELSE group[h]
    BY <1>3 DEF Aborts, Moves, AtRest
  <2>2. \A h \in OnGpu' : h \in OnGpu /\ WOf(group'[h]) <= WOf(group[h])
    BY <1>1, <2>1
  <2> QED BY <2>1, <2>2, RestSeqs
<1>4. CASE Commits
  <2>1. /\ plan' = plan \/ plan' = NewPlan
        /\ OnGpu' = OnGpu /\ phase' \in {"idle", "exec"} /\ group' = group
    BY <1>4 DEF Commits
  <2>2. \A h \in OnGpu' : h \in OnGpu /\ WOf(group'[h]) <= WOf(group[h])
    BY <1>1, <2>1
  <2> QED BY <2>1, <2>2, RestSeqs
<1>5. CASE Executes
  <2>1. /\ plan' = NewPlan /\ phase' = "idle" /\ OnGpu' = running \ Over /\ running = OnGpu
        /\ \A h \in Groups : h \notin plan.scheduled => group'[h] = group[h]
        /\ \A h \in plan.scheduled : Ran(h)
    BY <1>5 DEF Executes
  <2>2. ASSUME NEW h \in OnGpu' PROVE h \in OnGpu /\ WOf(group'[h]) <= WOf(group[h])
    <3>1. h \in OnGpu /\ h \notin Over
      BY <2>1
    <3>2. CASE h \in plan.scheduled
      <4>1. Ran(h) /\ group'[h].live # {} /\ Limits
        BY <2>1, <3>1, <3>2, CoreFacts DEF Over
      <4> QED BY <3>1, <4>1, RanW
    <3>3. CASE h \notin plan.scheduled
      <4>1. h \in Groups /\ group'[h] = group[h] /\ WOf(group[h]) \in Nat
        BY <1>1, <2>1, <3>1, <3>3
      <4> QED BY <3>1, <4>1
    <3> QED BY <3>2, <3>3
  <2> QED BY <2>1, <2>2, RestSeqs
<1>6. ASSUME NEW g, Ignores(g) \/ NeverReturns(g) PROVE SeqsInv'
  <2>1. /\ plan'.seqs = plan.seqs /\ plan'.tokens = plan.tokens /\ (Preempts' <=> Preempts)
        /\ OnGpu' = OnGpu /\ phase' = phase /\ g \notin OnGpu
        /\ \A h \in Groups : group'[h] = IF h = g THEN Ended ELSE group[h]
    BY <1>6 DEF Ignores, NeverReturns, LeavesWaiting, OnCpu, KeepsLists, KeepsCounts, Moves
  <2>2. \A h \in OnGpu' : WOf(group'[h]) = WOf(group[h])
    BY <1>1, <2>1
  <2> QED BY <2>1, <2>2, SameSeqs
<1>7. ASSUME Fails \/ \E g, v : RunsOut(g, v) PROVE SeqsInv'
  <2>1. /\ plan' = plan /\ group' = group /\ phase' = phase /\ running' = running
    BY <1>7 DEF Fails, RunsOut, Victimises, queues
  <2>2. OnGpu' = OnGpu /\ (Preempts' <=> Preempts)
    BY <2>1 DEF OnGpu, Preempts, Preempted
  <2> QED BY <2>1, <2>2, SameSeqs
<1>8. ASSUME NEW g, NEW new, Prefills(g, new) PROVE SeqsInv'
  <2>1. /\ g \in Groups /\ g \notin OnGpu /\ phase = "prefill" /\ phase' = phase /\ OnGpu' = OnGpu \cup {g}
        /\ Schedules(g, new, new, MaxNumRunningSeqs(g)) /\ CanSchedule(new, MaxNumRunningSeqs(g))
        /\ Moves(g, Allocated(group[g]))
    BY <1>8 DEF Prefills, LeavesWaiting
  <2>2. \A h \in Groups : group'[h] = IF h = g THEN Allocated(group[g]) ELSE group[h]
    BY <2>1 DEF Moves
  <2>3. WOf(group'[g]) = WOf(group[g])
    BY <2>1, <2>2, SameW DEF Moves, Good
  <2>4. Chunked \/ ~Preempts
    BY <2>1 DEF Core, QueuesAgree
  <2>5. Schedules(g, new, new, WOf(group[g])) /\ CanSchedule(new, WOf(group[g]))
    BY <1>1, <2>1
  <2> QED BY <2>1, <2>2, <2>3, <2>4, <2>5, ArriveSeqs
<1>9. ASSUME NEW g, NEW new, Returns(g, new) PROVE SeqsInv'
  <2>1. /\ g \in Groups /\ g \notin OnGpu /\ phase = "swapped" /\ phase' = phase /\ OnGpu' = OnGpu \cup {g}
        /\ Schedules(g, IF IsPrefill(g) THEN new ELSE 1, new, MaxNumRunningSeqs(g))
        /\ CanSchedule(new, MaxNumRunningSeqs(g)) /\ ~Preempts
        /\ Moves(g, Appended(group[g]))
    BY <1>9 DEF Returns, OnCpu
  <2>2. \A h \in Groups : group'[h] = IF h = g THEN Appended(group[g]) ELSE group[h]
    BY <2>1 DEF Moves
  <2>3. WOf(group'[g]) = WOf(group[g])
    BY <2>1, <2>2, SameW DEF Moves, Good
  <2>4. Schedules(g, IF IsPrefill(g) THEN new ELSE 1, new, WOf(group[g])) /\ CanSchedule(new, WOf(group[g]))
    BY <1>1, <2>1
  <2> QED BY <2>1, <2>2, <2>3, <2>4, ArriveSeqs
<1>10. ASSUME NEW g, NEW v, Recomputes(g, v) \/ SwapsOut(g, v) PROVE SeqsInv'
  <2>1. Victimises(g, v) /\ GivesBack(g) /\ Preempts' /\ OnGpu' = OnGpu \ {v}
        /\ \A h \in Groups : h # v => group'[h] = group[h]
    BY <1>10 DEF Recomputes, SwapsOut, Moves
  <2>2. g \in Groups /\ phase = "running" /\ phase' = phase
    BY <2>1 DEF Victimises
  <2>3. \A h \in OnGpu' : group'[h] = group[h]
    BY <1>1, <2>1
  <2> QED BY <2>1, <2>2, <2>3, VictimSeqs
<1> QED BY <1>2, <1>3, <1>4, <1>5, <1>6, <1>7, <1>8, <1>9, <1>10, StartSeqs, TurnSeqs, AppendSeqs
        DEF Happens

-----------------------------------------------------------------------------
\* Requests of one sequence under the default policy: the order of service.

OrderParts ==
  /\ Increasing(waiting)
  /\ \A r \in OnGpu, w \in ToSet(waiting) : r < w
  /\ phase = "running" => \A r \in plan.scheduled, g \in todo : r < g
  /\ phase \notin {"idle", "exec"} =>
        /\ Decreasing(plan.preempted)
        /\ \A p \in Preempted : /\ \A r \in OnGpu : r < p
                                /\ \A w \in ToSet(waiting) : p < w

LEMMA OrderOf ==
  ASSUME config' = config
  PROVE  /\ OrderInv /\ Single /\ ~Chunked => OrderParts
         /\ (Single /\ ~Chunked => OrderParts') => OrderInv'
<1>1. (Single' <=> Single) /\ (Chunked' <=> Chunked)
  BY SameConfig
<1>2. (OrderInv <=> (Single /\ ~Chunked => OrderParts)) /\ (OrderInv' <=> (Single' /\ ~Chunked' => OrderParts'))
  BY DEF OrderInv, OrderParts, WaitingSorted, Increasing, Decreasing
<1> QED BY <1>1, <1>2

LEMMA EmptyOrder ==
  ASSUME Core
  PROVE  /\ plan.preempted = <<>> => Decreasing(plan.preempted) /\ Preempted = {}
         /\ plan.preempted \in Seq(Int) /\ waiting \in Seq(Int)
         /\ \A g \in Groups : g \in Int
         /\ ToSet(waiting) \subseteq Groups /\ OnGpu \subseteq Groups /\ Preempted \subseteq Groups
         /\ Preempted = ToSet(plan.preempted)
<1>1. plan.preempted \in Seq(Groups) /\ waiting \in Seq(Groups)
  BY CoreFacts
<1>2. \A g \in Groups : g \in Int
  OBVIOUS
<1>3. Groups \subseteq Int
  BY <1>2
<1>4. plan.preempted \in Seq(Int) /\ waiting \in Seq(Int)
  <2>1. ASSUME NEW s \in Seq(Groups) PROVE s \in Seq(Int)
    <3>1. \A i \in 1 .. Len(s) : s[i] \in Groups
      OBVIOUS
    <3>2. Len(s) \in Nat /\ s = [i \in 1 .. Len(s) |-> s[i]] /\ \A i \in 1 .. Len(s) : s[i] \in Int
      BY <1>3, <3>1
    <3> QED BY <3>2
  <2> QED BY <1>1, <2>1
<1>5. Decreasing(<<>>) /\ ToSet(<<>>) = {}
  BY DEF Decreasing, ToSet
<1> QED BY <1>2, <1>4, <1>5, Places DEF Preempted

LEMMA StartOrder ==
  ASSUME Core, Core', OrderParts, config' = config, Starts
  PROVE  OrderParts'
<1>1. /\ waiting' = waiting /\ OnGpu' = OnGpu /\ plan'.scheduled = {} /\ plan'.preempted = <<>>
  BY DEF Starts, AtRest, Counted, queues
<1>2. Decreasing(plan'.preempted) /\ Preempted' = {}
  BY <1>1 DEF Decreasing, Preempted, ToSet
<1> QED BY <1>1, <1>2 DEF OrderParts

LEMMA TurnOrder ==
  ASSUME Core, Core', OrderParts, config' = config, Turns
  PROVE  OrderParts'
BY DEF Turns, OrderParts, queues

LEMMA AddOrder ==
  ASSUME Core, Core', OrderParts, config' = config, NEW g, NEW len, NEW n, Adds(g, len, n)
  PROVE  OrderParts'
<1>1. /\ waiting' = Append(waiting, g) /\ g \in Groups /\ g = arrived + 1 /\ phase' = "idle" /\ OnGpu' = OnGpu
      /\ ToSet(waiting') = ToSet(waiting) \cup {g}
  BY DEF Adds, AtRest
<1>2. arrived \in 0 .. NumGroups /\ NumGroups \in Nat
  BY CoreFacts DEF Core, TypeOK
<1>3. \A h \in ToSet(waiting) \cup OnGpu : h < g
  <2> SUFFICES ASSUME NEW h \in ToSet(waiting) \cup OnGpu PROVE h < g
    OBVIOUS
  <2>1. h \in Groups /\ group[h].status # "finished"
    BY Places
  <2>2. ~(h > arrived)
    BY <2>1 DEF Core, QueuesAgree
  <2> QED BY <1>1, <1>2, <2>1, <2>2
<1>4. Increasing(waiting')
  BY <1>1, <1>3, EmptyOrder, IncreasingAppend DEF OrderParts
<1> QED BY <1>1, <1>3, <1>4 DEF OrderParts

LEMMA AbortOrder ==
  ASSUME Core, Core', OrderParts, config' = config, NEW g, Aborts(g)
  PROVE  OrderParts'
<1>1. /\ waiting' = Select(waiting, Groups \ {g}) /\ ToSet(waiting') = ToSet(waiting) \ {g}
      /\ phase' = "idle" /\ OnGpu' = OnGpu \ {g}
  BY DEF Aborts, AtRest
<1>2. Increasing(waiting')
  BY <1>1, EmptyOrder, IncreasingSelect DEF OrderParts
<1> QED BY <1>1, <1>2 DEF OrderParts

LEMMA HeadOrder ==
  ASSUME Core, Core', OrderParts, config' = config, ~Chunked, NEW g,
         (\E new : Prefills(g, new)) \/ Ignores(g)
  PROVE  OrderParts'
<1>1. /\ phase = "prefill" /\ phase' = phase /\ waiting # <<>> /\ g = Head(waiting) /\ waiting' = Tail(waiting)
      /\ ToSet(waiting') \subseteq ToSet(waiting) /\ g \in Groups
      /\ OnGpu' \subseteq OnGpu \cup {g} /\ plan'.preempted = plan.preempted /\ Preempted' = Preempted
  BY DEF Prefills, Ignores, LeavesWaiting, Schedules, KeepsLists
<1>2. plan.preempted = <<>>
  BY <1>1 DEF Core, QueuesAgree, Preempts
<1>3. Preempted = {} /\ Decreasing(plan.preempted)
  BY <1>2, EmptyOrder
<1>4. Increasing(waiting') /\ \A y \in ToSet(waiting') : g < y
  BY <1>1, EmptyOrder, IncreasingTail DEF OrderParts
<1> QED BY <1>1, <1>3, <1>4 DEF OrderParts

LEMMA RecomputeOrder ==
  ASSUME Core, Core', OrderParts, config' = config, NEW g, NEW v, Recomputes(g, v)
  PROVE  OrderParts'
<1>1. /\ phase = "running" /\ phase' = phase /\ waiting' = waiting /\ v \in Groups
      /\ todo = OnGpu \ plan.scheduled /\ v \in todo /\ \A h \in todo : h <= v
  BY DEF Recomputes, Victimises, queues
<1>2. /\ todo' = todo \ {v} /\ OnGpu' = OnGpu \ {v} /\ plan'.scheduled = plan.scheduled
      /\ plan'.preempted = Append(plan.preempted, v) /\ Preempted' = Preempted \cup {v}
  BY DEF Recomputes, GivesBack
<1>3. \A r \in OnGpu' : r < v
  <2> SUFFICES ASSUME NEW r \in OnGpu' PROVE r < v
    OBVIOUS
  <2>1. r \in Groups /\ r \in OnGpu /\ r # v
    BY <1>2, EmptyOrder
  <2>2. CASE r \in plan.scheduled
    BY <1>1, <2>2 DEF OrderParts
  <2>3. CASE r \notin plan.scheduled
    <3>1. r <= v
      BY <1>1, <2>1, <2>3
    <3> QED BY <1>1, <2>1, <3>1
  <2> QED BY <2>2, <2>3
<1>4. Decreasing(plan'.preempted)
  <2>1. v \in OnGpu
    BY <1>1
  <2>2. Decreasing(plan.preempted) /\ \A p \in ToSet(plan.preempted) : v < p
    BY <1>1, <2>1, EmptyOrder DEF OrderParts
  <2> QED BY <1>1, <1>2, <2>2, EmptyOrder, IncreasingAppend
<1>5. \A p \in Preempted' : (\A r \in OnGpu' : r < p) /\ \A w \in ToSet(waiting') : p < w
  BY <1>1, <1>2, <1>3 DEF OrderParts
<1> QED BY <1>1, <1>2, <1>4, <1>5 DEF OrderParts

LEMMA AppendOrder ==
  ASSUME Core, Core', OrderParts, config' = config, NEW g, NEW new, Appends(g, new)
  PROVE  OrderParts'
<1>1. /\ phase = "running" /\ phase' = phase /\ waiting' = waiting /\ g \in Groups
      /\ todo \subseteq Groups /\ g \in todo /\ \A h \in todo : g <= h
      /\ todo' = todo \ {g} /\ OnGpu' = OnGpu /\ plan'.scheduled = plan.scheduled \cup {g}
      /\ plan'.preempted = plan.preempted /\ Preempted' = Preempted
  BY Places DEF Appends, Schedules, KeepsLists, queues
<1>2. \A h \in todo' : g < h
  <2> SUFFICES ASSUME NEW h \in todo' PROVE g < h
    OBVIOUS
  <2>1. h \in Groups /\ h # g /\ g <= h
    BY <1>1
  <2> QED BY <1>1, <2>1
<1> QED BY <1>1, <1>2 DEF OrderParts

LEMMA CommitOrder ==
  ASSUME Core, Core', OrderParts, config' = config, Commits
  PROVE  OrderParts'
<1>1. /\ phase = "commit" /\ waiting' = Reverse(plan.preempted) \o waiting
      /\ ToSet(waiting') = Preempted \cup ToSet(waiting) /\ OnGpu' = OnGpu /\ phase' \in {"idle", "exec"}
  BY DEF Commits
<1>2. Increasing(waiting')
  <2>1. plan.preempted \in Seq(Int) /\ waiting \in Seq(Int) /\ Preempted = ToSet(plan.preempted)
    BY EmptyOrder
  <2>2. /\ Decreasing(plan.preempted) /\ Increasing(waiting)
        /\ \A x \in ToSet(plan.preempted), y \in ToSet(waiting) : x < y
    <3>1. phase \notin {"idle", "exec"}
      BY <1>1
    <3>2. /\ Decreasing(plan.preempted) /\ Increasing(waiting)
          /\ \A p \in Preempted : \A w \in ToSet(waiting) : p < w
      BY <3>1 DEF OrderParts
    <3> QED BY <2>1, <3>2, Zenon
  <2>3. Increasing(Reverse(plan.preempted) \o waiting)
    BY <2>1, <2>2, IncreasingExtend
  <2> QED BY <1>1, <2>3
<1> QED BY <1>1, <1>2 DEF OrderParts

LEMMA ExecuteOrder ==
  ASSUME Core, Core', OrderParts, config' = config, Executes
  PROVE  OrderParts'
<1>1. waiting' = waiting /\ OnGpu' \subseteq OnGpu /\ phase' = "idle"
  BY DEF Executes
<1> QED BY <1>1 DEF OrderParts

LEMMA OrderStep ==
  ASSUME Core, Core', OrderInv, SingleInv, SeqsInv, Happens, config' = config
  PROVE  OrderInv'
<1> SUFFICES ASSUME Single, ~Chunked PROVE OrderParts'
  BY OrderOf
<1>1. OrderParts
  BY OrderOf
<1> QED BY <1>1, StartOrder, TurnOrder, AddOrder, AbortOrder, HeadOrder, RecomputeOrder, AppendOrder,
           CommitOrder, ExecuteOrder, NeverSwaps DEF Happens

-----------------------------------------------------------------------------
\* What a step reports, and that it finds something to do.

LEMMA ReportedStep ==
  ASSUME Core, Core', ReportedInv, SingleInv, Happens, config' = config
  PROVE  ReportedInv'
<1>1. phase' = "exec" => (Commits \/ (phase = "exec" /\ plan' = plan /\ reported' = reported))
  BY DEF Happens, Adds, Aborts, AtRest, Starts, Turns, Ignores, Prefills, LeavesWaiting, Recomputes,
         SwapsOut, RunsOut, Victimises, Appends, Returns, NeverReturns, OnCpu, Executes, Fails
<1> SUFFICES ASSUME phase' = "exec", ~Chunked \/ Single
             PROVE  plan'.ignored \cup plan'.infeasible \subseteq reported'
  BY SameConfig DEF ReportedInv
<1>2. CASE Commits
  <2>1. plan' = plan /\ reported' = reported \cup IgnoredSeqGroups
    BY <1>2 DEF Commits
  <2>2. Chunked => plan.infeasible = {}
    BY DEF SingleInv, NothingSwapped
  <2> QED BY <2>1, <2>2 DEF IgnoredSeqGroups
<1>3. CASE phase = "exec" /\ plan' = plan /\ reported' = reported
  BY <1>3 DEF ReportedInv
<1> QED BY <1>1, <1>2, <1>3

\* A step that has scheduled nothing has all of its budget left.
LEMMA AllLeft ==
  ASSUME Core, SingleInv, Single, plan.scheduled = {}
  PROVE  Total(plan.tokens) = 0 /\ RemainingTokens \in Nat /\ RemainingTokens >= 1
<1> DEFINE f == plan.tokens
<1>1. \A h \in 1 .. NumGroups : f[h] = 0
  BY DEF SingleInv, SinglePlan
<1>2. NumGroups \in Nat
  BY CoreFacts
<1>3. MaxBatchedTokens \in Nat /\ MaxBatchedTokens >= 1
  BY CoreFacts DEF Limits
<1> HIDE DEF f
<1>4. SumUpTo(f, NumGroups) = 0
  BY <1>1, <1>2, SumOfZeros
<1>5. Total(plan.tokens) = 0
  BY <1>4 DEF f, Total
<1> QED BY <1>3, <1>5 DEF RemainingTokens

\* With nobody on the GPU the first of the waiting queue fits, if it ever does.
LEMMA NobodyWaits ==
  ASSUME Core, SingleInv, SeqsInv, Single, phase = "prefill", OnGpu = {}, plan.scheduled = {}, PrefillStops
  PROVE  waiting = <<>>
<1> SUFFICES ASSUME waiting # <<>> PROVE FALSE
  OBVIOUS
<1> DEFINE g == Head(waiting)
           new == NumNewTokens(g, Chunked)
           n == MaxNumRunningSeqs(g)
<1>1. /\ new <= PromptLimit /\ ~NeverFits(g) /\ ~(CanAllocate(g) /\ CanSchedule(new, n))
  BY DEF PrefillStops
<1>2. g \in Groups /\ group[g].status = "waiting" /\ group[g].len \in Nat
  <2>1. g \in ToSet(waiting)
    BY CoreFacts, MembersFacts
  <2> QED BY <2>1, Places, CoreFacts DEF Good, GroupType
<1> HIDE DEF g
<1>3. FreeGpu = GpuBlocks /\ GpuBlocks \in Nat /\ Watermark \in Nat
  <2>1. \A h \in Groups : BlocksIn("running")[h] = 0
    BY Places DEF BlocksIn
  <2>2. NumGroups \in Nat
    BY CoreFacts
  <2>3. Held("running") = 0
    BY <2>1, <2>2, SumOfZeros DEF Held, Total
  <2>4. lost.gpu = 0
    BY DEF SingleInv, NothingSwapped
  <2> QED BY <2>3, <2>4, FreeFacts
<1>4. CanAllocate(g)
  BY <1>1, <1>2, <1>3 DEF CanAllocate, NeverFits
<1>5. Total(plan.tokens) = 0 /\ RemainingTokens \in Nat /\ RemainingTokens >= 1
  BY AllLeft
<1>6. MaxBatchedTokens \in Nat /\ MaxModelLen \in Nat /\ MaxNumSeqs \in Nat /\ MaxNumSeqs >= 1
      /\ RemainingTokens = MaxBatchedTokens
  BY <1>5, CoreFacts DEF Limits, RemainingTokens
<1>7. Total(plan.seqs) = 0
  <2> DEFINE f == plan.seqs
  <2>1. \A h \in 1 .. NumGroups : f[h] = 0
    BY DEF SeqsInv, OthersNotCounted
  <2>2. NumGroups \in Nat
    BY CoreFacts
  <2> HIDE DEF f
  <2>3. SumUpTo(f, NumGroups) = 0
    BY <2>1, <2>2, SumOfZeros
  <2> QED BY <2>3 DEF Total, f
<1>8. n = 1
  BY <1>2, SingleFacts
<1>9. new \in Int /\ new > 0 /\ new <= MaxBatchedTokens
  <2>1. CASE Chunked
    <3>1. Chunked = TRUE
      BY <2>1, CoreFacts DEF Limits
    <3>2. Each(g) \in Nat /\ Each(g) >= 1 /\ new \in {Each(g), RemainingTokens} /\ new <= RemainingTokens
      BY <1>2, <3>1, EachLacksTokens
    <3> HIDE DEF new
    <3> QED BY <1>5, <1>6, <3>2
  <2>2. CASE ~Chunked
    <3>1. Chunked = FALSE
      BY <2>2, CoreFacts DEF Limits
    <3>2. Each(g) \in Nat /\ Each(g) >= 1 /\ new = Each(g)
      BY <1>2, <3>1, EachLacksTokens
    <3>3. PromptLimit <= MaxBatchedTokens /\ PromptLimit \in Int
      <4> DEFINE m == Min({MaxModelLen, MaxBatchedTokens})
      <4>1. MaxModelLen \in Int /\ MaxBatchedTokens \in Int
        BY <1>6
      <4>2. m \in {MaxModelLen, MaxBatchedTokens} /\ m <= MaxBatchedTokens
        BY <4>1, MinOfTwo
      <4>3. PromptLimit = m
        BY <2>2 DEF PromptLimit
      <4> HIDE DEF m
      <4> QED BY <4>1, <4>2, <4>3
    <3> HIDE DEF new
    <3>4. new <= PromptLimit
      BY <1>1 DEF new
    <3> QED BY <1>6, <3>2, <3>3, <3>4
  <2> QED BY <2>1, <2>2
<1> HIDE DEF new, n
<1>10. CanSchedule(new, n)
  BY <1>5, <1>6, <1>7, <1>8, <1>9 DEF CanSchedule
<1> QED BY <1>1, <1>4, <1>10

LEMMA TurnRoom ==
  ASSUME Core, Core', RoomInv, SingleInv, SeqsInv, config' = config, Turns
  PROVE  RoomInv'
<1>1. /\ plan' = plan /\ waiting' = waiting /\ running' = running /\ (Preempts' <=> Preempts)
      /\ (Single' <=> Single) /\ (Chunked' <=> Chunked)
  BY SameConfig DEF Turns, queues
<1>2. NothingDone' <=> NothingDone
  BY <1>1 DEF NothingDone
<1> SUFFICES ASSUME Single, NothingDone
             PROVE  /\ waiting # <<>> \/ running # {}
                    /\ phase' = "prefill" => (Chunked => running = {})
                    /\ phase' = "running" => (Chunked \/ running # {})
                    /\ phase' = "swapped" => Chunked /\ running = {}
                    /\ phase' \in {"prefill", "running", "swapped"}
  BY <1>1, <1>2 DEF RoomInv
<1>3. plan.scheduled = {} /\ ~Preempts /\ plan.preempted = <<>> /\ plan.swapped_out = {}
  BY DEF NothingDone, Preempts
<1>4. OnGpu = running
  <2>1. Preempted = {}
    BY <1>3, EmptyOrder
  <2> QED BY <1>3, <2>1 DEF OnGpu
<1>5. CASE phase = "prefill" /\ PrefillStops /\ phase' = AfterPrefill
  <2>1. (waiting # <<>> \/ running # {}) /\ (Chunked => running = {})
    BY <1>5 DEF RoomInv
  <2>2. running # {}
    BY <1>3, <1>4, <1>5, <2>1, NobodyWaits
  <2>3. ~Chunked /\ plan.prefills = {}
    BY <1>3, <1>5, <2>1, <2>2 DEF Core, QueuesAgree
  <2>4. phase' = "running"
    BY <1>5, <2>3 DEF AfterPrefill
  <2> QED BY <2>2, <2>4
<1>6. CASE phase = "running" /\ RunningStops /\ phase' = AfterRunning
  <2>1. (waiting # <<>> \/ running # {}) /\ (Chunked \/ running # {})
    BY <1>6 DEF RoomInv
  <2>2. todo = running
    BY <1>3, <1>4, <1>6 DEF Core, QueuesAgree
  <2>3. todo = {}
    <3> SUFFICES ASSUME todo # {} PROVE FALSE
      OBVIOUS
    <3> DEFINE g == Min(todo)
               new == NumNewTokens(g, Chunked)
    <3>1. new = 0
      BY <1>6 DEF RunningStops
    <3>2. g \in Groups /\ group[g].status # "finished"
      <4>1. g \in OnGpu
        BY <1>4, <2>2, TodoFacts
      <4> QED BY <4>1, Places
    <3> HIDE DEF g
    <3>3. RemainingTokens \in Nat /\ RemainingTokens >= 1
      BY <1>3, AllLeft
    <3>4. Each(g) \in Nat /\ Each(g) >= 1 /\ new \in {Each(g), RemainingTokens}
      <4>1. Chunked = TRUE \/ Chunked = FALSE
        BY CoreFacts DEF Limits
      <4> QED BY <3>2, <4>1, EachLacksTokens
    <3> HIDE DEF new
    <3> QED BY <3>1, <3>3, <3>4
  <2>4. phase' = "swapped"
    BY <1>3, <1>6 DEF AfterRunning
  <2> QED BY <2>1, <2>2, <2>3, <2>4
<1>7. CASE phase = "swapped" /\ SwappedStops /\ phase' = AfterSwapped
  <2>1. (waiting # <<>> \/ running # {}) /\ Chunked /\ running = {}
    BY <1>7 DEF RoomInv
  <2>2. phase' = "prefill"
    BY <1>7, <2>1 DEF AfterSwapped
  <2> QED BY <2>1, <2>2
<1> QED BY <1>5, <1>6, <1>7 DEF Turns

LEMMA StartRoom ==
  ASSUME Core, Core', SingleInv, config' = config, Starts
  PROVE  RoomInv'
<1>1. /\ waiting' = waiting /\ running' = running /\ (Single' <=> Single) /\ (Chunked' <=> Chunked)
      /\ waiting # <<>> \/ running # {} \/ swapped # {}
  BY SameConfig DEF Starts, queues
<1>2. \/ phase' = "prefill" /\ ~Chunked
      \/ phase' = "running" /\ (Chunked \/ swapped # {})
  BY DEF Starts
<1>3. Single => swapped = {}
  BY DEF SingleInv, NothingSwapped
<1> QED BY <1>1, <1>2, <1>3 DEF RoomInv

LEMMA RoomStep ==
  ASSUME Core, Core', RoomInv, SingleInv, SeqsInv, Happens, config' = config
  PROVE  RoomInv'
<1>1. ASSUME \/ \E g, len, n : Adds(g, len, n)
             \/ \E g : Aborts(g)
             \/ Commits \/ Executes
      PROVE  RoomInv'
  <2>1. phase' \in {"idle", "exec"}
    BY <1>1 DEF Adds, Aborts, AtRest, Commits, Executes
  <2> QED BY <2>1 DEF RoomInv
<1>2. ASSUME \/ \E g : Ignores(g)
             \/ \E g, new : Prefills(g, new)
             \/ \E g, v : Recomputes(g, v)
             \/ \E g, new : Appends(g, new)
      PROVE  RoomInv'
  <2>1. ~NothingDone'
    BY <1>2 DEF Ignores, Prefills, Recomputes, Appends, Schedules, NothingDone
  <2> QED BY <2>1 DEF RoomInv
<1>3. CASE Single
  BY <1>1, <1>2, <1>3, TurnRoom, StartRoom, NeverSwaps DEF Happens
<1>4. CASE ~Single
  BY <1>4, SameConfig DEF RoomInv
<1> QED BY <1>3, <1>4

-----------------------------------------------------------------------------
\* The inductive invariant.

SchedulerInv ==
    /\ Core /\ MemoryRespected /\ SeqsInv /\ SingleInv /\ OrderInv /\ ReportedInv /\ RoomInv

LEMMA InitInv == Init => SchedulerInv
<1> SUFFICES ASSUME Init PROVE SchedulerInv
  OBVIOUS
<1>1. Core /\ MemoryRespected
  BY InitCore, InitMemory
<1>2. /\ plan = NewPlan /\ OnGpu = {} /\ swapped = {} /\ phase = "idle" /\ error = "none"
      /\ lost = [gpu |-> 0, cpu |-> 0] /\ \A g \in Groups : group[g] = Ended
  BY NewPlanFacts DEF Init, OnGpu, Preempted
<1>3. Limits /\ NumGroups \in Nat
  BY <1>1, CoreFacts
<1>4. Total(plan.tokens) = 0 /\ Total(plan.seqs) = 0 /\ Total(Forked(OnGpu)) = 0
  <2> DEFINE t == plan.tokens
             s == plan.seqs
             f == Forked(OnGpu)
  <2>1. /\ \A g \in 1 .. NumGroups : t[g] = 0
        /\ \A g \in 1 .. NumGroups : s[g] = 0
        /\ \A g \in 1 .. NumGroups : f[g] = 0
    BY <1>2, NewPlanFacts DEF Forked
  <2> HIDE DEF t, s, f
  <2>2. SumUpTo(t, NumGroups) = 0 /\ SumUpTo(s, NumGroups) = 0 /\ SumUpTo(f, NumGroups) = 0
    BY <1>3, <2>1, SumOfZeros
  <2> QED BY <2>2 DEF Total, t, s, f
<1>5. SeqsInv
  BY <1>2, <1>3, <1>4 DEF SeqsInv, GpuInLimit, CountsInLimit, AllCounted, OthersNotCounted, Adding, Limits
<1>6. SingleInv
  <2>1. NothingSwapped /\ TokensInLimit
    BY <1>2, <1>3, <1>4, NewPlanFacts DEF NothingSwapped, TokensInLimit, Limits
  <2>2. ASSUME NEW g \in Groups PROVE LacksTokens(group[g]) /\ SinglePlan(g)
    <3>1. group[g].status = "finished" /\ group[g].refs = 0
      BY <1>2, <1>3, EndedGood
    <3>2. g \notin plan.scheduled /\ g \notin OnGpu /\ plan.tokens[g] = 0 /\ plan.seqs[g] = 0
      BY <1>2, NewPlanFacts
    <3> QED BY <1>2, <3>1, <3>2 DEF LacksTokens, SinglePlan
  <2> QED BY <2>1, <2>2 DEF SingleInv
<1>7. OrderInv
  BY <1>2 DEF OrderInv, Init, WaitingSorted, ToSet
<1> QED BY <1>1, <1>2, <1>5, <1>6, <1>7 DEF SchedulerInv, ReportedInv, RoomInv

LEMMA StayInv ==
  ASSUME SchedulerInv, UNCHANGED vars
  PROVE  SchedulerInv'
<1>1. UNCHANGED <<config, group, arrived, waiting, running, swapped, phase, todo, plan, lost, reported, error>>
  BY DEF vars, queues
<1>2. Core /\ Core' /\ MemoryRespected'
  BY <1>1, StayCore, StillMemory DEF SchedulerInv
<1>3. Preempted' = Preempted /\ OnGpu' = OnGpu /\ (Preempts' <=> Preempts)
  BY <1>1 DEF Preempted, OnGpu, Preempts
<1>4. SeqsInv'
  <2>1. \A g \in OnGpu' : WOf(group'[g]) = WOf(group[g])
    BY <1>1
  <2> QED BY <1>1, <1>2, <1>3, <2>1, SameSeqs DEF SchedulerInv
<1>5. SingleInv'
  <2>1. CASE Single
    <3>1. \A h \in Groups : /\ h \in plan.scheduled => plan'.chunk[h] = plan.chunk[h]
                            /\ plan'.tokens[h] = plan.tokens[h]
                            /\ Chunked => plan'.seqs[h] = plan.seqs[h]
                            /\ group'[h] = group[h] \/ (h \notin OnGpu' /\ LacksTokens(group'[h]))
      BY <1>1
    <3> QED BY <1>1, <1>2, <1>3, <2>1, <3>1, QuietSingle DEF SchedulerInv
  <2>2. CASE ~Single
    BY <1>1, <2>2, SingleOf
  <2> QED BY <2>1, <2>2
<1>6. OrderInv'
  <2> SUFFICES ASSUME Single, ~Chunked PROVE OrderParts'
    BY <1>1, OrderOf
  <2>1. OrderParts
    BY <1>1, OrderOf DEF SchedulerInv
  <2> QED BY <1>1, <1>3, <2>1 DEF OrderParts, Increasing, Decreasing
<1>7. ReportedInv'
  BY <1>1, SameConfig DEF SchedulerInv, ReportedInv
<1>8. RoomInv'
  <2>1. (NothingDone' <=> NothingDone) /\ (Single' <=> Single) /\ (Chunked' <=> Chunked) /\ RoomInv
    BY <1>1, <1>3, SameConfig DEF SchedulerInv, NothingDone
  <2> QED BY <1>1, <2>1 DEF RoomInv
<1> QED BY <1>2, <1>4, <1>5, <1>6, <1>7, <1>8 DEF SchedulerInv

LEMMA StepInv == SchedulerInv /\ [Next]_vars => SchedulerInv'
<1>1. ASSUME SchedulerInv, Next PROVE SchedulerInv'
  <2>1. Happens /\ config' = config /\ Core'
    BY <1>1, Effects, StepCore DEF SchedulerInv
  <2> QED BY <1>1, <2>1, MemoryStep, SeqsStep, SingleStep, OrderStep, ReportedStep, RoomStep
          DEF SchedulerInv
<1> QED BY <1>1, StayInv

\* The inductive invariant of the scheduler: the accounts of blocks and of
\* sequences, and with one sequence per request the order and the room that the
\* admission checks rely on.
THEOREM SchedulerIsSound == Spec => []SchedulerInv
<1> QED BY InitInv, StepInv, PTL DEF Spec

-----------------------------------------------------------------------------
\* What follows from it between two steps.

LEMMA PartitionOf ==
  ASSUME Core
  PROVE  QueuesPartition
<1> SUFFICES ASSUME Between PROVE QueuesPartition
  BY DEF QueuesPartition
<1>1. Preempted = {} /\ OnGpu = running /\ plan.swapped_out = {}
  BY IdleFacts DEF Between, AtRest
<1>2. IsInjective(waiting) /\ waiting \in Seq(Groups)
  BY CoreFacts DEF Core, QueuesAgree
<1>3. \A g : Contains(waiting, g) <=> g \in ToSet(waiting)
  BY <1>2, MembersFacts
<1>4. ASSUME NEW g \in Groups
      PROVE  /\ group[g].status = "waiting" <=> g \in ToSet(waiting)
             /\ group[g].status = "running" <=> g \in running
             /\ group[g].status = "swapped" <=> g \in swapped
             /\ g \in Unfinished <=> group[g].status # "finished"
             /\ group[g].status \in {"waiting", "running", "swapped", "finished"}
  <2>1. Good(group[g]) /\ Limits
    BY CoreFacts
  <2>2. group[g].live = {} <=> group[g].status = "finished"
    BY <2>1, GoodFacts
  <2>3. group[g].status \in {"waiting", "running", "swapped", "finished"}
    BY <2>1 DEF Good, GroupType
  <2> QED BY <1>1, <2>2, <2>3, Places DEF Unfinished
<1>5. ToSet(waiting) \subseteq Groups /\ running \subseteq Groups /\ swapped \subseteq Groups
  BY Places
<1>6. ToSet(waiting) \cup running \cup swapped = Unfinished
  BY <1>4, <1>5 DEF Unfinished
<1>7. ASSUME NEW g \in Unfinished
      PROVE  /\ (group[g].status = "waiting") = Contains(waiting, g)
             /\ (group[g].status = "running") = (g \in running)
             /\ (group[g].status = "swapped") = (g \in swapped)
  <2>1. g \in Groups
    BY DEF Unfinished
  <2>2. /\ group[g].status = "waiting" <=> Contains(waiting, g)
        /\ group[g].status = "running" <=> g \in running
        /\ group[g].status = "swapped" <=> g \in swapped
    BY <1>3, <1>4, <2>1
  <2>3. (group[g].status = "waiting") = Contains(waiting, g)
    <3> DEFINE p == group[g].status = "waiting"
               q == Contains(waiting, g)
    <3>1. p \in BOOLEAN
      OBVIOUS
    <3>2. q \in BOOLEAN
      BY DEF Contains
    <3>3. p <=> q
      BY <2>2
    <3> HIDE DEF p, q
    <3>4. p = q
      BY <3>1, <3>2, <3>3
    <3> QED BY <3>4 DEF p, q
  <2>4. (group[g].status = "running") = (g \in running)
    BY <2>2
  <2>5. (group[g].status = "swapped") = (g \in swapped)
    BY <2>2
  <2> QED BY <2>3, <2>4, <2>5
<1> QED BY <1>2, <1>6, <1>7 DEF QueuesPartition

LEMMA WithinLimitOf ==
  ASSUME Core, SeqsInv
  PROVE  SeqsWithinLimit
<1> SUFFICES ASSUME Between, ~Chunked \/ Single PROVE Total(LiveIn(running)) <= MaxNumSeqs
  BY DEF SeqsWithinLimit
<1>1. OnGpu = running
  BY IdleFacts DEF Between, AtRest
<1> DEFINE f == LiveIn(running)
           w == Forked(OnGpu)
<1>2. \A g \in 1 .. NumGroups : f[g] \in Nat /\ w[g] \in Nat /\ f[g] <= w[g]
  BY <1>1, CoreFacts DEF LiveIn, Forked
<1>3. SumUpTo(w, NumGroups) <= MaxNumSeqs /\ MaxNumSeqs \in Nat /\ NumGroups \in Nat
  BY CoreFacts DEF SeqsInv, GpuInLimit, Total, Limits
<1> HIDE DEF f, w
<1>4. SumUpTo(f, NumGroups) <= SumUpTo(w, NumGroups) /\ SumUpTo(f, NumGroups) \in Nat
      /\ SumUpTo(w, NumGroups) \in Nat
  BY <1>2, <1>3, SumOrder
<1> QED BY <1>3, <1>4 DEF f, Total

\* Between two steps every unfinished group is in exactly one queue, the one of
\* its status; the devices never run out of blocks; those that run are within
\* max_num_seqs; and with one sequence per request no exception ends the engine.
THEOREM QueuesAreSound == Spec => []QueuesInv
<1>1. SchedulerInv => QueuesInv
  <2> SUFFICES ASSUME SchedulerInv PROVE QueuesInv
    OBVIOUS
  <2>1. Core
    BY DEF SchedulerInv
  <2>2. NeverFails
    BY DEF SchedulerInv, SingleInv, NothingSwapped, NeverFails
  <2>3. QueuesPartition /\ SeqsWithinLimit
    BY <2>1, PartitionOf, WithinLimitOf DEF SchedulerInv
  <2> QED BY <2>1, <2>2, <2>3 DEF SchedulerInv, Core, QueuesInv
<1> QED BY <1>1, SchedulerIsSound, PTL

\* First come, first served: with one sequence per request and the default
\* policy no group waits between two steps that came before one that runs,
\* however often groups were preempted.
THEOREM FirstComeFirstServed == Spec => []NoOvertaking
<1>1. SchedulerInv => NoOvertaking
  <2> SUFFICES ASSUME SchedulerInv, Between, Single, ~Chunked,
                      NEW w \in ToSet(waiting), NEW r \in running
               PROVE  r < w
    BY DEF NoOvertaking
  <2>1. OnGpu = running
    BY IdleFacts DEF SchedulerInv, Between, AtRest
  <2> QED BY <2>1 DEF SchedulerInv, OrderInv
<1> QED BY <1>1, SchedulerIsSound, PTL

\* Whoever a step ends or ignores is in the outputs by the end of that step.
THEOREM NobodyWaitsInVain == Spec => EndedIsReported
<1>1. ASSUME SchedulerInv, Next, ~Chunked \/ Single, NEW g \in Groups, At("exec") \/ At("commit"), Between',
             g \in plan.ignored \cup plan.infeasible \/ (g \in plan.scheduled /\ g \notin Unfinished')
      PROVE  g \in reported'
  <2>1. Core /\ Happens
    BY <1>1, Effects DEF SchedulerInv
  <2>2. Commits \/ Executes
    BY <1>1, <2>1
       DEF Happens, At, Between, Adds, Aborts, AtRest, Starts, Turns, Ignores, Prefills, LeavesWaiting,
           Recomputes, SwapsOut, RunsOut, Victimises, Appends, Returns, NeverReturns, OnCpu, Fails
  <2>3. CASE Commits
    <3>1. plan.scheduled = {} /\ reported' = reported \cup IgnoredSeqGroups
      BY <1>1, <2>3 DEF Commits, Between, At
    <3>2. Chunked => plan.infeasible = {}
      BY <1>1 DEF SchedulerInv, SingleInv, NothingSwapped
    <3> QED BY <1>1, <3>1, <3>2 DEF IgnoredSeqGroups
  <2>4. CASE Executes
    <3>1. phase = "exec" /\ reported' = reported \cup Over
      BY <2>4 DEF Executes
    <3>2. plan.ignored \cup plan.infeasible \subseteq reported
      BY <1>1, <3>1 DEF SchedulerInv, ReportedInv
    <3>3. g \in plan.scheduled /\ g \notin Unfinished' => g \in Over
      BY DEF Over, Unfinished
    <3> QED BY <1>1, <3>1, <3>2, <3>3
  <2> QED BY <2>2, <2>3, <2>4
<1>2. SchedulerInv /\ [Next]_vars =>
         [~Chunked \/ Single => \A g \in Groups :
             At("exec") \/ At("commit") =>
                 (Between' /\ (g \in plan.ignored \cup plan.infeasible
                               \/ (g \in plan.scheduled /\ g \notin Unfinished'))
                    => g \in reported')]_vars
  BY <1>1
<1> QED BY <1>2, SchedulerIsSound, PTL DEF Spec, EndedIsReported

\* A step that schedules nothing while there are requests has preempted or
\* ended one.
THEOREM QueuesNeverBlock == Spec => EmptyStepMadeRoom
<1>1. SchedulerInv /\ [Next]_vars =>
         [Single /\ At("commit") /\ plan.scheduled = {} =>
             Preempts \/ plan.ignored # {} \/ plan.infeasible # {}]_vars
  BY DEF SchedulerInv, RoomInv, NothingDone, At
<1> QED BY <1>1, SchedulerIsSound, PTL DEF Spec, EmptyStepMadeRoom
=============================================================================
