------------------------------ MODULE LoraShards ------------------------------
(***************************************************************************)
(* The layers that replace those of Shards when adapters are served        *)
(* (lora/layers.py, lora/fully_sharded_layers.py).  An adapter adds B A x  *)
(* to a layer: A takes the input to its rank, which B takes to the output. *)
(* Each rank of tensor parallelism keeps a part of both in the stacked     *)
(* weights of the slot; a layer of packed modules has a stack for each.    *)
(*                                                                         *)
(* lora is [slots, maxRank, sharded, extra, packed, bases]: max_loras,     *)
(* max_lora_rank, fully_sharded_loras, lora_extra_vocab_size, how many     *)
(* modules are packed in each layer, and the scaling factors of the rotary *)
(* embedding.  An adapter is [rank, has, added, factor]: the modules it    *)
(* has of each layer, its added tokens, its scaling factor or 0.           *)
(***************************************************************************)
EXTENDS Shards, FiniteSetsExt

-----------------------------------------------------------------------------
\* Replacing layers.

\* can_replace_layer of each class.  The class of a single adapter for q, k and v
\* is the only one without a fully sharded variant.
CanReplace(class, l, packed) ==
    CASE class = "column" -> l.kind = "column" \/ (l.kind = "merged" /\ packed = 1)
      [] class = "merged" -> l.kind = "merged" /\ packed = 2
      [] class = "qkv" -> l.kind = "qkv" /\ packed = 1
      [] class = "merged_qkv" -> l.kind = "qkv" /\ packed = 3
      [] OTHER -> l.kind = "row"

Replacing(l, packed) ==
    {c \in {"column", "merged", "qkv", "merged_qkv", "row"} : CanReplace(c, l, packed)}

ClassOf(l, packed) == CHOOSE c \in Replacing(l, packed) : TRUE

NumSlices(class) == IF class = "merged" THEN 2 ELSE IF class = "merged_qkv" THEN 3 ELSE 1

\* register_module asserts that the layer was replaced; create_lora_weights wants
\* two equal halves, and sizes that can be divided.
Replaces(l, packed, lora, tp) ==
    /\ Replacing(l, packed) # {}
    /\ ClassOf(l, packed) = "merged" => Len(l.outs) = 2 /\ l.outs[1] = l.outs[2]
    /\ lora.sharded => (IF l.kind = "row" THEN l.outs[1] ELSE lora.maxRank) % tp = 0

\* create_lora_weights: the rows of A and the columns of B that a stack has.
StackRows(l, lora, tp) == IF lora.sharded /\ l.kind # "row" THEN lora.maxRank \div tp ELSE lora.maxRank

StackColumns(class, l, lora, tp, i) ==
    CASE class = "merged" -> Total(OutputPartitionSizes(l, tp)) \div 2
      [] class = "merged_qkv" -> QKVSize(l, tp, i)
      [] class = "row" -> IF lora.sharded THEN l.outs[1] \div tp ELSE l.outs[1]
      [] OTHER -> Total(OutputPartitionSizes(l, tp))

-----------------------------------------------------------------------------
\* set_lora.  A part is what a stack holds: rows of A from rank0, their inputs
\* from in0, and columns of B as pieces, whose projection is 0 if they are counted
\* over all of them.

NoPart == [ranks |-> 0, rank0 |-> 0, ins |-> 0, in0 |-> 0, outs |-> {}]

\* slice_lora_a of the sharded variants; those of several modules leave A as it
\* is when the adapter lacks one.
RankSlice(class, l, lora, tp, a, modules, rank) ==
    LET rows == StackRows(l, lora, tp)
    IN  IF lora.sharded /\ (class = "column" \/ modules = 1 .. NumSlices(class)) /\ class \notin {"row", "qkv"}
        THEN [from |-> rank * rows, len |-> Max({Min({rows, a.rank - rank * rows}), 0})]
        ELSE [from |-> 0, len |-> a.rank]

\* A mutant: the shard of k and v is that of q, as if no head was replicated.
MutOutSlice(class, l, lora, tp, modules, rank, i) ==
    LET size == StackColumns(class, l, lora, tp, i)
    IN  {Piece(0, size, IF class \in {"merged", "merged_qkv"} THEN i ELSE 0, rank * size)}

\* slice_lora_b: B is sliced as the output of the layer, except that two modules
\* are left as they are when the adapter lacks one.
OutSlice(class, l, lora, tp, modules, rank, i) ==
    LET size == StackColumns(class, l, lora, tp, i)
        shard(proj) == QKVShard(l, tp, rank, proj) * QKVSize(l, tp, proj)
    IN  CASE class = "merged" /\ modules # {1, 2} -> {Piece(0, l.outs[i], i, 0)}
          [] class = "merged" -> {Piece(0, size, i, rank * size)}
          [] class = "merged_qkv" -> {Piece(0, size, i, shard(i))}
          [] class = "qkv" -> {Piece(QKVOffset(l, tp, j), QKVSize(l, tp, j), 0,
                                     Before(l.outs, j) + shard(j)) : j \in 1 .. 3}
          [] class = "row" /\ ~lora.sharded -> {Piece(0, size, 0, 0)}
          [] OTHER -> {Piece(0, size, 0, rank * size)}

\* With one rank nothing is sliced.
PartOf(class, l, lora, tp, a, modules, rank, i) ==
    LET ranks == IF tp > 1 THEN RankSlice(class, l, lora, tp, a, modules, rank) ELSE [from |-> 0, len |-> a.rank]
        ins == InputSizePerPartition(l, tp)
    IN  [rank0 |-> ranks.from, ranks |-> ranks.len,
         ins |-> ins, in0 |-> IF l.kind = "row" THEN rank * ins ELSE 0,
         outs |-> OutSlice(class, l, lora, tp, modules, rank, i)]

\* The copies into the stacks raise if a part is larger.
Fits(class, l, lora, tp, part, i) ==
    /\ part.ranks <= StackRows(l, lora, tp)
    /\ \A x \in part.outs : x.at + x.len <= StackColumns(class, l, lora, tp, i)

-----------------------------------------------------------------------------
\* apply.  parts is what the stacks of one slot hold: rank -> slice -> part.

RowOf(part, k) == IF k < part.ranks THEN part.rank0 + k ELSE -1
InsOf(part) == part.in0 .. part.in0 + part.ins - 1

\* A mutant: each rank keeps the sums of its own inputs.
MutBuffer(class, lora, rows, parts, rank, i, k) ==
    <<RowOf(parts[rank][i], k), {InsOf(parts[rank][i])}>>

\* What B multiplies at position k: the row of A that is there, and the inputs it
\* has been multiplied with.  The sharded variants gather the rows of all ranks or,
\* after a row parallel layer, add up what they have of each.
Buffer(class, lora, rows, parts, rank, i, k) ==
    IF ~lora.sharded \/ class = "qkv" THEN <<RowOf(parts[rank][i], k), {InsOf(parts[rank][i])}>>
    ELSE IF class = "row" THEN <<RowOf(parts[rank][i], k), {InsOf(parts[q][i]) : q \in DOMAIN parts}>>
    ELSE LET part == parts[k \div rows][i] IN <<RowOf(part, k % rows), {InsOf(part)}>>

\* The column of B at a position of a stack: its projection and its place there.
ColumnAt(l, outs, u) ==
    LET held == {x \in outs : x.at <= u /\ u < x.at + x.len}
        x == CHOOSE x \in held : TRUE
        f == x.from + u - x.at
        proj == CHOOSE j \in DOMAIN l.outs : Before(l.outs, j) <= f /\ f < Before(l.outs, j) + l.outs[j]
    IN  CASE held = {} -> <<0, 0>>
          [] x.proj = 0 -> <<proj, f - Before(l.outs, proj)>>
          [] OTHER -> <<x.proj, f>>

\* Where the columns of a stack are added to the output.
SliceStart(class, l, lora, tp, rank, i) ==
    IF class = "row" THEN IF lora.sharded THEN rank * StackColumns(class, l, lora, tp, i) ELSE 0
    ELSE Total([j \in 1 .. i - 1 |-> StackColumns(class, l, lora, tp, j)])

\* The slice and the column of B added to column u of the output on a rank, or
\* <<0, <<0, 0>>>>.
DeltaAt(class, l, lora, tp, parts, rank, u) ==
    LET covers(i) == LET first == SliceStart(class, l, lora, tp, rank, i)
                     IN  first <= u /\ u < first + StackColumns(class, l, lora, tp, i)
        is == {i \in 1 .. NumSlices(class) : covers(i)}
        i == CHOOSE i \in is : TRUE
    IN  IF is = {} THEN <<0, <<0, 0>>>>
        ELSE <<i, ColumnAt(l, parts[rank][i].outs, u - SliceStart(class, l, lora, tp, rank, i))>>

-----------------------------------------------------------------------------
\* The rotary embedding of LinearScalingRotaryEmbeddingWithLora keeps a cache for
\* each of its factors, one after the other from the smallest.  factors is a set,
\* positions the length of a cache for the factor 1.

\* A mutant: the caches are as long as that of the factor 1.
MutOffsetOf(factors, positions, f) == positions * Cardinality({g \in factors : g < f})

OffsetOf(factors, positions, f) == positions * SumSet({g \in factors : g < f})

\* convert_mapping: an adapter without a factor, and no adapter, have offset 0.
RopeRow(factors, positions, f, p) == p + IF f \in factors THEN OffsetOf(factors, positions, f) ELSE 0

\* The factor and the position that a row of the caches is for.
RopeAt(factors, positions, row) ==
    LET f == CHOOSE g \in factors : LET o == OffsetOf(factors, positions, g) IN o <= row /\ row < o + positions * g
    IN  <<f, row - OffsetOf(factors, positions, f)>>
=============================================================================
