-------------------------------- MODULE Shards --------------------------------
(***************************************************************************)
(* How a linear layer is divided among the ranks of tensor parallelism     *)
(* (model_executor/layers/linear.py): the parameters each quantization     *)
(* method creates, and where the weight loaders of the layers put what     *)
(* they take from a checkpoint.                                            *)
(*                                                                         *)
(* A tensor has an output axis and an input axis; the numbers in it are    *)
(* left out.  What a parameter holds is a set of pieces along the axis     *)
(* that is divided: elements at ..at+len-1 are the elements from.. of what *)
(* the checkpoint has for projection proj of the layer.                    *)
(***************************************************************************)
EXTENDS Integers, Sequences, SequencesExt

Total(s) == FoldSeq(LAMBDA x, y : x + y, 0, s)
Before(s, i) == Total(SubSeq(s, 1, i - 1))

-----------------------------------------------------------------------------
\* Layers.  A layer is a kind, an input size and the output size of each of its
\* projections; the layer of q, k and v also has heads.

Linear(kind, ins, outs) ==
    [kind |-> kind, ins |-> ins, outs |-> outs, heads |-> 0, kvHeads |-> 0, headSize |-> 0]

QKVLinear(ins, heads, kvHeads, headSize) ==
    [kind |-> "qkv", ins |-> ins, heads |-> heads, kvHeads |-> kvHeads, headSize |-> headSize,
     outs |-> <<heads * headSize, kvHeads * headSize, kvHeads * headSize>>]

IsColumn(l) == l.kind \in {"column", "merged", "qkv"}

NumHeads(l, tp) == l.heads \div tp
NumKvHeads(l, tp) == IF tp >= l.kvHeads THEN 1 ELSE l.kvHeads \div tp
KvHeadReplicas(l, tp) == IF tp >= l.kvHeads THEN tp \div l.kvHeads ELSE 1

\* Whether the constructor of the layer can divide its sizes.
Divides(l, tp) ==
    CASE l.kind = "qkv" -> /\ l.heads % tp = 0
                           /\ IF tp >= l.kvHeads THEN tp % l.kvHeads = 0 ELSE l.kvHeads % tp = 0
      [] l.kind \in {"column", "merged"} -> \A i \in DOMAIN l.outs : l.outs[i] % tp = 0
      [] l.kind = "row" -> l.ins % tp = 0
      [] OTHER -> TRUE

\* output_sizes: q, k and v as they are on all ranks, with the heads of k and v
\* that are replicated counted on each.
OutputSizes(l, tp) ==
    IF l.kind = "qkv"
    THEN <<NumHeads(l, tp) * l.headSize * tp, NumKvHeads(l, tp) * l.headSize * tp,
           NumKvHeads(l, tp) * l.headSize * tp>>
    ELSE l.outs

OutputPartitionSizes(l, tp) ==
    IF IsColumn(l) THEN [i \in DOMAIN l.outs |-> OutputSizes(l, tp)[i] \div tp] ELSE l.outs

InputSizePerPartition(l, tp) == IF l.kind = "row" THEN l.ins \div tp ELSE l.ins

-----------------------------------------------------------------------------
\* Parameters.  outPer and inPer say how many elements a checkpoint has for how
\* many rows or columns; the other fields are the attributes of the parameter.

Each == <<1, 1>>
Fixed(n) == <<n, 0>>    \* elements that do not depend on the size
Elements(per, size) == IF per[2] = 0 THEN per[1] ELSE (size * per[1]) \div per[2]

Parameter(name, out, outPer, in, inPer) ==
    [name |-> name, out |-> out, outPer |-> outPer, in |-> in, inPer |-> inPer,
     outputDim |-> TRUE, inputDim |-> TRUE, packed |-> "none", packFactor |-> Each, tile |-> 1,
     special |-> "none"]

Undivided(p) == [p EXCEPT !.inputDim = FALSE]
Plain(p) == [p EXCEPT !.inputDim = FALSE, !.outputDim = FALSE]
Packed(axis, factor, p) == [p EXCEPT !.packed = axis, !.packFactor = factor]
Tiled(tile, p) == [p EXCEPT !.tile = tile]
Special(kind, p) == [Plain(p) EXCEPT !.special = kind]

\* n elements of a size, divided by the pack factor, which may be a fraction.
Pack(n, factor) == (n * factor[2]) \div factor[1]
PerPack(factor) == <<factor[2], factor[1]>>

\* A quantization: the method, its pack factor, its group size (0 for -1, one
\* group per column) and whether the activations are ordered.
Quantization(method, factor, group, ordered) ==
    [method |-> method, factor |-> factor, group |-> group, ordered |-> ordered]

UnquantizedWeights(l, tp) ==
    {Parameter("weight", Total(OutputPartitionSizes(l, tp)), Each, InputSizePerPartition(l, tp), Each)}

GroupSize(q, l) == IF q.group = 0 THEN l.ins ELSE q.group

\* The scales and zeros are divided with the input only without act-order.
ScalesDivided(q, l, tp) ==
    InputSizePerPartition(l, tp) # l.ins /\ q.group # 0 /\ ~q.ordered

ScalesSize(q, l, tp) ==
    (IF ScalesDivided(q, l, tp) THEN InputSizePerPartition(l, tp) ELSE l.ins) \div GroupSize(q, l)

GPTQWeights(q, l, tp) ==
    LET out == Total(OutputPartitionSizes(l, tp))
        in == InputSizePerPartition(l, tp)
        size == ScalesSize(q, l, tp)
        Grouped(p) == IF ScalesDivided(q, l, tp) THEN p ELSE Undivided(p)
    IN  {Packed("in", q.factor, Parameter("qweight", out, Each, Pack(in, q.factor), PerPack(q.factor))),
         [Parameter("g_idx", 1, Fixed(1), in, Each) EXCEPT !.outputDim = FALSE],
         Packed("out", q.factor, Grouped(Parameter("qzeros", Pack(out, q.factor), PerPack(q.factor),
                                                   size, <<1, GroupSize(q, l)>>))),
         Grouped(Parameter("scales", out, Each, size, <<1, GroupSize(q, l)>>))}

GPTQAccepts(q, l, tp) ==
    /\ q.group # 0 => InputSizePerPartition(l, tp) % q.group = 0
    /\ Total(OutputPartitionSizes(l, tp)) % q.factor[1] = 0

MarlinMinN(q) == IF q.method = "gptq_marlin_24" THEN 128 ELSE 64
MarlinMinK == 128

\* gptq_marlin creates the parameters of gptq, and repacks them at the first call.
GPTQMarlinAccepts(q, l, tp) ==
    LET in == InputSizePerPartition(l, tp)
    IN  /\ Total(OutputPartitionSizes(l, tp)) % MarlinMinN(q) = 0
        /\ in % MarlinMinK = 0
        /\ GroupSize(q, l) < l.ins => in % GroupSize(q, l) = 0

AWQWeights(q, l, tp) ==
    LET out == Total(OutputPartitionSizes(l, tp))
        in == InputSizePerPartition(l, tp)
    IN  {Packed("out", q.factor, Parameter("qweight", Pack(out, q.factor), PerPack(q.factor), in, Each)),
         Packed("out", q.factor, Parameter("qzeros", Pack(out, q.factor), PerPack(q.factor),
                                           in \div q.group, <<1, q.group>>)),
         Parameter("scales", out, Each, in \div q.group, <<1, q.group>>)}

AWQAccepts(q, l, tp) ==
    /\ InputSizePerPartition(l, tp) % q.group = 0
    /\ Total(OutputPartitionSizes(l, tp)) % q.factor[1] = 0

\* The scales of Marlin are divided unless the rank has a single group.
MarlinScales(q, l, tp) ==
    LET groups == IF q.group = 0 THEN 1 ELSE InputSizePerPartition(l, tp) \div q.group
        p == Parameter("s", Total(OutputPartitionSizes(l, tp)), Each, groups,
                       IF q.group = 0 THEN Fixed(1) ELSE <<1, q.group>>)
    IN  IF groups = 1 THEN Undivided(p) ELSE p

MarlinAccepts(q, l, tp) ==
    LET out == Total(OutputPartitionSizes(l, tp))
        in == InputSizePerPartition(l, tp)
    IN  /\ out % MarlinMinN(q) = 0 /\ out % q.factor[1] = 0 /\ out % 4 = 0
        /\ in % MarlinMinK = 0
        /\ q.group # 0 => in % q.group = 0

MarlinWeights(q, l, tp) ==
    LET out == Total(OutputPartitionSizes(l, tp))
        in == InputSizePerPartition(l, tp)
    IN  {Tiled(16, Packed("out", q.factor, Parameter("B", (out * 16) \div q.factor[1], <<16, q.factor[1]>>,
                                                     in \div 16, <<1, 16>>))),
         MarlinScales(q, l, tp)}

Marlin24Weights(q, l, tp) ==
    LET out == Total(OutputPartitionSizes(l, tp))
        in == InputSizePerPartition(l, tp)
    IN  {Tiled(16, Packed("out", q.factor, Parameter("B_24", (out * 16) \div q.factor[1], <<16, q.factor[1]>>,
                                                     (in \div 16) \div 2, <<1, 32>>))),
         Tiled(2, Packed("out", Each, Parameter("B_meta", out * 2, <<2, 1>>,
                                                ((in \div 8) \div 2) \div 2, <<1, 32>>))),
         MarlinScales(q, l, tp)}

\* The lookup table is created with the output size of all ranks.
SqueezeLLMWeights(q, l, tp) ==
    {Packed("in", q.factor, Parameter("qweight", Total(OutputPartitionSizes(l, tp)), Each,
                                      Pack(InputSizePerPartition(l, tp), q.factor), PerPack(q.factor))),
     Undivided(Parameter("lookup_table", Total(OutputSizes(l, tp)), Each, 1, Fixed(1)))}

SqueezeLLMAccepts(q, l, tp) == InputSizePerPartition(l, tp) % q.factor[1] = 0

\* One codebook for each projection, whatever the ranks.
AQLMWeights(q, l, tp) ==
    LET out == Total(OutputPartitionSizes(l, tp))
    IN  {Packed("in", q.factor, Parameter("codes", out, Each,
                                          Pack(InputSizePerPartition(l, tp), q.factor), PerPack(q.factor))),
         Special("metadata", Parameter("codebooks", Len(l.outs), Fixed(1), 1, Fixed(1))),
         Packed("out", Each, Undivided(Parameter("scales", out, Each, 1, Fixed(1))))}

AQLMAccepts(q, l, tp) == InputSizePerPartition(l, tp) % q.factor[1] = 0

\* A weight and, from a serialized checkpoint, a scale for each projection.
Fp8Weights(q, l, tp) ==
    UnquantizedWeights(l, tp)
        \cup {Special("indexer", Parameter("weight_scale", Len(l.outs), Fixed(1), 1, Fixed(1)))}

\* The scale of a fused layer is repeated for every one of its columns.
CompressedWeights(q, l, tp) ==
    LET sizes == OutputPartitionSizes(l, tp)
    IN  UnquantizedWeights(l, tp)
        \cup {Special("splitter", Parameter("weight_scale", IF Len(sizes) # 1 THEN Total(sizes) ELSE 1,
                                            Fixed(1), 1, Fixed(1)))}

CreateWeights(q, l, tp) ==
    CASE q.method \in {"gptq", "gptq_marlin"} -> GPTQWeights(q, l, tp)
      [] q.method = "awq" -> AWQWeights(q, l, tp)
      [] q.method = "marlin" -> MarlinWeights(q, l, tp)
      [] q.method = "gptq_marlin_24" -> Marlin24Weights(q, l, tp)
      [] q.method = "squeezellm" -> SqueezeLLMWeights(q, l, tp)
      [] q.method = "aqlm" -> AQLMWeights(q, l, tp)
      [] q.method = "fp8" -> Fp8Weights(q, l, tp)
      [] q.method = "compressed_tensors" -> CompressedWeights(q, l, tp)
      [] OTHER -> UnquantizedWeights(l, tp)

\* Whether create_weights accepts the sizes: it raises ValueError otherwise.
Accepts(q, l, tp) ==
    CASE q.method = "gptq" -> GPTQAccepts(q, l, tp)
      [] q.method = "gptq_marlin" -> GPTQMarlinAccepts(q, l, tp)
      [] q.method = "awq" -> AWQAccepts(q, l, tp)
      [] q.method \in {"marlin", "gptq_marlin_24"} -> MarlinAccepts(q, l, tp)
      [] q.method = "squeezellm" -> SqueezeLLMAccepts(q, l, tp)
      [] q.method = "aqlm" -> AQLMAccepts(q, l, tp)
      [] OTHER -> TRUE

-----------------------------------------------------------------------------
\* Loading.  A loader returns the pieces it has copied, and whether it could:
\* narrow() fails out of range, and so does the assertion on the shapes.

Tensor(p, outs, ins) == [out |-> Elements(p.outPer, outs), in |-> Elements(p.inPer, ins)]

Loaded(ok, pieces) == [ok |-> ok, pieces |-> pieces]
Piece(at, len, proj, from) == [at |-> at, len |-> len, proj |-> proj, from |-> from]
SameShape(p, t) == p.out = t.out /\ p.in = t.in

\* default_weight_loader, of a layer that is on every rank.
ReplicatedLoad(p, t) == Loaded(SameShape(p, t), {Piece(0, p.out, 1, 0)})

ColumnLoad(p, t, rank) ==
    CASE p.outputDim -> Loaded(rank * p.out + p.out <= t.out /\ p.in = t.in,
                               {Piece(0, p.out, 1, rank * p.out)})
      [] p.special = "indexer" -> Loaded(TRUE, {Piece(0, 1, 1, 0)})
      [] OTHER -> Loaded(SameShape(p, t), {Piece(0, p.out, 1, 0)})

\* A mutant: the rows of a parameter that is not divided are taken by rank too.
MutRowLoad(p, t, rank) ==
    IF p.special = "indexer" THEN Loaded(TRUE, {Piece(0, 1, 1, 0)})
    ELSE Loaded(rank * p.in + p.in <= t.in /\ p.out = t.out, {Piece(0, p.in, 1, rank * p.in)})

RowLoad(p, t, rank) ==
    CASE p.inputDim -> Loaded(rank * p.in + p.in <= t.in /\ p.out = t.out,
                              {Piece(0, p.in, 1, rank * p.in)})
      [] p.special = "indexer" -> Loaded(TRUE, {Piece(0, 1, 1, 0)})
      [] OTHER -> Loaded(SameShape(p, t), {Piece(0, p.in, 1, 0)})

\* A size or an offset along the output, in elements of a parameter that is
\* packed along it.
Adjusted(p, n) == IF p.packed = "out" THEN Pack(n, p.packFactor) * p.tile ELSE n

\* One projection of a layer that has several, which starts at shift in what
\* the checkpoint has for it.
Narrowed(p, t, offset, size, shard, proj, shift) ==
    Loaded(/\ offset + size <= p.out /\ shard * size + size <= t.out
           /\ p.in = t.in,
           {Piece(offset, size, proj, shard * size + shift)})

\* Parameters without an output axis: those of aqlm, compressed-tensors and fp8,
\* then those assumed to be the same for all projections.
SpecialLoad(p, t, sizes, proj) ==
    CASE p.special = "metadata" -> Loaded((proj - 1) * t.out + t.out <= p.out,
                                          {Piece((proj - 1) * t.out, t.out, proj, 0)})
      [] p.special = "splitter" -> Loaded(TRUE, {Piece(Before(sizes, proj), sizes[proj], proj, 0)})
      [] p.special = "indexer" -> Loaded(TRUE, {Piece(proj - 1, 1, proj, 0)})
      [] OTHER -> Loaded(SameShape(p, t), {Piece(0, p.out, proj, 0)})

MergedColumnLoad(p, t, l, tp, rank, proj, shift) ==
    IF p.outputDim
    THEN Narrowed(p, t, Adjusted(p, Before(l.outs, proj) \div tp), Adjusted(p, l.outs[proj] \div tp),
                  rank, proj, shift)
    ELSE SpecialLoad(p, t, OutputPartitionSizes(l, tp), proj)

\* A mutant: the heads of k and v are divided like those of q.
MutQKVShard(l, tp, rank, proj) == rank

\* Ranks that share a head of k and v take the same shard of it.
QKVShard(l, tp, rank, proj) == IF proj = 1 THEN rank ELSE rank \div KvHeadReplicas(l, tp)

QKVOffset(l, tp, proj) ==
    CASE proj = 1 -> 0
      [] proj = 2 -> NumHeads(l, tp) * l.headSize
      [] OTHER -> (NumHeads(l, tp) + NumKvHeads(l, tp)) * l.headSize

QKVSize(l, tp, proj) == (IF proj = 1 THEN NumHeads(l, tp) ELSE NumKvHeads(l, tp)) * l.headSize

QKVLoad(p, t, l, tp, rank, proj, shift) ==
    IF p.outputDim
    THEN Narrowed(p, t, Adjusted(p, QKVOffset(l, tp, proj)), Adjusted(p, QKVSize(l, tp, proj)),
                  QKVShard(l, tp, rank, proj), proj, shift)
    ELSE SpecialLoad(p, t, OutputPartitionSizes(l, tp), proj)

ProjectionLoad(p, t, l, tp, rank, proj, shift) ==
    IF l.kind = "qkv" THEN QKVLoad(p, t, l, tp, rank, proj, shift)
    ELSE MergedColumnLoad(p, t, l, tp, rank, proj, shift)

\* A tensor with all projections, already packed: it is cut where they begin,
\* and each part is loaded as one projection.
FusedLoad(p, t, l, tp, rank) ==
    LET start(i) == Adjusted(p, Before(l.outs, i))
        size(i) == Adjusted(p, l.outs[i])
        part(i) == ProjectionLoad(p, [t EXCEPT !.out = size(i)], l, tp, rank, i,
                                  start(i) - Elements(p.outPer, Before(l.outs, i)))
        parts == {part(i) : i \in DOMAIN l.outs}
    IN  CASE p.special = "splitter" -> Loaded(FALSE, {})
          [] ~p.outputDim -> Loaded(SameShape(p, t), {Piece(0, p.out, 1, 0)})
          [] OTHER -> Loaded(/\ \A i \in DOMAIN l.outs : start(i) + size(i) <= t.out
                             /\ \A x \in parts : x.ok,
                             UNION {x.pieces : x \in parts})

\* What the loader of a layer does with a tensor of its projection proj, or with
\* all of them (0), on a rank.
Load(p, l, tp, rank, proj) ==
    LET outs == IF proj = 0 THEN Total(l.outs) ELSE l.outs[proj]
        t == Tensor(p, outs, l.ins)
    IN  CASE l.kind = "replicated" -> ReplicatedLoad(p, t)
          [] l.kind = "column" -> ColumnLoad(p, t, rank)
          [] l.kind = "row" -> RowLoad(p, t, rank)
          [] proj = 0 -> FusedLoad(p, t, l, tp, rank)
          [] OTHER -> ProjectionLoad(p, t, l, tp, rank, proj, 0)
=============================================================================
