---------------------------- MODULE TensorParallel ----------------------------
(***************************************************************************)
(* A model on the ranks of tensor parallelism: its tensors are loaded in   *)
(* the order the checkpoint has them, then forward passes run on all ranks *)
(* at once, each layer of which ends with an all-reduce over AllReduce.    *)
(* The model is what the models of vLLM are made of: an embedding, an      *)
(* attention block (QKVParallelLinear, heads, RowParallelLinear), a block  *)
(* of two linear layers with an activation between them, and the logits.   *)
(* Adapters may then be put into the slots of its layers, in any order.    *)
(***************************************************************************)
EXTENDS AllReduce, LoraShards

CONSTANTS
    Models,     \* models, their quantization and their number of ranks
    Served,     \* those whose forward passes are run
    Positions   \* max_position_embeddings

VARIABLES
    model,
    parameters, \* those its constructors have created, of each layer
    content,    \* pieces of each parameter of each layer, on each rank
    pending,    \* tensors of the checkpoint not loaded yet: a layer and a projection
    mode,       \* "refused", "loading", "failed", "ready" or "unfit"
    slots,      \* the adapter in each slot, or 0
    stacks,     \* what the stacks of each layer hold for a slot, on each rank
    added,      \* the slots whose added tokens the embedding holds the rows of
    partial,    \* what the temporary buffer of a rank holds the sum of
    result      \* what the output of its last all-reduce is the sum of

loraVars == <<slots, stacks, added>>
tpVars == <<model, parameters, content, pending, mode, loraVars, partial, result>>
allVars == <<kernelVars, tpVars>>

tp == model.tp
TpRanks == 0 .. tp - 1
LinearLayers == {"qkv", "o", "up", "down"}

-----------------------------------------------------------------------------
\* The embedding and the logits.

PadVocabSize(n, padTo) == ((n + padTo - 1) \div padTo) * padTo

\* Rows of the embedding on a rank: the padded vocabulary is divided evenly.
VocabPerRank == PadVocabSize(model.vocab + model.extraVocab, model.padTo) \div tp
VocabStart(r) == r * VocabPerRank

\* A mutant: the padding is put after the rows of each rank.
MutVocabRows(r) ==
    LET n == (model.vocab + tp - 1) \div tp
    IN  {Piece(0, Max({Min({n, model.vocab - r * n}), 0}), 1, r * n)}

\* VocabParallelEmbedding.weight_loader: the slice of the checkpoint may end
\* before the rows of the rank do; the rest is never written.
VocabRows(r) ==
    LET n == Max({Min({VocabPerRank, model.vocab - VocabStart(r)}), 0})
    IN  {Piece(0, n, 1, VocabStart(r))}

\* The token whose row a row of the rank holds, or -1.
TokenAt(r, row) ==
    LET held == {x \in content[r][<<"embed", "weight">>] : row \in x.at .. x.at + x.len - 1}
    IN  IF held = {} THEN -1 ELSE LET x == CHOOSE x \in held : TRUE IN x.from + row - x.at

\* The forward of the embedding on a rank: tokens outside its range are masked.
EmbeddingTerms(r) ==
    {<<v, TokenAt(r, v - VocabStart(r))>> :
        v \in {v \in 0 .. model.vocab - 1 : VocabStart(r) <= v /\ v < VocabStart(r) + VocabPerRank}}

\* _get_logits: the columns of all ranks are gathered, and cut at the vocabulary.
LogitsColumn(v) == TokenAt(v \div VocabPerRank, v % VocabPerRank)

-----------------------------------------------------------------------------
\* Layers and their parameters.

Layer(name) == model.layers[name]
Lora == model.lora
Slots == 1 .. Lora.slots
Class(name) == ClassOf(Layer(name), Lora.packed[name])

\* The bias of a layer, and the scales of an activation that follows a layer:
\* one number for each of its columns.
OnePerColumn(name, l) == Parameter(name, Total(OutputPartitionSizes(l, tp)), Each, 1, Fixed(1))
BiasOf(l) == Undivided(OnePerColumn("bias", l))

CreatedFor(name) ==
    CreateWeights(model.quant, Layer(name), tp)
        \cup (IF model.bias THEN {BiasOf(Layer(name))} ELSE {})
        \cup (IF name = "up" /\ model.scaledAct THEN {OnePerColumn("act_scales", Layer(name))} ELSE {})

\* Whether the constructors raise on the sizes of the model.
Constructs ==
    /\ PadVocabSize(model.vocab + model.extraVocab, model.padTo) % tp = 0
    /\ \A name \in LinearLayers :
            /\ Divides(Layer(name), tp) /\ Accepts(model.quant, Layer(name), tp)
            /\ Lora.slots > 0 => Replaces(Layer(name), Lora.packed[name], Lora, tp)

\* The tensors of a layer: one for each projection, or one for all.
TensorsOf(name) ==
    IF model.fused /\ Len(Layer(name).outs) > 1 THEN {<<name, 0>>}
    ELSE {<<name, i>> : i \in DOMAIN Layer(name).outs}

\* What remains of the pieces of a parameter under what is copied over them.
Written(old, new) ==
    {x \in old : \A y \in new : x.at + x.len <= y.at \/ y.at + y.len <= x.at} \cup new

TPInit ==
    /\ KernelInit
    /\ model \in Models
    /\ parameters = [name \in LinearLayers |-> CreatedFor(name)]
    /\ content = [r \in TpRanks |->
            [k \in {<<"embed", "weight">>}
                    \cup UNION {{<<name, p.name>> : p \in CreatedFor(name)} : name \in LinearLayers}
             |-> {}]]
    /\ pending = {<<"embed", 1>>} \cup UNION {TensorsOf(name) : name \in LinearLayers}
    /\ mode = IF Constructs THEN "loading" ELSE "refused"
    /\ slots = [s \in Slots |-> 0]
    /\ added = [s \in Slots |-> 0]
    /\ stacks = [r \in TpRanks |-> [name \in LinearLayers |->
            [s \in Slots |-> [i \in 1 .. NumSlices(Class(name)) |-> NoPart]]]]
    /\ partial = [p \in Ranks |-> {}]
    /\ result = [p \in Ranks |-> {}]

LoadEmbedding ==
    /\ mode = "loading" /\ <<"embed", 1>> \in pending
    /\ pending' = pending \ {<<"embed", 1>>}
    /\ content' = [r \in TpRanks |-> [content[r] EXCEPT ![<<"embed", "weight">>] = VocabRows(r)]]
    /\ UNCHANGED <<model, parameters, mode, loraVars, partial, result, kernelVars>>

\* The tensors of a projection: its weight and what belongs to it.  All ranks
\* iterate over the same files, and none depends on what another has loaded.
LoadTensor(name, proj) ==
    LET l == Layer(name)
        ps == parameters[name]
        load(r, p) == Load(p, l, tp, r, proj)
    IN  /\ mode = "loading" /\ <<name, proj>> \in pending
        /\ pending' = pending \ {<<name, proj>>}
        /\ IF \A r \in TpRanks, p \in ps : load(r, p).ok
           THEN /\ content' = [r \in TpRanks |-> [k \in DOMAIN content[r] |->
                        IF k[1] = name
                        THEN LET p == CHOOSE p \in ps : p.name = k[2]
                             IN  Written(content[r][k], load(r, p).pieces)
                        ELSE content[r][k]]]
                /\ UNCHANGED mode
           ELSE mode' = "failed" /\ UNCHANGED content
        /\ UNCHANGED <<model, parameters, loraVars, partial, result, kernelVars>>

FinishLoading ==
    /\ mode = "loading" /\ pending = {}
    /\ mode' = "ready"
    /\ UNCHANGED <<model, parameters, content, pending, loraVars, partial, result, kernelVars>>

-----------------------------------------------------------------------------
\* Adapters.

\* activate_lora: what a layer had in the slot is reset on every rank, and the
\* weights of the adapter are copied there if it has any.
ActivateLora(s, a) ==
    LET adapter == Lora.adapters[a]
        l(name) == Layer(name)
        part(r, name, i) == PartOf(Class(name), l(name), Lora, tp, adapter, adapter.has[name], r, i)
    IN  /\ mode = "ready" /\ slots[s] # a
        /\ IF \A r \in TpRanks, name \in LinearLayers : \A i \in adapter.has[name] :
                  Fits(Class(name), l(name), Lora, tp, part(r, name, i), i)
           THEN /\ slots' = [slots EXCEPT ![s] = a]
                /\ stacks' = [r \in TpRanks |-> [name \in LinearLayers |-> [stacks[r][name] EXCEPT ![s] =
                        [i \in DOMAIN @ |-> IF i \in adapter.has[name] THEN part(r, name, i) ELSE NoPart]]]]
                /\ added' = IF adapter.added > 0 THEN slots' ELSE added
                /\ UNCHANGED mode
           ELSE mode' = "unfit" /\ UNCHANGED loraVars
        /\ UNCHANGED <<model, parameters, content, pending, partial, result, kernelVars>>

\* A mutant: the rows of a rank are counted from its first added token.
MutAddedAt(r, row) ==
    LET i == row - Max({model.vocab - VocabStart(r), 0})
    IN  <<added[i \div Lora.extra + 1], i % Lora.extra>>

\* embeddings_weights and embeddings_slice: the rows of a rank beyond the
\* vocabulary hold the added tokens of all slots, as they were at the last copy.
AddedAt(r, row) ==
    LET first == Max({model.vocab - VocabStart(r), 0})
        i == VocabStart(r) - model.vocab + first + (row - first)
    IN  <<added[i \div Lora.extra + 1], i % Lora.extra>>

\* The row that the embedding reads for the j-th token that the adapter in slot s
\* adds, and the rank that has it.
AddedToken(s, j) == model.vocab + j + (s - 1) * Lora.extra

-----------------------------------------------------------------------------
\* What the layers compute, from what their parameters hold.

\* The projection and the column of it that a column of the rank has in the
\* pieces of a parameter, or <<0, 0>> where nothing was loaded.
UnitAt(pieces, per, unit) ==
    LET e == (unit * per[1]) \div per[2]
        held == {x \in pieces : x.at <= e /\ e < x.at + x.len}
        x == CHOOSE x \in held : TRUE
        first(n) == (n * per[2]) \div per[1]
    IN  IF held = {} THEN <<0, 0>> ELSE <<x.proj, first(x.from + e - x.at) + unit - first(e)>>

\* The projection a column of the rank belongs to by its position.
PartitionOf(l, unit) ==
    LET sizes == OutputPartitionSizes(l, tp)
    IN  CHOOSE i \in DOMAIN sizes : Before(sizes, i) <= unit /\ unit < Before(sizes, i) + sizes[i]

\* The projection whose scale or codebook is used for a column.
SpecialAt(l, p, pieces, unit) ==
    LET e == IF p.special = "splitter" THEN IF p.out = 1 THEN 0 ELSE unit ELSE PartitionOf(l, unit) - 1
        held == {x \in pieces : x.at <= e /\ e < x.at + x.len}
    IN  IF held = {} THEN 0 ELSE (CHOOSE x \in held : TRUE).proj

\* What the parameters of a layer hold for one of the columns of a rank: a
\* single column of a projection, unless they disagree.
Columns(name, r, unit) ==
    LET ps == parameters[name]
        units == {UnitAt(content[r][<<name, p.name>>], p.outPer, unit) : p \in {p \in ps : p.outputDim}}
        projs == {SpecialAt(Layer(name), p, content[r][<<name, p.name>>], unit) :
                        p \in {p \in ps : p.special # "none"}}
    IN  units \cup {<<i, u[2]>> : i \in projs, u \in units}

\* The same for one of the inputs of a row parallel layer.
Inputs(name, r, unit) ==
    {UnitAt(content[r][<<name, p.name>>], p.inPer, unit)[2] : p \in {p \in parameters[name] : p.inputDim}}

\* Every grain-th of n columns stands for the others: the pieces are intervals.
Samples(n) == {i * model.grain : i \in 0 .. n \div model.grain - 1}

\* A mutant: heads of q are paired with those of k and v in turn.
MutKvHeadOf(l, h) == h % NumKvHeads(l, tp)

\* The head of k and v that a head of q attends to on a rank.
KvHeadOf(l, h) == h \div (NumHeads(l, tp) \div NumKvHeads(l, tp))

\* The attention block on a rank: for each of its heads what q, k and v are
\* projected from, and the input of o_proj that multiplies it.
AttentionTerms(r) ==
    LET l == Layer("qkv")
        term(h) == <<Columns("qkv", r, h * l.headSize),
                     Columns("qkv", r, QKVOffset(l, tp, 2) + KvHeadOf(l, h) * l.headSize),
                     Columns("qkv", r, QKVOffset(l, tp, 3) + KvHeadOf(l, h) * l.headSize),
                     Inputs("o", r, h * l.headSize)>>
    IN  {term(h) : h \in 0 .. NumHeads(l, tp) - 1}

WholeAttention ==
    LET l == Layer("qkv")
        kv(h) == (h \div (l.heads \div l.kvHeads)) * l.headSize
    IN  {<<{<<1, h * l.headSize>>}, {<<2, kv(h)>>}, {<<3, kv(h)>>}, {h * l.headSize}>> : h \in 0 .. l.heads - 1}

\* The other block: silu_and_mul pairs the halves of the columns of a merged
\* layer; after a layer of one projection the activation takes each by itself.
MlpTerms(r) ==
    LET l == Layer("up")
        d == Total(OutputPartitionSizes(l, tp)) \div Len(l.outs)
        term(j) == IF Len(l.outs) = 1 THEN <<Columns("up", r, j), Inputs("down", r, j)>>
                   ELSE <<Columns("up", r, j), Columns("up", r, j + d), Inputs("down", r, j)>>
    IN  {term(j) : j \in Samples(d)}

WholeMlp ==
    IF Len(Layer("up").outs) = 1 THEN {<<{<<1, j>>}, {j}>> : j \in Samples(Layer("down").ins)}
    ELSE {<<{<<1, j>>}, {<<2, j>>}, {j}>> : j \in Samples(Layer("down").ins)}

\* The all-reduces of a pass, in turn.
Block(call) == <<"embedding", "attention", "mlp">>[((call - 1) % 3) + 1]

Terms(call, r) ==
    CASE Block(call) = "embedding" -> EmbeddingTerms(r)
      [] Block(call) = "attention" -> AttentionTerms(r)
      [] OTHER -> MlpTerms(r)

Whole(call) ==
    CASE Block(call) = "embedding" -> {<<v, v>> : v \in 0 .. model.vocab - 1}
      [] Block(call) = "attention" -> WholeAttention
      [] OTHER -> WholeMlp

\* A sum of what ranks contribute is the output of the layer if it has every
\* term, and none twice.
IsSum(contributions, call) ==
    /\ UNION {Terms(x[2], x[1]) : x \in contributions} = Whole(call)
    /\ \A x, y \in contributions : x # y => Terms(x[2], x[1]) \cap Terms(y[2], y[1]) = {}

-----------------------------------------------------------------------------
\* Forward passes.

Serves == mode = "ready" /\ model \in Served

InputsRead(p) == {<<q, input[q]>> : q \in Ranks}

\* A kernel reads the inputs of all ranks; one of two stages leaves its part of
\* the sum for the others, and gathers theirs at the end.
Reduce(p) ==
    /\ Serves
    /\ \/ /\ Produce(p) \/ Launch(p) \/ BeginWork(p) \/ \E q \in Ranks : Thread(p, q)
          /\ UNCHANGED <<partial, result>>
       \/ /\ EndWork(p)
          /\ IF calls[p] \in TwoStage
             THEN partial' = [partial EXCEPT ![p] = InputsRead(p)] /\ UNCHANGED result
             ELSE result' = [result EXCEPT ![p] = InputsRead(p)] /\ UNCHANGED partial
       \/ /\ EndKernel(p)
          /\ result' = [result EXCEPT ![p] =
                IF phase[p] = "gather" THEN UNION {partial[q] : q \in Ranks} ELSE @]
          /\ UNCHANGED partial
    /\ UNCHANGED <<model, parameters, content, pending, mode, loraVars>>

TPNext ==
    \/ LoadEmbedding
    \/ \E name \in LinearLayers, proj \in 0 .. 3 : LoadTensor(name, proj)
    \/ FinishLoading
    \/ \E s \in Slots, a \in DOMAIN Lora.adapters : ActivateLora(s, a)
    \/ \E p \in Ranks : Reduce(p)

\* Loading goes on, and so does each rank while it can: neither its stream nor
\* its resident threads stop.
TPSpec ==
    /\ TPInit /\ [][TPNext]_allVars
    /\ WF_allVars(LoadEmbedding \/ FinishLoading \/ \E name \in LinearLayers, proj \in 0 .. 3 : LoadTensor(name, proj))
    /\ \A p \in Ranks : WF_allVars(Reduce(p))

-----------------------------------------------------------------------------
\* Properties.

\* A model whose constructors accept its sizes loads, and once it is loaded the
\* ranks together compute every term of every layer once: the columns of all
\* parameters agree with one another, heads meet their own keys and values, a
\* row parallel layer takes the inputs its rank has computed.
ForwardIsWhole ==
    /\ mode # "failed"
    /\ mode = "loading" /\ pending = {} =>
        /\ \A call \in 1 .. 3 : IsSum({<<r, call>> : r \in TpRanks}, call)
        /\ \A v \in 0 .. model.vocab - 1 : LogitsColumn(v) = v

\* The inputs that a rank multiplies with the columns it has.
InsAt(name, r) ==
    IF Layer(name).kind = "row" THEN UNION {Inputs(name, r, j) : j \in 0 .. InputSizePerPartition(Layer(name), tp) - 1}
    ELSE 0 .. Layer(name).ins - 1

\* The slots add to a column of a layer what their adapter has for the column
\* whose weights are there: all of its rank, once for each input of the layer.
DeltasInPlace(name, s) ==
    LET l == Layer(name)
        adapter == Lora.adapters[slots[s]]
        parts == [r \in TpRanks |-> stacks[r][name][s]]
        delta(r, u) == DeltaAt(Class(name), l, Lora, tp, parts, r, u)
        ins(r) == IF Lora.sharded /\ l.kind = "row" THEN {InsAt(name, q) : q \in TpRanks} ELSE {InsAt(name, r)}
        whole(r, i) == \A k \in 0 .. adapter.rank - 1 :
            Buffer(Class(name), Lora, StackRows(l, Lora, tp), parts, r, i, k) = <<k, ins(r)>>
        has(proj) == (IF NumSlices(Class(name)) = 1 THEN 1 ELSE proj) \in adapter.has[name]
        sound(r, u, column) ==
            LET d == delta(r, u)
            IN  IF has(column[1]) THEN d[2] = column /\ whole(r, d[1]) ELSE d[2] = <<0, 0>>
    IN  IF l.kind # "row"
        THEN \A r \in TpRanks, u \in Samples(Total(OutputPartitionSizes(l, tp))) :
                \A column \in Columns(name, r, u) : sound(r, u, column)
        ELSE \A u \in Samples(l.outs[1]) :
                LET on == {r \in TpRanks : delta(r, u)[2] # <<0, 0>>}
                IN  IF has(1) THEN /\ on = TpRanks \/ (Lora.sharded /\ Cardinality(on) = 1)
                                  /\ \A r \in on : sound(r, u, <<1, u>>)
                    ELSE on = {}

\* Whatever adapters have been in a slot before: what it adds to every layer is
\* what its adapter has for it, and every token, added ones too, is embedded and
\* rotated as its adapter says.  No adapter is refused that is within the limits.
AdaptersInPlace ==
    /\ mode # "unfit"
    /\ mode = "ready" => \A s \in Slots : slots[s] # 0 =>
        LET adapter == Lora.adapters[slots[s]]
            factor == IF adapter.factor = 0 THEN Lora.baseFactor ELSE adapter.factor
        IN  /\ \A name \in LinearLayers : DeltasInPlace(name, s)
            /\ \A j \in 0 .. adapter.added - 1 :
                    LET v == AddedToken(s, j)
                    IN  AddedAt(v \div VocabPerRank, v % VocabPerRank) = <<slots[s], j>>
            /\ \A p \in {0, 1, Positions * factor - 1} :
                    RopeAt(Lora.factors, Positions, RopeRow(Lora.factors, Positions, adapter.factor, p)) = <<factor, p>>

\* The output of an all-reduce is, on every rank, the sum of what all ranks have
\* contributed to that very call, and no other.
SumsAreWhole ==
    \A p \in Ranks :
        phase[p] = "idle" /\ calls[p] > 0 => result[p] = {<<q, calls[p]>> : q \in Ranks}

\* Loading ends, and so does every pass on every rank.
PassesEnd ==
    <>(mode \in {"refused", "failed"} \/ (mode = "ready" /\ model \notin Served)
        \/ \A p \in Ranks : calls[p] = MaxCalls /\ phase[p] = "idle")
=============================================================================
