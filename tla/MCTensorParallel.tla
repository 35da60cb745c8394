--------------------------- MODULE MCTensorParallel ---------------------------
(***************************************************************************)
(* Small instances of TensorParallel: models of at most four heads, with   *)
(* layers as narrow as their quantization allows.                          *)
(***************************************************************************)
EXTENDS TensorParallel

None == Quantization("none", Each, 0, FALSE)
GPTQ(bits, group, ordered) ==
    Quantization("gptq", IF bits = 3 THEN <<32, 3>> ELSE <<32 \div bits, 1>>, group, ordered)
Marlin(group) == Quantization("marlin", <<8, 1>>, group, FALSE)
GPTQMarlin(bits, group, ordered) == Quantization("gptq_marlin", <<32 \div bits, 1>>, group, ordered)
Marlin24(bits, group) == Quantization("gptq_marlin_24", <<32 \div bits, 1>>, group, FALSE)
AWQ(group) == Quantization("awq", <<8, 1>>, group, FALSE)
SqueezeLLM == Quantization("squeezellm", <<8, 1>>, 0, FALSE)
AQLM == Quantization("aqlm", <<8, 1>>, 0, FALSE)
Fp8 == Quantization("fp8", Each, 0, FALSE)
Compressed == Quantization("compressed_tensors", Each, 0, FALSE)

NoLora ==
    [slots |-> 0, maxRank |-> 0, sharded |-> FALSE, extra |-> 0, baseFactor |-> 1, factors |-> {1}, adapters |-> <<>>,
     packed |-> [qkv |-> 3, o |-> 0, up |-> 2, down |-> 0]]

\* A model of some heads, whose block of two layers has inner columns.
Model(ranks, quant, heads, kvHeads, headSize, inner) ==
    LET hidden == heads * headSize
    IN  [tp |-> ranks, quant |-> quant, fused |-> FALSE, bias |-> FALSE, scaledAct |-> FALSE,
         vocab |-> 9, extraVocab |-> 0, padTo |-> 4, grain |-> headSize, lora |-> NoLora,
         layers |-> [qkv |-> QKVLinear(hidden, heads, kvHeads, headSize),
                     o |-> Linear("row", hidden, <<hidden>>),
                     up |-> Linear("merged", hidden, <<inner, inner>>),
                     down |-> Linear("row", inner, <<hidden>>)]]

Fused(m) == [m EXCEPT !.fused = TRUE]
Biased(m) == [m EXCEPT !.bias = TRUE]
ScaledAct(m) ==
    [m EXCEPT !.scaledAct = TRUE,
              !.layers.up = Linear("column", m.layers.up.ins, <<m.layers.up.outs[1]>>)]
Extended(n, m) == [m EXCEPT !.extraVocab = n]
Grain(n, m) == [m EXCEPT !.grain = n]

\* Any number of ranks, more ranks than heads of k and v, and sizes that do not
\* divide.
Dense ==
    {Model(t, None, 4, kv, 2, 8) : t \in {1, 2, 4}, kv \in {1, 2, 4}}
    \cup {Fused(Biased(Model(t, None, 4, kv, 2, 8))) : t \in {2, 4}, kv \in {1, 2, 4}}
    \cup {Grain(1, Model(t, None, 4, 2, 2, 6)) : t \in {2, 4}}
    \cup {Extended(3, Model(4, None, 4, 4, 1, 4))}

Quants == {GPTQ(4, 16, FALSE), GPTQ(4, 16, TRUE), GPTQ(4, 0, FALSE), AWQ(16)}
Small ==
    {Model(t, q, 4, kv, 16, 64) : t \in {1, 2, 4}, kv \in {1, 2}, q \in Quants \cup {SqueezeLLM, AQLM, Fp8, Compressed}}
    \cup {Fused(Model(t, q, 4, 2, 16, 64)) : t \in {2, 4}, q \in Quants}
    \cup {Model(2, GPTQ(3, 32, FALSE), 4, 2, 32, 64)}
    \cup {ScaledAct(Biased(Model(2, AWQ(16), 4, 4, 16, 64)))}

Large ==
    {Model(2, q, 8, kv, 64, 512) : kv \in {1, 2, 4},
            q \in {Marlin(0), Marlin(128), GPTQMarlin(4, 128, FALSE), GPTQMarlin(8, 64, TRUE)}}
    \cup {Fused(Model(2, q, 8, 4, 64, 512)) : q \in {Marlin(128), Marlin24(4, 128), Marlin24(8, 0)}}

\* Adapters with all modules, with some, and one for a long context.
Adapter(rank, tokens, factor, qkv, up) ==
    [rank |-> rank, added |-> tokens, factor |-> factor,
     has |-> [qkv |-> qkv, o |-> {1}, up |-> up, down |-> IF up = {} THEN {} ELSE {1}]]
PackedAdapters == <<Adapter(4, 2, 0, 1 .. 3, 1 .. 2), Adapter(2, 0, 2, {1, 3}, {}), Adapter(3, 1, 4, {}, 1 .. 2)>>
SingleAdapters(rank) == <<Adapter(rank, 2, 4, {1}, {1}), Adapter(1, 0, 0, {1}, {})>>

WithLora(sharded, n, packed, adapters, m) ==
    [m EXCEPT !.extraVocab = 2 * n,
              !.lora = [NoLora EXCEPT !.slots = n, !.maxRank = 4, !.sharded = sharded, !.extra = 2,
                                      !.factors = {1, 2, 4}, !.packed.qkv = packed, !.packed.up = Min({packed, 2}),
                                      !.adapters = adapters]]
OneUp(m) == [m EXCEPT !.layers.up = Linear("column", m.layers.up.ins, <<m.layers.up.outs[1]>>)]

Adapted ==
    {WithLora(sharded, 2, 3, PackedAdapters, Model(t, None, 4, kv, 2, 8)) : sharded \in BOOLEAN, t \in {1, 2}, kv \in {1, 2}}
    \cup {WithLora(FALSE, 2, 3, PackedAdapters, Model(4, None, 4, 2, 2, 8))}
    \cup {WithLora(FALSE, 1, 1, SingleAdapters(4), OneUp(Model(t, None, 4, kv, 2, 8))) : t \in {1, 2, 4}, kv \in {1, 2}}
    \cup {WithLora(TRUE, 1, 1, SingleAdapters(2), OneUp(Model(2, AWQ(16), 4, kv, 16, 64))) : kv \in {1, 2}}

ModelsSound == Dense \cup Small \cup Large \cup Adapted
ModelsServed == {Model(2, None, 4, 1, 2, 8)}

\* Refuted: a rank with a single group of Marlin, projections that are no multiple
\* of the pack factor, the lookup table of a layer of one projection, fused
\* checkpoints of parameters without an output axis; one module packed in a layer of
\* two, an adapter with one of two modules, and a rank above the share of a buffer.
ModelsOneGroup == {Model(2, Marlin(128), 8, 4, 32, 512)}
ModelsHalfPack == {Grain(4, Model(2, AWQ(4), 4, 4, 16, 8))}
ModelsLookup == {OneUp(Model(2, SqueezeLLM, 4, 4, 16, 64))}
ModelsFused == {Fused(Model(2, q, 4, 2, 16, 64)) : q \in {Fp8, AQLM, Compressed}}
ModelsOnePacked == {WithLora(FALSE, 1, 1, SingleAdapters(4), Model(2, None, 4, 2, 2, 8))}
ModelsLacking == {WithLora(FALSE, 1, 3, <<Adapter(4, 0, 0, 1 .. 3, {1})>>, Model(2, None, 4, 2, 2, 8))}
ModelsShardedQKV == {WithLora(TRUE, 1, 1, SingleAdapters(4), OneUp(Model(2, None, 4, 2, 2, 8)))}
=============================================================================
