---------------------------- MODULE LoraManager ----------------------------
(***************************************************************************)
(* LRUCacheWorkerLoRAManager over LRUCacheLoRAModelManager: which adapters *)
(* a worker has loaded, in which slot of the stacked weights each of them  *)
(* is active, and the slots that the tokens of a batch are mapped to.  An  *)
(* adapter is its lora_int_id, a positive number; 0 stands for none.       *)
(*                                                                         *)
(* A manager m has the fields                                              *)
(*   registered  _registered_loras, from the least recently used           *)
(*   active      _active_loras, from the least recently used               *)
(*   index       lora_index_to_id: slot -> adapter or 0                    *)
(*   weights     layer -> slot -> the adapter whose weights are there, or  *)
(*               0 for zeros                                               *)
(*   long        ids in offsets_by_lora_id                                 *)
(*   last        _last_mapping, <<>> for None                              *)
(*   base        base_indices: token -> slot, 0 for -1                     *)
(*   sampler     sampler_indices: row of logits -> slot, 0 for -1          *)
(*   padded      sampler_indices_padded: row of logits -> row of the       *)
(*               logits that all slots compute for all rows                *)
(*   rope        long_lora_indices: token -> has the offset of its adapter *)
(***************************************************************************)
EXTENDS Integers, Sequences, SequencesExt

CONSTANTS
    Layers,         \* modules of the model that adapters may replace
    Covers,         \* adapter -> the layers it has weights for
    LongAdapters    \* adapters with a scaling factor for long contexts

NewManager(slots) ==
    [registered |-> <<>>, active |-> <<>>, index |-> [s \in 1 .. slots |-> 0],
     weights |-> [l \in Layers |-> [s \in 1 .. slots |-> 0]], long |-> {},
     last |-> <<>>, base |-> <<>>, sampler |-> <<>>, padded |-> <<>>, rope |-> <<>>]

\* OrderedDict.move_to_end, which also puts what is not there yet.
Touch(lru, a) == Append(Remove(lru, a), a)
SlotOf(m, a) == CHOOSE s \in DOMAIN m.index : m.index[s] = a

\* deactivate_lora: the weights stay in the slot.
Deactivate(m, a) ==
    [m EXCEPT !.active = Remove(@, a),
              !.index = [s \in DOMAIN @ |-> IF @[s] = a THEN 0 ELSE @[s]]]

MutLoadedInto(weights, slot, a) ==
    [l \in Layers |-> [weights[l] EXCEPT ![slot] = IF l \in Covers[a] THEN a ELSE @]]
\* set_lora of the layers the adapter covers, reset_lora of the others.
LoadedInto(weights, slot, a) ==
    [l \in Layers |-> [weights[l] EXCEPT ![slot] = IF l \in Covers[a] THEN a ELSE 0]]

ActivateLora(m, a) ==
    IF Contains(m.active, a) THEN [m EXCEPT !.active = Touch(@, a)]
    ELSE LET full == Len(m.active) >= Len(m.index)
             room == IF full THEN Deactivate(m, Head(m.active)) ELSE m
             slot == CHOOSE s \in DOMAIN room.index :
                         room.index[s] = 0 /\ \A t \in 1 .. s - 1 : room.index[t] # 0
         IN [room EXCEPT !.active = Append(@, a), !.index[slot] = a,
                         !.weights = LoadedInto(@, slot, a)]

RemoveOldestLora(m) ==
    Deactivate([m EXCEPT !.registered = Tail(@)], Head(m.registered))

\* _load_lora and LRUCacheLoRAModelManager.add_lora
Register(m, a) ==
    [m EXCEPT !.registered = Append(@, a),
              !.long = IF a \in LongAdapters THEN @ \cup {a} ELSE @]

\* LRUCacheWorkerLoRAManager.add_lora makes room before it loads.
AddLora(m, capacity, a) ==
    ActivateLora(
        IF Contains(m.registered, a) THEN [m EXCEPT !.registered = Touch(@, a)]
        ELSE IF Len(m.registered) + 1 > capacity THEN Register(RemoveOldestLora(m), a)
        ELSE Register(m, a), a)

RemoveLora(m, a) ==
    [Deactivate(m, a) EXCEPT !.long = @ \ {a}, !.registered = Remove(@, a)]

RemoveAllLoras(m) ==
    [m EXCEPT !.registered = <<>>, !.active = <<>>, !.index = [s \in DOMAIN @ |-> 0]]

\* _apply_loras goes through a set of requests, in any order.
TooManyLoras(m, wanted) == Len(wanted) > Len(m.index)
ApplyLoras(m, capacity, wanted) ==
    FoldLeft(LAMBDA n, a : AddLora(n, capacity, a), m, wanted)

\* convert_mapping; mapping is [tokens, prompts], the adapter of each token and
\* of each row of logits.
ConvertMapping(m, mapping) ==
    LET Index(a) == IF a > 0 THEN SlotOf(m, a) ELSE 0
        Padded(a) == IF a > 0 THEN SlotOf(m, a) ELSE Len(m.index) + 1
    IN [m EXCEPT !.base = [k \in DOMAIN mapping.tokens |-> Index(mapping.tokens[k])],
                 !.sampler = [k \in DOMAIN mapping.prompts |-> Index(mapping.prompts[k])],
                 !.padded = [k \in DOMAIN mapping.prompts |->
                                (Padded(mapping.prompts[k]) - 1) * Len(mapping.prompts) + k],
                 !.rope = [k \in DOMAIN mapping.tokens |-> mapping.tokens[k] \in m.long]]

SetLoraMapping(m, mapping) ==
    [(IF m.last = mapping THEN m ELSE ConvertMapping(m, mapping)) EXCEPT !.last = mapping]

SetActiveLoras(m, capacity, wanted, mapping) ==
    SetLoraMapping(ApplyLoras(m, capacity, wanted), mapping)

\* add_lora of punica: the adapter whose weights are added to the output of a
\* layer, with the slot that the indices give.
Applied(m, layer, slot) == IF slot = 0 THEN 0 ELSE m.weights[layer][slot]

\* LogitsProcessorWithLoRA._get_logits: the slot and the row of hidden states that
\* the logits of the added vocabulary are taken from in row k of n; the slot past
\* the last one stands for minus infinity.
ExtraLogits(m, n, k) == <<((m.padded[k] - 1) \div n) + 1, ((m.padded[k] - 1) % n) + 1>>
=============================================================================
