------------------------------ MODULE KVCache ------------------------------
(***************************************************************************)
(* The contents of the paged KV cache, as the worker and its kernels move  *)
(* them (worker.py, model_runner.py, csrc/cache_kernels.cu).  The key and  *)
(* value of a token are a function of that token and of all before it, so  *)
(* a slot is named by the prefix it was computed for; <<>> stands for a    *)
(* slot that holds nothing of use.  A cache kv maps a block to its slots,  *)
(* and positions of a sequence count from 1.                               *)
(***************************************************************************)
EXTENDS Integers, Sequences

CONSTANT BlockSize      \* tokens in a block

ASSUME KVAssumption == BlockSize \in Nat \ {0}

Slots == 1 .. BlockSize
BlankBlock == [i \in Slots |-> <<>>]

\* len(seq.logical_token_blocks) of n tokens, and the slot of position i.
NumBlocks(n) == (n + BlockSize - 1) \div BlockSize
BlockIndex(i) == (i - 1) \div BlockSize + 1
Offset(i) == ((i - 1) % BlockSize) + 1

\* swap_blocks and copy_blocks: whole blocks move from the first to the
\* second component of the pairs.
Transfer(kv, pairs) ==
    [b \in DOMAIN kv |->
        IF \E p \in pairs : p[2] = b
        THEN kv[(CHOOSE p \in pairs : p[2] = b)[1]] ELSE kv[b]]

\* The pairs of one copy_blocks call are copied by independent thread blocks:
\* no pair may write what another reads for, or writes to, a block in use.
RaceFree(pairs, used) ==
    \A p, q \in pairs : p[2] \in used => q[2] # p[1] /\ (p # q => q[2] # p[2])

\* slot_mapping of the positions I of a sequence with the given table, and
\* what reshape_and_cache puts there.
Writes(table, tokens, I) ==
    {[block |-> table[BlockIndex(i)], slot |-> Offset(i),
      value |-> SubSeq(tokens, 1, i)] : i \in I}

\* All tokens of a batch are written by one call, in no order.
WritesAgree(W) ==
    \A w, v \in W : w.block = v.block /\ w.slot = v.slot => w.value = v.value

ReshapeAndCache(kv, W) ==
    [b \in DOMAIN kv |-> [o \in Slots |->
        LET here == {w \in W : w.block = b /\ w.slot = o}
        IN IF here = {} THEN kv[b][o] ELSE (CHOOSE w \in here : TRUE).value]]

\* The slots of the positions I hold what the tokens of the sequence say.
Holds(kv, table, tokens, I) ==
    \A i \in I : kv[table[BlockIndex(i)]][Offset(i)] = SubSeq(tokens, 1, i)
=============================================================================
