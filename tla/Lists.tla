------------------------------- MODULE Lists -------------------------------
(***************************************************************************)
(* A subsequence, a sum and a product, which the models need and their     *)
(* proofs reason about.  They are recursive functions: SelectSeq and the   *)
(* folds of the community modules take an operator, and have no theorem to *)
(* cite.                                                                   *)
(***************************************************************************)
EXTENDS Integers, Sequences

\* The elements of s that are in S, in the order of s.
Select(s, S) ==
    LET kept[i \in 0 .. Len(s)] ==
            IF i = 0 THEN <<>>
            ELSE IF s[i] \in S THEN Append(kept[i - 1], s[i]) ELSE kept[i - 1]
    IN  kept[Len(s)]

\* f[1] + ... + f[n]
SumUpTo(f, n) ==
    LET sum[i \in 0 .. n] == IF i = 0 THEN 0 ELSE sum[i - 1] + f[i]
    IN  sum[n]

\* The sequences of a member of each set.
OneOfEach(sets) ==
    LET chosen[i \in 0 .. Len(sets)] ==
            IF i = 0 THEN {<<>>}
            ELSE {Append(c, x) : c \in chosen[i - 1], x \in sets[i]}
    IN  chosen[Len(sets)]
=============================================================================
