-------------------------- MODULE MCBlockManagerV1 --------------------------
(* Instances of BlockManagerV1 for TLC. *)
EXTENDS BlockManagerV1, TLC

CONSTANTS g1, g2

Symmetry == Permutations({g1, g2})
NumGpu3 == 0 .. 2
NumGpu4 == 0 .. 3
NumGpu5 == 0 .. 4
NumCpu0 == {}
NumCpu3 == 10 .. 12
Prompts2 == {1, 2}
Prompts3 == {1, 3}
Prompts5 == {1, 5}
Prompts7 == {1, 7}

-----------------------------------------------------------------------------
\* Claims of comments, documents and tests that the code does not keep.

\* "Resetting block manager frees all allocated blocks": freeing every table
\* drops every reference.
ResetFreesAll == \A b \in Blocks : Uses(Seqs, b) = ref_count[b]

\* A sequence that is finished holds no block.
FinishedHoldsNothing ==
    \A s \in Seqs : status[s] = "FINISHED" => block_tables[s] = <<>>
=============================================================================
