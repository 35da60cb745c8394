----------------------------- MODULE MCReasoner -----------------------------
(* Instances of Reasoner for TLC. *)
EXTENDS Reasoner

CONSTANTS d1, d2, d3, q0, q1, q2

-----------------------------------------------------------------------------
\* Claims of comments and documents that the code does not keep.

\* In jacobian mode an uncertain answer triggers retrieval.
ScoreIsCompared == error # "NameError"

\* A query that was searched already is replaced by the question
\* ("query already searched, use full question").
DuplicateUsesQuestion == left = "duplicate" => Question \in searched_queries
=============================================================================
