--------------------------- MODULE MCMultihopRunner ---------------------------
(* Instances of MultihopRunner for TLC. *)
EXTENDS MultihopRunner
=============================================================================
