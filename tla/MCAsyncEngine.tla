--------------------------- MODULE MCAsyncEngine ---------------------------
(* Instances of AsyncEngine for TLC. *)
EXTENDS AsyncEngine

CONSTANTS c1, c2, r1

\* every call has an id of its own, the call itself
OwnIds == [c \in Clients |-> c]
\* all calls use the same id
SameId == [c \in Clients |-> r1]

Setup(faults, start) == [faults |-> faults, start_engine_loop |-> start]
\* An engine that starts its own loop; one whose loop the caller starts, with
\* workers that fail.
SetupsServe == {Setup({}, TRUE), Setup({"model", "timeout"}, FALSE)}
SetupsSound == {Setup({}, TRUE)}
SetupsModel == {Setup({"model"}, FALSE)}
SetupsRestart == {Setup({"model"}, TRUE)}

-----------------------------------------------------------------------------
\* Claims of comments, documents and tests that the code does not keep.

\* propagate_exception without a request id reaches every open stream.
ErrorReachesEveryStream ==
    [][callback /\ ~callback' =>
        \A c \in Clients : pc[c] = "reading" => Finished(streams', c)]_vars
=============================================================================
