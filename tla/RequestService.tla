--------------------------- MODULE RequestService ---------------------------
(***************************************************************************)
(* What the asynchronous engine promises to the callers of generate(),     *)
(* without queues, tracker and loop: an accepted request gets outputs, at  *)
(* most MaxOutputs of them, and then one ending that is never revised: its *)
(* last output, an error, or its abort.  Requests advance independently.   *)
(***************************************************************************)
EXTENDS Naturals

CONSTANTS Clients, MaxOutputs

VARIABLE reply      \* per call: its state and the number of its outputs

Endings == {"answered", "failed", "aborted"}
Reply(state, n) == [state |-> state, outputs |-> n]

\* What a step may do to the reply of one call.
Accept(c) == reply[c] = Reply("none", 0) /\ reply'[c] = Reply("open", 0)
Output(c) ==
    /\ reply[c].state = "open" /\ reply[c].outputs < MaxOutputs
    /\ reply'[c] \in {Reply(state, reply[c].outputs + 1) :
                         state \in {"open", "answered"}}
GiveUp(c) ==
    /\ reply[c].state = "open"
    /\ reply'[c] \in {Reply(state, reply[c].outputs) : state \in {"failed", "aborted"}}

Init == reply = [c \in Clients |-> Reply("none", 0)]

Next ==
    \A c \in Clients : reply'[c] = reply[c] \/ Accept(c) \/ Output(c) \/ GiveUp(c)

Spec == Init /\ [][Next]_reply

\* An accepted request does not stay open for ever.
RepliesEnd ==
    \A c \in Clients : reply[c].state = "open" ~> reply[c].state \in Endings

FairSpec == Spec /\ RepliesEnd
=============================================================================
