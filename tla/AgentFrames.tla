----------------------------- MODULE AgentFrames -----------------------------
(***************************************************************************)
(* What the client relies on: an ask stream is a sequence of frames each   *)
(* of which may follow the one before.  The agent loop implements this.    *)
(***************************************************************************)
EXTENDS StreamFrames

VARIABLES frame, retried    \* the last frame sent; whether one was a retry

Init == frame = "none" /\ retried = FALSE

Send(f) ==
    /\ MayFollow(f, frame, retried)
    /\ frame' = f
    /\ retried' = (retried \/ f = "retry")

Next == \E f \in Frames : Send(f)

Spec == Init /\ [][Next]_<<frame, retried>>
=============================================================================
