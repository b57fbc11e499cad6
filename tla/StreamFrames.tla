---------------------------- MODULE StreamFrames ----------------------------
(***************************************************************************)
(* The frames of POST /cases/{id}/ask in the order a client may meet them  *)
(* (shared/src/schemas/events.ts, web/src/stream/ask-reducer.ts).          *)
(***************************************************************************)
Frames == {"token", "tool_call", "tool_result", "retry", "done", "error"}
Terminal == {"done", "error"}

(* May frame f come next, after `last`, given whether a retry was sent?    *)
(* Nothing follows a terminal frame; there is one retry, right behind the  *)
(* text that it rejects, and never a token after it; a result answers the  *)
(* call before it.  A call of a tool that does not exist has no result.    *)
MayFollow(f, last, retried) ==
    /\ last \notin Terminal
    /\ f = "token" => ~retried
    /\ f = "retry" => ~retried /\ last = "token"
    /\ f = "tool_result" => last = "tool_call"
=============================================================================
