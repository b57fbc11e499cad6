---------------------------- MODULE NarrativeFrames ----------------------------
(***************************************************************************)
(* What a client of POST /cases/{id}/narrative relies on (narrativeStream- *)
(* EventSchema in shared/src/schemas/events.ts, narrative-reducer.ts): the *)
(* order of the frames of each answer.  A rejected draft is taken back as  *)
(* a whole, by a retry and the restart right behind it, once at most.      *)
(***************************************************************************)
CONSTANTS Generations

VARIABLES last, restarted   \* of each: the last frame, whether a restart was sent

Frames == {"token", "retry", "restart", "done", "error"}

Init ==
    /\ last = [g \in Generations |-> "none"]
    /\ restarted = [g \in Generations |-> FALSE]

MayFollow(f, before, again) ==
    /\ before \notin {"done", "error"}
    /\ (before = "retry") <=> (f = "restart")
    /\ f = "retry" => before = "token" /\ ~again
    /\ f = "done" => before # "restart"

Send(g, f) ==
    /\ MayFollow(f, last[g], restarted[g])
    /\ last' = [last EXCEPT ![g] = f]
    /\ restarted' = [restarted EXCEPT ![g] = @ \/ f = "restart"]

Next == \E g \in Generations, f \in Frames : Send(g, f)

Spec == Init /\ [][Next]_<<last, restarted>>
=============================================================================
