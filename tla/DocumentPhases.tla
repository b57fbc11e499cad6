---------------------------- MODULE DocumentPhases ----------------------------
(***************************************************************************)
(* What a reader of the progress stream or of GET /cases/{id} is promised  *)
(* about a document: one phase, as derivePhase in shared/src/schemas/      *)
(* api.ts computes it, that only ever moves along these steps.  There are  *)
(* no jobs, attempts, slots or crashes here.  "queued" is shown twice in a *)
(* document's life, before it is parsed and before it is analyzed, so the  *)
(* specification also says which documents are indexed.                    *)
(***************************************************************************)
CONSTANTS Documents

VARIABLES phase, indexed

PhaseNames == {"absent", "queued", "parsing", "analyzing", "ready", "failed",
               "gone"}

Init ==
    /\ phase = [d \in Documents |-> "absent"]
    /\ indexed = {}

Move(d, from, to) ==
    /\ phase[d] = from
    /\ phase' = [phase EXCEPT ![d] = to]

Accept(d)  == Move(d, "absent", "queued") /\ UNCHANGED indexed
Parse(d)   == Move(d, "queued", "parsing") /\ UNCHANGED indexed
Refuse(d)  == d \notin indexed /\ Move(d, "parsing", "failed")
                /\ UNCHANGED indexed
Index(d)   == Move(d, "parsing", "queued") /\ indexed' = indexed \cup {d}
Analyze(d) == d \in indexed /\ Move(d, "queued", "analyzing")
                /\ UNCHANGED indexed
Report(d)  == Move(d, "analyzing", "ready") /\ UNCHANGED indexed

(* Also without ever having been seen analyzing. *)
GiveUp(d) ==
    /\ d \in indexed
    /\ Move(d, "analyzing", "failed") \/ Move(d, "queued", "failed")
    /\ UNCHANGED indexed

(* Deleting the case takes whatever documents it has. *)
Vanish ==
    /\ phase' = [d \in Documents |->
                   IF phase[d] = "absent" THEN "absent" ELSE "gone"]
    /\ indexed' = {}

Next ==
    \/ Vanish
    \/ \E d \in Documents :
          \/ Accept(d) \/ Parse(d) \/ Refuse(d) \/ Index(d)
          \/ Analyze(d) \/ Report(d) \/ GiveUp(d)

Spec == Init /\ [][Next]_<<phase, indexed>>
=============================================================================
