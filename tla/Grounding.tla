------------------------------ MODULE Grounding ------------------------------
(***************************************************************************)
(* The grounding contract FR-5.2 (agent/grounding.ts).  A generated text   *)
(* is a set of sentences; of a sentence only what validateGrounding looks  *)
(* at is kept: whether it asserts something, which clauses its markers     *)
(* name, whether one of them declares it as not about the documents, and   *)
(* whether one of them is no clause id at all.                             *)
(*                                                                         *)
(* A clause is named by its serialized id, which outlives a re-ingest of   *)
(* its document; what a citation stores is the row, which does not.  The   *)
(* row is the number of the ingest commit that wrote it.                   *)
(***************************************************************************)
EXTENDS Naturals

CONSTANTS Refs      \* serialized clause ids of the case

Sentence ==
    [asserts: BOOLEAN, cites: SUBSET Refs, aside: BOOLEAN, malformed: BOOLEAN]

(* What tools, or the stored report, put in front of the model: the row    *)
(* behind each serialized id, 0 for one that no tool surfaced.             *)
Citable == [Refs -> Nat]
NothingCitable == [r \in Refs |-> 0]
Known(citable) == {r \in Refs : citable[r] # 0}

Named(draft) == UNION {s.cites : s \in draft}

Verdict(draft, citable) ==
    LET known == Known(citable)
        uncited == {s \in draft :
                       s.asserts /\ ~s.aside /\ s.cites \cap known = {}}
        unresolved == Named(draft) \ known
    IN  [ok |-> /\ uncited = {} /\ unresolved = {}
                /\ \A s \in draft : ~s.malformed,
         uncited |-> uncited,
         citations |-> {[ref |-> r, row |-> citable[r]] :
                           r \in Named(draft) \cap known}]

(* The contract itself: every assertion stands on a clause that was put in *)
(* front of the model, or says that it is not about the documents, and no  *)
(* marker points anywhere else.                                            *)
Honours(draft, citable) ==
    \A s \in draft :
       /\ ~s.malformed
       /\ s.cites \subseteq Known(citable)
       /\ s.asserts => s.aside \/ s.cites # {}
=============================================================================
