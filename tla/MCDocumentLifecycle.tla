------------------------- MODULE MCDocumentLifecycle -------------------------
(* Values of the constants of DocumentLifecycle for the model checker.      *)
EXTENDS DocumentLifecycle, Sequences, TLC

(* Types that select a schema family, and "other", which selects none:      *)
(* FAMILY_BY_TYPE in extraction/index.ts is partial.                        *)
MCSchemaOf ==
    [t \in DocTypes |-> IF t = "other" THEN NoSchema ELSE t \o "@1"]
MCSchemaVers == {MCSchemaOf[t] : t \in DocTypes} \ {NoSchema}

(* Where calls may fail: in every step of a run, also in the update that   *)
(* the `failed` listener sends, everywhere but in the chaining, nowhere.    *)
AllSteps == IngestSteps \cup AnalysisSteps
AllCalls == AllSteps \cup {"mark"}
StepsBeforeCommit == AllSteps \ {"chain"}
NoSteps == {}

(* At most one crash or one lost lock in a behaviour. *)
OneFault == crashes + stalls <= 1

Slots == Permutations(IngestSlots) \cup Permutations(AnalysisSlots)
=============================================================================
