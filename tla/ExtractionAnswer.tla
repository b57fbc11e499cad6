--------------------------- MODULE ExtractionAnswer ---------------------------
(***************************************************************************)
(* What becomes of a model's answer in the analysis: the classification    *)
(* (extraction/classifier-service.ts), and the extraction with its one     *)
(* repair (extraction/extraction-service.ts).  An answer is invalid, or it *)
(* is valid for the schema it was asked with; of a field it gives the      *)
(* status, the confidence, its quotation, and whether a clause is named.   *)
(***************************************************************************)
EXTENDS Integers, Sequences

CONSTANT SchemaOf      \* the fields by document type

Invalid == <<>>        \* no schema of a family is without fields
Untyped == "invalid"
Other == "other"       \* has no fields to extract
AnswerAssumption ==
    /\ Other \in DOMAIN SchemaOf /\ SchemaOf[Other] = {}
    /\ Untyped \notin DOMAIN SchemaOf
(* The quotation is none, or is found in a clause, or is lost: in no       *)
(* clause, or in several of which none is named.                           *)
FieldAnswers ==
    [status : {"extracted", "not_found", "extraction_failed"}, confidence : {"high", "low"},
     quotation : {"none", "found", "lost"}, names : BOOLEAN]
Filled(fields) == [fields -> FieldAnswers]
(* The answers to the calls of one analysis; the repair is only asked for  *)
(* when the first answer is not valid.                                     *)
AnswersFor(t) ==
    LET filled == Filled(SchemaOf[t])
    IN  [type : {t, Untyped}, first : filled, second : {Invalid}]
        \cup [type : {t, Untyped}, first : {Invalid}, second : filled \cup {Invalid}]
Answers == UNION {AnswersFor(t) : t \in DOMAIN SchemaOf}

Classified(a) == IF a.type = Untyped THEN Other ELSE a.type
Asked(a) == SchemaOf[Classified(a)]
Failed == [status |-> "extraction_failed", confidence |-> "low", quotation |-> "none", names |-> FALSE]
allFailed(fields) == [f \in fields |-> Failed]

ExtractionTrusting(a) ==     \* what the repair brings is not validated again
    IF a.first # Invalid THEN a.first ELSE IF a.second # Invalid THEN a.second ELSE <<>>
Extraction(a) ==
    IF a.first # Invalid THEN a.first
    ELSE IF a.second # Invalid THEN a.second ELSE allFailed(Asked(a))

(* resolveFieldCitations, of what CitationResolver has found: the span of  *)
(* the quotation, or, where there is none, the whole of the named clauses. *)
CitesNamed(field) ==
    IF field.quotation = "found" THEN "quotation" ELSE IF field.names THEN "clauses" ELSE "nothing"
Cites(field) ==
    IF field.quotation = "found" THEN "quotation"
    ELSE IF field.quotation = "none" /\ field.names THEN "clauses" ELSE "nothing"

ConfidenceAsSaid(field) == field.confidence
Confidence(field) ==
    IF field.status = "extracted" /\ Cites(field) = "nothing" THEN "low" ELSE field.confidence
persist(extraction) ==
    [f \in DOMAIN extraction |->
        [status |-> extraction[f].status, cites |-> Cites(extraction[f]),
         confidence |-> Confidence(extraction[f])]]
runExtraction(a) == IF Asked(a) = {} THEN <<>> ELSE persist(Extraction(a))

-----------------------------------------------------------------------------
Valid(a) == {x \in {a.first, a.second} : x # Invalid}

(* The rows of an analysis are those of one schema, all of them, and they  *)
(* are one answer: never fields of the first next to fields of the repair. *)
(* Without a valid answer each of them says that it failed, and none that  *)
(* the term was not found.                                                 *)
SavedWhole(a) ==
    LET saved == runExtraction(a)
        statuses == [f \in DOMAIN saved |-> saved[f].status]
    IN  /\ DOMAIN saved = Asked(a)
        /\ Asked(a) # {} =>
              IF Valid(a) = {} THEN \A f \in Asked(a) : saved[f].status = "extraction_failed"
              ELSE \E x \in Valid(a) : statuses = [f \in DOMAIN x |-> x[f].status]

(* A value is trusted only if it can be looked up in the document: at the  *)
(* quotation, or, if the model gave none, in the clauses it named.  Named  *)
(* clauses never make up for a quotation that is lost, whichever of the    *)
(* answers the value is from and however sure of it the model was.         *)
TrustIsCited(a) ==
    LET saved == runExtraction(a)
    IN  \A f \in DOMAIN saved :
           saved[f].status = "extracted" /\ saved[f].confidence # "low" =>
              /\ saved[f].cites # "nothing"
              /\ \A x \in Valid(a) : x[f].quotation # "lost"
=============================================================================
