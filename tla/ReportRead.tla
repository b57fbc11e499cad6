------------------------------ MODULE ReportRead ------------------------------
(***************************************************************************)
(* The report of a case, api/src/extraction/report-service.ts: each        *)
(* document's rows are read by five statements, next to ingests, analyses  *)
(* and benchmarks of the documents (benchmark-service.ts, which reads by   *)
(* three statements before it writes) and to their deletion.               *)
(***************************************************************************)
EXTENDS Integers, FiniteSets

CONSTANTS Docs, Versions, MaxIds   \* Versions: of the extraction schemas

ReportAssumption == MaxIds \in Nat

VARIABLES db, ids, bench, report,
          cited       \* history: every citation an analysis has made
reportVars == <<db, ids, bench, report, cited>>

Rows == INSTANCE DocumentRows

NoBench == [pc |-> "idle"]
NoReport == [pc |-> "idle"]
(* One document is analyzed, the others are only ingested.                 *)
Ingested ==
    [Rows!NoRows EXCEPT !.documents = {[doc |-> d, status |-> "ready"] : d \in Docs},
                        !.clauses = {[id |-> <<"first", d>>, doc |-> d] : d \in Docs},
                        !.chunks = {[doc |-> d, clause |-> <<"first", d>>] : d \in Docs}]
Init ==
    /\ \E d \in Docs, ver \in Versions :
          LET analyzed == Rows!Extracted(Ingested, d, ver, <<"first run", d>>)
          IN  db = Rows!Benchmarked(analyzed, d, analyzed.fields)
    /\ ids = 0
    /\ bench = NoBench
    /\ report = NoReport
    /\ cited = db.citations

Exists(d) == \E r \in db.documents : r.doc = d
Index(d) == Rows!Ids(Rows!Of(db.clauses, d))
Fresh == ids < MaxIds /\ ids' = ids + 1

(* The writers.  Each transaction is one step; a benchmark puts together   *)
(* what it read of the fields with what it then reads of the citations.    *)
ReIngest(d) ==
    /\ Exists(d) /\ Fresh
    /\ db' = Rows!Reindexed(db, d, <<"ingest", ids>>)
    /\ UNCHANGED <<bench, report, cited>>
Extract(d, ver) ==
    /\ Exists(d) /\ Fresh
    /\ db' = Rows!Extracted(db, d, ver, <<"run", ids>>)
    /\ cited' = cited \cup db'.citations
    /\ UNCHANGED <<bench, report>>
Delete(d) ==
    /\ Exists(d)
    /\ db' = [t \in Rows!Tables |-> Rows!NotOf(db[t], d)]
    /\ UNCHANGED <<ids, bench, report, cited>>
(* It merges the rows of all versions, in no order, and of what it has     *)
(* merged some triggers flags: fields is any of the rows.  A flag that no  *)
(* row stands behind cites nothing, and is left out.                       *)
BenchFields(d) ==
    /\ bench = NoBench /\ Exists(d)
    /\ \E trigger \in SUBSET Rows!Of(db.fields, d) :
          bench' = [pc |-> "citations", doc |-> d, fields |-> trigger]
    /\ UNCHANGED <<db, ids, report, cited>>
ClausesOf(fields, cites) == {c.clause : c \in {x \in cites : x.field \in Rows!Ids(fields)}}
BenchCitations ==
    /\ bench.pc = "citations"
    /\ bench' = [pc |-> "write", doc |-> bench.doc, fields |-> bench.fields,
                 clauses |-> ClausesOf(bench.fields, Rows!Of(db.citations, bench.doc))]
    /\ UNCHANGED <<db, ids, report, cited>>
(* benchmarkDocument's transaction; flags.document_id is a foreign key.    *)
BenchWrite ==
    /\ bench.pc = "write"
    /\ bench' = NoBench
    /\ LET flags == IF Exists(bench.doc) /\ bench.fields # {}
                    THEN {[doc |-> bench.doc, clauses |-> bench.clauses]} ELSE {}
       IN  db' = [db EXCEPT !.flags = Rows!NotOf(@, bench.doc) \cup flags]
    /\ UNCHANGED <<ids, report, cited>>

(* getCaseReport: the documents once, then one after the other.            *)
Step(r) == report' = r /\ UNCHANGED <<db, ids, bench, cited>>
ReadCase ==
    /\ report = NoReport
    /\ Step([pc |-> "document", todo |-> {d.doc : d \in db.documents}, doc |-> 0, out |-> {},
             fields |-> {}, cites |-> {}, flags |-> {}, began |-> {}])
(* getDocumentReport, statement by statement; null for one that is gone.   *)
ReadDocument ==
    /\ report.pc = "document"
    /\ \E d \in report.todo :
          Step([report EXCEPT !.todo = @ \ {d}, !.doc = d, !.began = Index(d),
                  !.pc = IF Exists(d) THEN "fields" ELSE "document"])
ReadFields ==
    /\ report.pc = "fields"
    /\ Step([report EXCEPT !.pc = "citations", !.fields = Rows!Of(db.fields, report.doc)])
ReadCitations ==
    /\ report.pc = "citations"
    /\ Step([report EXCEPT !.pc = "flags", !.cites = Rows!Of(db.citations, report.doc)])
ReadFlags ==
    /\ report.pc = "flags"
    /\ Step([report EXCEPT !.pc = "clauses", !.flags = Rows!Of(db.flags, report.doc)])

(* composeDocumentReport: a citation is put under its field, by the id of  *)
(* the field; what it cites resolves if the clause was there to be read.   *)
FlaggedOnly == UNION {f.clauses : f \in report.flags}
Wanted == {c.clause : c \in report.cites} \cup UNION {f.clauses : f \in report.flags}
Chip(c) == [clause |-> c, resolves |-> c \in Wanted \cap Rows!Ids(db.clauses)]
FieldChipsOfDocument(f) == {Chip(c.clause) : c \in report.cites}
FieldChips(f) == {Chip(c.clause) : c \in {x \in report.cites : x.field = f.id}}
composeDocumentReport ==
    [doc |-> report.doc, began |-> report.began,
     fields |-> {[field |-> f.id, ver |-> f.ver, chips |-> FieldChips(f)] : f \in report.fields},
     flagChips |-> UNION {{Chip(c) : c \in f.clauses} : f \in report.flags},
     ended |-> Index(report.doc)]
ReadClauses ==
    /\ report.pc = "clauses"
    /\ Step([report EXCEPT !.pc = "document", !.out = @ \cup {composeDocumentReport}])
EndCase ==
    /\ report.pc = "document" /\ report.todo = {}
    /\ Step([report EXCEPT !.pc = "done"])

Next ==
    \/ \E d \in Docs : ReIngest(d) \/ Delete(d) \/ BenchFields(d)
    \/ \E d \in Docs, ver \in Versions : Extract(d, ver)
    \/ BenchCitations \/ BenchWrite
    \/ ReadCase \/ ReadDocument \/ ReadFields \/ ReadCitations \/ ReadFlags \/ ReadClauses \/ EndCase
Spec == Init /\ [][Next]_reportVars

-----------------------------------------------------------------------------
Reports == IF report = NoReport THEN {} ELSE report.out
SameIndex(r) == r.began = r.ended

(* A chip names a clause that can be opened, unless the document was       *)
(* ingested again, or deleted, while its report was read; the one other    *)
(* chip that may not is of a flag left with the clauses of an index that   *)
(* is gone.                                                                *)
ChipsResolve ==
    \A r \in Reports : SameIndex(r) =>
        /\ \A f \in r.fields : \A c \in f.chips : c.resolves
        /\ \A c \in r.flagChips : ~c.resolves => c.clause \notin r.began

(* A chip under a value was cited for that value by the analysis that      *)
(* found it, and the values of one schema version are of one analysis:     *)
(* however the statements fall between them, a report never puts together  *)
(* what two runs have said.  Values of several versions may be in one.     *)
ChipsOfOneRun ==
    \A r \in Reports : \A f \in r.fields :
        /\ \A c \in f.chips : [doc |-> r.doc, field |-> f.field, clause |-> c.clause] \in cited
        /\ \A g \in r.fields : g.ver = f.ver => g = f
=============================================================================
