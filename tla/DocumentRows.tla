----------------------------- MODULE DocumentRows -----------------------------
(***************************************************************************)
(* The rows of some documents in the tables of api/src/db/schema, and the  *)
(* transactions that replace them.  A document stands for its clauses:     *)
(* each ingest commit gives it one, with an id of its own, that every      *)
(* field of it cites.  Foreign keys cascade: chunks and citations go with  *)
(* their clause, citations with their field; flags.clause_ids has none.    *)
(***************************************************************************)
LOCAL INSTANCE Naturals

Tables == {"documents", "clauses", "chunks", "fields", "citations", "flags"}
NoRows == [t \in Tables |-> {}]

Of(rows, doc) == {r \in rows : r.doc = doc}
NotOf(rows, doc) == {r \in rows : r.doc # doc}
Ids(rows) == {r.id : r \in rows}

(* runIngestion: status = processing, and the transaction at its end.      *)
SetStatus(db, doc, status) ==
    [db EXCEPT !.documents = NotOf(@, doc) \cup {[doc |-> doc, status |-> status]}]

Reindexed(db, doc, id) ==
    LET clause == [id |-> id, doc |-> doc]
    IN  [SetStatus(db, doc, "ready") EXCEPT
           !.clauses = NotOf(@, doc) \cup {clause},
           !.chunks = NotOf(@, doc) \cup {[doc |-> doc, clause |-> id]},
           !.fields = NotOf(@, doc), !.citations = NotOf(@, doc), !.flags = NotOf(@, doc)]

(* extraction-service.ts persist(): the fields of one version of a schema  *)
(* are replaced, and their citations go with them.  Those that an analysis *)
(* under another version has left stay: a document may have been taken for *)
(* another type, or the schema have been released anew.                    *)
OfVersion(rows, doc, ver) == {r \in Of(rows, doc) : r.ver = ver}

ExtractedBeside(db, doc, ver, id) ==     \* nothing is replaced
    [db EXCEPT
       !.fields = @ \cup {[id |-> id, doc |-> doc, ver |-> ver]},
       !.citations = @ \cup {[doc |-> doc, field |-> id, clause |-> c] : c \in Ids(Of(db.clauses, doc))}]
Extracted(db, doc, ver, id) ==
    LET old == OfVersion(db.fields, doc, ver)
    IN  [db EXCEPT
           !.fields = (@ \ old) \cup {[id |-> id, doc |-> doc, ver |-> ver]},
           !.citations = {c \in @ : c.field \notin Ids(old)} \cup
               {[doc |-> doc, field |-> id, clause |-> c] : c \in Ids(Of(db.clauses, doc))}]

(* benchmarkDocument: a flag cites what the fields that trigger it cite.   *)
(* Which these are is up to the values, and of the versions of a field to  *)
(* the order in which its rows are read (BenchmarkRules).                  *)
Benchmarked(db, doc, trigger) ==
    [db EXCEPT !.flags = NotOf(@, doc) \cup
        IF trigger = {} THEN {}
        ELSE {[doc |-> doc,
               clauses |-> {c.clause : c \in {x \in Of(db.citations, doc) :
                                                 x.field \in Ids(trigger)}}]}]

(* No row points at a row that is not there.                               *)
Closed(db) ==
    /\ \A t \in Tables \ {"documents"} : \A r \in db[t] :
          r.doc \in {d.doc : d \in db.documents}
    /\ \A ch \in db.chunks : ch.clause \in Ids(db.clauses)
    /\ \A ct \in db.citations : ct.clause \in Ids(db.clauses) /\ ct.field \in Ids(db.fields)
    /\ \A f \in db.flags : f.clauses \subseteq Ids(db.clauses)
=============================================================================
