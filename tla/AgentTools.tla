------------------------------ MODULE AgentTools ------------------------------
(***************************************************************************)
(* One call of an agent tool (api/src/agent/tools/index.ts with retrieval/ *)
(* clause-service.ts and search-service.ts), statement by statement, while *)
(* documents are ingested again.  A clause row has a document, a place in  *)
(* it and the generation of its ingest, so its id is the row; what the     *)
(* model is shown and cites, the serialized id, is document and place.     *)
(***************************************************************************)
EXTENDS Integers, FiniteSets, Sequences, FiniteSetsExt, SequencesExt

CONSTANTS Home, Away,           \* documents of the case, and of other cases
          Tenants,              \* the tenant of each document
          Me,                   \* the tenant of the request
          Places,               \* clauses of a document: 1 .. Places
          TopK, MaxIngests

ToolAssumption == Places \in Nat

VARIABLES table, tool
toolVars == <<table, tool>>

Documents == Home \cup Away
Clause(d, p, g) == [doc |-> d, place |-> p, gen |-> g]
Serialized(c) == [doc |-> c.doc, place |-> c.place]
NoCall == [tool |-> "none", pc |-> "idle"]

(* Each document is of a generation; its one field cites its first clause, *)
(* its one flag the last.  A fresh ingest deletes both; an analysis makes  *)
(* them again.  A flag may be left with the ids of former clauses.         *)
Init ==
    /\ table = [d \in Documents |-> [gen |-> 1, field |-> 1, flag |-> 1]]
    /\ tool = NoCall

Clauses(d) == {Clause(d, p, table[d].gen) : p \in 1 .. Places}
Mine(d) == Tenants[d] = Me
TenantClauses == UNION {Clauses(d) : d \in {e \in Documents : Mine(e)}}

(* One call is followed to its end.                                        *)
ReIngest(d) ==
    /\ table[d].gen < MaxIngests /\ tool.pc # "done"
    /\ table' = [table EXCEPT ![d] = [gen |-> @.gen + 1, field |-> 0, flag |-> 0]]
    /\ UNCHANGED tool
Analyze(d) ==
    /\ table[d].field = 0 /\ tool.pc # "done"
    /\ \E g \in 1 .. table[d].gen :
          table' = [table EXCEPT ![d].field = table[d].gen, ![d].flag = g]
    /\ UNCHANGED tool

(* What the model may ask: any id it has seen or made up, any documents.   *)
Ids == {[kind |-> "serialized", doc |-> d, place |-> p, gen |-> 0] : d \in Documents, p \in {1, Places + 1}}
         \cup {[kind |-> "uuid", doc |-> d, place |-> 2, gen |-> 1] : d \in Documents}
Started(name, docs, id) ==
    /\ tool.pc = "idle"
    /\ tool' = [tool |-> name, pc |-> "start", docs |-> docs, id |-> id, owned |-> {}, rows |-> {},
                cites |-> {}, before |-> table, shown |-> {}, clauses |-> {}, said |-> {}]
    /\ UNCHANGED table
Call ==
    \/ \E docs \in {{}} \cup {{d} : d \in Documents} : Started("search_clauses", docs, NoCall)
    \/ \E name \in {"get_clause", "get_clause_context"}, id \in Ids : Started(name, {}, id)
    \/ \E name \in {"get_extraction", "run_benchmark"}, d \in Documents : Started(name, {d}, NoCall)
    \/ \E docs \in SUBSET Documents : Cardinality(docs) = 2 /\ Started("compare_documents", docs, NoCall)

At(names, pc) == tool.pc = pc /\ tool.tool \in names
To(t) == tool' = t /\ UNCHANGED table
(* A call ends with what it shows, the ids the model reads, and with the   *)
(* clauses that become citable; said are the documents it speaks of.       *)
Return(shown, clauses, said) ==
    To([tool EXCEPT !.pc = "done", !.shown = shown, !.clauses = clauses, !.said = said])
NotFound == Return({}, {}, {})

(* ownedDocumentIds: the documents asked for that are of this case.        *)
ownedOfTenant(docs) == {d \in docs : Mine(d)}
ownedDocumentIds(docs) == {d \in docs : Mine(d) /\ d \in Home}
ByDocument == {"get_extraction", "run_benchmark", "compare_documents"}
CheckDocuments ==
    /\ At(ByDocument, "start")
    /\ LET owned == ownedDocumentIds(tool.docs)
       IN  IF owned = {} THEN NotFound ELSE To([tool EXCEPT !.pc = "rows", !.owned = owned])

(* The rows of the documents: their fields with an id of their own, or     *)
(* their flags with the clause ids that were stored in them.               *)
ReadFields ==
    /\ At({"get_extraction", "compare_documents"}, "rows")
    /\ To([tool EXCEPT !.pc = "citations",
             !.rows = {[doc |-> d, run |-> table[d].field] : d \in {e \in tool.owned : table[e].field > 0}}])
ReadFlags ==
    /\ At({"run_benchmark"}, "rows")
    /\ To([tool EXCEPT !.pc = "clauses",
             !.cites = {Clause(d, Places, table[d].flag) : d \in {e \in tool.owned : table[e].flag > 0}}])

(* citationsFor: the citations of those fields, and then their clauses.    *)
ReadCitations ==
    /\ At({"get_extraction", "compare_documents"}, "citations")
    /\ To([tool EXCEPT !.pc = "clauses",
             !.cites = {Clause(r.doc, 1, r.run) : r \in {x \in tool.rows : table[x.doc].field = x.run}}])
(* getClausesByIds; ids that are gone are left out of what is shown, and a *)
(* document without the field is named all the same.                       *)
LoadedAll == {c \in tool.cites : Mine(c.doc)}
Loaded == tool.cites \cap TenantClauses
ComparedWithValue == {r.doc : r \in tool.rows}
Compared == IF tool.tool = "compare_documents" THEN tool.owned ELSE tool.docs
ReadClausesShowingAll ==
    /\ At(ByDocument, "clauses")
    /\ Return({Serialized(c) : c \in tool.cites}, Loaded, Compared)
ReadClauses ==
    /\ At(ByDocument, "clauses")
    /\ Return({Serialized(c) : c \in Loaded}, Loaded, Compared)

(* searchClauses: the hybrid query is scoped to the tenant and the case,   *)
(* chunks are reranked in any order and deduplicated to TopK clauses; then *)
(* the full rows of those are loaded by id.                                *)
Candidates == {c \in TenantClauses : c.doc \in Home /\ (tool.docs = {} \/ c.doc \in tool.docs)}
Search ==
    /\ At({"search_clauses"}, "start")
    /\ \E found \in SUBSET Candidates :
          /\ Cardinality(found) <= TopK
          /\ To([tool EXCEPT !.pc = "clauses", !.cites = found])
LoadFound ==
    /\ At({"search_clauses"}, "clauses")
    /\ Return({Serialized(c) : c \in tool.cites}, Loaded, {})

(* resolveClause: by serialized id or by uuid, then the check of the case. *)
getClause(id) == {c \in TenantClauses : c.doc = id.doc /\ c.place = id.place /\ c.gen = id.gen}
getClausesBySerializedId(id) == {c \in TenantClauses : Serialized(c) = [doc |-> id.doc, place |-> id.place]}
Resolved(id) == IF id.kind = "uuid" THEN getClause(id) ELSE getClausesBySerializedId(id)
ByClause == {"get_clause", "get_clause_context"}
Resolve ==
    /\ At(ByClause, "start")
    /\ LET found == Resolved(tool.id)
       IN  IF found = {} THEN NotFound ELSE To([tool EXCEPT !.pc = "owner", !.cites = found])
CheckOwner ==
    /\ At(ByClause, "owner")
    /\ IF ownedDocumentIds({c.doc : c \in tool.cites}) = {} THEN NotFound
       ELSE IF tool.tool = "get_clause" THEN Return({Serialized(c) : c \in tool.cites}, tool.cites, {})
       ELSE To([tool EXCEPT !.pc = "anchor"])
(* getClauseContext: the clause once more, by its uuid, and its neighbours *)
(* by their place: two statements.                                         *)
ReadAnchor ==
    /\ At(ByClause, "anchor")
    /\ IF tool.cites \cap TenantClauses = {} THEN NotFound ELSE To([tool EXCEPT !.pc = "neighbours"])
ContextOf(c) ==
    {c} \cup {n \in Clauses(c.doc) : n.place # c.place /\ n.place >= c.place - 1 /\ n.place <= c.place + 1}
ReadNeighbours ==
    /\ At(ByClause, "neighbours")
    /\ LET all == UNION {ContextOf(c) : c \in tool.cites}
       IN  Return({Serialized(c) : c \in all}, all, {})

Next ==
    \/ \E d \in Documents : ReIngest(d) \/ Analyze(d)
    \/ Call \/ CheckDocuments \/ ReadFields \/ ReadFlags \/ ReadCitations \/ ReadClauses
    \/ Search \/ LoadFound \/ Resolve \/ CheckOwner \/ ReadAnchor \/ ReadNeighbours
Spec == Init /\ [][Next]_toolVars

-----------------------------------------------------------------------------
Done == tool.pc = "done"
(* The documents that were ingested again while the call ran.              *)
Changed == {d \in Documents : table[d].gen # tool.before[d].gen}

(* Whatever ids the model asks for, what a tool shows and makes citable is *)
(* of the case of the request and of its tenant.                           *)
StaysInCase ==
    Done => \A c \in tool.clauses : c.doc \in Home /\ Mine(c.doc)

(* What the model is shown it may cite: each id in a result is of a clause *)
(* that was returned with it; only a search may name a clause that is gone *)
(* when it is loaded, because its document was ingested again.             *)
ShownIsCitable ==
    Done => \A s \in tool.shown :
        \/ s \in {Serialized(c) : c \in tool.clauses}
        \/ tool.tool = "search_clauses" /\ s.doc \in Changed

(* What becomes citable was in the index while the call ran, and a call    *)
(* takes its clauses of a document from one ingest of it, unless a context *)
(* is read while the index is replaced.                                    *)
OneGeneration ==
    Done => \A c, d \in tool.clauses :
        /\ tool.before[c.doc].gen <= c.gen
        /\ c.doc = d.doc /\ c.gen # d.gen => tool.tool = "get_clause_context" /\ c.doc \in Changed

(* A document that was compared is named in the result, with or without a  *)
(* value: a field that was lost on the way never reads as not asked for.   *)
ComparedIsNamed ==
    Done /\ tool.tool = "compare_documents" /\ tool.said # {} =>
        tool.said = {d \in tool.docs : d \in Home /\ Mine(d)}
=============================================================================
