----------------------------- MODULE DemoAdoption -----------------------------
(***************************************************************************)
(* POST /demo/adopt (api/src/routes/demo.ts): the demo case is cloned into *)
(* the visitor's tenant, statement by statement (demo/clone-case.ts),      *)
(* while the seeding scripts may replace the template's rows, and clicks   *)
(* next to each other race for the one demo case a tenant may have.        *)
(*                                                                         *)
(* PostgreSQL at READ COMMITTED: a statement sees what is committed when   *)
(* it starts, and an insert that meets an uncommitted row with the same    *)
(* unique key waits for its transaction.  A click stands for the tenant it *)
(* mints and for the case it creates.                                      *)
(***************************************************************************)
EXTENDS Naturals, FiniteSets, DocumentRows

CONSTANTS
    Clicks, None,
    Visitor,        \* the session of a browser that has been here before
    Files,          \* of the manifest
    Versions,       \* of the extraction schemas: a later release may have another
    MaxSeeds,       \* bound: runs of the seeding scripts
    MayFail         \* whether transactions and the script may break off

ASSUME AdoptionAssumption ==
    /\ None \notin Clicks \cup {Visitor} /\ Visitor \notin Clicks
    /\ {"503", "500"} \cap Clicks = {}     \* a status is not a case
    /\ IsFiniteSet(Clicks) /\ IsFiniteSet(Files) /\ Files # {} /\ Versions # {}
    /\ MaxSeeds \in Nat /\ MayFail \in BOOLEAN

VARIABLES
    template,   \* the demo case's rows
    seed,       \* the script: what it does, to which document, and its runs
    cookie,     \* the browser's session
    click,      \* the handler of each click
    owner,      \* the tenant of each committed demo case
    adopted,    \* the rows of each case, while it is cloned and after
    touched,    \* history: clones during which the template was written
    deleted     \* history: demo cases that were there

vars == <<template, seed, cookie, click, owner, adopted, touched, deleted>>
seedVars == <<template, seed>>
adoptVars == <<click, owner, adopted, deleted>>

Tenants == Clicks \cup {Visitor}
NewClick == [pc |-> "none", tenant |-> None, minted |-> FALSE, map |-> {}, answer |-> None]

InTransaction == {"documents1", "documents2", "clauses1", "clauses2", "chunks", "fields1",
                  "fields2", "citations", "flags", "commit"}

TypeOK ==
    /\ DOMAIN template = Tables
    /\ \A d \in template.documents :
          d.doc \in Files /\ d.status \in {"uploaded", "processing", "ready"}
    /\ seed.pc \in {"idle", "next", "ingest", "persist", "benchmark"}
    /\ seed.todo \subseteq Files /\ seed.rest \subseteq Files /\ seed.runs \in 0..MaxSeeds
    /\ cookie \in Tenants \cup {None}
    /\ \A k \in Clicks :
          /\ click[k].pc \in {"none", "existing", "insert", "raced", "answered",
                              "over"} \cup InTransaction
          /\ click[k].tenant \in Tenants \cup {None}
          /\ click[k].answer \in Clicks \cup {None, "503", "500"}
          /\ DOMAIN adopted[k] = Tables
          /\ click[k].map # {} => click[k].pc \in InTransaction   \* on commit drop
    /\ owner \in [Clicks -> Tenants \cup {None}]
    /\ touched \subseteq Clicks /\ deleted \subseteq Clicks

Ingested == [NoRows EXCEPT
    !.documents = {[doc |-> f, status |-> "ready"] : f \in Files},
    !.clauses = {[id |-> <<f, 0>>, doc |-> f] : f \in Files},
    !.chunks = {[doc |-> f, clause |-> <<f, 0>>] : f \in Files}]
Analyzed(ver) == [Ingested EXCEPT
    !.fields = {[id |-> <<f, 0>>, doc |-> f, ver |-> ver] : f \in Files},
    !.citations = {[doc |-> f, field |-> <<f, 0>>, clause |-> <<f, 0>>] : f \in Files},
    !.flags = {[doc |-> f, clauses |-> {<<f, 0>>}] : f \in Files}]

Init ==         \* never seeded, seeded, or with extract-demo run as well
    /\ template \in {NoRows, Ingested} \cup {Analyzed(ver) : ver \in Versions}
    /\ seed = [pc |-> "idle", doc |-> None, todo |-> {}, rest |-> {}, runs |-> 0]
    /\ cookie \in {None, Visitor}
    /\ click = [k \in Clicks |-> NewClick]
    /\ owner = [k \in Clicks |-> None]
    /\ adopted = [k \in Clicks |-> NoRows]
    /\ touched = {} /\ deleted = {}
-----------------------------------------------------------------------------
(***************************************************************************)
(* The scripts: seed-demo ingests the manifest, extract-demo analyzes all  *)
(* of it when that is done.  One at a time, one document after the other.  *)
(***************************************************************************)
(* A commit to the template, by which no open clone is left untouched.     *)
Commit(db) ==
    /\ template' = db
    /\ touched' = touched \cup {k \in Clicks : click[k].pc \in InTransaction}
    /\ UNCHANGED <<cookie, adoptVars>>

StartSeed(extract) ==
    /\ seed.pc = "idle" /\ seed.runs < MaxSeeds
    /\ seed' = [pc |-> "next", doc |-> None, todo |-> Files,
                rest |-> IF extract THEN Files ELSE {}, runs |-> seed.runs + 1]
    /\ UNCHANGED <<template, cookie, adoptVars, touched>>

IsReady(f) == [doc |-> f, status |-> "ready"] \in template.documents

(* --skip-ready leaves a document alone that is there; a new one is        *)
(* inserted before it is ingested.                                         *)
SkipReady(f) ==
    /\ seed.pc = "next" /\ f \in seed.todo /\ IsReady(f)
    /\ seed' = [seed EXCEPT !.todo = @ \ {f}]
    /\ UNCHANGED <<template, cookie, adoptVars, touched>>

EnsureDocument(f) ==
    /\ seed.pc = "next" /\ f \in seed.todo
    /\ seed' = [seed EXCEPT !.pc = "ingest", !.doc = f, !.todo = @ \ {f}]
    /\ IF Of(template.documents, f) = {}
       THEN Commit(SetStatus(template, f, "uploaded"))
       ELSE UNCHANGED <<template, cookie, adoptVars, touched>>

StartIngest ==
    /\ seed.pc = "ingest"
    /\ seed' = [seed EXCEPT !.pc = "persist"]
    /\ Commit(SetStatus(template, seed.doc, "processing"))

PersistIngest ==
    /\ seed.pc = "persist"
    /\ seed' = [seed EXCEPT !.pc = "next"]
    /\ Commit(Reindexed(template, seed.doc, <<seed.doc, seed.runs>>))

(* runExtraction.  The types are those of the manifest and all have a      *)
(* schema.                                                                 *)
Extract(f) ==
    /\ seed.pc = "next" /\ seed.todo = {} /\ f \in seed.rest
    /\ seed' = [seed EXCEPT !.pc = "benchmark", !.doc = f, !.rest = @ \ {f}]
    /\ \E ver \in Versions : Commit(Extracted(template, f, ver, <<f, seed.runs>>))

Benchmark ==
    /\ seed.pc = "benchmark"
    /\ seed' = [seed EXCEPT !.pc = "next"]
    /\ \E trigger \in SUBSET Of(template.fields, seed.doc) :
          Commit(Benchmarked(template, seed.doc, trigger))

(* It ends with the manifest, or breaks off where it is.                   *)
EndSeed ==
    /\ seed.pc # "idle"
    /\ (seed.pc = "next" /\ seed.todo = {} /\ seed.rest = {}) \/ MayFail
    /\ seed' = [seed EXCEPT !.pc = "idle", !.doc = None, !.todo = {}, !.rest = {}]
    /\ UNCHANGED <<template, cookie, adoptVars, touched>>
-----------------------------------------------------------------------------
(***************************************************************************)
(* The handler.                                                            *)
(***************************************************************************)
HandlerOnly == UNCHANGED <<seedVars, cookie, deleted>>
Go(k, pc) == click' = [click EXCEPT ![k].pc = pc]

(* sessionMiddleware, ensureTenant                                         *)
Click(k) ==
    /\ click[k].pc = "none"
    /\ click' = [click EXCEPT ![k] = [NewClick EXCEPT
                    !.pc = "existing", !.minted = cookie = None,
                    !.tenant = IF cookie = None THEN k ELSE cookie]]
    /\ HandlerOnly /\ UNCHANGED <<owner, adopted, touched>>

adoptedCase(t) == {c \in Clicks : owner[c] = t}

Answer(k, answer) == click' = [click EXCEPT ![k].pc = "answered", ![k].answer = answer,
                                            ![k].map = {}]

(* findDemoTemplate: the script creates the case before the documents.     *)
HasTemplate == seed.runs > 0 \/ template # NoRows

FindExisting(k) ==
    LET cs == adoptedCase(click[k].tenant) IN
    /\ click[k].pc = "existing"
    /\ \/ \E c \in cs : Answer(k, c)
       \/ cs = {} /\ ~HasTemplate /\ Answer(k, "503")
       \/ cs = {} /\ HasTemplate /\ Go(k, "insert")
    /\ HandlerOnly /\ UNCHANGED <<owner, adopted, touched>>

(* The unique index cases_one_demo_per_tenant.                             *)
Rivals(k) == {c \in Clicks \ {k} : /\ click[c].pc \in InTransaction
                                   /\ click[c].tenant = click[k].tenant}

InsertCaseUnchecked(k) ==       \* without the index
    /\ click[k].pc = "insert"
    /\ Go(k, "documents1")
    /\ HandlerOnly /\ UNCHANGED <<owner, adopted, touched>>

InsertCase(k) ==
    /\ click[k].pc = "insert" /\ Rivals(k) = {}
    /\ Go(k, IF adoptedCase(click[k].tenant) = {} THEN "documents1" ELSE "raced")
    /\ HandlerOnly /\ UNCHANGED <<owner, adopted, touched>>

AnswerRacedUnread(k) ==         \* does not look for the SQLSTATE in the causes of the error
    /\ click[k].pc = "raced"
    /\ Answer(k, "500")
    /\ HandlerOnly /\ UNCHANGED <<owner, adopted, touched>>

(* The case of the one that won, if it is still there; else `throw err`.   *)
AnswerRaced(k) ==
    LET cs == adoptedCase(click[k].tenant) IN
    /\ click[k].pc = "raced"
    /\ \/ \E c \in cs : Answer(k, c)
       \/ cs = {} /\ Answer(k, "500")
    /\ HandlerOnly /\ UNCHANGED <<owner, adopted, touched>>
-----------------------------------------------------------------------------
(***************************************************************************)
(* cloneCaseIntoTenant.  _clone_map is kept as the old ids; the new id is  *)
(* the old one with the case it was minted for.                            *)
(***************************************************************************)
New(k, old) == <<k, old>>
Mapped(k, kind) == {m[2] : m \in {x \in click[k].map : x[1] = kind}}

MapRows(k, pc, kind, olds, next) ==
    /\ click[k].pc = pc
    /\ click' = [click EXCEPT ![k].pc = next, ![k].map = @ \cup ({kind} \X olds)]
    /\ HandlerOnly /\ UNCHANGED <<owner, adopted, touched>>

InsertRows(k, pc, table, rows, next) ==
    /\ click[k].pc = pc
    /\ Go(k, next)
    /\ adopted' = [adopted EXCEPT ![k][table] = rows]
    /\ HandlerOnly /\ UNCHANGED <<owner, touched>>

MapDocuments(k) ==
    MapRows(k, "documents1", "doc", {d.doc : d \in template.documents}, "documents2")

InsertDocuments(k) ==
    InsertRows(k, "documents2", "documents",
        {[doc |-> New(k, d.doc), status |-> d.status] :
            d \in {x \in template.documents : x.doc \in Mapped(k, "doc")}},
        "clauses1")

MapClauses(k) ==
    MapRows(k, "clauses1", "clause",
            Ids({c \in template.clauses : c.doc \in Mapped(k, "doc")}), "clauses2")

InsertClauses(k) ==
    InsertRows(k, "clauses2", "clauses",
        {[id |-> New(k, c.id), doc |-> New(k, c.doc)] :
            c \in {x \in template.clauses : x.id \in Mapped(k, "clause")}},
        "chunks")

InsertChunks(k) ==
    InsertRows(k, "chunks", "chunks",
        {[doc |-> New(k, c.doc), clause |-> New(k, c.clause)] :
            c \in {x \in template.chunks : x.clause \in Mapped(k, "clause")}},
        "fields1")

MapFields(k) ==
    MapRows(k, "fields1", "field",
            Ids({f \in template.fields : f.doc \in Mapped(k, "doc")}), "fields2")

InsertFields(k) ==
    InsertRows(k, "fields2", "fields",
        {[id |-> New(k, f.id), doc |-> New(k, f.doc), ver |-> f.ver] :
            f \in {x \in template.fields : x.id \in Mapped(k, "field")}},
        "citations")

InsertCitationsOuter(k) ==      \* a left join: the old clause id where there is no new one
    InsertRows(k, "citations", "citations",
        {[doc |-> New(k, c.doc), field |-> New(k, c.field),
          clause |-> IF c.clause \in Mapped(k, "clause") THEN New(k, c.clause) ELSE c.clause] :
            c \in {x \in template.citations : x.field \in Mapped(k, "field")}},
        "flags")

InsertCitations(k) ==
    InsertRows(k, "citations", "citations",
        {[doc |-> New(k, c.doc), field |-> New(k, c.field), clause |-> New(k, c.clause)] :
            c \in {x \in template.citations : /\ x.field \in Mapped(k, "field")
                                              /\ x.clause \in Mapped(k, "clause")}},
        "flags")

InsertFlagsAsTheyAre(k) ==      \* clause_ids copied like any other column
    InsertRows(k, "flags", "flags",
        {[doc |-> New(k, f.doc), clauses |-> f.clauses] :
            f \in {x \in template.flags : x.doc \in Mapped(k, "doc")}},
        "commit")

InsertFlags(k) ==
    InsertRows(k, "flags", "flags",
        {[doc |-> New(k, f.doc),
          clauses |-> {New(k, c) : c \in f.clauses \cap Mapped(k, "clause")}] :
            f \in {x \in template.flags : x.doc \in Mapped(k, "doc")}},
        "commit")

CommitCloneMap(k) ==            \* and leaves the map to the pooled connection
    /\ click[k].pc = "commit"
    /\ owner' = [owner EXCEPT ![k] = click[k].tenant]
    /\ click' = [click EXCEPT ![k].pc = "answered", ![k].answer = k]
    /\ HandlerOnly /\ UNCHANGED <<adopted, touched>>

CommitClone(k) ==
    /\ click[k].pc = "commit"
    /\ owner' = [owner EXCEPT ![k] = click[k].tenant]
    /\ Answer(k, k)
    /\ HandlerOnly /\ UNCHANGED <<adopted, touched>>

CloneFailsLeaving(k) ==         \* statements of their own
    /\ MayFail /\ click[k].pc \in InTransaction
    /\ owner' = [owner EXCEPT ![k] = click[k].tenant]
    /\ Answer(k, "500")
    /\ HandlerOnly /\ UNCHANGED <<adopted, touched>>

(* Nothing but a unique violation is caught: the transaction rolls back.   *)
CloneFails(k) ==
    /\ MayFail /\ click[k].pc \in InTransaction
    /\ Answer(k, "500")
    /\ adopted' = [adopted EXCEPT ![k] = NoRows]
    /\ touched' = touched \ {k}
    /\ HandlerOnly /\ UNCHANGED owner

(* Set-Cookie comes with the answer of the click that minted.              *)
AnswerArrives(k) ==
    /\ click[k].pc = "answered"
    /\ Go(k, "over")
    /\ cookie' = IF click[k].minted THEN click[k].tenant ELSE cookie
    /\ UNCHANGED <<seedVars, owner, adopted, touched, deleted>>

(* DELETE /cases/{id}, or the retention purge of the session.              *)
DeleteCase(k) ==
    /\ owner[k] # None
    /\ owner' = [owner EXCEPT ![k] = None]
    /\ adopted' = [adopted EXCEPT ![k] = NoRows]
    /\ deleted' = deleted \cup {k}
    /\ UNCHANGED <<seedVars, cookie, click, touched>>
-----------------------------------------------------------------------------
SeedStep ==
    \/ \E extract \in BOOLEAN : StartSeed(extract)
    \/ \E f \in Files : SkipReady(f) \/ EnsureDocument(f)
    \/ StartIngest \/ PersistIngest
    \/ (\E f \in Files : Extract(f)) \/ Benchmark \/ EndSeed

Clone(k) ==
    \/ MapDocuments(k) \/ InsertDocuments(k) \/ MapClauses(k) \/ InsertClauses(k)
    \/ InsertChunks(k) \/ MapFields(k) \/ InsertFields(k) \/ InsertCitations(k)
    \/ InsertFlags(k) \/ CommitClone(k)
Handler(k) ==
    \/ FindExisting(k) \/ InsertCase(k) \/ AnswerRaced(k)
    \/ Clone(k) \/ AnswerArrives(k)

Next ==
    \/ SeedStep
    \/ \E k \in Clicks : Click(k) \/ Handler(k) \/ CloneFails(k) \/ DeleteCase(k)

Spec == Init /\ [][Next]_vars
-----------------------------------------------------------------------------
(***************************************************************************)
(* Properties.                                                             *)
(***************************************************************************)
(* cases.ts: "one demo clone per session structural instead of hopeful",   *)
(* also while the clones of two clicks are under way, and after one of     *)
(* them failed.                                                            *)
OneDemoCase ==
    \A t \in Tenants : Cardinality(adoptedCase(t)) <= 1

(* What is answered is a case of the session that asked, also by the one   *)
(* that lost the race, or one that it has deleted since; and there is no   *)
(* case, the one slot of its session, that nobody was told of.             *)
Won(k, c) == click[c].tenant = click[k].tenant /\ (owner[c] = click[k].tenant \/ c \in deleted)
AnsweredIsOwned ==
    \A k \in Clicks :
       /\ click[k].answer \in Clicks => Won(k, click[k].answer)
       /\ owner[k] # None => click[k].answer = k

(* "A double-clicked button": the click that loses is answered with the    *)
(* case of the one that won.  It fails only if that is gone by then.       *)
LoserIsServed ==
    [][\A k \in Clicks : click[k].pc = "raced" /\ click'[k].pc # "raced" =>
          \/ click'[k].answer \in adoptedCase(click[k].tenant)
          \/ \E c \in deleted : click[c].tenant = click[k].tenant]_vars

(* clone-case.ts: "citations resolve inside the clone exactly as they did  *)
(* in the template".  The rows of a clone point at each other and nowhere  *)
(* else, in whatever states of the template its statements were run.       *)
CloneIsClosed ==
    \A k \in Clicks : owner[k] # None => Closed(adopted[k])

(* Nothing of a clone is lost, the citations and what flags cite included, *)
(* unless a script wrote to the template meanwhile.                        *)
Image(k) ==
    [documents |-> {[doc |-> New(k, d.doc), status |-> d.status] : d \in template.documents},
     clauses   |-> {[id |-> New(k, c.id), doc |-> New(k, c.doc)] : c \in template.clauses},
     chunks    |-> {[doc |-> New(k, c.doc), clause |-> New(k, c.clause)] : c \in template.chunks},
     fields    |-> {[id |-> New(k, f.id), doc |-> New(k, f.doc), ver |-> f.ver] :
                      f \in template.fields},
     citations |-> {[doc |-> New(k, c.doc), field |-> New(k, c.field),
                     clause |-> New(k, c.clause)] : c \in template.citations},
     flags     |-> {[doc |-> New(k, f.doc), clauses |-> {New(k, c) : c \in f.clauses}] :
                      f \in template.flags}]

CloneIsFaithful ==
    [][\A k \in Clicks : CommitClone(k) /\ k \notin touched => adopted[k] = Image(k)]_vars

(* Adoption, as a whole: one case, of the one who asked, told to each that *)
(* asks, that stands for itself and lacks nothing.                         *)
AdoptionIsSound ==
    /\ [](TypeOK /\ OneDemoCase /\ AnsweredIsOwned /\ CloneIsClosed)
    /\ LoserIsServed
    /\ CloneIsFaithful
=============================================================================
