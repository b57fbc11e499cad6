-------------------------- MODULE DemoAdoptionProofs --------------------------
(***************************************************************************)
(* The adoption of the demo case, for every number of clicks, files and    *)
(* seeding runs: one case for each session, the session that asked for it, *)
(* a clone that points nowhere but into itself, and one that has lost      *)
(* nothing unless a script wrote to the template meanwhile.                *)
(***************************************************************************)
EXTENDS DemoAdoption, FiniteSetTheorems, TLAPS

OldIds == Files \X Nat
Pcs == {"none", "existing", "insert", "raced", "answered", "over"} \cup InTransaction
ClickType == [pc: Pcs, tenant: Tenants \cup {None}, minted: BOOLEAN,
              map: SUBSET ({"doc", "clause", "field"} \X (Files \cup OldIds)),
              answer: Clicks \cup {None, "503", "500"}]
SeedPcs == {"idle", "next", "ingest", "persist", "benchmark"}
SeedType == [pc: SeedPcs, doc: Files \cup {None}, todo: SUBSET Files, rest: SUBSET Files,
             runs: 0..MaxSeeds]
IsRows(db) == db = [t \in Tables |-> db[t]]

(* What the template's tables hold; an id belongs to its document.         *)
OwnedRow == {r \in [id: OldIds, doc: Files] : r.id[1] = r.doc}
OwnedField == {r \in [id: OldIds, doc: Files, ver: Versions] : r.id[1] = r.doc}
TemplateTyped ==
    /\ IsRows(template)
    /\ template.documents \subseteq
          [doc: Files, status: {"uploaded", "processing", "ready"}]
    /\ template.clauses \subseteq OwnedRow
    /\ template.chunks \subseteq [doc: Files, clause: OldIds]
    /\ template.fields \subseteq OwnedField
    /\ template.citations \subseteq [doc: Files, field: OldIds, clause: OldIds]
    /\ template.flags \subseteq [doc: Files, clauses: SUBSET OldIds]

SeedOK ==
    /\ seed \in SeedType
    /\ seed.pc \in {"ingest", "persist", "benchmark"} =>
          seed.doc \in Files /\ seed.doc \notin seed.todo

HandlersTyped ==
    /\ cookie \in Tenants \cup {None}
    /\ click \in [Clicks -> ClickType]
    /\ owner \in [Clicks -> Tenants \cup {None}]
    /\ adopted = [k \in Clicks |-> adopted[k]]
    /\ \A k \in Clicks :
          /\ IsRows(adopted[k])
          /\ click[k].map # {} => click[k].pc \in InTransaction
    /\ touched \subseteq Clicks /\ deleted \subseteq Clicks

TypeInv == TemplateTyped /\ SeedOK /\ HandlersTyped

LEMMA TypeImplies == TypeInv => TypeOK
BY DEF TypeInv, TypeOK, TemplateTyped, SeedOK, HandlersTyped, ClickType, SeedType, Pcs,
       SeedPcs, IsRows
-----------------------------------------------------------------------------
(***************************************************************************)
(* Types.                                                                  *)
(***************************************************************************)
LEMMA TypeInit == Init => TypeInv
<1> SUFFICES ASSUME Init PROVE TypeInv
    OBVIOUS
<1>1. TemplateTyped
  <2>1. CASE template = NoRows
    BY <2>1 DEF TemplateTyped, NoRows, Tables, IsRows
  <2>2. ASSUME NEW f \in Files
        PROVE  /\ [id |-> <<f, 0>>, doc |-> f] \in OwnedRow
               /\ \A v \in Versions : [id |-> <<f, 0>>, doc |-> f, ver |-> v] \in OwnedField
               /\ [doc |-> f, clause |-> <<f, 0>>] \in [doc: Files, clause: OldIds]
               /\ [doc |-> f, field |-> <<f, 0>>, clause |-> <<f, 0>>] \in
                     [doc: Files, field: OldIds, clause: OldIds]
               /\ [doc |-> f, clauses |-> {<<f, 0>>}] \in [doc: Files, clauses: SUBSET OldIds]
    <3>1. <<f, 0>> \in OldIds
      BY DEF OldIds
    <3>2. {<<f, 0>>} \in SUBSET OldIds
      BY <3>1
    <3> DEFINE id == <<f, 0>>
    <3>3. id[1] = f
      OBVIOUS
    <3> HIDE DEF id
    <3>4. id \in OldIds
      BY <3>1 DEF id
    <3>5. /\ [id |-> id, doc |-> f] \in OwnedRow
          /\ \A v \in Versions : [id |-> id, doc |-> f, ver |-> v] \in OwnedField
          /\ [doc |-> f, clause |-> id] \in [doc: Files, clause: OldIds]
          /\ [doc |-> f, field |-> id, clause |-> id] \in
                     [doc: Files, field: OldIds, clause: OldIds]
          /\ [doc |-> f, clauses |-> {id}] \in [doc: Files, clauses: SUBSET OldIds]
      BY <3>3, <3>4 DEF OwnedRow, OwnedField
    <3> QED
      BY <3>5 DEF id
  <2>3. /\ Ingested.documents = {[doc |-> f, status |-> "ready"] : f \in Files}
        /\ Ingested.clauses = {[id |-> <<f, 0>>, doc |-> f] : f \in Files}
        /\ Ingested.chunks = {[doc |-> f, clause |-> <<f, 0>>] : f \in Files}
        /\ Ingested.fields = {} /\ Ingested.citations = {} /\ Ingested.flags = {}
        /\ IsRows(Ingested)
    BY DEF Ingested, NoRows, Tables, IsRows
  <2>4. CASE template = Ingested
    <3>1. Ingested.documents \subseteq
            [doc: Files, status: {"uploaded", "processing", "ready"}]
      BY <2>2, <2>3
    <3>2. Ingested.clauses \subseteq OwnedRow
      BY <2>2, <2>3
    <3>3. Ingested.chunks \subseteq [doc: Files, clause: OldIds]
      BY <2>2, <2>3
    <3> QED
      BY <3>1, <3>2, <3>3, <2>3, <2>4 DEF TemplateTyped
  <2>5. ASSUME NEW v \in Versions, template = Analyzed(v) PROVE TemplateTyped
    <3>1. /\ template.documents = Ingested.documents /\ template.clauses = Ingested.clauses
          /\ template.chunks = Ingested.chunks
          /\ template.fields = {[id |-> <<f, 0>>, doc |-> f, ver |-> v] : f \in Files}
          /\ template.citations =
                {[doc |-> f, field |-> <<f, 0>>, clause |-> <<f, 0>>] : f \in Files}
          /\ template.flags = {[doc |-> f, clauses |-> {<<f, 0>>}] : f \in Files}
          /\ IsRows(template)
      BY <2>3, <2>5 DEF Analyzed, Tables, IsRows
    <3>2. template.documents \subseteq [doc: Files, status: {"uploaded", "processing", "ready"}]
      BY <2>2, <2>3, <3>1
    <3>3. template.clauses \subseteq OwnedRow
      BY <2>2, <2>3, <3>1
    <3>4. template.chunks \subseteq [doc: Files, clause: OldIds]
      <4>1. template.chunks = {[doc |-> f, clause |-> <<f, 0>>] : f \in Files}
        BY <2>3, <3>1
      <4> QED
        BY <4>1, <2>2
    <3>5. template.citations \subseteq [doc: Files, field: OldIds, clause: OldIds]
      BY <2>2, <3>1
    <3>6. template.flags \subseteq [doc: Files, clauses: SUBSET OldIds]
      BY <2>2, <3>1
    <3>7. ASSUME NEW r \in template.fields PROVE r \in OwnedField
      <4>1. PICK f \in Files : r = [id |-> <<f, 0>>, doc |-> f, ver |-> v]
        BY <3>1
      <4>2. \A w \in Versions : [id |-> <<f, 0>>, doc |-> f, ver |-> w] \in OwnedField
        BY <2>2
      <4> QED
        BY <4>1, <4>2
    <3> QED
      BY <3>1, <3>2, <3>3, <3>4, <3>5, <3>6, <3>7 DEF TemplateTyped
  <2> QED
    BY <2>1, <2>4, <2>5 DEF Init
<1>2. SeedOK
    BY AdoptionAssumption DEF Init, SeedOK, SeedType, SeedPcs, AdoptionAssumption
<1>3. HandlersTyped
    BY DEF Init, HandlersTyped, ClickType, Pcs, NewClick, Tenants, IsRows, NoRows
<1> QED
    BY <1>1, <1>2, <1>3 DEF TypeInv
-----------------------------------------------------------------------------
(***************************************************************************)
(* The template, and the scripts that write it.                            *)
(***************************************************************************)
Docs == {d.doc : d \in template.documents}

(* Each row points at a row of its own document.                           *)
TemplateLinked ==
    /\ \A r \in template.clauses \cup template.fields : r.doc \in Docs
    /\ \A r \in template.chunks :
          r.doc \in Docs /\ r.clause \in Ids(template.clauses) /\ r.clause[1] = r.doc
    /\ \A r \in template.citations :
          /\ r.doc \in Docs /\ r.clause[1] = r.doc /\ r.field[1] = r.doc
          /\ r.clause \in Ids(template.clauses) /\ r.field \in Ids(template.fields)
    /\ \A r \in template.flags :
          /\ r.doc \in Docs
          /\ \A c \in r.clauses : c \in Ids(template.clauses) /\ c[1] = r.doc
    /\ seed.pc # "idle" => Files \ seed.todo \subseteq Docs

(* A run of a script gives each document its ids once: those of earlier    *)
(* runs, and of documents that are through, will not be given again.       *)
ClausesToCome == seed.todo \cup (IF seed.pc \in {"ingest", "persist"} THEN {seed.doc} ELSE {})
FieldsToCome == seed.rest
Past(id, tocome) ==
    id \in OldIds /\ id[2] <= seed.runs /\ (id[1] \in tocome => id[2] < seed.runs)
IdsPast ==
    /\ \A id \in Ids(template.clauses) : Past(id, ClausesToCome)
    /\ \A id \in Ids(template.fields) : Past(id, FieldsToCome)

TemplateInv == TemplateLinked /\ IdsPast

(* What a clone under way may rely on: documents stay, and an id that has  *)
(* gone does not come back.                                                *)
Kept ==
    /\ Docs \subseteq Docs'
    /\ \A id \in OldIds :
          /\ Past(id, ClausesToCome) =>
                /\ Past(id, ClausesToCome)'
                /\ id \in Ids(template'.clauses) => id \in Ids(template.clauses)
          /\ Past(id, FieldsToCome) =>
                /\ Past(id, FieldsToCome)'
                /\ id \in Ids(template'.fields) => id \in Ids(template.fields)

LEMMA SetStatusRows ==
    ASSUME NEW db, IsRows(db), NEW f, NEW s
    PROVE  /\ IsRows(SetStatus(db, f, s))
           /\ SetStatus(db, f, s).documents =
                 NotOf(db.documents, f) \cup {[doc |-> f, status |-> s]}
           /\ \A t \in Tables \ {"documents"} : SetStatus(db, f, s)[t] = db[t]
BY DEF SetStatus, IsRows, Tables

LEMMA ReindexedRows ==
    ASSUME NEW db, IsRows(db), NEW f, NEW id
    PROVE  LET new == Reindexed(db, f, id) IN
           /\ IsRows(new)
           /\ new.documents = NotOf(db.documents, f) \cup {[doc |-> f, status |-> "ready"]}
           /\ new.clauses = NotOf(db.clauses, f) \cup {[id |-> id, doc |-> f]}
           /\ new.chunks = NotOf(db.chunks, f) \cup {[doc |-> f, clause |-> id]}
           /\ new.fields = NotOf(db.fields, f)
           /\ new.citations = NotOf(db.citations, f)
           /\ new.flags = NotOf(db.flags, f)
<1> DEFINE mid == SetStatus(db, f, "ready")
<1>1. /\ IsRows(mid)
      /\ mid.documents = NotOf(db.documents, f) \cup {[doc |-> f, status |-> "ready"]}
      /\ \A t \in Tables \ {"documents"} : mid[t] = db[t]
    BY SetStatusRows
<1> HIDE DEF mid
<1>2. Reindexed(db, f, id) =
        [mid EXCEPT !.clauses = NotOf(@, f) \cup {[id |-> id, doc |-> f]},
                    !.chunks = NotOf(@, f) \cup {[doc |-> f, clause |-> id]},
                    !.fields = NotOf(@, f), !.citations = NotOf(@, f), !.flags = NotOf(@, f)]
    BY DEF Reindexed, mid
<1> QED
    BY <1>1, <1>2 DEF IsRows, Tables

LEMMA ExtractedRows ==
    ASSUME NEW db, IsRows(db), NEW f, NEW ver, NEW id
    PROVE  LET new == Extracted(db, f, ver, id)
               old == OfVersion(db.fields, f, ver) IN
           /\ IsRows(new)
           /\ new.fields = (db.fields \ old) \cup {[id |-> id, doc |-> f, ver |-> ver]}
           /\ new.citations = {c \in db.citations : c.field \notin Ids(old)} \cup
                 {[doc |-> f, field |-> id, clause |-> c] : c \in Ids(Of(db.clauses, f))}
           /\ \A t \in {"documents", "clauses", "chunks", "flags"} : new[t] = db[t]
BY DEF Extracted, IsRows, Tables

LEMMA TemplateInit == Init => TemplateInv
<1> SUFFICES ASSUME Init PROVE TemplateInv
    OBVIOUS
<1>1. CASE template = NoRows
    BY <1>1 DEF Init, TemplateInv, TemplateLinked, IdsPast, Docs, Ids, NoRows, Tables
<1>2. ASSUME NEW v \in Versions, template \in {Ingested, Analyzed(v)} PROVE TemplateInv
  <2>1. /\ template.documents = {[doc |-> f, status |-> "ready"] : f \in Files}
        /\ template.clauses = {[id |-> <<f, 0>>, doc |-> f] : f \in Files}
        /\ template.chunks = {[doc |-> f, clause |-> <<f, 0>>] : f \in Files}
        /\ template.fields \subseteq {[id |-> <<f, 0>>, doc |-> f, ver |-> v] : f \in Files}
        /\ template.citations = {} \/
              /\ template.fields = {[id |-> <<f, 0>>, doc |-> f, ver |-> v] : f \in Files}
              /\ template.citations =
                    {[doc |-> f, field |-> <<f, 0>>, clause |-> <<f, 0>>] : f \in Files}
        /\ template.flags \subseteq {[doc |-> f, clauses |-> {<<f, 0>>}] : f \in Files}
    BY <1>2 DEF Ingested, Analyzed, NoRows, Tables
  <2>2. Docs = Files /\ Ids(template.clauses) = {<<f, 0>> : f \in Files}
    <3>1. Docs = Files
      <4>1. \A d \in template.documents : d.doc \in Files
        BY <2>1
      <4>2. ASSUME NEW f \in Files PROVE \E d \in template.documents : d.doc = f
        <5>1. [doc |-> f, status |-> "ready"] \in template.documents
          BY <2>1
        <5> QED
          BY <5>1
      <4> QED
        BY <4>1, <4>2 DEF Docs
    <3>2. Ids(template.clauses) = {<<f, 0>> : f \in Files}
      <4>1. \A c \in template.clauses : c.id \in {<<f, 0>> : f \in Files}
        BY <2>1
      <4>2. ASSUME NEW f \in Files PROVE \E c \in template.clauses : c.id = <<f, 0>>
        <5>1. [id |-> <<f, 0>>, doc |-> f] \in template.clauses
          BY <2>1
        <5> QED
          BY <5>1
      <4> QED
        BY <4>1, <4>2 DEF Ids
    <3> QED
      BY <3>1, <3>2
  <2>3. TemplateLinked
    <3>1. \A r \in template.clauses \cup template.fields : r.doc \in Docs
      BY <2>1, <2>2
    <3>2. \A r \in template.chunks :
             r.doc \in Docs /\ r.clause \in Ids(template.clauses) /\ r.clause[1] = r.doc
      BY <2>1, <2>2
    <3>3. \A r \in template.citations :
             /\ r.doc \in Docs /\ r.clause[1] = r.doc /\ r.field[1] = r.doc
             /\ r.clause \in Ids(template.clauses) /\ r.field \in Ids(template.fields)
      <4>1. ASSUME NEW f \in Files, template.citations # {} PROVE <<f, 0>> \in Ids(template.fields)
        <5>1. [id |-> <<f, 0>>, doc |-> f, ver |-> v] \in template.fields
          BY <2>1, <4>1
        <5>2. [id |-> <<f, 0>>, doc |-> f, ver |-> v].id = <<f, 0>>
          OBVIOUS
        <5> QED
          BY <5>1, <5>2 DEF Ids
      <4> QED
        BY <2>1, <2>2, <4>1
    <3>4. \A r \in template.flags :
             /\ r.doc \in Docs
             /\ \A c \in r.clauses : c \in Ids(template.clauses) /\ c[1] = r.doc
      BY <2>1, <2>2
    <3> QED
      BY <3>1, <3>2, <3>3, <3>4 DEF Init, TemplateLinked
  <2>4. \A id \in Ids(template.clauses) \cup Ids(template.fields) :
           id \in OldIds /\ id[2] = 0
    BY <2>1 DEF Ids, OldIds
  <2>5. seed.runs = 0 /\ ClausesToCome = {} /\ FieldsToCome = {}
    BY DEF Init, ClausesToCome, FieldsToCome
  <2> QED
    BY <2>3, <2>4, <2>5 DEF TemplateInv, IdsPast, Past
<1> QED
    BY <1>1, <1>2, AdoptionAssumption DEF Init, AdoptionAssumption

LEMMA SameTemplate ==
    ASSUME TypeInv, TemplateInv, SeedOK', UNCHANGED template, seed'.runs = seed.runs,
           ClausesToCome' \subseteq ClausesToCome, FieldsToCome' \subseteq FieldsToCome,
           seed'.pc # "idle" => Files \ seed'.todo \subseteq Docs
    PROVE  TemplateTyped' /\ TemplateInv' /\ Kept
BY DEF TypeInv, TemplateTyped, IsRows, TemplateInv, TemplateLinked, IdsPast, Kept, Past, Docs,
       Ids

(* The steps that leave the template alone.                                *)
LEMMA SeedOnly ==
    ASSUME TypeInv, TemplateInv,
           \/ \E extract \in BOOLEAN : StartSeed(extract)
           \/ \E f \in Files : SkipReady(f)
           \/ EndSeed
    PROVE  TemplateTyped' /\ SeedOK' /\ TemplateInv' /\ Kept
<1>1. CASE \E extract \in BOOLEAN : StartSeed(extract)
  <2>1. SeedOK' /\ seed'.runs = seed.runs + 1 /\ UNCHANGED template
    BY <1>1, AdoptionAssumption DEF StartSeed, TypeInv, SeedOK, SeedType, SeedPcs,
                                    AdoptionAssumption
  <2>2. \A id \in OldIds : \A S, T : Past(id, S) => Past(id, T)'
    BY <2>1, AdoptionAssumption DEF Past, OldIds, TypeInv, SeedOK, SeedType, AdoptionAssumption
  <2>3. TemplateTyped'
    BY <2>1 DEF TypeInv, TemplateTyped, IsRows
  <2>4. TemplateLinked'
    BY <1>1, <2>1 DEF StartSeed, TemplateInv, TemplateLinked, Docs
  <2>5. IdsPast' /\ Kept
    BY <2>1, <2>2 DEF TemplateInv, IdsPast, Past, Kept, Docs
  <2> QED
    BY <2>1, <2>3, <2>4, <2>5 DEF TemplateInv
<1>2. ASSUME NEW f \in Files, SkipReady(f) PROVE TemplateTyped' /\ SeedOK' /\ TemplateInv' /\ Kept
  <2>1. SeedOK' /\ UNCHANGED template /\ seed'.runs = seed.runs
    BY <1>2 DEF SkipReady, TypeInv, SeedOK, SeedType, SeedPcs
  <2>2. f \in Docs
    <3>1. [doc |-> f, status |-> "ready"] \in template.documents
      BY <1>2 DEF SkipReady, IsReady
    <3>2. f \in Docs
      BY <3>1 DEF Docs
    <3> QED
      BY <3>2
  <2>4. seed'.todo = seed.todo \ {f} /\ seed.pc = "next"
    BY <1>2 DEF SkipReady, TypeInv, SeedOK, SeedType
  <2>5. Files \ seed'.todo \subseteq Docs
    BY <2>2, <2>4 DEF TemplateInv, TemplateLinked
  <2>3. ClausesToCome' \subseteq ClausesToCome /\ FieldsToCome' \subseteq FieldsToCome
    BY <1>2 DEF SkipReady, ClausesToCome, FieldsToCome, TypeInv, SeedOK, SeedType
  <2> QED
    BY <2>1, <2>3, <2>5, SameTemplate
<1>3. CASE EndSeed
  <2>1. SeedOK' /\ UNCHANGED template /\ seed'.runs = seed.runs
    BY <1>3 DEF EndSeed, TypeInv, SeedOK, SeedType, SeedPcs
  <2>2. ClausesToCome' = {} /\ FieldsToCome' = {} /\ seed'.pc = "idle"
    BY <1>3 DEF EndSeed, ClausesToCome, FieldsToCome, TypeInv, SeedOK, SeedType
  <2> QED
    BY <2>1, <2>2, SameTemplate
<1> QED
    BY <1>1, <1>2, <1>3

(* A document that appears, or changes its status.                         *)
LEMMA DocumentWritten ==
    ASSUME TypeInv, TemplateInv, SeedOK', NEW f \in Files,
           NEW s \in {"uploaded", "processing", "ready"},
           template' = SetStatus(template, f, s), seed'.runs = seed.runs,
           ClausesToCome' \subseteq ClausesToCome, FieldsToCome' \subseteq FieldsToCome,
           seed'.pc # "idle" => Files \ seed'.todo \subseteq Docs \cup {f}
    PROVE  TemplateTyped' /\ TemplateInv' /\ Kept
<1>1. /\ IsRows(template')
      /\ template'.documents = NotOf(template.documents, f) \cup {[doc |-> f, status |-> s]}
      /\ \A t \in Tables \ {"documents"} : template'[t] = template[t]
    BY SetStatusRows DEF TypeInv, TemplateTyped
<1>2. /\ template'.clauses = template.clauses /\ template'.chunks = template.chunks
      /\ template'.fields = template.fields /\ template'.citations = template.citations
      /\ template'.flags = template.flags
    BY <1>1 DEF Tables
<1>3. Docs' = Docs \cup {f}
  <2>1. [doc |-> f, status |-> s] \in template'.documents
    BY <1>1
  <2>2. f \in Docs'
    BY <2>1 DEF Docs
  <2>3. \A d \in template'.documents : d.doc \in Docs \cup {f}
    BY <1>1 DEF Docs, NotOf
  <2>4. \A d \in template.documents : d.doc \in Docs' \cup {f}
    BY <1>1 DEF Docs, NotOf
  <2> QED
    BY <2>2, <2>3, <2>4 DEF Docs
<1>4. TemplateTyped'
    BY <1>1, <1>2 DEF TypeInv, TemplateTyped, NotOf
<1>5. TemplateLinked'
    BY <1>2, <1>3 DEF TemplateInv, TemplateLinked
<1>6. IdsPast' /\ Kept
    BY <1>2, <1>3 DEF TemplateInv, IdsPast, Past, Kept, Ids
<1> QED
    BY <1>4, <1>5, <1>6 DEF TemplateInv

LEMMA IngestPersisted ==
    ASSUME TypeInv, TemplateInv, PersistIngest
    PROVE  TemplateTyped' /\ SeedOK' /\ TemplateInv' /\ Kept
<1> DEFINE f == seed.doc
           id == <<f, seed.runs>>
<1>1. f \in Files /\ f \notin seed.todo /\ f \in Docs /\ seed.runs \in Nat
    BY AdoptionAssumption DEF PersistIngest, TypeInv, SeedOK, SeedType, TemplateInv,
                              TemplateLinked, AdoptionAssumption
<1>2. id \in OldIds /\ id[1] = f /\ id[2] = seed.runs
    BY <1>1 DEF OldIds
<1>3. SeedOK' /\ seed'.runs = seed.runs /\ seed'.doc = f /\ seed'.todo = seed.todo
    BY <1>1 DEF PersistIngest, TypeInv, SeedOK, SeedType, SeedPcs
<1>4. /\ f \in ClausesToCome /\ f \notin ClausesToCome' /\ ClausesToCome' \subseteq ClausesToCome
      /\ FieldsToCome' \subseteq FieldsToCome
    BY <1>1, <1>3 DEF PersistIngest, ClausesToCome, FieldsToCome, TypeInv, SeedOK, SeedType
<1>5. /\ IsRows(template')
      /\ template'.documents = NotOf(template.documents, f) \cup {[doc |-> f, status |-> "ready"]}
      /\ template'.clauses = NotOf(template.clauses, f) \cup {[id |-> id, doc |-> f]}
      /\ template'.chunks = NotOf(template.chunks, f) \cup {[doc |-> f, clause |-> id]}
      /\ template'.fields = NotOf(template.fields, f)
      /\ template'.citations = NotOf(template.citations, f)
      /\ template'.flags = NotOf(template.flags, f)
    BY ReindexedRows DEF PersistIngest, Commit, TypeInv, TemplateTyped
<1> HIDE DEF f, id
<1>6. TemplateTyped'
  <2>1. [id |-> id, doc |-> f] \in OwnedRow /\ [doc |-> f, clause |-> id] \in [doc: Files, clause: OldIds]
    BY <1>1, <1>2 DEF OwnedRow
  <2> QED
    BY <1>1, <1>5, <2>1 DEF TypeInv, TemplateTyped, NotOf
<1>7. Docs \subseteq Docs' /\ f \in Docs'
  <2>1. [doc |-> f, status |-> "ready"] \in template'.documents
    BY <1>5
  <2>2. f \in Docs'
    BY <2>1 DEF Docs
  <2>3. \A d \in template.documents : d.doc \in Docs' \cup {f}
    BY <1>5 DEF Docs, NotOf
  <2> QED
    BY <2>2, <2>3 DEF Docs
<1>8. /\ \A x \in Ids(template.clauses) : x[1] # f => x \in Ids(template'.clauses)
      /\ \A x \in Ids(template.fields) : x[1] # f => x \in Ids(template'.fields)
    BY <1>5 DEF Ids, NotOf, TypeInv, TemplateTyped, OwnedRow, OwnedField
<1>9. Ids(template'.fields) \subseteq Ids(template.fields)
    BY <1>5 DEF Ids, NotOf
<1>10. id \in Ids(template'.clauses) /\ Ids(template'.clauses) \subseteq Ids(template.clauses) \cup {id}
  <2>1. [id |-> id, doc |-> f] \in template'.clauses
    BY <1>5
  <2>2. id \in Ids(template'.clauses)
    BY <2>1 DEF Ids
  <2>3. \A c \in template'.clauses : c.id \in Ids(template.clauses) \cup {id}
    BY <1>5 DEF Ids, NotOf
  <2> QED
    BY <2>2, <2>3 DEF Ids
<1>11. TemplateLinked'
  <2>1. \A r \in template'.clauses \cup template'.fields : r.doc \in Docs'
    BY <1>5, <1>7 DEF TemplateInv, TemplateLinked, NotOf
  <2>2. \A r \in template'.chunks :
          r.doc \in Docs' /\ r.clause \in Ids(template'.clauses) /\ r.clause[1] = r.doc
    BY <1>2, <1>5, <1>7, <1>8, <1>10 DEF TemplateInv, TemplateLinked, NotOf
  <2>3. \A r \in template'.citations :
          /\ r.doc \in Docs' /\ r.clause[1] = r.doc /\ r.field[1] = r.doc
          /\ r.clause \in Ids(template'.clauses) /\ r.field \in Ids(template'.fields)
    BY <1>5, <1>7, <1>8 DEF TemplateInv, TemplateLinked, NotOf
  <2>4. \A r \in template'.flags :
          /\ r.doc \in Docs'
          /\ \A c \in r.clauses : c \in Ids(template'.clauses) /\ c[1] = r.doc
    BY <1>5, <1>7, <1>8 DEF TemplateInv, TemplateLinked, NotOf
  <2>5. seed.pc # "idle" => Files \ seed.todo \subseteq Docs
    BY DEF TemplateInv, TemplateLinked
  <2>6. seed.pc = "persist"
    BY DEF PersistIngest
  <2> QED
    BY <1>3, <1>7, <2>1, <2>2, <2>3, <2>4, <2>5, <2>6 DEF TemplateLinked
<1>12. IdsPast'
  <2>1. id \in OldIds /\ id[2] <= seed'.runs /\ (id[1] \in ClausesToCome' => id[2] < seed'.runs)
    BY <1>1, <1>2, <1>3, <1>4 DEF Past
  <2> QED
    BY <2>1, <1>3, <1>4, <1>9, <1>10 DEF TemplateInv, IdsPast, Past
<1>13. Kept
  <2>1. ~Past(id, ClausesToCome)
    BY <1>1, <1>2, <1>4 DEF Past
  <2> QED
    BY <2>1, <1>3, <1>4, <1>7, <1>9, <1>10 DEF Kept, Past
<1> QED
    BY <1>3, <1>6, <1>11, <1>12, <1>13 DEF TemplateInv

LEMMA FieldsPersisted ==
    ASSUME TypeInv, TemplateInv, NEW f \in Files, Extract(f)
    PROVE  TemplateTyped' /\ SeedOK' /\ TemplateInv' /\ Kept
<1> DEFINE id == <<f, seed.runs>>
<1>0. PICK ver \in Versions : template' = Extracted(template, f, ver, id)
    BY DEF Extract, Commit
<1> DEFINE old == OfVersion(template.fields, f, ver)
<1>1. f \in Docs /\ seed.runs \in Nat
    BY AdoptionAssumption DEF Extract, TypeInv, SeedOK, SeedType, TemplateInv,
                              TemplateLinked, AdoptionAssumption
<1>2. id \in OldIds /\ id[1] = f /\ id[2] = seed.runs
    BY <1>1 DEF OldIds
<1>3. /\ SeedOK' /\ seed'.runs = seed.runs /\ seed'.todo = seed.todo /\ seed.todo = {}
      /\ seed.pc = "next" /\ f \in seed.rest /\ seed'.rest = seed.rest \ {f} /\ seed'.pc = "benchmark"
    BY <1>1 DEF Extract, TypeInv, SeedOK, SeedType, SeedPcs
<1>4. /\ f \in FieldsToCome /\ f \notin FieldsToCome' /\ ClausesToCome' \subseteq ClausesToCome
      /\ FieldsToCome' \subseteq FieldsToCome
    BY <1>1, <1>3 DEF ClausesToCome, FieldsToCome
<1>5. /\ IsRows(template')
      /\ template'.fields = (template.fields \ old) \cup {[id |-> id, doc |-> f, ver |-> ver]}
      /\ template'.citations = {c \in template.citations : c.field \notin Ids(old)} \cup
            {[doc |-> f, field |-> id, clause |-> c] : c \in Ids(Of(template.clauses, f))}
      /\ template'.documents = template.documents /\ template'.clauses = template.clauses
      /\ template'.chunks = template.chunks /\ template'.flags = template.flags
    BY <1>0, ExtractedRows DEF TypeInv, TemplateTyped
<1> HIDE DEF id, old
<1>6. ASSUME NEW c \in Ids(Of(template.clauses, f))
      PROVE  c \in OldIds /\ c[1] = f /\ c \in Ids(template.clauses)
    BY DEF Ids, Of, TypeInv, TemplateTyped, OwnedRow
<1>7. ASSUME NEW r \in template'.citations
      PROVE  \/ r \in template.citations /\ r.field \notin Ids(old)
             \/ \E c \in Ids(Of(template.clauses, f)) : r = [doc |-> f, field |-> id, clause |-> c]
    BY <1>5
<1>8. TemplateTyped'
  <2>1. [id |-> id, doc |-> f, ver |-> ver] \in OwnedField
    BY <1>1, <1>2 DEF OwnedField
  <2>2. template'.citations \subseteq [doc: Files, field: OldIds, clause: OldIds]
    BY <1>1, <1>2, <1>6, <1>7 DEF TypeInv, TemplateTyped
  <2> QED
    BY <1>1, <1>5, <2>1, <2>2 DEF TypeInv, TemplateTyped
<1>9. Docs' = Docs /\ Ids(template.clauses)' = Ids(template.clauses)
    BY <1>5 DEF Docs, Ids
<1>10. \A x \in Ids(template.fields) : x \notin Ids(old) => x \in Ids(template'.fields)
  <2>1. \A x \in template.fields : x.id \notin Ids(old) => x \in template'.fields
    BY <1>5 DEF Ids
  <2> QED
    BY <2>1 DEF Ids
<1>11. id \in Ids(template'.fields) /\ Ids(template'.fields) \subseteq Ids(template.fields) \cup {id}
  <2>1. [id |-> id, doc |-> f, ver |-> ver] \in template'.fields
    BY <1>5
  <2>2. id \in Ids(template'.fields)
    BY <2>1 DEF Ids
  <2>3. \A c \in template'.fields : c.id \in Ids(template.fields) \cup {id}
    BY <1>5 DEF Ids
  <2> QED
    BY <2>2, <2>3 DEF Ids
<1>12. TemplateLinked'
  <2>1. \A r \in template'.clauses \cup template'.fields : r.doc \in Docs'
    BY <1>1, <1>5, <1>9 DEF TemplateInv, TemplateLinked
  <2>2. ASSUME NEW r \in template'.citations
        PROVE  /\ r.doc \in Docs' /\ r.clause[1] = r.doc /\ r.field[1] = r.doc
               /\ r.clause \in Ids(template'.clauses) /\ r.field \in Ids(template'.fields)
    <3>1. CASE r \in template.citations /\ r.field \notin Ids(old)
      BY <3>1, <1>5, <1>9, <1>10 DEF TemplateInv, TemplateLinked
    <3>2. CASE \E c \in Ids(Of(template.clauses, f)) : r = [doc |-> f, field |-> id, clause |-> c]
      BY <3>2, <1>1, <1>2, <1>5, <1>6, <1>9, <1>11
    <3> QED
      BY <3>1, <3>2, <1>7
  <2> QED
    BY <1>1, <1>3, <1>5, <1>9, <2>1, <2>2 DEF TemplateInv, TemplateLinked
<1>13. IdsPast'
  <2>1. id \in OldIds /\ id[2] <= seed'.runs /\ (id[1] \in FieldsToCome' => id[2] < seed'.runs)
    BY <1>1, <1>2, <1>3, <1>4 DEF Past
  <2> QED
    BY <2>1, <1>3, <1>4, <1>9, <1>11 DEF TemplateInv, IdsPast, Past
<1>14. Kept
  <2>1. ~Past(id, FieldsToCome)
    BY <1>1, <1>2, <1>4 DEF Past
  <2> QED
    BY <2>1, <1>3, <1>4, <1>9, <1>11 DEF Kept, Past
<1> QED
    BY <1>3, <1>8, <1>12, <1>13, <1>14 DEF TemplateInv

LEMMA FlagsPersisted ==
    ASSUME TypeInv, TemplateInv, Benchmark
    PROVE  TemplateTyped' /\ SeedOK' /\ TemplateInv' /\ Kept
<1> DEFINE f == seed.doc
<1>1. f \in Files /\ f \in Docs /\ seed.pc = "benchmark"
    BY DEF Benchmark, TypeInv, SeedOK, TemplateInv, TemplateLinked
<1>2. /\ SeedOK' /\ seed'.runs = seed.runs /\ seed'.pc = "next" /\ seed'.todo = seed.todo
      /\ seed'.rest = seed.rest
    BY DEF Benchmark, TypeInv, SeedOK, SeedType, SeedPcs
<1>3. ClausesToCome' = ClausesToCome /\ FieldsToCome' = FieldsToCome
    BY <1>2 DEF Benchmark, ClausesToCome, FieldsToCome
<1>4. PICK trigger \in SUBSET Of(template.fields, f) :
          template' = Benchmarked(template, f, trigger)
    BY DEF Benchmark, Commit
<1> DEFINE cited == {c.clause : c \in {x \in Of(template.citations, f) : x.field \in Ids(trigger)}}
           added == IF trigger = {} THEN {} ELSE {[doc |-> f, clauses |-> cited]}
<1>11. template' = [template EXCEPT !.flags = NotOf(@, f) \cup added]
    BY <1>4 DEF Benchmarked
<1>12. added \subseteq {[doc |-> f, clauses |-> cited]}
    OBVIOUS
<1>13. \A c \in cited : \E r \in Of(template.citations, f) : r.clause = c
    OBVIOUS
<1> HIDE DEF f, cited, added
<1>5. /\ IsRows(template')
      /\ template'.flags \subseteq NotOf(template.flags, f) \cup {[doc |-> f, clauses |-> cited]}
      /\ template'.documents = template.documents /\ template'.clauses = template.clauses
      /\ template'.chunks = template.chunks /\ template'.fields = template.fields
      /\ template'.citations = template.citations
    BY <1>11, <1>12 DEF TypeInv, TemplateTyped, IsRows, Tables
<1>6. \A c \in cited : c \in OldIds /\ c \in Ids(template.clauses) /\ c[1] = f
    BY <1>13 DEF Of, TypeInv, TemplateTyped, TemplateInv, TemplateLinked
<1>7. TemplateTyped'
  <2>1. [doc |-> f, clauses |-> cited] \in [doc: Files, clauses: SUBSET OldIds]
    BY <1>1, <1>6
  <2> QED
    BY <1>5, <2>1 DEF TypeInv, TemplateTyped, NotOf
<1>8. Docs' = Docs /\ Ids(template'.clauses) = Ids(template.clauses)
      /\ Ids(template'.fields) = Ids(template.fields)
    BY <1>5 DEF Docs
<1>9. TemplateLinked'
    BY <1>1, <1>2, <1>5, <1>6, <1>8 DEF TemplateInv, TemplateLinked, NotOf
<1>10. IdsPast' /\ Kept
    BY <1>2, <1>3, <1>8 DEF TemplateInv, IdsPast, Past, Kept
<1> QED
    BY <1>2, <1>7, <1>9, <1>10 DEF TemplateInv

(* What a script does to the handlers, and that it never writes unseen.    *)
LEMMA SeedWrites ==
    ASSUME SeedStep
    PROVE  /\ UNCHANGED <<cookie, adoptVars>>
           /\ \/ UNCHANGED <<template, touched>>
              \/ touched' = touched \cup {j \in Clicks : click[j].pc \in InTransaction}
<1> DEFINE Writes == /\ UNCHANGED <<cookie, adoptVars>>
                     /\ \/ UNCHANGED <<template, touched>>
                        \/ touched' = touched \cup {j \in Clicks : click[j].pc \in InTransaction}
<1>1. ASSUME NEW db, Commit(db) PROVE Writes
    BY <1>1 DEF Commit
<1>2. ASSUME NEW f \in Files, EnsureDocument(f) PROVE Writes
  <2>1. CASE Of(template.documents, f) = {}
    BY <1>1, <1>2, <2>1 DEF EnsureDocument
  <2> QED
    BY <1>2, <2>1 DEF EnsureDocument
<1>3. ASSUME NEW f \in Files, Extract(f) PROVE Writes
    BY <1>1, <1>3 DEF Extract
<1>4. CASE Benchmark
    BY <1>1, <1>4 DEF Benchmark
<1>5. CASE StartIngest \/ PersistIngest
    BY <1>1, <1>5 DEF StartIngest, PersistIngest
<1>6. CASE EndSeed \/ (\E extract \in BOOLEAN : StartSeed(extract)) \/ \E f \in Files : SkipReady(f)
    BY <1>6 DEF StartSeed, SkipReady, EndSeed
<1> QED
    BY <1>2, <1>3, <1>4, <1>5, <1>6 DEF SeedStep

LEMMA SeedStepKeeps ==
    ASSUME TypeInv, TemplateInv, SeedStep
    PROVE  TypeInv' /\ TemplateInv' /\ Kept
<1>1. HandlersTyped'
  <2>1. /\ UNCHANGED <<cookie, click, owner, adopted, deleted>>
        /\ touched' \subseteq touched \cup Clicks
    BY SeedWrites DEF adoptVars
  <2> QED
    BY <2>1 DEF TypeInv, HandlersTyped, IsRows
<1>2. CASE \/ \E extract \in BOOLEAN : StartSeed(extract)
           \/ \E f \in Files : SkipReady(f)
           \/ EndSeed
    BY <1>1, <1>2, SeedOnly DEF TypeInv
<1>3. ASSUME NEW f \in Files, EnsureDocument(f) PROVE TypeInv' /\ TemplateInv' /\ Kept
  <2>1. /\ SeedOK' /\ seed'.runs = seed.runs /\ seed'.doc = f
        /\ seed.pc = "next" /\ seed'.todo = seed.todo \ {f}
    BY <1>3 DEF EnsureDocument, TypeInv, SeedOK, SeedType, SeedPcs
  <2>5. Files \ seed'.todo \subseteq Docs \cup {f}
    BY <2>1 DEF TypeInv, TemplateInv, TemplateLinked
  <2>2. ClausesToCome' \subseteq ClausesToCome /\ FieldsToCome' \subseteq FieldsToCome
    BY <1>3 DEF EnsureDocument, ClausesToCome, FieldsToCome, TypeInv, SeedOK, SeedType
  <2>3. CASE Of(template.documents, f) = {}
    BY <1>1, <1>3, <2>1, <2>2, <2>3, <2>5, DocumentWritten DEF EnsureDocument, Commit, TypeInv
  <2>4. CASE Of(template.documents, f) # {}
    <3>1. f \in Docs
      BY <2>4 DEF Of, Docs
    <3> QED
      BY <1>1, <1>3, <2>1, <2>2, <2>4, <2>5, <3>1, SameTemplate DEF EnsureDocument, TypeInv
  <2> QED
    BY <2>3, <2>4
<1>4. CASE StartIngest
  <2>1. /\ SeedOK' /\ seed'.runs = seed.runs /\ seed'.doc = seed.doc /\ seed.doc \in Files
        /\ seed.pc # "idle" /\ seed'.todo = seed.todo
    BY <1>4 DEF StartIngest, TypeInv, SeedOK, SeedType, SeedPcs
  <2>2. ClausesToCome' \subseteq ClausesToCome /\ FieldsToCome' \subseteq FieldsToCome
    BY <1>4 DEF StartIngest, ClausesToCome, FieldsToCome, TypeInv, SeedOK, SeedType
  <2> QED
    BY <1>1, <1>4, <2>1, <2>2, DocumentWritten
    DEF StartIngest, Commit, TypeInv, TemplateInv, TemplateLinked
<1>5. ASSUME NEW f \in Files, Extract(f) PROVE TypeInv' /\ TemplateInv' /\ Kept
    BY <1>1, <1>5, FieldsPersisted DEF TypeInv
<1>6. CASE PersistIngest \/ Benchmark
    BY <1>1, <1>6, IngestPersisted, FlagsPersisted DEF TypeInv
<1> QED
    BY <1>2, <1>3, <1>4, <1>5, <1>6 DEF SeedStep
-----------------------------------------------------------------------------
(***************************************************************************)
(* What the steps of a handler change.                                     *)
(***************************************************************************)
OnlyHandler(k) ==
    /\ UNCHANGED <<template, seed, deleted>>
    /\ \A j \in Clicks \ {k} :
          click'[j] = click[j] /\ adopted'[j] = adopted[j] /\ owner'[j] = owner[j]
    /\ touched' \in {touched, touched \ {k}}
SameClick(k) == click'[k].tenant = click[k].tenant /\ click'[k].answer = click[k].answer

LEMMA GoFacts ==
    ASSUME TypeInv, NEW k \in Clicks, NEW pc \in Pcs, Go(k, pc), pc \in InTransaction \/ click[k].map = {},
           UNCHANGED <<template, seed, owner, touched, deleted>>, cookie' \in Tenants \cup {None},
           adopted' = [j \in Clicks |-> adopted'[j]], IsRows(adopted'[k]),
           \A j \in Clicks \ {k} : adopted'[j] = adopted[j]
    PROVE  TypeInv' /\ OnlyHandler(k) /\ SameClick(k) /\ click'[k].pc = pc
           /\ click'[k].map = click[k].map
<1>1. click' = [click EXCEPT ![k].pc = pc]
    BY DEF Go
<1>2. click' \in [Clicks -> ClickType]
    BY <1>1 DEF TypeInv, HandlersTyped, ClickType
<1>3. /\ click'[k].tenant = click[k].tenant /\ click'[k].answer = click[k].answer
      /\ click'[k].pc = pc /\ click'[k].map = click[k].map
      /\ \A j \in Clicks \ {k} : click'[j] = click[j]
    BY <1>1 DEF TypeInv, HandlersTyped, ClickType
<1>4. HandlersTyped'
    BY <1>2, <1>3 DEF TypeInv, HandlersTyped, IsRows
<1> QED
    BY <1>3, <1>4 DEF TypeInv, TemplateTyped, IsRows, SeedOK, OnlyHandler, SameClick

LEMMA AnswerFacts ==
    ASSUME TypeInv, NEW k \in Clicks, NEW a \in Clicks \cup {"503", "500"}, Answer(k, a), HandlerOnly,
           owner' \in [Clicks -> Tenants \cup {None}],
           adopted' = [j \in Clicks |-> adopted'[j]], IsRows(adopted'[k]),
           \A j \in Clicks \ {k} : adopted'[j] = adopted[j] /\ owner'[j] = owner[j],
           touched' \in {touched, touched \ {k}}
    PROVE  TypeInv' /\ OnlyHandler(k) /\ click'[k].pc = "answered"
           /\ click'[k].tenant = click[k].tenant /\ click'[k].answer = a /\ click'[k].map = {}
<1>1. click' = [click EXCEPT ![k].pc = "answered", ![k].answer = a, ![k].map = {}]
    BY DEF Answer
<1>2. click' \in [Clicks -> ClickType]
  <2> DEFINE c == [click[k] EXCEPT !.pc = "answered", !.answer = a, !.map = {}]
  <2>1. click[k] \in ClickType /\ DOMAIN click = Clicks
    BY DEF TypeInv, HandlersTyped
  <2>2. click' = [click EXCEPT ![k] = c]
    BY <1>1, <2>1 DEF ClickType
  <2>3. c \in ClickType
    BY <2>1 DEF ClickType, Pcs
  <2> HIDE DEF c
  <2> QED
    BY <2>2, <2>3 DEF TypeInv, HandlersTyped
<1>3. /\ click'[k].tenant = click[k].tenant /\ click'[k].answer = a
      /\ click'[k].pc = "answered" /\ click'[k].map = {}
      /\ \A j \in Clicks \ {k} : click'[j] = click[j]
    BY <1>1 DEF TypeInv, HandlersTyped, ClickType
<1>4. HandlersTyped'
    BY <1>2, <1>3 DEF TypeInv, HandlersTyped, IsRows, HandlerOnly
<1> QED
    BY <1>3, <1>4 DEF TypeInv, TemplateTyped, IsRows, SeedOK, OnlyHandler, HandlerOnly, seedVars

Kinds == {"doc", "clause", "field"}
LEMMA MapFacts ==
    ASSUME TypeInv, NEW k \in Clicks, NEW pc, NEW kind \in Kinds, NEW olds \in SUBSET (Files \cup OldIds),
           NEW next \in InTransaction, MapRows(k, pc, kind, olds, next)
    PROVE  /\ TypeInv' /\ OnlyHandler(k) /\ SameClick(k)
           /\ click[k].pc = pc /\ click'[k].pc = next
           /\ UNCHANGED <<adopted, owner>> /\ touched' = touched
           /\ Mapped(k, kind)' = Mapped(k, kind) \cup olds
           /\ \A other \in Kinds \ {kind} : Mapped(k, other)' = Mapped(k, other)
<1>1. click' = [click EXCEPT ![k].pc = next, ![k].map = @ \cup ({kind} \X olds)]
    BY DEF MapRows
<1>2. click[k] \in ClickType
    BY DEF TypeInv, HandlersTyped
<1> DEFINE map == click[k].map \cup ({kind} \X olds)
<1>3. map \in SUBSET (Kinds \X (Files \cup OldIds))
    BY <1>2 DEF ClickType, Kinds
<1>4. click' = [click EXCEPT ![k].pc = next, ![k].map = map]
    BY <1>1
<1>5. \A other \in Kinds : {m[2] : m \in {x \in map : x[1] = other}} =
          Mapped(k, other) \cup (IF other = kind THEN olds ELSE {})
  <2> SUFFICES ASSUME NEW other \in Kinds
               PROVE  {m[2] : m \in {x \in map : x[1] = other}} =
                        Mapped(k, other) \cup (IF other = kind THEN olds ELSE {})
    OBVIOUS
  <2>1. ASSUME NEW m \in map, m[1] = other
        PROVE  m[2] \in Mapped(k, other) \cup (IF other = kind THEN olds ELSE {})
    BY <2>1 DEF Mapped
  <2>2. ASSUME NEW o \in olds, other = kind PROVE o \in {m[2] : m \in {x \in map : x[1] = other}}
    <3>1. <<kind, o>> \in map
      BY <2>2
    <3> QED
      BY <2>2, <3>1
  <2>3. Mapped(k, other) \subseteq {m[2] : m \in {x \in map : x[1] = other}}
    BY DEF Mapped
  <2> HIDE DEF map
  <2> QED
    BY <2>1, <2>2, <2>3
<1> HIDE DEF map
<1>6. click' \in [Clicks -> ClickType]
  <2> DEFINE c == [click[k] EXCEPT !.pc = next, !.map = map]
  <2>1. click[k] \in ClickType /\ DOMAIN click = Clicks
    BY DEF TypeInv, HandlersTyped
  <2>2. click' = [click EXCEPT ![k] = c]
    BY <1>4, <2>1 DEF ClickType
  <2>3. c \in ClickType
    BY <2>1, <1>3 DEF ClickType, Pcs, Kinds
  <2> HIDE DEF c
  <2> QED
    BY <2>2, <2>3 DEF TypeInv, HandlersTyped
<1>7. /\ click'[k].tenant = click[k].tenant /\ click'[k].answer = click[k].answer
      /\ click'[k].pc = next /\ click'[k].map = map
      /\ \A j \in Clicks \ {k} : click'[j] = click[j]
    BY <1>2, <1>4 DEF TypeInv, HandlersTyped, ClickType
<1>8. HandlersTyped'
    BY <1>6, <1>7 DEF MapRows, TypeInv, HandlersTyped, IsRows, HandlerOnly
<1>9. \A other \in Kinds : Mapped(k, other)' = {m[2] : m \in {x \in map : x[1] = other}}
    BY <1>7 DEF Mapped
<1> QED
    BY <1>5, <1>7, <1>8, <1>9
    DEF MapRows, TypeInv, TemplateTyped, IsRows, SeedOK, OnlyHandler, SameClick, HandlerOnly, seedVars

LEMMA InsertFacts ==
    ASSUME TypeInv, NEW k \in Clicks, NEW pc, NEW table \in Tables, NEW rows,
           NEW next \in InTransaction, InsertRows(k, pc, table, rows, next)
    PROVE  /\ TypeInv' /\ OnlyHandler(k) /\ SameClick(k)
           /\ click[k].pc = pc /\ click'[k].pc = next /\ click'[k].map = click[k].map
           /\ \A kind \in Kinds : Mapped(k, kind)' = Mapped(k, kind)
           /\ UNCHANGED owner /\ touched' = touched
           /\ adopted'[k][table] = rows
           /\ \A t \in Tables \ {table} : adopted'[k][t] = adopted[k][t]
<1>1. adopted' = [adopted EXCEPT ![k][table] = rows]
    BY DEF InsertRows
<1>2. /\ adopted'[k] = [adopted[k] EXCEPT ![table] = rows]
      /\ \A j \in Clicks \ {k} : adopted'[j] = adopted[j]
      /\ adopted' = [j \in Clicks |-> adopted'[j]]
    BY <1>1 DEF TypeInv, HandlersTyped
<1>3. /\ IsRows(adopted'[k])
      /\ adopted'[k][table] = rows
      /\ \A t \in Tables \ {table} : adopted'[k][t] = adopted[k][t]
    BY <1>2 DEF TypeInv, HandlersTyped, IsRows
<1>4. /\ TypeInv' /\ OnlyHandler(k) /\ SameClick(k)
      /\ click'[k].pc = next /\ click'[k].map = click[k].map
    BY <1>2, <1>3, GoFacts DEF InsertRows, HandlerOnly, seedVars, Pcs, TypeInv, HandlersTyped
<1> QED
    BY <1>3, <1>4 DEF InsertRows, Mapped
-----------------------------------------------------------------------------
(***************************************************************************)
(* The one slot of a session: taken by an open transaction or by a case.   *)
(***************************************************************************)
Holds(k) == click[k].pc \in InTransaction \/ owner[k] # None
SlotOK ==
    \A k \in Clicks :
       /\ click[k].pc # "none" => click[k].tenant \in Tenants
       /\ owner[k] # None => /\ owner[k] = click[k].tenant /\ click[k].answer = k
                             /\ click[k].pc \in {"answered", "over"}
       /\ click[k].answer \in Clicks => /\ Won(k, click[k].answer)
                                        /\ click[k].pc \in {"answered", "over"}
       /\ click[k].pc = "raced" => \E c \in Clicks : Won(k, c)
       /\ k \in deleted => /\ owner[k] = None /\ click[k].answer = k
                           /\ click[k].pc \in {"answered", "over"}
       /\ \A j \in Clicks \ {k} : Holds(j) /\ Holds(k) => click[j].tenant # click[k].tenant

LEMMA SlotInit == Init => SlotOK
BY AdoptionAssumption DEF Init, SlotOK, Holds, NewClick, InTransaction, AdoptionAssumption

LEMMA SlotImplies == TypeInv /\ SlotOK => OneDemoCase /\ AnsweredIsOwned
<1> SUFFICES ASSUME TypeInv, SlotOK PROVE OneDemoCase /\ AnsweredIsOwned
    OBVIOUS
<1>1. AnsweredIsOwned
    BY DEF SlotOK, AnsweredIsOwned
<1>2. ASSUME NEW t \in Tenants PROVE Cardinality(adoptedCase(t)) <= 1
  <2>1. \A c, d \in adoptedCase(t) : c = d
    BY AdoptionAssumption DEF adoptedCase, SlotOK, Holds, Tenants, AdoptionAssumption
  <2>2. CASE adoptedCase(t) = {}
    BY <2>2, FS_EmptySet
  <2>3. CASE adoptedCase(t) # {}
    <3>1. PICK c : adoptedCase(t) = {c}
      BY <2>1, <2>3
    <3> QED
      BY <3>1, FS_Singleton
  <2> QED
    BY <2>2, <2>3
<1> QED
    BY <1>1, <1>2 DEF OneDemoCase

(* A case stays one of the session's, or one that it has had.              *)
LEMMA WonKept ==
    ASSUME TypeInv, SlotOK, NEW k \in Clicks, OnlyHandler(k),
           click'[k].tenant = click[k].tenant \/ click[k].pc = "none",
           owner'[k] = owner[k] \/ owner[k] = None,
           NEW j \in Clicks, click[j].pc # "none", click'[j].tenant = click[j].tenant,
           NEW c \in Clicks, Won(j, c)
    PROVE  Won(j, c)'
<1>1. click[j].tenant # None
    BY AdoptionAssumption DEF SlotOK, Tenants, AdoptionAssumption
<1>2. CASE c # k
    BY <1>2 DEF Won, OnlyHandler
<1>3. CASE c = k
    BY <1>1, <1>3 DEF Won, OnlyHandler, SlotOK
<1> QED
    BY <1>2, <1>3

(* A click that neither takes the slot nor is answered.                    *)
LEMMA SlotWaits ==
    ASSUME TypeInv, SlotOK, NEW k \in Clicks, OnlyHandler(k), owner' = owner,
           click'[k].tenant \in Tenants,
           click[k].answer \in Clicks \/ click'[k].answer \in Clicks =>
              click'[k].answer = click[k].answer,
           click'[k].tenant = click[k].tenant \/ click[k].pc = "none",
           click'[k].pc \in InTransaction => click[k].pc \in InTransaction,
           click[k].pc \in {"answered", "over"} => click'[k].pc \in {"answered", "over"},
           click'[k].pc = "raced" =>
              /\ click[k].pc # "none"
              /\ \E c \in Clicks : owner[c] = click[k].tenant
    PROVE  SlotOK'
<1>1. owner[k] # None => click'[k].tenant = click[k].tenant
    BY DEF SlotOK
<1>2. Holds(k)' => Holds(k) /\ click'[k].tenant = click[k].tenant
    BY <1>1 DEF Holds, InTransaction
<1>3. \A j \in Clicks \ {k} : Holds(j)' = Holds(j)
    BY DEF Holds, OnlyHandler
<1>4. click[k].answer \in Clicks \/ k \in deleted => click'[k].tenant = click[k].tenant
    BY DEF SlotOK
<1>5. \A j, c \in Clicks : Won(j, c) /\ click[j].pc # "none" /\ click'[j].tenant = click[j].tenant
                            => Won(j, c)'
    BY WonKept
<1>6. \A j \in Clicks : click'[j].answer \in Clicks => Won(j, click[j].answer)'
    BY <1>4, <1>5 DEF SlotOK, OnlyHandler
<1>7. ASSUME NEW j \in Clicks, click'[j].pc = "raced" PROVE \E c \in Clicks : Won(j, c)'
  <2>1. CASE j = k
    <3>1. PICK c \in Clicks : owner[c] = click[k].tenant
      BY <1>7, <2>1
    <3>2. click[k].pc # "none" /\ click[k].tenant \in Tenants /\ click'[k].tenant = click[k].tenant
      BY <1>7, <2>1 DEF SlotOK
    <3>3. Won(k, c)
      BY <3>1, <3>2, AdoptionAssumption DEF SlotOK, Won, Tenants, AdoptionAssumption
    <3> QED
      BY <1>5, <2>1, <3>2, <3>3
  <2>2. CASE j # k
    <3>1. click[j] = click'[j] /\ (\E c \in Clicks : Won(j, c))
      BY <1>7, <2>2 DEF OnlyHandler, SlotOK
    <3> QED
      BY <1>5, <1>7, <3>1
  <2> QED
    BY <2>1, <2>2
<1> QED
    BY <1>1, <1>2, <1>3, <1>4, <1>6, <1>7 DEF SlotOK, OnlyHandler

(* A click that is answered, with a case its session has or with none.     *)
LEMMA SlotAnswered ==
    ASSUME TypeInv, SlotOK, NEW k \in Clicks, OnlyHandler(k), owner' = owner,
           click[k].pc \in {"existing", "raced"} \cup InTransaction,
           click'[k].tenant = click[k].tenant, click'[k].pc = "answered",
           click'[k].answer \in Clicks => owner[click'[k].answer] = click[k].tenant
    PROVE  SlotOK'
<1>1. Holds(k)' => FALSE
    BY DEF Holds, SlotOK, InTransaction
<1>2. \A j \in Clicks \ {k} : Holds(j)' = Holds(j)
    BY DEF Holds, OnlyHandler
<1>3. click[k].pc # "none" /\ owner[k] = None /\ k \notin deleted /\ click[k].tenant \in Tenants
    BY DEF SlotOK, InTransaction
<1>4. \A j, c \in Clicks : Won(j, c) /\ click[j].pc # "none" /\ click'[j].tenant = click[j].tenant
                            => Won(j, c)'
    BY WonKept
<1>5. click'[k].answer \in Clicks => Won(k, click'[k].answer)
    BY <1>3, AdoptionAssumption DEF SlotOK, Won, Tenants, AdoptionAssumption
<1>6. click'[k].answer \in Clicks => Won(k, click[k].answer)'
    BY <1>3, <1>4, <1>5
<1>7. \A j \in Clicks \ {k} :
         /\ click'[j].answer \in Clicks => Won(j, click[j].answer)'
         /\ click'[j].pc = "raced" => \E c \in Clicks : Won(j, c)'
    BY <1>4 DEF SlotOK, OnlyHandler
<1> QED
    BY <1>1, <1>2, <1>3, <1>6, <1>7 DEF SlotOK, OnlyHandler

LEMMA SlotTaken ==
    ASSUME TypeInv, SlotOK, NEW k \in Clicks, OnlyHandler(k), SameClick(k), owner' = owner,
           click[k].pc = "insert", click'[k].pc \in InTransaction,
           Rivals(k) = {}, adoptedCase(click[k].tenant) = {}
    PROVE  SlotOK'
<1>1. \A j \in Clicks \ {k} : Holds(j)' = Holds(j) /\ (Holds(j) => click[j].tenant # click[k].tenant)
    BY DEF Holds, OnlyHandler, Rivals, adoptedCase, SlotOK
<1>2. owner[k] = None /\ click[k].answer \notin Clicks /\ k \notin deleted
    BY DEF SlotOK
<1>3. \A j, c \in Clicks : Won(j, c) => Won(j, c)'
    BY DEF Won, OnlyHandler, SameClick
<1>4. \A j \in Clicks : click'[j].answer = click[j].answer /\ (click'[j].pc = "raced" => click[j].pc = "raced")
    BY DEF OnlyHandler, SameClick, InTransaction
<1>5. \A j \in Clicks :
         /\ click'[j].answer \in Clicks => Won(j, click[j].answer)'
         /\ click'[j].pc = "raced" => \E c \in Clicks : Won(j, c)'
    BY <1>3, <1>4 DEF SlotOK
<1> QED
    BY <1>1, <1>2, <1>5 DEF SlotOK, OnlyHandler, SameClick

LEMMA SlotKept ==
    ASSUME TypeInv, SlotOK, NEW k \in Clicks, OnlyHandler(k), click[k].pc = "commit",
           owner' = [owner EXCEPT ![k] = click[k].tenant],
           click'[k].tenant = click[k].tenant, click'[k].pc = "answered", click'[k].answer = k
    PROVE  SlotOK'
<1>1. \A j \in Clicks \ {k} : Holds(j)' = Holds(j) /\ (Holds(j) => click[j].tenant # click[k].tenant)
    BY DEF Holds, OnlyHandler, SlotOK, InTransaction
<1>2. owner'[k] = click[k].tenant /\ owner[k] = None /\ k \notin deleted
    BY DEF TypeInv, HandlersTyped, SlotOK
<1>3. \A j, c \in Clicks : Won(j, c) /\ click[j].pc # "none" /\ click'[j].tenant = click[j].tenant
                            => Won(j, c)'
    BY <1>2, WonKept
<1>4. Won(k, k)'
    BY <1>2 DEF Won
<1>5. \A j \in Clicks \ {k} :
         /\ click'[j].answer \in Clicks => Won(j, click[j].answer)'
         /\ click'[j].pc = "raced" => \E c \in Clicks : Won(j, c)'
    BY <1>3 DEF SlotOK, OnlyHandler
<1> QED
    BY <1>1, <1>2, <1>4, <1>5 DEF SlotOK, OnlyHandler, InTransaction

(* The slot is given back.                                                 *)
LEMMA SlotDeleted ==
    ASSUME TypeInv, SlotOK, NEW k \in Clicks, DeleteCase(k)
    PROVE  SlotOK'
<1>1. /\ owner'[k] = None /\ \A j \in Clicks \ {k} : owner'[j] = owner[j]
      /\ click' = click /\ deleted' = deleted \cup {k} /\ owner[k] # None
    BY DEF DeleteCase, TypeInv, HandlersTyped
<1>2. \A j, c \in Clicks : Won(j, c) => Won(j, c)'
    BY <1>1 DEF Won
<1>3. \A j \in Clicks : Holds(j)' => Holds(j)
    BY <1>1 DEF Holds
<1>4. \A j \in Clicks :
         /\ click'[j].answer \in Clicks => Won(j, click[j].answer)'
         /\ click'[j].pc = "raced" => \E c \in Clicks : Won(j, c)'
    BY <1>1, <1>2 DEF SlotOK
<1> QED
    BY <1>1, <1>3, <1>4 DEF SlotOK
-----------------------------------------------------------------------------
(***************************************************************************)
(* A clone, statement by statement.                                        *)
(***************************************************************************)
MappedDocs == InTransaction \ {"documents1"}        \* the statements behind each
HasDocs == MappedDocs \ {"documents2"}
MappedClauses == HasDocs \ {"clauses1"}
HasClauses == MappedClauses \ {"clauses2"}
HasChunks == HasClauses \ {"chunks"}
MappedFields == HasChunks \ {"fields1"}
HasFields == MappedFields \ {"fields2"}
HasCitations == HasFields \ {"citations"}
HasFlags == HasCitations \ {"flags"}

MapsOK(k) ==
    /\ click[k].pc \notin MappedDocs => Mapped(k, "doc") = {}
    /\ click[k].pc \notin MappedClauses => Mapped(k, "clause") = {}
    /\ click[k].pc \notin MappedFields => Mapped(k, "field") = {}
    /\ Mapped(k, "doc") \subseteq Docs
    /\ \A c \in Mapped(k, "clause") : Past(c, ClausesToCome) /\ c[1] \in Mapped(k, "doc")
    /\ \A f \in Mapped(k, "field") : Past(f, FieldsToCome) /\ f[1] \in Mapped(k, "doc")

NewDocs(k) == {d.doc : d \in adopted[k].documents}
NewClauses(k) == Ids(adopted[k].clauses)
NewFields(k) == Ids(adopted[k].fields)

(* What the map has of the template, the clone has as long as the template *)
(* has it; and its rows point at each other.                               *)
RowsOK(k) ==
    /\ click[k].pc \in HasDocs => \A d \in Mapped(k, "doc") : New(k, d) \in NewDocs(k)
    /\ click[k].pc \in HasClauses =>
          /\ \A r \in adopted[k].clauses : r.doc \in NewDocs(k)
          /\ \A c \in Mapped(k, "clause") :
                c \in Ids(template.clauses) => New(k, c) \in NewClauses(k)
    /\ click[k].pc \in HasChunks =>
          \A r \in adopted[k].chunks : r.doc \in NewDocs(k) /\ r.clause \in NewClauses(k)
    /\ click[k].pc \in HasFields =>
          /\ \A r \in adopted[k].fields : r.doc \in NewDocs(k)
          /\ \A f \in Mapped(k, "field") :
                f \in Ids(template.fields) => New(k, f) \in NewFields(k)
    /\ click[k].pc \in HasCitations =>
          \A r \in adopted[k].citations :
             r.doc \in NewDocs(k) /\ r.clause \in NewClauses(k) /\ r.field \in NewFields(k)
    /\ click[k].pc \in HasFlags =>
          \A r \in adopted[k].flags : r.doc \in NewDocs(k) /\ r.clauses \subseteq NewClauses(k)

CloneOK(k) == MapsOK(k) /\ RowsOK(k) /\ (owner[k] # None => Closed(adopted[k]))

LEMMA KeptSame == UNCHANGED <<template, seed>> => Kept
BY DEF Kept, Docs, Past, ClausesToCome, FieldsToCome

LEMMA PastTyped ==
    ASSUME NEW k \in Clicks, MapsOK(k)
    PROVE  Mapped(k, "clause") \subseteq OldIds /\ Mapped(k, "field") \subseteq OldIds
BY DEF MapsOK, Past

LEMMA MapsKept ==
    ASSUME NEW k \in Clicks, MapsOK(k), Kept,
           click'[k].map = click[k].map, click'[k].pc = click[k].pc
    PROVE  MapsOK(k)'
<1>1. \A kind : Mapped(k, kind)' = Mapped(k, kind)
    BY DEF Mapped
<1> QED
    BY <1>1, PastTyped DEF MapsOK, Kept

(* Whatever others do: what is mapped stays, or goes for good.             *)
LEMMA CloneKept ==
    ASSUME NEW k \in Clicks, CloneOK(k), Kept, click'[k] = click[k], adopted'[k] = adopted[k],
           owner'[k] = owner[k]
    PROVE  CloneOK(k)'
<1>1. /\ \A kind : Mapped(k, kind)' = Mapped(k, kind)
      /\ NewDocs(k)' = NewDocs(k) /\ NewClauses(k)' = NewClauses(k) /\ NewFields(k)' = NewFields(k)
    BY DEF Mapped, NewDocs, NewClauses, NewFields
<1>2. MapsOK(k)'
    BY MapsKept DEF CloneOK
<1>3. /\ \A c \in Mapped(k, "clause") :
            c \in Ids(template'.clauses) => c \in Ids(template.clauses)
      /\ \A f \in Mapped(k, "field") :
            f \in Ids(template'.fields) => f \in Ids(template.fields)
    BY PastTyped DEF CloneOK, MapsOK, Kept
<1>4. RowsOK(k)'
    BY <1>1, <1>3 DEF CloneOK, RowsOK
<1> QED
    BY <1>2, <1>4 DEF CloneOK

(* Outside a transaction, before and after it, there is nothing to keep.   *)
LEMMA CloneOutside ==
    ASSUME TypeInv', NEW k \in Clicks, click'[k].pc \notin InTransaction,
           owner'[k] # None => Closed(adopted'[k])
    PROVE  CloneOK(k)'
<1>1. \A kind : Mapped(k, kind)' = {}
    BY DEF TypeInv, HandlersTyped, Mapped
<1>2. MapsOK(k)' /\ RowsOK(k)'
    BY <1>1 DEF MapsOK, RowsOK, MappedDocs, HasDocs, MappedClauses, HasClauses, HasChunks,
                MappedFields, HasFields, HasCitations, HasFlags
<1> QED
    BY <1>2 DEF CloneOK

LEMMA MapStatements ==
    ASSUME TypeInv, TemplateInv, SlotOK, NEW k \in Clicks, CloneOK(k),
           MapDocuments(k) \/ MapClauses(k) \/ MapFields(k)
    PROVE  TypeInv' /\ OnlyHandler(k) /\ SameClick(k) /\ owner' = owner /\ touched' = touched
           /\ click[k].pc \in InTransaction /\ click'[k].pc \in InTransaction /\ CloneOK(k)'
<1> DEFINE docs == {d.doc : d \in template.documents}
           clauses == Ids({c \in template.clauses : c.doc \in Mapped(k, "doc")})
           fields == Ids({f \in template.fields : f.doc \in Mapped(k, "doc")})
<1>1. /\ docs \in SUBSET (Files \cup OldIds)
      /\ clauses \in SUBSET (Files \cup OldIds) /\ fields \in SUBSET (Files \cup OldIds)
    BY DEF TypeInv, TemplateTyped, OwnedRow, OwnedField, Ids
<1>2. /\ docs = Docs
      /\ \A c \in clauses : Past(c, ClausesToCome) /\ c[1] \in Mapped(k, "doc")
      /\ \A f \in fields : Past(f, FieldsToCome) /\ f[1] \in Mapped(k, "doc")
    BY DEF TypeInv, TemplateTyped, OwnedRow, OwnedField, Ids, TemplateInv, IdsPast, Docs
<1> HIDE DEF docs, clauses, fields
<1>3. CASE MapDocuments(k)
  <2>1. MapRows(k, "documents1", "doc", docs, "documents2")
    BY <1>3 DEF MapDocuments, docs
  <2>2. /\ TypeInv' /\ OnlyHandler(k) /\ SameClick(k) /\ owner' = owner /\ touched' = touched
        /\ adopted' = adopted /\ click[k].pc = "documents1" /\ click'[k].pc = "documents2"
        /\ Mapped(k, "doc")' = Mapped(k, "doc") \cup docs
        /\ Mapped(k, "clause")' = Mapped(k, "clause") /\ Mapped(k, "field")' = Mapped(k, "field")
    BY <1>1, <2>1, MapFacts DEF Kinds, InTransaction
  <2>3. Docs' = Docs
    BY <2>2 DEF Docs, OnlyHandler
  <2>4. MapsOK(k)'
    BY <1>2, <2>2, <2>3 DEF CloneOK, MapsOK, MappedDocs, MappedClauses, HasDocs, MappedFields,
                            HasClauses, HasChunks, InTransaction
  <2>5. RowsOK(k)'
    BY <2>2 DEF RowsOK, MappedDocs, HasDocs, MappedClauses, HasClauses, HasChunks,
                MappedFields, HasFields, HasCitations, HasFlags
  <2> QED
    BY <2>2, <2>4, <2>5 DEF CloneOK, InTransaction, SlotOK
<1>4. CASE MapClauses(k)
  <2>1. MapRows(k, "clauses1", "clause", clauses, "clauses2")
    BY <1>4 DEF MapClauses, clauses
  <2>2. /\ TypeInv' /\ OnlyHandler(k) /\ SameClick(k) /\ owner' = owner /\ touched' = touched
        /\ adopted' = adopted /\ click[k].pc = "clauses1" /\ click'[k].pc = "clauses2"
        /\ Mapped(k, "clause")' = Mapped(k, "clause") \cup clauses
        /\ Mapped(k, "doc")' = Mapped(k, "doc") /\ Mapped(k, "field")' = Mapped(k, "field")
    BY <1>1, <2>1, MapFacts DEF Kinds, InTransaction
  <2>3. Docs' = Docs /\ ClausesToCome' = ClausesToCome
    BY <2>2 DEF Docs, OnlyHandler, ClausesToCome
  <2>4. \A c \in Mapped(k, "clause")' : Past(c, ClausesToCome)' /\ c[1] \in Mapped(k, "doc")
    BY <1>2, <2>2, <2>3 DEF CloneOK, MapsOK, Past, OnlyHandler
  <2>5. MapsOK(k)'
    BY <2>2, <2>3, <2>4 DEF CloneOK, MapsOK, MappedDocs, MappedClauses, HasDocs, MappedFields,
                            HasClauses, HasChunks, InTransaction
  <2>6. RowsOK(k)'
    BY <2>2 DEF CloneOK, RowsOK, NewDocs, MappedDocs, HasDocs, MappedClauses, HasClauses, HasChunks,
                MappedFields, HasFields, HasCitations, HasFlags, InTransaction
  <2> QED
    BY <2>2, <2>5, <2>6 DEF CloneOK, InTransaction, SlotOK
<1>5. CASE MapFields(k)
  <2>1. MapRows(k, "fields1", "field", fields, "fields2")
    BY <1>5 DEF MapFields, fields
  <2>2. /\ TypeInv' /\ OnlyHandler(k) /\ SameClick(k) /\ owner' = owner /\ touched' = touched
        /\ adopted' = adopted /\ click[k].pc = "fields1" /\ click'[k].pc = "fields2"
        /\ Mapped(k, "field")' = Mapped(k, "field") \cup fields
        /\ Mapped(k, "doc")' = Mapped(k, "doc") /\ Mapped(k, "clause")' = Mapped(k, "clause")
    BY <1>1, <2>1, MapFacts DEF Kinds, InTransaction
  <2>3. Docs' = Docs /\ ClausesToCome' = ClausesToCome /\ FieldsToCome' = FieldsToCome
    BY <2>2 DEF Docs, OnlyHandler, ClausesToCome, FieldsToCome
  <2>4. \A f \in Mapped(k, "field")' : Past(f, FieldsToCome)' /\ f[1] \in Mapped(k, "doc")
    BY <1>2, <2>2, <2>3 DEF CloneOK, MapsOK, Past, OnlyHandler
  <2>5. \A c \in Mapped(k, "clause")' : Past(c, ClausesToCome)'
    BY <2>2, <2>3 DEF CloneOK, MapsOK, Past, OnlyHandler
  <2>6. MapsOK(k)'
    BY <2>2, <2>3, <2>4, <2>5 DEF CloneOK, MapsOK, MappedDocs, MappedClauses, HasDocs,
                                  MappedFields, HasClauses, HasChunks, InTransaction
  <2>7. RowsOK(k)'
    BY <2>2 DEF CloneOK, RowsOK, NewDocs, NewClauses, OnlyHandler, MappedDocs, HasDocs,
                MappedClauses, HasClauses, HasChunks, MappedFields, HasFields, HasCitations,
                HasFlags, InTransaction
  <2> QED
    BY <2>2, <2>6, <2>7 DEF CloneOK, InTransaction, SlotOK
<1> QED
    BY <1>3, <1>4, <1>5

(* What an insert leaves as it was.                                        *)
LEMMA InsertKeeps ==
    ASSUME TypeInv, SlotOK, NEW k \in Clicks, CloneOK(k), NEW pc \in InTransaction,
           NEW table \in Tables, NEW rows, NEW next \in InTransaction,
           InsertRows(k, pc, table, rows, next),
           (pc \in MappedDocs) = (next \in MappedDocs),
           (pc \in MappedClauses) = (next \in MappedClauses),
           (pc \in MappedFields) = (next \in MappedFields)
    PROVE  /\ TypeInv' /\ OnlyHandler(k) /\ SameClick(k) /\ owner' = owner /\ touched' = touched
           /\ click[k].pc = pc /\ click'[k].pc = next /\ owner'[k] = None
           /\ \A kind \in Kinds : Mapped(k, kind)' = Mapped(k, kind)
           /\ adopted'[k][table] = rows
           /\ \A t \in Tables \ {table} : adopted'[k][t] = adopted[k][t]
           /\ MapsOK(k)'
<1>1. /\ TypeInv' /\ OnlyHandler(k) /\ SameClick(k) /\ owner' = owner /\ touched' = touched
      /\ click[k].pc = pc /\ click'[k].pc = next /\ click'[k].map = click[k].map
      /\ \A kind \in Kinds : Mapped(k, kind)' = Mapped(k, kind)
      /\ adopted'[k][table] = rows
      /\ \A t \in Tables \ {table} : adopted'[k][t] = adopted[k][t]
    BY InsertFacts
<1>2. owner'[k] = None
    BY <1>1 DEF SlotOK, InTransaction
<1>3. Docs' = Docs /\ ClausesToCome' = ClausesToCome /\ FieldsToCome' = FieldsToCome
      /\ seed' = seed
    BY <1>1 DEF Docs, OnlyHandler, ClausesToCome, FieldsToCome
<1>4. MapsOK(k)'
    BY <1>1, <1>3 DEF CloneOK, MapsOK, Past, Kinds
<1> QED
    BY <1>1, <1>2, <1>4

Statements(k) ==
    \/ InsertDocuments(k) \/ InsertClauses(k) \/ InsertChunks(k)
    \/ InsertFields(k) \/ InsertCitations(k) \/ InsertFlags(k)

LEMMA InsertStatements ==
    ASSUME TypeInv, TemplateInv, SlotOK, NEW k \in Clicks, CloneOK(k), Statements(k)
    PROVE  TypeInv' /\ OnlyHandler(k) /\ SameClick(k) /\ owner' = owner /\ touched' = touched
           /\ click[k].pc \in InTransaction /\ click'[k].pc \in InTransaction /\ CloneOK(k)'
<1> USE DEF MappedDocs, HasDocs, MappedClauses, HasClauses, HasChunks, MappedFields, HasFields,
            HasCitations, HasFlags, InTransaction, Tables, Kinds
<1>1. CASE InsertDocuments(k)
  <2> DEFINE rows == {[doc |-> New(k, d.doc), status |-> d.status] :
                        d \in {x \in template.documents : x.doc \in Mapped(k, "doc")}}
  <2>1. InsertRows(k, "documents2", "documents", rows, "clauses1")
    BY <1>1 DEF InsertDocuments
  <2>2. ASSUME NEW d \in Mapped(k, "doc") PROVE \E r \in rows : r.doc = New(k, d)
    <3>1. PICK x \in template.documents : x.doc = d
      BY DEF CloneOK, MapsOK, Docs
    <3>2. [doc |-> New(k, x.doc), status |-> x.status] \in rows
      BY <3>1
    <3> QED
      BY <3>1, <3>2
  <2> HIDE DEF rows
  <2>3. /\ TypeInv' /\ OnlyHandler(k) /\ SameClick(k) /\ owner' = owner /\ touched' = touched
        /\ click[k].pc = "documents2" /\ click'[k].pc = "clauses1" /\ owner'[k] = None
        /\ Mapped(k, "doc")' = Mapped(k, "doc") /\ adopted'[k].documents = rows /\ MapsOK(k)'
    BY <2>1, InsertKeeps
  <2>4. RowsOK(k)'
    BY <2>2, <2>3 DEF RowsOK, NewDocs
  <2> QED
    BY <2>3, <2>4 DEF CloneOK
<1>2. CASE InsertClauses(k)
  <2> DEFINE rows == {[id |-> New(k, c.id), doc |-> New(k, c.doc)] :
                        c \in {x \in template.clauses : x.id \in Mapped(k, "clause")}}
  <2>1. InsertRows(k, "clauses2", "clauses", rows, "chunks")
    BY <1>2 DEF InsertClauses
  <2>2. ASSUME NEW r \in rows PROVE \E d \in Mapped(k, "doc") : r.doc = New(k, d)
    <3>1. PICK c \in template.clauses :
             c.id \in Mapped(k, "clause") /\ r = [id |-> New(k, c.id), doc |-> New(k, c.doc)]
      OBVIOUS
    <3>2. c.doc \in Mapped(k, "doc")
      BY <3>1 DEF CloneOK, MapsOK, TypeInv, TemplateTyped, OwnedRow
    <3> QED
      BY <3>1, <3>2
  <2>3. ASSUME NEW c \in Mapped(k, "clause"), c \in Ids(template.clauses)
        PROVE  \E r \in rows : r.id = New(k, c)
    <3>1. PICK x \in template.clauses : x.id = c
      BY <2>3 DEF Ids
    <3>2. [id |-> New(k, x.id), doc |-> New(k, x.doc)] \in rows
      BY <3>1
    <3> QED
      BY <3>1, <3>2
  <2> HIDE DEF rows
  <2>4. /\ TypeInv' /\ OnlyHandler(k) /\ SameClick(k) /\ owner' = owner /\ touched' = touched
        /\ click[k].pc = "clauses2" /\ click'[k].pc = "chunks" /\ owner'[k] = None
        /\ Mapped(k, "doc")' = Mapped(k, "doc") /\ Mapped(k, "clause")' = Mapped(k, "clause")
        /\ adopted'[k].documents = adopted[k].documents /\ adopted'[k].clauses = rows /\ MapsOK(k)'
    BY <2>1, InsertKeeps
  <2>5. NewDocs(k)' = NewDocs(k) /\ template' = template
    BY <2>4 DEF NewDocs, OnlyHandler
  <2>6. RowsOK(k)'
    BY <2>2, <2>3, <2>4, <2>5 DEF CloneOK, RowsOK, NewClauses, Ids
  <2> QED
    BY <2>4, <2>6 DEF CloneOK
<1>3. CASE InsertChunks(k)
  <2> DEFINE rows == {[doc |-> New(k, c.doc), clause |-> New(k, c.clause)] :
                        c \in {x \in template.chunks : x.clause \in Mapped(k, "clause")}}
  <2>1. InsertRows(k, "chunks", "chunks", rows, "fields1")
    BY <1>3 DEF InsertChunks
  <2>2. ASSUME NEW r \in rows
        PROVE  \E d \in Mapped(k, "doc"), c \in Mapped(k, "clause") :
                  r.doc = New(k, d) /\ r.clause = New(k, c) /\ c \in Ids(template.clauses)
    <3>1. PICK c \in template.chunks :
             /\ c.clause \in Mapped(k, "clause")
             /\ r = [doc |-> New(k, c.doc), clause |-> New(k, c.clause)]
      OBVIOUS
    <3>2. c.doc \in Mapped(k, "doc") /\ c.clause \in Ids(template.clauses)
      BY <3>1 DEF CloneOK, MapsOK, TemplateInv, TemplateLinked
    <3> QED
      BY <3>1, <3>2
  <2> HIDE DEF rows
  <2>3. /\ TypeInv' /\ OnlyHandler(k) /\ SameClick(k) /\ owner' = owner /\ touched' = touched
        /\ click[k].pc = "chunks" /\ click'[k].pc = "fields1" /\ owner'[k] = None
        /\ Mapped(k, "doc")' = Mapped(k, "doc") /\ Mapped(k, "clause")' = Mapped(k, "clause")
        /\ adopted'[k].documents = adopted[k].documents
        /\ adopted'[k].clauses = adopted[k].clauses /\ adopted'[k].chunks = rows /\ MapsOK(k)'
    BY <2>1, InsertKeeps
  <2>4. NewDocs(k)' = NewDocs(k) /\ NewClauses(k)' = NewClauses(k) /\ template' = template
    BY <2>3 DEF NewDocs, NewClauses, OnlyHandler
  <2>5. RowsOK(k)'
    BY <2>2, <2>3, <2>4 DEF CloneOK, RowsOK
  <2> QED
    BY <2>3, <2>5 DEF CloneOK
<1>4. CASE InsertFields(k)
  <2> DEFINE rows == {[id |-> New(k, f.id), doc |-> New(k, f.doc), ver |-> f.ver] :
                        f \in {x \in template.fields : x.id \in Mapped(k, "field")}}
  <2>1. InsertRows(k, "fields2", "fields", rows, "citations")
    BY <1>4 DEF InsertFields
  <2>2. ASSUME NEW r \in rows PROVE \E d \in Mapped(k, "doc") : r.doc = New(k, d)
    <3>1. PICK f \in template.fields :
             /\ f.id \in Mapped(k, "field")
             /\ r = [id |-> New(k, f.id), doc |-> New(k, f.doc), ver |-> f.ver]
      OBVIOUS
    <3>2. f.doc \in Mapped(k, "doc")
      BY <3>1 DEF CloneOK, MapsOK, TypeInv, TemplateTyped, OwnedField
    <3> QED
      BY <3>1, <3>2
  <2>3. ASSUME NEW f \in Mapped(k, "field"), f \in Ids(template.fields)
        PROVE  \E r \in rows : r.id = New(k, f)
    <3>1. PICK x \in template.fields : x.id = f
      BY <2>3 DEF Ids
    <3>2. [id |-> New(k, x.id), doc |-> New(k, x.doc), ver |-> x.ver] \in rows
      BY <3>1
    <3> QED
      BY <3>1, <3>2
  <2> HIDE DEF rows
  <2>4. /\ TypeInv' /\ OnlyHandler(k) /\ SameClick(k) /\ owner' = owner /\ touched' = touched
        /\ click[k].pc = "fields2" /\ click'[k].pc = "citations" /\ owner'[k] = None
        /\ Mapped(k, "doc")' = Mapped(k, "doc") /\ Mapped(k, "clause")' = Mapped(k, "clause")
        /\ Mapped(k, "field")' = Mapped(k, "field")
        /\ adopted'[k].documents = adopted[k].documents
        /\ adopted'[k].clauses = adopted[k].clauses /\ adopted'[k].chunks = adopted[k].chunks
        /\ adopted'[k].fields = rows /\ MapsOK(k)'
    BY <2>1, InsertKeeps
  <2>5. NewDocs(k)' = NewDocs(k) /\ NewClauses(k)' = NewClauses(k) /\ template' = template
    BY <2>4 DEF NewDocs, NewClauses, OnlyHandler
  <2>6. RowsOK(k)'
    BY <2>2, <2>3, <2>4, <2>5 DEF CloneOK, RowsOK, NewFields, Ids
  <2> QED
    BY <2>4, <2>6 DEF CloneOK
<1>5. CASE InsertCitations(k)
  <2> DEFINE rows == {[doc |-> New(k, c.doc), field |-> New(k, c.field), clause |-> New(k, c.clause)] :
                        c \in {x \in template.citations : /\ x.field \in Mapped(k, "field")
                                                          /\ x.clause \in Mapped(k, "clause")}}
  <2>1. InsertRows(k, "citations", "citations", rows, "flags")
    BY <1>5 DEF InsertCitations
  <2>2. ASSUME NEW r \in rows
        PROVE  \E d \in Mapped(k, "doc"), c \in Mapped(k, "clause"), f \in Mapped(k, "field") :
                  /\ r.doc = New(k, d) /\ r.clause = New(k, c) /\ r.field = New(k, f)
                  /\ c \in Ids(template.clauses) /\ f \in Ids(template.fields)
    <3>1. PICK c \in template.citations :
             /\ c.clause \in Mapped(k, "clause") /\ c.field \in Mapped(k, "field")
             /\ r = [doc |-> New(k, c.doc), field |-> New(k, c.field), clause |-> New(k, c.clause)]
      OBVIOUS
    <3>2. c.doc \in Mapped(k, "doc") /\ c.clause \in Ids(template.clauses)
          /\ c.field \in Ids(template.fields)
      BY <3>1 DEF CloneOK, MapsOK, TemplateInv, TemplateLinked
    <3> QED
      BY <3>1, <3>2
  <2> HIDE DEF rows
  <2>3. /\ TypeInv' /\ OnlyHandler(k) /\ SameClick(k) /\ owner' = owner /\ touched' = touched
        /\ click[k].pc = "citations" /\ click'[k].pc = "flags" /\ owner'[k] = None
        /\ Mapped(k, "doc")' = Mapped(k, "doc") /\ Mapped(k, "clause")' = Mapped(k, "clause")
        /\ Mapped(k, "field")' = Mapped(k, "field")
        /\ adopted'[k].documents = adopted[k].documents
        /\ adopted'[k].clauses = adopted[k].clauses /\ adopted'[k].chunks = adopted[k].chunks
        /\ adopted'[k].fields = adopted[k].fields /\ adopted'[k].citations = rows /\ MapsOK(k)'
    BY <2>1, InsertKeeps
  <2>4. NewDocs(k)' = NewDocs(k) /\ NewClauses(k)' = NewClauses(k) /\ NewFields(k)' = NewFields(k)
        /\ template' = template
    BY <2>3 DEF NewDocs, NewClauses, NewFields, OnlyHandler
  <2>5. RowsOK(k)'
    BY <2>2, <2>3, <2>4 DEF CloneOK, RowsOK
  <2> QED
    BY <2>3, <2>5 DEF CloneOK
<1>6. CASE InsertFlags(k)
  <2> DEFINE rows == {[doc |-> New(k, f.doc),
                       clauses |-> {New(k, c) : c \in f.clauses \cap Mapped(k, "clause")}] :
                        f \in {x \in template.flags : x.doc \in Mapped(k, "doc")}}
  <2>1. InsertRows(k, "flags", "flags", rows, "commit")
    BY <1>6 DEF InsertFlags
  <2>2. ASSUME NEW r \in rows
        PROVE  /\ \E d \in Mapped(k, "doc") : r.doc = New(k, d)
               /\ \A n \in r.clauses :
                     \E c \in Mapped(k, "clause") : n = New(k, c) /\ c \in Ids(template.clauses)
    <3>1. PICK f \in template.flags :
             /\ f.doc \in Mapped(k, "doc")
             /\ r = [doc |-> New(k, f.doc),
                     clauses |-> {New(k, c) : c \in f.clauses \cap Mapped(k, "clause")}]
      OBVIOUS
    <3>2. \A c \in f.clauses : c \in Ids(template.clauses)
      BY DEF TemplateInv, TemplateLinked
    <3> QED
      BY <3>1, <3>2
  <2> HIDE DEF rows
  <2>3. /\ TypeInv' /\ OnlyHandler(k) /\ SameClick(k) /\ owner' = owner /\ touched' = touched
        /\ click[k].pc = "flags" /\ click'[k].pc = "commit" /\ owner'[k] = None
        /\ Mapped(k, "doc")' = Mapped(k, "doc") /\ Mapped(k, "clause")' = Mapped(k, "clause")
        /\ Mapped(k, "field")' = Mapped(k, "field")
        /\ adopted'[k].documents = adopted[k].documents
        /\ adopted'[k].clauses = adopted[k].clauses /\ adopted'[k].chunks = adopted[k].chunks
        /\ adopted'[k].fields = adopted[k].fields /\ adopted'[k].citations = adopted[k].citations
        /\ adopted'[k].flags = rows /\ MapsOK(k)'
    BY <2>1, InsertKeeps
  <2>4. NewDocs(k)' = NewDocs(k) /\ NewClauses(k)' = NewClauses(k) /\ NewFields(k)' = NewFields(k)
        /\ template' = template
    BY <2>3 DEF NewDocs, NewClauses, NewFields, OnlyHandler
  <2>5. \A r \in rows : r.doc \in NewDocs(k) /\ r.clauses \subseteq NewClauses(k)
    BY <2>2, <2>3 DEF CloneOK, RowsOK
  <2>6. RowsOK(k)'
    BY <2>3, <2>4, <2>5 DEF CloneOK, RowsOK
  <2> QED
    BY <2>3, <2>6 DEF CloneOK
<1> QED
    BY <1>1, <1>2, <1>3, <1>4, <1>5, <1>6 DEF Statements

LEMMA CommittedIsClosed ==
    ASSUME NEW k \in Clicks, CloneOK(k), click[k].pc = "commit"
    PROVE  Closed(adopted[k])
<1>1. /\ \A r \in adopted[k].clauses \cup adopted[k].chunks \cup adopted[k].fields
                    \cup adopted[k].citations \cup adopted[k].flags : r.doc \in NewDocs(k)
      /\ \A r \in adopted[k].chunks : r.clause \in NewClauses(k)
      /\ \A r \in adopted[k].citations : r.clause \in NewClauses(k) /\ r.field \in NewFields(k)
      /\ \A r \in adopted[k].flags : r.clauses \subseteq NewClauses(k)
    BY DEF CloneOK, RowsOK, MappedDocs, HasDocs, MappedClauses, HasClauses, HasChunks,
           MappedFields, HasFields, HasCitations, HasFlags, InTransaction
<1> QED
    BY <1>1 DEF Closed, NewDocs, NewClauses, NewFields, Tables

AdoptInv == TypeInv /\ TemplateInv /\ SlotOK /\ \A k \in Clicks : CloneOK(k)

(* A step of one handler, once what it does to its own click is known.     *)
LEMMA HandlerKeeps ==
    ASSUME AdoptInv, NEW k \in Clicks, TypeInv', OnlyHandler(k), SlotOK', CloneOK(k)'
    PROVE  AdoptInv'
<1>1. Kept
    BY KeptSame DEF OnlyHandler
<1>2. \A j \in Clicks \ {k} : CloneOK(j)'
    BY <1>1, CloneKept DEF AdoptInv, OnlyHandler
<1>3. TemplateInv'
    BY DEF AdoptInv, TemplateInv, TemplateLinked, IdsPast, Docs, Past, ClausesToCome,
           FieldsToCome, OnlyHandler
<1> QED
    BY <1>2, <1>3 DEF AdoptInv

LEMMA StatementsKeep ==
    ASSUME AdoptInv, NEW k \in Clicks, MapDocuments(k) \/ MapClauses(k) \/ MapFields(k) \/ Statements(k)
    PROVE  AdoptInv'
<1>1. TypeInv' /\ OnlyHandler(k) /\ SameClick(k) /\ owner' = owner
      /\ click[k].pc \in InTransaction /\ click'[k].pc \in InTransaction /\ CloneOK(k)'
    BY MapStatements, InsertStatements DEF AdoptInv
<1>2. /\ click'[k].tenant \in Tenants /\ click[k].pc \notin {"answered", "over", "none"}
      /\ click'[k].pc # "raced"
    BY <1>1 DEF AdoptInv, SlotOK, SameClick, InTransaction
<1>3. SlotOK'
    BY <1>1, <1>2, SlotWaits DEF AdoptInv, SameClick
<1> QED
    BY <1>1, <1>3, HandlerKeeps

LEMMA ClickKeeps ==
    ASSUME AdoptInv, NEW k \in Clicks, Click(k)
    PROVE  AdoptInv'
<1> DEFINE c == [NewClick EXCEPT !.pc = "existing", !.minted = cookie = None,
                                 !.tenant = IF cookie = None THEN k ELSE cookie]
<1>1. cookie \in Tenants \cup {None} /\ cookie' = cookie /\ click[k].pc = "none"
    BY DEF Click, AdoptInv, TypeInv, HandlersTyped, HandlerOnly
<1>2. c.pc = "existing" /\ c.tenant \in Tenants /\ c.map = {} /\ c.answer = None
    BY <1>1 DEF NewClick, Tenants
<1>3. c \in ClickType
  <2> DEFINE minted == (cookie = None)
             tenant == IF cookie = None THEN k ELSE cookie
  <2>1. minted \in BOOLEAN /\ tenant \in Tenants
    BY <1>1 DEF Tenants
  <2>2. c = [NewClick EXCEPT !.pc = "existing", !.minted = minted, !.tenant = tenant]
    OBVIOUS
  <2> HIDE DEF minted, tenant, c
  <2>3. NewClick \in ClickType
    BY DEF NewClick, ClickType, Pcs
  <2> QED
    BY <2>1, <2>2, <2>3 DEF ClickType, Pcs
<1>4. click' = [click EXCEPT ![k] = c]
    BY DEF Click
<1> HIDE DEF c
<1>5. click' \in [Clicks -> ClickType] /\ click'[k] = c /\ \A j \in Clicks \ {k} : click'[j] = click[j]
    BY <1>3, <1>4 DEF AdoptInv, TypeInv, HandlersTyped
<1>6. TypeInv' /\ OnlyHandler(k)
    BY <1>1, <1>2, <1>5 DEF Click, AdoptInv, TypeInv, HandlersTyped, HandlerOnly, seedVars,
                            TemplateTyped, IsRows, SeedOK, OnlyHandler
<1>7. owner[k] = None /\ click[k].answer \notin Clicks /\ owner' = owner
    BY <1>1 DEF AdoptInv, SlotOK, Click
<1>8. SlotOK'
  <2>1. click'[k].answer \notin Clicks
    BY <1>2, <1>5, AdoptionAssumption DEF AdoptionAssumption
  <2> QED
    BY <1>1, <1>2, <1>5, <1>6, <1>7, <2>1, SlotWaits DEF AdoptInv, InTransaction
<1>9. CloneOK(k)'
  <2>1. click'[k].pc \notin InTransaction
    BY <1>2, <1>5 DEF InTransaction
  <2> QED
    BY <2>1, <1>6, <1>7, CloneOutside
<1> QED
    BY <1>6, <1>8, <1>9, HandlerKeeps

LEMMA AnswersKeep ==
    ASSUME AdoptInv, NEW k \in Clicks,
           FindExisting(k) \/ InsertCase(k) \/ AnswerRaced(k) \/ AnswerArrives(k)
    PROVE  AdoptInv'
<1>1. ASSUME NEW a \in Clicks \cup {"503", "500"}, Answer(k, a), HandlerOnly,
             UNCHANGED <<owner, adopted, touched>>, click[k].pc \in {"existing", "raced"},
             a \in Clicks => a \in adoptedCase(click[k].tenant)
      PROVE  AdoptInv'
  <2>1. /\ TypeInv' /\ OnlyHandler(k) /\ click'[k].pc = "answered"
        /\ click'[k].tenant = click[k].tenant /\ click'[k].answer = a
    BY <1>1, AnswerFacts DEF AdoptInv, TypeInv, HandlersTyped
  <2>2. SlotOK'
    BY <1>1, <2>1, SlotAnswered DEF AdoptInv, adoptedCase
  <2>3. owner'[k] = None
    BY <1>1 DEF AdoptInv, SlotOK
  <2>4. CloneOK(k)'
    BY <2>1, <2>3, CloneOutside DEF InTransaction
  <2> QED
    BY <2>1, <2>2, <2>4, HandlerKeeps
<1>2. ASSUME NEW pc \in {"insert", "raced", "over"}, Go(k, pc), UNCHANGED <<seedVars, owner, adopted, touched>>,
             cookie' \in Tenants \cup {None},
             click[k].pc \notin InTransaction \cup {"none"},
             UNCHANGED deleted, click[k].pc \in {"answered", "over"} => pc = "over",
             pc = "raced" => \E c \in Clicks : owner[c] = click[k].tenant
      PROVE  AdoptInv'
  <2>1. click[k].map = {}
    BY <1>2 DEF AdoptInv, TypeInv, HandlersTyped
  <2>2. TypeInv' /\ OnlyHandler(k) /\ SameClick(k) /\ click'[k].pc = pc
    BY <1>2, <2>1, GoFacts DEF AdoptInv, TypeInv, HandlersTyped, Pcs, seedVars
  <2>3. click[k].tenant \in Tenants
    BY <1>2 DEF AdoptInv, SlotOK
  <2>4. SlotOK'
    BY <1>2, <2>2, <2>3, SlotWaits DEF AdoptInv, SameClick, InTransaction
  <2>5. CloneOK(k)'
    BY <1>2, <2>2, CloneOutside DEF AdoptInv, CloneOK, InTransaction
  <2> QED
    BY <2>2, <2>4, <2>5, HandlerKeeps
<1>3. ASSUME FindExisting(k) PROVE AdoptInv'
  <2>1. CASE \E c \in adoptedCase(click[k].tenant) : Answer(k, c)
    BY <1>1, <1>3, <2>1 DEF FindExisting, adoptedCase
  <2>2. CASE Answer(k, "503")
    BY <1>1, <1>3, <2>2, AdoptionAssumption DEF FindExisting, AdoptionAssumption
  <2>3. CASE Go(k, "insert")
    BY <1>2, <1>3, <2>3
    DEF FindExisting, HandlerOnly, AdoptInv, TypeInv, HandlersTyped, InTransaction
  <2> QED
    BY <1>3, <2>1, <2>2, <2>3 DEF FindExisting
<1>4. ASSUME AnswerRaced(k) PROVE AdoptInv'
  <2>1. CASE \E c \in adoptedCase(click[k].tenant) : Answer(k, c)
    BY <1>1, <1>4, <2>1 DEF AnswerRaced, adoptedCase
  <2>2. CASE Answer(k, "500")
    BY <1>1, <1>4, <2>2, AdoptionAssumption DEF AnswerRaced, AdoptionAssumption
  <2> QED
    BY <1>4, <2>1, <2>2 DEF AnswerRaced
<1>5. ASSUME AnswerArrives(k) PROVE AdoptInv'
  <2>1. cookie' \in Tenants \cup {None}
    BY <1>5 DEF AnswerArrives, AdoptInv, TypeInv, HandlersTyped, ClickType
  <2> QED
    BY <1>2, <1>5, <2>1 DEF AnswerArrives, InTransaction
<1>6. ASSUME InsertCase(k) PROVE AdoptInv'
  <2>1. CASE adoptedCase(click[k].tenant) # {}
    BY <1>2, <1>6, <2>1
    DEF adoptedCase, InsertCase, HandlerOnly, AdoptInv, TypeInv, HandlersTyped, InTransaction
  <2>2. CASE adoptedCase(click[k].tenant) = {}
    <3>1. Go(k, "documents1") /\ click[k].pc = "insert"
      BY <1>6, <2>2 DEF InsertCase
    <3>2. click[k].map = {} /\ owner[k] = None /\ click[k].tenant \in Tenants
      BY <3>1 DEF AdoptInv, TypeInv, HandlersTyped, SlotOK, InTransaction
    <3>3. TypeInv' /\ OnlyHandler(k) /\ SameClick(k) /\ click'[k].pc = "documents1"
          /\ click'[k].map = {}
      BY <1>6, <3>1, <3>2, GoFacts
      DEF InsertCase, HandlerOnly, seedVars, AdoptInv, TypeInv, HandlersTyped, Pcs, InTransaction
    <3>4. SlotOK'
      BY <1>6, <2>2, <3>1, <3>3, SlotTaken DEF InsertCase, AdoptInv, InTransaction
    <3>5. CloneOK(k)'
      <4>1. \A kind : Mapped(k, kind)' = {}
        BY <3>3 DEF Mapped
      <4>2. MapsOK(k)' /\ RowsOK(k)'
        BY <3>3, <4>1 DEF MapsOK, RowsOK, MappedDocs, HasDocs, MappedClauses, HasClauses,
                          HasChunks, MappedFields, HasFields, HasCitations, HasFlags
      <4> QED
        BY <1>6, <3>2, <4>2 DEF CloneOK, InsertCase
    <3> QED
      BY <3>3, <3>4, <3>5, HandlerKeeps
  <2> QED
    BY <2>1, <2>2
<1> QED
    BY <1>3, <1>4, <1>5, <1>6

LEMMA EndsKeep ==
    ASSUME AdoptInv, NEW k \in Clicks, CommitClone(k) \/ CloneFails(k)
    PROVE  AdoptInv'
<1>1. ASSUME CommitClone(k) PROVE AdoptInv'
  <2>1. owner' = [owner EXCEPT ![k] = click[k].tenant] /\ click[k].tenant \in Tenants
    BY <1>1 DEF CommitClone, AdoptInv, SlotOK
  <2>2. /\ TypeInv' /\ OnlyHandler(k) /\ click'[k].pc = "answered"
        /\ click'[k].tenant = click[k].tenant /\ click'[k].answer = k
    BY <1>1, <2>1, AnswerFacts DEF CommitClone, AdoptInv, TypeInv, HandlersTyped
  <2>3. SlotOK'
    BY <1>1, <2>1, <2>2, SlotKept DEF CommitClone, AdoptInv
  <2>4. CloneOK(k)'
    BY <1>1, <2>2, CommittedIsClosed, CloneOutside DEF CommitClone, AdoptInv, InTransaction
  <2> QED
    BY <2>2, <2>3, <2>4, HandlerKeeps
<1>2. ASSUME CloneFails(k) PROVE AdoptInv'
  <2>1. adopted' = [adopted EXCEPT ![k] = NoRows] /\ IsRows(NoRows)
    BY <1>2 DEF CloneFails, IsRows, NoRows
  <2>2. adopted' = [j \in Clicks |-> adopted'[j]] /\ IsRows(adopted'[k])
        /\ \A j \in Clicks \ {k} : adopted'[j] = adopted[j]
    BY <2>1 DEF AdoptInv, TypeInv, HandlersTyped
  <2>3. /\ TypeInv' /\ OnlyHandler(k) /\ click'[k].pc = "answered"
        /\ click'[k].tenant = click[k].tenant /\ click'[k].answer = "500"
    BY <1>2, <2>2, AnswerFacts DEF CloneFails, AdoptInv, TypeInv, HandlersTyped
  <2>4. SlotOK'
    BY <1>2, <2>3, SlotAnswered, AdoptionAssumption DEF CloneFails, AdoptInv, AdoptionAssumption
  <2>5. owner'[k] = None
    BY <1>2 DEF CloneFails, AdoptInv, SlotOK, InTransaction
  <2>6. CloneOK(k)'
    BY <2>3, <2>5, CloneOutside DEF InTransaction
  <2> QED
    BY <2>3, <2>4, <2>6, HandlerKeeps
<1> QED
    BY <1>1, <1>2

LEMMA DeletionKeeps ==
    ASSUME AdoptInv, NEW k \in Clicks, DeleteCase(k)
    PROVE  AdoptInv'
<1>1. /\ adopted' = [adopted EXCEPT ![k] = NoRows] /\ IsRows(NoRows)
      /\ owner' = [owner EXCEPT ![k] = None] /\ deleted' = deleted \cup {k}
      /\ UNCHANGED <<template, seed, cookie, click, touched>>
    BY DEF DeleteCase, IsRows, NoRows, seedVars
<1>2. /\ adopted' = [j \in Clicks |-> adopted'[j]] /\ IsRows(adopted'[k])
      /\ \A j \in Clicks \ {k} : adopted'[j] = adopted[j] /\ owner'[j] = owner[j]
      /\ owner' \in [Clicks -> Tenants \cup {None}] /\ owner'[k] = None
    BY <1>1 DEF AdoptInv, TypeInv, HandlersTyped
<1>3. TypeInv'
    BY <1>1, <1>2 DEF AdoptInv, TypeInv, TemplateTyped, SeedOK, HandlersTyped, IsRows
<1>4. SlotOK' /\ Kept
    BY <1>1, SlotDeleted, KeptSame DEF AdoptInv
<1>5. \A j \in Clicks \ {k} : CloneOK(j)'
    BY <1>1, <1>2, <1>4, CloneKept DEF AdoptInv
<1>6. click'[k].pc \notin InTransaction
    BY <1>1 DEF DeleteCase, AdoptInv, SlotOK, InTransaction
<1>7. CloneOK(k)'
    BY <1>2, <1>3, <1>6, CloneOutside
<1>8. TemplateInv'
    BY <1>1 DEF AdoptInv, TemplateInv, TemplateLinked, IdsPast, Docs, Past, ClausesToCome,
                FieldsToCome
<1> QED
    BY <1>3, <1>4, <1>5, <1>7, <1>8 DEF AdoptInv

LEMMA AdoptInit == Init => AdoptInv
<1> SUFFICES ASSUME Init PROVE AdoptInv
    OBVIOUS
<1>1. \A k \in Clicks : click[k] = NewClick /\ owner[k] = None
    BY DEF Init
<1>2. \A k \in Clicks : CloneOK(k)
    BY <1>1 DEF NewClick, CloneOK, MapsOK, RowsOK, Mapped, MappedDocs, HasDocs, MappedClauses,
                HasClauses, HasChunks, MappedFields, HasFields, HasCitations, HasFlags,
                InTransaction
<1> QED
    BY <1>2, TypeInit, TemplateInit, SlotInit DEF AdoptInv

LEMMA AdoptNext == AdoptInv /\ [Next]_vars => AdoptInv'
<1> SUFFICES ASSUME AdoptInv, [Next]_vars PROVE AdoptInv'
    OBVIOUS
<1>1. CASE UNCHANGED vars
  <2>1. UNCHANGED <<template, seed, cookie, click, owner, adopted, touched, deleted>>
    BY <1>1 DEF vars
  <2>2. TypeInv' /\ SlotOK'
    BY <2>1 DEF AdoptInv, TypeInv, TemplateTyped, SeedOK, HandlersTyped, IsRows, SlotOK, Holds, Won
  <2>3. TemplateInv'
    BY <2>1 DEF AdoptInv, TemplateInv, TemplateLinked, IdsPast, Docs, Past, ClausesToCome,
                FieldsToCome
  <2> QED
    BY <2>1, <2>2, <2>3, KeptSame, CloneKept DEF AdoptInv
<1>2. CASE SeedStep
  <2>1. UNCHANGED <<click, owner, adopted, deleted>>
    BY <1>2, SeedWrites DEF adoptVars
  <2>2. TypeInv' /\ TemplateInv' /\ Kept
    BY <1>2, SeedStepKeeps DEF AdoptInv
  <2>3. SlotOK'
    BY <2>1 DEF AdoptInv, SlotOK, Holds, Won
  <2> QED
    BY <2>1, <2>2, <2>3, CloneKept DEF AdoptInv
<1>3. ASSUME NEW k \in Clicks, Click(k) \/ Handler(k) \/ CloneFails(k) PROVE AdoptInv'
    BY <1>3, ClickKeeps, AnswersKeep, StatementsKeep, EndsKeep DEF Handler, Clone, Statements
<1>4. ASSUME NEW k \in Clicks, DeleteCase(k) PROVE AdoptInv'
    BY <1>4, DeletionKeeps
<1> QED
    BY <1>1, <1>2, <1>3, <1>4 DEF Next
-----------------------------------------------------------------------------
(***************************************************************************)
(* What a clone has of a template that nobody writes.                      *)
(***************************************************************************)
FaithOK(k) ==
    k \notin touched =>
       /\ click[k].pc \in MappedDocs => Mapped(k, "doc") = Docs
       /\ click[k].pc \in HasDocs => adopted[k].documents = Image(k).documents
       /\ click[k].pc \in MappedClauses => Mapped(k, "clause") = Ids(template.clauses)
       /\ click[k].pc \in HasClauses => adopted[k].clauses = Image(k).clauses
       /\ click[k].pc \in HasChunks => adopted[k].chunks = Image(k).chunks
       /\ click[k].pc \in MappedFields => Mapped(k, "field") = Ids(template.fields)
       /\ click[k].pc \in HasFields => adopted[k].fields = Image(k).fields
       /\ click[k].pc \in HasCitations => adopted[k].citations = Image(k).citations
       /\ click[k].pc \in HasFlags => adopted[k].flags = Image(k).flags

LEMMA FaithMaps ==
    ASSUME AdoptInv, NEW k \in Clicks, FaithOK(k), MapDocuments(k) \/ MapClauses(k) \/ MapFields(k)
    PROVE  FaithOK(k)'
<1> USE DEF MappedDocs, HasDocs, MappedClauses, HasClauses, HasChunks, MappedFields, HasFields,
            HasCitations, HasFlags, InTransaction, Kinds
<1> DEFINE docs == {d.doc : d \in template.documents}
           clauses == Ids({c \in template.clauses : c.doc \in Mapped(k, "doc")})
           fields == Ids({f \in template.fields : f.doc \in Mapped(k, "doc")})
<1>1. /\ docs \in SUBSET (Files \cup OldIds)
      /\ clauses \in SUBSET (Files \cup OldIds) /\ fields \in SUBSET (Files \cup OldIds)
    BY DEF AdoptInv, TypeInv, TemplateTyped, OwnedRow, OwnedField, Ids
<1>2. /\ docs = Docs
      /\ Mapped(k, "doc") = Docs => clauses = Ids(template.clauses) /\ fields = Ids(template.fields)
    BY DEF Docs, AdoptInv, TemplateInv, TemplateLinked, Ids
<1> HIDE DEF docs, clauses, fields
<1>3. CASE MapDocuments(k)
  <2>1. MapRows(k, "documents1", "doc", docs, "documents2")
    BY <1>3 DEF MapDocuments, docs
  <2>2. /\ OnlyHandler(k) /\ touched' = touched
        /\ click[k].pc = "documents1" /\ click'[k].pc = "documents2"
        /\ Mapped(k, "doc")' = Mapped(k, "doc") \cup docs
    BY <1>1, <2>1, MapFacts DEF AdoptInv
  <2>3. Mapped(k, "doc") = {} /\ Docs' = Docs
    BY <2>2 DEF AdoptInv, CloneOK, MapsOK, OnlyHandler, Docs
  <2> QED
    BY <1>2, <2>2, <2>3 DEF FaithOK
<1>4. CASE MapClauses(k)
  <2>1. MapRows(k, "clauses1", "clause", clauses, "clauses2")
    BY <1>4 DEF MapClauses, clauses
  <2>2. /\ OnlyHandler(k) /\ touched' = touched /\ adopted' = adopted
        /\ click[k].pc = "clauses1" /\ click'[k].pc = "clauses2"
        /\ Mapped(k, "clause")' = Mapped(k, "clause") \cup clauses
        /\ Mapped(k, "doc")' = Mapped(k, "doc")
    BY <1>1, <2>1, MapFacts DEF AdoptInv
  <2>3. Mapped(k, "clause") = {} /\ Docs' = Docs /\ template' = template /\ Image(k)' = Image(k)
    BY <2>2 DEF AdoptInv, CloneOK, MapsOK, OnlyHandler, Docs, Image
  <2> QED
    BY <1>2, <2>2, <2>3 DEF FaithOK
<1>5. CASE MapFields(k)
  <2>1. MapRows(k, "fields1", "field", fields, "fields2")
    BY <1>5 DEF MapFields, fields
  <2>2. /\ OnlyHandler(k) /\ touched' = touched /\ adopted' = adopted
        /\ click[k].pc = "fields1" /\ click'[k].pc = "fields2"
        /\ Mapped(k, "field")' = Mapped(k, "field") \cup fields
        /\ Mapped(k, "doc")' = Mapped(k, "doc") /\ Mapped(k, "clause")' = Mapped(k, "clause")
    BY <1>1, <2>1, MapFacts DEF AdoptInv
  <2>3. Mapped(k, "field") = {} /\ Docs' = Docs /\ template' = template /\ Image(k)' = Image(k)
    BY <2>2 DEF AdoptInv, CloneOK, MapsOK, OnlyHandler, Docs, Image
  <2> QED
    BY <1>2, <2>2, <2>3 DEF FaithOK
<1> QED
    BY <1>3, <1>4, <1>5

(* The filters of the statements let every row pass.                       *)
LEMMA NothingFiltered ==
    ASSUME AdoptInv, NEW k \in Clicks
    PROVE  /\ Mapped(k, "doc") = Docs =>
                /\ {x \in template.documents : x.doc \in Mapped(k, "doc")} = template.documents
                /\ {x \in template.flags : x.doc \in Mapped(k, "doc")} = template.flags
           /\ Mapped(k, "clause") = Ids(template.clauses) =>
                /\ {x \in template.clauses : x.id \in Mapped(k, "clause")} = template.clauses
                /\ {x \in template.chunks : x.clause \in Mapped(k, "clause")} = template.chunks
                /\ \A f \in template.flags : f.clauses \cap Mapped(k, "clause") = f.clauses
           /\ Mapped(k, "field") = Ids(template.fields) =>
                {x \in template.fields : x.id \in Mapped(k, "field")} = template.fields
           /\ Mapped(k, "field") = Ids(template.fields) /\ Mapped(k, "clause") = Ids(template.clauses) =>
                {x \in template.citations : /\ x.field \in Mapped(k, "field")
                                            /\ x.clause \in Mapped(k, "clause")} = template.citations
BY DEF AdoptInv, TemplateInv, TemplateLinked, Docs, Ids

LEMMA FaithInserts ==
    ASSUME AdoptInv, NEW k \in Clicks, FaithOK(k), Statements(k)
    PROVE  FaithOK(k)'
<1> USE DEF MappedDocs, HasDocs, MappedClauses, HasClauses, HasChunks, MappedFields, HasFields,
            HasCitations, HasFlags, InTransaction, Tables, Kinds
<1>1. ASSUME NEW pc \in InTransaction, NEW table \in Tables, NEW rows, NEW next \in InTransaction,
             InsertRows(k, pc, table, rows, next),
             (pc \in MappedDocs) = (next \in MappedDocs),
             (pc \in MappedClauses) = (next \in MappedClauses),
             (pc \in MappedFields) = (next \in MappedFields)
      PROVE  /\ click[k].pc = pc /\ click'[k].pc = next
             /\ template' = template /\ touched' = touched
             /\ Docs' = Docs /\ Image(k)' = Image(k)
             /\ Mapped(k, "doc")' = Mapped(k, "doc") /\ Mapped(k, "clause")' = Mapped(k, "clause")
             /\ Mapped(k, "field")' = Mapped(k, "field")
             /\ adopted'[k][table] = rows
             /\ \A t \in Tables \ {table} : adopted'[k][t] = adopted[k][t]
  <2>1. /\ OnlyHandler(k) /\ click[k].pc = pc /\ click'[k].pc = next /\ touched' = touched
        /\ \A kind \in Kinds : Mapped(k, kind)' = Mapped(k, kind)
        /\ adopted'[k][table] = rows
        /\ \A t \in Tables \ {table} : adopted'[k][t] = adopted[k][t]
    BY <1>1, InsertKeeps DEF AdoptInv
  <2>2. template' = template /\ Docs' = Docs /\ Image(k)' = Image(k)
    BY <2>1 DEF OnlyHandler, Docs, Image
  <2> QED
    BY <2>1, <2>2
<1>2. CASE InsertDocuments(k)
  <2> DEFINE rows == {[doc |-> New(k, d.doc), status |-> d.status] :
                        d \in {x \in template.documents : x.doc \in Mapped(k, "doc")}}
  <2>1. InsertRows(k, "documents2", "documents", rows, "clauses1")
    BY <1>2 DEF InsertDocuments
  <2>2. click[k].pc = "documents2"
    BY <2>1 DEF InsertRows
  <2>3. k \notin touched => rows = Image(k).documents
    BY <2>2, NothingFiltered DEF FaithOK, Image
  <2> HIDE DEF rows
  <2> QED
    BY <1>1, <2>1, <2>3 DEF FaithOK
<1>3. CASE InsertClauses(k)
  <2> DEFINE rows == {[id |-> New(k, c.id), doc |-> New(k, c.doc)] :
                        c \in {x \in template.clauses : x.id \in Mapped(k, "clause")}}
  <2>1. InsertRows(k, "clauses2", "clauses", rows, "chunks")
    BY <1>3 DEF InsertClauses
  <2>2. click[k].pc = "clauses2"
    BY <2>1 DEF InsertRows
  <2>3. k \notin touched => rows = Image(k).clauses
    BY <2>2, NothingFiltered DEF FaithOK, Image
  <2> HIDE DEF rows
  <2> QED
    BY <1>1, <2>1, <2>3 DEF FaithOK
<1>4. CASE InsertChunks(k)
  <2> DEFINE rows == {[doc |-> New(k, c.doc), clause |-> New(k, c.clause)] :
                        c \in {x \in template.chunks : x.clause \in Mapped(k, "clause")}}
  <2>1. InsertRows(k, "chunks", "chunks", rows, "fields1")
    BY <1>4 DEF InsertChunks
  <2>2. click[k].pc = "chunks"
    BY <2>1 DEF InsertRows
  <2>3. k \notin touched => rows = Image(k).chunks
    BY <2>2, NothingFiltered DEF FaithOK, Image
  <2> HIDE DEF rows
  <2> QED
    BY <1>1, <2>1, <2>3 DEF FaithOK
<1>5. CASE InsertFields(k)
  <2> DEFINE rows == {[id |-> New(k, f.id), doc |-> New(k, f.doc), ver |-> f.ver] :
                        f \in {x \in template.fields : x.id \in Mapped(k, "field")}}
  <2>1. InsertRows(k, "fields2", "fields", rows, "citations")
    BY <1>5 DEF InsertFields
  <2>2. click[k].pc = "fields2"
    BY <2>1 DEF InsertRows
  <2>3. k \notin touched => rows = Image(k).fields
    BY <2>2, NothingFiltered DEF FaithOK, Image
  <2> HIDE DEF rows
  <2> QED
    BY <1>1, <2>1, <2>3 DEF FaithOK
<1>6. CASE InsertCitations(k)
  <2> DEFINE rows == {[doc |-> New(k, c.doc), field |-> New(k, c.field), clause |-> New(k, c.clause)] :
                        c \in {x \in template.citations : /\ x.field \in Mapped(k, "field")
                                                          /\ x.clause \in Mapped(k, "clause")}}
  <2>1. InsertRows(k, "citations", "citations", rows, "flags")
    BY <1>6 DEF InsertCitations
  <2>2. click[k].pc = "citations"
    BY <2>1 DEF InsertRows
  <2>3. k \notin touched => rows = Image(k).citations
    BY <2>2, NothingFiltered DEF FaithOK, Image
  <2> HIDE DEF rows
  <2> QED
    BY <1>1, <2>1, <2>3 DEF FaithOK
<1>7. CASE InsertFlags(k)
  <2> DEFINE rows == {[doc |-> New(k, f.doc),
                       clauses |-> {New(k, c) : c \in f.clauses \cap Mapped(k, "clause")}] :
                        f \in {x \in template.flags : x.doc \in Mapped(k, "doc")}}
  <2>1. InsertRows(k, "flags", "flags", rows, "commit")
    BY <1>7 DEF InsertFlags
  <2>2. click[k].pc = "flags"
    BY <2>1 DEF InsertRows
  <2>3. k \notin touched => rows = Image(k).flags
    BY <2>2, NothingFiltered DEF FaithOK, Image
  <2> HIDE DEF rows
  <2> QED
    BY <1>1, <2>1, <2>3 DEF FaithOK
<1> QED
    BY <1>2, <1>3, <1>4, <1>5, <1>6, <1>7 DEF Statements

LEMMA FaithSame ==
    ASSUME NEW k \in Clicks, FaithOK(k), template' = template, click'[k] = click[k],
           adopted'[k] = adopted[k], k \in touched => k \in touched'
    PROVE  FaithOK(k)'
<1>1. Docs' = Docs /\ Image(k)' = Image(k) /\ \A kind : Mapped(k, kind)' = Mapped(k, kind)
    BY DEF Docs, Image, Mapped
<1> QED
    BY <1>1 DEF FaithOK

LEMMA FaithOutside ==
    ASSUME NEW k \in Clicks, click'[k].pc \notin MappedDocs
    PROVE  FaithOK(k)'
BY DEF FaithOK, HasDocs, MappedClauses, HasClauses, HasChunks, MappedFields, HasFields,
       HasCitations, HasFlags

LEMMA FaithNext ==
    AdoptInv /\ (\A k \in Clicks : FaithOK(k)) /\ [Next]_vars => \A k \in Clicks : FaithOK(k)'
<1> SUFFICES ASSUME AdoptInv, \A k \in Clicks : FaithOK(k), [Next]_vars, NEW k \in Clicks
             PROVE  FaithOK(k)'
    OBVIOUS
<1>1. CASE UNCHANGED vars
    BY <1>1, FaithSame DEF vars
<1>2. CASE SeedStep
  <2>1. UNCHANGED <<click, adopted>>
    BY <1>2, SeedWrites DEF adoptVars
  <2>2. \/ template' = template /\ touched' = touched
        \/ touched' = touched \cup {j \in Clicks : click[j].pc \in InTransaction}
    BY <1>2, SeedWrites
  <2>3. CASE template' = template /\ touched' = touched
    BY <2>1, <2>3, FaithSame
  <2>4. CASE touched' = touched \cup {j \in Clicks : click[j].pc \in InTransaction}
    <3>1. CASE click[k].pc \in InTransaction
      BY <2>4, <3>1 DEF FaithOK
    <3>2. CASE click[k].pc \notin InTransaction
      BY <2>1, <3>2, FaithOutside DEF MappedDocs
    <3> QED
      BY <3>1, <3>2
  <2> QED
    BY <2>2, <2>3, <2>4
<1>3. ASSUME NEW j \in Clicks, Click(j) \/ Handler(j) \/ CloneFails(j) PROVE FaithOK(k)'
  <2>1. CASE MapDocuments(j) \/ MapClauses(j) \/ MapFields(j) \/ Statements(j)
    <3>1. CASE j = k
      BY <2>1, <3>1, FaithMaps, FaithInserts
    <3>2. CASE j # k
      <4>1. OnlyHandler(j) /\ touched' = touched
        BY <2>1, MapStatements, InsertStatements DEF AdoptInv
      <4> QED
        BY <3>2, <4>1, FaithSame DEF OnlyHandler
    <3> QED
      BY <3>1, <3>2
  <2>2. CASE \/ Click(j) \/ FindExisting(j) \/ InsertCase(j) \/ AnswerRaced(j)
             \/ AnswerArrives(j) \/ CommitClone(j) \/ CloneFails(j)
    <3>1. /\ template' = template /\ touched' \in {touched, touched \ {j}}
          /\ \A i \in Clicks \ {j} : click'[i] = click[i] /\ adopted'[i] = adopted[i]
          /\ click'[j].pc \notin MappedDocs
      <4> USE DEF AdoptInv, TypeInv, HandlersTyped, ClickType, MappedDocs, InTransaction
      <4>1. ASSUME NEW a, Answer(j, a)
            PROVE  click'[j].pc = "answered" /\ \A i \in Clicks \ {j} : click'[i] = click[i]
        BY <4>1 DEF Answer
      <4>2. ASSUME NEW pc, Go(j, pc)
            PROVE  click'[j].pc = pc /\ \A i \in Clicks \ {j} : click'[i] = click[i]
        BY <4>2 DEF Go
      <4>3. CASE Click(j)
        <5>1. \A i \in Clicks \ {j} : click'[i] = click[i]
          BY <4>3 DEF Click
        <5>2. click'[j].pc = "existing"
          BY <4>3 DEF Click, NewClick
        <5> QED
          BY <4>3, <5>1, <5>2 DEF Click, HandlerOnly, seedVars
      <4>4. CASE FindExisting(j)
        BY <4>1, <4>2, <4>4 DEF FindExisting, HandlerOnly, seedVars
      <4>5. CASE InsertCase(j)
        BY <4>2, <4>5 DEF InsertCase, HandlerOnly, seedVars
      <4>6. CASE AnswerRaced(j)
        BY <4>1, <4>6 DEF AnswerRaced, HandlerOnly, seedVars
      <4>7. CASE AnswerArrives(j)
        BY <4>2, <4>7 DEF AnswerArrives, seedVars
      <4>8. CASE CommitClone(j)
        BY <4>1, <4>8 DEF CommitClone, HandlerOnly, seedVars
      <4>9. CASE CloneFails(j)
        BY <4>1, <4>9 DEF CloneFails, HandlerOnly, seedVars
      <4> QED
        BY <2>2, <4>3, <4>4, <4>5, <4>6, <4>7, <4>8, <4>9
    <3> QED
      BY <3>1, FaithSame, FaithOutside
  <2> QED
    BY <1>3, <2>1, <2>2 DEF Handler, Clone, Statements
<1>4. ASSUME NEW j \in Clicks, DeleteCase(j) PROVE FaithOK(k)'
  <2>1. UNCHANGED <<template, click, touched>> /\ \A i \in Clicks \ {j} : adopted'[i] = adopted[i]
    BY <1>4 DEF DeleteCase, seedVars, AdoptInv, TypeInv, HandlersTyped
  <2>2. click'[j].pc \notin MappedDocs
    BY <1>4, <2>1 DEF DeleteCase, AdoptInv, SlotOK, MappedDocs, InTransaction
  <2> QED
    BY <2>1, <2>2, FaithSame, FaithOutside
<1> QED
    BY <1>1, <1>2, <1>3, <1>4 DEF Next

(* The click that lost is answered with the case that is there.            *)
LEMMA RacedIsServed ==
    ASSUME AdoptInv, AdoptInv', [Next]_vars, NEW k \in Clicks,
           click[k].pc = "raced", click'[k].pc # "raced"
    PROVE  \/ click'[k].answer \in adoptedCase(click[k].tenant)
           \/ \E c \in deleted : click[c].tenant = click[k].tenant
<1>1. AnswerRaced(k)
  <2>1. ~UNCHANGED click
    OBVIOUS
  <2>2. ~SeedStep
    BY <2>1, SeedWrites DEF adoptVars
  <2>3. ASSUME NEW j \in Clicks, Click(j) \/ CloneFails(j) \/ Handler(j) PROVE AnswerRaced(k)
    <3>1. j = k
      <4>1. CASE Click(j)
        BY <4>1 DEF Click, AdoptInv, TypeInv, HandlersTyped
      <4>2. CASE FindExisting(j) \/ InsertCase(j) \/ AnswerRaced(j) \/ CommitClone(j)
                 \/ CloneFails(j) \/ AnswerArrives(j)
        BY <4>2 DEF FindExisting, InsertCase, AnswerRaced, CommitClone, CloneFails, AnswerArrives,
                    Answer, Go, AdoptInv, TypeInv, HandlersTyped
      <4>3. CASE MapDocuments(j) \/ MapClauses(j) \/ MapFields(j)
        BY <4>3 DEF MapDocuments, MapClauses, MapFields, MapRows, AdoptInv, TypeInv, HandlersTyped
      <4>4. CASE Statements(j)
        BY <4>4 DEF Statements, InsertDocuments, InsertClauses, InsertChunks, InsertFields,
                    InsertCitations, InsertFlags, InsertRows, Go, AdoptInv, TypeInv, HandlersTyped
      <4> QED
        BY <2>3, <4>1, <4>2, <4>3, <4>4 DEF Handler, Clone, Statements
    <3>2. ~Click(k) /\ ~FindExisting(k) /\ ~InsertCase(k) /\ ~CommitClone(k) /\ ~AnswerArrives(k)
          /\ ~CloneFails(k)
      BY DEF Click, FindExisting, InsertCase, CommitClone, AnswerArrives, CloneFails, InTransaction
    <3>3. ~MapDocuments(k) /\ ~MapClauses(k) /\ ~MapFields(k) /\ ~Statements(k)
      BY DEF MapDocuments, MapClauses, MapFields, MapRows, Statements, InsertDocuments,
             InsertClauses, InsertChunks, InsertFields, InsertCitations, InsertFlags, InsertRows
    <3> QED
      BY <2>3, <3>1, <3>2, <3>3 DEF Handler, Clone, Statements
  <2>4. ASSUME NEW j \in Clicks PROVE ~DeleteCase(j)
    BY <2>1 DEF DeleteCase
  <2> QED
    BY <2>1, <2>2, <2>3, <2>4 DEF Next, vars
<1>2. PICK c \in Clicks : Won(k, c)
    BY DEF AdoptInv, SlotOK
<1>3. CASE adoptedCase(click[k].tenant) = {}
    BY <1>2, <1>3 DEF Won, adoptedCase
<1>4. ASSUME NEW a \in adoptedCase(click[k].tenant), Answer(k, a)
      PROVE  click'[k].answer \in adoptedCase(click[k].tenant)
    BY <1>4 DEF Answer, AdoptInv, TypeInv, HandlersTyped, ClickType
<1> QED
    BY <1>1, <1>3, <1>4 DEF AnswerRaced

LEMMA CommittedIsFaithful ==
    ASSUME AdoptInv, NEW k \in Clicks, FaithOK(k), CommitClone(k), k \notin touched
    PROVE  adopted[k] = Image(k)
<1>1. /\ adopted[k].documents = Image(k).documents /\ adopted[k].clauses = Image(k).clauses
      /\ adopted[k].chunks = Image(k).chunks /\ adopted[k].fields = Image(k).fields
      /\ adopted[k].citations = Image(k).citations /\ adopted[k].flags = Image(k).flags
    BY DEF FaithOK, CommitClone, MappedDocs, HasDocs, MappedClauses, HasClauses, HasChunks,
           MappedFields, HasFields, HasCitations, HasFlags, InTransaction
<1>2. IsRows(adopted[k])
    BY DEF AdoptInv, TypeInv, HandlersTyped
<1>3. Image(k) = [t \in Tables |-> Image(k)[t]]
    BY DEF Image, Tables
<1>4. \A t \in Tables : adopted[k][t] = Image(k)[t]
    BY <1>1 DEF Tables
<1> QED
    BY <1>2, <1>3, <1>4 DEF IsRows

(* Adoption as a whole, for every number of clicks that race, of documents *)
(* and of seeding runs: a session has one demo case and is told of it; the *)
(* rows of the clone point at each other, in whatever states of the        *)
(* template they were read; and nothing of it is missing unless a script   *)
(* wrote meanwhile.                                                        *)
THEOREM AdoptionSound == Spec => AdoptionIsSound
<1> DEFINE Faithful == \A k \in Clicks : FaithOK(k)
<1>1. Init => AdoptInv /\ Faithful
  <2> SUFFICES ASSUME Init PROVE AdoptInv /\ Faithful
    OBVIOUS
  <2>1. \A k \in Clicks : click[k].pc = "none"
    BY DEF Init, NewClick
  <2>2. Faithful
    BY <2>1 DEF FaithOK, HasDocs, MappedClauses, HasClauses, HasChunks, MappedFields, HasFields,
                HasCitations, HasFlags, MappedDocs, InTransaction
  <2> QED
    BY <2>2, AdoptInit
<1>2. AdoptInv /\ Faithful /\ [Next]_vars => (AdoptInv /\ Faithful)'
    BY AdoptNext, FaithNext
<1>3. AdoptInv => TypeOK /\ OneDemoCase /\ AnsweredIsOwned /\ CloneIsClosed
    BY TypeImplies, SlotImplies DEF AdoptInv, CloneIsClosed, CloneOK
<1>5. AdoptInv /\ AdoptInv' /\ [Next]_vars =>
        [\A k \in Clicks : click[k].pc = "raced" /\ click'[k].pc # "raced" =>
            \/ click'[k].answer \in adoptedCase(click[k].tenant)
            \/ \E c \in deleted : click[c].tenant = click[k].tenant]_vars
    BY RacedIsServed
<1>4. AdoptInv /\ Faithful /\ [Next]_vars =>
        [\A k \in Clicks : CommitClone(k) /\ k \notin touched => adopted[k] = Image(k)]_vars
    BY CommittedIsFaithful
<1> QED
    BY <1>1, <1>2, <1>3, <1>4, <1>5, PTL DEF Spec, AdoptionIsSound, CloneIsFaithful, LoserIsServed
=============================================================================
