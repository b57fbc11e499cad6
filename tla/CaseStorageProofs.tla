-------------------------- MODULE CaseStorageProofs --------------------------
(***************************************************************************)
(* What the model checker found of CaseStorage for two sessions and three  *)
(* cases, proved for every number of them: the types, that a row loses its *)
(* file only to the accepted race, that the demo corpus stays whole, and   *)
(* that a case outgrows its cap by the uploads next to each other only.    *)
(***************************************************************************)
EXTENDS CaseStorage, FiniteSetTheorems, TLAPS

AllFiles == Files \cup TemplateFiles
UploadType ==
    [pc: {"idle", "put", "check", "insert"}, row: SUBSET Row, clear: BOOLEAN]
SweepType ==
    [pc: {"idle", "collect", "delete", "query", "unlink"},
     tenants: SUBSET Tenants, cases: SUBSET Cases, todo: SUBSET AllFiles]

LEMMA TypeInit == Init => TypeOK
BY CasesAssumption, HandlersAssumption
DEF Init, TypeOK, CasesAssumption, HandlersAssumption, IdleUpload, IdleSweep,
    TemplateRows, Row, Shas

LEMMA TypeStep == TypeOK /\ [Next]_vars => TypeOK'
<1> SUFFICES ASSUME TypeOK, [Next]_vars PROVE TypeOK'
    OBVIOUS
<1>1. ASSUME NEW t \in Tenants, Expire(t) \/ Refresh(t) PROVE TypeOK'
    BY <1>1 DEF TypeOK, Expire, Refresh
<1>2. ASSUME NEW c \in Cases, CreateCase(c) PROVE TypeOK'
    BY <1>2 DEF TypeOK, CreateCase
<1>3. ASSUME NEW c \in Cases, Adopt(c) PROVE TypeOK'
  <2>1. rows' \subseteq Row
    BY <1>3 DEF TypeOK, Adopt, RowsOf, Row
  <2> QED
    BY <1>3, <2>1 DEF TypeOK, Adopt
<1>4. ASSUME NEW u \in Uploaders, NEW c \in UploadCases, NEW f \in Files,
             BeginUpload(u, c, f)
      PROVE TypeOK'
  <2> DEFINE r == [case |-> c, file |-> f]
  <2>1. r \in Row /\ r.case \in UploadCases
    BY DEF Row, Cases
  <2>2. upload' = [upload EXCEPT ![u] = [pc |-> "put", row |-> {r}, clear |-> FALSE]]
    BY <1>4 DEF BeginUpload
  <2> HIDE DEF r
  <2>3. upload' \in [Uploaders -> UploadType]
    BY <2>1, <2>2 DEF TypeOK, UploadType
  <2>4. \A v \in Uploaders : upload'[v].pc # "idle" =>
          \E x \in Row : x.case \in UploadCases /\ upload'[v].row = {x}
    BY <2>1, <2>2 DEF TypeOK
  <2> QED
    BY <1>4, <2>3, <2>4 DEF TypeOK, BeginUpload, UploadType
<1>5. ASSUME NEW u \in Uploaders, PutBlob(u) PROVE TypeOK'
    BY <1>5 DEF TypeOK, PutBlob, Row, Doomed
<1>6. ASSUME NEW u \in Uploaders, CheckUpload(u) PROVE TypeOK'
    BY <1>6 DEF TypeOK, CheckUpload, IdleUpload
<1>7. ASSUME NEW u \in Uploaders, InsertDocument(u) PROVE TypeOK'
    BY <1>7 DEF TypeOK, InsertDocument, IdleUpload
<1>8. ASSUME NEW u \in Uploaders, AbortUpload(u) PROVE TypeOK'
    BY <1>8 DEF TypeOK, AbortUpload, IdleUpload
<1>9. ASSUME NEW r \in rows, ReadBlob(r) PROVE TypeOK'
    BY <1>9 DEF TypeOK, ReadBlob, Row, Shas
<1>10. ASSUME NEW h \in Shas, WriteSidecar(h) \/ AbortIngest(h) PROVE TypeOK'
    BY <1>10 DEF TypeOK, WriteSidecar, AbortIngest
<1>11. ASSUME NEW s \in Deleters, NEW c \in Cases, CollectCase(s, c) PROVE TypeOK'
    BY <1>11 DEF TypeOK, CollectCase, FilesOf, Row, Sweepers
<1>12. CASE SelectExpired
    BY <1>12 DEF TypeOK, SelectExpired, Sweepers
<1>13. CASE CollectTenants
    BY <1>13 DEF TypeOK, CollectTenants, FilesOf, Row, Sweepers
<1>14. ASSUME NEW s \in Sweepers, DeleteRows(s) PROVE TypeOK'
    BY <1>14 DEF TypeOK, DeleteRows, IdleSweep
<1>15. ASSUME NEW s \in Sweepers, QueryReferences(s) PROVE TypeOK'
  <2>1. sweep' \in [Sweepers -> SweepType]
    BY <1>15 DEF TypeOK, QueryReferences, SweepType, AllFiles
  <2>2. upload' \in [Uploaders -> UploadType]
    BY <1>15 DEF TypeOK, QueryReferences, UploadType
  <2>3. \A u \in Uploaders : upload'[u].pc = upload[u].pc /\ upload'[u].row = upload[u].row
    BY <1>15 DEF QueryReferences
  <2> QED
    BY <1>15, <2>1, <2>2, <2>3
    DEF TypeOK, QueryReferences, SweepType, UploadType, AllFiles
<1>16. ASSUME NEW s \in Sweepers, NEW f \in sweep[s].todo, Unlink(s, f) PROVE TypeOK'
    BY <1>16 DEF TypeOK, Unlink
<1>17. ASSUME NEW s \in Sweepers, EndSweep(s) \/ AbortSweep(s) PROVE TypeOK'
  <2>1. sweep' \in [Sweepers -> SweepType]
    <3>1. IdleSweep \in SweepType
      BY DEF IdleSweep, SweepType
    <3>2. sweep' = [sweep EXCEPT ![s] = IdleSweep]
      BY <1>17 DEF EndSweep, AbortSweep
    <3>3. sweep \in [Sweepers -> SweepType]
      BY DEF TypeOK, SweepType, AllFiles
    <3> QED
      BY <3>1, <3>2, <3>3
  <2> QED
    BY <1>17, <2>1 DEF TypeOK, EndSweep, AbortSweep, SweepType, AllFiles
<1>18. CASE UNCHANGED vars
    BY <1>18 DEF TypeOK, vars
<1> QED
    BY <1>1, <1>2, <1>3, <1>4, <1>5, <1>6, <1>7, <1>8, <1>9, <1>10, <1>11, <1>12,
       <1>13, <1>14, <1>15, <1>16, <1>17, <1>18
    DEF Next, UploadStep, SweepStep, PurgeStep, Sweepers

(* Every handler, at every step, keeps the rows, the files and its own     *)
(* record of its progress within their types.                              *)
THEOREM TypeCorrect == Spec => []TypeOK
BY TypeInit, TypeStep, PTL DEF Spec
-----------------------------------------------------------------------------
(***************************************************************************)
(* The strengthening.  What a row or an upload may count on is more than   *)
(* that its file is there: no sweep may be about to unlink it either.      *)
(***************************************************************************)
Kept(f) == f \in files /\ ~Doomed(f)

RowsKept == \A r \in rows \ raced : Kept(r.file)
UploadsKept ==
    \A u \in Uploaders :
        upload[u].pc \in {"check", "insert"} /\ upload[u].clear
            => \A r \in upload[u].row : Kept(r.file)
RacedAreUploads == \A r \in raced : r.case \in UploadCases
TemplateSpared ==
    /\ TemplateRows \subseteq rows
    /\ \A f \in TemplateFiles :
          /\ f.sha \in sidecars
          /\ \A s \in Sweepers : \A g \in sweep[s].todo :
                sweep[s].pc = "unlink" => g.sha # f.sha

StorageInv ==
    /\ TypeOK
    /\ RowsKept
    /\ UploadsKept
    /\ RacedAreUploads
    /\ TemplateSpared

LEMMA StorageInit == Init => StorageInv
<1> SUFFICES ASSUME Init PROVE StorageInv
    OBVIOUS
<1>1. TypeOK
    BY TypeInit
<1>2. \A s \in Sweepers : sweep[s].pc = "idle"
    BY DEF Init, IdleSweep
<1>3. \A u \in Uploaders : upload[u].pc = "idle"
    BY DEF Init, IdleUpload
<1>4. RowsKept
    BY <1>2 DEF Init, RowsKept, Kept, Doomed, TemplateRows
<1> QED
    BY <1>1, <1>2, <1>3, <1>4
    DEF Init, StorageInv, UploadsKept, RacedAreUploads, TemplateSpared

(* Steps that touch neither rows nor the disk and leave no sweep unlinking *)
(* what it did not unlink before.                                          *)
LEMMA KeptStep ==
    ASSUME StorageInv, TypeOK',
           UNCHANGED <<rows, files, sidecars, upload, raced>>,
           \A s \in Sweepers : sweep'[s].pc = "unlink"
               => sweep[s].pc = "unlink" /\ sweep'[s].todo \subseteq sweep[s].todo
    PROVE  StorageInv'
<1>1. \A f : Kept(f) => Kept(f)'
    BY DEF Kept, Doomed
<1> QED
    BY <1>1 DEF StorageInv, RowsKept, UploadsKept, RacedAreUploads, TemplateSpared

LEMMA StorageStep == StorageInv /\ [Next]_vars => StorageInv'
<1> SUFFICES ASSUME StorageInv, [Next]_vars PROVE StorageInv'
    OBVIOUS
<1>t. TypeOK /\ TypeOK'
    BY TypeStep DEF StorageInv
<1>s. sweep \in [Sweepers -> SweepType]
    BY <1>t DEF TypeOK, SweepType, AllFiles
<1>1. ASSUME \/ \E t \in Tenants : Expire(t) \/ Refresh(t)
             \/ \E c \in Cases : CreateCase(c)
             \/ \E r \in rows : ReadBlob(r)
             \/ \E h \in Shas : AbortIngest(h)
             \/ UNCHANGED vars
      PROVE StorageInv'
  <2>1. UNCHANGED <<rows, files, sidecars, upload, raced, sweep>>
    BY <1>1 DEF Expire, Refresh, CreateCase, ReadBlob, AbortIngest, vars
  <2> QED
    BY <1>t, <2>1, KeptStep
<1>2. ASSUME NEW c \in Cases, Adopt(c) PROVE StorageInv'
  <2>1. UNCHANGED <<files, sidecars, upload, raced, sweep>>
    BY <1>2 DEF Adopt
  <2>2. \A f : Kept(f) => Kept(f)'
    BY <2>1 DEF Kept, Doomed
  <2>3. rows \subseteq rows'
    BY <1>2 DEF Adopt
  <2>4. RowsKept'
    <3> SUFFICES ASSUME NEW r \in rows' \ raced PROVE Kept(r.file)'
      BY <2>1 DEF RowsKept
    <3>1. CASE r \in rows
      BY <3>1, <2>2 DEF StorageInv, RowsKept
    <3>2. CASE r \notin rows
      <4>1. PICK x \in RowsOf(Template) : r = [case |-> c, file |-> x.file]
        BY <1>2, <3>2 DEF Adopt
      <4>2. x \in rows /\ x \notin raced
        BY <4>1, CasesAssumption
        DEF CasesAssumption, RowsOf, StorageInv, RacedAreUploads, Cases
      <4> QED
        BY <4>1, <4>2, <2>2 DEF StorageInv, RowsKept
    <3> QED
      BY <3>1, <3>2
  <2> QED
    BY <1>t, <2>1, <2>2, <2>3, <2>4
    DEF StorageInv, UploadsKept, RacedAreUploads, TemplateSpared
<1>3. ASSUME NEW u \in Uploaders, NEW c \in UploadCases, NEW f \in Files,
             BeginUpload(u, c, f)
      PROVE StorageInv'
  <2>1. UNCHANGED <<rows, files, sidecars, raced, sweep>>
    BY <1>3 DEF BeginUpload
  <2>2. UploadsKept'
    BY <1>3, <1>t DEF BeginUpload, StorageInv, UploadsKept, Kept, Doomed, TypeOK
  <2> QED
    BY <1>t, <2>1, <2>2
    DEF StorageInv, RowsKept, Kept, Doomed, RacedAreUploads, TemplateSpared
<1>4. ASSUME NEW u \in Uploaders, PutBlob(u) PROVE StorageInv'
  <2>1. UNCHANGED <<rows, sidecars, raced, sweep>> /\ files \subseteq files'
    BY <1>4 DEF PutBlob
  <2>2. \A f : Kept(f) => Kept(f)'
    BY <2>1 DEF Kept, Doomed
  <2>3. UploadsKept'
    <3> SUFFICES ASSUME NEW v \in Uploaders, NEW r \in upload'[v].row,
                        upload'[v].pc \in {"check", "insert"}, upload'[v].clear
                 PROVE  Kept(r.file)'
      BY DEF UploadsKept
    <3>1. CASE v # u
      BY <3>1, <1>4, <1>t, <2>2 DEF PutBlob, StorageInv, UploadsKept, TypeOK
    <3>2. CASE v = u
      <4>1. /\ r \in upload[u].row
            /\ \A x \in upload[u].row : ~Doomed(x.file)
        BY <3>2, <1>4, <1>t DEF PutBlob, TypeOK
      <4> QED
        BY <4>1, <1>4, <2>1 DEF PutBlob, Kept, Doomed
    <3> QED
      BY <3>1, <3>2
  <2> QED
    BY <1>t, <2>1, <2>2, <2>3
    DEF StorageInv, RowsKept, RacedAreUploads, TemplateSpared
<1>5. ASSUME NEW u \in Uploaders, CheckUpload(u) \/ AbortUpload(u)
      PROVE StorageInv'
  <2>1. UNCHANGED <<rows, files, sidecars, raced, sweep>>
    BY <1>5 DEF CheckUpload, AbortUpload
  <2>2. \A v \in Uploaders :
          \/ upload'[v].pc = "idle"
          \/ /\ upload'[v].row = upload[v].row /\ upload'[v].clear = upload[v].clear
             /\ upload[v].pc \in {"check", "insert"} \/ upload'[v] = upload[v]
    BY <1>5, <1>t DEF CheckUpload, AbortUpload, IdleUpload, TypeOK
  <2>3. UploadsKept'
    BY <2>1, <2>2 DEF StorageInv, UploadsKept, Kept, Doomed
  <2> QED
    BY <1>t, <2>1, <2>3
    DEF StorageInv, RowsKept, Kept, Doomed, RacedAreUploads, TemplateSpared
<1>6. ASSUME NEW u \in Uploaders, InsertDocument(u) PROVE StorageInv'
  <2>1. UNCHANGED <<files, sidecars, sweep>>
    BY <1>6 DEF InsertDocument
  <2>2. \A f : Kept(f) => Kept(f)'
    BY <2>1 DEF Kept, Doomed
  <2>3. PICK r \in upload[u].row :
          /\ rows' = rows \cup {r} \/ rows' = rows
          /\ raced' = IF rows' = rows \cup {r} /\ r \notin rows /\ ~upload[u].clear
                      THEN raced \cup {r} ELSE raced
    BY <1>6 DEF InsertDocument, RowsOf
  <2>4. r.case \in UploadCases
    BY <2>3, <1>6, <1>t DEF TypeOK, InsertDocument
  <2>5. RacedAreUploads'
    BY <2>3, <2>4 DEF StorageInv, RacedAreUploads
  <2>6. RowsKept'
    <3> SUFFICES ASSUME NEW x \in rows' \ raced' PROVE Kept(x.file)'
      BY DEF RowsKept
    <3>1. CASE x \in rows
      BY <3>1, <2>2, <2>3 DEF StorageInv, RowsKept
    <3>2. CASE x \notin rows
      <4>1. x = r /\ upload[u].clear
        BY <3>2, <2>3, <1>t DEF TypeOK
      <4> QED
        BY <4>1, <2>2, <1>6 DEF StorageInv, UploadsKept, InsertDocument
    <3> QED
      BY <3>1, <3>2
  <2>7. UploadsKept'
    <3>1. \A v \in Uploaders : upload'[v].pc = "idle" \/ upload'[v] = upload[v]
      BY <1>6, <1>t DEF InsertDocument, IdleUpload, TypeOK
    <3> QED
      BY <3>1, <2>2 DEF StorageInv, UploadsKept
  <2> QED
    BY <1>t, <2>1, <2>3, <2>5, <2>6, <2>7 DEF StorageInv, TemplateSpared
<1>7. ASSUME NEW h \in Shas, WriteSidecar(h) PROVE StorageInv'
  <2>1. UNCHANGED <<rows, files, upload, raced, sweep>> /\ sidecars \subseteq sidecars'
    BY <1>7 DEF WriteSidecar
  <2> QED
    BY <1>t, <2>1
    DEF StorageInv, RowsKept, UploadsKept, Kept, Doomed, RacedAreUploads, TemplateSpared
<1>8. ASSUME \/ \E s \in Deleters, c \in Cases : CollectCase(s, c)
             \/ SelectExpired
             \/ CollectTenants
             \/ \E s \in Sweepers : EndSweep(s) \/ AbortSweep(s)
      PROVE StorageInv'
  <2>1. UNCHANGED <<rows, files, sidecars, upload, raced>>
    BY <1>8 DEF CollectCase, SelectExpired, CollectTenants, EndSweep, AbortSweep
  <2>2. \A s \in Sweepers : sweep'[s] = sweep[s] \/ sweep'[s].pc # "unlink"
    <3>1. ASSUME NEW z \in Sweepers, NEW w, w.pc # "unlink",
                 sweep' = [sweep EXCEPT ![z] = w]
          PROVE  \A s \in Sweepers : sweep'[s] = sweep[s] \/ sweep'[s].pc # "unlink"
      BY <3>1, <1>s
    <3>2. ASSUME NEW s \in Deleters, NEW c \in Cases, CollectCase(s, c)
          PROVE  \A z \in Sweepers : sweep'[z] = sweep[z] \/ sweep'[z].pc # "unlink"
      BY <3>2, <3>1 DEF CollectCase, Sweepers
    <3>3. CASE SelectExpired
      BY <3>3, <3>1 DEF SelectExpired, Sweepers
    <3>4. CASE CollectTenants
      BY <3>4, <3>1 DEF CollectTenants, Sweepers
    <3>5. ASSUME NEW s \in Sweepers, EndSweep(s) \/ AbortSweep(s)
          PROVE  \A z \in Sweepers : sweep'[z] = sweep[z] \/ sweep'[z].pc # "unlink"
      BY <3>5, <3>1 DEF EndSweep, AbortSweep, IdleSweep
    <3> QED
      BY <1>8, <3>2, <3>3, <3>4, <3>5
  <2> QED
    BY <1>t, <2>1, <2>2, KeptStep
<1>9. ASSUME NEW s \in Sweepers, DeleteRows(s) PROVE StorageInv'
  <2>1. UNCHANGED <<files, sidecars, upload>>
    BY <1>9 DEF DeleteRows
  <2>2. \A z \in Sweepers : sweep'[z] = sweep[z] \/ sweep'[z].pc # "unlink"
    BY <1>9, <1>s DEF DeleteRows, IdleSweep
  <2>3. \A f : Kept(f) => Kept(f)'
    BY <2>1, <2>2 DEF Kept, Doomed
  <2>4. PICK gone \in SUBSET Cases :
          /\ rows' = {r \in rows : r.case \notin gone}
          /\ raced' = {r \in raced : r.case \notin gone}
    <3>1. sweep[s].cases \subseteq Cases
      BY <1>s DEF SweepType
    <3> QED
      BY <1>9, <3>1 DEF DeleteRows
  <2>5. TemplateRows \subseteq rows'
    BY <2>4, CasesAssumption
    DEF CasesAssumption, StorageInv, TemplateSpared, TemplateRows
  <2>6. RowsKept'
    BY <2>3, <2>4 DEF StorageInv, RowsKept
  <2>7. TemplateSpared'
    BY <2>1, <2>2, <2>5 DEF StorageInv, TemplateSpared
  <2> QED
    BY <1>t, <2>1, <2>3, <2>4, <2>6, <2>7 DEF StorageInv, UploadsKept, RacedAreUploads
<1>10. ASSUME NEW s \in Sweepers, QueryReferences(s) PROVE StorageInv'
  <2> DEFINE doomed == {f \in sweep[s].todo : f.sha \notin Referenced}
  <2>1. UNCHANGED <<rows, files, sidecars, raced>>
    BY <1>10 DEF QueryReferences
  <2>2. \A z \in Sweepers : z # s => sweep'[z] = sweep[z]
    BY <1>10, <1>s DEF QueryReferences
  <2>3. sweep'[s].todo = doomed
    BY <1>10, <1>s DEF QueryReferences
  <2>4. \A f : Kept(f) /\ f \notin doomed => Kept(f)'
    BY <2>1, <2>2, <2>3 DEF Kept, Doomed
  <2>5. RowsKept'
    BY <2>1, <2>4 DEF StorageInv, RowsKept, Referenced
  <2>6. \A u \in Uploaders :
          /\ upload'[u].pc = upload[u].pc
          /\ upload'[u].row = upload[u].row
          /\ upload'[u].clear =>
                upload[u].clear /\ \A r \in upload[u].row : r.file \notin doomed
    BY <1>10 DEF QueryReferences
  <2>7. UploadsKept'
    BY <2>4, <2>6 DEF StorageInv, UploadsKept
  <2>8. \A f \in TemplateFiles : f.sha \in Referenced
    <3> SUFFICES ASSUME NEW f \in TemplateFiles PROVE f.sha \in Referenced
      OBVIOUS
    <3>1. [case |-> Template, file |-> f] \in rows
      BY DEF StorageInv, TemplateSpared, TemplateRows
    <3> QED
      BY <3>1 DEF Referenced
  <2>9. TemplateSpared'
    BY <2>1, <2>2, <2>3, <2>8 DEF StorageInv, TemplateSpared, TemplateRows
  <2> QED
    BY <1>t, <2>1, <2>5, <2>7, <2>9 DEF StorageInv, RacedAreUploads
<1>11. ASSUME NEW s \in Sweepers, NEW g \in sweep[s].todo, Unlink(s, g)
       PROVE StorageInv'
  <2>1. UNCHANGED <<rows, upload, raced>>
    BY <1>11 DEF Unlink
  <2>2. \A z \in Sweepers : sweep'[z].pc = sweep[z].pc /\ sweep'[z].todo \subseteq sweep[z].todo
    BY <1>11, <1>s DEF Unlink
  <2>3. Doomed(g) /\ files \ {g} \subseteq files'
    BY <1>11 DEF Unlink, Doomed
  <2>4. \A f : Kept(f) => Kept(f)'
    BY <2>2, <2>3 DEF Kept, Doomed
  <2>5. \A f \in TemplateFiles : f.sha # g.sha
    BY <1>11 DEF Unlink, StorageInv, TemplateSpared
  <2>6. TemplateSpared'
    BY <1>11, <2>1, <2>2, <2>5 DEF Unlink, StorageInv, TemplateSpared, TemplateRows
  <2> QED
    BY <1>t, <2>1, <2>4, <2>6
    DEF StorageInv, RowsKept, UploadsKept, RacedAreUploads
<1> QED
    BY <1>1, <1>2, <1>3, <1>4, <1>5, <1>6, <1>7, <1>8, <1>9, <1>10, <1>11
    DEF Next, UploadStep, SweepStep, PurgeStep, Sweepers

LEMMA StorageAlways == Spec => []StorageInv
BY StorageInit, StorageStep, PTL DEF Spec

(* A row whose upload was not crossed by the query of a sweep that went on *)
(* to unlink its file has its bytes, for any number of visitors, handlers  *)
(* and sweeps: the race sweep.ts accepts is the only way to lose them.     *)
THEOREM OnlyTheRaceLosesBytes == Spec => []BytesUnlessRaced
<1>1. StorageInv => BytesUnlessRaced
    BY DEF StorageInv, RowsKept, Kept, BytesUnlessRaced
<1> QED
    BY <1>1, StorageAlways, PTL

(* No deletion and no purge ever takes a row, a file or the geometry of    *)
(* the demo template.                                                      *)
THEOREM TemplateStays == Spec => []TemplateIntact
<1>1. StorageInv => TemplateIntact
  <2> SUFFICES ASSUME StorageInv PROVE TemplateIntact
    OBVIOUS
  <2>1. ASSUME NEW f \in TemplateFiles PROVE f \in files /\ f.sha \in sidecars
    <3> DEFINE r == [case |-> Template, file |-> f]
    <3>1. r \in rows
      BY DEF StorageInv, TemplateSpared, TemplateRows
    <3>2. r \notin raced
      BY CasesAssumption DEF CasesAssumption, StorageInv, RacedAreUploads, Cases
    <3> QED
      BY <3>1, <3>2 DEF StorageInv, RowsKept, Kept, TemplateSpared
  <2> QED
    BY <2>1 DEF StorageInv, TemplateSpared, TemplateIntact
<1> QED
    BY <1>1, StorageAlways, PTL
-----------------------------------------------------------------------------
(***************************************************************************)
(* The cap.  Counting the rows of a case is not inductive: an upload that  *)
(* has passed the check inserts whatever was inserted since.  What no step *)
(* can raise past the bound is the rows together with those uploads: the   *)
(* one that passes the check sees a case with room and joins at most all   *)
(* the others, and an insert only moves one from the uploads to the rows.  *)
(***************************************************************************)
Inserting(c) ==
    {u \in Uploaders : upload[u].pc = "insert" /\ \E r \in upload[u].row : r.case = c}

Within(c) ==
    /\ IsFiniteSet(RowsOf(c))
    /\ Cardinality(RowsOf(c)) + Cardinality(Inserting(c))
           <= MaxDocuments + Cardinality(Uploaders) - 1

CapInv == \A c \in UploadCases : Within(c)

LEMMA CapInit == Init => CapInv
<1> SUFFICES ASSUME Init, NEW c \in UploadCases PROVE Within(c)
    BY DEF CapInv
<1>1. RowsOf(c) = {}
    BY CasesAssumption DEF CasesAssumption, Init, RowsOf, TemplateRows, Cases
<1>2. Inserting(c) = {}
    BY DEF Init, Inserting, IdleUpload
<1>3. Cardinality(Uploaders) \in Nat /\ Cardinality(Uploaders) # 0
    BY HandlersAssumption, FS_CardinalityType, FS_EmptySet DEF HandlersAssumption
<1> QED
    BY <1>1, <1>2, <1>3, FS_EmptySet, HandlersAssumption DEF Within, HandlersAssumption

(* Of no more rows and no more uploads the sum is no more.                 *)
LEMMA Shrinks ==
    ASSUME NEW c, Within(c), RowsOf(c)' \subseteq RowsOf(c),
           Inserting(c)' \subseteq Inserting(c)
    PROVE  Within(c)'
<1>1. IsFiniteSet(Inserting(c))
    BY HandlersAssumption, FS_Subset DEF HandlersAssumption, Inserting
<1>2. /\ IsFiniteSet(RowsOf(c)')
      /\ Cardinality(RowsOf(c)') <= Cardinality(RowsOf(c))
    BY FS_Subset DEF Within
<1>3. /\ IsFiniteSet(Inserting(c)')
      /\ Cardinality(Inserting(c)') <= Cardinality(Inserting(c))
    BY <1>1, FS_Subset
<1>4. /\ Cardinality(RowsOf(c)) \in Nat /\ Cardinality(RowsOf(c)') \in Nat
      /\ Cardinality(Inserting(c)) \in Nat /\ Cardinality(Inserting(c)') \in Nat
      /\ Cardinality(Uploaders) \in Nat /\ MaxDocuments \in Nat
    BY <1>1, <1>2, <1>3, FS_CardinalityType, HandlersAssumption
    DEF Within, HandlersAssumption
<1> QED
    BY <1>2, <1>3, <1>4 DEF Within

LEMMA CapCheck ==
    ASSUME TypeOK, CapInv, NEW u \in Uploaders, CheckUpload(u), NEW c \in UploadCases
    PROVE  Within(c)'
<1>1. RowsOf(c)' = RowsOf(c)
    BY DEF CheckUpload, RowsOf
<1>2. Within(c)
    BY DEF CapInv
<1>3. PICK r \in Row : upload[u].row = {r}
    BY DEF CheckUpload, TypeOK
<1>4. upload' = [upload EXCEPT ![u] = IdleUpload]
      \/ /\ ~(Cardinality(RowsOf(r.case)) >= MaxDocuments)
         /\ upload' = [upload EXCEPT ![u] =
                [pc |-> "insert", row |-> upload[u].row, clear |-> upload[u].clear]]
    BY <1>3 DEF CheckUpload
<1>5. CASE Inserting(c)' \subseteq Inserting(c)
    BY <1>1, <1>2, <1>5, Shrinks
<1>6. CASE ~(Inserting(c)' \subseteq Inserting(c))
  <2>1. \A v \in Uploaders : v # u => upload'[v] = upload[v]
    BY <1>4 DEF TypeOK
  <2>2. u \in Inserting(c)'
    BY <1>6, <2>1 DEF Inserting
  <2>3. upload'[u].pc = "insert" /\ \E x \in upload'[u].row : x.case = c
    BY <2>2 DEF Inserting
  <2>4. upload' # [upload EXCEPT ![u] = IdleUpload]
    BY <2>3 DEF TypeOK, IdleUpload
  <2>5. r.case = c /\ ~(Cardinality(RowsOf(c)) >= MaxDocuments)
    BY <1>3, <1>4, <2>3, <2>4 DEF TypeOK
  <2>6. /\ IsFiniteSet(Inserting(c)')
        /\ Cardinality(Inserting(c)') <= Cardinality(Uploaders)
    BY HandlersAssumption, FS_Subset DEF HandlersAssumption, Inserting
  <2>7. /\ Cardinality(RowsOf(c)) \in Nat /\ Cardinality(Inserting(c)') \in Nat
        /\ Cardinality(Uploaders) \in Nat /\ MaxDocuments \in Nat
    BY <1>2, <2>6, FS_CardinalityType, HandlersAssumption DEF Within, HandlersAssumption
  <2> QED
    BY <1>1, <1>2, <2>5, <2>6, <2>7 DEF Within
<1> QED
    BY <1>5, <1>6

LEMMA CapInsert ==
    ASSUME TypeOK, CapInv, NEW u \in Uploaders, InsertDocument(u), NEW c \in UploadCases
    PROVE  Within(c)'
<1>1. Within(c)
    BY DEF CapInv
<1>2. PICK r \in Row : upload[u].row = {r}
    BY DEF InsertDocument, TypeOK
<1>3. /\ rows' = rows \/ rows' = rows \cup {r}
      /\ upload[u].pc = "insert"
      /\ upload' = [upload EXCEPT ![u] = IdleUpload]
    BY <1>2 DEF InsertDocument
<1>4. Inserting(c)' \subseteq Inserting(c) /\ u \notin Inserting(c)'
    BY <1>3 DEF Inserting, TypeOK, IdleUpload
<1>5. CASE RowsOf(c)' \subseteq RowsOf(c)
    BY <1>1, <1>4, <1>5, Shrinks
<1>6. CASE ~(RowsOf(c)' \subseteq RowsOf(c))
  <2>1. r.case = c /\ RowsOf(c)' = RowsOf(c) \cup {r} /\ r \notin RowsOf(c)
    BY <1>3, <1>6 DEF RowsOf
  <2>2. u \in Inserting(c)
    BY <1>2, <1>3, <2>1 DEF Inserting
  <2>3. IsFiniteSet(Inserting(c))
    BY HandlersAssumption, FS_Subset DEF HandlersAssumption, Inserting
  <2>4. /\ IsFiniteSet(RowsOf(c)')
        /\ Cardinality(RowsOf(c)') = Cardinality(RowsOf(c)) + 1
    BY <1>1, <2>1, FS_AddElement DEF Within
  <2>5. /\ IsFiniteSet(Inserting(c) \ {u})
        /\ Cardinality(Inserting(c) \ {u}) = Cardinality(Inserting(c)) - 1
    BY <2>2, <2>3, FS_RemoveElement
  <2>6. /\ IsFiniteSet(Inserting(c)')
        /\ Cardinality(Inserting(c)') <= Cardinality(Inserting(c) \ {u})
    BY <1>4, <2>5, FS_Subset
  <2>7. /\ Cardinality(RowsOf(c)) \in Nat /\ Cardinality(Inserting(c)) \in Nat
        /\ Cardinality(Inserting(c)') \in Nat
        /\ Cardinality(Uploaders) \in Nat /\ MaxDocuments \in Nat
    BY <1>1, <2>3, <2>6, FS_CardinalityType, HandlersAssumption
    DEF Within, HandlersAssumption
  <2> QED
    BY <1>1, <2>4, <2>5, <2>6, <2>7 DEF Within
<1> QED
    BY <1>5, <1>6

LEMMA CapStep == TypeOK /\ CapInv /\ [Next]_vars => CapInv'
<1> SUFFICES ASSUME TypeOK, CapInv, [Next]_vars, NEW c \in UploadCases PROVE Within(c)'
    BY DEF CapInv
<1>1. Within(c)
    BY DEF CapInv
<1>2. ASSUME UNCHANGED <<rows, upload>> PROVE Within(c)'
    BY <1>1, <1>2, Shrinks DEF RowsOf, Inserting
<1>3. ASSUME NEW d \in Cases, Adopt(d) PROVE Within(c)'
  <2>1. d # c
    BY <1>3, CasesAssumption DEF CasesAssumption, Adopt
  <2>2. RowsOf(c)' = RowsOf(c) /\ Inserting(c)' = Inserting(c)
    BY <1>3, <2>1 DEF Adopt, RowsOf, Inserting
  <2> QED
    BY <1>1, <2>2, Shrinks
<1>4. ASSUME NEW u \in Uploaders,
             PutBlob(u) \/ AbortUpload(u)
                 \/ \E d \in UploadCases, f \in Files : BeginUpload(u, d, f)
      PROVE  Within(c)'
  <2>1. rows' = rows
    BY <1>4 DEF PutBlob, AbortUpload, BeginUpload
  <2>2. \A v \in Uploaders : upload'[v] = upload[v] \/ upload'[v].pc # "insert"
    BY <1>4 DEF PutBlob, AbortUpload, BeginUpload, IdleUpload, TypeOK
  <2> QED
    BY <1>1, <2>1, <2>2, Shrinks DEF RowsOf, Inserting
<1>5. ASSUME NEW s \in Sweepers, DeleteRows(s) PROVE Within(c)'
  <2>1. rows' \subseteq rows /\ upload' = upload
    BY <1>5 DEF DeleteRows
  <2> QED
    BY <1>1, <2>1, Shrinks DEF RowsOf, Inserting
<1>6. ASSUME NEW s \in Sweepers, QueryReferences(s) PROVE Within(c)'
  <2>1. /\ rows' = rows
        /\ \A u \in Uploaders : upload'[u].pc = upload[u].pc
                                /\ upload'[u].row = upload[u].row
    BY <1>6 DEF QueryReferences
  <2> QED
    BY <1>1, <2>1, Shrinks DEF RowsOf, Inserting
<1>7. CASE \/ \E t \in Tenants : Expire(t) \/ Refresh(t)
           \/ \E d \in Cases : CreateCase(d)
           \/ \E r \in rows : ReadBlob(r)
           \/ \E h \in Shas : WriteSidecar(h) \/ AbortIngest(h)
           \/ SelectExpired \/ CollectTenants
           \/ UNCHANGED vars
    BY <1>2, <1>7
    DEF Expire, Refresh, CreateCase, ReadBlob, WriteSidecar, AbortIngest,
        SelectExpired, CollectTenants, vars
<1>8. CASE \/ \E s \in Deleters, d \in Cases : CollectCase(s, d)
           \/ \E s \in Sweepers : \/ EndSweep(s) \/ AbortSweep(s)
                                  \/ \E f \in sweep[s].todo : Unlink(s, f)
    BY <1>2, <1>8 DEF CollectCase, EndSweep, AbortSweep, Unlink
<1> QED
    BY <1>3, <1>4, <1>5, <1>6, <1>7, <1>8, CapCheck, CapInsert
    DEF Next, UploadStep, SweepStep, PurgeStep, Sweepers

(* However many visitors upload into one case at once, none of them        *)
(* locking it between the count of documents.ts and the insert, the case   *)
(* holds at most the cap and one document for each further upload that     *)
(* ran next to it.                                                         *)
THEOREM CapIsNearlyKept == Spec => []CapOvershoot
<1>1. CapInv => CapOvershoot
  <2> SUFFICES ASSUME CapInv, NEW c \in UploadCases
               PROVE  Cardinality(RowsOf(c))
                          <= MaxDocuments + Cardinality(Uploaders) - 1
    BY DEF CapOvershoot
  <2>1. IsFiniteSet(Inserting(c)) /\ Within(c)
    BY HandlersAssumption, FS_Subset DEF HandlersAssumption, Inserting, CapInv
  <2>2. /\ Cardinality(RowsOf(c)) \in Nat /\ Cardinality(Inserting(c)) \in Nat
        /\ Cardinality(Uploaders) \in Nat /\ MaxDocuments \in Nat
    BY <2>1, FS_CardinalityType, HandlersAssumption DEF Within, HandlersAssumption
  <2> QED
    BY <2>1, <2>2 DEF Within
<1> QED
    BY <1>1, CapInit, CapStep, TypeCorrect, PTL DEF Spec
=============================================================================
