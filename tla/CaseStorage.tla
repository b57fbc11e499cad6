----------------------------- MODULE CaseStorage -----------------------------
(***************************************************************************)
(* Where the bytes of documents are kept, and when they go: uploads, the   *)
(* adoption of the demo corpus, the deletion of a case, the retention      *)
(* sweep of expired sessions, and ingests writing their geometry sidecar.  *)
(*                                                                         *)
(* The store is content-addressed: a file is named by a hash and an        *)
(* extension, documents of many cases and tenants may share it, and        *)
(* nothing but a query of the documents table says whether one still does. *)
(* Each action is the code between two awaits.                             *)
(***************************************************************************)
EXTENDS Naturals, FiniteSets

CONSTANTS
    Tenants,        \* anonymous sessions
    UploadCases, DemoCases,     \* cases they may have
    Template,       \* the case of the demo template, whose tenant never expires
    Owner,          \* the session of a case
    Files,          \* [sha, ext] a visitor may upload
    TemplateFiles,  \* those of the demo corpus
    Uploaders,      \* upload handlers that may run at once
    Deleters,       \* delete-case handlers that may run at once
    Purger,         \* the retention worker: its concurrency is 1
    MaxDocuments,   \* MAX_DOCUMENTS_PER_CASE
    MayFail         \* whether handlers may throw or die, and unlinks fail

Cases == UploadCases \cup DemoCases
Shas == {f.sha : f \in Files \cup TemplateFiles}
Sweepers == Deleters \cup {Purger}

ASSUME CasesAssumption ==
    /\ UploadCases \cap DemoCases = {}
    /\ Template \notin Cases
    /\ Owner \in [Cases -> Tenants]
ASSUME HandlersAssumption ==
    /\ Purger \notin Deleters
    /\ IsFiniteSet(Uploaders) /\ Uploaders # {}
    /\ IsFiniteSet(Files) /\ IsFiniteSet(TemplateFiles)
    /\ MaxDocuments \in Nat
    /\ MayFail \in BOOLEAN

VARIABLES
    session,    \* tenants: minted, past its expires_at, row deleted
    case,       \* cases: not created, there, row deleted
    rows,       \* document rows
    files,      \* blobs on disk
    sidecars,   \* hashes with a geometry sidecar on disk
    parsing,    \* hashes an ingest has read the blob of
    upload,     \* the upload handlers
    sweep,      \* the delete-case handlers and the retention worker
    raced       \* history: rows put before, inserted after a sweep's query

vars == <<session, case, rows, files, sidecars, parsing, upload, sweep, raced>>

Row == [case: Cases \cup {Template}, file: Files \cup TemplateFiles]
RowsOf(c) == {r \in rows : r.case = c}
FilesOf(cs) == {r.file : r \in {x \in rows : x.case \in cs}}
Referenced == {r.file.sha : r \in rows}
TemplateRows == [case: {Template}, file: TemplateFiles]

IdleUpload == [pc |-> "idle", row |-> {}, clear |-> FALSE]
IdleSweep == [pc |-> "idle", tenants |-> {}, cases |-> {}, todo |-> {}]

(* The file is among those a sweep has found unreferenced and will unlink. *)
Doomed(f) == \E s \in Sweepers : sweep[s].pc = "unlink" /\ f \in sweep[s].todo

TypeOK ==
    /\ session \in [Tenants -> {"live", "expired", "gone"}]
    /\ case \in [Cases -> {"none", "open", "gone"}]
    /\ rows \subseteq Row
    /\ files \subseteq Files \cup TemplateFiles
    /\ sidecars \subseteq Shas
    /\ parsing \subseteq Shas
    /\ upload \in [Uploaders ->
          [pc: {"idle", "put", "check", "insert"}, row: SUBSET Row, clear: BOOLEAN]]
    /\ \A u \in Uploaders : upload[u].pc # "idle" =>
          \E r \in Row : r.case \in UploadCases /\ upload[u].row = {r}
    /\ sweep \in [Sweepers ->
          [pc: {"idle", "collect", "delete", "query", "unlink"},
           tenants: SUBSET Tenants, cases: SUBSET Cases,
           todo: SUBSET (Files \cup TemplateFiles)]]
    /\ raced \subseteq Row

Init ==
    /\ session = [t \in Tenants |-> "live"]
    /\ case = [c \in Cases |-> "none"]
    /\ rows = TemplateRows
    /\ files = TemplateFiles
    /\ sidecars = {f.sha : f \in TemplateFiles}
    /\ parsing = {}
    /\ upload = [u \in Uploaders |-> IdleUpload]
    /\ sweep = [s \in Sweepers |-> IdleSweep]
    /\ raced = {}
-----------------------------------------------------------------------------
(* A session ages past the expires_at of its tenant.  A request checked    *)
(* just before may still slide the window, or store what it came with.     *)
Expire(t) ==
    /\ session[t] = "live"
    /\ session' = [session EXCEPT ![t] = "expired"]
    /\ UNCHANGED <<case, rows, files, sidecars, parsing, upload, sweep, raced>>

Refresh(t) ==
    /\ session[t] = "expired"
    /\ session' = [session EXCEPT ![t] = "live"]
    /\ UNCHANGED <<case, rows, files, sidecars, parsing, upload, sweep, raced>>

CreateCase(c) ==
    /\ c \in UploadCases
    /\ case[c] = "none"
    /\ session[Owner[c]] # "gone"
    /\ case' = [case EXCEPT ![c] = "open"]
    /\ UNCHANGED <<session, rows, files, sidecars, parsing, upload, sweep, raced>>

(* POST /demo/adopt: one transaction copies the template's rows; the files *)
(* are shared, not copied.  A second adoption finds the first.             *)
Adopt(c) ==
    /\ c \in DemoCases
    /\ case[c] = "none"
    /\ session[Owner[c]] # "gone"
    /\ case' = [case EXCEPT ![c] = "open"]
    /\ rows' = rows \cup {[case |-> c, file |-> r.file] : r \in RowsOf(Template)}
    /\ UNCHANGED <<session, files, sidecars, parsing, upload, sweep, raced>>
-----------------------------------------------------------------------------
(* POST /cases/{id}/documents.                                             *)
BeginUpload(u, c, f) ==
    /\ upload[u].pc = "idle"
    /\ c \in UploadCases
    /\ f \in Files
    /\ case[c] = "open"
    /\ upload' = [upload EXCEPT ![u] =
          [pc |-> "put", row |-> {[case |-> c, file |-> f]}, clear |-> FALSE]]
    /\ UNCHANGED <<session, case, rows, files, sidecars, parsing, sweep, raced>>

(* blobStore.put: write the file unless it is there.                       *)
PutBlob(u) ==
    /\ upload[u].pc = "put"
    /\ files' = files \cup {r.file : r \in upload[u].row}
    /\ upload' = [upload EXCEPT ![u] =
          [pc |-> "check", row |-> @.row, clear |-> \A r \in @.row : ~Doomed(r.file)]]
    /\ UNCHANGED <<session, case, rows, sidecars, parsing, sweep, raced>>

CheckUploadOffByOne(u) ==
    /\ upload[u].pc = "check"
    /\ \E r \in upload[u].row :
          LET known == \E x \in RowsOf(r.case) : x.file.sha = r.file.sha
              full == Cardinality(RowsOf(r.case)) > MaxDocuments
          IN  upload' = [upload EXCEPT ![u] =
                 IF known \/ full THEN IdleUpload
                 ELSE [pc |-> "insert", row |-> @.row, clear |-> @.clear]]
    /\ UNCHANGED <<session, case, rows, files, sidecars, parsing, sweep, raced>>

(* The same bytes in this case end the upload, and so does a full case.    *)
CheckUpload(u) ==
    /\ upload[u].pc = "check"
    /\ \E r \in upload[u].row :
          LET known == \E x \in RowsOf(r.case) : x.file.sha = r.file.sha
              full == Cardinality(RowsOf(r.case)) >= MaxDocuments
          IN  upload' = [upload EXCEPT ![u] =
                 IF known \/ full THEN IdleUpload
                 ELSE [pc |-> "insert", row |-> @.row, clear |-> @.clear]]
    /\ UNCHANGED <<session, case, rows, files, sidecars, parsing, sweep, raced>>

(* The insert throws if the case is gone or has the same bytes by now.     *)
InsertDocument(u) ==
    /\ upload[u].pc = "insert"
    /\ \E r \in upload[u].row :
          LET legal == /\ case[r.case] = "open"
                       /\ \A x \in RowsOf(r.case) : x.file.sha # r.file.sha
          IN  /\ rows' = IF legal THEN rows \cup {r} ELSE rows
              /\ raced' = IF legal /\ ~upload[u].clear THEN raced \cup {r} ELSE raced
    /\ upload' = [upload EXCEPT ![u] = IdleUpload]
    /\ UNCHANGED <<session, case, files, sidecars, parsing, sweep>>
-----------------------------------------------------------------------------
(* An ingest reads the blob, and later writes the sidecar of its hash.     *)
ReadBlob(r) ==
    /\ r \in rows
    /\ r.file \in files
    /\ parsing' = parsing \cup {r.file.sha}
    /\ UNCHANGED <<session, case, rows, files, sidecars, upload, sweep, raced>>

WriteSidecar(h) ==
    /\ h \in parsing
    /\ parsing' = parsing \ {h}
    /\ sidecars' = sidecars \cup {h}
    /\ UNCHANGED <<session, case, rows, files, upload, sweep, raced>>
-----------------------------------------------------------------------------
(* DELETE /cases/{id}: what files the case has ...                         *)
CollectCase(s, c) ==
    /\ s \in Deleters
    /\ sweep[s].pc = "idle"
    /\ case[c] = "open"
    /\ sweep' = [sweep EXCEPT ![s] =
          [pc |-> "delete", tenants |-> {}, cases |-> {c}, todo |-> FilesOf({c})]]
    /\ UNCHANGED <<session, case, rows, files, sidecars, parsing, upload, raced>>

(* purgeExpiredTenants: which sessions have expired, and what files they   *)
(* have.                                                                   *)
SelectExpired ==
    LET expired == {t \in Tenants : session[t] = "expired"} IN
    /\ sweep[Purger].pc = "idle"
    /\ expired # {}
    /\ sweep' = [sweep EXCEPT ![Purger] =
          [pc |-> "collect", tenants |-> expired, cases |-> {}, todo |-> {}]]
    /\ UNCHANGED <<session, case, rows, files, sidecars, parsing, upload, raced>>

CollectTenants ==
    LET theirs == {c \in Cases : Owner[c] \in sweep[Purger].tenants} IN
    /\ sweep[Purger].pc = "collect"
    /\ sweep' = [sweep EXCEPT ![Purger] =
          [pc |-> "delete", tenants |-> @.tenants, cases |-> theirs,
           todo |-> FilesOf(theirs)]]
    /\ UNCHANGED <<session, case, rows, files, sidecars, parsing, upload, raced>>

(* ... then the rows go, with everything that cascades from them.  A case  *)
(* that somebody else has deleted meanwhile is a 404.                      *)
DeleteRows(s) ==
    LET gone == {c \in sweep[s].cases : case[c] = "open"} IN
    /\ sweep[s].pc = "delete"
    /\ case' = [c \in Cases |->
          IF c \in sweep[s].cases /\ (s = Purger \/ c \in gone) THEN "gone" ELSE case[c]]
    /\ session' = [t \in Tenants |->
                     IF t \in sweep[s].tenants THEN "gone" ELSE session[t]]
    /\ rows' = {r \in rows : r.case \notin gone}
    /\ raced' = {r \in raced : r.case \notin gone}
    /\ sweep' = [sweep EXCEPT ![s] =
          IF @.todo # {} /\ (s = Purger \/ gone # {})
          THEN [pc |-> "query", tenants |-> {}, cases |-> {}, todo |-> @.todo]
          ELSE IdleSweep]
    /\ UNCHANGED <<files, sidecars, parsing, upload>>

QueryReferencesByFile(s) ==  \* asks for the file, not for its hash
    LET doomed == sweep[s].todo \ {r.file : r \in rows} IN
    /\ sweep[s].pc = "query"
    /\ sweep' = [sweep EXCEPT ![s] =
          [pc |-> "unlink", tenants |-> {}, cases |-> {}, todo |-> doomed]]
    /\ upload' = [u \in Uploaders |->
          [pc |-> upload[u].pc, row |-> upload[u].row,
           clear |-> /\ upload[u].clear
                     /\ \A r \in upload[u].row : r.file \notin doomed]]
    /\ UNCHANGED <<session, case, rows, files, sidecars, parsing, raced>>

QueryReferencesEarly(s) ==   \* trusts what the collection saw of this case
    /\ sweep[s].pc = "query"
    /\ sweep' = [sweep EXCEPT ![s] =
          [pc |-> "unlink", tenants |-> {}, cases |-> {}, todo |-> @.todo]]
    /\ UNCHANGED <<session, case, rows, files, sidecars, parsing, upload, raced>>

(* sweepUnreferencedBlobs: one query for the hashes still referenced by    *)
(* any document of any tenant ...                                          *)
QueryReferences(s) ==
    LET doomed == {f \in sweep[s].todo : f.sha \notin Referenced} IN
    /\ sweep[s].pc = "query"
    /\ sweep' = [sweep EXCEPT ![s] =
          [pc |-> "unlink", tenants |-> {}, cases |-> {}, todo |-> doomed]]
    /\ upload' = [u \in Uploaders |->
          [pc |-> upload[u].pc, row |-> upload[u].row,
           clear |-> /\ upload[u].clear
                     /\ \A r \in upload[u].row : r.file \notin doomed]]
    /\ UNCHANGED <<session, case, rows, files, sidecars, parsing, raced>>

(* ... and the others are unlinked, with the sidecars of their hash.  An   *)
(* unlink that fails is logged and not tried again.                        *)
Unlink(s, f) ==
    /\ sweep[s].pc = "unlink"
    /\ f \in sweep[s].todo
    /\ sweep' = [sweep EXCEPT ![s] =
          [pc |-> "unlink", tenants |-> {}, cases |-> {}, todo |-> @.todo \ {f}]]
    /\ \/ files' = files \ {f} /\ sidecars' = sidecars \ {f.sha}
       \/ MayFail /\ UNCHANGED <<files, sidecars>>
    /\ UNCHANGED <<session, case, rows, parsing, upload, raced>>

EndSweep(s) ==
    /\ sweep[s].pc = "unlink"
    /\ sweep[s].todo = {}
    /\ sweep' = [sweep EXCEPT ![s] = IdleSweep]
    /\ UNCHANGED <<session, case, rows, files, sidecars, parsing, upload, raced>>

(* A handler that throws, or a process that dies, in between.              *)
AbortUpload(u) ==
    /\ MayFail
    /\ upload[u].pc # "idle"
    /\ upload' = [upload EXCEPT ![u] = IdleUpload]
    /\ UNCHANGED <<session, case, rows, files, sidecars, parsing, sweep, raced>>

AbortSweep(s) ==
    /\ MayFail
    /\ sweep[s].pc # "idle"
    /\ sweep' = [sweep EXCEPT ![s] = IdleSweep]
    /\ UNCHANGED <<session, case, rows, files, sidecars, parsing, upload, raced>>

AbortIngest(h) ==
    /\ MayFail
    /\ h \in parsing
    /\ parsing' = parsing \ {h}
    /\ UNCHANGED <<session, case, rows, files, sidecars, upload, sweep, raced>>
-----------------------------------------------------------------------------
UploadStep(u) == PutBlob(u) \/ CheckUpload(u) \/ InsertDocument(u)
SweepStep(s) ==
    \/ DeleteRows(s) \/ QueryReferences(s) \/ EndSweep(s)
    \/ \E f \in sweep[s].todo : Unlink(s, f)
PurgeStep == SelectExpired \/ CollectTenants \/ SweepStep(Purger)

Next ==
    \/ \E t \in Tenants : Expire(t) \/ Refresh(t)
    \/ \E c \in Cases : CreateCase(c) \/ Adopt(c)
    \/ \E u \in Uploaders :
          \/ UploadStep(u) \/ AbortUpload(u)
          \/ \E c \in UploadCases, f \in Files : BeginUpload(u, c, f)
    \/ \E r \in rows : ReadBlob(r)
    \/ \E h \in Shas : WriteSidecar(h) \/ AbortIngest(h)
    \/ \E s \in Deleters : SweepStep(s) \/ \E c \in Cases : CollectCase(s, c)
    \/ PurgeStep
    \/ \E s \in Sweepers : AbortSweep(s)

Spec == Init /\ [][Next]_vars
-----------------------------------------------------------------------------
(* Whatever cases are deleted and whatever sessions purged, the demo       *)
(* corpus that every session clones from keeps its rows, its files and     *)
(* their geometry: also while a visitor deletes a clone of it, or uploads  *)
(* one of its documents by hand under another type, at the same moment.    *)
TemplateIntact ==
    /\ TemplateRows \subseteq rows
    /\ TemplateFiles \subseteq files
    /\ \A f \in TemplateFiles : f.sha \in sidecars

(* A document loses its bytes only to the race that sweep.ts:12-20         *)
(* accepts: every row has its file unless the file had been put before,    *)
(* and the row came after, the query of a sweep that was removing it.      *)
BytesUnlessRaced == \A r \in rows \ raced : r.file \in files

(* The cap is read before the insert, by every upload for itself: a case   *)
(* may pass it, yet by no more than the uploads that run next to another.  *)
CapOvershoot ==
    \A c \in UploadCases :
        Cardinality(RowsOf(c)) <= MaxDocuments + Cardinality(Uploaders) - 1
=============================================================================
