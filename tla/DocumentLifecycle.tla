-------------------------- MODULE DocumentLifecycle --------------------------
(***************************************************************************)
(* The life of the documents of one case: upload, the ingest job, the      *)
(* analysis job chained to it, re-analysis through the API, deletion of    *)
(* the case, and what the two BullMQ queues and the worker process do in   *)
(* between: retries, crashes, locks that are lost while a run goes on.     *)
(*                                                                         *)
(* Each action is the code between two awaits that touch shared state.     *)
(* What clauses, fields and flags SAY is abstracted; what they POINT TO is *)
(* kept: every ingest commit inserts clause rows under fresh ids, so the   *)
(* clause rows of a document are the number of the commit they belong to.  *)
(***************************************************************************)
EXTENDS Naturals, FiniteSets

CONSTANTS
    Documents,      \* the documents of the case
    Legible,        \* those whose bytes parse, reach MIN_COVERAGE, have clauses
    DocTypes,       \* what the classifier may answer
    SchemaVers,     \* extraction schema versions
    SchemaOf,       \* schema version of a type's family, or NoSchema
    NoSchema, NoType, NoDoc,
    IngestSlots,    \* the ingest worker's concurrency
    AnalysisSlots,  \* the analysis worker's concurrency
    NoSlot,
    Clients,        \* analyze requests: each client sends at most one
    Attempts,       \* attempts of a job
    FaultPoints,    \* steps whose database, model or Redis call may throw
    MaxCrashes,     \* bound: process crashes
    MaxStalls       \* bound: locks lost by a run that goes on

ASSUME SlotsAssumption ==
    NoSlot \notin IngestSlots \cup AnalysisSlots
ASSUME SchemaAssumption ==
    /\ SchemaOf \in [DocTypes -> SchemaVers \cup {NoSchema}]
    /\ NoSchema \notin SchemaVers
    /\ NoType \notin DocTypes
    /\ NoDoc \notin Documents
ASSUME BoundAssumption ==
    /\ Legible \subseteq Documents
    /\ Attempts \in Nat \ {0}
    /\ MaxCrashes \in Nat
    /\ MaxStalls \in Nat

Q == INSTANCE JobQueue

VARIABLES
    status,         \* documents.status, with "none" before and "deleted" after the row
    analysis,       \* documents.analysis_status
    docType,        \* documents.type
    index,          \* clause and chunk rows: the ingest commit they come from, 0 if none
    extractions,    \* extraction rows, one element per schema version
    flags,          \* flag rows: the fields they were computed from, the clauses they cite
    ingestJob, analysisJob,     \* the two queues
    ingest, analyze,            \* the runs in the worker's slots
    failing,        \* un-awaited "analysis failed" updates still on their way
    pending,        \* upload handlers between the insert and the enqueue
    requests,       \* analyze handlers
    crashes, stalls \* how often the bounds above were used

docVars   == <<status, analysis, docType, index, extractions, flags>>
queueVars == <<ingestJob, analysisJob>>
runVars   == <<ingest, analyze, failing>>
apiVars   == <<pending, requests>>
faultVars == <<crashes, stalls>>
vars == <<docVars, queueVars, runVars, apiVars, faultVars>>

Statuses == {"none", "uploaded", "processing", "ready", "failed", "deleted"}
AnalysisStatuses == {"pending", "analyzing", "analyzed", "failed"}
IngestSteps == {"idle", "load", "parse", "clear", "chain", "finish"}
AnalysisSteps == {"idle", "begin", "classify", "readType", "readClauses",
                  "saveFields", "readFields", "readCites", "saveFlags",
                  "end", "finish"}
RequestSteps == {"new", "clear", "add", "mark", "done"}

(* The extraction of a document under one schema version: the commit whose *)
(* clauses the model was shown, and whether any citation row resolved.     *)
Extraction == [ver: SchemaVers, from: Nat, cited: BOOLEAN]

NoFlags == [basis |-> {}, cites |-> {}]

IdleIngest == [pc |-> "idle", doc |-> NoDoc]
IdleAnalysis == [pc |-> "idle", doc |-> NoDoc, type |-> NoType, gen |-> 0,
                 fields |-> {}, cites |-> {}]
NewRequest == [pc |-> "new", todo |-> {}, doc |-> NoDoc]

IngestRuns == [pc: IngestSteps, doc: Documents \cup {NoDoc}]
AnalysisRuns ==
    [pc: AnalysisSteps, doc: Documents \cup {NoDoc},
     type: DocTypes \cup {NoType}, gen: Nat,
     fields: SUBSET Extraction, cites: SUBSET Nat]
Requests ==
    [pc: RequestSteps, todo: SUBSET Documents, doc: Documents \cup {NoDoc}]

Exists(d) == status[d] \notin {"none", "deleted"}

TypeOK ==
    /\ status \in [Documents -> Statuses]
    /\ analysis \in [Documents -> AnalysisStatuses]
    /\ docType \in [Documents -> DocTypes \cup {NoType}]
    /\ index \in [Documents -> Nat]
    /\ extractions \in [Documents -> SUBSET Extraction]
    /\ flags \in [Documents -> [basis: SUBSET Extraction, cites: SUBSET Nat]]
    /\ ingestJob \in [Documents -> Q!Jobs(IngestSlots)]
    /\ analysisJob \in [Documents -> Q!Jobs(AnalysisSlots)]
    /\ ingest \in [IngestSlots -> IngestRuns]
    /\ analyze \in [AnalysisSlots -> AnalysisRuns]
    /\ failing \subseteq Documents
    /\ pending \subseteq Documents
    /\ requests \in [Clients -> Requests]
    /\ crashes \in 0..MaxCrashes
    /\ stalls \in 0..MaxStalls

Init ==
    /\ status = [d \in Documents |-> "none"]
    /\ analysis = [d \in Documents |-> "pending"]
    /\ docType = [d \in Documents |-> NoType]
    /\ index = [d \in Documents |-> 0]
    /\ extractions = [d \in Documents |-> {}]
    /\ flags = [d \in Documents |-> NoFlags]
    /\ ingestJob = [d \in Documents |-> Q!Absent]
    /\ analysisJob = [d \in Documents |-> Q!Absent]
    /\ ingest = [s \in IngestSlots |-> IdleIngest]
    /\ analyze = [s \in AnalysisSlots |-> IdleAnalysis]
    /\ failing = {}
    /\ pending = {}
    /\ requests = [c \in Clients |-> NewRequest]
    /\ crashes = 0
    /\ stalls = 0
-----------------------------------------------------------------------------
(***************************************************************************)
(* The API.                                                                *)
(***************************************************************************)
(* POST /cases/{id}/documents, up to the insert of a row for new bytes.    *)
Upload(d) ==
    /\ status[d] = "none"
    /\ \A e \in Documents : status[e] # "deleted"
    /\ status' = [status EXCEPT ![d] = "uploaded"]
    /\ pending' = pending \cup {d}
    /\ UNCHANGED <<analysis, docType, index, extractions, flags>>
    /\ UNCHANGED <<queueVars, runVars, requests, faultVars>>

(* ... and its last await: enqueueIngest.                                  *)
EnqueueIngest(d) ==
    /\ d \in pending
    /\ ingestJob' = [ingestJob EXCEPT ![d] = Q!Add(@)]
    /\ pending' = pending \ {d}
    /\ UNCHANGED <<docVars, analysisJob, runVars, requests, faultVars>>

(* Mutant: the routes do not ask whether the document is ready. *)
AskAnalysisUnready(c) ==
    /\ requests[c].pc = "new"
    /\ \E d \in Documents :
          /\ Exists(d)
          /\ requests' = [requests EXCEPT ![c] =
                           [pc |-> "clear", todo |-> {d}, doc |-> NoDoc]]
    /\ UNCHANGED <<docVars, queueVars, runVars, pending, faultVars>>

(* POST /documents/{id}/analyze and POST /cases/{id}/analyze read which    *)
(* documents are ready: the document asked for, or all of the case.        *)
AskAnalysis(c) ==
    /\ requests[c].pc = "new"
    /\ LET ready == {d \in Documents : status[d] = "ready"}
       IN  \E todo \in {{d} : d \in ready} \cup {ready} :
             /\ todo # {}
             /\ requests' = [requests EXCEPT ![c] =
                              [pc |-> "clear", todo |-> todo, doc |-> NoDoc]]
    /\ UNCHANGED <<docVars, queueVars, runVars, pending, faultVars>>

(* For each of them: enqueueAnalysis, which removes a retained job ...     *)
ClearForRequest(c, d) ==
    /\ requests[c].pc = "clear"
    /\ d \in requests[c].todo
    /\ analysisJob' = [analysisJob EXCEPT ![d] = Q!Remove(@)]
    /\ requests' = [requests EXCEPT ![c] =
                     [pc |-> "add", todo |-> @.todo, doc |-> d]]
    /\ UNCHANGED <<docVars, ingestJob, runVars, pending, faultVars>>

(* ... and adds the new one ...                                            *)
AddForRequest(c) ==
    /\ requests[c].pc = "add"
    /\ LET d == requests[c].doc
       IN  analysisJob' = [analysisJob EXCEPT ![d] = Q!Add(@)]
    /\ requests' = [requests EXCEPT ![c].pc = "mark"]
    /\ UNCHANGED <<docVars, ingestJob, runVars, pending, faultVars>>

(* ... and only then the update that shows the document as analyzing.      *)
MarkForRequest(c) ==
    /\ requests[c].pc = "mark"
    /\ LET d == requests[c].doc
           rest == requests[c].todo \ {d}
       IN  /\ analysis' = [analysis EXCEPT ![d] =
                            IF Exists(d) THEN "analyzing" ELSE @]
           /\ requests' = [requests EXCEPT ![c] =
                 [pc |-> IF rest = {} THEN "done" ELSE "clear",
                  todo |-> rest, doc |-> NoDoc]]
    /\ UNCHANGED <<status, docType, index, extractions, flags>>
    /\ UNCHANGED <<queueVars, runVars, pending, faultVars>>

(* DELETE /cases/{id} (or the retention sweep): the foreign keys take the  *)
(* documents, clauses, chunks, extractions, citations and flags along.     *)
DeleteCase ==
    /\ \E d \in Documents : Exists(d)
    /\ LET gone == {d \in Documents : Exists(d)}
       IN  /\ status' = [d \in Documents |->
                           IF d \in gone THEN "deleted" ELSE status[d]]
           /\ index' = [d \in Documents |-> IF d \in gone THEN 0 ELSE index[d]]
           /\ extractions' = [d \in Documents |->
                                IF d \in gone THEN {} ELSE extractions[d]]
           /\ flags' = [d \in Documents |->
                          IF d \in gone THEN NoFlags ELSE flags[d]]
           /\ analysis' = [d \in Documents |->
                             IF d \in gone THEN "pending" ELSE analysis[d]]
           /\ docType' = [d \in Documents |->
                            IF d \in gone THEN NoType ELSE docType[d]]
    /\ UNCHANGED <<queueVars, runVars, apiVars, faultVars>>
-----------------------------------------------------------------------------
(***************************************************************************)
(* The ingest worker: runIngestion and the chaining after it.              *)
(***************************************************************************)
TakeIngest(s, d) ==
    /\ ingest[s].pc = "idle"
    /\ ingestJob[d].state = "waiting"
    /\ ingestJob' = [ingestJob EXCEPT ![d] = Q!Take(@, s)]
    /\ ingest' = [ingest EXCEPT ![s] = [pc |-> "load", doc |-> d]]
    /\ UNCHANGED <<docVars, analysisJob, analyze, failing, apiVars, faultVars>>

(* Load the row and show the document as processing.                       *)
StartIngest(s) ==
    LET d == ingest[s].doc IN
    /\ ingest[s].pc = "load"
    /\ Exists(d)
    /\ status' = [status EXCEPT ![d] = "processing"]
    /\ ingest' = [ingest EXCEPT ![s].pc = "parse"]
    /\ UNCHANGED <<analysis, docType, index, extractions, flags>>
    /\ UNCHANGED <<queueVars, analyze, failing, apiVars, faultVars>>

(* fail(): no parser, unparseable, coverage too low or no clauses.  The    *)
(* row says so, and the job RETURNS: the bytes decide it, not a retry.     *)
RejectDocument(s) ==
    LET d == ingest[s].doc IN
    /\ ingest[s].pc = "parse"
    /\ d \notin Legible
    /\ status' = [status EXCEPT ![d] = IF Exists(d) THEN "failed" ELSE @]
    /\ ingest' = [ingest EXCEPT ![s].pc = "finish"]
    /\ UNCHANGED <<analysis, docType, index, extractions, flags>>
    /\ UNCHANGED <<queueVars, analyze, failing, apiVars, faultVars>>

(* The one transaction that publishes the index: old clauses (and with     *)
(* them the citations), extractions and flags go, the new clauses and      *)
(* chunks come, and the row turns ready and pending.                       *)
CommitIndex(s) ==
    LET d == ingest[s].doc IN
    /\ ingest[s].pc = "parse"
    /\ d \in Legible
    /\ Exists(d)
    /\ index' = [index EXCEPT ![d] = @ + 1]
    /\ extractions' = [extractions EXCEPT ![d] = {}]
    /\ flags' = [flags EXCEPT ![d] = NoFlags]
    /\ status' = [status EXCEPT ![d] = "ready"]
    /\ analysis' = [analysis EXCEPT ![d] = "pending"]
    /\ ingest' = [ingest EXCEPT ![s].pc = "clear"]
    /\ UNCHANGED <<docType, queueVars, analyze, failing, apiVars, faultVars>>

(* Mutant: an indexed document is not chained into analysis. *)
ClearForIngestNoChain(s) ==
    /\ ingest[s].pc = "clear"
    /\ ingest' = [ingest EXCEPT ![s].pc = "finish"]
    /\ UNCHANGED <<docVars, queueVars, analyze, failing, apiVars, faultVars>>

(* enqueueAnalysis after the commit: remove ...                            *)
ClearForIngest(s) ==
    LET d == ingest[s].doc IN
    /\ ingest[s].pc = "clear"
    /\ analysisJob' = [analysisJob EXCEPT ![d] = Q!Remove(@)]
    /\ ingest' = [ingest EXCEPT ![s].pc = "chain"]
    /\ UNCHANGED <<docVars, ingestJob, analyze, failing, apiVars, faultVars>>

(* ... and add.                                                            *)
ChainAnalysis(s) ==
    LET d == ingest[s].doc IN
    /\ ingest[s].pc = "chain"
    /\ analysisJob' = [analysisJob EXCEPT ![d] = Q!Add(@)]
    /\ ingest' = [ingest EXCEPT ![s].pc = "finish"]
    /\ UNCHANGED <<docVars, ingestJob, analyze, failing, apiVars, faultVars>>

FinishIngest(s) ==
    LET d == ingest[s].doc IN
    /\ ingest[s].pc = "finish"
    /\ ingestJob' = [ingestJob EXCEPT ![d] = Q!Complete(@, s)]
    /\ ingest' = [ingest EXCEPT ![s] = IdleIngest]
    /\ UNCHANGED <<docVars, analysisJob, analyze, failing, apiVars, faultVars>>

(* Mutant: the job can still throw after it chained the analysis. *)
IngestMayThrowLate(s) ==
    \/ ingest[s].pc \in FaultPoints \cap {"load", "parse", "chain"}
    \/ ingest[s].pc = "finish"
    \/ ingest[s].pc = "load" /\ ~Exists(ingest[s].doc)
    \/ /\ ingest[s].pc = "parse"
       /\ ingest[s].doc \in Legible
       /\ ~Exists(ingest[s].doc)

(* Anything thrown reaches BullMQ; the `failed` listener only logs.        *)
IngestMayThrow(s) ==
    \/ ingest[s].pc \in FaultPoints \cap {"load", "parse", "chain"}
    \/ ingest[s].pc = "load" /\ ~Exists(ingest[s].doc)
    \/ /\ ingest[s].pc = "parse"
       /\ ingest[s].doc \in Legible
       /\ ~Exists(ingest[s].doc)

ThrowIngest(s) ==
    LET d == ingest[s].doc IN
    /\ IngestMayThrow(s)
    /\ ingestJob' = [ingestJob EXCEPT ![d] = Q!Fail(@, s)]
    /\ ingest' = [ingest EXCEPT ![s] = IdleIngest]
    /\ UNCHANGED <<docVars, analysisJob, analyze, failing, apiVars, faultVars>>

IngestStep(s) ==
    \/ StartIngest(s) \/ RejectDocument(s) \/ CommitIndex(s)
    \/ ClearForIngest(s) \/ ChainAnalysis(s) \/ FinishIngest(s)
    \/ ThrowIngest(s)
-----------------------------------------------------------------------------
(***************************************************************************)
(* The analysis worker: runAnalysis = classify, extract, benchmark.        *)
(***************************************************************************)
analysisFrame == <<ingest, failing, apiVars, faultVars>>

TakeAnalysis(s, d) ==
    /\ analyze[s].pc = "idle"
    /\ analysisJob[d].state = "waiting"
    /\ analysisJob' = [analysisJob EXCEPT ![d] = Q!Take(@, s)]
    /\ analyze' = [analyze EXCEPT ![s] =
                     [IdleAnalysis EXCEPT !.pc = "begin", !.doc = d]]
    /\ UNCHANGED <<docVars, ingestJob, analysisFrame>>

(* Mutant: the run starts without showing the document as analyzing. *)
BeginAnalysisUnseen(s) ==
    /\ analyze[s].pc = "begin"
    /\ Exists(analyze[s].doc)
    /\ analyze' = [analyze EXCEPT ![s].pc = "classify"]
    /\ UNCHANGED <<docVars, queueVars, analysisFrame>>

(* The ownership check and the status `analyzing`.                         *)
BeginAnalysis(s) ==
    LET d == analyze[s].doc IN
    /\ analyze[s].pc = "begin"
    /\ Exists(d)
    /\ analysis' = [analysis EXCEPT ![d] = "analyzing"]
    /\ analyze' = [analyze EXCEPT ![s].pc = "classify"]
    /\ UNCHANGED <<status, docType, index, extractions, flags>>
    /\ UNCHANGED <<queueVars, analysisFrame>>

(* classifyDocument: any type may come back; it is written to the row.     *)
Classify(s, t) ==
    LET d == analyze[s].doc IN
    /\ analyze[s].pc = "classify"
    /\ Exists(d)
    /\ docType' = [docType EXCEPT ![d] = t]
    /\ analyze' = [analyze EXCEPT ![s].pc = "readType"]
    /\ UNCHANGED <<status, analysis, index, extractions, flags>>
    /\ UNCHANGED <<queueVars, analysisFrame>>

(* runExtraction re-reads the type; a type without a family extracts       *)
(* nothing and leaves the extraction rows alone.                           *)
ReadType(s) ==
    LET d == analyze[s].doc
        t == docType[d]
        extracts == t # NoType /\ SchemaOf[t] # NoSchema
    IN
    /\ analyze[s].pc = "readType"
    /\ Exists(d)
    /\ analyze' = [analyze EXCEPT
                     ![s].type = IF extracts THEN t ELSE NoType,
                     ![s].pc = IF extracts THEN "readClauses" ELSE "readFields"]
    /\ UNCHANGED <<docVars, queueVars, analysisFrame>>

ReadClauses(s) ==
    LET d == analyze[s].doc IN
    /\ analyze[s].pc = "readClauses"
    /\ analyze' = [analyze EXCEPT ![s].pc = "saveFields", ![s].gen = index[d]]
    /\ UNCHANGED <<docVars, queueVars, analysisFrame>>

(* Mutant: no foreign key from a citation to its clause. *)
CitesDangleNever(s, cited) == FALSE

(* persist(): replace the rows of THIS schema version.  A citation row     *)
(* references a clause row, so citing clauses that are gone aborts.        *)
CitesDangle(s, cited) ==
    cited /\ (analyze[s].gen = 0 \/ analyze[s].gen # index[analyze[s].doc])

(* Mutant: no foreign key from an extraction to its document. *)
SaveFieldsOrphaned(s, cited) ==
    LET d == analyze[s].doc
        v == SchemaOf[analyze[s].type]
    IN
    /\ analyze[s].pc = "saveFields"
    /\ extractions' = [extractions EXCEPT ![d] =
          {e \in @ : e.ver # v}
             \cup {[ver |-> v, from |-> analyze[s].gen, cited |-> FALSE]}]
    /\ analyze' = [analyze EXCEPT
                     ![s].pc = "readFields", ![s].type = NoType, ![s].gen = 0]
    /\ UNCHANGED <<status, analysis, docType, index, flags>>
    /\ UNCHANGED <<queueVars, analysisFrame>>

SaveFields(s, cited) ==
    LET d == analyze[s].doc
        v == SchemaOf[analyze[s].type]
    IN
    /\ analyze[s].pc = "saveFields"
    /\ Exists(d)
    /\ ~CitesDangle(s, cited)
    /\ extractions' = [extractions EXCEPT ![d] =
          {e \in @ : e.ver # v}
             \cup {[ver |-> v, from |-> analyze[s].gen, cited |-> cited]}]
    /\ analyze' = [analyze EXCEPT
                     ![s].pc = "readFields", ![s].type = NoType, ![s].gen = 0]
    /\ UNCHANGED <<status, analysis, docType, index, flags>>
    /\ UNCHANGED <<queueVars, analysisFrame>>

(* benchmarkDocument reads the row, then ALL extraction rows of the        *)
(* document,                                                               *)
ReadFields(s) ==
    LET d == analyze[s].doc IN
    /\ analyze[s].pc = "readFields"
    /\ Exists(d)
    /\ analyze' = [analyze EXCEPT
                     ![s].pc = "readCites",
                     ![s].fields = extractions[d]]
    /\ UNCHANGED <<docVars, queueVars, analysisFrame>>

(* then their citations,                                                   *)
ReadCites(s) ==
    LET d == analyze[s].doc
        cited == {e \in analyze[s].fields \cap extractions[d] : e.cited}
    IN
    /\ analyze[s].pc = "readCites"
    /\ analyze' = [analyze EXCEPT
                     ![s].pc = "saveFlags",
                     ![s].cites = {e.from : e \in cited}]
    /\ UNCHANGED <<docVars, queueVars, analysisFrame>>

(* and replaces the flags.  clause_ids is a bare uuid array: nothing       *)
(* checks that the clauses still exist.  The rules may raise nothing, or   *)
(* only flags whose fields cite nothing.                                   *)
SaveFlags(s, cites) ==
    LET d == analyze[s].doc IN
    /\ analyze[s].pc = "saveFlags"
    /\ cites \in {{}, analyze[s].cites}
    /\ cites # {} => Exists(d)
    /\ flags' = [flags EXCEPT ![d] =
          IF Exists(d) THEN [basis |-> analyze[s].fields, cites |-> cites]
                       ELSE @]
    /\ analyze' = [analyze EXCEPT
                     ![s].pc = "end", ![s].fields = {}, ![s].cites = {}]
    /\ UNCHANGED <<status, analysis, docType, index, extractions>>
    /\ UNCHANGED <<queueVars, analysisFrame>>

EndAnalysis(s) ==
    LET d == analyze[s].doc IN
    /\ analyze[s].pc = "end"
    /\ analysis' = [analysis EXCEPT ![d] = IF Exists(d) THEN "analyzed" ELSE @]
    /\ analyze' = [analyze EXCEPT ![s].pc = "finish"]
    /\ UNCHANGED <<status, docType, index, extractions, flags>>
    /\ UNCHANGED <<queueVars, analysisFrame>>

FinishAnalysis(s) ==
    LET d == analyze[s].doc IN
    /\ analyze[s].pc = "finish"
    /\ analysisJob' = [analysisJob EXCEPT ![d] = Q!Complete(@, s)]
    /\ analyze' = [analyze EXCEPT ![s] = IdleAnalysis]
    /\ UNCHANGED <<docVars, ingestJob, analysisFrame>>

(* A step throws when its call fails, when the row is gone, when a         *)
(* citation would dangle, or when a duplicate run inserts the same unique  *)
(* rows.                                                                   *)
AnalysisMayThrow(s) ==
    LET pc == analyze[s].pc
        d == analyze[s].doc
    IN
    \/ pc \in FaultPoints \ {"idle", "finish"}
    \/ /\ pc \in {"begin", "classify", "readType", "saveFields", "readFields",
                  "saveFlags"}
       /\ ~Exists(d)
    \/ pc = "saveFields" /\ CitesDangle(s, TRUE)
    \/ /\ pc \in {"saveFields", "saveFlags"}
       /\ \E r \in AnalysisSlots \ {s} :
             analyze[r].pc = pc /\ analyze[r].doc = d

(* Mutant: attemptsMade is compared with > instead of >=. *)
ThrowAnalysisOffByOne(s) ==
    LET d == analyze[s].doc
        job == analysisJob[d]
    IN
    /\ AnalysisMayThrow(s)
    /\ analysisJob' = [analysisJob EXCEPT ![d] = Q!Fail(@, s)]
    /\ analyze' = [analyze EXCEPT ![s] = IdleAnalysis]
    /\ failing' = IF Q!Owns(job, s) /\ job.tries >= Attempts
                  THEN failing \cup {d} ELSE failing
    /\ UNCHANGED <<docVars, ingestJob, ingest, apiVars, faultVars>>

(* Mutant: the listener marks the document at every failed attempt. *)
ThrowAnalysisEager(s) ==
    LET d == analyze[s].doc IN
    /\ AnalysisMayThrow(s)
    /\ analysisJob' = [analysisJob EXCEPT ![d] = Q!Fail(@, s)]
    /\ analyze' = [analyze EXCEPT ![s] = IdleAnalysis]
    /\ failing' = IF Q!Owns(analysisJob[d], s)
                  THEN failing \cup {d} ELSE failing
    /\ UNCHANGED <<docVars, ingestJob, ingest, apiVars, faultVars>>

(* The `failed` listener updates the row, un-awaited, after the last try.  *)
ThrowAnalysis(s) ==
    LET d == analyze[s].doc
        job == analysisJob[d]
    IN
    /\ AnalysisMayThrow(s)
    /\ analysisJob' = [analysisJob EXCEPT ![d] = Q!Fail(@, s)]
    /\ analyze' = [analyze EXCEPT ![s] = IdleAnalysis]
    /\ failing' = IF Q!Owns(job, s) /\ Q!LastTry(job)
                  THEN failing \cup {d} ELSE failing
    /\ UNCHANGED <<docVars, ingestJob, ingest, apiVars, faultVars>>

(* The update lands, or throws and is only logged.                         *)
MarkFailed(d) ==
    /\ d \in failing
    /\ \/ analysis' = [analysis EXCEPT ![d] =
                         IF Exists(d) THEN "failed" ELSE @]
       \/ "mark" \in FaultPoints /\ UNCHANGED analysis
    /\ failing' = failing \ {d}
    /\ UNCHANGED <<status, docType, index, extractions, flags>>
    /\ UNCHANGED <<queueVars, ingest, analyze, apiVars, faultVars>>

AnalysisStep(s) ==
    \/ BeginAnalysis(s)
    \/ \E t \in DocTypes : Classify(s, t)
    \/ ReadType(s) \/ ReadClauses(s)
    \/ \E cited \in BOOLEAN : SaveFields(s, cited)
    \/ ReadFields(s) \/ ReadCites(s)
    \/ \E cites \in {{}, analyze[s].cites} : SaveFlags(s, cites)
    \/ EndAnalysis(s) \/ FinishAnalysis(s)
    \/ ThrowAnalysis(s)
-----------------------------------------------------------------------------
(***************************************************************************)
(* BullMQ's clock, and crashes.                                            *)
(***************************************************************************)
PromoteIngest(d) ==
    /\ ingestJob[d].state = "delayed"
    /\ ingestJob' = [ingestJob EXCEPT ![d] = Q!Promote(@)]
    /\ UNCHANGED <<docVars, analysisJob, runVars, apiVars, faultVars>>

PromoteAnalysis(d) ==
    /\ analysisJob[d].state = "delayed"
    /\ analysisJob' = [analysisJob EXCEPT ![d] = Q!Promote(@)]
    /\ UNCHANGED <<docVars, ingestJob, runVars, apiVars, faultVars>>

(* A lock expires because its run is dead, or (bounded) although it is not. *)
IngestAlive(d) ==
    \E s \in IngestSlots : ingest[s].pc # "idle" /\ ingest[s].doc = d
                           /\ Q!Owns(ingestJob[d], s)
AnalysisAlive(d) ==
    \E s \in AnalysisSlots : analyze[s].pc # "idle" /\ analyze[s].doc = d
                             /\ Q!Owns(analysisJob[d], s)

RecoverIngest(d) ==
    /\ ingestJob[d].state = "active"
    /\ ~IngestAlive(d)
    /\ ingestJob' = [ingestJob EXCEPT ![d] = Q!Stall(@)]
    /\ UNCHANGED <<docVars, analysisJob, runVars, apiVars, faultVars>>

RecoverAnalysis(d) ==
    /\ analysisJob[d].state = "active"
    /\ ~AnalysisAlive(d)
    /\ analysisJob' = [analysisJob EXCEPT ![d] = Q!Stall(@)]
    /\ UNCHANGED <<docVars, ingestJob, runVars, apiVars, faultVars>>

LoseIngestLock(d) ==
    /\ stalls < MaxStalls
    /\ IngestAlive(d)
    /\ ingestJob' = [ingestJob EXCEPT ![d] = Q!Stall(@)]
    /\ stalls' = stalls + 1
    /\ UNCHANGED <<docVars, analysisJob, runVars, apiVars, crashes>>

LoseAnalysisLock(d) ==
    /\ stalls < MaxStalls
    /\ AnalysisAlive(d)
    /\ analysisJob' = [analysisJob EXCEPT ![d] = Q!Stall(@)]
    /\ stalls' = stalls + 1
    /\ UNCHANGED <<docVars, ingestJob, runVars, apiVars, crashes>>

(* The worker process dies with every run and every un-awaited update.     *)
WorkerCrash ==
    /\ crashes < MaxCrashes
    /\ crashes' = crashes + 1
    /\ ingest' = [s \in IngestSlots |-> IdleIngest]
    /\ analyze' = [s \in AnalysisSlots |-> IdleAnalysis]
    /\ failing' = {}
    /\ UNCHANGED <<docVars, queueVars, apiVars, stalls>>

(* The API process dies with every handler that has not finished.          *)
ApiCrash ==
    /\ crashes < MaxCrashes
    /\ crashes' = crashes + 1
    /\ pending' = {}
    /\ requests' = [c \in Clients |->
          IF requests[c].pc = "new" THEN NewRequest
          ELSE [NewRequest EXCEPT !.pc = "done"]]
    /\ UNCHANGED <<docVars, queueVars, runVars, stalls>>
-----------------------------------------------------------------------------
ApiStep ==
    \/ \E d \in Documents : Upload(d) \/ EnqueueIngest(d)
    \/ \E c \in Clients :
          \/ AskAnalysis(c) \/ AddForRequest(c) \/ MarkForRequest(c)
          \/ \E d \in Documents : ClearForRequest(c, d)
    \/ DeleteCase
    \/ ApiCrash

WorkerStep ==
    \/ \E s \in IngestSlots :
          IngestStep(s) \/ \E d \in Documents : TakeIngest(s, d)
    \/ \E s \in AnalysisSlots :
          AnalysisStep(s) \/ \E d \in Documents : TakeAnalysis(s, d)
    \/ \E d \in Documents : MarkFailed(d)
    \/ WorkerCrash

QueueStep ==
    \E d \in Documents :
       \/ PromoteIngest(d) \/ PromoteAnalysis(d)
       \/ RecoverIngest(d) \/ RecoverAnalysis(d)
       \/ LoseIngestLock(d) \/ LoseAnalysisLock(d)

Next == ApiStep \/ WorkerStep \/ QueueStep

Spec == Init /\ [][Next]_vars

(* What is not a user's choice goes on: handlers that started, free slots  *)
(* that find a waiting job, runs, backoffs and the stalled check.  Uploads, *)
(* analyze requests, deletions, lost locks and crashes need never happen.  *)
Fairness ==
    /\ \A d \in Documents :
          /\ WF_vars(EnqueueIngest(d))
          /\ WF_vars(\E s \in IngestSlots : TakeIngest(s, d))
          /\ WF_vars(\E s \in AnalysisSlots : TakeAnalysis(s, d))
          /\ WF_vars(MarkFailed(d))
          /\ WF_vars(PromoteIngest(d)) /\ WF_vars(PromoteAnalysis(d))
          /\ WF_vars(RecoverIngest(d)) /\ WF_vars(RecoverAnalysis(d))
    /\ \A s \in IngestSlots : WF_vars(IngestStep(s))
    /\ \A s \in AnalysisSlots : WF_vars(AnalysisStep(s))
    /\ \A c \in Clients :
          WF_vars(AddForRequest(c) \/ MarkForRequest(c)
                    \/ \E d \in Documents : ClearForRequest(c, d))

FairSpec == Spec /\ Fairness
-----------------------------------------------------------------------------
(***************************************************************************)
(* Properties.                                                             *)
(***************************************************************************)
(* FR-3, "every citation resolves to a real span": whatever attempts,      *)
(* duplicate runs and re-ingests do to a document, a stored citation       *)
(* points at clauses of the index the document has NOW.                    *)
CitationsResolve ==
    \A d \in Documents : \A e \in extractions[d] :
       e.cited => e.from = index[d] /\ index[d] # 0

(* FR-1.5, no partial index: a ready document has clauses and chunks, one  *)
(* that was refused or never ingested has none, and an analysis has only   *)
(* begun where there is something to analyze.                              *)
IndexMatchesStatus ==
    \A d \in Documents :
       /\ status[d] = "ready" => index[d] # 0
       /\ status[d] \in {"uploaded", "failed"} => index[d] = 0
       /\ Exists(d) /\ analysis[d] # "pending" => index[d] # 0

(* Deleting a case leaves nothing of its documents behind, and no run that *)
(* was under way when the rows went brings any of it back.                 *)
DeletedLeavesNothing ==
    \A d \in Documents : status[d] = "deleted" =>
       index[d] = 0 /\ extractions[d] = {} /\ flags[d] = NoFlags

(* queue/analysis.ts: a job that is running survives the remove and        *)
(* absorbs the add, so as long as no lock is lost a document is never      *)
(* ingested twice at once and never analyzed twice at once.                *)
OneRunPerDocument ==
    stalls = 0 =>
       /\ \A s, r \in IngestSlots :
             ingest[s].pc # "idle" /\ ingest[r].pc # "idle"
               /\ ingest[s].doc = ingest[r].doc => s = r
       /\ \A s, r \in AnalysisSlots :
             analyze[s].pc # "idle" /\ analyze[r].pc # "idle"
               /\ analyze[s].doc = analyze[r].doc => s = r

(* pipeline.ts, on why a re-ingest deletes the flags: no stored flag cites *)
(* a clause that no longer exists.                                         *)
FlagsResolve ==
    \A d \in Documents : flags[d].cites \subseteq {index[d]}

(* What `analyzed` promises a reader of the report: every field shown was  *)
(* extracted from the clauses the document has, and the flags shown were   *)
(* computed from exactly the fields shown.                                 *)
AnalyzedIsConsistent ==
    \A d \in Documents : Exists(d) /\ analysis[d] = "analyzed" =>
       /\ \A e \in extractions[d] : e.from = index[d]
       /\ flags[d].basis = extractions[d]

(* db/schema/documents.ts: `analyzing` while the job runs.  A document     *)
(* shown as analyzing has a job that is queued or running, or an update to *)
(* `failed` on its way, or someone about to add the job.                   *)
AddIsDue(d) ==
    \/ \E c \in Clients : requests[c].pc = "add" /\ requests[c].doc = d
    \/ \E s \in IngestSlots : ingest[s].pc = "chain" /\ ingest[s].doc = d

AnalyzingHasJob ==
    \A d \in Documents : Exists(d) /\ analysis[d] = "analyzing" =>
       \/ analysisJob[d].state \in {"waiting", "delayed", "active"}
       \/ d \in failing
       \/ AddIsDue(d)

(* routes/reports.ts: a re-run supersedes the prior analysis.  When a      *)
(* document is shown as analyzed, the fields stored are those of the       *)
(* schema its current type selects and of no other.                        *)
ReanalysisSupersedes ==
    \A d \in Documents : Exists(d) /\ analysis[d] = "analyzed" =>
       \A e \in extractions[d] : e.ver = SchemaOf[docType[d]]

(* db/schema/documents.ts: `failed` once BullMQ retries are exhausted, and *)
(* not while one of them is still to come.                                 *)
FailedMeansExhausted ==
    \A d \in Documents : Exists(d) /\ analysis[d] = "failed" =>
       analysisJob[d].state = "failed"

Settled(d) ==
    \/ status[d] \in {"failed", "deleted"}
    \/ status[d] = "ready" /\ analysis[d] \in {"analyzed", "failed"}

(* A document whose ingest job was enqueued comes to rest: refused, or     *)
(* indexed and analyzed or failed, or BullMQ gave its ingest job up.       *)
EnqueuedSettles ==
    \A d \in Documents :
       ingestJob[d].state # "absent"
          ~> (Settled(d) \/ ingestJob[d].state = "failed")

(* No job stays queued or running for ever, and no slot stays busy.        *)
JobsEnd ==
    \A d \in Documents :
       /\ ingestJob[d].state = "waiting"
             ~> ingestJob[d].state \in {"completed", "failed"}
       /\ analysisJob[d].state = "waiting"
             ~> analysisJob[d].state \in {"absent", "completed", "failed"}

(* Whatever fails, documents and jobs come to rest.                        *)
EverythingSettles == EnqueuedSettles /\ JobsEnd
-----------------------------------------------------------------------------
(***************************************************************************)
(* What a reader is shown of all this: derivePhase in shared/src/schemas/  *)
(* api.ts collapses the two status columns into one phase.                 *)
(***************************************************************************)
(* Mutant: an indexed document reads as ready before it was analyzed. *)
derivePhaseIndexed(d) ==
    CASE status[d] = "none" -> "absent"
      [] status[d] = "deleted" -> "gone"
      [] status[d] = "failed" \/ (Exists(d) /\ analysis[d] = "failed") -> "failed"
      [] status[d] = "processing" /\ analysis[d] # "failed" -> "parsing"
      [] status[d] = "ready" /\ analysis[d] # "analyzing" -> "ready"
      [] status[d] = "ready" /\ analysis[d] = "analyzing" -> "analyzing"
      [] OTHER -> "queued"

derivePhase(d) ==
    CASE status[d] = "none" -> "absent"
      [] status[d] = "deleted" -> "gone"
      [] status[d] = "failed" \/ (Exists(d) /\ analysis[d] = "failed") -> "failed"
      [] status[d] = "processing" /\ analysis[d] # "failed" -> "parsing"
      [] status[d] = "ready" /\ analysis[d] = "analyzed" -> "ready"
      [] status[d] = "ready" /\ analysis[d] = "analyzing" -> "analyzing"
      [] OTHER -> "queued"

Phases == INSTANCE DocumentPhases
             WITH phase <- [d \in Documents |-> derivePhase(d)],
                  indexed <- {d \in Documents : Exists(d) /\ index[d] # 0}

(* As long as nobody asks for a second analysis and no process dies, the   *)
(* jobs, retries and un-awaited updates show a reader exactly the phases   *)
(* DocumentPhases promises: none is skipped, and none is taken back.       *)
ImplementsPhases == Phases!Spec
=============================================================================
