----------------------- MODULE DocumentLifecycleProofs -----------------------
(***************************************************************************)
(* What holds of DocumentLifecycle for every set of documents, types and   *)
(* schemas, every concurrency of the two workers, every number of clients  *)
(* and attempts, and any number of crashes and lost locks; and, under      *)
(* hypotheses named Undisturbed and Unattended below, what of it needs     *)
(* that no process dies or that nobody asks for a second analysis.         *)
(***************************************************************************)
EXTENDS DocumentLifecycle, TLAPS

USE DEF docVars, queueVars, runVars, apiVars, faultVars, analysisFrame

(* A busy slot works on a document, and a run that is about to persist     *)
(* fields knows a type that has a schema.                                  *)
RunsOK ==
    /\ \A s \in IngestSlots : ingest[s].pc # "idle" => ingest[s].doc \in Documents
    /\ \A s \in AnalysisSlots :
          /\ analyze[s].pc # "idle" => analyze[s].doc \in Documents
          /\ analyze[s].pc \in {"readClauses", "saveFields"} =>
                /\ analyze[s].type \in DocTypes
                /\ SchemaOf[analyze[s].type] \in SchemaVers
    /\ \A c \in Clients :
          requests[c].pc \in {"add", "mark"} => requests[c].doc \in Documents

(* Only a failed job has used up its attempts.                             *)
TriesLeft(job) == job.state # "failed" => job.tries < Attempts

JobsOK ==
    \A d \in Documents : TriesLeft(ingestJob[d]) /\ TriesLeft(analysisJob[d])

TypeInv == TypeOK /\ RunsOK /\ JobsOK
-----------------------------------------------------------------------------
(* What the queue operations do to the type of a job: those the API and    *)
(* the clock call on any job, those that keep the attempts and so need     *)
(* some to be left, and those a worker slot calls.                         *)
LEMMA ProducerOperations ==
    ASSUME NEW Slots, NEW job \in Q!Jobs(Slots), TriesLeft(job)
    PROVE  /\ Q!Add(job) \in Q!Jobs(Slots) /\ TriesLeft(Q!Add(job))
           /\ Q!Remove(job) \in Q!Jobs(Slots) /\ TriesLeft(Q!Remove(job))
  BY BoundAssumption
     DEF BoundAssumption, Q!Jobs, Q!JobStates, TriesLeft, Q!Absent, Q!Add, Q!Remove

LEMMA ClockOperations ==
    ASSUME NEW Slots, NEW job \in Q!Jobs(Slots), TriesLeft(job),
           job.state \in {"waiting", "delayed", "active"}
    PROVE  /\ Q!Promote(job) \in Q!Jobs(Slots) /\ TriesLeft(Q!Promote(job))
           /\ Q!Stall(job) \in Q!Jobs(Slots) /\ TriesLeft(Q!Stall(job))
  BY BoundAssumption
     DEF BoundAssumption, Q!Jobs, Q!JobStates, TriesLeft, Q!Promote, Q!Stall

LEMMA SlotOperations ==
    ASSUME NEW Slots, NEW job \in Q!Jobs(Slots), NEW s \in Slots, TriesLeft(job)
    PROVE  /\ Q!Complete(job, s) \in Q!Jobs(Slots) /\ TriesLeft(Q!Complete(job, s))
           /\ Q!Fail(job, s) \in Q!Jobs(Slots) /\ TriesLeft(Q!Fail(job, s))
           /\ job.state = "waiting" =>
                 Q!Take(job, s) \in Q!Jobs(Slots) /\ TriesLeft(Q!Take(job, s))
  BY BoundAssumption
     DEF BoundAssumption, Q!Jobs, Q!JobStates, TriesLeft, Q!Complete, Q!Fail,
         Q!Owns, Q!LastTry, Q!Take
-----------------------------------------------------------------------------
LEMMA TypeInit == Init => TypeInv
<1> SUFFICES ASSUME Init PROVE TypeInv
  OBVIOUS
<1> USE BoundAssumption, SchemaAssumption DEF BoundAssumption, SchemaAssumption, Init
<1>1. TypeOK
  BY DEF TypeOK, Statuses, AnalysisStatuses, NoFlags, IdleIngest, IdleAnalysis,
         NewRequest, IngestRuns, IngestSteps, AnalysisRuns, AnalysisSteps, Requests,
         RequestSteps, Q!Jobs, Q!JobStates, Q!Absent, Extraction
<1>2. RunsOK
  BY DEF RunsOK, IdleIngest, IdleAnalysis, NewRequest
<1>3. JobsOK
  BY DEF JobsOK, TriesLeft, Q!Absent
<1> QED
  BY <1>1, <1>2, <1>3 DEF TypeInv

(* The API's steps.                                                        *)
LEMMA TypeApi == TypeInv /\ ApiStep => TypeInv'
<1> SUFFICES ASSUME TypeInv, ApiStep PROVE TypeInv'
  OBVIOUS
<1> USE BoundAssumption, SchemaAssumption
    DEF BoundAssumption, SchemaAssumption, TypeInv, TypeOK, RunsOK, JobsOK
<1>1. ASSUME NEW d \in Documents, Upload(d) PROVE TypeInv'
  BY <1>1 DEF Upload, Statuses
<1>2. ASSUME NEW d \in Documents, EnqueueIngest(d) PROVE TypeInv'
  <2>1. ingestJob' = [ingestJob EXCEPT ![d] = Q!Add(ingestJob[d])]
    BY <1>2 DEF EnqueueIngest
  <2>2. ingestJob[d] \in Q!Jobs(IngestSlots) /\ TriesLeft(ingestJob[d])
    OBVIOUS
  <2>3. Q!Add(ingestJob[d]) \in Q!Jobs(IngestSlots) /\ TriesLeft(Q!Add(ingestJob[d]))
    BY <2>2, ProducerOperations
  <2> QED
    BY <1>2, <2>1, <2>3 DEF EnqueueIngest
<1>3. ASSUME NEW c \in Clients, AskAnalysis(c) PROVE TypeInv'
  BY <1>3 DEF AskAnalysis, Requests, RequestSteps
<1>4. ASSUME NEW c \in Clients, NEW d \in Documents, ClearForRequest(c, d)
      PROVE TypeInv'
  <2>1. analysisJob' = [analysisJob EXCEPT ![d] = Q!Remove(analysisJob[d])]
    BY <1>4 DEF ClearForRequest
  <2>2. /\ Q!Remove(analysisJob[d]) \in Q!Jobs(AnalysisSlots)
        /\ TriesLeft(Q!Remove(analysisJob[d]))
    BY ProducerOperations
  <2> QED
    BY <1>4, <2>1, <2>2 DEF ClearForRequest, Requests, RequestSteps
<1>5. ASSUME NEW c \in Clients, AddForRequest(c) PROVE TypeInv'
  <2> DEFINE d == requests[c].doc
  <2>1. d \in Documents
    BY <1>5 DEF AddForRequest
  <2>2. analysisJob' = [analysisJob EXCEPT ![d] = Q!Add(analysisJob[d])]
    BY <1>5 DEF AddForRequest
  <2>3. /\ Q!Add(analysisJob[d]) \in Q!Jobs(AnalysisSlots)
        /\ TriesLeft(Q!Add(analysisJob[d]))
    BY <2>1, ProducerOperations
  <2> HIDE DEF d
  <2> QED
    BY <1>5, <2>1, <2>2, <2>3 DEF AddForRequest, Requests, RequestSteps
<1>6. ASSUME NEW c \in Clients, MarkForRequest(c) PROVE TypeInv'
  BY <1>6 DEF MarkForRequest, Requests, RequestSteps, AnalysisStatuses, Exists
<1>7. CASE DeleteCase
  BY <1>7 DEF DeleteCase, Exists, Statuses, AnalysisStatuses, NoFlags
<1>8. CASE ApiCrash
  BY <1>8 DEF ApiCrash, NewRequest, Requests, RequestSteps
<1> QED
  BY <1>1, <1>2, <1>3, <1>4, <1>5, <1>6, <1>7, <1>8 DEF ApiStep

(* A slot moves its run on, and BullMQ may move the job.                   *)
LEMMA TypeIngest == TypeInv /\ (\E s \in IngestSlots : IngestStep(s)) => TypeInv'
<1> SUFFICES ASSUME TypeInv, NEW s \in IngestSlots, IngestStep(s) PROVE TypeInv'
  OBVIOUS
<1> USE BoundAssumption, SchemaAssumption
    DEF BoundAssumption, SchemaAssumption, TypeInv, TypeOK, RunsOK, JobsOK
<1> DEFINE d == ingest[s].doc
<1>1. d \in Documents
  BY DEF IngestStep, StartIngest, RejectDocument, CommitIndex, ClearForIngest,
         ChainAnalysis, FinishIngest, ThrowIngest, IngestMayThrow
<1>2. /\ Q!Complete(ingestJob[d], s) \in Q!Jobs(IngestSlots)
      /\ TriesLeft(Q!Complete(ingestJob[d], s))
      /\ Q!Fail(ingestJob[d], s) \in Q!Jobs(IngestSlots)
      /\ TriesLeft(Q!Fail(ingestJob[d], s))
  BY <1>1, SlotOperations
<1>3. /\ Q!Remove(analysisJob[d]) \in Q!Jobs(AnalysisSlots)
      /\ TriesLeft(Q!Remove(analysisJob[d]))
      /\ Q!Add(analysisJob[d]) \in Q!Jobs(AnalysisSlots)
      /\ TriesLeft(Q!Add(analysisJob[d]))
  BY <1>1, ProducerOperations
<1>4. CASE StartIngest(s)
  BY <1>1, <1>4 DEF StartIngest, Statuses, IngestRuns, IngestSteps
<1>5. CASE RejectDocument(s)
  BY <1>1, <1>5 DEF RejectDocument, Statuses, IngestRuns, IngestSteps
<1>6. CASE CommitIndex(s)
  BY <1>1, <1>6 DEF CommitIndex, Statuses, AnalysisStatuses, NoFlags,
                    IngestRuns, IngestSteps
<1>7. CASE ClearForIngest(s)
  BY <1>1, <1>3, <1>7 DEF ClearForIngest, IngestRuns, IngestSteps
<1>8. CASE ChainAnalysis(s)
  BY <1>1, <1>3, <1>8 DEF ChainAnalysis, IngestRuns, IngestSteps
<1>9. CASE FinishIngest(s)
  BY <1>1, <1>2, <1>9 DEF FinishIngest, IdleIngest, IngestRuns, IngestSteps
<1>10. CASE ThrowIngest(s)
  BY <1>1, <1>2, <1>10 DEF ThrowIngest, IdleIngest, IngestRuns, IngestSteps
<1> QED
  BY <1>4, <1>5, <1>6, <1>7, <1>8, <1>9, <1>10 DEF IngestStep

LEMMA TypeAnalysis ==
    TypeInv /\ (\E s \in AnalysisSlots : AnalysisStep(s)) => TypeInv'
<1> SUFFICES ASSUME TypeInv, NEW s \in AnalysisSlots, AnalysisStep(s) PROVE TypeInv'
  OBVIOUS
<1> DEFINE d == analyze[s].doc
<1>a. /\ analyze \in [AnalysisSlots -> AnalysisRuns]
      /\ \A t \in DocTypes : SchemaOf[t] # NoSchema => SchemaOf[t] \in SchemaVers
  BY SchemaAssumption DEF TypeInv, TypeOK, SchemaAssumption
<1>b. /\ IdleAnalysis \in AnalysisRuns /\ IdleAnalysis.pc = "idle"
      /\ {"classify", "readType", "readClauses", "saveFields", "readFields",
          "readCites", "saveFlags", "end", "finish"} \subseteq AnalysisSteps
  BY DEF IdleAnalysis, AnalysisRuns, AnalysisSteps
<1>c. d \in Documents
  BY DEF TypeInv, RunsOK, AnalysisStep, BeginAnalysis, Classify, ReadType,
         ReadClauses, SaveFields, ReadFields, ReadCites, SaveFlags, EndAnalysis,
         FinishAnalysis, ThrowAnalysis, AnalysisMayThrow
<1>d. /\ Q!Complete(analysisJob[d], s) \in Q!Jobs(AnalysisSlots)
      /\ TriesLeft(Q!Complete(analysisJob[d], s))
      /\ Q!Fail(analysisJob[d], s) \in Q!Jobs(AnalysisSlots)
      /\ TriesLeft(Q!Fail(analysisJob[d], s))
  BY <1>c, SlotOperations DEF TypeInv, TypeOK, JobsOK
<1>1. CASE BeginAnalysis(s)
  <2>1. analyze' \in [AnalysisSlots -> AnalysisRuns]
    BY <1>a, <1>b, <1>1 DEF BeginAnalysis, AnalysisRuns
  <2>2. RunsOK'
    BY <1>a, <1>c, <1>1 DEF BeginAnalysis, AnalysisRuns, TypeInv, RunsOK
  <2>3. analysis' \in [Documents -> AnalysisStatuses]
    BY <1>1 DEF BeginAnalysis, TypeInv, TypeOK, AnalysisStatuses
  <2> QED
    BY <1>1, <2>1, <2>2, <2>3 DEF BeginAnalysis, TypeInv, TypeOK, JobsOK
<1>2. ASSUME NEW t \in DocTypes, Classify(s, t) PROVE TypeInv'
  <2>1. analyze' \in [AnalysisSlots -> AnalysisRuns]
    BY <1>a, <1>b, <1>c, <1>2 DEF Classify, AnalysisRuns, TypeInv, TypeOK
  <2>2. RunsOK'
    BY <1>a, <1>c, <1>2 DEF Classify, AnalysisRuns, TypeInv, RunsOK
  <2>3. docType' \in [Documents -> DocTypes \cup {NoType}]
    BY <1>a, <1>c, <1>2 DEF Classify, AnalysisRuns, TypeInv, TypeOK, RunsOK
  <2> QED
    BY <1>2, <2>1, <2>2, <2>3 DEF Classify, TypeInv, TypeOK, JobsOK
<1>3. CASE ReadType(s)
  <2>1. analyze' \in [AnalysisSlots -> AnalysisRuns]
    BY <1>a, <1>b, <1>c, <1>3 DEF ReadType, AnalysisRuns, TypeInv, TypeOK
  <2>2. RunsOK'
    BY <1>a, <1>c, <1>3 DEF ReadType, AnalysisRuns, TypeInv, RunsOK
  <2> QED
    BY <1>3, <2>1, <2>2 DEF ReadType, TypeInv, TypeOK, JobsOK
<1>4. CASE ReadClauses(s)
  <2>1. analyze' \in [AnalysisSlots -> AnalysisRuns]
    BY <1>a, <1>b, <1>c, <1>4 DEF ReadClauses, AnalysisRuns, TypeInv, TypeOK
  <2>2. RunsOK'
    BY <1>a, <1>c, <1>4 DEF ReadClauses, AnalysisRuns, TypeInv, RunsOK
  <2> QED
    BY <1>4, <2>1, <2>2 DEF ReadClauses, TypeInv, TypeOK, JobsOK
<1>5. ASSUME NEW cited \in BOOLEAN, SaveFields(s, cited) PROVE TypeInv'
  <2>1. analyze' \in [AnalysisSlots -> AnalysisRuns]
    BY <1>a, <1>b, <1>c, <1>5 DEF SaveFields, AnalysisRuns, TypeInv, TypeOK
  <2>2. RunsOK'
    BY <1>a, <1>c, <1>5 DEF SaveFields, AnalysisRuns, TypeInv, RunsOK
  <2>3. extractions' \in [Documents -> SUBSET Extraction]
    BY <1>a, <1>c, <1>5 DEF SaveFields, AnalysisRuns, TypeInv, TypeOK, RunsOK, Extraction
  <2> QED
    BY <1>5, <2>1, <2>2, <2>3 DEF SaveFields, TypeInv, TypeOK, JobsOK
<1>6. CASE ReadFields(s)
  <2>1. analyze' \in [AnalysisSlots -> AnalysisRuns]
    BY <1>a, <1>b, <1>c, <1>6 DEF ReadFields, AnalysisRuns, TypeInv, TypeOK
  <2>2. RunsOK'
    BY <1>a, <1>c, <1>6 DEF ReadFields, AnalysisRuns, TypeInv, RunsOK
  <2> QED
    BY <1>6, <2>1, <2>2 DEF ReadFields, TypeInv, TypeOK, JobsOK
<1>7. CASE ReadCites(s)
  <2> DEFINE from == {e.from : e \in {x \in analyze[s].fields \cap extractions[d] : x.cited}}
  <2>a. from \in SUBSET Nat
    BY <1>c DEF TypeInv, TypeOK, Extraction
  <2>b. analyze' = [analyze EXCEPT ![s].pc = "saveFlags", ![s].cites = from]
    BY <1>7 DEF ReadCites
  <2> HIDE DEF from
  <2>1. analyze' \in [AnalysisSlots -> AnalysisRuns]
    BY <1>a, <1>b, <2>a, <2>b DEF AnalysisRuns
  <2>2. RunsOK'
    BY <1>a, <1>c, <1>7 DEF ReadCites, AnalysisRuns, TypeInv, RunsOK
  <2> QED
    BY <1>7, <2>1, <2>2 DEF ReadCites, TypeInv, TypeOK, JobsOK
<1>8. ASSUME NEW cites \in {{}, analyze[s].cites}, SaveFlags(s, cites) PROVE TypeInv'
  <2>1. analyze' \in [AnalysisSlots -> AnalysisRuns]
    BY <1>a, <1>b, <1>c, <1>8 DEF SaveFlags, AnalysisRuns, TypeInv, TypeOK
  <2>2. RunsOK'
    BY <1>a, <1>c, <1>8 DEF SaveFlags, AnalysisRuns, TypeInv, RunsOK
  <2>3. flags' \in [Documents -> [basis: SUBSET Extraction, cites: SUBSET Nat]]
    BY <1>a, <1>c, <1>8 DEF SaveFlags, AnalysisRuns, TypeInv, TypeOK, RunsOK
  <2> QED
    BY <1>8, <2>1, <2>2, <2>3 DEF SaveFlags, TypeInv, TypeOK, JobsOK
<1>9. CASE EndAnalysis(s)
  <2>1. analyze' \in [AnalysisSlots -> AnalysisRuns]
    BY <1>a, <1>b, <1>c, <1>9 DEF EndAnalysis, AnalysisRuns, TypeInv, TypeOK
  <2>2. RunsOK'
    BY <1>a, <1>c, <1>9 DEF EndAnalysis, AnalysisRuns, TypeInv, RunsOK
  <2>3. analysis' \in [Documents -> AnalysisStatuses]
    BY <1>a, <1>c, <1>9 DEF EndAnalysis, AnalysisRuns, TypeInv, TypeOK, RunsOK, AnalysisStatuses
  <2> QED
    BY <1>9, <2>1, <2>2, <2>3 DEF EndAnalysis, TypeInv, TypeOK, JobsOK
<1>10. CASE FinishAnalysis(s)
  <2>1. analyze' \in [AnalysisSlots -> AnalysisRuns] /\ RunsOK'
    BY <1>a, <1>b, <1>10 DEF FinishAnalysis, TypeInv, RunsOK
  <2>2. analysisJob' \in [Documents -> Q!Jobs(AnalysisSlots)] /\ JobsOK'
    BY <1>c, <1>d, <1>10 DEF FinishAnalysis, TypeInv, TypeOK, JobsOK
  <2> QED
    BY <1>c, <1>10, <2>1, <2>2 DEF FinishAnalysis, TypeInv, TypeOK
<1>11. CASE ThrowAnalysis(s)
  <2>1. analyze' \in [AnalysisSlots -> AnalysisRuns] /\ RunsOK'
    BY <1>a, <1>b, <1>11 DEF ThrowAnalysis, TypeInv, RunsOK
  <2>2. analysisJob' \in [Documents -> Q!Jobs(AnalysisSlots)] /\ JobsOK'
    BY <1>c, <1>d, <1>11 DEF ThrowAnalysis, TypeInv, TypeOK, JobsOK
  <2> QED
    BY <1>c, <1>11, <2>1, <2>2 DEF ThrowAnalysis, TypeInv, TypeOK
<1> QED
  BY <1>1, <1>2, <1>3, <1>4, <1>5, <1>6, <1>7, <1>8, <1>9, <1>10, <1>11
     DEF AnalysisStep

(* Taking a job, the un-awaited update, and the clock.                     *)
LEMMA TypeRest ==
    /\ TypeInv
    /\ \/ \E s \in IngestSlots, d \in Documents : TakeIngest(s, d)
       \/ \E s \in AnalysisSlots, d \in Documents : TakeAnalysis(s, d)
       \/ \E d \in Documents : MarkFailed(d)
       \/ WorkerCrash
       \/ QueueStep
    => TypeInv'
<1> SUFFICES ASSUME TypeInv PROVE
       \/ \E s \in IngestSlots, d \in Documents : TakeIngest(s, d)
       \/ \E s \in AnalysisSlots, d \in Documents : TakeAnalysis(s, d)
       \/ \E d \in Documents : MarkFailed(d)
       \/ WorkerCrash
       \/ QueueStep
       => TypeInv'
  OBVIOUS
<1> USE BoundAssumption DEF BoundAssumption, TypeInv, TypeOK, RunsOK, JobsOK
<1>1. ASSUME NEW s \in IngestSlots, NEW d \in Documents, TakeIngest(s, d)
      PROVE TypeInv'
  <2>1. /\ Q!Take(ingestJob[d], s) \in Q!Jobs(IngestSlots)
        /\ TriesLeft(Q!Take(ingestJob[d], s))
    BY <1>1, SlotOperations DEF TakeIngest
  <2> QED
    BY <1>1, <2>1 DEF TakeIngest, IngestRuns, IngestSteps
<1>2. ASSUME NEW s \in AnalysisSlots, NEW d \in Documents, TakeAnalysis(s, d)
      PROVE TypeInv'
  <2>1. /\ Q!Take(analysisJob[d], s) \in Q!Jobs(AnalysisSlots)
        /\ TriesLeft(Q!Take(analysisJob[d], s))
    BY <1>2, SlotOperations DEF TakeAnalysis
  <2>2. analyze' \in [AnalysisSlots -> AnalysisRuns]
    BY <1>2 DEF TakeAnalysis, IdleAnalysis, AnalysisRuns, AnalysisSteps
  <2>3. RunsOK'
    BY <1>2 DEF TakeAnalysis, IdleAnalysis
  <2> QED
    BY <1>2, <2>1, <2>2, <2>3 DEF TakeAnalysis
<1>3. ASSUME NEW d \in Documents, MarkFailed(d) PROVE TypeInv'
  BY <1>3 DEF MarkFailed, AnalysisStatuses
<1>4. CASE WorkerCrash
  BY <1>4 DEF WorkerCrash, IdleIngest, IdleAnalysis, IngestRuns, IngestSteps,
              AnalysisRuns, AnalysisSteps
<1>5. ASSUME NEW d \in Documents,
             \/ PromoteIngest(d) \/ RecoverIngest(d) \/ LoseIngestLock(d)
      PROVE TypeInv'
  <2>1. /\ Q!Promote(ingestJob[d]) \in Q!Jobs(IngestSlots)
        /\ TriesLeft(Q!Promote(ingestJob[d]))
        /\ Q!Stall(ingestJob[d]) \in Q!Jobs(IngestSlots)
        /\ TriesLeft(Q!Stall(ingestJob[d]))
    BY <1>5, ClockOperations
       DEF PromoteIngest, RecoverIngest, LoseIngestLock, IngestAlive, Q!Owns
  <2>2. ingestJob' \in [Documents -> Q!Jobs(IngestSlots)] /\ JobsOK'
    BY <1>5, <2>1 DEF PromoteIngest, RecoverIngest, LoseIngestLock
  <2>3. stalls' \in 0..MaxStalls
    BY <1>5 DEF PromoteIngest, RecoverIngest, LoseIngestLock
  <2> QED
    BY <1>5, <2>2, <2>3 DEF PromoteIngest, RecoverIngest, LoseIngestLock
<1>6. ASSUME NEW d \in Documents,
             \/ PromoteAnalysis(d) \/ RecoverAnalysis(d) \/ LoseAnalysisLock(d)
      PROVE TypeInv'
  <2>1. /\ Q!Promote(analysisJob[d]) \in Q!Jobs(AnalysisSlots)
        /\ TriesLeft(Q!Promote(analysisJob[d]))
        /\ Q!Stall(analysisJob[d]) \in Q!Jobs(AnalysisSlots)
        /\ TriesLeft(Q!Stall(analysisJob[d]))
    BY <1>6, ClockOperations
       DEF PromoteAnalysis, RecoverAnalysis, LoseAnalysisLock, AnalysisAlive, Q!Owns
  <2>2. analysisJob' \in [Documents -> Q!Jobs(AnalysisSlots)] /\ JobsOK'
    BY <1>6, <2>1 DEF PromoteAnalysis, RecoverAnalysis, LoseAnalysisLock
  <2>3. stalls' \in 0..MaxStalls
    BY <1>6 DEF PromoteAnalysis, RecoverAnalysis, LoseAnalysisLock
  <2> QED
    BY <1>6, <2>2, <2>3 DEF PromoteAnalysis, RecoverAnalysis, LoseAnalysisLock
<1> QED
  BY <1>1, <1>2, <1>3, <1>4, <1>5, <1>6 DEF QueueStep

LEMMA TypeStep == TypeInv /\ [Next]_vars => TypeInv'
<1>1. TypeInv /\ UNCHANGED vars => TypeInv'
  BY DEF TypeInv, TypeOK, RunsOK, JobsOK, vars
<1> QED
  BY <1>1, TypeApi, TypeIngest, TypeAnalysis, TypeRest DEF Next, WorkerStep

LEMMA TypeInvariant == Spec => []TypeInv
<1> QED
  BY TypeInit, TypeStep, PTL DEF Spec

(* Every variable keeps its type, whatever the sizes of the constants; in  *)
(* particular no job is tried more often than its attempts allow.          *)
THEOREM TypeCorrect == Spec => []TypeOK
<1>1. TypeInv => TypeOK
  BY DEF TypeInv
<1> QED
  BY <1>1, TypeInvariant, PTL
-----------------------------------------------------------------------------
(* Which steps touch the rows that hang off a document.  The two proofs    *)
(* that follow only look at the four actions that write them.              *)
LEMMA RowWriters ==
    ASSUME [Next]_vars,
           ~DeleteCase,
           \A s \in IngestSlots : ~CommitIndex(s),
           \A s \in AnalysisSlots :
              /\ \A cited \in BOOLEAN : ~SaveFields(s, cited)
              /\ \A cites \in {{}, analyze[s].cites} : ~SaveFlags(s, cites)
    PROVE  UNCHANGED <<index, extractions, flags>>
<1>1. CASE ApiStep
  BY <1>1 DEF ApiStep, Upload, EnqueueIngest, AskAnalysis, ClearForRequest,
              AddForRequest, MarkForRequest, ApiCrash
<1>2. CASE WorkerStep
  BY <1>2 DEF WorkerStep, IngestStep, StartIngest, RejectDocument, ClearForIngest,
              ChainAnalysis, FinishIngest, ThrowIngest, TakeIngest,
              AnalysisStep, BeginAnalysis, Classify, ReadType, ReadClauses,
              ReadFields, ReadCites, EndAnalysis, FinishAnalysis, ThrowAnalysis,
              TakeAnalysis, MarkFailed, WorkerCrash
<1>3. CASE QueueStep
  BY <1>3 DEF QueueStep, PromoteIngest, PromoteAnalysis, RecoverIngest,
              RecoverAnalysis, LoseIngestLock, LoseAnalysisLock
<1>4. CASE UNCHANGED vars
  BY <1>4 DEF vars
<1> QED
  BY <1>1, <1>2, <1>3, <1>4 DEF Next

LEMMA CitationsStep == TypeInv /\ CitationsResolve /\ [Next]_vars => CitationsResolve'
<1> SUFFICES ASSUME TypeInv, CitationsResolve, [Next]_vars PROVE CitationsResolve'
  OBVIOUS
<1> USE DEF CitationsResolve
<1>1. CASE DeleteCase
  BY <1>1 DEF DeleteCase, TypeInv, TypeOK
<1>2. ASSUME NEW s \in IngestSlots, CommitIndex(s) PROVE CitationsResolve'
  BY <1>2 DEF CommitIndex, TypeInv, TypeOK
<1>3. ASSUME NEW s \in AnalysisSlots, NEW cited \in BOOLEAN, SaveFields(s, cited)
      PROVE CitationsResolve'
  <2>1. index' = index /\ ~CitesDangle(s, cited)
    BY <1>3 DEF SaveFields
  <2> QED
    BY <1>3, <2>1 DEF SaveFields, CitesDangle, TypeInv, TypeOK
<1>4. ASSUME NEW s \in AnalysisSlots, NEW cites \in {{}, analyze[s].cites},
             SaveFlags(s, cites)
      PROVE CitationsResolve'
  BY <1>4 DEF SaveFlags
<1> QED
  BY <1>1, <1>2, <1>3, <1>4, RowWriters

(* Whatever the worker, the queues and the users do, every stored citation *)
(* points at clauses of the index its document has now.                    *)
THEOREM CitationsAlwaysResolve == Spec => []CitationsResolve
<1>1. Init => CitationsResolve
  BY DEF Init, CitationsResolve
<1> QED
  BY <1>1, CitationsStep, TypeInvariant, PTL DEF Spec

(* Which steps write documents.status.                                     *)
LEMMA StatusWriters ==
    ASSUME [Next]_vars,
           ~DeleteCase,
           \A d \in Documents : ~Upload(d),
           \A s \in IngestSlots :
              ~StartIngest(s) /\ ~RejectDocument(s) /\ ~CommitIndex(s)
    PROVE  UNCHANGED status
<1>1. CASE ApiStep
  BY <1>1 DEF ApiStep, EnqueueIngest, AskAnalysis, ClearForRequest,
              AddForRequest, MarkForRequest, ApiCrash
<1>2. CASE WorkerStep
  BY <1>2 DEF WorkerStep, IngestStep, ClearForIngest, ChainAnalysis, FinishIngest,
              ThrowIngest, TakeIngest,
              AnalysisStep, BeginAnalysis, Classify, ReadType, ReadClauses, SaveFields,
              ReadFields, ReadCites, SaveFlags, EndAnalysis, FinishAnalysis,
              ThrowAnalysis, TakeAnalysis, MarkFailed, WorkerCrash
<1>3. CASE QueueStep
  BY <1>3 DEF QueueStep, PromoteIngest, PromoteAnalysis, RecoverIngest,
              RecoverAnalysis, LoseIngestLock, LoseAnalysisLock
<1>4. CASE UNCHANGED vars
  BY <1>4 DEF vars
<1> QED
  BY <1>1, <1>2, <1>3, <1>4 DEF Next

LEMMA DeletedStep ==
    TypeInv /\ DeletedLeavesNothing /\ [Next]_vars => DeletedLeavesNothing'
<1> SUFFICES ASSUME TypeInv, DeletedLeavesNothing, [Next]_vars
             PROVE DeletedLeavesNothing'
  OBVIOUS
<1> USE DEF DeletedLeavesNothing
<1>1. CASE DeleteCase
  BY <1>1 DEF DeleteCase, TypeInv, TypeOK
<1>2. CASE ~DeleteCase
  <2>1. \A d \in Documents : status'[d] = "deleted" => status[d] = "deleted"
    <3>1. ASSUME NEW e \in Documents, Upload(e)
          PROVE \A d \in Documents : status'[d] = "deleted" => status[d] = "deleted"
      BY <3>1 DEF Upload, TypeInv, TypeOK
    <3>2. ASSUME NEW s \in IngestSlots,
                 StartIngest(s) \/ RejectDocument(s) \/ CommitIndex(s)
          PROVE \A d \in Documents : status'[d] = "deleted" => status[d] = "deleted"
      BY <3>2 DEF StartIngest, RejectDocument, CommitIndex, TypeInv, TypeOK
    <3> QED
      BY <1>2, <3>1, <3>2, StatusWriters
  <2>2. ASSUME NEW s \in IngestSlots, CommitIndex(s) PROVE DeletedLeavesNothing'
    BY <2>1, <2>2 DEF CommitIndex, TypeInv, TypeOK, Exists
  <2>3. ASSUME NEW s \in AnalysisSlots, NEW cited \in BOOLEAN, SaveFields(s, cited)
        PROVE DeletedLeavesNothing'
    BY <2>1, <2>3 DEF SaveFields, TypeInv, TypeOK, Exists
  <2>4. ASSUME NEW s \in AnalysisSlots, NEW cites \in {{}, analyze[s].cites},
               SaveFlags(s, cites)
        PROVE DeletedLeavesNothing'
    BY <2>1, <2>4 DEF SaveFlags, TypeInv, TypeOK, Exists
  <2> QED
    BY <1>2, <2>1, <2>2, <2>3, <2>4, RowWriters
<1> QED
  BY <1>1, <1>2

(* However the deletion of a case interleaves with runs under way on its   *)
(* documents, none of them leaves rows of a deleted document behind.       *)
THEOREM DeletedStaysEmpty == Spec => []DeletedLeavesNothing
<1>1. Init => DeletedLeavesNothing
  BY DEF Init, DeletedLeavesNothing
<1> QED
  BY <1>1, DeletedStep, TypeInvariant, PTL DEF Spec
-----------------------------------------------------------------------------
(* Why a document has at most one run: while no lock is lost, a busy slot  *)
(* holds the lock of its document's job, and a job has one lock.           *)
BusySlotsOwn ==
    stalls = 0 =>
       /\ \A s \in IngestSlots : ingest[s].pc # "idle" =>
             Q!Owns(ingestJob[ingest[s].doc], s)
       /\ \A s \in AnalysisSlots : analyze[s].pc # "idle" =>
             Q!Owns(analysisJob[analyze[s].doc], s)

LEMMA OwnersStep == TypeInv /\ BusySlotsOwn /\ [Next]_vars => BusySlotsOwn'
<1> SUFFICES ASSUME TypeInv, BusySlotsOwn, [Next]_vars, stalls' = 0, stalls = 0
             PROVE  BusySlotsOwn'
  <2>1. ASSUME [Next]_vars, TypeInv, stalls' = 0 PROVE stalls = 0
    <3>1. stalls' = stalls \/ stalls' = stalls + 1
      BY <2>1 DEF Next, vars, ApiStep, Upload, EnqueueIngest, AskAnalysis,
              ClearForRequest, AddForRequest, MarkForRequest, DeleteCase, ApiCrash,
              WorkerStep, IngestStep, StartIngest, RejectDocument, CommitIndex,
              ClearForIngest, ChainAnalysis, FinishIngest, ThrowIngest, TakeIngest,
              AnalysisStep, BeginAnalysis, Classify, ReadType, ReadClauses,
              SaveFields, ReadFields, ReadCites, SaveFlags, EndAnalysis,
              FinishAnalysis, ThrowAnalysis, TakeAnalysis, MarkFailed, WorkerCrash,
              QueueStep, PromoteIngest, PromoteAnalysis, RecoverIngest,
              RecoverAnalysis, LoseIngestLock, LoseAnalysisLock
    <3> QED
      BY <2>1, <3>1, BoundAssumption DEF TypeInv, TypeOK, BoundAssumption
  <2> QED
    BY <2>1 DEF BusySlotsOwn
<1>1. /\ \A s \in IngestSlots : ingest[s].pc # "idle" =>
            /\ ingest[s].doc \in Documents
            /\ ingestJob[ingest[s].doc].state = "active"
            /\ ingestJob[ingest[s].doc].lock = s
      /\ \A s \in AnalysisSlots : analyze[s].pc # "idle" =>
            /\ analyze[s].doc \in Documents
            /\ analysisJob[analyze[s].doc].state = "active"
            /\ analysisJob[analyze[s].doc].lock = s
  BY DEF BusySlotsOwn, TypeInv, RunsOK, Q!Owns
<1>t. /\ ingestJob \in [Documents -> Q!Jobs(IngestSlots)]
      /\ analysisJob \in [Documents -> Q!Jobs(AnalysisSlots)]
      /\ ingest \in [IngestSlots -> IngestRuns]
      /\ analyze \in [AnalysisSlots -> AnalysisRuns]
  BY DEF TypeInv, TypeOK
<1> DEFINE OwnI == \A s \in IngestSlots : ingest[s].pc # "idle" =>
                      Q!Owns(ingestJob[ingest[s].doc], s)
           OwnA == \A s \in AnalysisSlots : analyze[s].pc # "idle" =>
                      Q!Owns(analysisJob[analyze[s].doc], s)
<1>2. OwnI'
  <2>1. CASE UNCHANGED <<ingest, ingestJob>>
    BY <1>1, <2>1 DEF Q!Owns
  <2>2. ASSUME NEW d \in Documents, EnqueueIngest(d) PROVE OwnI'
    BY <1>1, <1>t, <2>2 DEF EnqueueIngest, Q!Add, Q!Owns
  <2>3. ASSUME NEW s \in IngestSlots, NEW d \in Documents, TakeIngest(s, d)
        PROVE OwnI'
    BY <1>1, <1>t, <2>3 DEF TakeIngest, Q!Take, Q!Owns
  <2>4. ASSUME NEW s \in IngestSlots,
               \/ StartIngest(s) \/ RejectDocument(s) \/ CommitIndex(s)
               \/ ClearForIngest(s) \/ ChainAnalysis(s)
        PROVE OwnI'
    BY <1>1, <1>t, <2>4
       DEF StartIngest, RejectDocument, CommitIndex, ClearForIngest, ChainAnalysis,
           Q!Owns, IngestRuns
  <2>5. ASSUME NEW s \in IngestSlots, FinishIngest(s) \/ ThrowIngest(s) PROVE OwnI'
    <3>1. /\ ingest' = [ingest EXCEPT ![s] = IdleIngest]
          /\ \E job : ingestJob' = [ingestJob EXCEPT ![ingest[s].doc] = job]
      BY <2>5 DEF FinishIngest, ThrowIngest
    <3>2. ingest[s].pc # "idle"
      BY <2>5 DEF FinishIngest, ThrowIngest, IngestMayThrow
    <3> QED
      BY <1>1, <1>t, <3>1, <3>2 DEF IdleIngest, Q!Owns
  <2>6. ASSUME NEW d \in Documents, PromoteIngest(d) \/ RecoverIngest(d)
        PROVE OwnI'
    BY <1>1, <1>t, <2>6
       DEF PromoteIngest, RecoverIngest, IngestAlive, Q!Owns
  <2>7. ASSUME NEW d \in Documents, LoseIngestLock(d) \/ LoseAnalysisLock(d)
        PROVE FALSE
    BY <2>7 DEF LoseIngestLock, LoseAnalysisLock
  <2>8. CASE WorkerCrash
    BY <2>8 DEF WorkerCrash, IdleIngest
  <2>9. CASE ApiStep
    BY <2>1, <2>2, <2>9
       DEF ApiStep, Upload, AskAnalysis, ClearForRequest, AddForRequest,
           MarkForRequest, DeleteCase, ApiCrash
  <2>10. CASE WorkerStep
    BY <2>1, <2>3, <2>4, <2>5, <2>8, <2>10
       DEF WorkerStep, IngestStep, AnalysisStep, BeginAnalysis, Classify, ReadType,
           ReadClauses, SaveFields, ReadFields, ReadCites, SaveFlags, EndAnalysis,
           FinishAnalysis, ThrowAnalysis, TakeAnalysis, MarkFailed
  <2>11. CASE QueueStep
    BY <2>1, <2>6, <2>7, <2>11
       DEF QueueStep, PromoteAnalysis, RecoverAnalysis
  <2> QED
    BY <2>1, <2>9, <2>10, <2>11 DEF Next, vars
<1>3. OwnA'
  <2>1. CASE UNCHANGED <<analyze, analysisJob>>
    BY <1>1, <2>1 DEF Q!Owns
  <2>2. ASSUME NEW d \in Documents,
               \/ analysisJob' = [analysisJob EXCEPT ![d] = Q!Add(@)]
               \/ analysisJob' = [analysisJob EXCEPT ![d] = Q!Remove(@)],
               UNCHANGED analyze
        PROVE OwnA'
    BY <1>1, <1>t, <2>2 DEF Q!Add, Q!Remove, Q!Owns
  <2>3. ASSUME NEW s \in AnalysisSlots, NEW d \in Documents, TakeAnalysis(s, d)
        PROVE OwnA'
    BY <1>1, <1>t, <2>3 DEF TakeAnalysis, IdleAnalysis, Q!Take, Q!Owns
  <2>4. ASSUME NEW s \in AnalysisSlots,
               \/ BeginAnalysis(s) \/ \E t \in DocTypes : Classify(s, t)
               \/ ReadType(s) \/ ReadClauses(s)
               \/ \E cited \in BOOLEAN : SaveFields(s, cited)
               \/ ReadFields(s) \/ ReadCites(s)
               \/ \E cites \in {{}, analyze[s].cites} : SaveFlags(s, cites)
               \/ EndAnalysis(s)
        PROVE OwnA'
    <3>1. /\ UNCHANGED analysisJob
          /\ analyze'[s].doc = analyze[s].doc /\ analyze[s].pc # "idle"
          /\ \A r \in AnalysisSlots \ {s} : analyze'[r] = analyze[r]
      BY <1>t, <2>4
         DEF BeginAnalysis, Classify, ReadType, ReadClauses, SaveFields, ReadFields,
             ReadCites, SaveFlags, EndAnalysis, AnalysisRuns
    <3> QED
      BY <1>1, <3>1 DEF Q!Owns
  <2>5. ASSUME NEW s \in AnalysisSlots, FinishAnalysis(s) \/ ThrowAnalysis(s)
        PROVE OwnA'
    <3>1. /\ analyze' = [analyze EXCEPT ![s] = IdleAnalysis]
          /\ \E job : analysisJob' = [analysisJob EXCEPT ![analyze[s].doc] = job]
      BY <2>5 DEF FinishAnalysis, ThrowAnalysis
    <3>2. analyze[s].pc # "idle"
      BY <2>5 DEF FinishAnalysis, ThrowAnalysis, AnalysisMayThrow
    <3> QED
      BY <1>1, <1>t, <3>1, <3>2 DEF IdleAnalysis, Q!Owns
  <2>6. ASSUME NEW d \in Documents, PromoteAnalysis(d) \/ RecoverAnalysis(d)
        PROVE OwnA'
    BY <1>1, <1>t, <2>6
       DEF PromoteAnalysis, RecoverAnalysis, AnalysisAlive, Q!Owns
  <2>7. ASSUME NEW d \in Documents, LoseIngestLock(d) \/ LoseAnalysisLock(d)
        PROVE FALSE
    BY <2>7 DEF LoseIngestLock, LoseAnalysisLock
  <2>8. CASE WorkerCrash
    BY <2>8 DEF WorkerCrash, IdleAnalysis
  <2>9. CASE ApiStep
    <3>1. ASSUME NEW c \in Clients, AddForRequest(c) PROVE OwnA'
      BY <2>2, <3>1 DEF AddForRequest, TypeInv, RunsOK
    <3>2. ASSUME NEW c \in Clients, NEW d \in Documents, ClearForRequest(c, d)
          PROVE OwnA'
      BY <2>2, <3>2 DEF ClearForRequest
    <3> QED
      BY <2>1, <2>9, <3>1, <3>2
         DEF ApiStep, Upload, EnqueueIngest, AskAnalysis, MarkForRequest,
             DeleteCase, ApiCrash
  <2>10. CASE WorkerStep
    <3>1. ASSUME NEW s \in IngestSlots, ClearForIngest(s) \/ ChainAnalysis(s)
          PROVE OwnA'
      BY <1>1, <2>2, <3>1 DEF ClearForIngest, ChainAnalysis
    <3> QED
      BY <2>1, <2>3, <2>4, <2>5, <2>8, <2>10, <3>1
         DEF WorkerStep, IngestStep, AnalysisStep, StartIngest, RejectDocument,
             CommitIndex, FinishIngest, ThrowIngest, TakeIngest, MarkFailed
  <2>11. CASE QueueStep
    BY <2>1, <2>6, <2>7, <2>11 DEF QueueStep, PromoteIngest, RecoverIngest
  <2> QED
    BY <2>1, <2>9, <2>10, <2>11 DEF Next, vars
<1> QED
  BY <1>2, <1>3 DEF BusySlotsOwn

(* As long as no lock is lost, no document is ingested or analyzed by two  *)
(* slots at once, however often its jobs are removed, added and retried.   *)
THEOREM NeverTwoRuns == Spec => []OneRunPerDocument
<1>1. Init => BusySlotsOwn
  BY DEF Init, BusySlotsOwn, IdleIngest, IdleAnalysis
<1>2. TypeInv /\ BusySlotsOwn => OneRunPerDocument
  BY DEF TypeInv, RunsOK, BusySlotsOwn, OneRunPerDocument, Q!Owns
<1> QED
  BY <1>1, <1>2, OwnersStep, TypeInvariant, PTL DEF Spec
-----------------------------------------------------------------------------
(* Why the index matches the status.  Everything that may come to analyze  *)
(* a document is engaged with it, and the first thing that engages is the  *)
(* ingest run that has committed the document's index, or a request that   *)
(* saw it ready.  So an engaged document that was not deleted is indexed;  *)
(* and since only legible documents are indexed, one that is refused has   *)
(* no index, on whichever attempt it is refused.                           *)
EngagedByJob(d) ==
    \/ analysisJob[d].state # "absent"
    \/ d \in failing
    \/ \E s \in AnalysisSlots : analyze[s].pc # "idle" /\ analyze[s].doc = d

EngagedByIngest(d) ==
    \E s \in IngestSlots : ingest[s].pc \in {"clear", "chain"} /\ ingest[s].doc = d

EngagedByRequest(d) ==
    \E c \in Clients :
       \/ requests[c].pc \in {"clear", "add", "mark"} /\ d \in requests[c].todo
       \/ requests[c].pc \in {"add", "mark"} /\ requests[c].doc = d

Engaged(d) == EngagedByJob(d) \/ EngagedByIngest(d) \/ EngagedByRequest(d)

RowOK(d) ==
    /\ status[d] \in {"none", "uploaded"} => index[d] = 0
    /\ status[d] = "ready" => index[d] # 0
    /\ status[d] = "failed" => d \notin Legible
    /\ index[d] # 0 => d \in Legible
    /\ status[d] # "deleted" /\ analysis[d] # "pending" => index[d] # 0

IndexInv ==
    \A d \in Documents :
       /\ RowOK(d)
       /\ status[d] # "deleted" /\ Engaged(d) => index[d] # 0

(* Rows leave only with the deletion of the case, and so does an index.    *)
LEMMA RowsStay ==
    ASSUME TypeInv, [Next]_vars, NEW d \in Documents, status'[d] # "deleted"
    PROVE  status[d] # "deleted" /\ (index[d] # 0 => index'[d] # 0)
<1> USE DEF TypeInv, TypeOK
<1>1. CASE DeleteCase
  BY <1>1 DEF DeleteCase, Exists
<1>2. ASSUME NEW e \in Documents, Upload(e)
      PROVE  status[d] # "deleted" /\ (index[d] # 0 => index'[d] # 0)
  BY <1>2 DEF Upload
<1>3. ASSUME NEW s \in IngestSlots, StartIngest(s) \/ RejectDocument(s)
      PROVE  status[d] # "deleted" /\ (index[d] # 0 => index'[d] # 0)
  BY <1>3 DEF StartIngest, RejectDocument, Exists
<1>4. ASSUME NEW s \in IngestSlots, CommitIndex(s)
      PROVE  status[d] # "deleted" /\ (index[d] # 0 => index'[d] # 0)
  BY <1>4 DEF CommitIndex, Exists
<1>5. ASSUME ~DeleteCase, \A s \in IngestSlots : ~CommitIndex(s)
      PROVE  UNCHANGED index
  <2>1. ASSUME NEW s \in AnalysisSlots, NEW cited \in BOOLEAN, SaveFields(s, cited)
        PROVE  UNCHANGED index
    BY <2>1 DEF SaveFields
  <2>2. ASSUME NEW s \in AnalysisSlots, NEW cites \in {{}, analyze[s].cites},
               SaveFlags(s, cites)
        PROVE  UNCHANGED index
    BY <2>2 DEF SaveFlags
  <2> QED
    BY <1>5, <2>1, <2>2, RowWriters
<1> QED
  BY <1>1, <1>2, <1>3, <1>4, <1>5, StatusWriters

(* What comes to be engaged was engaged, or ready, or is being indexed.    *)
LEMMA EngagedStep ==
    ASSUME TypeInv, [Next]_vars, NEW d \in Documents, Engaged(d)'
    PROVE  \/ Engaged(d)
           \/ Clients # {} /\ status[d] = "ready"
           \/ \E s \in IngestSlots : CommitIndex(s) /\ ingest[s].doc = d
<1> USE DEF Engaged, EngagedByJob, EngagedByIngest, EngagedByRequest
<1>t. /\ analysisJob \in [Documents -> Q!Jobs(AnalysisSlots)]
      /\ ingest \in [IngestSlots -> IngestRuns]
      /\ analyze \in [AnalysisSlots -> AnalysisRuns]
      /\ requests \in [Clients -> Requests]
      /\ index \in [Documents -> Nat]
      /\ RunsOK
  BY DEF TypeInv, TypeOK
<1>1. CASE UNCHANGED <<analysisJob, ingest, analyze, failing, requests>>
  BY <1>1
<1>2. ASSUME NEW c \in Clients, AskAnalysis(c)
      PROVE  Engaged(d) \/ status[d] = "ready"
  BY <1>t, <1>2 DEF AskAnalysis
<1>3. ASSUME NEW c \in Clients, NEW e \in Documents, ClearForRequest(c, e)
      PROVE  Engaged(d)
  BY <1>t, <1>3 DEF ClearForRequest, Q!Remove, Q!Absent
<1>4. ASSUME NEW c \in Clients, AddForRequest(c) PROVE Engaged(d)
  BY <1>t, <1>4 DEF AddForRequest, Q!Add, Requests, RunsOK
<1>5. ASSUME NEW c \in Clients, MarkForRequest(c) PROVE Engaged(d)
  BY <1>t, <1>5 DEF MarkForRequest
<1>6. CASE ApiCrash
  BY <1>t, <1>6 DEF ApiCrash, NewRequest
<1>7. ASSUME NEW s \in IngestSlots, StartIngest(s) \/ RejectDocument(s)
      PROVE  Engaged(d)
  BY <1>t, <1>7 DEF StartIngest, RejectDocument, IngestRuns
<1>8. ASSUME NEW s \in IngestSlots, CommitIndex(s)
      PROVE  Engaged(d) \/ ingest[s].doc = d
  BY <1>t, <1>8 DEF CommitIndex, IngestRuns
<1>9. ASSUME NEW s \in IngestSlots, ClearForIngest(s) \/ ChainAnalysis(s)
      PROVE  Engaged(d)
  <2>1. /\ UNCHANGED <<analyze, failing, requests>>
        /\ \A r \in IngestSlots \ {s} : ingest'[r] = ingest[r]
        /\ ingest[s].pc \in {"clear", "chain"}
        /\ ingest'[s].doc = ingest[s].doc
        /\ \A e \in Documents \ {ingest[s].doc} : analysisJob'[e] = analysisJob[e]
    BY <1>t, <1>9 DEF ClearForIngest, ChainAnalysis, IngestRuns
  <2> QED
    BY <2>1
<1>10. ASSUME NEW s \in IngestSlots,
              \/ FinishIngest(s) \/ ThrowIngest(s)
              \/ \E e \in Documents : TakeIngest(s, e)
       PROVE  Engaged(d)
  BY <1>t, <1>10 DEF FinishIngest, ThrowIngest, TakeIngest, IdleIngest
<1>11. ASSUME NEW s \in AnalysisSlots, AnalysisStep(s) PROVE Engaged(d)
  <2>1. /\ UNCHANGED <<ingest, requests>>
        /\ \A r \in AnalysisSlots \ {s} : analyze'[r] = analyze[r]
        /\ analyze[s].pc # "idle"
        /\ analyze'[s].pc # "idle" => analyze'[s].doc = analyze[s].doc
        /\ \A e \in Documents \ {analyze[s].doc} : analysisJob'[e] = analysisJob[e]
        /\ failing' \subseteq failing \cup {analyze[s].doc}
    <3>1. CASE FinishAnalysis(s) \/ ThrowAnalysis(s)
      <4>1. /\ analyze[s].pc # "idle"
            /\ analyze' = [analyze EXCEPT ![s] = IdleAnalysis]
            /\ \E job : analysisJob' = [analysisJob EXCEPT ![analyze[s].doc] = job]
        BY <3>1 DEF FinishAnalysis, ThrowAnalysis, AnalysisMayThrow
      <4>2. /\ UNCHANGED <<ingest, requests>>
            /\ failing' \subseteq failing \cup {analyze[s].doc}
        BY <3>1 DEF FinishAnalysis, ThrowAnalysis
      <4> QED
        BY <1>t, <4>1, <4>2 DEF IdleAnalysis
    <3>2. CASE ~(FinishAnalysis(s) \/ ThrowAnalysis(s))
      BY <1>t, <1>11, <3>2
         DEF AnalysisStep, BeginAnalysis, Classify, ReadType, ReadClauses, SaveFields,
             ReadFields, ReadCites, SaveFlags, EndAnalysis, AnalysisRuns
    <3> QED
      BY <3>1, <3>2
  <2> QED
    BY <2>1
<1>12. ASSUME NEW s \in AnalysisSlots, NEW e \in Documents, TakeAnalysis(s, e)
       PROVE  Engaged(d)
  BY <1>t, <1>12 DEF TakeAnalysis, Q!Take, IdleAnalysis
<1>13. ASSUME NEW e \in Documents, MarkFailed(e) PROVE Engaged(d)
  BY <1>13 DEF MarkFailed
<1>14. CASE WorkerCrash
  BY <1>14 DEF WorkerCrash, IdleIngest, IdleAnalysis
<1>15. ASSUME NEW e \in Documents,
              PromoteAnalysis(e) \/ RecoverAnalysis(e) \/ LoseAnalysisLock(e)
       PROVE  Engaged(d)
  BY <1>t, <1>15 DEF PromoteAnalysis, RecoverAnalysis, LoseAnalysisLock,
                     AnalysisAlive, Q!Owns
<1>16. CASE ApiStep
  BY <1>1, <1>2, <1>3, <1>4, <1>5, <1>6, <1>16
     DEF ApiStep, Upload, EnqueueIngest, DeleteCase
<1>17. CASE WorkerStep
  BY <1>7, <1>8, <1>9, <1>10, <1>11, <1>12, <1>13, <1>14, <1>17
     DEF WorkerStep, IngestStep
<1>18. CASE QueueStep
  BY <1>1, <1>15, <1>18
     DEF QueueStep, PromoteIngest, RecoverIngest, LoseIngestLock
<1> QED
  BY <1>1, <1>16, <1>17, <1>18 DEF Next, vars

LEMMA RowStep ==
    ASSUME TypeInv, IndexInv, [Next]_vars, NEW d \in Documents
    PROVE  RowOK(d)'
<1>t. /\ status \in [Documents -> Statuses]
      /\ index \in [Documents -> Nat]
      /\ analysis \in [Documents -> AnalysisStatuses]
      /\ ingest \in [IngestSlots -> IngestRuns]
      /\ RunsOK
  BY DEF TypeInv, TypeOK
<1>i. RowOK(d) /\ (status[d] # "deleted" /\ Engaged(d) => index[d] # 0)
  BY DEF IndexInv
<1> USE DEF RowOK, Engaged, EngagedByJob, EngagedByIngest, EngagedByRequest
<1>1. CASE UNCHANGED <<status, index, analysis>>
  BY <1>i, <1>1
<1>2. ASSUME NEW e \in Documents, Upload(e) PROVE RowOK(d)'
  BY <1>i, <1>t, <1>2 DEF Upload
<1>3. ASSUME NEW c \in Clients, MarkForRequest(c) PROVE RowOK(d)'
  BY <1>i, <1>t, <1>3 DEF MarkForRequest, Exists
<1>4. CASE DeleteCase
  BY <1>i, <1>t, <1>4 DEF DeleteCase, Exists
<1>5. ASSUME NEW s \in IngestSlots, StartIngest(s) PROVE RowOK(d)'
  BY <1>i, <1>t, <1>5 DEF StartIngest, Exists
<1>6. ASSUME NEW s \in IngestSlots, RejectDocument(s) PROVE RowOK(d)'
  BY <1>i, <1>t, <1>6 DEF RejectDocument, Exists
<1>7. ASSUME NEW s \in IngestSlots, CommitIndex(s) PROVE RowOK(d)'
  BY <1>i, <1>t, <1>7 DEF CommitIndex, Exists
<1>8. ASSUME NEW s \in AnalysisSlots, BeginAnalysis(s) \/ EndAnalysis(s)
      PROVE RowOK(d)'
  BY <1>i, <1>t, <1>8 DEF BeginAnalysis, EndAnalysis, Exists
<1>9. ASSUME NEW e \in Documents, MarkFailed(e) PROVE RowOK(d)'
  BY <1>i, <1>t, <1>9 DEF MarkFailed, Exists
<1>10. CASE ApiStep
  BY <1>1, <1>2, <1>3, <1>4, <1>10
     DEF ApiStep, EnqueueIngest, AskAnalysis, ClearForRequest, AddForRequest, ApiCrash
<1>11. CASE WorkerStep
  BY <1>1, <1>5, <1>6, <1>7, <1>8, <1>9, <1>11
     DEF WorkerStep, IngestStep, ClearForIngest, ChainAnalysis, FinishIngest,
         ThrowIngest, TakeIngest, AnalysisStep, Classify, ReadType, ReadClauses,
         SaveFields, ReadFields, ReadCites, SaveFlags, FinishAnalysis,
         ThrowAnalysis, TakeAnalysis, WorkerCrash
<1>12. CASE QueueStep
  BY <1>1, <1>12
     DEF QueueStep, PromoteIngest, PromoteAnalysis, RecoverIngest,
         RecoverAnalysis, LoseIngestLock, LoseAnalysisLock
<1> QED
  BY <1>1, <1>10, <1>11, <1>12 DEF Next, vars

LEMMA IndexStep == TypeInv /\ IndexInv /\ [Next]_vars => IndexInv'
<1> SUFFICES ASSUME TypeInv, IndexInv, [Next]_vars, NEW d \in Documents
             PROVE  /\ RowOK(d)'
                    /\ status'[d] # "deleted" /\ Engaged(d)' => index'[d] # 0
  BY DEF IndexInv
<1>1. RowOK(d)'
  BY RowStep
<1>2. ASSUME status'[d] # "deleted", Engaged(d)' PROVE index'[d] # 0
  <2>1. status[d] # "deleted" /\ (index[d] # 0 => index'[d] # 0)
    BY <1>2, RowsStay
  <2>2. ASSUME NEW s \in IngestSlots, CommitIndex(s), ingest[s].doc = d
        PROVE  index'[d] # 0
    BY <2>2 DEF CommitIndex, TypeInv, TypeOK
  <2>3. Engaged(d) \/ status[d] = "ready" \/ index'[d] # 0
    BY <1>2, <2>2, EngagedStep
  <2> QED
    BY <2>1, <2>3 DEF IndexInv, RowOK
<1> QED
  BY <1>1, <1>2

(* FR-1.5: no attempt, crash, retry or late request ever shows a ready     *)
(* document without its index, or an analysis of one that has none.        *)
THEOREM IndexAlwaysMatches == Spec => []IndexMatchesStatus
<1>1. Init => IndexInv
  BY DEF Init, IndexInv, RowOK, Engaged, EngagedByJob, EngagedByIngest,
         EngagedByRequest, IdleIngest, IdleAnalysis, NewRequest, Q!Absent
<1>2. TypeInv /\ IndexInv => IndexMatchesStatus
  BY DEF TypeInv, TypeOK, IndexInv, RowOK, IndexMatchesStatus, Exists
<1> QED
  BY <1>1, <1>2, IndexStep, TypeInvariant, PTL DEF Spec
-----------------------------------------------------------------------------
(***************************************************************************)
(* The undisturbed life of a document: no process dies, no lock is lost,   *)
(* and where somebody may ask for a second analysis the chaining does not  *)
(* fail after the commit (pipeline.ts commits the index before it chains,  *)
(* so that a failure there repeats the whole ingest).                      *)
(***************************************************************************)
Undisturbed ==
    /\ MaxCrashes = 0
    /\ MaxStalls = 0
    /\ Clients = {} \/ "chain" \notin FaultPoints

(* The job of the document may still bring it an index.                    *)
MayCommit(d) ==
    \/ ingestJob[d].state \in {"absent", "waiting", "delayed"}
    \/ \E s \in IngestSlots : ingest[s].pc \in {"load", "parse"} /\ ingest[s].doc = d

(* Every active job is being worked on, so none is ever recovered.         *)
ActiveAlive ==
    \A d \in Documents :
       /\ ingestJob[d].state = "active" => IngestAlive(d)
       /\ analysisJob[d].state = "active" => AnalysisAlive(d)

(* The order of a document's life: nothing is about to analyze it while    *)
(* an ingest may still replace its clauses.                                *)
InOrder(d) ==
    /\ status[d] # "deleted" /\ MayCommit(d) =>
          ~Engaged(d) /\ (Clients # {} => status[d] # "ready")
    /\ status[d] # "deleted" /\ Clients = {} /\ EngagedByIngest(d) =>
          ~EngagedByJob(d)

(* What is stored of a document agrees with itself ...                     *)
StoredOK(d) ==
    /\ flags[d].cites \subseteq {index[d]}
    /\ status[d] # "deleted" =>
          /\ \A e \in extractions[d] : e.from = index[d]
          /\ analysis[d] = "analyzed" => flags[d].basis = extractions[d]

(* ... and what a run has read of it is still so.                          *)
ReadOK(s) ==
    LET d == analyze[s].doc
        pc == analyze[s].pc
    IN  pc # "idle" /\ status[d] # "deleted" =>
          /\ pc = "saveFields" => analyze[s].gen = index[d]
          /\ pc \in {"readCites", "saveFlags"} => analyze[s].fields = extractions[d]
          /\ pc = "saveFlags" => analyze[s].cites \subseteq {index[d]}
          /\ pc = "end" => flags[d].basis = extractions[d]
          /\ pc \notin {"begin", "finish"} => analysis[d] # "analyzed"

OrderInv ==
    /\ ActiveAlive
    /\ \A d \in Documents : InOrder(d) /\ StoredOK(d)
    /\ \A s \in AnalysisSlots : ReadOK(s)
-----------------------------------------------------------------------------
(* A busy slot's document has its one job active, locked by that slot.     *)
LEMMA Owners ==
    ASSUME Undisturbed, TypeInv, BusySlotsOwn
    PROVE  /\ \A s \in IngestSlots : ingest[s].pc # "idle" =>
                 /\ ingest[s].doc \in Documents
                 /\ ingestJob[ingest[s].doc].state = "active"
                 /\ ingestJob[ingest[s].doc].lock = s
           /\ \A s \in AnalysisSlots : analyze[s].pc # "idle" =>
                 /\ analyze[s].doc \in Documents
                 /\ analysisJob[analyze[s].doc].state = "active"
                 /\ analysisJob[analyze[s].doc].lock = s
<1>1. stalls = 0
  BY DEF Undisturbed, TypeInv, TypeOK
<1> QED
  BY <1>1 DEF TypeInv, RunsOK, BusySlotsOwn, Q!Owns

(* The steps left when nothing dies and no lock is lost.                   *)
CalmQueueStep == \E d \in Documents : PromoteIngest(d) \/ PromoteAnalysis(d)

LEMMA NoFaults ==
    ASSUME Undisturbed, TypeInv, ActiveAlive
    PROVE  /\ ~WorkerCrash /\ ~ApiCrash
           /\ QueueStep => CalmQueueStep
<1>1. crashes = 0 /\ stalls = 0
  BY DEF Undisturbed, TypeInv, TypeOK
<1>2. ~WorkerCrash /\ ~ApiCrash
  BY <1>1 DEF Undisturbed, WorkerCrash, ApiCrash
<1>3. \A d \in Documents : ~RecoverIngest(d) /\ ~RecoverAnalysis(d)
  BY DEF ActiveAlive, RecoverIngest, RecoverAnalysis
<1>4. \A d \in Documents : ~LoseIngestLock(d) /\ ~LoseAnalysisLock(d)
  BY <1>1 DEF Undisturbed, LoseIngestLock, LoseAnalysisLock
<1> QED
  BY <1>2, <1>3, <1>4 DEF QueueStep, CalmQueueStep

(* Every step of an ingest run keeps its document; a step of a run that    *)
(* does not end it touches no other slot and no ingest job.                *)
LEMMA IngestFrame ==
    ASSUME TypeInv, NEW s \in IngestSlots, IngestStep(s)
    PROVE  /\ ingest[s].pc # "idle" /\ ingest[s].doc \in Documents
           /\ \A r \in IngestSlots \ {s} : ingest'[r] = ingest[r]
           /\ UNCHANGED <<analyze, failing, requests, pending>>
           /\ \/ /\ ~FinishIngest(s) /\ ~ThrowIngest(s)
                 /\ ingestJob' = ingestJob
                 /\ ingest'[s].pc # "idle" /\ ingest'[s].doc = ingest[s].doc
              \/ /\ FinishIngest(s) \/ ThrowIngest(s)
                 /\ ingest'[s] = IdleIngest
                 /\ UNCHANGED <<docVars, analysisJob>>
                 /\ \A e \in Documents \ {ingest[s].doc} : ingestJob'[e] = ingestJob[e]
<1>t. ingest \in [IngestSlots -> IngestRuns] /\ ingestJob \in [Documents -> Q!Jobs(IngestSlots)]
  BY DEF TypeInv, TypeOK
<1>1. ingest[s].pc # "idle" /\ ingest[s].doc \in Documents
  BY DEF TypeInv, RunsOK, IngestStep, StartIngest, RejectDocument, CommitIndex,
         ClearForIngest, ChainAnalysis, FinishIngest, ThrowIngest, IngestMayThrow
<1>2. CASE FinishIngest(s) \/ ThrowIngest(s)
  <2>1. /\ ingest' = [ingest EXCEPT ![s] = IdleIngest]
        /\ \E job : ingestJob' = [ingestJob EXCEPT ![ingest[s].doc] = job]
        /\ UNCHANGED <<docVars, analysisJob, analyze, failing, apiVars>>
    BY <1>2 DEF FinishIngest, ThrowIngest
  <2> QED
    BY <1>t, <1>1, <1>2, <2>1
<1>3. CASE ~(FinishIngest(s) \/ ThrowIngest(s))
  <2>1. /\ UNCHANGED <<analyze, failing, apiVars, ingestJob>>
        /\ \A r \in IngestSlots \ {s} : ingest'[r] = ingest[r]
        /\ ingest'[s].pc # "idle" /\ ingest'[s].doc = ingest[s].doc
    BY <1>t, <1>3
       DEF IngestStep, StartIngest, RejectDocument, CommitIndex, ClearForIngest,
           ChainAnalysis, IngestRuns
  <2> QED
    BY <1>1, <1>3, <2>1
<1> QED
  BY <1>2, <1>3

LEMMA AnalysisFrame ==
    ASSUME TypeInv, NEW s \in AnalysisSlots, AnalysisStep(s)
    PROVE  /\ analyze[s].pc # "idle" /\ analyze[s].doc \in Documents
           /\ \A r \in AnalysisSlots \ {s} : analyze'[r] = analyze[r]
           /\ UNCHANGED <<status, index, ingest, ingestJob, requests, pending>>
           /\ \/ /\ ~FinishAnalysis(s) /\ ~ThrowAnalysis(s)
                 /\ UNCHANGED <<analysisJob, failing>>
                 /\ analyze'[s].pc # "idle" /\ analyze'[s].doc = analyze[s].doc
              \/ /\ FinishAnalysis(s) \/ ThrowAnalysis(s)
                 /\ analyze'[s] = IdleAnalysis
                 /\ UNCHANGED docVars
                 /\ failing \subseteq failing'
                 /\ failing' \subseteq failing \cup {analyze[s].doc}
                 /\ \A e \in Documents \ {analyze[s].doc} :
                       analysisJob'[e] = analysisJob[e]
<1>t. /\ analyze \in [AnalysisSlots -> AnalysisRuns]
      /\ analysisJob \in [Documents -> Q!Jobs(AnalysisSlots)]
  BY DEF TypeInv, TypeOK
<1>1. analyze[s].pc # "idle" /\ analyze[s].doc \in Documents
  BY DEF TypeInv, RunsOK, AnalysisStep, BeginAnalysis, Classify, ReadType,
         ReadClauses, SaveFields, ReadFields, ReadCites, SaveFlags, EndAnalysis,
         FinishAnalysis, ThrowAnalysis, AnalysisMayThrow
<1>2. CASE FinishAnalysis(s) \/ ThrowAnalysis(s)
  <2>1. /\ analyze' = [analyze EXCEPT ![s] = IdleAnalysis]
        /\ \E job : analysisJob' = [analysisJob EXCEPT ![analyze[s].doc] = job]
        /\ UNCHANGED <<docVars, ingestJob, ingest, apiVars>>
    BY <1>2 DEF FinishAnalysis, ThrowAnalysis
  <2>2. failing \subseteq failing' /\ failing' \subseteq failing \cup {analyze[s].doc}
    BY <1>2 DEF FinishAnalysis, ThrowAnalysis
  <2>3. \A e \in Documents \ {analyze[s].doc} : analysisJob'[e] = analysisJob[e]
    BY <1>t, <2>1
  <2>4. /\ analyze'[s] = IdleAnalysis
        /\ \A r \in AnalysisSlots \ {s} : analyze'[r] = analyze[r]
    BY <1>t, <2>1
  <2> QED
    BY <1>1, <1>2, <2>1, <2>2, <2>3, <2>4
<1>3. CASE ~(FinishAnalysis(s) \/ ThrowAnalysis(s))
  <2>1. /\ UNCHANGED <<status, index, ingest, ingestJob, apiVars, analysisJob, failing>>
        /\ \A r \in AnalysisSlots \ {s} : analyze'[r] = analyze[r]
        /\ analyze'[s].pc # "idle" /\ analyze'[s].doc = analyze[s].doc
    BY <1>t, <1>3
       DEF AnalysisStep, BeginAnalysis, Classify, ReadType, ReadClauses, SaveFields,
           ReadFields, ReadCites, SaveFlags, EndAnalysis, AnalysisRuns
  <2> QED
    BY <1>1, <1>3, <2>1
<1> QED
  BY <1>2, <1>3

(* An active job stays with its run until the run ends it.                 *)
LEMMA IngestAliveStep ==
    ASSUME Undisturbed, TypeInv, BusySlotsOwn, ActiveAlive, [Next]_vars,
           NEW d \in Documents, ingestJob'[d].state = "active"
    PROVE  IngestAlive(d)'
<1>t. /\ ingest \in [IngestSlots -> IngestRuns]
      /\ ingestJob \in [Documents -> Q!Jobs(IngestSlots)]
  BY DEF TypeInv, TypeOK
<1>o. \A s \in IngestSlots : ingest[s].pc # "idle" =>
         /\ ingest[s].doc \in Documents
         /\ ingestJob[ingest[s].doc].state = "active"
         /\ ingestJob[ingest[s].doc].lock = s
  BY Owners
<1>a. ingestJob[d].state = "active" => IngestAlive(d)
  BY DEF ActiveAlive
<1> USE DEF IngestAlive, Q!Owns
<1>1. CASE UNCHANGED <<ingest, ingestJob>>
  BY <1>a, <1>1
<1>2. ASSUME NEW e \in Documents, EnqueueIngest(e) \/ PromoteIngest(e)
      PROVE  IngestAlive(d)'
  BY <1>t, <1>a, <1>2 DEF EnqueueIngest, PromoteIngest, Q!Add, Q!Promote
<1>3. ASSUME NEW s \in IngestSlots, NEW e \in Documents, TakeIngest(s, e)
      PROVE  IngestAlive(d)'
  BY <1>t, <1>a, <1>3 DEF TakeIngest, Q!Take
<1>4. ASSUME NEW s \in IngestSlots, IngestStep(s) PROVE IngestAlive(d)'
  <2>1. CASE FinishIngest(s) \/ ThrowIngest(s)
    <3>1. /\ ingest[s].pc # "idle" /\ ingest[s].doc \in Documents
          /\ \A r \in IngestSlots \ {s} : ingest'[r] = ingest[r]
          /\ \A e \in Documents \ {ingest[s].doc} : ingestJob'[e] = ingestJob[e]
      BY <1>4, <2>1, IngestFrame
    <3>2. ingestJob'[ingest[s].doc].state # "active"
      BY <1>t, <1>o, <2>1, <3>1
         DEF FinishIngest, ThrowIngest, Q!Complete, Q!Fail
    <3> QED
      BY <1>a, <3>1, <3>2
  <2>2. CASE ~(FinishIngest(s) \/ ThrowIngest(s))
    <3>1. /\ \A r \in IngestSlots \ {s} : ingest'[r] = ingest[r]
          /\ ingestJob' = ingestJob
          /\ ingest'[s].pc # "idle" /\ ingest'[s].doc = ingest[s].doc
      BY <1>4, <2>2, IngestFrame
    <3> QED
      BY <1>a, <3>1
  <2> QED
    BY <2>1, <2>2
<1>5. CASE ApiStep
  BY <1>1, <1>2, <1>5, NoFaults
     DEF ApiStep, Upload, AskAnalysis, ClearForRequest, AddForRequest, MarkForRequest,
         DeleteCase
<1>6. CASE WorkerStep
  <2>1. ASSUME NEW s \in AnalysisSlots, AnalysisStep(s)
        PROVE  UNCHANGED <<ingest, ingestJob>>
    BY <2>1, AnalysisFrame
  <2> QED
    BY <1>1, <1>3, <1>4, <1>6, <2>1, NoFaults DEF WorkerStep, TakeAnalysis, MarkFailed
<1>7. CASE CalmQueueStep
  BY <1>1, <1>2, <1>7 DEF CalmQueueStep, PromoteAnalysis
<1> QED
  BY <1>1, <1>5, <1>6, <1>7, NoFaults DEF Next, vars

LEMMA AnalysisAliveStep ==
    ASSUME Undisturbed, TypeInv, BusySlotsOwn, ActiveAlive, [Next]_vars,
           NEW d \in Documents, analysisJob'[d].state = "active"
    PROVE  AnalysisAlive(d)'
<1>t. /\ analyze \in [AnalysisSlots -> AnalysisRuns]
      /\ analysisJob \in [Documents -> Q!Jobs(AnalysisSlots)]
      /\ RunsOK
  BY DEF TypeInv, TypeOK
<1>o. \A s \in AnalysisSlots : analyze[s].pc # "idle" =>
         /\ analyze[s].doc \in Documents
         /\ analysisJob[analyze[s].doc].state = "active"
         /\ analysisJob[analyze[s].doc].lock = s
  BY Owners
<1>a. analysisJob[d].state = "active" => AnalysisAlive(d)
  BY DEF ActiveAlive
<1> USE DEF AnalysisAlive, Q!Owns
<1>1. CASE UNCHANGED <<analyze, analysisJob>>
  BY <1>a, <1>1
<1>2. ASSUME NEW e \in Documents, UNCHANGED analyze,
             \/ analysisJob' = [analysisJob EXCEPT ![e] = Q!Add(@)]
             \/ analysisJob' = [analysisJob EXCEPT ![e] = Q!Remove(@)]
             \/ analysisJob' = [analysisJob EXCEPT ![e] = Q!Promote(@)]
      PROVE  AnalysisAlive(d)'
  BY <1>t, <1>a, <1>2 DEF Q!Add, Q!Remove, Q!Absent, Q!Promote
<1>3. ASSUME NEW s \in AnalysisSlots, NEW e \in Documents, TakeAnalysis(s, e)
      PROVE  AnalysisAlive(d)'
  BY <1>t, <1>a, <1>3 DEF TakeAnalysis, IdleAnalysis, Q!Take
<1>4. ASSUME NEW s \in AnalysisSlots, AnalysisStep(s) PROVE AnalysisAlive(d)'
  <2>1. CASE FinishAnalysis(s) \/ ThrowAnalysis(s)
    <3>1. /\ analyze[s].pc # "idle" /\ analyze[s].doc \in Documents
          /\ \A r \in AnalysisSlots \ {s} : analyze'[r] = analyze[r]
          /\ \A e \in Documents \ {analyze[s].doc} : analysisJob'[e] = analysisJob[e]
      BY <1>4, <2>1, AnalysisFrame
    <3>2. analysisJob'[analyze[s].doc].state # "active"
      BY <1>t, <1>o, <2>1, <3>1
         DEF FinishAnalysis, ThrowAnalysis, Q!Complete, Q!Fail
    <3> QED
      BY <1>a, <3>1, <3>2
  <2>2. CASE ~(FinishAnalysis(s) \/ ThrowAnalysis(s))
    <3>1. /\ \A r \in AnalysisSlots \ {s} : analyze'[r] = analyze[r]
          /\ analysisJob' = analysisJob
          /\ analyze'[s].pc # "idle" /\ analyze'[s].doc = analyze[s].doc
      BY <1>4, <2>2, AnalysisFrame
    <3> QED
      BY <1>a, <3>1
  <2> QED
    BY <2>1, <2>2
<1>5. CASE ApiStep
  <2>1. ASSUME NEW c \in Clients, AddForRequest(c) PROVE AnalysisAlive(d)'
    BY <1>t, <1>2, <2>1 DEF AddForRequest, RunsOK
  <2>2. ASSUME NEW c \in Clients, NEW e \in Documents, ClearForRequest(c, e)
        PROVE  AnalysisAlive(d)'
    BY <1>2, <2>2 DEF ClearForRequest
  <2> QED
    BY <1>1, <1>5, <2>1, <2>2, NoFaults
       DEF ApiStep, Upload, EnqueueIngest, AskAnalysis, MarkForRequest, DeleteCase
<1>6. CASE WorkerStep
  <2>1. ASSUME NEW s \in IngestSlots, IngestStep(s) PROVE AnalysisAlive(d)'
    <3>1. ingest[s].doc \in Documents /\ analyze' = analyze
      BY <2>1, IngestFrame
    <3>2. CASE ClearForIngest(s) \/ ChainAnalysis(s)
      BY <1>2, <3>1, <3>2 DEF ClearForIngest, ChainAnalysis
    <3>3. CASE ~(ClearForIngest(s) \/ ChainAnalysis(s))
      BY <1>1, <2>1, <3>1, <3>3
         DEF IngestStep, StartIngest, RejectDocument, CommitIndex, FinishIngest,
             ThrowIngest
    <3> QED
      BY <3>2, <3>3
  <2> QED
    BY <1>1, <1>3, <1>4, <1>6, <2>1, NoFaults DEF WorkerStep, TakeIngest, MarkFailed
<1>7. CASE CalmQueueStep
  BY <1>1, <1>2, <1>7 DEF CalmQueueStep, PromoteIngest, PromoteAnalysis
<1> QED
  BY <1>1, <1>5, <1>6, <1>7, NoFaults DEF Next, vars
-----------------------------------------------------------------------------
(* Once past its commit, only a failure of the chaining brings an ingest   *)
(* back to where it may commit; commit and refusal leave that place.       *)
Rechained(d) ==
    \E s \in IngestSlots :
       ThrowIngest(s) /\ ingest[s].pc = "chain" /\ ingest[s].doc = d

LEMMA MayCommitStep ==
    ASSUME Undisturbed, TypeInv, BusySlotsOwn, ActiveAlive, [Next]_vars,
           NEW d \in Documents, MayCommit(d)'
    PROVE  /\ MayCommit(d) \/ Rechained(d)
           /\ \A s \in IngestSlots :
                 CommitIndex(s) \/ RejectDocument(s) => ingest[s].doc # d
<1>t. /\ ingest \in [IngestSlots -> IngestRuns]
      /\ ingestJob \in [Documents -> Q!Jobs(IngestSlots)]
  BY DEF TypeInv, TypeOK
<1>o. \A s \in IngestSlots : ingest[s].pc # "idle" =>
         /\ ingest[s].doc \in Documents
         /\ ingestJob[ingest[s].doc].state = "active"
         /\ ingestJob[ingest[s].doc].lock = s
  BY Owners
<1> USE DEF MayCommit
<1>1. ASSUME UNCHANGED <<ingest, ingestJob>> PROVE MayCommit(d)
  BY <1>1
<1>2. ASSUME NEW e \in Documents, EnqueueIngest(e) \/ PromoteIngest(e)
      PROVE  MayCommit(d)
  BY <1>t, <1>2 DEF EnqueueIngest, PromoteIngest, Q!Add, Q!Promote
<1>3. ASSUME NEW s \in IngestSlots, NEW e \in Documents, TakeIngest(s, e)
      PROVE  MayCommit(d)
  BY <1>t, <1>3 DEF TakeIngest, Q!Take
<1>4. ASSUME NEW s \in IngestSlots, IngestStep(s)
      PROVE  MayCommit(d) \/ Rechained(d)
  <2>1. CASE FinishIngest(s)
    <3>1. \A r \in IngestSlots \ {s} : ingest'[r] = ingest[r]
      BY <1>4, IngestFrame
    <3>2. ingest'[s].pc = "idle"
      BY <1>t, <2>1 DEF FinishIngest, IdleIngest
    <3>3. ingestJob'[d] = ingestJob[d] \/ ingestJob'[d].state = "completed"
      BY <1>t, <2>1 DEF FinishIngest, Q!Complete
    <3> QED
      BY <3>1, <3>2, <3>3
  <2>2. CASE ThrowIngest(s)
    <3>1. /\ \A r \in IngestSlots \ {s} : ingest'[r] = ingest[r]
          /\ \A e \in Documents \ {ingest[s].doc} : ingestJob'[e] = ingestJob[e]
          /\ ingest'[s].pc = "idle"
      BY <1>4, <2>2, IngestFrame DEF FinishIngest, IdleIngest
    <3>2. ingest[s].pc \in {"load", "parse", "chain"}
      BY <2>2 DEF ThrowIngest, IngestMayThrow
    <3>3. CASE ingest[s].doc = d
      <4>1. CASE ingest[s].pc = "chain"
        BY <2>2, <3>3, <4>1 DEF Rechained
      <4>2. CASE ingest[s].pc # "chain"
        BY <3>2, <3>3, <4>2
      <4> QED
        BY <4>1, <4>2
    <3>4. CASE ingest[s].doc # d
      BY <3>1, <3>4
    <3> QED
      BY <3>3, <3>4
  <2>3. CASE ~FinishIngest(s) /\ ~ThrowIngest(s)
    <3>1. /\ \A r \in IngestSlots \ {s} : ingest'[r] = ingest[r]
          /\ ingestJob' = ingestJob
          /\ ingest'[s].doc = ingest[s].doc
      BY <1>4, <2>3, IngestFrame
    <3>2. ingest'[s].pc \in {"load", "parse"} => ingest[s].pc = "load"
      BY <1>t, <1>4, <2>3
         DEF IngestStep, StartIngest, RejectDocument, CommitIndex, ClearForIngest,
             ChainAnalysis, IngestRuns
    <3> QED
      BY <3>1, <3>2
  <2> QED
    BY <2>1, <2>2, <2>3
<1>5. ASSUME NEW s \in IngestSlots, CommitIndex(s) \/ RejectDocument(s),
             ingest[s].doc = d
      PROVE  FALSE
  <2>1. /\ ingest[s].pc = "parse" /\ ingest'[s].pc \notin {"load", "parse"}
        /\ ingestJob' = ingestJob
        /\ \A r \in IngestSlots \ {s} : ingest'[r] = ingest[r]
    BY <1>t, <1>5 DEF CommitIndex, RejectDocument, IngestRuns
  <2>2. \A r \in IngestSlots \ {s} : ingest[r].pc = "idle" \/ ingest[r].doc # d
    BY <1>o, <1>5, <2>1
  <2>3. ingestJob'[d].state = "active"
    BY <1>o, <1>5, <2>1
  <2> QED
    BY <2>1, <2>2, <2>3
<1>6. CASE ApiStep
  BY <1>1, <1>2, <1>5, <1>6, NoFaults
     DEF ApiStep, Upload, AskAnalysis, ClearForRequest, AddForRequest, MarkForRequest,
         DeleteCase
<1>7. CASE WorkerStep
  <2>1. ASSUME NEW s \in AnalysisSlots, AnalysisStep(s)
        PROVE  UNCHANGED <<ingest, ingestJob>>
    BY <2>1, AnalysisFrame
  <2> QED
    BY <1>1, <1>3, <1>4, <1>5, <1>7, <2>1, NoFaults
       DEF WorkerStep, TakeAnalysis, MarkFailed
<1>8. CASE CalmQueueStep
  BY <1>1, <1>2, <1>5, <1>8 DEF CalmQueueStep, PromoteAnalysis
<1> QED
  BY <1>1, <1>5, <1>6, <1>7, <1>8, NoFaults DEF Next, vars

(* With nobody asking, only the chaining gives a document an analysis job, *)
(* and the run that chains it is done with it.                             *)
LEMMA ChainStep ==
    ASSUME Undisturbed, TypeInv, BusySlotsOwn, ActiveAlive, [Next]_vars,
           Clients = {}, NEW d \in Documents, EngagedByJob(d)'
    PROVE  \/ EngagedByJob(d)
           \/ \E s \in IngestSlots :
                 ChainAnalysis(s) /\ ingest[s].doc = d /\ ~EngagedByIngest(d)'
<1>t. /\ ingest \in [IngestSlots -> IngestRuns]
      /\ analyze \in [AnalysisSlots -> AnalysisRuns]
      /\ analysisJob \in [Documents -> Q!Jobs(AnalysisSlots)]
  BY DEF TypeInv, TypeOK
<1>o. \A s \in IngestSlots : ingest[s].pc # "idle" =>
         /\ ingest[s].doc \in Documents
         /\ ingestJob[ingest[s].doc].state = "active"
         /\ ingestJob[ingest[s].doc].lock = s
  BY Owners
<1>1. CASE UNCHANGED <<analyze, analysisJob, failing>>
  BY <1>1 DEF EngagedByJob
<1>2. ASSUME NEW s \in IngestSlots, IngestStep(s)
      PROVE  \/ EngagedByJob(d)
             \/ ChainAnalysis(s) /\ ingest[s].doc = d /\ ~EngagedByIngest(d)'
  <2>1. CASE ChainAnalysis(s) /\ ingest[s].doc = d
    <3>1. ingest[s].pc = "chain" /\ ingest'[s].pc = "finish"
      BY <1>t, <2>1 DEF ChainAnalysis, IngestRuns
    <3>2. \A r \in IngestSlots \ {s} :
             ingest'[r] = ingest[r] /\ (ingest[r].pc = "idle" \/ ingest[r].doc # d)
      BY <1>o, <1>2, <2>1, <3>1, IngestFrame
    <3>3. ~EngagedByIngest(d)'
      BY <3>1, <3>2 DEF EngagedByIngest
    <3> QED
      BY <2>1, <3>3
  <2>2. CASE ~(ChainAnalysis(s) /\ ingest[s].doc = d)
    <3>1. UNCHANGED <<analyze, failing>>
      BY <1>2, IngestFrame
    <3>2. analysisJob'[d] = analysisJob[d] \/ analysisJob'[d] = Q!Remove(analysisJob[d])
      BY <1>t, <1>2, <2>2
         DEF IngestStep, StartIngest, RejectDocument, CommitIndex, ClearForIngest,
             ChainAnalysis, FinishIngest, ThrowIngest
    <3> QED
      BY <3>1, <3>2 DEF EngagedByJob, Q!Remove, Q!Absent
  <2> QED
    BY <2>1, <2>2
<1>3. ASSUME NEW s \in AnalysisSlots, AnalysisStep(s) PROVE EngagedByJob(d)
  <2>1. /\ analyze[s].pc # "idle"
        /\ \A r \in AnalysisSlots \ {s} : analyze'[r] = analyze[r]
        /\ failing' \subseteq failing \cup {analyze[s].doc}
        /\ analyze'[s].pc # "idle" => analyze'[s].doc = analyze[s].doc
        /\ \A e \in Documents \ {analyze[s].doc} : analysisJob'[e] = analysisJob[e]
    BY <1>3, AnalysisFrame DEF IdleAnalysis
  <2> QED
    BY <2>1 DEF EngagedByJob
<1>4. ASSUME NEW s \in AnalysisSlots, NEW e \in Documents, TakeAnalysis(s, e)
      PROVE  EngagedByJob(d)
  BY <1>t, <1>4 DEF TakeAnalysis, IdleAnalysis, Q!Take, EngagedByJob
<1>5. ASSUME NEW e \in Documents, MarkFailed(e) \/ PromoteAnalysis(e)
      PROVE  EngagedByJob(d)
  BY <1>t, <1>5 DEF MarkFailed, PromoteAnalysis, Q!Promote, EngagedByJob
<1>6. CASE ApiStep
  BY <1>1, <1>6, NoFaults DEF ApiStep, Upload, EnqueueIngest, DeleteCase
<1>7. CASE WorkerStep
  BY <1>1, <1>2, <1>3, <1>4, <1>5, <1>7, NoFaults DEF WorkerStep, TakeIngest
<1>8. CASE CalmQueueStep
  BY <1>1, <1>5, <1>8 DEF CalmQueueStep, PromoteIngest
<1> QED
  BY <1>1, <1>6, <1>7, <1>8, NoFaults DEF Next, vars

LEMMA OrderStep ==
    ASSUME Undisturbed, TypeInv, BusySlotsOwn, IndexInv, OrderInv, [Next]_vars,
           NEW d \in Documents
    PROVE  InOrder(d)'
<1>a. ActiveAlive /\ InOrder(d)
  BY DEF OrderInv
<1> SUFFICES ASSUME status'[d] # "deleted"
             PROVE  /\ MayCommit(d)' => ~Engaged(d)' /\ (Clients # {} => status'[d] # "ready")
                    /\ Clients = {} /\ EngagedByIngest(d)' => ~EngagedByJob(d)'
  BY DEF InOrder
<1>l. status[d] # "deleted"
  BY RowsStay
<1>1. ASSUME Clients # {} PROVE ~Rechained(d)
  BY <1>1 DEF Undisturbed, Rechained, ThrowIngest, IngestMayThrow
<1>2. ASSUME MayCommit(d)', MayCommit(d)
      PROVE  ~Engaged(d)' /\ (Clients # {} => status'[d] # "ready")
  <2>1. ~Engaged(d) /\ (Clients # {} => status[d] # "ready")
    BY <1>a, <1>l, <1>2 DEF InOrder
  <2>2. \A s \in IngestSlots : CommitIndex(s) => ingest[s].doc # d
    BY <1>a, <1>2, MayCommitStep
  <2>3. ~Engaged(d)'
    BY <2>1, <2>2, EngagedStep
  <2>4. status'[d] = "ready" => status[d] = "ready"
    <3>1. ASSUME NEW s \in IngestSlots, CommitIndex(s) PROVE status'[d] = status[d]
      BY <2>2, <3>1 DEF CommitIndex, TypeInv, TypeOK
    <3>2. ASSUME NEW e \in Documents, Upload(e)
          PROVE status'[d] = "ready" => status[d] = "ready"
      BY <3>2 DEF Upload, TypeInv, TypeOK
    <3>3. ASSUME NEW s \in IngestSlots, StartIngest(s) \/ RejectDocument(s)
          PROVE status'[d] = "ready" => status[d] = "ready"
      BY <3>3 DEF StartIngest, RejectDocument, TypeInv, TypeOK
    <3>4. CASE DeleteCase
      BY <3>4 DEF DeleteCase, TypeInv, TypeOK
    <3> QED
      BY <3>1, <3>2, <3>3, <3>4, StatusWriters
  <2> QED
    BY <2>1, <2>3, <2>4
<1>3. ASSUME Rechained(d) PROVE ~Engaged(d)' /\ Clients = {}
  <2>1. Clients = {}
    BY <1>1, <1>3
  <2>2. PICK s \in IngestSlots : ThrowIngest(s) /\ ingest[s].pc = "chain" /\ ingest[s].doc = d
    BY <1>3 DEF Rechained
  <2>3. ~EngagedByJob(d)
    BY <1>a, <1>l, <2>1, <2>2 DEF InOrder, EngagedByIngest
  <2>4. /\ UNCHANGED <<analysisJob, analyze, failing>>
        /\ ingest'[s].pc = "idle"
        /\ \A r \in IngestSlots \ {s} :
              ingest'[r] = ingest[r] /\ (ingest[r].pc = "idle" \/ ingest[r].doc # d)
    <3>1. \A r \in IngestSlots \ {s} : ingest[r].pc = "idle" \/ ingest[r].doc # d
      BY <2>2, Owners
    <3>2. /\ UNCHANGED <<analysisJob, analyze, failing>>
          /\ ingest' = [ingest EXCEPT ![s] = IdleIngest]
      BY <2>2 DEF ThrowIngest
    <3> QED
      BY <3>1, <3>2 DEF IdleIngest, TypeInv, TypeOK
  <2>5. ~EngagedByJob(d)'
    BY <2>3, <2>4 DEF EngagedByJob
  <2>6. ~EngagedByIngest(d)'
    BY <2>4 DEF EngagedByIngest
  <2>7. ~EngagedByRequest(d)'
    BY <2>1 DEF EngagedByRequest
  <2> QED
    BY <2>1, <2>5, <2>6, <2>7 DEF Engaged
<1>4. ASSUME Clients = {}, EngagedByIngest(d)', EngagedByJob(d)' PROVE FALSE
  <2>1. EngagedByJob(d)
    BY <1>a, <1>4, ChainStep
  <2>2. ~EngagedByIngest(d)
    BY <1>a, <1>l, <1>4, <2>1 DEF InOrder
  <2>3. PICK s \in IngestSlots :
           /\ ingest'[s].pc \in {"clear", "chain"} /\ ingest'[s].doc = d
    BY <1>4 DEF EngagedByIngest
  <2>4. ingest'[s] # ingest[s]
    BY <2>2, <2>3 DEF EngagedByIngest
  <2>5. CommitIndex(s) /\ ingest[s].doc = d
    <3>1. ASSUME NEW r \in IngestSlots, IngestStep(r) PROVE r = s
      BY <2>4, <3>1, IngestFrame
    <3>2. ASSUME NEW r \in IngestSlots, NEW e \in Documents, TakeIngest(r, e) PROVE FALSE
      BY <2>3, <2>4, <3>2 DEF TakeIngest, TypeInv, TypeOK
    <3>3. ASSUME IngestStep(s) PROVE CommitIndex(s) /\ ingest[s].doc = d
      BY <2>2, <2>3, <3>3
         DEF IngestStep, StartIngest, RejectDocument, CommitIndex, ClearForIngest,
             ChainAnalysis, FinishIngest, ThrowIngest, IdleIngest, IngestRuns,
             EngagedByIngest, TypeInv, TypeOK
    <3>4. ASSUME NEW r \in AnalysisSlots, AnalysisStep(r) PROVE ingest' = ingest
      BY <3>4, AnalysisFrame
    <3>5. CASE ApiStep
      BY <1>a, <2>4, <3>5, NoFaults
         DEF ApiStep, Upload, EnqueueIngest, AskAnalysis, ClearForRequest,
             AddForRequest, MarkForRequest, DeleteCase
    <3>6. CASE WorkerStep
      BY <1>a, <2>4, <3>1, <3>2, <3>3, <3>4, <3>6, NoFaults
         DEF WorkerStep, TakeAnalysis, MarkFailed
    <3>7. CASE QueueStep
      BY <1>a, <2>4, <3>7, NoFaults DEF CalmQueueStep, PromoteIngest, PromoteAnalysis
    <3> QED
      BY <2>4, <3>5, <3>6, <3>7 DEF Next, vars
  <2>6. MayCommit(d)
    BY <2>5 DEF MayCommit, CommitIndex
  <2> QED
    BY <1>a, <1>l, <2>1, <2>6 DEF InOrder, Engaged
<1>5. ASSUME MayCommit(d)'
      PROVE  ~Engaged(d)' /\ (Clients # {} => status'[d] # "ready")
  BY <1>a, <1>2, <1>3, <1>5, MayCommitStep
<1> QED
  BY <1>4, <1>5
-----------------------------------------------------------------------------
(* What is written to the row of a document that an analysis run is on.    *)
LEMMA Alone ==
    ASSUME Undisturbed, TypeInv, BusySlotsOwn,
           NEW s \in AnalysisSlots, NEW r \in AnalysisSlots, s # r,
           analyze[s].pc # "idle", analyze[r].pc # "idle"
    PROVE  analyze[s].doc # analyze[r].doc
BY Owners

(* A commit meets no run that analyzes the document.                       *)
LEMMA CommitAlone ==
    ASSUME Undisturbed, TypeInv, OrderInv, NEW i \in IngestSlots, CommitIndex(i)
    PROVE  ~Engaged(ingest[i].doc)
<1>1. /\ ingest[i].pc = "parse" /\ status[ingest[i].doc] # "deleted"
      /\ ingest[i].doc \in Documents
  BY DEF CommitIndex, Exists, TypeInv, RunsOK
<1>2. MayCommit(ingest[i].doc)
  BY <1>1 DEF MayCommit
<1> QED
  BY <1>1, <1>2 DEF OrderInv, InOrder

LEMMA StoredStep ==
    ASSUME Undisturbed, TypeInv, BusySlotsOwn, IndexInv, OrderInv, [Next]_vars,
           NEW d \in Documents
    PROVE  StoredOK(d)'
<1>i. StoredOK(d)
  BY DEF OrderInv
<1>t. /\ status \in [Documents -> Statuses]
      /\ index \in [Documents -> Nat]
      /\ extractions \in [Documents -> SUBSET Extraction]
      /\ flags \in [Documents -> [basis: SUBSET Extraction, cites: SUBSET Nat]]
      /\ analysis \in [Documents -> AnalysisStatuses]
      /\ RunsOK
  BY DEF TypeInv, TypeOK
<1> USE DEF StoredOK
<1>1. ASSUME UNCHANGED <<index, extractions, flags>>,
             status'[d] # "deleted" => status[d] # "deleted",
             analysis'[d] = "analyzed" => analysis[d] = "analyzed"
      PROVE  StoredOK(d)'
  BY <1>i, <1>1
<1>2. CASE DeleteCase
  BY <1>i, <1>t, <1>2 DEF DeleteCase, Exists, NoFlags
<1>3. ASSUME NEW i \in IngestSlots, CommitIndex(i) PROVE StoredOK(d)'
  BY <1>i, <1>t, <1>3 DEF CommitIndex, Exists, NoFlags
<1>4. ASSUME NEW s \in AnalysisSlots, AnalysisStep(s) PROVE StoredOK(d)'
  <2>r. ReadOK(s)
    BY DEF OrderInv
  <2>d. analyze[s].pc # "idle" /\ analyze[s].doc \in Documents
    BY <1>4, AnalysisFrame
  <2>1. CASE BeginAnalysis(s)
    BY <1>i, <1>t, <2>d, <2>1 DEF BeginAnalysis
  <2>2. CASE EndAnalysis(s)
    <3>1. /\ UNCHANGED <<status, index, extractions, flags>>
          /\ analyze[s].pc = "end"
          /\ \/ analysis'[d] = analysis[d]
             \/ d = analyze[s].doc
      BY <1>t, <2>2 DEF EndAnalysis
    <3>2. d = analyze[s].doc /\ status[d] # "deleted" => flags[d].basis = extractions[d]
      BY <2>r, <3>1 DEF ReadOK
    <3> QED
      BY <1>i, <3>1, <3>2
  <2>3. ASSUME NEW cited \in BOOLEAN, SaveFields(s, cited) PROVE StoredOK(d)'
    <3>1. CASE d = analyze[s].doc
      <4>1. /\ UNCHANGED <<status, index, flags, analysis>>
            /\ analyze[s].pc = "saveFields" /\ status[d] # "deleted"
            /\ \A e \in extractions'[d] : e \in extractions[d] \/ e.from = analyze[s].gen
        BY <1>t, <2>3, <3>1 DEF SaveFields, Exists
      <4>2. analyze[s].gen = index[d] /\ analysis[d] # "analyzed"
        BY <2>r, <3>1, <4>1 DEF ReadOK
      <4> QED
        BY <1>i, <4>1, <4>2
    <3>2. CASE d # analyze[s].doc
      <4>1. extractions'[d] = extractions[d] /\ UNCHANGED <<status, index, flags, analysis>>
        BY <1>t, <2>3, <3>2 DEF SaveFields
      <4> QED
        BY <1>i, <4>1
    <3> QED
      BY <3>1, <3>2
  <2>4. ASSUME NEW cites \in {{}, analyze[s].cites}, SaveFlags(s, cites)
        PROVE  StoredOK(d)'
    <3>0. UNCHANGED <<status, index, extractions, analysis>>
      BY <2>4 DEF SaveFlags
    <3>1. CASE d = analyze[s].doc /\ Exists(d)
      <4>1. /\ analyze[s].pc = "saveFlags" /\ status[d] # "deleted"
            /\ flags'[d] = [basis |-> analyze[s].fields, cites |-> cites]
        BY <1>t, <2>4, <3>1 DEF SaveFlags, Exists
      <4>2. analyze[s].cites \subseteq {index[d]} /\ analysis[d] # "analyzed"
        BY <2>r, <3>1, <4>1 DEF ReadOK
      <4> QED
        BY <3>0, <1>i, <4>1, <4>2
    <3>2. CASE ~(d = analyze[s].doc /\ Exists(d))
      <4>1. flags'[d] = flags[d]
        BY <1>t, <2>4, <3>2 DEF SaveFlags
      <4> QED
        BY <3>0, <1>i, <4>1
    <3> QED
      BY <3>1, <3>2
  <2>5. ASSUME \/ \E t \in DocTypes : Classify(s, t)
               \/ ReadType(s) \/ ReadClauses(s) \/ ReadFields(s) \/ ReadCites(s)
               \/ FinishAnalysis(s) \/ ThrowAnalysis(s)
        PROVE  UNCHANGED <<status, index, extractions, flags, analysis>>
    BY <2>5 DEF Classify, ReadType, ReadClauses, ReadFields, ReadCites,
                FinishAnalysis, ThrowAnalysis
  <2> QED
    BY <1>4, <1>1, <2>1, <2>2, <2>3, <2>4, <2>5 DEF AnalysisStep
<1>5. ASSUME NEW e \in Documents, MarkFailed(e) PROVE StoredOK(d)'
  BY <1>i, <1>t, <1>5 DEF MarkFailed
<1>6. ASSUME NEW c \in Clients, MarkForRequest(c) PROVE StoredOK(d)'
  BY <1>i, <1>t, <1>6 DEF MarkForRequest
<1>7. CASE ApiStep
  <2>1. ASSUME NEW e \in Documents, Upload(e) PROVE StoredOK(d)'
    BY <1>i, <1>t, <2>1 DEF Upload
  <2> QED
    BY <1>1, <1>2, <1>6, <1>7, <2>1
       DEF ApiStep, EnqueueIngest, AskAnalysis, ClearForRequest, AddForRequest, ApiCrash
<1>8. CASE WorkerStep
  <2>1. ASSUME NEW i \in IngestSlots, StartIngest(i) \/ RejectDocument(i)
        PROVE  StoredOK(d)'
    BY <1>i, <1>t, <2>1 DEF StartIngest, RejectDocument, Exists
  <2> QED
    BY <1>1, <1>3, <1>4, <1>5, <1>8, <2>1
       DEF WorkerStep, IngestStep, ClearForIngest, ChainAnalysis, FinishIngest,
           ThrowIngest, TakeIngest, TakeAnalysis, WorkerCrash
<1>9. CASE QueueStep
  BY <1>1, <1>9
     DEF QueueStep, PromoteIngest, PromoteAnalysis, RecoverIngest, RecoverAnalysis,
         LoseIngestLock, LoseAnalysisLock
<1> QED
  BY <1>1, <1>7, <1>8, <1>9 DEF Next, vars

(* A run is not overtaken: only its own steps and the deletion of the case *)
(* change what it has read.                                                *)
LEMMA ReadKept ==
    ASSUME NEW r \in AnalysisSlots, ReadOK(r), analyze'[r] = analyze[r],
           status'[analyze[r].doc] # "deleted" =>
               /\ status[analyze[r].doc] # "deleted"
               /\ index'[analyze[r].doc] = index[analyze[r].doc]
               /\ extractions'[analyze[r].doc] = extractions[analyze[r].doc]
               /\ flags'[analyze[r].doc] = flags[analyze[r].doc]
               /\ analysis'[analyze[r].doc] = "analyzed"
                     => analysis[analyze[r].doc] = "analyzed"
    PROVE  ReadOK(r)'
BY DEF ReadOK

LEMMA ReadOwnStep ==
    ASSUME TypeInv, IndexInv, OrderInv, NEW r \in AnalysisSlots, AnalysisStep(r)
    PROVE  ReadOK(r)'
<1>t. /\ index \in [Documents -> Nat]
      /\ extractions \in [Documents -> SUBSET Extraction]
      /\ flags \in [Documents -> [basis: SUBSET Extraction, cites: SUBSET Nat]]
      /\ analysis \in [Documents -> AnalysisStatuses]
      /\ analyze \in [AnalysisSlots -> AnalysisRuns]
  BY DEF TypeInv, TypeOK
<1>d. /\ analyze[r].doc \in Documents /\ analyze[r].pc # "idle"
      /\ UNCHANGED <<status, index>>
  BY AnalysisFrame
<1>r. ReadOK(r) /\ StoredOK(analyze[r].doc)
  BY <1>d DEF OrderInv
<1> DEFINE d == analyze[r].doc
<1>1. CASE BeginAnalysis(r)
  BY <1>t, <1>d, <1>1 DEF BeginAnalysis, ReadOK, AnalysisRuns
<1>2. ASSUME NEW t \in DocTypes, Classify(r, t) PROVE ReadOK(r)'
  BY <1>t, <1>d, <1>r, <1>2 DEF Classify, ReadOK, AnalysisRuns
<1>3. CASE ReadType(r)
  BY <1>t, <1>d, <1>r, <1>3 DEF ReadType, ReadOK, AnalysisRuns
<1>4. CASE ReadClauses(r)
  BY <1>t, <1>d, <1>r, <1>4 DEF ReadClauses, ReadOK, AnalysisRuns
<1>5. ASSUME NEW cited \in BOOLEAN, SaveFields(r, cited) PROVE ReadOK(r)'
  <2>1. /\ analyze[r].pc = "saveFields" /\ analyze'[r].pc = "readFields"
        /\ analyze'[r].doc = d /\ analysis' = analysis
    BY <1>t, <1>5 DEF SaveFields, AnalysisRuns
  <2> QED
    BY <1>d, <1>r, <2>1 DEF ReadOK
<1>6. CASE ReadFields(r)
  BY <1>t, <1>d, <1>r, <1>6 DEF ReadFields, ReadOK, AnalysisRuns
<1>7. CASE ReadCites(r)
  <2> DEFINE from == {e.from : e \in {x \in analyze[r].fields \cap extractions[d] : x.cited}}
  <2>1. /\ analyze[r].pc = "readCites" /\ analyze'[r].pc = "saveFlags"
        /\ analyze'[r].doc = d /\ UNCHANGED <<analysis, extractions>>
        /\ analyze'[r].fields = analyze[r].fields
        /\ analyze'[r].cites = from
    BY <1>t, <1>7 DEF ReadCites, AnalysisRuns
  <2>2. status[d] # "deleted" => from \subseteq {index[d]}
    BY <1>r DEF StoredOK
  <2> HIDE DEF from
  <2> QED
    BY <1>d, <1>r, <2>1, <2>2 DEF ReadOK
<1>8. ASSUME NEW cites \in {{}, analyze[r].cites}, SaveFlags(r, cites) PROVE ReadOK(r)'
  <2>1. /\ analyze[r].pc = "saveFlags" /\ analyze'[r].pc = "end"
        /\ analyze'[r].doc = d /\ UNCHANGED <<analysis, extractions>>
    BY <1>t, <1>8 DEF SaveFlags, AnalysisRuns
  <2>2. flags'[d] = IF Exists(d) THEN [basis |-> analyze[r].fields, cites |-> cites]
                    ELSE flags[d]
    BY <1>t, <1>d, <1>8 DEF SaveFlags
  <2>3. status[d] # "none"
    BY <1>d DEF IndexInv, RowOK, Engaged, EngagedByJob
  <2> QED
    BY <1>d, <1>r, <2>1, <2>2, <2>3 DEF ReadOK, Exists
<1>9. CASE EndAnalysis(r)
  BY <1>t, <1>d, <1>9 DEF EndAnalysis, ReadOK, AnalysisRuns
<1>10. CASE FinishAnalysis(r) \/ ThrowAnalysis(r)
  <2>1. analyze'[r] = IdleAnalysis
    BY <1>10, AnalysisFrame
       DEF FinishAnalysis, ThrowAnalysis
  <2> QED
    BY <2>1 DEF ReadOK, IdleAnalysis
<1> QED
  BY <1>1, <1>2, <1>3, <1>4, <1>5, <1>6, <1>7, <1>8, <1>9, <1>10 DEF AnalysisStep

LEMMA ReadStep ==
    ASSUME Undisturbed, TypeInv, BusySlotsOwn, IndexInv, OrderInv, [Next]_vars,
           NEW r \in AnalysisSlots
    PROVE  ReadOK(r)'
<1>t. /\ status \in [Documents -> Statuses]
      /\ index \in [Documents -> Nat]
      /\ extractions \in [Documents -> SUBSET Extraction]
      /\ flags \in [Documents -> [basis: SUBSET Extraction, cites: SUBSET Nat]]
      /\ analysis \in [Documents -> AnalysisStatuses]
      /\ analyze \in [AnalysisSlots -> AnalysisRuns]
      /\ RunsOK
  BY DEF TypeInv, TypeOK
<1>r. ReadOK(r)
  BY DEF OrderInv
<1>1. CASE analyze[r].pc = "idle"
  <2>1. ASSUME analyze'[r] = analyze[r] PROVE ReadOK(r)'
    BY <1>1, <2>1 DEF ReadOK
  <2>2. ASSUME NEW s \in AnalysisSlots, NEW e \in Documents, TakeAnalysis(s, e)
        PROVE  ReadOK(r)'
    BY <1>1, <1>t, <2>2 DEF TakeAnalysis, IdleAnalysis, ReadOK
  <2>3. ASSUME NEW s \in AnalysisSlots, AnalysisStep(s) PROVE ReadOK(r)'
    BY <1>1, <2>1, <2>3, AnalysisFrame
  <2>4. ASSUME NEW i \in IngestSlots, IngestStep(i) PROVE ReadOK(r)'
    BY <2>1, <2>4, IngestFrame
  <2>5. CASE ApiStep
    BY <2>1, <2>5, NoFaults
       DEF ApiStep, Upload, EnqueueIngest, AskAnalysis, ClearForRequest, AddForRequest,
           MarkForRequest, DeleteCase, OrderInv
  <2>6. CASE WorkerStep
    BY <2>1, <2>2, <2>3, <2>4, <2>6, NoFaults DEF WorkerStep, TakeIngest, MarkFailed,
           OrderInv
  <2>7. CASE QueueStep
    BY <2>1, <2>7, NoFaults DEF CalmQueueStep, PromoteIngest, PromoteAnalysis, OrderInv
  <2> QED
    BY <2>1, <2>5, <2>6, <2>7 DEF Next, vars
<1>2. CASE analyze[r].pc # "idle"
  <2> DEFINE d == analyze[r].doc
  <2>d. d \in Documents
    BY <1>2, <1>t DEF RunsOK
  <2>e. Engaged(d)
    BY <1>2 DEF Engaged, EngagedByJob
  <2> DEFINE Rows == /\ index'[d] = index[d]
                     /\ extractions'[d] = extractions[d]
                     /\ flags'[d] = flags[d]
                     /\ analysis'[d] = "analyzed" => analysis[d] = "analyzed"
  <2>0. ASSUME analyze'[r] = analyze[r], status'[d] # "deleted" => Rows
        PROVE  ReadOK(r)'
    BY <1>r, <2>0, <2>d, RowsStay, ReadKept
  <2>1. ASSUME UNCHANGED <<analyze, index, extractions, flags, analysis>>
        PROVE  ReadOK(r)'
    BY <2>0, <2>1
  <2>2. CASE DeleteCase
    <3>1. analyze' = analyze
      BY <2>2 DEF DeleteCase
    <3>2. status'[d] # "deleted" => Rows
      BY <1>t, <2>d, <2>2 DEF DeleteCase
    <3> QED
      BY <2>0, <3>1, <3>2
  <2>3. ASSUME NEW c \in Clients, MarkForRequest(c) PROVE ReadOK(r)'
    <3>1. Rows /\ analyze' = analyze
      BY <1>t, <2>d, <2>3 DEF MarkForRequest
    <3> QED
      BY <2>0, <3>1
  <2>4. ASSUME NEW e \in Documents, MarkFailed(e) PROVE ReadOK(r)'
    <3>1. Rows /\ analyze' = analyze
      BY <1>t, <2>d, <2>4 DEF MarkFailed
    <3> QED
      BY <2>0, <3>1
  <2>5. ASSUME NEW i \in IngestSlots, IngestStep(i) PROVE ReadOK(r)'
    <3>1. analyze' = analyze
      BY <2>5, IngestFrame
    <3>2. CASE CommitIndex(i)
      <4>1. ingest[i].doc # d
        BY <2>e, <3>2, CommitAlone
      <4>2. Rows
        BY <1>t, <2>d, <3>2, <4>1 DEF CommitIndex
      <4> QED
        BY <2>0, <3>1, <4>2
    <3>3. CASE ~CommitIndex(i)
      BY <2>1, <2>5, <3>1, <3>3
         DEF IngestStep, StartIngest, RejectDocument, ClearForIngest, ChainAnalysis,
             FinishIngest, ThrowIngest
    <3> QED
      BY <3>2, <3>3
  <2>6. ASSUME NEW s \in AnalysisSlots, AnalysisStep(s), s # r PROVE ReadOK(r)'
    <3>1. /\ analyze[s].pc # "idle" /\ analyze'[r] = analyze[r]
          /\ analyze[s].doc \in Documents
      BY <2>6, AnalysisFrame
    <3>2. analyze[s].doc # d
      BY <1>2, <2>6, <3>1, Alone
    <3>3. Rows
      BY <1>t, <2>d, <2>6, <3>1, <3>2
         DEF AnalysisStep, BeginAnalysis, Classify, ReadType, ReadClauses, SaveFields,
             ReadFields, ReadCites, SaveFlags, EndAnalysis, FinishAnalysis,
             ThrowAnalysis
    <3> QED
      BY <2>0, <3>1, <3>3
  <2>7. ASSUME NEW s \in AnalysisSlots, NEW e \in Documents, TakeAnalysis(s, e)
        PROVE  ReadOK(r)'
    <3>1. analyze'[r] = analyze[r] /\ Rows
      BY <1>2, <1>t, <2>7 DEF TakeAnalysis
    <3> QED
      BY <2>0, <3>1
  <2>8. CASE ApiStep
    BY <2>1, <2>2, <2>3, <2>8, NoFaults
       DEF ApiStep, Upload, EnqueueIngest, AskAnalysis, ClearForRequest, AddForRequest,
           OrderInv
  <2>9. CASE WorkerStep
    BY <2>1, <2>4, <2>5, <2>6, <2>7, <2>9, ReadOwnStep, NoFaults
       DEF WorkerStep, TakeIngest, OrderInv
  <2>10. CASE QueueStep
    BY <2>1, <2>10, NoFaults DEF CalmQueueStep, PromoteIngest, PromoteAnalysis, OrderInv
  <2> QED
    BY <2>1, <2>8, <2>9, <2>10 DEF Next, vars
<1> QED
  BY <1>1, <1>2

LEMMA OrderInit == Init => OrderInv
BY DEF Init, OrderInv, ActiveAlive, InOrder, StoredOK, ReadOK, Engaged, EngagedByJob,
       EngagedByIngest, EngagedByRequest, IdleIngest, IdleAnalysis, NewRequest,
       NoFlags, Q!Absent

LEMMA OwnersInit == Init => BusySlotsOwn
BY DEF Init, BusySlotsOwn, IdleIngest, IdleAnalysis

LEMMA IndexInit == Init => IndexInv
BY DEF Init, IndexInv, RowOK, Engaged, EngagedByJob, EngagedByIngest,
       EngagedByRequest, IdleIngest, IdleAnalysis, NewRequest, Q!Absent

LEMMA OrderInvStep ==
    Undisturbed /\ TypeInv /\ BusySlotsOwn /\ IndexInv /\ OrderInv /\ [Next]_vars
        => OrderInv'
<1> SUFFICES ASSUME Undisturbed, TypeInv, BusySlotsOwn, IndexInv, OrderInv, [Next]_vars
             PROVE  OrderInv'
  OBVIOUS
<1>1. ActiveAlive'
  BY IngestAliveStep, AnalysisAliveStep DEF OrderInv, ActiveAlive
<1>2. \A d \in Documents : InOrder(d)' /\ StoredOK(d)'
  BY OrderStep, StoredStep
<1>3. \A s \in AnalysisSlots : ReadOK(s)'
  BY ReadStep
<1> QED
  BY <1>1, <1>2, <1>3 DEF OrderInv

LEMMA OrderInvariant == Undisturbed /\ Spec => []OrderInv
<1> SUFFICES ASSUME Undisturbed PROVE Spec => []OrderInv
  OBVIOUS
<1>1. OrderInv /\ TypeInv /\ BusySlotsOwn /\ IndexInv /\ [Next]_vars => OrderInv'
  BY OrderInvStep
<1> QED
  BY <1>1, OrderInit, OwnersInit, IndexInit, OwnersStep, IndexStep, TypeInvariant, PTL
     DEF Spec

(* As long as no process dies and no lock is lost, what a reader of the    *)
(* report is shown as analyzed agrees with itself: its fields are of the   *)
(* clauses it has and its flags of the fields it has, however many         *)
(* clients re-run it, slots work and calls fail before the commit.         *)
THEOREM AnalyzedAgrees == Undisturbed /\ Spec => []AnalyzedIsConsistent
<1>1. OrderInv => AnalyzedIsConsistent
  BY DEF OrderInv, StoredOK, AnalyzedIsConsistent, Exists
<1> QED
  BY <1>1, OrderInvariant, PTL

(* ... and no stored flag cites a clause that is gone, though nothing in   *)
(* the schema ties the uuids of flags.clause_ids to a clause.              *)
THEOREM FlagsAlwaysResolve == Undisturbed /\ Spec => []FlagsResolve
<1>1. OrderInv => FlagsResolve
  BY DEF OrderInv, StoredOK, FlagsResolve
<1> QED
  BY <1>1, OrderInvariant, PTL
-----------------------------------------------------------------------------
(***************************************************************************)
(* The unattended life: undisturbed, and nobody asks for a re-analysis.    *)
(* Then the two status columns tell where the jobs are.                    *)
(***************************************************************************)
Unattended == Clients = {} /\ MaxCrashes = 0 /\ MaxStalls = 0

JobTold(d) ==
    LET state == analysisJob[d].state IN
    /\ state = "absent" => analysis[d] = "pending"
    /\ state \in {"waiting", "delayed"} => analysis[d] \in {"pending", "analyzing"}
    /\ state = "completed" => analysis[d] = "analyzed"
    /\ state = "failed" =>
          \/ analysis[d] = "failed"
          \/ /\ analysis[d] \in {"pending", "analyzing"}
             /\ d \in failing \/ "mark" \in FaultPoints
    /\ d \in failing => state = "failed" /\ analysis[d] \in {"pending", "analyzing"}

RunTold(s) ==
    LET d == analyze[s].doc
        pc == analyze[s].pc
    IN  pc # "idle" /\ status[d] # "deleted" =>
          /\ pc = "begin" => analysis[d] \in {"pending", "analyzing"}
          /\ pc \notin {"begin", "finish"} => analysis[d] = "analyzing"
          /\ pc = "finish" => analysis[d] = "analyzed"

RowTold(d) ==
    /\ EngagedByIngest(d) \/ EngagedByJob(d) => status[d] = "ready"
    /\ status[d] = "failed" => ~MayCommit(d)
    /\ \A s \in IngestSlots :
          ingest[s].pc = "parse" /\ ingest[s].doc = d => status[d] = "processing"

ToldInv ==
    /\ \A d \in Documents : status[d] # "deleted" => JobTold(d) /\ RowTold(d)
    /\ \A s \in AnalysisSlots : RunTold(s)

(* All of the invariants, for the steps that follow.                       *)
LifeInv == TypeInv /\ BusySlotsOwn /\ IndexInv /\ OrderInv /\ ToldInv

LEMMA Calm == Unattended => Undisturbed
BY DEF Unattended, Undisturbed

LEMMA UnattendedSteps ==
    ASSUME Unattended, LifeInv, [Next]_vars
    PROVE  \/ UNCHANGED vars
           \/ DeleteCase
           \/ \E d \in Documents :
                 \/ Upload(d) \/ EnqueueIngest(d) \/ MarkFailed(d)
                 \/ PromoteIngest(d) \/ PromoteAnalysis(d)
           \/ \E i \in IngestSlots :
                 IngestStep(i) \/ \E d \in Documents : TakeIngest(i, d)
           \/ \E s \in AnalysisSlots :
                 AnalysisStep(s) \/ \E d \in Documents : TakeAnalysis(s, d)
BY Calm, NoFaults
   DEF Unattended, LifeInv, OrderInv, Next, ApiStep, WorkerStep, CalmQueueStep

(* What a run may be on, and what a commit, a refusal and a start may be   *)
(* on, exclude each other.                                                 *)
LEMMA StartAlone ==
    ASSUME Unattended, LifeInv, NEW i \in IngestSlots,
           ingest[i].pc \in {"load", "parse"}, status[ingest[i].doc] # "deleted"
    PROVE  ingest[i].doc \in Documents /\ ~Engaged(ingest[i].doc)
<1>1. ingest[i].doc \in Documents
  BY DEF LifeInv, TypeInv, RunsOK
<1>2. MayCommit(ingest[i].doc)
  BY DEF MayCommit
<1> QED
  BY <1>1, <1>2 DEF LifeInv, OrderInv, InOrder

LEMMA JobToldStep ==
    ASSUME Unattended, LifeInv, [Next]_vars, NEW d \in Documents,
           status'[d] # "deleted"
    PROVE  JobTold(d)'
<1>l. /\ status[d] # "deleted" /\ Undisturbed
      /\ TypeInv /\ BusySlotsOwn /\ IndexInv /\ OrderInv
  BY RowsStay, Calm DEF LifeInv
<1>j. JobTold(d) /\ RowTold(d)
  BY <1>l DEF LifeInv, ToldInv
<1>t. /\ status \in [Documents -> Statuses]
      /\ analysis \in [Documents -> AnalysisStatuses]
      /\ analysisJob \in [Documents -> Q!Jobs(AnalysisSlots)]
      /\ RunsOK
  BY <1>l DEF TypeInv, TypeOK
<1>1. ASSUME analysisJob'[d] = analysisJob[d], analysis'[d] = analysis[d],
             d \in failing' <=> d \in failing
      PROVE  JobTold(d)'
  BY <1>j, <1>1 DEF JobTold
<1>2. CASE DeleteCase
  BY <1>1, <1>l, <1>t, <1>2 DEF DeleteCase
<1>3. ASSUME NEW e \in Documents, Upload(e) \/ EnqueueIngest(e) \/ PromoteIngest(e)
      PROVE  JobTold(d)'
  BY <1>1, <1>3 DEF Upload, EnqueueIngest, PromoteIngest
<1>4. ASSUME NEW e \in Documents, MarkFailed(e) PROVE JobTold(d)'
  <2>1. CASE e = d
    <3>1. Exists(d)
      <4>1. Engaged(d)
        BY <1>4, <2>1 DEF MarkFailed, Engaged, EngagedByJob
      <4> QED
        BY <1>l, <4>1 DEF IndexInv, RowOK, Exists
    <3>2. d \in failing /\ d \notin failing' /\ analysisJob' = analysisJob
      BY <1>4, <2>1 DEF MarkFailed
    <3>3. CASE analysis' = [analysis EXCEPT ![d] = IF Exists(d) THEN "failed" ELSE @]
      <4>1. analysis'[d] = "failed"
        BY <1>t, <3>1, <3>3
      <4> QED
        BY <1>j, <3>2, <4>1 DEF JobTold
    <3>4. CASE "mark" \in FaultPoints /\ analysis' = analysis
      BY <1>j, <3>2, <3>4 DEF JobTold
    <3> QED
      BY <1>4, <2>1, <3>3, <3>4 DEF MarkFailed
  <2>2. CASE e # d
    BY <1>1, <1>t, <1>4, <2>2 DEF MarkFailed
  <2> QED
    BY <2>1, <2>2
<1>5. ASSUME NEW e \in Documents, PromoteAnalysis(e) PROVE JobTold(d)'
  <2>1. CASE e = d
    <3>1. /\ analysisJob[d].state = "delayed" /\ analysisJob'[d].state = "waiting"
          /\ UNCHANGED <<analysis, failing>>
      BY <1>t, <1>5, <2>1 DEF PromoteAnalysis, Q!Promote
    <3> QED
      BY <1>j, <3>1 DEF JobTold
  <2>2. CASE e # d
    BY <1>1, <1>t, <1>5, <2>2 DEF PromoteAnalysis
  <2> QED
    BY <2>1, <2>2
<1>6. ASSUME NEW i \in IngestSlots, IngestStep(i) PROVE JobTold(d)'
  <2>1. failing' = failing /\ ingest[i].doc \in Documents
    BY <1>l, <1>6, IngestFrame
  <2>2. CASE ~(CommitIndex(i) \/ ClearForIngest(i) \/ ChainAnalysis(i))
    BY <1>1, <1>6, <2>1, <2>2
       DEF IngestStep, StartIngest, RejectDocument, FinishIngest, ThrowIngest
  <2>3. CASE ingest[i].doc # d
    <3>1. analysisJob'[d] = analysisJob[d] /\ analysis'[d] = analysis[d]
      BY <1>t, <1>6, <2>3
         DEF IngestStep, StartIngest, RejectDocument, CommitIndex, ClearForIngest,
             ChainAnalysis, FinishIngest, ThrowIngest
    <3> QED
      BY <1>1, <2>1, <3>1
  <2>4. CASE CommitIndex(i) /\ ingest[i].doc = d
    <3>1. analysisJob[d].state = "absent" /\ d \notin failing
      BY <1>l, <2>4, CommitAlone DEF Engaged, EngagedByJob
    <3>2. analysisJob' = analysisJob /\ analysis'[d] = "pending"
      BY <1>t, <2>4 DEF CommitIndex
    <3> QED
      BY <2>1, <3>1, <3>2 DEF JobTold
  <2>5. CASE (ClearForIngest(i) \/ ChainAnalysis(i)) /\ ingest[i].doc = d
    <3>1. EngagedByIngest(d)
      BY <2>5 DEF ClearForIngest, ChainAnalysis, EngagedByIngest
    <3>2. analysisJob[d].state = "absent" /\ d \notin failing
      BY <1>l, <3>1 DEF OrderInv, InOrder, Unattended, EngagedByJob
    <3>3. analysisJob'[d].state \in {"absent", "waiting"} /\ analysis' = analysis
      BY <1>t, <2>5, <3>2
         DEF ClearForIngest, ChainAnalysis, Q!Remove, Q!Absent, Q!Add
    <3> QED
      BY <1>j, <2>1, <3>2, <3>3 DEF JobTold
  <2> QED
    BY <2>2, <2>3, <2>4, <2>5
<1>7. ASSUME NEW i \in IngestSlots, NEW e \in Documents, TakeIngest(i, e)
      PROVE  JobTold(d)'
  BY <1>1, <1>7 DEF TakeIngest
<1>8. ASSUME NEW s \in AnalysisSlots, NEW e \in Documents, TakeAnalysis(s, e)
      PROVE  JobTold(d)'
  <2>1. CASE e = d
    <3>1. /\ analysisJob[d].state = "waiting" /\ analysisJob'[d].state = "active"
          /\ UNCHANGED <<analysis, failing>>
      BY <1>t, <1>8, <2>1 DEF TakeAnalysis, Q!Take
    <3> QED
      BY <1>j, <3>1 DEF JobTold
  <2>2. CASE e # d
    BY <1>1, <1>t, <1>8, <2>2 DEF TakeAnalysis
  <2> QED
    BY <2>1, <2>2
<1>9. ASSUME NEW s \in AnalysisSlots, AnalysisStep(s) PROVE JobTold(d)'
  <2>1. CASE analyze[s].doc # d
    <3>1. /\ analysisJob'[d] = analysisJob[d]
          /\ d \in failing' <=> d \in failing
      BY <1>l, <1>9, <2>1, AnalysisFrame
    <3>2. analysis'[d] = analysis[d]
      BY <1>t, <1>9, <2>1
         DEF AnalysisStep, BeginAnalysis, Classify, ReadType, ReadClauses, SaveFields,
             ReadFields, ReadCites, SaveFlags, EndAnalysis, FinishAnalysis, ThrowAnalysis
    <3> QED
      BY <1>1, <3>1, <3>2
  <2>2. CASE analyze[s].doc = d
    <3>0. /\ analyze[s].pc # "idle"
          /\ Q!Owns(analysisJob[d], s) /\ analysisJob[d].state = "active"
      BY <1>l, <1>9, <2>2, AnalysisFrame, Owners DEF Q!Owns
    <3>r. RunTold(s)
      BY DEF LifeInv, ToldInv
    <3>f. d \notin failing
      BY <1>j, <3>0 DEF JobTold
    <3>1. CASE FinishAnalysis(s)
      <4>1. /\ analysisJob'[d].state = "completed" /\ UNCHANGED <<analysis, failing>>
            /\ analyze[s].pc = "finish"
        BY <1>t, <2>2, <3>0, <3>1 DEF FinishAnalysis, Q!Complete
      <4>2. analysis[d] = "analyzed"
        BY <1>l, <2>2, <3>r, <4>1 DEF RunTold
      <4> QED
        BY <3>f, <4>1, <4>2 DEF JobTold
    <3>2. CASE ThrowAnalysis(s)
      <4>1. analysis' = analysis /\ analyze[s].pc # "finish"
        BY <3>2 DEF ThrowAnalysis, AnalysisMayThrow
      <4>2. analysis[d] \in {"pending", "analyzing"}
        BY <1>l, <2>2, <3>0, <3>r, <4>1 DEF RunTold
      <4>3. \/ analysisJob'[d].state = "failed" /\ d \in failing'
            \/ analysisJob'[d].state = "delayed" /\ failing' = failing
        BY <1>t, <2>2, <3>0, <3>2 DEF ThrowAnalysis, Q!Fail
      <4> QED
        BY <3>f, <4>1, <4>2, <4>3 DEF JobTold
    <3>3. CASE ~(FinishAnalysis(s) \/ ThrowAnalysis(s))
      <4>1. UNCHANGED <<analysisJob, failing>>
        BY <1>l, <1>9, <3>3, AnalysisFrame
      <4> QED
        BY <3>0, <3>f, <4>1 DEF JobTold
    <3> QED
      BY <3>1, <3>2, <3>3
  <2> QED
    BY <2>1, <2>2
<1>10. CASE UNCHANGED vars
  BY <1>1, <1>10 DEF vars
<1> QED
  BY <1>2, <1>3, <1>4, <1>5, <1>6, <1>7, <1>8, <1>9, <1>10, UnattendedSteps

LEMMA RowToldStep ==
    ASSUME Unattended, LifeInv, [Next]_vars, NEW d \in Documents,
           status'[d] # "deleted"
    PROVE  RowTold(d)'
<1>l. /\ status[d] # "deleted" /\ Undisturbed /\ Clients = {}
      /\ TypeInv /\ BusySlotsOwn /\ IndexInv /\ OrderInv /\ ActiveAlive
  BY RowsStay, Calm DEF LifeInv, OrderInv, Unattended
<1>j. RowTold(d)
  BY <1>l DEF LifeInv, ToldInv
<1>t. /\ status \in [Documents -> Statuses]
      /\ ingest \in [IngestSlots -> IngestRuns]
      /\ RunsOK
  BY <1>l DEF TypeInv, TypeOK
<1>e. Engaged(d) <=> EngagedByIngest(d) \/ EngagedByJob(d)
  BY <1>l DEF Engaged, EngagedByRequest
<1>1. ASSUME EngagedByIngest(d)' \/ EngagedByJob(d)' PROVE status'[d] = "ready"
  <2>1. CASE \E i \in IngestSlots : CommitIndex(i) /\ ingest[i].doc = d
    BY <1>t, <2>1 DEF CommitIndex
  <2>2. CASE ~\E i \in IngestSlots : CommitIndex(i) /\ ingest[i].doc = d
    <3>1. Engaged(d)
      <4>1. Engaged(d)'
        BY <1>1 DEF Engaged
      <4> QED
        BY <1>l, <2>2, <4>1, EngagedStep
    <3>2. status[d] = "ready"
      BY <1>e, <1>j, <3>1 DEF RowTold
    <3>3. ASSUME NEW i \in IngestSlots, StartIngest(i) \/ RejectDocument(i)
          PROVE  ingest[i].doc # d
      BY <1>l, <3>1, <3>3, StartAlone DEF StartIngest, RejectDocument
    <3>4. ASSUME NEW i \in IngestSlots,
                 StartIngest(i) \/ RejectDocument(i) \/ CommitIndex(i)
          PROVE  status'[d] = status[d]
      BY <1>t, <2>2, <3>3, <3>4 DEF StartIngest, RejectDocument, CommitIndex
    <3>5. ASSUME NEW e \in Documents, Upload(e) PROVE status'[d] = status[d]
      BY <1>t, <3>2, <3>5 DEF Upload
    <3>6. CASE DeleteCase
      BY <1>t, <3>2, <3>6 DEF DeleteCase, Exists
    <3> QED
      BY <3>2, <3>4, <3>5, <3>6, StatusWriters
  <2> QED
    BY <2>1, <2>2
<1>2. ASSUME status'[d] = "failed", MayCommit(d)' PROVE FALSE
  <2>1. /\ MayCommit(d) \/ Rechained(d)
        /\ \A i \in IngestSlots : RejectDocument(i) => ingest[i].doc # d
    BY <1>l, <1>2, MayCommitStep
  <2>2. status[d] = "failed"
    <3>1. ASSUME NEW i \in IngestSlots,
                 StartIngest(i) \/ RejectDocument(i) \/ CommitIndex(i)
          PROVE  status[d] = "failed"
      BY <1>t, <1>2, <2>1, <3>1 DEF StartIngest, RejectDocument, CommitIndex
    <3>2. ASSUME NEW e \in Documents, Upload(e) PROVE status[d] = "failed"
      BY <1>t, <1>2, <3>2 DEF Upload
    <3>3. CASE DeleteCase
      BY <1>t, <1>2, <3>3 DEF DeleteCase
    <3> QED
      BY <1>2, <3>1, <3>2, <3>3, StatusWriters
  <2>3. Rechained(d)
    BY <1>j, <2>1, <2>2 DEF RowTold
  <2>4. EngagedByIngest(d)
    BY <2>3 DEF Rechained, EngagedByIngest
  <2> QED
    BY <1>j, <2>2, <2>4 DEF RowTold
<1>3. ASSUME NEW s \in IngestSlots, ingest'[s].pc = "parse", ingest'[s].doc = d
      PROVE  status'[d] = "processing"
  <2>o. \A i \in IngestSlots \ {s} : ingest[i].pc # "idle" /\ ingest[s].pc # "idle"
           => ingest[i].doc # ingest[s].doc
    BY <1>l, Owners
  <2>1. CASE ingest'[s] = ingest[s]
    <3>1. status[d] = "processing"
      BY <1>j, <1>3, <2>1 DEF RowTold
    <3>2. ASSUME NEW i \in IngestSlots,
                 StartIngest(i) \/ RejectDocument(i) \/ CommitIndex(i)
          PROVE  status'[d] = status[d]
      <4>1. ingest[i].pc # "idle" /\ ingest'[i] # ingest[i]
        BY <1>t, <3>2 DEF StartIngest, RejectDocument, CommitIndex, IngestRuns
      <4>2. ingest[i].doc # d
        BY <1>3, <2>o, <2>1, <4>1
      <4> QED
        BY <1>t, <3>2, <4>2 DEF StartIngest, RejectDocument, CommitIndex
    <3>3. ASSUME NEW e \in Documents, Upload(e) PROVE status'[d] = status[d]
      BY <1>t, <3>1, <3>3 DEF Upload
    <3>4. CASE DeleteCase
      BY <1>l, <1>t, <3>1, <3>4 DEF DeleteCase, Exists
    <3> QED
      BY <3>1, <3>2, <3>3, <3>4, StatusWriters
  <2>2. CASE ingest'[s] # ingest[s]
    <3>1. ASSUME NEW i \in IngestSlots, IngestStep(i) PROVE i = s
      BY <1>l, <2>2, <3>1, IngestFrame
    <3>2. ASSUME NEW i \in IngestSlots, NEW e \in Documents, TakeIngest(i, e)
          PROVE  FALSE
      BY <1>3, <1>t, <2>2, <3>2 DEF TakeIngest
    <3>3. ASSUME IngestStep(s) PROVE StartIngest(s)
      BY <1>3, <1>t, <3>3
         DEF IngestStep, RejectDocument, CommitIndex, ClearForIngest, ChainAnalysis,
             FinishIngest, ThrowIngest, IdleIngest, IngestRuns
    <3>4. ASSUME NEW r \in AnalysisSlots, AnalysisStep(r) PROVE ingest' = ingest
      BY <1>l, <3>4, AnalysisFrame
    <3>5. StartIngest(s)
      BY <2>2, <3>1, <3>2, <3>3, <3>4, UnattendedSteps
         DEF DeleteCase, Upload, EnqueueIngest, MarkFailed, PromoteIngest,
             PromoteAnalysis, TakeAnalysis, vars
    <3> QED
      BY <1>3, <1>t, <3>5 DEF StartIngest, IngestRuns
  <2> QED
    BY <2>1, <2>2
<1> QED
  BY <1>1, <1>2, <1>3 DEF RowTold

LEMMA RunToldStep ==
    ASSUME Unattended, LifeInv, [Next]_vars, NEW r \in AnalysisSlots
    PROVE  RunTold(r)'
<1>l. /\ Undisturbed /\ TypeInv /\ BusySlotsOwn /\ IndexInv /\ OrderInv
  BY Calm DEF LifeInv
<1>t. /\ status \in [Documents -> Statuses]
      /\ analysis \in [Documents -> AnalysisStatuses]
      /\ analyze \in [AnalysisSlots -> AnalysisRuns]
      /\ RunsOK
  BY <1>l DEF TypeInv, TypeOK
<1>r. RunTold(r)
  BY DEF LifeInv, ToldInv
<1> SUFFICES ASSUME analyze'[r].pc # "idle", status'[analyze'[r].doc] # "deleted"
             PROVE  RunTold(r)'
  BY DEF RunTold
<1>1. ASSUME NEW e \in Documents, TakeAnalysis(r, e) PROVE RunTold(r)'
  <2>1. /\ analyze'[r].pc = "begin" /\ analyze'[r].doc = e
        /\ analysisJob[e].state = "waiting"
        /\ UNCHANGED <<analysis, status>>
    BY <1>t, <1>1 DEF TakeAnalysis, IdleAnalysis
  <2>2. JobTold(e)
    BY <2>1 DEF LifeInv, ToldInv
  <2> QED
    BY <2>1, <2>2 DEF JobTold, RunTold
<1>2. CASE AnalysisStep(r)
  <2> DEFINE d == analyze[r].doc
  <2>d. /\ analyze[r].pc # "idle" /\ d \in Documents
        /\ analyze'[r].doc = d /\ status' = status
        /\ ~FinishAnalysis(r) /\ ~ThrowAnalysis(r)
    BY <1>l, <1>2, AnalysisFrame DEF IdleAnalysis
  <2>e. Exists(d)
    BY <1>l, <2>d DEF IndexInv, RowOK, Engaged, EngagedByJob, Exists
  <2>1. CASE BeginAnalysis(r)
    BY <1>t, <2>d, <2>1 DEF BeginAnalysis, RunTold
  <2>2. CASE EndAnalysis(r)
    BY <1>t, <2>d, <2>e, <2>2 DEF EndAnalysis, RunTold
  <2>3. CASE ~BeginAnalysis(r) /\ ~EndAnalysis(r)
    <3>1. /\ analysis' = analysis
          /\ analyze[r].pc \notin {"begin", "finish"}
          /\ analyze'[r].pc \notin {"begin", "finish"}
      BY <1>t, <1>2, <2>d, <2>3
         DEF AnalysisStep, Classify, ReadType, ReadClauses, SaveFields, ReadFields,
             ReadCites, SaveFlags, AnalysisRuns
    <3> QED
      BY <1>r, <2>d, <3>1 DEF RunTold
  <2> QED
    BY <2>1, <2>2, <2>3
<1>3. CASE analyze'[r] = analyze[r]
  <2> DEFINE d == analyze[r].doc
  <2>d. d \in Documents /\ analyze[r].pc # "idle" /\ status'[d] # "deleted"
    BY <1>3, <1>t DEF RunsOK
  <2>l. status[d] # "deleted"
    BY <1>l, <2>d, RowsStay
  <2>e. Engaged(d) /\ analysisJob[d].state = "active"
    BY <1>l, <2>d, Owners DEF Engaged, EngagedByJob
  <2>0. ASSUME analysis'[d] = analysis[d] PROVE RunTold(r)'
    BY <1>3, <1>r, <2>0, <2>l DEF RunTold
  <2>1. CASE DeleteCase
    BY <1>t, <2>0, <2>d, <2>1 DEF DeleteCase
  <2>2. ASSUME NEW e \in Documents, MarkFailed(e) PROVE RunTold(r)'
    <3>1. JobTold(d)
      BY <2>d, <2>l DEF LifeInv, ToldInv
    <3>2. e # d
      BY <2>2, <2>e, <3>1 DEF MarkFailed, JobTold
    <3> QED
      BY <1>t, <2>0, <2>2, <2>d, <3>2 DEF MarkFailed
  <2>3. ASSUME NEW i \in IngestSlots, IngestStep(i) PROVE RunTold(r)'
    <3>1. CASE CommitIndex(i)
      <4>1. ingest[i].doc # d
        BY <1>l, <2>e, <3>1, CommitAlone
      <4> QED
        BY <1>t, <2>0, <3>1, <4>1 DEF CommitIndex
    <3>2. CASE ~CommitIndex(i)
      BY <2>0, <2>3, <3>2
         DEF IngestStep, StartIngest, RejectDocument, ClearForIngest, ChainAnalysis,
             FinishIngest, ThrowIngest
    <3> QED
      BY <3>1, <3>2
  <2>4. ASSUME NEW s \in AnalysisSlots, AnalysisStep(s), s # r PROVE RunTold(r)'
    <3>1. analyze[s].doc \in Documents /\ analyze[s].doc # d
      BY <1>l, <2>d, <2>4, AnalysisFrame, Alone
    <3>2. analysis'[d] = analysis[d]
      BY <1>t, <2>d, <2>4, <3>1
         DEF AnalysisStep, BeginAnalysis, Classify, ReadType, ReadClauses, SaveFields,
             ReadFields, ReadCites, SaveFlags, EndAnalysis, FinishAnalysis, ThrowAnalysis
    <3> QED
      BY <2>0, <3>2
  <2> QED
    BY <1>2, <2>0, <2>1, <2>2, <2>3, <2>4, UnattendedSteps
       DEF Upload, EnqueueIngest, PromoteIngest, PromoteAnalysis, TakeIngest,
           TakeAnalysis, vars
<1>4. CASE analyze'[r] # analyze[r]
  <2>1. ASSUME NEW s \in AnalysisSlots, AnalysisStep(s) PROVE s = r
    BY <1>l, <1>4, <2>1, AnalysisFrame
  <2>2. ASSUME NEW s \in AnalysisSlots, NEW e \in Documents, TakeAnalysis(s, e)
        PROVE  s = r
    BY <1>t, <1>4, <2>2 DEF TakeAnalysis
  <2>3. ASSUME NEW i \in IngestSlots, IngestStep(i) PROVE analyze' = analyze
    BY <1>l, <2>3, IngestFrame
  <2> QED
    BY <1>1, <1>2, <1>4, <2>1, <2>2, <2>3, UnattendedSteps
       DEF DeleteCase, Upload, EnqueueIngest, MarkFailed, PromoteIngest,
           PromoteAnalysis, TakeIngest, vars
<1> QED
  BY <1>3, <1>4

LEMMA ToldInit == Init => ToldInv
BY DEF Init, ToldInv, JobTold, RunTold, RowTold, EngagedByJob, EngagedByIngest,
       IdleIngest, IdleAnalysis, Q!Absent

LEMMA ToldStep == Unattended /\ LifeInv /\ [Next]_vars => ToldInv'
<1> SUFFICES ASSUME Unattended, LifeInv, [Next]_vars PROVE ToldInv'
  OBVIOUS
<1>1. \A d \in Documents : status'[d] # "deleted" => JobTold(d)' /\ RowTold(d)'
  BY JobToldStep, RowToldStep
<1>2. \A s \in AnalysisSlots : RunTold(s)'
  BY RunToldStep
<1> QED
  BY <1>1, <1>2 DEF ToldInv

LEMMA LifeInvariant == Unattended /\ Spec => []LifeInv
<1> SUFFICES ASSUME Unattended PROVE Spec => []LifeInv
  OBVIOUS
<1>1. Undisturbed
  BY Calm
<1>2. Init => LifeInv
  BY TypeInit, OwnersInit, IndexInit, OrderInit, ToldInit DEF LifeInv
<1>3. LifeInv /\ [Next]_vars => LifeInv'
  BY <1>1, TypeStep, OwnersStep, IndexStep, OrderInvStep, ToldStep DEF LifeInv
<1> QED
  BY <1>2, <1>3, PTL DEF Spec

(* Where the listener's update cannot fail, a document shown as analyzing  *)
(* has a job that is queued or running, or the update to failed on its way. *)
THEOREM AnalyzingIsDue ==
    Unattended /\ "mark" \notin FaultPoints /\ Spec => []AnalyzingHasJob
<1> SUFFICES ASSUME Unattended, "mark" \notin FaultPoints
             PROVE  Spec => []AnalyzingHasJob
  OBVIOUS
<1>1. LifeInv => AnalyzingHasJob
  <2> SUFFICES ASSUME LifeInv, NEW d \in Documents, Exists(d), analysis[d] = "analyzing"
               PROVE  analysisJob[d].state \in {"waiting", "delayed", "active"}
                      \/ d \in failing
    BY DEF AnalyzingHasJob
  <2>1. JobTold(d)
    BY DEF LifeInv, ToldInv, Exists
  <2>2. analysisJob[d].state \in {"absent", "waiting", "delayed", "active", "completed", "failed"}
    BY DEF LifeInv, TypeInv, TypeOK, Q!Jobs, Q!JobStates
  <2> QED
    BY <2>1, <2>2 DEF JobTold
<1>2. Spec => []LifeInv
  BY LifeInvariant
<1> QED
  BY <1>1, <1>2, PTL

(* A document is shown as failed only once its attempts are exhausted,     *)
(* although a retry, the update and the next step may come in any order.   *)
THEOREM FailedIsFinal == Unattended /\ Spec => []FailedMeansExhausted
<1> SUFFICES ASSUME Unattended PROVE Spec => []FailedMeansExhausted
  OBVIOUS
<1>1. LifeInv => FailedMeansExhausted
  <2> SUFFICES ASSUME LifeInv, NEW d \in Documents, Exists(d), analysis[d] = "failed"
               PROVE  analysisJob[d].state = "failed"
    BY DEF FailedMeansExhausted
  <2>0. status[d] # "deleted"
    BY DEF Exists
  <2>1. JobTold(d)
    BY <2>0 DEF LifeInv, ToldInv
  <2>2. analysisJob[d].state \in {"absent", "waiting", "delayed", "active", "completed", "failed"}
    BY DEF LifeInv, TypeInv, TypeOK, Q!Jobs, Q!JobStates
  <2>3. analysisJob[d].state # "active"
    <3>1. SUFFICES ASSUME analysisJob[d].state = "active" PROVE FALSE
      OBVIOUS
    <3>2. PICK s \in AnalysisSlots : analyze[s].pc # "idle" /\ analyze[s].doc = d
      BY <3>1 DEF LifeInv, OrderInv, ActiveAlive, AnalysisAlive
    <3>3. RunTold(s)
      BY DEF LifeInv, ToldInv
    <3> QED
      BY <2>0, <3>2, <3>3 DEF RunTold
  <2> QED
    BY <2>1, <2>2, <2>3 DEF JobTold
<1>2. Spec => []LifeInv
  BY LifeInvariant
<1> QED
  BY <1>1, <1>2, PTL
-----------------------------------------------------------------------------
(***************************************************************************)
(* The refinement.  What derivePhase makes of the two columns; the steps   *)
(* that write them; and how each of them moves the phase.                  *)
(***************************************************************************)
PhaseFor(st, an) ==
    IF st = "none" THEN "absent"
    ELSE IF st = "deleted" THEN "gone"
    ELSE IF st = "failed" \/ an = "failed" THEN "failed"
    ELSE IF st = "processing" THEN "parsing"
    ELSE IF st = "ready" /\ an = "analyzed" THEN "ready"
    ELSE IF st = "ready" /\ an = "analyzing" THEN "analyzing"
    ELSE "queued"

LEMMA PhaseNow == \A d : derivePhase(d) = PhaseFor(status[d], analysis[d])
BY DEF derivePhase, PhaseFor, Exists

LEMMA PhaseThen == \A d : derivePhase(d)' = PhaseFor(status'[d], analysis'[d])
BY DEF derivePhase, PhaseFor, Exists

ShownPhases == [d \in Documents |-> derivePhase(d)]
ShownIndexed == {d \in Documents : Exists(d) /\ index[d] # 0}

(* The row of d moves its phase from one value to another, and no other    *)
(* row changes.                                                            *)
OthersStay(d) ==
    \A e \in Documents \ {d} :
       status'[e] = status[e] /\ analysis'[e] = analysis[e] /\ index'[e] = index[e]

LEMMA MoveShown ==
    ASSUME NEW d \in Documents, OthersStay(d), NEW from, NEW to,
           PhaseFor(status[d], analysis[d]) = from,
           PhaseFor(status'[d], analysis'[d]) = to
    PROVE  Phases!Move(d, from, to)
<1>1. derivePhase(d) = from /\ derivePhase(d)' = to
  BY PhaseNow, PhaseThen
<1>2. \A e \in Documents \ {d} : derivePhase(e)' = derivePhase(e)
  BY PhaseNow, PhaseThen DEF OthersStay
<1> QED
  BY <1>1, <1>2 DEF Phases!Move

LEMMA IndexedShown ==
    ASSUME NEW d \in Documents, OthersStay(d)
    PROVE  /\ (Exists(d)' /\ index'[d] # 0) = (Exists(d) /\ index[d] # 0)
                 => ShownIndexed' = ShownIndexed
           /\ Exists(d)' /\ index'[d] # 0 => ShownIndexed' = ShownIndexed \cup {d}
BY DEF OthersStay, ShownIndexed, Exists

LEMMA NothingShown ==
    ASSUME \A d \in Documents :
              /\ PhaseFor(status'[d], analysis'[d]) = PhaseFor(status[d], analysis[d])
              /\ status'[d] = "deleted" <=> status[d] = "deleted"
              /\ status'[d] = "none" <=> status[d] = "none"
              /\ index'[d] = index[d]
    PROVE  UNCHANGED <<ShownPhases, ShownIndexed>>
<1>1. \A d \in Documents : derivePhase(d)' = derivePhase(d)
  BY PhaseNow, PhaseThen
<1> QED
  BY <1>1 DEF ShownPhases, ShownIndexed, Exists

(* The steps of the phases as the proofs below conclude them.              *)
LEMMA PhaseSteps ==
    ASSUME NEW d \in Documents
    PROVE  /\ ShownIndexed' = ShownIndexed /\
              \/ Phases!Move(d, "absent", "queued")
              \/ Phases!Move(d, "queued", "parsing")
              \/ Phases!Move(d, "analyzing", "ready")
              \/ d \notin ShownIndexed /\ Phases!Move(d, "parsing", "failed")
              \/ /\ d \in ShownIndexed
                 /\ \/ Phases!Move(d, "queued", "analyzing")
                    \/ Phases!Move(d, "analyzing", "failed")
                    \/ Phases!Move(d, "queued", "failed")
              => Phases!Next
           /\ ShownIndexed' = ShownIndexed \cup {d} /\ Phases!Move(d, "parsing", "queued")
              => Phases!Next
BY DEF ShownIndexed, Phases!Next, Phases!Accept, Phases!Parse, Phases!Refuse,
       Phases!Index, Phases!Analyze, Phases!Report, Phases!GiveUp

PhaseStep == Phases!Next \/ UNCHANGED <<ShownPhases, ShownIndexed>>

LEMMA PhasesOfIngest ==
    ASSUME Unattended, LifeInv, NEW i \in IngestSlots, IngestStep(i)
    PROVE  PhaseStep
<1> DEFINE d == ingest[i].doc
<1>t. /\ status \in [Documents -> Statuses]
      /\ analysis \in [Documents -> AnalysisStatuses]
      /\ index \in [Documents -> Nat]
  BY DEF LifeInv, TypeInv, TypeOK
<1>d. d \in Documents
  BY IngestFrame DEF LifeInv
<1>j. /\ status[d] # "deleted" => JobTold(d) /\ RowTold(d)
      /\ RowOK(d)
  BY <1>d DEF LifeInv, ToldInv, IndexInv
<1>1. ASSUME ingest[i].pc \in {"load", "parse"}, status[d] # "deleted"
      PROVE  analysis[d] = "pending" /\ status[d] # "failed"
  <2>1. analysisJob[d].state = "absent"
    BY <1>1, StartAlone DEF Engaged, EngagedByJob
  <2>2. MayCommit(d)
    BY <1>1 DEF MayCommit
  <2> QED
    BY <1>1, <1>j, <2>1, <2>2 DEF JobTold, RowTold
<1>2. CASE StartIngest(i)
  <2>1. /\ ingest[i].pc = "load" /\ Exists(d)
        /\ status'[d] = "processing" /\ analysis'[d] = analysis[d] /\ index'[d] = index[d]
        /\ OthersStay(d)
    BY <1>t, <1>d, <1>2 DEF StartIngest, OthersStay
  <2>2. /\ analysis[d] = "pending" /\ status[d] # "deleted" /\ status[d] # "none"
        /\ status[d] \in {"uploaded", "processing", "ready"}
    BY <1>1, <1>d, <1>t, <2>1 DEF Exists, Statuses
  <2>3. CASE status[d] = "processing"
    BY <2>1, <2>2, <2>3, NothingShown DEF OthersStay, PhaseStep
  <2>4. CASE status[d] # "processing"
    <3>1. /\ PhaseFor(status[d], analysis[d]) = "queued"
          /\ PhaseFor(status'[d], analysis'[d]) = "parsing"
      BY <2>1, <2>2, <2>4 DEF PhaseFor
    <3>2. Phases!Move(d, "queued", "parsing")
      BY <1>d, <2>1, <3>1, MoveShown
    <3>3. ShownIndexed' = ShownIndexed
      BY <1>d, <2>1, <2>2, IndexedShown DEF Exists
    <3> QED
      BY <1>d, <3>2, <3>3, PhaseSteps DEF PhaseStep
  <2> QED
    BY <2>3, <2>4
<1>3. CASE RejectDocument(i)
  <2>1. /\ ingest[i].pc = "parse" /\ d \notin Legible
        /\ status'[d] = IF Exists(d) THEN "failed" ELSE status[d]
        /\ analysis'[d] = analysis[d] /\ index'[d] = index[d]
        /\ OthersStay(d)
    BY <1>t, <1>d, <1>3 DEF RejectDocument, OthersStay
  <2>2. CASE ~Exists(d)
    BY <2>1, <2>2, NothingShown DEF OthersStay, PhaseStep
  <2>3. CASE Exists(d)
    <3>1. analysis[d] = "pending" /\ status[d] = "processing" /\ index[d] = 0
      BY <1>1, <1>j, <2>1, <2>3 DEF RowTold, RowOK, Exists
    <3>2. /\ PhaseFor(status[d], analysis[d]) = "parsing"
          /\ PhaseFor(status'[d], analysis'[d]) = "failed"
      BY <2>1, <2>3, <3>1 DEF PhaseFor
    <3>3. Phases!Move(d, "parsing", "failed")
      BY <1>d, <2>1, <3>2, MoveShown
    <3>4. ShownIndexed' = ShownIndexed /\ d \notin ShownIndexed
      BY <1>d, <2>1, <3>1, IndexedShown DEF ShownIndexed
    <3> QED
      BY <1>d, <3>3, <3>4, PhaseSteps DEF PhaseStep
  <2> QED
    BY <2>2, <2>3
<1>4. CASE CommitIndex(i)
  <2>1. /\ ingest[i].pc = "parse" /\ Exists(d)
        /\ status'[d] = "ready" /\ analysis'[d] = "pending" /\ index'[d] = index[d] + 1
        /\ OthersStay(d)
    BY <1>t, <1>d, <1>4 DEF CommitIndex, OthersStay
  <2>2. analysis[d] = "pending" /\ status[d] = "processing" /\ index'[d] # 0
    BY <1>1, <1>d, <1>t, <1>j, <2>1 DEF RowTold, Exists
  <2>3. /\ PhaseFor(status[d], analysis[d]) = "parsing"
        /\ PhaseFor(status'[d], analysis'[d]) = "queued"
    BY <2>1, <2>2 DEF PhaseFor
  <2>4. Phases!Move(d, "parsing", "queued")
    BY <1>d, <2>1, <2>3, MoveShown
  <2>5. ShownIndexed' = ShownIndexed \cup {d}
    BY <1>d, <2>1, <2>2, IndexedShown DEF Exists
  <2> QED
    BY <1>d, <2>4, <2>5, PhaseSteps DEF PhaseStep
<1>5. CASE UNCHANGED <<status, analysis, index>>
  BY <1>5, NothingShown DEF PhaseStep
<1> QED
  BY <1>2, <1>3, <1>4, <1>5
     DEF IngestStep, ClearForIngest, ChainAnalysis, FinishIngest, ThrowIngest

LEMMA PhasesOfAnalysis ==
    ASSUME Unattended, LifeInv, NEW s \in AnalysisSlots, AnalysisStep(s)
    PROVE  PhaseStep
<1> DEFINE d == analyze[s].doc
<1>t. /\ status \in [Documents -> Statuses]
      /\ analysis \in [Documents -> AnalysisStatuses]
      /\ index \in [Documents -> Nat]
  BY DEF LifeInv, TypeInv, TypeOK
<1>d. /\ d \in Documents /\ analyze[s].pc # "idle"
      /\ UNCHANGED <<status, index>>
  BY AnalysisFrame DEF LifeInv
<1>e. Engaged(d) /\ EngagedByJob(d)
  BY <1>d DEF Engaged, EngagedByJob
<1>r. RunTold(s)
  BY DEF LifeInv, ToldInv
<1>x. status[d] # "deleted" => status[d] = "ready" /\ index[d] # 0
  BY <1>d, <1>e DEF LifeInv, ToldInv, RowTold, IndexInv
<1>1. CASE BeginAnalysis(s)
  <2>1. /\ analyze[s].pc = "begin" /\ status[d] # "deleted"
        /\ analysis'[d] = "analyzing" /\ OthersStay(d)
    BY <1>t, <1>d, <1>1 DEF BeginAnalysis, OthersStay, Exists
  <2>2. analysis[d] \in {"pending", "analyzing"}
    BY <1>r, <2>1 DEF RunTold
  <2>3. CASE analysis[d] = "analyzing"
    BY <1>d, <2>1, <2>3, NothingShown DEF OthersStay, PhaseStep
  <2>4. CASE analysis[d] = "pending"
    <3>1. /\ PhaseFor(status[d], analysis[d]) = "queued"
          /\ PhaseFor(status'[d], analysis'[d]) = "analyzing"
      BY <1>d, <1>x, <2>1, <2>4 DEF PhaseFor
    <3>2. Phases!Move(d, "queued", "analyzing")
      BY <1>d, <2>1, <3>1, MoveShown
    <3>3. ShownIndexed' = ShownIndexed /\ d \in ShownIndexed
      BY <1>d, <1>x, <2>1, IndexedShown DEF ShownIndexed, Exists
    <3> QED
      BY <1>d, <3>2, <3>3, PhaseSteps DEF PhaseStep
  <2> QED
    BY <2>2, <2>3, <2>4
<1>2. CASE EndAnalysis(s)
  <2>1. /\ analyze[s].pc = "end" /\ OthersStay(d)
        /\ analysis'[d] = IF Exists(d) THEN "analyzed" ELSE analysis[d]
    BY <1>t, <1>d, <1>2 DEF EndAnalysis, OthersStay
  <2>2. CASE ~Exists(d)
    BY <1>d, <2>1, <2>2, NothingShown DEF OthersStay, PhaseStep
  <2>3. CASE Exists(d)
    <3>1. analysis[d] = "analyzing" /\ status[d] = "ready"
      BY <1>r, <1>x, <2>1, <2>3 DEF RunTold, Exists
    <3>2. /\ PhaseFor(status[d], analysis[d]) = "analyzing"
          /\ PhaseFor(status'[d], analysis'[d]) = "ready"
      BY <1>d, <2>1, <2>3, <3>1 DEF PhaseFor
    <3>3. Phases!Move(d, "analyzing", "ready")
      BY <1>d, <2>1, <3>2, MoveShown
    <3>4. ShownIndexed' = ShownIndexed
      BY <1>d, <2>1, IndexedShown DEF Exists
    <3> QED
      BY <1>d, <3>3, <3>4, PhaseSteps DEF PhaseStep
  <2> QED
    BY <2>2, <2>3
<1>3. CASE analysis' = analysis
  BY <1>d, <1>3, NothingShown DEF PhaseStep
<1> QED
  BY <1>1, <1>2, <1>3
     DEF AnalysisStep, Classify, ReadType, ReadClauses, SaveFields, ReadFields,
         ReadCites, SaveFlags, FinishAnalysis, ThrowAnalysis

LEMMA PhasesOfRest ==
    ASSUME Unattended, LifeInv,
           \/ DeleteCase \/ \E d \in Documents : Upload(d) \/ MarkFailed(d)
    PROVE  PhaseStep
<1>t. /\ status \in [Documents -> Statuses]
      /\ analysis \in [Documents -> AnalysisStatuses]
      /\ index \in [Documents -> Nat]
  BY DEF LifeInv, TypeInv, TypeOK
<1>1. CASE DeleteCase
  <2>1. \A d \in Documents :
          /\ status'[d] = IF Exists(d) THEN "deleted" ELSE status[d]
          /\ status[d] = "none" => analysis'[d] = analysis[d]
    BY <1>t, <1>1 DEF DeleteCase, Exists
  <2>2. \A d \in Documents :
          PhaseFor(status'[d], analysis'[d])
              = IF PhaseFor(status[d], analysis[d]) = "absent" THEN "absent" ELSE "gone"
    BY <2>1 DEF PhaseFor, Exists
  <2>3. ShownPhases' = [d \in Documents |->
                          IF derivePhase(d) = "absent" THEN "absent" ELSE "gone"]
    BY <2>2, PhaseNow, PhaseThen DEF ShownPhases
  <2>4. ShownIndexed' = {}
    BY <2>1 DEF ShownIndexed, Exists
  <2>5. Phases!Vanish
    BY <2>3, <2>4 DEF Phases!Vanish, ShownPhases, ShownIndexed
  <2> QED
    BY <2>5 DEF Phases!Next, PhaseStep
<1>2. ASSUME NEW d \in Documents, Upload(d) PROVE PhaseStep
  <2>1. /\ status[d] = "none" /\ status'[d] = "uploaded"
        /\ analysis'[d] = analysis[d] /\ index'[d] = index[d] /\ OthersStay(d)
    BY <1>t, <1>2 DEF Upload, OthersStay
  <2>2. index[d] = 0 /\ ~Engaged(d)
    BY <2>1 DEF LifeInv, IndexInv, RowOK
  <2>3. analysis[d] = "pending"
    BY <2>1, <2>2 DEF LifeInv, ToldInv, JobTold, Engaged, EngagedByJob
  <2>4. /\ PhaseFor(status[d], analysis[d]) = "absent"
        /\ PhaseFor(status'[d], analysis'[d]) = "queued"
    BY <2>1, <2>3 DEF PhaseFor
  <2>5. Phases!Move(d, "absent", "queued")
    BY <2>1, <2>4, MoveShown
  <2>6. ShownIndexed' = ShownIndexed
    BY <2>1, <2>2, IndexedShown
  <2> QED
    BY <2>5, <2>6, PhaseSteps DEF PhaseStep
<1>3. ASSUME NEW d \in Documents, MarkFailed(d) PROVE PhaseStep
  <2>1. UNCHANGED <<status, index>> /\ OthersStay(d) /\ d \in failing
    BY <1>t, <1>3 DEF MarkFailed, OthersStay
  <2>2. CASE analysis'[d] = analysis[d]
    BY <2>1, <2>2, NothingShown DEF OthersStay, PhaseStep
  <2>3. CASE analysis'[d] # analysis[d]
    <3>1. Exists(d) /\ analysis'[d] = "failed"
      BY <1>t, <1>3, <2>3 DEF MarkFailed
    <3>2. analysis[d] \in {"pending", "analyzing"} /\ status[d] = "ready" /\ index[d] # 0
      BY <2>1, <3>1
         DEF LifeInv, ToldInv, JobTold, RowTold, IndexInv, Engaged, EngagedByJob, Exists
    <3>3. /\ PhaseFor(status[d], analysis[d]) \in {"queued", "analyzing"}
          /\ PhaseFor(status'[d], analysis'[d]) = "failed"
      BY <2>1, <3>1, <3>2 DEF PhaseFor
    <3>4. Phases!Move(d, "queued", "failed") \/ Phases!Move(d, "analyzing", "failed")
      BY <2>1, <3>3, MoveShown
    <3>5. ShownIndexed' = ShownIndexed /\ d \in ShownIndexed
      BY <2>1, <3>1, <3>2, IndexedShown DEF ShownIndexed, Exists
    <3> QED
      BY <3>4, <3>5, PhaseSteps DEF PhaseStep
  <2> QED
    BY <2>2, <2>3
<1> QED
  BY <1>1, <1>2, <1>3

(* Retries, delayed jobs, the un-awaited update and the deletion of the    *)
(* case show a reader only the steps DocumentPhases allows: the pipeline   *)
(* implements the specification of the phases.                             *)
THEOREM PipelineShowsPhases == Unattended /\ Spec => ImplementsPhases
<1> SUFFICES ASSUME Unattended PROVE Spec => ImplementsPhases
  OBVIOUS
<1>1. Init => Phases!Init
  <2>1. ASSUME Init PROVE Phases!Init
    <3>1. \A d \in Documents : derivePhase(d) = "absent"
      BY <2>1, PhaseNow DEF Init, PhaseFor
    <3> QED
      BY <2>1, <3>1 DEF Init, Phases!Init, Exists
  <2> QED
    BY <2>1
<1>2. LifeInv /\ [Next]_vars => PhaseStep
  <2> SUFFICES ASSUME LifeInv, [Next]_vars PROVE PhaseStep
    OBVIOUS
  <2>1. CASE UNCHANGED <<status, analysis, index>>
    BY <2>1, NothingShown DEF PhaseStep
  <2> QED
    BY <2>1, UnattendedSteps, PhasesOfIngest, PhasesOfAnalysis, PhasesOfRest
       DEF EnqueueIngest, PromoteIngest, PromoteAnalysis, TakeIngest, TakeAnalysis, vars
<1>3. LifeInv /\ [Next]_vars
         => [Phases!Next]_<<[d \in Documents |-> derivePhase(d)],
                            {d \in Documents : Exists(d) /\ index[d] # 0}>>
  BY <1>2 DEF PhaseStep, ShownPhases, ShownIndexed
<1>4. Spec => []LifeInv
  BY LifeInvariant
<1> QED
  BY <1>1, <1>3, <1>4, PTL DEF Spec, ImplementsPhases, Phases!Spec
=============================================================================
