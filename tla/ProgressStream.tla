---------------------------- MODULE ProgressStream ----------------------------
(***************************************************************************)
(* One tab's case page (web/src/features/cases/case-page.tsx with          *)
(* use-progress.ts and use-auto-analyze.ts): a case read that polls, an    *)
(* EventSource on the progress stream of api/src/routes/progress.ts, and   *)
(* the request for analysis that the page sends by itself.                 *)
(*                                                                         *)
(* The workers that write the status columns are DocumentLifecycle's; here *)
(* they are steps of the environment: runs of ingest, first ones, retried  *)
(* ones and two beside each other, and the runs of the analysis.           *)
(* Heartbeats, file names and page failures are left out of the snapshots. *)
(***************************************************************************)
EXTENDS Naturals, Sequences, FiniteSets

CONSTANTS
    Documents,
    Illegible,      \* those that had failed to parse, for good, before the page opens
    MaxReopens,     \* MAX_REOPENS
    MaxErrors,      \* MAX_ERRORS
    MaxRetries,     \* how often query-client.ts tries a read again
    MaxWire,        \* bound: with so many events on their way none is written
    MaxFaults,      \* bound: requests and connections that fail, and MaxRepeats
    MaxRepeats,     \* bound: ingests that run again, uses of the "Re-run the analysis" button
    MaxMounts       \* bound: how often the page is opened

ASSUME ProgressAssumption ==
    /\ IsFiniteSet(Documents) /\ Illegible \subseteq Documents
    /\ MaxRetries \in Nat /\ MaxReopens \in Nat /\ MaxErrors \in Nat \ {0} /\ MaxWire \in Nat \ {0}
    /\ MaxFaults \in Nat /\ MaxRepeats \in Nat /\ MaxMounts \in Nat

VARIABLES
    rows,       \* the documents in the database
    jobs,       \* what the workers are at, and what the queues hold for them
    es,         \* the EventSources the page has opened, with their handlers
    errors, reopens, degraded,      \* of useCaseProgress
    progress,   \* the last snapshot the page has received
    query,      \* the case read in the query cache: of its documents, their stage
    mounts,     \* how often the page was opened
    mounted,
    fired,      \* firedRef of useAutoAnalyze
    marked,     \* the mark in the tab's sessionStorage
    post,       \* the requests to analyze: the page's own and the button's
    sent,       \* how often each was sent
    faults

vars == <<rows, jobs, es, errors, reopens, degraded, progress, query,
          mounts, mounted, fired, marked, post, sent, faults>>
stream == <<es, errors, reopens, degraded, progress>>
asking == <<fired, marked, post, sent>>

-----------------------------------------------------------------------------
(* What the page makes of the two status columns of a case's documents     *)
(* (web/src/stream/derive-stage.ts), and what the progress stream calls    *)
(* done (api/src/routes/progress.ts).                                      *)
Row == [status: {"uploaded", "processing", "ready", "failed"},
        analysis: {"pending", "analyzing", "analyzed", "failed"},
        setBack: Nat]       \* history: how often an ingest has set it back

(* The columns alone, which is what the stream and the case read tell.     *)
Columns == [status: {"uploaded", "processing", "ready", "failed"},
            analysis: {"pending", "analyzing", "analyzed", "failed"}]
Told(snap) == [d \in DOMAIN snap |-> [status |-> snap[d].status, analysis |-> snap[d].analysis]]

(* derivePhase is "ready" or "failed": TERMINAL.                           *)
IsTerminal(row) ==
    \/ row.status = "failed" \/ row.analysis = "failed"
    \/ row.status = "ready" /\ row.analysis = "analyzed"

(* snapshot().done                                                         *)
AllDone(snap) == DOMAIN snap # {} /\ \A d \in DOMAIN snap : IsTerminal(snap[d])

Usable(snap) == {d \in DOMAIN snap : snap[d].status = "ready"}

deriveCaseStage(snap) ==
    IF DOMAIN snap = {} THEN "empty"
    ELSE IF \E d \in DOMAIN snap : snap[d].status \notin {"ready", "failed"} THEN "ingesting"
    ELSE IF Usable(snap) = {} THEN "failed"
    ELSE IF \E d \in Usable(snap) : snap[d].analysis = "analyzing" THEN "analyzing"
    ELSE IF \A d \in Usable(snap) : snap[d].analysis = "pending" THEN "ingested"
    ELSE "analyzed"

isSettled(name) == name \in {"empty", "analyzed", "failed"}
-----------------------------------------------------------------------------
Nothing == <<>>                             \* no documents at all: null, undefined
Snapshot == [Documents -> Columns] \cup {Nothing}

(* One EventSource, the handler that serves it, and what is on the wire.   *)
Sources == 1..(MaxReopens + 1)
Connection == [client: {"unused", "connecting", "open", "closed"},
               handler: BOOLEAN,        \* whether one is serving it
               last: Snapshot]          \* lastSent
Unused == [client |-> "unused", handler |-> FALSE, last |-> Nothing, wire |-> <<>>]
Connecting == [Unused EXCEPT !.client = "connecting"]
Closed == [Unused EXCEPT !.client = "closed"]

(* Whether the case is an upload, whose ingest enqueues the analysis: not  *)
(* so the demo case, whose documents were ingested before it was adopted.  *)
Jobs == [chained: BOOLEAN,
         illegible: SUBSET Documents,   \* what the parser makes of a document is fixed
         due: SUBSET Documents]         \* analyses queued or begun

Requests == {"auto", "button"}
NoPost == [pc |-> "none", left |-> {}, at |-> {}]

TypeOK ==
    /\ rows \in [Documents -> Row] /\ jobs \in Jobs
    /\ \A i \in Sources :
          /\ [f \in {"client", "handler", "last"} |-> es[i][f]] \in Connection
          /\ Len(es[i].wire) <= MaxWire + 1
          /\ \A k \in 1..Len(es[i].wire) :
                es[i].wire[k] \in {"progress", "done", "timeout"} \X [Documents -> Row]
    /\ errors \in 0..MaxErrors /\ reopens \in 0..MaxReopens /\ degraded \in BOOLEAN
    /\ progress \in [Documents -> Row] \cup {Nothing}
    /\ query.data \in {"none", "empty", "ingesting", "failed", "analyzing", "ingested", "analyzed"}
    /\ query.pc \in {"idle", "sent"} /\ query.fails \in 0..MaxRetries
    /\ mounted \in BOOLEAN /\ fired \in BOOLEAN /\ marked \in BOOLEAN
    /\ \A m \in Requests :
          post[m].pc \in {"none", "sent", "enqueueing", "marking", "accepted"}
    /\ sent \in [Requests -> Nat] /\ faults \in 0..MaxFaults /\ mounts \in 0..MaxMounts

Init ==
    /\ jobs \in [chained: BOOLEAN, due: {{}},
                illegible: {u \in SUBSET Documents : Illegible \subseteq u}]
    /\ ~jobs.chained => jobs.illegible = Illegible
    /\ rows = [d \in Documents |->
                 [status |-> IF d \in Illegible THEN "failed"
                             ELSE IF jobs.chained THEN "uploaded" ELSE "ready",
                  analysis |-> "pending", setBack |-> 0]]
    /\ es = [i \in Sources |-> Unused]
    /\ errors = 0 /\ reopens = 0 /\ degraded = FALSE
    /\ progress = Nothing
    /\ query = [data |-> "none", pc |-> "idle", fails |-> 0]
    /\ mounts = 0 /\ mounted = FALSE
    /\ fired = FALSE /\ marked = FALSE
    /\ post = [m \in Requests |-> NoPost]
    /\ sent = [m \in Requests |-> 0]
    /\ faults = 0

documents == query.data
stage == IF progress # Nothing THEN deriveCaseStage(progress) ELSE documents

(* The EventSource that is not closed, if there is one: `source`.          *)
Live(i) == es[i].client \in {"connecting", "open"}
Streaming == \E i \in Sources : Live(i)
-----------------------------------------------------------------------------
(***************************************************************************)
(* The workers.                                                            *)
(***************************************************************************)
(* The bounds on what goes wrong and on what is done again, together.      *)
Repeats(d) == rows[d].setBack + sent["button"]
MayFail == faults < MaxFaults /\ \A d \in Documents : faults + Repeats(d) < MaxFaults
MayRepeat(d) == Repeats(d) < MaxRepeats /\ faults + Repeats(d) < MaxFaults

AtWork == UNCHANGED <<stream, query, mounts, mounted, asking>>

(* Nothing is asked about the row: an ingest that is retried, or that runs *)
(* a second time as its worker has stalled, takes it back to processing.   *)
(* Of two runs beside each other the one that ends last looks, to those    *)
(* who read the row, like one that began behind the other.                 *)
IngestBegins(d) ==
    /\ jobs.chained /\ d \notin Illegible /\ rows[d].status # "processing"
    /\ IF rows[d].status = "uploaded"
       THEN rows' = [rows EXCEPT ![d].status = "processing"]
       ELSE /\ MayRepeat(d)
            /\ rows' = [rows EXCEPT ![d].status = "processing", ![d].setBack = @ + 1]
    /\ UNCHANGED <<jobs, faults>> /\ AtWork

IngestFails(d) ==
    /\ d \in jobs.illegible
    /\ rows[d].status = "processing"
    /\ rows' = [rows EXCEPT ![d].status = "failed"]
    /\ UNCHANGED <<jobs, faults>> /\ AtWork

(* With the analysis behind it.  That it cannot be enqueued looks to the   *)
(* page like a job that is never begun: no worker has to go on.            *)
IngestEnds(d) ==
    /\ d \notin jobs.illegible
    /\ rows[d].status = "processing"
    /\ rows' = [rows EXCEPT ![d].status = "ready", ![d].analysis = "pending"]
    /\ jobs' = [jobs EXCEPT !.due = @ \cup {d}]
    /\ UNCHANGED faults /\ AtWork

Ingest(d) == IngestBegins(d) \/ IngestFails(d) \/ IngestEnds(d)

(* An attempt begins, the first or another; or the last one ends.  The     *)
(* status is not looked at.                                                *)
Analyze(d) ==
    /\ d \in jobs.due
    /\ \/ /\ rows[d].analysis # "analyzing"
          /\ rows' = [rows EXCEPT ![d].analysis = "analyzing"]
          /\ UNCHANGED jobs
       \/ /\ \E a \in {"analyzed", "failed"} : rows' = [rows EXCEPT ![d].analysis = a]
          /\ jobs' = [jobs EXCEPT !.due = @ \ {d}]
    /\ UNCHANGED faults /\ AtWork
-----------------------------------------------------------------------------
(***************************************************************************)
(* The handler of GET /cases/{id}/events.                                  *)
(***************************************************************************)
(* What one round of its loop writes, c.read being what it has just read:  *)
(* only news, and the reason to close if there is one.                     *)
SentOnce(c, expired) ==         \* only ever the first snapshot
    (IF c.last = Nothing THEN <<<<"progress", c.read>>>> ELSE <<>>)
        \o (IF AllDone(c.read) THEN <<<<"done", c.read>>>>
            ELSE IF expired THEN <<<<"timeout", c.read>>>> ELSE <<>>)

SentIngested(c, expired) ==     \* done as soon as everything is parsed
    (IF Told(c.read) # c.last THEN <<<<"progress", c.read>>>> ELSE <<>>)
        \o (IF \A d \in Documents : c.read[d].status \in {"ready", "failed"}
            THEN <<<<"done", c.read>>>>
            ELSE IF expired THEN <<<<"timeout", c.read>>>> ELSE <<>>)

Sent(c, expired) ==
    (IF Told(c.read) # c.last THEN <<<<"progress", c.read>>>> ELSE <<>>)
        \o (IF AllDone(c.read) THEN <<<<"done", c.read>>>>
            ELSE IF expired THEN <<<<"timeout", c.read>>>> ELSE <<>>)

(* Reading and writing are one step: what happens between them, and before *)
(* the event arrives, are the same delay.                                  *)
Round(i, expired) ==
    LET out  == Sent([read |-> rows, last |-> es[i].last], expired)
        over == \E k \in 1..Len(out) : out[k][1] # "progress"
    IN  /\ es[i].client = "open" /\ es[i].handler
        /\ Len(es[i].wire) < MaxWire
        /\ es' = [es EXCEPT ![i].wire = @ \o out, ![i].last = Told(rows),
                            ![i].handler = ~over]
        /\ UNCHANGED <<rows, jobs, errors, reopens, degraded, progress, query,
                       mounts, mounted, asking, faults>>
-----------------------------------------------------------------------------
(***************************************************************************)
(* The EventSource.                                                        *)
(***************************************************************************)
Accepted(i) ==          \* onopen
    /\ es[i].client = "connecting"
    /\ es' = [es EXCEPT ![i].client = "open", ![i].handler = TRUE]
    /\ errors' = 0
    /\ UNCHANGED <<rows, jobs, reopens, degraded, progress, query,
                   mounts, mounted, asking, faults>>

(* onerror.  A broken connection is retried by the EventSource itself; an  *)
(* answer that is not 200 closes it for good, after this one error event.  *)
onerror(i, client) ==
    /\ MayFail
    /\ faults' = faults + 1
    /\ errors' = errors + 1
    /\ IF errors + 1 < MaxErrors
       THEN /\ es' = [es EXCEPT ![i] = [Unused EXCEPT !.client = client]]
            /\ UNCHANGED degraded
       ELSE /\ es' = [es EXCEPT ![i] = Closed]
            /\ degraded' = TRUE
    /\ UNCHANGED <<rows, jobs, reopens, progress, query, mounts, mounted, asking>>

ConnectionBreaks(i) == Live(i) /\ onerror(i, "connecting")
Refused(i) == es[i].client = "connecting" /\ onerror(i, "closed")

(* The query refetches in place of the request that may be under way.      *)
Invalidated(q) ==
    [q EXCEPT !.pc = IF mounted THEN "sent" ELSE "idle", !.fails = 0]

Take(i, event) ==
    /\ es[i].client = "open" /\ es[i].wire # <<>>
    /\ Head(es[i].wire)[1] = event
    /\ progress' = Head(es[i].wire)[2]

ReceiveProgress(i) ==
    /\ Take(i, "progress")
    /\ es' = [es EXCEPT ![i].wire = Tail(@)]
    /\ UNCHANGED <<rows, jobs, errors, reopens, degraded, query,
                   mounts, mounted, asking, faults>>

ReceiveDone(i) ==
    /\ Take(i, "done")
    /\ es' = [es EXCEPT ![i] = Closed]
    /\ query' = Invalidated(query)
    /\ UNCHANGED <<rows, jobs, errors, reopens, degraded, mounts, mounted,
                   asking, faults>>

ReceiveTimeoutKeeps(i) ==       \* opens the next one beside the one that ends
    /\ Take(i, "timeout")
    /\ IF reopens < MaxReopens
       THEN /\ reopens' = reopens + 1
            /\ es' = [es EXCEPT ![i] = [Unused EXCEPT !.client = "connecting"],
                                ![reopens + 2] = Connecting]
            /\ UNCHANGED degraded
       ELSE /\ degraded' = TRUE
            /\ es' = [es EXCEPT ![i] = Closed]
            /\ UNCHANGED reopens
    /\ UNCHANGED <<rows, jobs, errors, query, mounts, mounted, asking, faults>>

ReceiveTimeoutAgain(i) ==       \* opens it anew however often it was
    /\ Take(i, "timeout")
    /\ reopens' = reopens + 1
    /\ es' = [es EXCEPT ![i] = Connecting]
    /\ UNCHANGED degraded
    /\ UNCHANGED <<rows, jobs, errors, query, mounts, mounted, asking, faults>>

ReceiveTimeout(i) ==
    /\ Take(i, "timeout")
    /\ IF reopens < MaxReopens
       THEN /\ reopens' = reopens + 1
            /\ es' = [es EXCEPT ![i] = Closed, ![reopens + 2] = Connecting]
            /\ UNCHANGED degraded
       ELSE /\ degraded' = TRUE
            /\ es' = [es EXCEPT ![i] = Closed]
            /\ UNCHANGED reopens
    /\ UNCHANGED <<rows, jobs, errors, query, mounts, mounted, asking, faults>>
-----------------------------------------------------------------------------
(***************************************************************************)
(* The case read, and the page that depends on it.                         *)
(***************************************************************************)
(* What the cache holds counts as fresh for a while; the stream is opened  *)
(* once there is data, and nothing of an earlier visit to the page is left.*)
Mount(fresh) ==
    /\ ~mounted /\ mounts < MaxMounts
    /\ fresh => documents # "none"
    /\ mounted' = TRUE /\ mounts' = mounts + 1
    /\ query' = IF fresh THEN query ELSE [query EXCEPT !.pc = "sent", !.fails = 0]
    /\ es' = [i \in Sources |-> IF i = 1 /\ documents # "none" THEN Connecting
                                ELSE Unused]
    /\ UNCHANGED <<rows, jobs, errors, reopens, degraded, progress, asking, faults>>

(* The effect's cleanup; the state of the component goes with it.          *)
Unmount ==
    /\ mounted
    /\ mounted' = FALSE
    /\ es' = [i \in Sources |-> Unused]
    /\ errors' = 0 /\ reopens' = 0 /\ degraded' = FALSE /\ progress' = Nothing
    /\ query' = [query EXCEPT !.pc = "idle", !.fails = 0]
    /\ fired' = FALSE
    /\ UNCHANGED <<rows, jobs, mounts, marked, post, sent, faults>>

(* What was read may be old when it is used: it stays until the next poll. *)
CaseRead ==
    /\ query.pc = "sent"
    /\ query' = [data |-> deriveCaseStage(rows), pc |-> "idle", fails |-> 0]
    /\ es' = IF documents = "none" THEN [es EXCEPT ![1] = Connecting] ELSE es
    /\ UNCHANGED <<rows, jobs, errors, reopens, degraded, progress,
                   mounts, mounted, asking, faults>>

CaseFails ==
    /\ query.pc = "sent" /\ MayFail
    /\ faults' = faults + 1
    /\ query' = IF query.fails < MaxRetries
                THEN [query EXCEPT !.pc = "sent", !.fails = @ + 1]
                ELSE [query EXCEPT !.pc = "idle", !.fails = 0]
    /\ UNCHANGED <<rows, jobs, stream, mounts, mounted, asking>>

Poll ==                 \* refetchInterval
    /\ mounted /\ query.pc = "idle"
    /\ documents # "none" /\ ~isSettled(documents)
    /\ query' = [query EXCEPT !.pc = "sent"]
    /\ UNCHANGED <<rows, jobs, stream, mounts, mounted, asking, faults>>
-----------------------------------------------------------------------------
(***************************************************************************)
(* Asking for the analysis.                                                *)
(***************************************************************************)
Mutate(m) ==
    /\ post[m].pc = "none"
    /\ post' = [post EXCEPT ![m].pc = "sent"]
    /\ sent' = [sent EXCEPT ![m] = @ + 1]
    /\ UNCHANGED <<rows, jobs, stream, query, mounts, mounted, faults>>

AutoAnalyzeByRef ==     \* remembers it no longer than the page is open
    /\ mounted /\ documents # "none" /\ stage = "ingested"
    /\ ~fired
    /\ fired' = TRUE /\ marked' = TRUE
    /\ Mutate("auto")

AutoAnalyzeLive ==      \* only on what the stream has said
    /\ mounted /\ progress # Nothing /\ stage = "ingested"
    /\ ~fired /\ ~marked
    /\ fired' = TRUE /\ marked' = TRUE
    /\ Mutate("auto")

AutoAnalyze ==
    /\ mounted /\ documents # "none" /\ stage = "ingested"
    /\ ~fired /\ ~marked
    /\ fired' = TRUE /\ marked' = TRUE
    /\ Mutate("auto")

ReRun ==
    /\ mounted /\ documents # "none" /\ stage = "analyzed"
    /\ \A d \in Documents : MayRepeat(d)
    /\ Mutate("button")
    /\ UNCHANGED <<fired, marked>>

Post(m, pc, left, at) ==
    /\ post' = [post EXCEPT ![m] = [pc |-> pc, left |-> left, at |-> at]]
    /\ UNCHANGED <<stream, mounts, mounted, fired, marked, sent>>

(* POST /cases/{id}/analyze: the documents that are ready, one by one.     *)
Remaining(m, left) == Post(m, IF left = {} THEN "accepted" ELSE "enqueueing", left, {})

AnalyzeCase(m) ==
    /\ post[m].pc = "sent"
    /\ Remaining(m, Usable(rows))
    /\ UNCHANGED <<rows, jobs, query, faults>>

EnqueueAnalysis(m) ==
    /\ post[m].pc = "enqueueing"
    /\ \E d \in post[m].left :
          /\ jobs' = [jobs EXCEPT !.due = @ \cup {d}]
          /\ Post(m, "marking", post[m].left \ {d}, {d})
    /\ UNCHANGED <<rows, query, faults>>

(* By now the job may have begun, or have ended.                           *)
MarkAnalyzing(m) ==
    /\ post[m].pc = "marking"
    /\ \E d \in post[m].at : rows' = [rows EXCEPT ![d].analysis = "analyzing"]
    /\ Remaining(m, post[m].left)
    /\ UNCHANGED <<jobs, query, faults>>

(* useAnalyzeCase onSuccess                                                *)
AnalyzeAccepted(m) ==
    /\ post[m].pc = "accepted"
    /\ Post(m, "none", {}, {})
    /\ query' = Invalidated(query)
    /\ UNCHANGED <<rows, jobs, faults>>

(* Refused, or lost; nothing repeats it.                                   *)
AnalyzeFails(m) ==
    /\ post[m].pc = "sent" /\ MayFail
    /\ faults' = faults + 1
    /\ Post(m, "none", {}, {})
    /\ UNCHANGED <<rows, jobs, query>>
-----------------------------------------------------------------------------
Worker(d) == Ingest(d) \/ Analyze(d)
StreamStep(i) ==
    \/ Accepted(i)
    \/ ReceiveProgress(i) \/ ReceiveDone(i) \/ ReceiveTimeout(i)
QueryStep == CaseRead \/ Poll
PostStep(m) ==
    AnalyzeCase(m) \/ EnqueueAnalysis(m) \/ MarkAnalyzing(m) \/ AnalyzeAccepted(m)

Next ==
    \/ \E d \in Documents : Worker(d)
    \/ \E i \in Sources : \/ StreamStep(i) \/ ConnectionBreaks(i) \/ Refused(i)
                          \/ \E expired \in BOOLEAN : Round(i, expired)
    \/ (\E fresh \in BOOLEAN : Mount(fresh)) \/ Unmount
    \/ QueryStep \/ CaseFails
    \/ AutoAnalyze \/ ReRun
    \/ \E m \in Requests : PostStep(m) \/ AnalyzeFails(m)

Spec == Init /\ [][Next]_vars

(* Handlers and browsers go on.  That workers do is not assumed, nor that  *)
(* five minutes pass or that anything fails.                               *)
Fairness ==
    /\ WF_vars(\E i \in Sources : StreamStep(i))
    /\ WF_vars(\E i \in Sources : Round(i, FALSE))
    /\ WF_vars(QueryStep)
    /\ WF_vars(AutoAnalyze)
    /\ WF_vars(\E m \in Requests : PostStep(m))

FairSpec == Spec /\ Fairness
-----------------------------------------------------------------------------
(***************************************************************************)
(* Properties.                                                             *)
(***************************************************************************)
(* There is one EventSource at a time, although each `timeout` opens       *)
(* another, and none is left once the page is gone.                        *)
OneSource ==
    /\ \A i, j \in Sources : Live(i) /\ Live(j) => i = j
    /\ Streaming => mounted

(* How far a document is.                                                  *)
Rank(row) == CASE row.status = "uploaded" -> 0
               [] row.status = "processing" -> 1
               [] row.status = "ready" /\ row.analysis = "pending" -> 2
               [] OTHER -> 3

(* progress.ts: "reconnecting is always correct".  Across reconnects and   *)
(* reopened streams, what the page is told of a document never goes back   *)
(* (to before it was parsed, or from an analysis to its not being asked    *)
(* for), but where an ingest has set the document back since.              *)
NotBehind(old, new) ==
    \/ old.setBack < new.setBack
    \/ old.setBack = new.setBack /\ Rank(old) <= Rank(new)
NeverBackwards ==
    [][progress # Nothing /\ progress' # Nothing =>
          \A d \in Documents : NotBehind(progress[d], progress'[d])]_vars

(* The page stops listening only where nothing is left to be told: in the  *)
(* last snapshot no document still waits for its analysis, and the stage   *)
(* of the case is settled.  One case is left: an analysis that has failed  *)
(* ends the document's progress even while it is being ingested again.     *)
Reingested(row) == row.status = "processing" /\ row.analysis = "failed"
DoneIsSettled ==
    [][\A i \in Sources : ReceiveDone(i) =>
          /\ \/ isSettled(deriveCaseStage(progress'))
             \/ \E d \in Documents : Reingested(progress'[d])
          /\ \A d \in Documents : progress'[d].status = "ready" =>
                progress'[d].analysis \in {"analyzed", "failed"}]_vars

(* use-auto-analyze.ts: one automatic request per tab, however often the   *)
(* page is left and opened again: analyze is capped at 20 an hour.         *)
AutoOnce == sent["auto"] <= 1

(* As long as the stream has not been given up, or closed because all was  *)
(* done, the page comes to show what the database holds, also where the    *)
(* workers stop half way.                                                  *)
Settling == ~mounted \/ documents = "none" \/ ~Streaming
PageCatchesUp == ~Settling ~> (Settling \/ Told(progress) = Told(rows))

(* A case that is parsed and waits gets its request, unless it was sent    *)
(* from this tab before, the page is left, the case could not be read at   *)
(* all, or the page looks at a snapshot nobody will replace any more.      *)
Stuck == ~Streaming /\ (progress # Nothing \/ isSettled(documents))
Waits == mounted /\ ~marked /\ deriveCaseStage(rows) = "ingested"
IngestedIsAsked ==
    Waits ~> (~Waits \/ Stuck \/ (documents = "none" /\ query.pc = "idle"))

(* The page, as a whole: one source, one automatic request, snapshots that *)
(* only go forward, and an end only where everything has come to rest.     *)
PageIsTrue ==
    /\ [](TypeOK /\ OneSource /\ AutoOnce)
    /\ NeverBackwards
    /\ DoneIsSettled

(* And what it waits for comes: the state of the rows, and the request for *)
(* the analysis of what has been parsed.                                   *)
PageIsLive == PageCatchesUp /\ IngestedIsAsked
=============================================================================
