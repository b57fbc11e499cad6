---------------------------- MODULE AskTranscript ----------------------------
(***************************************************************************)
(* The chat panel of one case: the transcript in the query cache, the      *)
(* streams that write it (web/src/stream/use-ask-stream.ts, ask-reducer.ts)*)
(* and the requests that load what was asked before: one on mount, and one *)
(* after every invalidation of the case's queries (use-progress.ts,        *)
(* queries.ts), whose prefix takes in the transcript.  Next to it, a server*)
(* that goes on answering whether or not anyone still reads.               *)
(*                                                                         *)
(* Of the frames only those that change what is shown of the answer are    *)
(* kept: the tool calls fill an activity list that nothing here depends on.*)
(***************************************************************************)
EXTENDS Naturals, Sequences, FiniteSets, StreamFrames

CONSTANTS
    Questions,      \* the questions asked, each of them once
    NoQuestion,
    MaxFrames,      \* bound: tokens and retries of one answer
    MaxWire         \* bound: frames under way to the client

ASSUME TranscriptAssumption ==
    /\ NoQuestion \notin Questions
    /\ IsFiniteSet(Questions)
    /\ MaxFrames \in Nat
    /\ MaxWire \in Nat \ {0}

VARIABLES
    server,     \* the handler of each question
    wire,       \* the frames on their way to the client
    stored,     \* the stored turns, oldest first
    turns,      \* the transcript in the cache
    entry,      \* whether the cache entry has data, and counts as fresh
    mounted,    \* whether the panel is on screen
    abort,      \* its abortRef: the question whose stream it may abort
    running,    \* its state of that name
    task,       \* the async task of each question
    fetch       \* the request for the stored turns

serverVars == <<server, wire, stored>>
panelVars == <<mounted, abort, running>>
vars == <<serverVars, panelVars, turns, entry, task, fetch>>

Handler == [pc: {"none", "asked", "running", "saved", "ended", "dead"},
            last: {"none", "token", "retry"}, retried: BOOLEAN, sent: 0..MaxFrames]
NewHandler == [pc |-> "none", last |-> "none", retried |-> FALSE, sent |-> 0]
Arrivals == {"token", "retry", "done", "error", "refused"}

(* AskTurn: whether its id is still the client's own or that of the row.   *)
Turn == [q: Questions, id: {"own", "row"},
         status: {"streaming", "correcting", "done", "error"},
         answer: {"none", "draft", "final"}]
newTurn(q) == [q |-> q, id |-> "own", status |-> "streaming", answer |-> "none"]
replayedTurn(q) == [q |-> q, id |-> "row", status |-> "done", answer |-> "final"]

(* A transcript with data is fresh until it is invalidated; one without is *)
(* loaded, or its first load has failed.                                   *)
Entry == {"none", "failed", "stale", "fresh"}
HasData == entry \in {"stale", "fresh"}

NoFetch == [pc |-> "none", turns |-> <<>>]
NewFetch == [pc |-> "sent", turns |-> <<>>]

TypeOK ==
    /\ server \in [Questions -> Handler]
    /\ \A q \in Questions :
          /\ Len(wire[q]) <= MaxWire
          /\ \A i \in 1..Len(wire[q]) : wire[q][i] \in Arrivals
    /\ \A i \in 1..Len(stored) : stored[i] \in Questions
    /\ \A i, j \in 1..Len(stored) : stored[i] = stored[j] => i = j
    /\ \A i \in 1..Len(turns) : turns[i] \in Turn
    /\ entry \in Entry
    /\ mounted \in BOOLEAN /\ running \in BOOLEAN
    /\ abort \in Questions \cup {NoQuestion}
    /\ task \in [Questions -> {"none", "reading", "aborted", "over"}]
    /\ fetch.pc \in {"none", "sent", "read"}
    /\ \A i \in 1..Len(fetch.turns) : fetch.turns[i] \in Questions

Init ==
    /\ server = [q \in Questions |-> NewHandler]
    /\ wire = [q \in Questions |-> <<>>]
    /\ stored = <<>>
    /\ turns = <<>>
    /\ entry = "none"
    /\ mounted = FALSE /\ abort = NoQuestion /\ running = FALSE
    /\ task = [q \in Questions |-> "none"]
    /\ fetch = NoFetch
-----------------------------------------------------------------------------
(***************************************************************************)
(* The reducer.  All that a stream dispatches goes to the last turn.       *)
(***************************************************************************)
updateLast(ts, patch) ==
    IF ts = <<>> THEN ts
    ELSE [ts EXCEPT ![Len(ts)] =
            [q |-> @.q, id |-> IF patch.status = "done" THEN "row" ELSE @.id,
             status |-> patch.status, answer |-> patch.answer]]

askReducer(ts, action) ==
    LET last == ts[Len(ts)] IN
    CASE ts = <<>> -> ts
      [] action = "token" ->
            updateLast(ts, [status |-> last.status, answer |-> "draft"])
      [] action = "retry" ->
            updateLast(ts, [status |-> "correcting", answer |-> last.answer])
      [] action = "done" ->
            updateLast(ts, [status |-> "done", answer |-> "final"])
      [] action = "error" ->
            updateLast(ts, [status |-> "error", answer |-> "none"])
      [] action = "cancelled" ->
            IF last.status = "done" THEN ts
            ELSE updateLast(ts, [status |-> "error", answer |-> "none"])
      [] action = "refused" -> SubSeq(ts, 1, Len(ts) - 1)     \* "dropped"

dispatch(action) ==
    /\ turns' = askReducer(turns, action)
    /\ entry' = "fresh"
-----------------------------------------------------------------------------
(***************************************************************************)
(* The server: routes/ask.ts.  Nobody tells it that the client has gone.   *)
(***************************************************************************)
Push(q, f) ==
    wire' = IF task[q] = "reading" THEN [wire EXCEPT ![q] = Append(@, f)] ELSE wire

Room(q) == task[q] = "reading" => Len(wire[q]) < MaxWire

Accept(q) ==
    /\ server[q].pc = "asked"
    /\ server' = [server EXCEPT ![q].pc = "running"]
    /\ UNCHANGED <<wire, stored, panelVars, turns, entry, task, fetch>>

(* 429: five questions a minute.                                           *)
Refuse(q) ==
    /\ server[q].pc = "asked"
    /\ Room(q)
    /\ server' = [server EXCEPT ![q].pc = "ended"]
    /\ Push(q, "refused")
    /\ UNCHANGED <<stored, panelVars, turns, entry, task, fetch>>

Emit(q, f) ==
    /\ server[q].pc = "running"
    /\ f \in {"token", "retry"}
    /\ MayFollow(f, server[q].last, server[q].retried)
    /\ server[q].sent < MaxFrames
    /\ Room(q)
    /\ server' = [server EXCEPT ![q] =
          [pc |-> "running", last |-> f, retried |-> @.retried \/ f = "retry",
           sent |-> @.sent + 1]]
    /\ Push(q, f)
    /\ UNCHANGED <<stored, panelVars, turns, entry, task, fetch>>

SaveTurnAgain(q) ==     \* saves once more when it is slow to answer
    /\ server[q].pc \in {"running", "saved"}
    /\ server' = [server EXCEPT ![q].pc = "saved"]
    /\ stored' = Append(stored, q)
    /\ UNCHANGED <<wire, panelVars, turns, entry, task, fetch>>

SaveTurn(q) ==
    /\ server[q].pc = "running"
    /\ server' = [server EXCEPT ![q].pc = "saved"]
    /\ stored' = Append(stored, q)
    /\ UNCHANGED <<wire, panelVars, turns, entry, task, fetch>>

EmitDone(q) ==
    /\ server[q].pc = "saved"
    /\ Room(q)
    /\ server' = [server EXCEPT ![q].pc = "ended"]
    /\ Push(q, "done")
    /\ UNCHANGED <<stored, panelVars, turns, entry, task, fetch>>

EmitError(q) ==
    /\ server[q].pc = "running"
    /\ Room(q)
    /\ server' = [server EXCEPT ![q].pc = "ended"]
    /\ Push(q, "error")
    /\ UNCHANGED <<stored, panelVars, turns, entry, task, fetch>>

ServerDies(q) ==
    /\ server[q].pc \in {"asked", "running", "saved"}
    /\ server' = [server EXCEPT ![q].pc = "dead"]
    /\ UNCHANGED <<wire, stored, panelVars, turns, entry, task, fetch>>
-----------------------------------------------------------------------------
(***************************************************************************)
(* The panel: useAskStream.                                                *)
(***************************************************************************)
(* What counts as fresh is not loaded again.  A first load that failed is, *)
(* unless its error went to the page's error boundary.                     *)
Mount ==
    /\ ~mounted
    /\ mounted' = TRUE
    /\ \/ entry # "fresh" /\ fetch' = NewFetch
       \/ entry \in {"failed", "fresh"} /\ fetch' = NoFetch
    /\ UNCHANGED <<serverVars, abort, running, turns, entry, task>>

(* The progress stream said `done`, or a re-run of the analysis was        *)
(* accepted.  On screen, the transcript is loaded again at once, in place  *)
(* of a load under way; only a first load is left to end.                  *)
Invalidate ==
    /\ entry' = IF HasData THEN "stale" ELSE entry
    /\ fetch' = IF mounted /\ (HasData \/ fetch.pc = "none") THEN NewFetch ELSE fetch
    /\ UNCHANGED <<serverVars, panelVars, turns, task>>

(* The user leaves the page, or it stops showing the panel because another *)
(* document is being ingested: the stream and the fetch are aborted.       *)
Unmount ==
    /\ mounted
    /\ mounted' = FALSE
    /\ abort' = NoQuestion
    /\ running' = FALSE
    /\ task' = [q \in Questions |-> IF q = abort THEN "aborted" ELSE task[q]]
    /\ wire' = [q \in Questions |-> IF q = abort THEN <<>> ELSE wire[q]]
    /\ fetch' = NoFetch
    /\ UNCHANGED <<server, stored, turns, entry>>

AskUnguarded(q) ==      \* does not look whether a stream is open
    /\ mounted
    /\ task[q] = "none"
    /\ abort' = q
    /\ running' = TRUE
    /\ turns' = Append(turns, newTurn(q))
    /\ entry' = "fresh"
    /\ task' = [task EXCEPT ![q] = "reading"]
    /\ server' = [server EXCEPT ![q].pc = "asked"]
    /\ UNCHANGED <<wire, stored, mounted, fetch>>

Ask(q) ==
    /\ mounted
    /\ abort = NoQuestion
    /\ task[q] = "none"
    /\ abort' = q
    /\ running' = TRUE
    /\ turns' = Append(turns, newTurn(q))
    /\ entry' = "fresh"
    /\ task' = [task EXCEPT ![q] = "reading"]
    /\ server' = [server EXCEPT ![q].pc = "asked"]
    /\ UNCHANGED <<wire, stored, mounted, fetch>>

Stop ==
    /\ mounted
    /\ abort # NoQuestion
    /\ task' = [task EXCEPT ![abort] = "aborted"]
    /\ wire' = [wire EXCEPT ![abort] = <<>>]
    /\ abort' = NoQuestion
    /\ running' = FALSE
    /\ dispatch("cancelled")
    /\ UNCHANGED <<server, stored, mounted, fetch>>

FinallyUnguarded(q) ==  \* whoever's stream it is that ended
    abort' = NoQuestion /\ running' = FALSE

FinallyForgotten(q) ==  \* only where the stream was aborted
    UNCHANGED <<abort, running>>

(* The end of a task, whose stream may no longer be the panel's.           *)
Finally(q) ==
    /\ abort' = IF abort = q THEN NoQuestion ELSE abort
    /\ running' = IF abort = q THEN FALSE ELSE running

Receive(q) ==
    /\ task[q] = "reading"
    /\ wire[q] # <<>>
    /\ Head(wire[q]) # "refused"
    /\ dispatch(Head(wire[q]))
    /\ wire' = [wire EXCEPT ![q] = Tail(@)]
    /\ UNCHANGED <<server, stored, panelVars, task, fetch>>

(* The task throws: the request was refused, or the connection broke.      *)
Throw(q, action) ==
    /\ dispatch(action)
    /\ task' = [task EXCEPT ![q] = "over"]
    /\ Finally(q)
    /\ wire' = [wire EXCEPT ![q] = <<>>]
    /\ UNCHANGED <<server, stored, mounted, fetch>>

ReceiveRefusal(q) ==
    /\ task[q] = "reading"
    /\ wire[q] # <<>>
    /\ Head(wire[q]) = "refused"
    /\ Throw(q, "refused")

ConnectionBreaks(q) == task[q] = "reading" /\ Throw(q, "error")

(* The stream has ended behind its last frame.                             *)
StreamEnds(q) ==
    /\ task[q] = "reading"
    /\ server[q].pc = "ended"
    /\ wire[q] = <<>>
    /\ task' = [task EXCEPT ![q] = "over"]
    /\ Finally(q)
    /\ UNCHANGED <<serverVars, mounted, turns, entry, fetch>>

(* The task of an aborted stream unwinds, dispatching nothing.             *)
TaskUnwinds(q) ==
    /\ task[q] = "aborted"
    /\ task' = [task EXCEPT ![q] = "over"]
    /\ Finally(q)
    /\ UNCHANGED <<serverVars, mounted, turns, entry, fetch>>
-----------------------------------------------------------------------------
(* GET /cases/{id}/turns: the server reads, and later the answer arrives;  *)
(* an attempt whose answer is lost is made again.                          *)
FetchRead ==
    /\ fetch.pc # "none"
    /\ fetch' = [pc |-> "read", turns |-> stored]
    /\ UNCHANGED <<serverVars, panelVars, turns, entry, task>>

(* The elements of s at the positions in kept, in the order they have in s.*)
Filtered(s, kept) ==
    LET nth(n) == CHOOSE i \in kept : Cardinality({j \in kept : j <= i}) = n
    IN  [n \in 1..Cardinality(kept) |-> s[nth(n)]]

Merged(fetched, local) ==
    LET known(t) == t.id = "row" /\ \E i \in 1..Len(fetched) : fetched[i] = t.q
    IN  <<[i \in 1..Len(fetched) |-> replayedTurn(fetched[i])],
          Filtered(local, {i \in 1..Len(local) : ~known(local[i])})>>

FetchArrivesLast ==     \* what was asked meanwhile comes first
    /\ fetch.pc = "read"
    /\ LET m == Merged(fetch.turns, turns) IN turns' = m[2] \o m[1]
    /\ entry' = "fresh"
    /\ fetch' = NoFetch
    /\ UNCHANGED <<serverVars, panelVars, task>>

FetchReplaces ==        \* what the page has of its own is gone
    /\ fetch.pc = "read"
    /\ turns' = Merged(fetch.turns, turns)[1]
    /\ entry' = "fresh"
    /\ fetch' = NoFetch
    /\ UNCHANGED <<serverVars, panelVars, task>>

FetchArrives ==
    /\ fetch.pc = "read"
    /\ LET m == Merged(fetch.turns, turns) IN turns' = m[1] \o m[2]
    /\ entry' = "fresh"
    /\ fetch' = NoFetch
    /\ UNCHANGED <<serverVars, panelVars, task>>

(* The last attempt fails.                                                 *)
FetchFails ==
    /\ fetch.pc # "none"
    /\ fetch' = NoFetch
    /\ entry' = IF HasData THEN "stale" ELSE "failed"
    /\ UNCHANGED <<serverVars, panelVars, turns, task>>

(* The page is loaded anew: the cache and every stream are gone.           *)
Reload ==
    /\ mounted' = FALSE /\ abort' = NoQuestion /\ running' = FALSE
    /\ turns' = <<>>
    /\ entry' = "none"
    /\ fetch' = NoFetch
    /\ task' = [q \in Questions |-> IF task[q] = "none" THEN "none" ELSE "over"]
    /\ wire' = [q \in Questions |-> <<>>]
    /\ UNCHANGED <<server, stored>>

ServerStep(q) ==
    \/ Accept(q) \/ Refuse(q) \/ SaveTurn(q) \/ EmitDone(q) \/ EmitError(q)
    \/ \E f \in Frames : Emit(q, f)
TaskStep(q) == Receive(q) \/ ReceiveRefusal(q) \/ StreamEnds(q) \/ TaskUnwinds(q)

Next ==
    \/ \E q \in Questions :
          ServerStep(q) \/ ServerDies(q) \/ TaskStep(q) \/ Ask(q) \/ ConnectionBreaks(q)
    \/ Mount \/ Unmount \/ Stop \/ Reload \/ Invalidate
    \/ FetchRead \/ FetchArrives \/ FetchFails

Spec == Init /\ [][Next]_vars

(* The loop behind the handler has its ceilings (AskLoop), so a handler    *)
(* comes to its end; frames arrive, and the connection of a dead handler   *)
(* is noticed.  What users do, and what breaks, need not happen.           *)
Fairness ==
    \A q \in Questions :
       /\ WF_vars(ServerStep(q))
       /\ WF_vars(TaskStep(q))
       /\ WF_vars(server[q].pc = "dead" /\ ConnectionBreaks(q))

FairSpec == Spec /\ Fairness
-----------------------------------------------------------------------------
(***************************************************************************)
(* Properties.                                                             *)
(***************************************************************************)
(* The reducer patches the last turn, whichever that is: as long as a      *)
(* frame may still come, the question of an open stream is the last of the *)
(* transcript, however stops, new questions, invalidations and fetches     *)
(* interleave.                                                             *)
MayHear(q) ==
    /\ task[q] = "reading"
    /\ server[q].pc = "ended" => wire[q] # <<>>
OpenTurnIsLast ==
    \A q \in Questions : MayHear(q) => turns # <<>> /\ turns[Len(turns)].q = q

(* The Stop button shows exactly while a stream is open, and stops it.     *)
RunningIsHonest ==
    /\ running <=> \E q \in Questions : task[q] = "reading"
    /\ running => mounted /\ task[abort] = "reading"

(* The hook's state and the transcript agree on which question is open.    *)
PanelIsConsistent == TypeOK /\ OpenTurnIsLast /\ RunningIsHonest

(* What is shown as answered has been stored, and in the stored order:     *)
(* what was stored before is shown before it.  An answer may be shown a    *)
(* second time, when a fetch finds it stored before its last frame came.   *)
Position(q) == CHOOSE i \in 1..Len(stored) : stored[i] = q
IsDone(i) == turns[i].status = "done"
ShownBefore(j) == \E i \in 1..(j - 1) : IsDone(i) /\ turns[i].q = turns[j].q
DoneIsStored ==
    \A j \in 1..Len(turns) : IsDone(j) =>
       /\ \E k \in 1..Len(stored) : stored[k] = turns[j].q
       /\ \A i \in 1..(j - 1) : IsDone(i) /\ ~ShownBefore(j) =>
             Position(turns[i].q) < Position(turns[j].q)

(* A question that was stopped, or failed, before its answer came stays so *)
(* on this page, although the server may well go on and answer it, and     *)
(* later fetches find the answer stored.                                   *)
FailedStays ==
    [][\A i \in 1..Len(turns) : turns[i].status = "error" /\ turns[i].id = "own" =>
          \/ turns' = <<>>
          \/ \E j \in 1..Len(turns') : turns'[j] = turns[i]]_vars

(* A question does not keep the panel busy for ever.                       *)
AskEnds == running ~> ~running
=============================================================================
