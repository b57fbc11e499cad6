---------------------------- MODULE NarrativePanel ----------------------------
(***************************************************************************)
(* The narrative report of one case: the writer (api/src/agent/report-     *)
(* writer.ts behind routes/narrative.ts), which streams a draft, may take  *)
(* it back and stream another, and stores what it ends with, and the panel *)
(* of the web client that starts, stops and shows it, next to re-ingests   *)
(* of the document.  A generation is one POST; the server never learns     *)
(* that a client has gone.                                                 *)
(*                                                                         *)
(* What the report cites, and what the model writes, are choices; the text *)
(* is what Grounding keeps of one.  The panel's read of the latest stored  *)
(* narrative is left out.                                                  *)
(***************************************************************************)
EXTENDS Grounding, Sequences, FiniteSets

CONSTANTS
    Generations,    \* the requests that are sent, each of them once
    None,
    Drafts,         \* texts the model may write
    MaxCorrections, \* MAX_CORRECTIONS
    MaxPieces,      \* bound: tokens of one draft
    MaxRow,         \* bound: ingest commits of the document
    MaxMounts       \* bound: how often the panel is shown

ASSUME NarrativeAssumption ==
    /\ None \notin Generations /\ IsFiniteSet(Generations)
    /\ Drafts \subseteq (SUBSET Sentence) \ {{}}   \* no text at all is GenerationFails
    /\ MaxCorrections \in Nat /\ MaxPieces \in Nat \ {0} /\ MaxRow \in Nat \ {0}
    /\ MaxMounts \in Nat

VARIABLES
    row,        \* the ingest commit the clause rows come from
    cited,      \* the clauses fields and flags cite
    server,     \* the handler of each generation
    wire,       \* the frames on their way to the panel
    stored,     \* the stored narratives, oldest first
    mounted, mounts,
    abort,      \* abortRef: the generation whose stream it may abort
    running,
    task,       \* the async task of each generation
    view        \* the state of narrativeReducer

docVars == <<row, cited>>
serverVars == <<server, wire, stored>>
panelVars == <<mounted, mounts, abort, running>>
vars == <<docVars, serverVars, panelVars, task, view>>

(* A piece of text on screen: of a draft that streams, or a stored text.   *)
Piece == [of: Generations, attempt: 0..(MaxCorrections + 1)]
Final(g) == [of |-> g, attempt |-> 0]

NewHandler == [pc |-> "none", wanted |-> {}, citable |-> NothingCitable,
               attempt |-> 0, pieces |-> 0, text |-> {}, ok |-> FALSE,
               last |-> "none", restarted |-> FALSE]
initialView == [status |-> "idle", text |-> <<>>, corrected |-> FALSE, result |-> None]
Arrivals == {"token", "retry", "restart", "done", "error", "refused"}

TypeOK ==
    /\ row \in 1..MaxRow /\ cited \subseteq Refs
    /\ \A g \in Generations :
          /\ server[g].pc \in {"none", "asked", "load", "generate", "judge", "restart",
                               "save", "ended", "dead"}
          /\ server[g].attempt \in 0..(MaxCorrections + 1)
          /\ server[g].pieces \in 0..MaxPieces
          /\ server[g].citable \in [Refs -> 0..MaxRow]
          /\ \A i \in 1..Len(wire[g]) : wire[g][i].type \in Arrivals
          /\ task[g] \in {"none", "reading", "aborted", "over"}
    /\ \A i \in 1..Len(stored) : stored[i].of \in Generations
    /\ mounted \in BOOLEAN /\ running \in BOOLEAN
    /\ abort \in Generations \cup {None}
    /\ view.status \in {"idle", "streaming", "correcting", "done", "error"}
    /\ \A i \in 1..Len(view.text) : view.text[i] \in Piece
    /\ view.result \in Generations \cup {None}

Init ==
    /\ row = 1 /\ cited \in SUBSET Refs
    /\ server = [g \in Generations |-> NewHandler]
    /\ wire = [g \in Generations |-> <<>>]
    /\ stored = <<>>
    /\ mounted = FALSE /\ mounts = 0 /\ abort = None /\ running = FALSE
    /\ task = [g \in Generations |-> "none"]
    /\ view = initialView
-----------------------------------------------------------------------------
(***************************************************************************)
(* The document.  A re-ingest replaces the clauses, and takes what cites   *)
(* them with it: the fields and flags, and the citations of the narratives.*)
(***************************************************************************)
ReIngest ==
    /\ row < MaxRow
    /\ row' = row + 1
    /\ cited' = {}
    /\ stored' = [i \in 1..Len(stored) |-> [stored[i] EXCEPT !.citations = {}]]
    /\ UNCHANGED <<server, wire, panelVars, task, view>>

ReAnalyze ==
    /\ cited' \in SUBSET Refs \ {{}}
    /\ cited = {}
    /\ UNCHANGED <<row, serverVars, panelVars, task, view>>
-----------------------------------------------------------------------------
(***************************************************************************)
(* The writer.                                                             *)
(***************************************************************************)
Frame(type, attempt) == [type |-> type, attempt |-> attempt]

(* streamSSE writes on, whether anyone reads or not.                       *)
Push(g, frames) ==
    wire' = IF task[g] = "reading" THEN [wire EXCEPT ![g] = @ \o frames] ELSE wire

Step(g, h) == server' = [server EXCEPT ![g] = h]
ServerOnly == UNCHANGED <<docVars, panelVars, task, view>>

(* What is left of a handler that has returned, or died.                   *)
Over(g, pc, frame) ==
    [NewHandler EXCEPT !.pc = pc, !.last = frame, !.restarted = server[g].restarted]

(* 429: ten an hour.                                                       *)
Refuse(g) ==
    /\ server[g].pc = "asked"
    /\ Step(g, Over(g, "ended", "none"))
    /\ Push(g, <<Frame("refused", 0)>>)
    /\ ServerOnly /\ UNCHANGED stored

(* The clauses that the structured report cites, by row.                   *)
ReadReport(g) ==
    /\ server[g].pc = "asked"
    /\ Step(g, [server[g] EXCEPT !.pc = "load", !.wanted = cited \X {row}])
    /\ ServerOnly /\ UNCHANGED <<wire, stored>>

(* Those of them that are still there.  Without any there is nothing to    *)
(* ask a model: the stub takes the place of its answer.                    *)
LoadClauses(g) ==
    /\ server[g].pc = "load"
    /\ LET found == [r \in Refs |-> IF <<r, row>> \in server[g].wanted THEN row ELSE 0]
       IN  Step(g, [server[g] EXCEPT
                      !.wanted = {}, !.citable = found,
                      !.pc = IF found = NothingCitable THEN "save" ELSE "generate",
                      !.ok = found = NothingCitable,
                      !.attempt = IF found = NothingCitable THEN 0 ELSE 1])
    /\ ServerOnly /\ UNCHANGED <<wire, stored>>

Token(g) ==
    /\ server[g].pc = "generate" /\ server[g].pieces < MaxPieces
    /\ Step(g, [server[g] EXCEPT !.pieces = @ + 1, !.last = "token"])
    /\ Push(g, <<Frame("token", server[g].attempt)>>)
    /\ ServerOnly /\ UNCHANGED stored

(* The model ends with a text, all of which has been streamed.             *)
Answer(g, draft) ==
    /\ server[g].pc = "generate" /\ server[g].pieces > 0
    /\ Step(g, [server[g] EXCEPT !.pc = "judge", !.text = draft])
    /\ ServerOnly /\ UNCHANGED <<wire, stored>>

(* The last frame, whatever failed.                                        *)
EmitError(g) ==
    /\ Step(g, Over(g, "ended", "error"))
    /\ Push(g, <<Frame("error", 0)>>)
    /\ ServerOnly

(* It throws, says nothing, or stops at the ceiling of tokens.             *)
GenerationFails(g) ==
    /\ server[g].pc = "generate"
    /\ EmitError(g) /\ UNCHANGED stored

JudgeAgain(g) ==        \* until the model obeys
    /\ server[g].pc = "judge"
    /\ LET h == server[g]
           ok == Verdict(h.text, h.citable).ok
       IN  IF ok THEN Step(g, [h EXCEPT !.pc = "save", !.ok = ok]) /\ UNCHANGED wire
           ELSE /\ Step(g, [h EXCEPT !.pc = "restart", !.last = "retry"])
                /\ Push(g, <<Frame("retry", 0)>>)
    /\ ServerOnly /\ UNCHANGED stored

JudgeOnce(g) ==         \* what was corrected is not looked at again
    /\ server[g].pc = "judge"
    /\ LET h == server[g]
           ok == h.attempt > 1 \/ Verdict(h.text, h.citable).ok
       IN  IF ok \/ h.attempt > MaxCorrections
           THEN Step(g, [h EXCEPT !.pc = "save", !.ok = ok]) /\ UNCHANGED wire
           ELSE /\ Step(g, [h EXCEPT !.pc = "restart", !.last = "retry"])
                /\ Push(g, <<Frame("retry", 0)>>)
    /\ ServerOnly /\ UNCHANGED stored

(* validateGrounding, and the critique where it objects.                   *)
Judge(g) ==
    /\ server[g].pc = "judge"
    /\ LET h == server[g]
           ok == Verdict(h.text, h.citable).ok
       IN  IF ok \/ h.attempt > MaxCorrections
           THEN Step(g, [h EXCEPT !.pc = "save", !.ok = ok]) /\ UNCHANGED wire
           ELSE /\ Step(g, [h EXCEPT !.pc = "restart", !.last = "retry"])
                /\ Push(g, <<Frame("retry", 0)>>)
    /\ ServerOnly /\ UNCHANGED stored

RestartOnToken(g) ==    \* the first token of the new draft stands for it
    /\ server[g].pc = "restart"
    /\ Step(g, [server[g] EXCEPT !.pc = "generate", !.attempt = @ + 1, !.pieces = 1,
                                 !.text = {}, !.last = "token"])
    /\ Push(g, <<Frame("token", server[g].attempt + 1)>>)
    /\ ServerOnly /\ UNCHANGED stored

Restart(g) ==
    /\ server[g].pc = "restart"
    /\ Step(g, [server[g] EXCEPT !.pc = "generate", !.attempt = @ + 1, !.pieces = 0,
                                 !.text = {}, !.last = "restart", !.restarted = TRUE])
    /\ Push(g, <<Frame("restart", 0)>>)
    /\ ServerOnly /\ UNCHANGED stored

Narrative(g) ==
    LET h == server[g]
    IN  [of |-> g, text |-> h.text, grounded |-> h.ok, corrected |-> h.attempt > 1,
         stub |-> h.attempt = 0, citable |-> h.citable,
         citations |-> Verdict(h.text, h.citable).citations]

EmitDone(g) ==
    /\ Step(g, Over(g, "ended", "done"))
    /\ Push(g, <<Frame("done", 0)>>)
    /\ ServerOnly

SaveUnchecked(g) ==     \* whether or not its clauses are still there
    /\ server[g].pc = "save"
    /\ stored' = Append(stored, Narrative(g))
    /\ EmitDone(g)

(* One transaction; a citation of a clause that is gone fails it.  A crash *)
(* before the frame is a connection that breaks with the frame under way.  *)
Save(g) ==
    /\ server[g].pc = "save"
    /\ \A c \in Narrative(g).citations : c.row = row
    /\ stored' = Append(stored, Narrative(g))
    /\ EmitDone(g)

SaveFailsLate(g) ==     \* not in the transaction with the rest
    /\ server[g].pc = "save"
    /\ stored' = Append(stored, [Narrative(g) EXCEPT !.citations = {}])
    /\ EmitError(g)

SaveFails(g) ==
    /\ server[g].pc = "save"
    /\ EmitError(g) /\ UNCHANGED stored

ServerDies(g) ==
    /\ server[g].pc \notin {"none", "ended", "dead"}
    /\ Step(g, Over(g, "dead", server[g].last))
    /\ ServerOnly /\ UNCHANGED <<wire, stored>>
-----------------------------------------------------------------------------
(***************************************************************************)
(* The reducer.                                                            *)
(***************************************************************************)
AppendingReducer(v, g, f) ==    \* only ever appends
    CASE f.type = "token"   -> [v EXCEPT !.status = "streaming",
                                         !.text = Append(@, [of |-> g, attempt |-> f.attempt])]
      [] f.type = "retry"   -> [v EXCEPT !.status = "correcting"]
      [] f.type = "restart" -> [v EXCEPT !.status = "streaming", !.corrected = TRUE]
      [] f.type = "done"    -> [v EXCEPT !.status = "done", !.text = <<Final(g)>>,
                                         !.result = g]
      [] f.type = "error"   -> [v EXCEPT !.status = "error", !.text = <<>>]

TrustingReducer(v, g, f) ==     \* takes what accumulated for the result
    CASE f.type = "token"   -> [v EXCEPT !.status = "streaming",
                                         !.text = Append(@, [of |-> g, attempt |-> f.attempt])]
      [] f.type = "retry"   -> [v EXCEPT !.status = "correcting"]
      [] f.type = "restart" -> [v EXCEPT !.status = "streaming", !.text = <<>>,
                                         !.corrected = TRUE]
      [] f.type = "done"    -> [v EXCEPT !.status = "done", !.result = g]
      [] f.type = "error"   -> [v EXCEPT !.status = "error", !.text = <<>>]

narrativeReducer(v, g, f) ==
    CASE f.type = "token"   -> [v EXCEPT !.status = "streaming",
                                         !.text = Append(@, [of |-> g, attempt |-> f.attempt])]
      [] f.type = "retry"   -> [v EXCEPT !.status = "correcting"]
      [] f.type = "restart" -> [v EXCEPT !.status = "streaming", !.text = <<>>,
                                         !.corrected = TRUE]
      [] f.type = "done"    -> [v EXCEPT !.status = "done", !.text = <<Final(g)>>,
                                         !.result = g]
      [] f.type = "error"   -> [v EXCEPT !.status = "error", !.text = <<>>]
-----------------------------------------------------------------------------
(***************************************************************************)
(* The panel: useNarrativeStream.                                          *)
(***************************************************************************)
Mount ==
    /\ ~mounted /\ mounts < MaxMounts
    /\ mounted' = TRUE /\ mounts' = mounts + 1
    /\ UNCHANGED <<docVars, serverVars, abort, running, task, view>>

Unmount ==
    /\ mounted
    /\ mounted' = FALSE
    /\ abort' = None /\ running' = FALSE /\ view' = initialView
    /\ task' = [g \in Generations |-> IF g = abort THEN "aborted" ELSE task[g]]
    /\ wire' = [g \in Generations |-> IF g = abort THEN <<>> ELSE wire[g]]
    /\ UNCHANGED <<docVars, server, stored, mounts>>

Start(g) ==
    /\ mounted /\ abort = None /\ task[g] = "none"
    /\ abort' = g /\ running' = TRUE
    /\ task' = [task EXCEPT ![g] = "reading"]
    /\ server' = [server EXCEPT ![g].pc = "asked"]
    /\ UNCHANGED <<docVars, wire, stored, mounted, mounts, view>>

Stop ==
    /\ mounted /\ abort # None
    /\ task' = [task EXCEPT ![abort] = "aborted"]
    /\ wire' = [wire EXCEPT ![abort] = <<>>]
    /\ abort' = None /\ running' = FALSE
    /\ UNCHANGED <<docVars, server, stored, mounted, mounts, view>>

FinallyAnyone(g) ==     \* whoever's stream it is that ended
    abort' = None /\ running' = FALSE

FinallyStopped(g) ==    \* leaves it to Stop
    UNCHANGED <<abort, running>>

Finally(g) ==
    /\ abort' = IF abort = g THEN None ELSE abort
    /\ running' = IF abort = g THEN FALSE ELSE running

Receive(g) ==
    /\ task[g] = "reading" /\ wire[g] # <<>> /\ Head(wire[g]).type # "refused"
    /\ view' = narrativeReducer(view, g, Head(wire[g]))
    /\ wire' = [wire EXCEPT ![g] = Tail(@)]
    /\ UNCHANGED <<docVars, server, stored, panelVars, task>>

StreamEnds(g) ==
    /\ task[g] = "reading" /\ server[g].pc = "ended" /\ wire[g] = <<>>
    /\ task' = [task EXCEPT ![g] = "over"]
    /\ Finally(g)
    /\ UNCHANGED <<docVars, serverVars, mounted, mounts, view>>

(* A refusal only starts the countdown; a broken connection is an error.   *)
Throw(g) ==
    /\ task' = [task EXCEPT ![g] = "over"]
    /\ wire' = [wire EXCEPT ![g] = <<>>]
    /\ Finally(g)
    /\ UNCHANGED <<docVars, server, stored, mounted, mounts>>

ReceiveRefusal(g) ==
    /\ task[g] = "reading" /\ wire[g] # <<>> /\ Head(wire[g]).type = "refused"
    /\ Throw(g) /\ UNCHANGED view

ConnectionBreaks(g) ==
    /\ task[g] = "reading"
    /\ Throw(g) /\ view' = narrativeReducer(view, g, Frame("error", 0))

(* Aborted between two reads the stream just ends, in a read it throws.    *)
TaskUnwinds(g) ==
    /\ task[g] = "aborted"
    /\ task' = [task EXCEPT ![g] = "over"]
    /\ Finally(g)
    /\ UNCHANGED <<docVars, serverVars, mounted, mounts, view>>
-----------------------------------------------------------------------------
ServerStep(g) ==
    \/ ReadReport(g) \/ LoadClauses(g) \/ Token(g)
    \/ \E draft \in Drafts : Answer(g, draft)
    \/ Judge(g) \/ Restart(g) \/ Save(g)
ServerFault(g) == Refuse(g) \/ GenerationFails(g) \/ SaveFails(g) \/ ServerDies(g)
TaskStep(g) ==
    Receive(g) \/ ReceiveRefusal(g) \/ StreamEnds(g) \/ TaskUnwinds(g)

Next ==
    \/ ReIngest \/ ReAnalyze
    \/ \E g \in Generations :
          ServerStep(g) \/ ServerFault(g) \/ TaskStep(g) \/ Start(g) \/ ConnectionBreaks(g)
    \/ Mount \/ Unmount \/ Stop

Spec == Init /\ [][Next]_vars

(* A model comes to its end, the transaction succeeds or fails, frames     *)
(* arrive and a dead connection is noticed; nothing is assumed of users.   *)
Fairness ==
    \A g \in Generations :
       /\ WF_vars(ServerStep(g) \/ SaveFails(g))
       /\ WF_vars(TaskStep(g))
       /\ WF_vars(server[g].pc = "dead" /\ ConnectionBreaks(g))

FairSpec == Spec /\ Fairness
-----------------------------------------------------------------------------
(***************************************************************************)
(* Properties.                                                             *)
(***************************************************************************)
IsStored(g) == \E i \in 1..Len(stored) : stored[i].of = g

(* routes/narrative.ts against its client: every generation's frames come  *)
(* in an order that the reducer can make sense of.                         *)
Frames == INSTANCE NarrativeFrames
             WITH last <- [g \in Generations |-> server[g].last],
                  restarted <- [g \in Generations |-> server[g].restarted]
ImplementsFrames == Frames!Spec

(* What says that every claim is tied to a clause does: the verdict stored *)
(* is that of the stored text, of what was put in front of the model.  A   *)
(* narrative that says nothing, or was cut off, is not stored.             *)
StoredIsValidated ==
    \A i \in 1..Len(stored) :
       LET n == stored[i] IN
       /\ n.grounded = Honours(n.text, n.citable)
       /\ ~n.grounded => n.corrected
       /\ n.text = {} => n.stub /\ n.citable = NothingCitable

(* Clauses are replaced while a model writes about them, or afterwards: a  *)
(* stored narrative never points at a row that is gone.                    *)
NarrativeCitesResolve ==
    \A i \in 1..Len(stored) : \A c \in stored[i].citations : c.row = row

(* narrative-reducer.ts: "the only way to be sure the text on screen is    *)
(* the text whose citations were validated".  Once it says done the panel  *)
(* shows the stored text of its result, whatever was stopped, refused or   *)
(* broke before.                                                           *)
DoneShowsStored ==
    view.status = "done" =>
       view.result # None /\ view.text = <<Final(view.result)>> /\ IsStored(view.result)

(* The rejected draft and the corrected one are never on screen together.  *)
NeverTwoDrafts ==
    \A i, j \in 1..Len(view.text) :
       view.text[i].of = view.text[j].of => view.text[i].attempt = view.text[j].attempt

(* The button offers to stop exactly what streams: the late end of a       *)
(* stopped generation does not end the next one.                           *)
NarrativeRunningIsHonest ==
    /\ running <=> \E g \in Generations : task[g] = "reading"
    /\ running => mounted /\ task[abort] = "reading"

(* A narrative that the reader was told has failed is not stored, unless   *)
(* what failed was the connection or the server.                           *)
ErrorStoresNothing ==
    \A g \in Generations : server[g].last = "error" => ~IsStored(g)

(* A generation does not keep the panel busy for ever.                     *)
NarrativeEnds == running ~> ~running

(* What the server keeps: validated, citing clauses that exist, and never  *)
(* what the reader was told has failed.                                    *)
NarrativeIsStored == StoredIsValidated /\ NarrativeCitesResolve /\ ErrorStoresNothing

(* What the panel shows, for all that was stopped or broke in between: the *)
(* stored text at the end, one draft at a time, and its button is true.    *)
NarrativeIsShown ==
    /\ TypeOK
    /\ DoneShowsStored
    /\ NeverTwoDrafts
    /\ NarrativeRunningIsHonest
=============================================================================
