-------------------------- MODULE NarrativePanelProofs --------------------------
(***************************************************************************)
(* The safety properties of NarrativePanel for every value of its          *)
(* constants: what is stored, what is on screen, and the order of frames.  *)
(***************************************************************************)
EXTENDS NarrativePanel, SequenceTheorems, TLAPS

(***************************************************************************)
(* Types.                                                                  *)
(***************************************************************************)
Phases == {"none", "asked", "load", "generate", "judge", "restart", "save", "ended", "dead"}
Lasts == {"none", "token", "retry", "restart", "done", "error"}
Attempts == 0..(MaxCorrections + 1)
Handler ==
    [pc: Phases, wanted: SUBSET (Refs \X (1..MaxRow)), citable: [Refs -> 0..MaxRow],
     attempt: Attempts, pieces: 0..MaxPieces, text: SUBSET Sentence, ok: BOOLEAN,
     last: Lasts, restarted: BOOLEAN]
WireFrame == [type: Arrivals, attempt: Attempts]
Citation == [ref: Refs, row: 0..MaxRow]
Stored ==
    [of: Generations, text: SUBSET Sentence, grounded: BOOLEAN, corrected: BOOLEAN,
     stub: BOOLEAN, citable: [Refs -> 0..MaxRow], citations: SUBSET Citation]
View == [status: {"idle", "streaming", "correcting", "done", "error"}, text: Seq(Piece),
         corrected: BOOLEAN, result: Generations \cup {None}]
Tasks == {"none", "reading", "aborted", "over"}

(* What an attempt is counted as is what keeps it within its bound.        *)
Counted(h) ==
    /\ h.pc \in {"generate", "judge", "restart"} => h.attempt > 0
    /\ h.pc = "restart" => h.attempt <= MaxCorrections

DocumentOK == row \in 1..MaxRow /\ cited \subseteq Refs
ServerOK == server \in [Generations -> Handler] /\ \A g \in Generations : Counted(server[g])
WireOK == wire \in [Generations -> Seq(WireFrame)]
StoredOK == stored \in Seq(Stored)
PanelOK ==
    /\ mounted \in BOOLEAN /\ running \in BOOLEAN
    /\ abort \in Generations \cup {None}
    /\ task \in [Generations -> Tasks]
ViewOK == view \in View
TypeInv == DocumentOK /\ ServerOK /\ WireOK /\ StoredOK /\ PanelOK /\ ViewOK

LEMMA Bounds ==
    /\ MaxCorrections \in Nat /\ MaxPieces \in Nat /\ MaxRow \in Nat \ {0} /\ MaxMounts \in Nat
    /\ 0 \in Attempts /\ None \notin Generations
    /\ Drafts \subseteq SUBSET Sentence /\ {} \notin Drafts
BY NarrativeAssumption DEF NarrativeAssumption, Attempts

LEMMA TypeImplies == TypeInv => TypeOK
<1> SUFFICES ASSUME TypeInv PROVE TypeOK
    OBVIOUS
<1>1. ASSUME NEW g \in Generations
      PROVE  /\ server[g].pc \in Phases
             /\ server[g].attempt \in 0..(MaxCorrections + 1)
             /\ server[g].pieces \in 0..MaxPieces
             /\ server[g].citable \in [Refs -> 0..MaxRow]
             /\ \A i \in 1..Len(wire[g]) : wire[g][i].type \in Arrivals
             /\ task[g] \in Tasks
  <2>1. server[g] \in Handler /\ wire[g] \in Seq(WireFrame)
    BY DEF TypeInv, ServerOK, WireOK
  <2>2. \A i \in 1..Len(wire[g]) : wire[g][i] \in WireFrame
    BY <2>1, ElementOfSeq
  <2> QED
    BY <2>1, <2>2 DEF Handler, WireFrame, Attempts, TypeInv, PanelOK
<1>2. \A i \in 1..Len(stored) : stored[i].of \in Generations
  <2>1. \A i \in 1..Len(stored) : stored[i] \in Stored
    BY ElementOfSeq DEF TypeInv, StoredOK
  <2> QED
    BY <2>1 DEF Stored
<1>3. /\ view.status \in {"idle", "streaming", "correcting", "done", "error"}
      /\ \A i \in 1..Len(view.text) : view.text[i] \in Piece
      /\ view.result \in Generations \cup {None}
  <2>1. view \in View /\ view.text \in Seq(Piece)
    BY DEF TypeInv, ViewOK, View
  <2>2. \A i \in 1..Len(view.text) : view.text[i] \in Piece
    BY <2>1, ElementOfSeq
  <2> QED
    BY <2>1, <2>2 DEF View
<1> QED
    BY <1>1, <1>2, <1>3 DEF TypeOK, TypeInv, DocumentOK, PanelOK, Phases, Tasks

LEMMA TypeInit == Init => TypeInv
<1> SUFFICES ASSUME Init PROVE TypeInv
    OBVIOUS
<1> USE Bounds
<1>1. DocumentOK
    BY DEF Init, DocumentOK
<1>2. NewHandler \in Handler /\ Counted(NewHandler)
    BY DEF NewHandler, Handler, Counted, NothingCitable, Phases, Lasts
<1>3. ServerOK
    BY <1>2 DEF Init, ServerOK
<1>4. WireOK /\ StoredOK
    BY EmptySeq DEF Init, WireOK, StoredOK
<1>5. PanelOK
    BY DEF Init, PanelOK, Tasks
<1>6. ViewOK
    BY EmptySeq DEF Init, ViewOK, View, initialView
<1> QED
    BY <1>1, <1>3, <1>4, <1>5, <1>6 DEF TypeInv
-----------------------------------------------------------------------------
(***************************************************************************)
(* Types: every action keeps them.  An action of the writer puts one       *)
(* handler in the place of another, and one frame at most on the wire.     *)
(***************************************************************************)
LEMMA PushOK ==
    ASSUME WireOK, NEW g \in Generations, NEW f \in WireFrame, Push(g, <<f>>)
    PROVE  WireOK'
<1>1. wire[g] \o <<f>> \in Seq(WireFrame)
    BY ConcatProperties, wire[g] \in Seq(WireFrame), <<f>> \in Seq(WireFrame) DEF WireOK
<1> QED
    BY <1>1 DEF Push, WireOK

LEMMA StepOK ==
    ASSUME ServerOK, NEW g \in Generations, NEW h \in Handler, Counted(h), Step(g, h)
    PROVE  ServerOK'
<1>1. server' = [server EXCEPT ![g] = h] /\ server' \in [Generations -> Handler]
    BY DEF Step, ServerOK
<1>2. \A k \in Generations : Counted(server'[k])
    BY <1>1 DEF ServerOK
<1> QED
    BY <1>1, <1>2 DEF ServerOK, Counted

LEMMA NewHandlerType ==
    /\ NewHandler \in Handler
    /\ NewHandler.text = {} /\ NewHandler.attempt = 0 /\ NewHandler.citable = NothingCitable
BY Bounds DEF NewHandler, Handler, NothingCitable, Phases, Lasts

(* Of a handler that is over nothing is left but what it has sent.         *)
LEMMA OverType ==
    ASSUME ServerOK, NEW g \in Generations, NEW pc \in {"ended", "dead"}, NEW f \in Lasts
    PROVE  LET h == Over(g, pc, f) IN
           /\ h \in Handler /\ Counted(h)
           /\ h.pc = pc /\ h.last = f /\ h.restarted = server[g].restarted
           /\ h.text = {} /\ h.attempt = 0 /\ h.citable = NothingCitable
<1>1. server[g].restarted \in BOOLEAN
    BY DEF ServerOK, Handler
<1>2. pc \in Phases
    BY DEF Phases
<1>3. Over(g, pc, f) \in Handler
    BY <1>1, <1>2, NewHandlerType DEF Over, Handler
<1>4. LET h == Over(g, pc, f) IN
      /\ h.pc = pc /\ h.last = f /\ h.restarted = server[g].restarted
      /\ h.text = {} /\ h.attempt = 0 /\ h.citable = NothingCitable
    BY NewHandlerType DEF Over, Handler
<1> QED
    BY <1>3, <1>4 DEF Counted

LEMMA NarrativeType ==
    ASSUME ServerOK, NEW g \in Generations
    PROVE  Narrative(g) \in Stored
<1>1. server[g] \in Handler
    BY DEF ServerOK
<1> DEFINE h == server[g]
           cs == {[ref |-> r, row |-> h.citable[r]] : r \in Named(h.text) \cap Known(h.citable)}
<1>2. cs \in SUBSET Citation
    BY <1>1 DEF Citation, Handler, Known
<1>3. Verdict(h.text, h.citable).citations = cs
    BY DEF Verdict
<1> QED
    BY <1>1, <1>2, <1>3 DEF Narrative, Stored, Handler, Attempts

LEMMA TypeServer ==
    ASSUME TypeInv, NEW g \in Generations, ServerStep(g) \/ ServerFault(g)
    PROVE  ServerOK' /\ WireOK' /\ StoredOK'
<1> DEFINE h == server[g]
<1>1. h \in Handler /\ Counted(h) /\ ServerOK /\ WireOK /\ StoredOK
    BY DEF TypeInv, ServerOK
<1>2. \A f \in Arrivals, a \in Attempts : Frame(f, a) \in WireFrame
    BY DEF Frame, WireFrame
<1>3. 0 \in Attempts /\ h.attempt \in Attempts
    BY <1>1, Bounds DEF Handler
<1>4. CASE Refuse(g)
  <2>1. Frame("refused", 0) \in WireFrame
    BY <1>2, <1>3 DEF Arrivals
  <2>2. ServerOK'
    BY <1>1, <1>4, OverType, StepOK DEF Refuse, Lasts
  <2> QED
    BY <1>1, <1>4, <2>1, <2>2, PushOK DEF Refuse, StoredOK
<1>5. CASE ReadReport(g)
  <2> DEFINE k == [h EXCEPT !.pc = "load", !.wanted = cited \X {row}]
  <2>1. cited \X {row} \subseteq Refs \X (1..MaxRow)
    BY DEF TypeInv, DocumentOK
  <2>2. k \in Handler /\ Counted(k)
    BY <1>1, <2>1 DEF Handler, Phases, Counted
  <2>3. ServerOK'
    BY <1>1, <1>5, <2>2, StepOK DEF ReadReport
  <2> QED
    BY <1>1, <1>5, <2>3 DEF ReadReport, WireOK, StoredOK
<1>6. CASE LoadClauses(g)
  <2> DEFINE found == [r \in Refs |-> IF <<r, row>> \in h.wanted THEN row ELSE 0]
             none == found = NothingCitable
             pc == IF none THEN "save" ELSE "generate"
             a == IF none THEN 0 ELSE 1
             k == [h EXCEPT !.wanted = {}, !.citable = found, !.pc = pc, !.ok = none,
                            !.attempt = a]
  <2>1. found \in [Refs -> 0..MaxRow] /\ none \in BOOLEAN
    BY Bounds DEF TypeInv, DocumentOK
  <2> HIDE DEF found, none
  <2>2. a \in Attempts /\ pc \in {"save", "generate"} /\ (pc = "generate" => a > 0)
    BY Bounds DEF Attempts
  <2>3. Step(g, k)
    BY <1>6 DEF LoadClauses, found, none
  <2> HIDE DEF pc, a
  <2>4. k \in Handler /\ Counted(k)
    BY <1>1, <2>1, <2>2 DEF Handler, Phases, Counted
  <2>5. ServerOK'
    BY <1>1, <2>3, <2>4, StepOK
  <2> QED
    BY <1>1, <1>6, <2>5 DEF LoadClauses, WireOK, StoredOK
<1>7. CASE Token(g)
  <2> DEFINE k == [h EXCEPT !.pieces = @ + 1, !.last = "token"]
  <2>1. h.pieces + 1 \in 0..MaxPieces
    BY <1>1, <1>7, Bounds DEF Token, Handler
  <2>2. k \in Handler /\ Counted(k)
    BY <1>1, <2>1 DEF Handler, Lasts, Counted
  <2>3. ServerOK'
    BY <1>1, <1>7, <2>2, StepOK DEF Token
  <2>4. Frame("token", h.attempt) \in WireFrame
    BY <1>2, <1>3 DEF Arrivals
  <2> QED
    BY <1>1, <1>7, <2>3, <2>4, PushOK DEF Token, StoredOK
<1>8. ASSUME NEW draft \in Drafts, Answer(g, draft)
      PROVE  ServerOK' /\ WireOK' /\ StoredOK'
  <2> DEFINE k == [h EXCEPT !.pc = "judge", !.text = draft]
  <2>1. draft \in SUBSET Sentence
    BY Bounds
  <2>2. k \in Handler /\ Counted(k)
    BY <1>1, <1>8, <2>1 DEF Answer, Handler, Phases, Counted
  <2>3. ServerOK'
    BY <1>1, <1>8, <2>2, StepOK DEF Answer
  <2> QED
    BY <1>1, <1>8, <2>3 DEF Answer, WireOK, StoredOK
<1>9. CASE Judge(g)
  <2> DEFINE ok == Verdict(h.text, h.citable).ok
             passes == ok \/ h.attempt > MaxCorrections
             saving == [h EXCEPT !.pc = "save", !.ok = ok]
             again == [h EXCEPT !.pc = "restart", !.last = "retry"]
  <2>1. ok \in BOOLEAN
    BY DEF Verdict
  <2> HIDE DEF ok
  <2>2. CASE passes
    <3>1. Step(g, saving) /\ UNCHANGED wire
      BY <1>9, <2>2 DEF Judge, ok
    <3>2. saving \in Handler /\ Counted(saving)
      BY <1>1, <2>1 DEF Handler, Phases, Counted
    <3>3. ServerOK'
      BY <1>1, <3>1, <3>2, StepOK
    <3> QED
      BY <1>1, <1>9, <3>1, <3>3 DEF Judge, WireOK, StoredOK
  <2>3. CASE ~passes
    <3>1. Step(g, again) /\ Push(g, <<Frame("retry", 0)>>)
      BY <1>9, <2>3 DEF Judge, ok
    <3>2. h.attempt > 0 /\ h.attempt <= MaxCorrections
      BY <1>1, <1>3, <1>9, <2>3, Bounds DEF Judge, Counted, Attempts
    <3>3. again \in Handler /\ again.attempt = h.attempt /\ again.pc = "restart"
      BY <1>1 DEF Handler, Phases, Lasts
    <3>4. Counted(again)
      BY <3>2, <3>3 DEF Counted
    <3>5. Frame("retry", 0) \in WireFrame
      BY <1>2, <1>3 DEF Arrivals
    <3>6. ServerOK'
      BY <1>1, <3>1, <3>3, <3>4, StepOK
    <3> QED
      BY <1>1, <1>9, <3>1, <3>5, <3>6, PushOK DEF Judge, StoredOK
  <2> QED
    BY <2>2, <2>3
<1>10. CASE Restart(g)
  <2> DEFINE k == [h EXCEPT !.pc = "generate", !.attempt = @ + 1, !.pieces = 0,
                            !.text = {}, !.last = "restart", !.restarted = TRUE]
  <2>1. h.attempt + 1 \in Attempts /\ h.attempt + 1 > 0 /\ 0 \in 0..MaxPieces
    BY <1>1, <1>3, <1>10, Bounds DEF Restart, Counted, Attempts
  <2>2. k \in Handler /\ Counted(k)
    BY <1>1, <2>1 DEF Handler, Phases, Lasts, Counted
  <2>3. ServerOK'
    BY <1>1, <1>10, <2>2, StepOK DEF Restart
  <2>4. Frame("restart", 0) \in WireFrame
    BY <1>2, <1>3 DEF Arrivals
  <2> QED
    BY <1>1, <1>10, <2>3, <2>4, PushOK DEF Restart, StoredOK
<1>11. CASE Save(g)
  <2>1. ServerOK'
    BY <1>1, <1>11, OverType, StepOK DEF Save, EmitDone, Lasts
  <2>2. Frame("done", 0) \in WireFrame
    BY <1>2, <1>3 DEF Arrivals
  <2>3. WireOK'
    BY <1>1, <1>11, <2>2, PushOK DEF Save, EmitDone
  <2>4. StoredOK'
    BY <1>1, <1>11, NarrativeType, AppendProperties DEF Save, StoredOK
  <2> QED
    BY <2>1, <2>3, <2>4
<1>12. ASSUME EmitError(g), UNCHANGED stored
       PROVE  ServerOK' /\ WireOK' /\ StoredOK'
  <2>1. ServerOK'
    BY <1>1, <1>12, OverType, StepOK DEF EmitError, Lasts
  <2>2. Frame("error", 0) \in WireFrame
    BY <1>2, <1>3 DEF Arrivals
  <2> QED
    BY <1>1, <1>12, <2>1, <2>2, PushOK DEF EmitError, StoredOK
<1>13. CASE ServerDies(g)
  <2>1. h.last \in Lasts
    BY <1>1 DEF Handler
  <2>2. ServerOK'
    BY <1>1, <1>13, <2>1, OverType, StepOK DEF ServerDies
  <2> QED
    BY <1>1, <1>13, <2>2 DEF ServerDies, WireOK, StoredOK
<1> QED
    BY <1>4, <1>5, <1>6, <1>7, <1>8, <1>9, <1>10, <1>11, <1>12, <1>13
       DEF ServerStep, ServerFault, GenerationFails, SaveFails

LEMMA TypeReducer ==
    ASSUME ViewOK, NEW g \in Generations, NEW f \in WireFrame, f.type # "refused",
           view' = narrativeReducer(view, g, f)
    PROVE  ViewOK'
<1> DEFINE piece == [of |-> g, attempt |-> f.attempt]
<1>1. f.type \in {"token", "retry", "restart", "done", "error"} /\ view \in View
    BY DEF WireFrame, Arrivals, ViewOK
<1>2. piece \in Piece /\ Final(g) \in Piece
    BY Bounds DEF Piece, Final, WireFrame, Attempts
<1>3. /\ Append(view.text, piece) \in Seq(Piece)
      /\ <<>> \in Seq(Piece) /\ <<Final(g)>> \in Seq(Piece)
    BY <1>1, <1>2, AppendProperties DEF View
<1> HIDE DEF piece
<1>4. CASE f.type = "token"
  <2>1. view' = [view EXCEPT !.status = "streaming", !.text = Append(@, piece)]
    BY <1>4 DEF narrativeReducer, piece
  <2> QED
    BY <1>1, <1>3, <2>1 DEF ViewOK, View
<1>5. CASE f.type \in {"retry", "restart", "done", "error"}
    BY <1>1, <1>3, <1>5 DEF narrativeReducer, ViewOK, View
<1> QED
    BY <1>1, <1>4, <1>5

LEMMA TypeNext == TypeInv /\ [Next]_vars => TypeInv'
<1> SUFFICES ASSUME TypeInv, [Next]_vars
             PROVE  TypeInv'
    OBVIOUS
<1> USE DEF TypeInv
<1>1. CASE ReIngest
  <2>1. ASSUME NEW i \in 1..Len(stored)
        PROVE  [stored[i] EXCEPT !.citations = {}] \in Stored
    <3>1. stored[i] \in Stored
      BY ElementOfSeq DEF StoredOK
    <3> QED
      BY <3>1 DEF Stored
  <2>2. StoredOK'
    BY <1>1, <2>1, LenProperties DEF ReIngest, StoredOK
  <2>3. DocumentOK'
    BY <1>1, Bounds DEF ReIngest, DocumentOK
  <2> QED
    BY <1>1, <2>2, <2>3 DEF ReIngest, ServerOK, WireOK, PanelOK, ViewOK, panelVars
<1>2. CASE ReAnalyze
    BY <1>2 DEF ReAnalyze, DocumentOK, ServerOK, WireOK, StoredOK, PanelOK, ViewOK, serverVars,
                panelVars
<1>3. ASSUME NEW g \in Generations, ServerStep(g) \/ ServerFault(g)
      PROVE  TypeInv'
  <2>1. ServerOK' /\ WireOK' /\ StoredOK'
    BY <1>3, TypeServer
  <2>2. ServerOnly
    BY <1>3 DEF ServerStep, ServerFault, Refuse, ReadReport, LoadClauses, Token, Answer, Judge,
                Restart, Save, EmitDone, GenerationFails, SaveFails, EmitError, ServerDies
  <2> QED
    BY <2>1, <2>2 DEF ServerOnly, DocumentOK, PanelOK, ViewOK, docVars, panelVars
<1>4. ASSUME NEW g \in Generations, Receive(g)
      PROVE  TypeInv'
  <2>1. Head(wire[g]) \in WireFrame /\ Tail(wire[g]) \in Seq(WireFrame)
    BY <1>4, HeadTailProperties DEF Receive, WireOK
  <2>2. ViewOK'
    BY <1>4, <2>1, TypeReducer DEF Receive
  <2>3. WireOK'
    BY <1>4, <2>1 DEF Receive, WireOK
  <2> QED
    BY <1>4, <2>2, <2>3 DEF Receive, DocumentOK, ServerOK, StoredOK, PanelOK, docVars, panelVars
<1>5. ASSUME NEW g \in Generations,
             ReceiveRefusal(g) \/ StreamEnds(g) \/ TaskUnwinds(g) \/ ConnectionBreaks(g)
      PROVE  TypeInv'
  <2>1. Finally(g) /\ task' = [task EXCEPT ![g] = "over"]
    BY <1>5 DEF ReceiveRefusal, StreamEnds, TaskUnwinds, ConnectionBreaks, Throw
  <2>2. /\ wire' = [wire EXCEPT ![g] = <<>>] \/ UNCHANGED wire
        /\ UNCHANGED <<docVars, server, stored, mounted>>
    BY <1>5 DEF ReceiveRefusal, StreamEnds, TaskUnwinds, ConnectionBreaks, Throw, serverVars
  <2>3. WireOK'
    BY <2>2, EmptySeq DEF WireOK
  <2>4. PanelOK'
    BY <2>1, <2>2 DEF Finally, PanelOK, Tasks
  <2>5. ViewOK'
    <3>1. Frame("error", 0) \in WireFrame /\ Frame("error", 0).type # "refused"
      BY Bounds DEF Frame, WireFrame, Arrivals
    <3>2. CASE ConnectionBreaks(g)
      BY <3>1, <3>2, TypeReducer DEF ConnectionBreaks
    <3>3. CASE ~ConnectionBreaks(g)
      BY <1>5, <3>3 DEF ReceiveRefusal, StreamEnds, TaskUnwinds, ViewOK
    <3> QED
      BY <3>2, <3>3
  <2> QED
    BY <2>2, <2>3, <2>4, <2>5 DEF DocumentOK, ServerOK, StoredOK, docVars
<1>6. ASSUME NEW g \in Generations, Start(g)
      PROVE  TypeInv'
  <2>1. [server[g] EXCEPT !.pc = "asked"] \in Handler
    BY DEF ServerOK, Handler, Phases
  <2>2. Counted([server[g] EXCEPT !.pc = "asked"])
    BY DEF ServerOK, Handler, Counted
  <2>3. Step(g, [server[g] EXCEPT !.pc = "asked"])
    BY <1>6 DEF Start, Step
  <2>4. ServerOK'
    BY <2>1, <2>2, <2>3, StepOK
  <2>5. PanelOK'
    BY <1>6 DEF Start, PanelOK, Tasks
  <2> QED
    BY <1>6, <2>4, <2>5 DEF Start, DocumentOK, WireOK, StoredOK, ViewOK, docVars
<1>7. CASE Mount
    BY <1>7 DEF Mount, DocumentOK, ServerOK, WireOK, StoredOK, PanelOK, ViewOK, docVars,
                serverVars
<1>8. CASE Unmount \/ Stop
  <2>1. WireOK'
    BY <1>8, EmptySeq DEF Unmount, Stop, WireOK
  <2>2. PanelOK'
    BY <1>8 DEF Unmount, Stop, PanelOK, Tasks
  <2>3. ViewOK'
    <3>1. initialView \in View
      BY EmptySeq DEF View, initialView
    <3> QED
      BY <1>8, <3>1 DEF Unmount, Stop, ViewOK
  <2> QED
    BY <1>8, <2>1, <2>2, <2>3 DEF Unmount, Stop, DocumentOK, ServerOK, StoredOK, docVars
<1>9. CASE UNCHANGED vars
    BY <1>9 DEF vars, docVars, serverVars, panelVars, DocumentOK, ServerOK, WireOK, StoredOK,
                PanelOK, ViewOK
<1> QED
    BY <1>1, <1>2, <1>3, <1>4, <1>5, <1>6, <1>7, <1>8, <1>9 DEF Next, TaskStep

(* The types of every reachable state.                                     *)
THEOREM TypeAlways == Spec => []TypeInv
BY TypeInit, TypeNext, PTL DEF Spec
-----------------------------------------------------------------------------
(***************************************************************************)
(* What is stored.  A narrative is stored by the step that ends its        *)
(* generation, from what the handler carries when it comes to save: a text *)
(* with the verdict on it, which is a bad one only after a correction, or  *)
(* no text because there was no clause to write about.                     *)
(***************************************************************************)
Carried(h) ==
    /\ h.pc \in {"none", "asked", "load"} => h.text = {}
    /\ h.pc = "judge" => h.text # {}
    /\ h.pc = "save" => /\ h.ok <=> Honours(h.text, h.citable)
                        /\ ~h.ok => h.attempt > 1
                        /\ h.text = {} => h.attempt = 0 /\ h.citable = NothingCitable
    /\ h.last \in {"done", "error"} => h.pc = "ended"
CarriedOK == \A g \in Generations : Carried(server[g])
StoredByItsEnd ==
    \A g \in Generations : IsStored(g) => server[g].pc = "ended" /\ server[g].last = "done"
StoreInv == CarriedOK /\ StoredByItsEnd /\ StoredIsValidated /\ NarrativeCitesResolve

(* The verdict is "ok" for the texts that keep the contract, and no other. *)
LEMMA VerdictExact ==
    ASSUME NEW d \in SUBSET Sentence, NEW c
    PROVE  Verdict(d, c).ok <=> Honours(d, c)
<1>1. Verdict(d, c).ok <=>
         /\ {s \in d : s.asserts /\ ~s.aside /\ s.cites \cap Known(c) = {}} = {}
         /\ Named(d) \ Known(c) = {}
         /\ \A s \in d : ~s.malformed
    BY DEF Verdict
<1>2. Named(d) \ Known(c) = {} <=> \A s \in d : s.cites \subseteq Known(c)
    BY DEF Named
<1>3. ASSUME \A s \in d : s.cites \subseteq Known(c)
      PROVE  {s \in d : s.asserts /\ ~s.aside /\ s.cites \cap Known(c) = {}} = {}
               <=> \A s \in d : s.asserts => s.aside \/ s.cites # {}
    BY <1>3
<1> QED
    BY <1>1, <1>2, <1>3 DEF Honours

(* The handlers change one at a time.                                      *)
LEMMA CarriedStep ==
    ASSUME TypeInv, CarriedOK, NEW g \in Generations, NEW h, Carried(h), Step(g, h)
    PROVE  CarriedOK'
BY DEF Step, CarriedOK, Carried, TypeInv, ServerOK

LEMMA CarriedOver ==
    ASSUME TypeInv, NEW g \in Generations, NEW pc \in {"ended", "dead"}, NEW f \in Lasts,
           pc = "dead" => f \notin {"done", "error"}
    PROVE  Carried(Over(g, pc, f))
BY OverType DEF TypeInv, Carried

LEMMA CarriedServer ==
    ASSUME MaxCorrections > 0, TypeInv, CarriedOK, NEW g \in Generations,
           ServerStep(g) \/ ServerFault(g)
    PROVE  CarriedOK'
<1> DEFINE h == server[g]
<1>1. h \in Handler /\ Counted(h) /\ Carried(h)
    BY DEF TypeInv, ServerOK, CarriedOK
<1>2. CASE Refuse(g) \/ Save(g) \/ GenerationFails(g) \/ SaveFails(g)
  <2>1. PICK f \in Lasts : Step(g, Over(g, "ended", f))
    BY <1>2 DEF Refuse, Save, GenerationFails, SaveFails, EmitDone, EmitError, Lasts
  <2> QED
    BY <2>1, CarriedOver, CarriedStep
<1>3. CASE ServerDies(g)
  <2>1. h.last \in Lasts /\ h.last \notin {"done", "error"}
    BY <1>1, <1>3 DEF ServerDies, Handler, Carried
  <2> QED
    BY <1>3, <2>1, CarriedOver, CarriedStep DEF ServerDies
<1>4. CASE ReadReport(g)
  <2> DEFINE k == [h EXCEPT !.pc = "load", !.wanted = cited \X {row}]
  <2>1. Carried(k)
    BY <1>1, <1>4 DEF ReadReport, Carried, Handler
  <2> QED
    BY <1>4, <2>1, CarriedStep DEF ReadReport
<1>5. CASE LoadClauses(g)
  <2> DEFINE found == [r \in Refs |-> IF <<r, row>> \in h.wanted THEN row ELSE 0]
             none == found = NothingCitable
             pc == IF none THEN "save" ELSE "generate"
             a == IF none THEN 0 ELSE 1
             k == [h EXCEPT !.wanted = {}, !.citable = found, !.pc = pc, !.ok = none,
                            !.attempt = a]
  <2>1. Step(g, k)
    BY <1>5 DEF LoadClauses
  <2>2. h.text = {} /\ h.last \notin {"done", "error"}
    BY <1>1, <1>5 DEF LoadClauses, Carried
  <2>3. Honours({}, found)
    BY DEF Honours
  <2>4. /\ pc \in {"save", "generate"}
        /\ pc = "save" => none /\ a = 0 /\ found = NothingCitable
    OBVIOUS
  <2> HIDE DEF found, none, pc, a
  <2>5. /\ k.text = {} /\ k.last \notin {"done", "error"} /\ k.pc = pc /\ k.ok = none
        /\ k.attempt = a /\ k.citable = found
    BY <1>1, <2>2 DEF Handler
  <2> HIDE DEF k
  <2>6. Carried(k)
    BY <2>3, <2>4, <2>5 DEF Carried
  <2> QED
    BY <2>1, <2>6, CarriedStep
<1>6. CASE Token(g)
  <2> DEFINE k == [h EXCEPT !.pieces = @ + 1, !.last = "token"]
  <2>1. Carried(k)
    BY <1>1, <1>6 DEF Token, Carried, Handler
  <2> QED
    BY <1>6, <2>1, CarriedStep DEF Token
<1>7. ASSUME NEW draft \in Drafts, Answer(g, draft)
      PROVE  CarriedOK'
  <2> DEFINE k == [h EXCEPT !.pc = "judge", !.text = draft]
  <2>1. Carried(k)
    BY <1>1, <1>7, Bounds DEF Answer, Carried, Handler
  <2> QED
    BY <1>7, <2>1, CarriedStep DEF Answer
<1>8. CASE Judge(g)
  <2> DEFINE ok == Verdict(h.text, h.citable).ok
             passes == ok \/ h.attempt > MaxCorrections
             saving == [h EXCEPT !.pc = "save", !.ok = ok]
             again == [h EXCEPT !.pc = "restart", !.last = "retry"]
  <2>1. /\ ok \in BOOLEAN /\ ok <=> Honours(h.text, h.citable)
        /\ h.text # {} /\ h.last \notin {"done", "error"}
    BY <1>1, <1>8, VerdictExact DEF Verdict, Judge, Carried, Handler
  <2>2. IF passes THEN Step(g, saving) ELSE Step(g, again)
    BY <1>8 DEF Judge
  <2> HIDE DEF ok
  <2>3. CASE passes
    <3>1. ~ok => h.attempt > 1
      BY <1>1, <2>3, Bounds DEF Handler, Attempts
    <3>2. Carried(saving)
      BY <1>1, <2>1, <3>1 DEF Carried, Handler
    <3> QED
      BY <2>2, <2>3, <3>2, CarriedStep
  <2>4. CASE ~passes
    <3>1. Carried(again)
      BY <1>1 DEF Carried, Handler
    <3> QED
      BY <2>2, <2>4, <3>1, CarriedStep
  <2> QED
    BY <2>3, <2>4
<1>9. CASE Restart(g)
  <2> DEFINE k == [h EXCEPT !.pc = "generate", !.attempt = @ + 1, !.pieces = 0,
                            !.text = {}, !.last = "restart", !.restarted = TRUE]
  <2>1. Carried(k)
    BY <1>1 DEF Carried, Handler
  <2> QED
    BY <1>9, <2>1, CarriedStep DEF Restart
<1> QED
    BY <1>2, <1>3, <1>4, <1>5, <1>6, <1>7, <1>8, <1>9 DEF ServerStep, ServerFault

(* A generation that was not started has no handler yet.                   *)
FreshOK == \A g \in Generations : task[g] = "none" => server[g] = NewHandler

LEMMA FreshInit == Init => FreshOK
BY DEF Init, FreshOK

LEMMA FreshNext == TypeInv /\ FreshOK /\ [Next]_vars => FreshOK'
<1> SUFFICES ASSUME TypeInv, FreshOK, [Next]_vars
             PROVE  FreshOK'
    OBVIOUS
<1>1. ASSUME NEW g \in Generations, ServerStep(g) \/ ServerFault(g)
      PROVE  FreshOK'
  <2>1. server[g].pc # "none" /\ UNCHANGED task
    BY <1>1 DEF ServerStep, ServerFault, Refuse, ReadReport, LoadClauses, Token, Answer, Judge,
          Restart, Save, EmitDone, GenerationFails, SaveFails, EmitError, ServerDies, ServerOnly
  <2>2. \A k \in Generations \ {g} : server'[k] = server[k]
    BY <1>1 DEF ServerStep, ServerFault, Refuse, ReadReport, LoadClauses, Token, Answer, Judge,
          Restart, Save, EmitDone, GenerationFails, SaveFails, EmitError, ServerDies, Step,
          TypeInv, ServerOK
  <2>3. NewHandler.pc = "none"
    BY DEF NewHandler
  <2> QED
    BY <2>1, <2>2, <2>3 DEF FreshOK
<1>2. ASSUME NEW g \in Generations, Start(g)
      PROVE  FreshOK'
    BY <1>2 DEF Start, FreshOK, TypeInv, ServerOK, PanelOK
<1>3. CASE UNCHANGED server /\ \A g \in Generations : task'[g] = "none" => task[g] = "none"
    BY <1>3 DEF FreshOK
<1>4. CASE Unmount \/ Stop
    BY <1>3, <1>4 DEF Unmount, Stop, TypeInv, PanelOK
<1>5. ASSUME NEW g \in Generations, TaskStep(g) \/ ConnectionBreaks(g)
      PROVE  FreshOK'
    BY <1>3, <1>5 DEF TaskStep, Receive, ReceiveRefusal, StreamEnds, TaskUnwinds,
                      ConnectionBreaks, Throw, serverVars, TypeInv, PanelOK
<1>6. CASE ReIngest \/ ReAnalyze \/ Mount \/ UNCHANGED vars
    BY <1>3, <1>6 DEF ReIngest, ReAnalyze, Mount, vars, serverVars
<1> QED
    BY <1>1, <1>2, <1>4, <1>5, <1>6 DEF Next

LEMMA StoreInit == Init => StoreInv
<1> SUFFICES ASSUME Init PROVE StoreInv
    OBVIOUS
<1>1. Carried(NewHandler)
    BY DEF Carried, NewHandler
<1>2. CarriedOK
    BY <1>1 DEF Init, CarriedOK
<1>3. Len(stored) = 0
    BY DEF Init
<1> QED
    BY <1>2, <1>3 DEF StoreInv, StoredByItsEnd, IsStored, StoredIsValidated,
                      NarrativeCitesResolve

(* A narrative that is not touched stays as good as it was.                *)
LEMMA StoreKept ==
    ASSUME StoredByItsEnd, UNCHANGED stored,
           \A g \in Generations : server[g].pc = "ended" /\ server[g].last = "done" =>
              server'[g].pc = "ended" /\ server'[g].last = "done"
    PROVE  StoredByItsEnd'
BY DEF StoredByItsEnd, IsStored

LEMMA StoreSaved ==
    ASSUME TypeInv, StoreInv, NEW g \in Generations, Save(g)
    PROVE  StoredByItsEnd' /\ StoredIsValidated' /\ NarrativeCitesResolve'
<1> DEFINE h == server[g]
           n == Narrative(g)
           len == Len(stored)
<1>1. /\ h.pc = "save" /\ h \in Handler /\ Carried(h) /\ n \in Stored
      /\ stored \in Seq(Stored) /\ len \in Nat
    BY NarrativeType, LenProperties DEF Save, TypeInv, ServerOK, StoredOK, StoreInv, CarriedOK
<1>2. /\ stored' = Append(stored, n) /\ Len(stored') = len + 1
      /\ \A i \in 1..len : stored'[i] = stored[i]
      /\ stored'[len + 1] = n
    BY <1>1, AppendProperties DEF Save
<1>3. /\ n.of = g /\ n.text = h.text /\ n.grounded = h.ok /\ n.citable = h.citable
      /\ n.corrected <=> h.attempt > 1
      /\ n.stub <=> h.attempt = 0
    BY DEF Narrative
<1>4. /\ n.grounded = Honours(n.text, n.citable)
      /\ ~n.grounded => n.corrected
      /\ n.text = {} => n.stub /\ n.citable = NothingCitable
  <2>1. n.grounded \in BOOLEAN /\ Honours(n.text, n.citable) \in BOOLEAN
    BY <1>1 DEF Stored, Honours
  <2> QED
    BY <1>1, <1>3, <2>1 DEF Carried
<1>5. StoredIsValidated'
  <2> SUFFICES ASSUME NEW i \in 1..(len + 1)
               PROVE  LET m == stored'[i] IN
                      /\ m.grounded = Honours(m.text, m.citable)
                      /\ ~m.grounded => m.corrected
                      /\ m.text = {} => m.stub /\ m.citable = NothingCitable
    BY <1>2 DEF StoredIsValidated
  <2>1. CASE i = len + 1
    BY <1>2, <1>4, <2>1
  <2>2. CASE i # len + 1
    <3>1. i \in 1..len /\ stored'[i] = stored[i]
      BY <1>1, <1>2, <2>2
    <3> QED
      BY <3>1 DEF StoreInv, StoredIsValidated
  <2> QED
    BY <2>1, <2>2
<1>6. NarrativeCitesResolve'
  <2>1. row' = row /\ \A c \in n.citations : c.row = row
    BY DEF Save, EmitDone, ServerOnly, docVars
  <2> SUFFICES ASSUME NEW i \in 1..(len + 1), NEW c \in stored'[i].citations
               PROVE  c.row = row
    BY <1>2, <2>1 DEF NarrativeCitesResolve
  <2>2. CASE i = len + 1
    BY <1>2, <2>1, <2>2
  <2>3. CASE i # len + 1
    <3>1. i \in 1..len /\ stored'[i] = stored[i]
      BY <1>1, <1>2, <2>3
    <3> QED
      BY <3>1 DEF StoreInv, NarrativeCitesResolve
  <2> QED
    BY <2>2, <2>3
<1>7. StoredByItsEnd'
  <2>1. server' = [server EXCEPT ![g] = Over(g, "ended", "done")]
    BY DEF Save, EmitDone, Step
  <2>2. /\ Over(g, "ended", "done").pc = "ended" /\ Over(g, "ended", "done").last = "done"
    BY OverType DEF TypeInv, Lasts
  <2> SUFFICES ASSUME NEW k \in Generations, NEW i \in 1..(len + 1), stored'[i].of = k
               PROVE  server'[k].pc = "ended" /\ server'[k].last = "done"
    BY <1>2 DEF StoredByItsEnd, IsStored
  <2>3. CASE k = g
    BY <2>1, <2>2, <2>3 DEF TypeInv, ServerOK
  <2>4. CASE k # g
    <3>1. i \in 1..len /\ stored[i].of = k
      BY <1>1, <1>2, <1>3, <2>4
    <3> QED
      BY <3>1, <2>1, <2>4 DEF StoreInv, StoredByItsEnd, IsStored, TypeInv, ServerOK
  <2> QED
    BY <2>3, <2>4
<1> QED
    BY <1>5, <1>6, <1>7

LEMMA StoreNext ==
    ASSUME MaxCorrections > 0, TypeInv, FreshOK, StoreInv, [Next]_vars
    PROVE  StoreInv'
<1>1. CASE ReIngest
  <2>1. CarriedOK'
    BY <1>1 DEF ReIngest, StoreInv, CarriedOK, Carried
  <2>2. /\ Len(stored') = Len(stored)
        /\ \A i \in 1..Len(stored) : stored'[i] = [stored[i] EXCEPT !.citations = {}]
    BY <1>1, LenProperties DEF ReIngest, TypeInv, StoredOK
  <2>3. ASSUME NEW i \in 1..Len(stored)
        PROVE  /\ stored'[i].of = stored[i].of /\ stored'[i].text = stored[i].text
               /\ stored'[i].grounded = stored[i].grounded /\ stored'[i].stub = stored[i].stub
               /\ stored'[i].corrected = stored[i].corrected
               /\ stored'[i].citable = stored[i].citable /\ stored'[i].citations = {}
    <3>1. stored[i] \in Stored
      BY ElementOfSeq DEF TypeInv, StoredOK
    <3> QED
      BY <2>2, <3>1 DEF Stored
  <2>4. StoredIsValidated' /\ NarrativeCitesResolve'
    BY <2>2, <2>3 DEF StoreInv, StoredIsValidated, NarrativeCitesResolve
  <2>5. StoredByItsEnd'
    BY <1>1, <2>2, <2>3 DEF ReIngest, StoreInv, StoredByItsEnd, IsStored
  <2> QED
    BY <2>1, <2>4, <2>5 DEF StoreInv
<1>2. ASSUME UNCHANGED <<server, stored, row>>
      PROVE  StoreInv'
    BY <1>2 DEF StoreInv, CarriedOK, Carried, StoredByItsEnd, IsStored, StoredIsValidated,
                NarrativeCitesResolve
<1>3. ASSUME NEW g \in Generations, ServerStep(g) \/ ServerFault(g)
      PROVE  StoreInv'
  <2>1. CarriedOK'
    BY <1>3, CarriedServer DEF StoreInv
  <2>2. CASE Save(g)
    BY <2>1, <2>2, StoreSaved DEF StoreInv
  <2>3. CASE ~Save(g)
    <3>1. UNCHANGED <<stored, row>>
      BY <1>3, <2>3 DEF ServerStep, ServerFault, Refuse, ReadReport, LoadClauses, Token, Answer,
            Judge, Restart, GenerationFails, SaveFails, EmitError, ServerDies, ServerOnly, docVars
    <3>2. server[g].pc # "ended" /\ \A k \in Generations \ {g} : server'[k] = server[k]
      BY <1>3, <2>3 DEF ServerStep, ServerFault, Refuse, ReadReport, LoadClauses, Token, Answer,
            Judge, Restart, GenerationFails, SaveFails, EmitError, ServerDies, Step, TypeInv,
            ServerOK
    <3>3. StoredByItsEnd'
      BY <3>1, <3>2, StoreKept DEF StoreInv
    <3> QED
      BY <2>1, <3>1, <3>3 DEF StoreInv, StoredIsValidated, NarrativeCitesResolve
  <2> QED
    BY <2>2, <2>3
<1>4. ASSUME NEW g \in Generations, Start(g)
      PROVE  StoreInv'
  <2>1. server[g] = NewHandler /\ NewHandler.last = "none" /\ NewHandler.text = {}
    BY <1>4 DEF Start, FreshOK, NewHandler
  <2>2. server[g].pc = "none"
    BY <2>1 DEF NewHandler
  <2> DEFINE k == [server[g] EXCEPT !.pc = "asked"]
  <2>3. Step(g, k) /\ UNCHANGED <<stored, row>>
    BY <1>4 DEF Start, Step, docVars
  <2>4. k.pc = "asked" /\ k.last = "none" /\ k.text = {}
    BY <2>1 DEF TypeInv, ServerOK, Handler
  <2>5. Carried(k)
    BY <2>4 DEF Carried
  <2>6. CarriedOK'
    BY <2>3, <2>5, CarriedStep DEF StoreInv
  <2>7. StoredByItsEnd'
    BY <2>2, <2>3, StoreKept DEF StoreInv, Step, TypeInv, ServerOK
  <2> QED
    BY <2>3, <2>6, <2>7 DEF StoreInv, StoredIsValidated, NarrativeCitesResolve
<1>5. CASE ReAnalyze \/ Mount \/ Unmount \/ Stop \/ UNCHANGED vars
    BY <1>2, <1>5 DEF ReAnalyze, Mount, Unmount, Stop, vars, docVars, serverVars
<1>6. ASSUME NEW g \in Generations, TaskStep(g) \/ ConnectionBreaks(g)
      PROVE  StoreInv'
    BY <1>2, <1>6 DEF TaskStep, Receive, ReceiveRefusal, StreamEnds, TaskUnwinds,
                      ConnectionBreaks, Throw, docVars, serverVars
<1> QED
    BY <1>1, <1>3, <1>4, <1>5, <1>6 DEF Next

(* What the server keeps, for every number of requests, drafts and         *)
(* re-ingests: validated, citing clauses that exist, and never what the    *)
(* reader was told has failed.  The writer is given a correction at least: *)
(* with none at all a verdict against the first draft would be stored.     *)
THEOREM NarrativeStoredAlways ==
    ASSUME MaxCorrections > 0
    PROVE  Spec => []NarrativeIsStored
<1>1. Init => TypeInv /\ FreshOK /\ StoreInv
    BY TypeInit, FreshInit, StoreInit
<1>2. TypeInv /\ FreshOK /\ StoreInv /\ [Next]_vars => (TypeInv /\ FreshOK /\ StoreInv)'
    BY TypeNext, FreshNext, StoreNext
<1>3. StoreInv => NarrativeIsStored
    BY DEF StoreInv, StoredByItsEnd, NarrativeIsStored, ErrorStoresNothing
<1> QED
    BY <1>1, <1>2, <1>3, PTL DEF Spec
-----------------------------------------------------------------------------
(***************************************************************************)
(* The order of the frames.  What a handler has sent last goes with where  *)
(* it is; after a restart it is at its second attempt.                     *)
(***************************************************************************)
Ordered(h) ==
    /\ h.pc \in {"none", "asked", "load"} => /\ h.last = "none" /\ ~h.restarted
                                             /\ h.pieces = 0
    /\ h.pc = "generate" => /\ h.last \in {"none", "token", "restart"}
                            /\ h.pieces > 0 => h.last = "token"
    /\ h.pc = "judge" => h.last = "token"
    /\ h.pc = "restart" => h.last = "retry" /\ ~h.restarted
    /\ h.pc = "save" => h.last \in {"none", "token"}
    /\ h.restarted /\ h.pc \in {"generate", "judge"} => h.attempt > 1
OrderedOK == \A g \in Generations : Ordered(server[g])

lasts == [g \in Generations |-> server[g].last]
restarts == [g \in Generations |-> server[g].restarted]

(* One handler changes, and nothing is sent, or one frame.                 *)
LEMMA SilentStep ==
    ASSUME TypeInv, NEW g \in Generations, NEW h, Step(g, h), h.last = server[g].last,
           h.restarted = server[g].restarted
    PROVE  UNCHANGED <<lasts, restarts>>
BY DEF TypeInv, ServerOK, Step, lasts, restarts

LEMMA SendStep ==
    ASSUME TypeInv, NEW g \in Generations, NEW h, Step(g, h), h.last \in Frames!Frames,
           Frames!MayFollow(h.last, server[g].last, server[g].restarted),
           h.restarted = (server[g].restarted \/ h.last = "restart")
    PROVE  Frames!Next
<1>1. lasts[g] = server[g].last /\ restarts[g] = server[g].restarted
    BY DEF lasts, restarts
<1>2. lasts' = [lasts EXCEPT ![g] = h.last]
    BY DEF TypeInv, ServerOK, Step, lasts
<1>3. restarts' = [restarts EXCEPT ![g] = @ \/ h.last = "restart"]
    BY <1>1 DEF TypeInv, ServerOK, Step, restarts
<1>4. Frames!Send(g, h.last)
    BY <1>1, <1>2, <1>3 DEF Frames!Send, lasts, restarts
<1> QED
    BY <1>4 DEF Frames!Next

LEMMA OrderedStep ==
    ASSUME TypeInv, OrderedOK, NEW g \in Generations, NEW h, Ordered(h), Step(g, h)
    PROVE  OrderedOK'
BY DEF Step, OrderedOK, Ordered, TypeInv, ServerOK

LEMMA OrderedServer ==
    ASSUME MaxCorrections = 1, TypeInv, OrderedOK, NEW g \in Generations,
           ServerStep(g) \/ ServerFault(g)
    PROVE  OrderedOK' /\ [Frames!Next]_<<lasts, restarts>>
<1> USE DEF Frames!Frames, Frames!MayFollow
<1> DEFINE h == server[g]
<1>1. h \in Handler /\ Counted(h) /\ Ordered(h)
    BY DEF TypeInv, ServerOK, OrderedOK
<1>2. ASSUME NEW f \in {"done", "error"}, h.last \in {"none", "token", "restart"},
             f = "done" => h.last # "restart", Step(g, Over(g, "ended", f))
      PROVE  OrderedOK' /\ [Frames!Next]_<<lasts, restarts>>
  <2> DEFINE k == Over(g, "ended", f)
  <2>1. k.pc = "ended" /\ k.last = f /\ k.restarted = h.restarted
    BY OverType DEF TypeInv, Lasts
  <2>2. Ordered(k)
    BY <2>1 DEF Ordered
  <2>3. k.restarted = (h.restarted \/ k.last = "restart")
    BY <1>1, <2>1 DEF Handler
  <2> HIDE DEF k
  <2> QED
    BY <1>2, <2>1, <2>2, <2>3, OrderedStep, SendStep DEF k
<1>3. ASSUME NEW pc \in {"ended", "dead"}, Step(g, Over(g, pc, h.last))
      PROVE  OrderedOK' /\ [Frames!Next]_<<lasts, restarts>>
  <2> DEFINE k == Over(g, pc, h.last)
  <2>1. k.pc = pc /\ k.last = h.last /\ k.restarted = h.restarted
    BY <1>1, OverType DEF TypeInv, Handler
  <2>2. Ordered(k)
    BY <2>1 DEF Ordered
  <2> HIDE DEF k
  <2> QED
    BY <1>3, <2>1, <2>2, OrderedStep, SilentStep DEF k
<1>4. CASE Refuse(g) \/ ServerDies(g)
  <2>1. Refuse(g) => h.last = "none"
    BY <1>1 DEF Refuse, Ordered
  <2> QED
    BY <1>3, <1>4, <2>1 DEF Refuse, ServerDies
<1>5. CASE Save(g) \/ SaveFails(g) \/ GenerationFails(g)
  <2>1. /\ Save(g) \/ SaveFails(g) => h.last \in {"none", "token"}
        /\ GenerationFails(g) => h.last \in {"none", "token", "restart"}
    BY <1>1 DEF Save, SaveFails, GenerationFails, Ordered
  <2> QED
    BY <1>2, <1>5, <2>1 DEF Save, SaveFails, GenerationFails, EmitDone, EmitError
<1>6. CASE ReadReport(g)
  <2> DEFINE k == [h EXCEPT !.pc = "load", !.wanted = cited \X {row}]
  <2>1. Ordered(k) /\ k.last = h.last /\ k.restarted = h.restarted
    BY <1>1, <1>6 DEF ReadReport, Ordered, Handler
  <2> QED
    BY <1>6, <2>1, OrderedStep, SilentStep DEF ReadReport
<1>7. CASE LoadClauses(g)
  <2> DEFINE found == [r \in Refs |-> IF <<r, row>> \in h.wanted THEN row ELSE 0]
             none == found = NothingCitable
             pc == IF none THEN "save" ELSE "generate"
             a == IF none THEN 0 ELSE 1
             k == [h EXCEPT !.wanted = {}, !.citable = found, !.pc = pc, !.ok = none,
                            !.attempt = a]
  <2>1. Step(g, k)
    BY <1>7 DEF LoadClauses
  <2>2. h.pieces = 0 /\ h.last = "none" /\ ~h.restarted
    BY <1>1, <1>7 DEF LoadClauses, Ordered
  <2>3. pc \in {"save", "generate"}
    OBVIOUS
  <2> HIDE DEF found, none, pc, a
  <2>4. /\ k.pieces = h.pieces /\ k.last = h.last /\ k.restarted = h.restarted /\ k.pc = pc
    BY <1>1 DEF Handler
  <2> HIDE DEF k
  <2>5. Ordered(k)
    BY <2>2, <2>3, <2>4 DEF Ordered
  <2> QED
    BY <2>1, <2>4, <2>5, OrderedStep, SilentStep
<1>8. CASE Token(g)
  <2> DEFINE k == [h EXCEPT !.pieces = @ + 1, !.last = "token"]
  <2>1. h.last \in {"none", "token", "restart"}
    BY <1>1, <1>8 DEF Token, Ordered
  <2>2. Ordered(k) /\ k.last = "token" /\ k.restarted = (h.restarted \/ k.last = "restart")
    BY <1>1, <1>8 DEF Token, Ordered, Handler
  <2> QED
    BY <1>8, <2>1, <2>2, OrderedStep, SendStep DEF Token
<1>9. ASSUME NEW draft \in Drafts, Answer(g, draft)
      PROVE  OrderedOK' /\ [Frames!Next]_<<lasts, restarts>>
  <2> DEFINE k == [h EXCEPT !.pc = "judge", !.text = draft]
  <2>1. Ordered(k) /\ k.last = h.last /\ k.restarted = h.restarted
    BY <1>1, <1>9 DEF Answer, Ordered, Handler
  <2> QED
    BY <1>9, <2>1, OrderedStep, SilentStep DEF Answer
<1>10. CASE Judge(g)
  <2> DEFINE ok == Verdict(h.text, h.citable).ok
             passes == ok \/ h.attempt > MaxCorrections
             saving == [h EXCEPT !.pc = "save", !.ok = ok]
             again == [h EXCEPT !.pc = "restart", !.last = "retry"]
  <2>1. h.last = "token" /\ h.pc = "judge"
    BY <1>1, <1>10 DEF Judge, Ordered
  <2>2. IF passes THEN Step(g, saving) ELSE Step(g, again)
    BY <1>10 DEF Judge
  <2> HIDE DEF ok
  <2>3. CASE passes
    <3>1. Ordered(saving) /\ saving.last = h.last /\ saving.restarted = h.restarted
      BY <1>1, <2>1 DEF Ordered, Handler
    <3> QED
      BY <2>2, <2>3, <3>1, OrderedStep, SilentStep
  <2>4. CASE ~passes
    <3>1. ~h.restarted
      BY <1>1, <2>1, <2>4 DEF Ordered, Handler, Attempts
    <3>2. again.pc = "restart" /\ again.last = "retry" /\ again.restarted = h.restarted
      BY <1>1 DEF Handler
    <3>3. Ordered(again)
      BY <3>1, <3>2 DEF Ordered
    <3>4. again.restarted = (h.restarted \/ again.last = "restart")
      BY <1>1, <3>2 DEF Handler
    <3> QED
      BY <2>1, <2>2, <2>4, <3>1, <3>2, <3>3, <3>4, OrderedStep, SendStep
  <2> QED
    BY <2>3, <2>4
<1>11. CASE Restart(g)
  <2> DEFINE k == [h EXCEPT !.pc = "generate", !.attempt = @ + 1, !.pieces = 0,
                            !.text = {}, !.last = "restart", !.restarted = TRUE]
  <2>1. h.last = "retry" /\ ~h.restarted /\ h.attempt \in Nat /\ h.attempt > 0
    BY <1>1, <1>11, Bounds DEF Restart, Ordered, Counted, Handler, Attempts
  <2>2. /\ k.pc = "generate" /\ k.last = "restart" /\ k.pieces = 0 /\ k.restarted = TRUE
        /\ k.attempt = h.attempt + 1
    BY <1>1 DEF Handler
  <2>3. Ordered(k)
    BY <2>1, <2>2 DEF Ordered
  <2>4. k.restarted = (h.restarted \/ k.last = "restart")
    BY <2>2
  <2> QED
    BY <1>11, <2>1, <2>2, <2>3, <2>4, OrderedStep, SendStep DEF Restart
<1> QED
    BY <1>4, <1>5, <1>6, <1>7, <1>8, <1>9, <1>10, <1>11 DEF ServerStep, ServerFault

LEMMA OrderedInit == Init => OrderedOK /\ Frames!Init
<1> SUFFICES ASSUME Init PROVE OrderedOK /\ Frames!Init
    OBVIOUS
<1>1. /\ NewHandler.pc = "none" /\ NewHandler.last = "none"
      /\ NewHandler.restarted = FALSE /\ NewHandler.pieces = 0
    BY DEF NewHandler
<1>2. Ordered(NewHandler)
    BY <1>1 DEF Ordered
<1> QED
    BY <1>1, <1>2 DEF Init, OrderedOK, Frames!Init

LEMMA OrderedNext ==
    ASSUME MaxCorrections = 1, TypeInv, FreshOK, OrderedOK, [Next]_vars
    PROVE  OrderedOK' /\ [Frames!Next]_<<lasts, restarts>>
<1>1. ASSUME NEW g \in Generations, ServerStep(g) \/ ServerFault(g)
      PROVE  OrderedOK' /\ [Frames!Next]_<<lasts, restarts>>
    BY <1>1, OrderedServer
<1>2. ASSUME NEW g \in Generations, Start(g)
      PROVE  OrderedOK' /\ [Frames!Next]_<<lasts, restarts>>
  <2> DEFINE k == [server[g] EXCEPT !.pc = "asked"]
  <2>1. /\ server[g].pc = "none" /\ server[g].last = "none"
        /\ server[g].restarted = FALSE /\ server[g].pieces = 0
    BY <1>2 DEF Start, FreshOK, NewHandler
  <2>2. k.pc = "asked" /\ k.last = server[g].last /\ k.restarted = server[g].restarted
        /\ k.pieces = server[g].pieces
    BY DEF TypeInv, ServerOK, Handler
  <2>3. Ordered(k) /\ Step(g, k)
    BY <1>2, <2>1, <2>2 DEF Ordered, Start, Step
  <2> QED
    BY <2>2, <2>3, OrderedStep, SilentStep
<1>3. CASE UNCHANGED server
    BY <1>3 DEF OrderedOK, Ordered, lasts, restarts
<1>4. CASE ReIngest \/ ReAnalyze \/ Mount \/ Unmount \/ Stop \/ UNCHANGED vars
    BY <1>3, <1>4 DEF ReIngest, ReAnalyze, Mount, Unmount, Stop, vars, serverVars
<1>5. ASSUME NEW g \in Generations, TaskStep(g) \/ ConnectionBreaks(g)
      PROVE  UNCHANGED server
    BY <1>5 DEF TaskStep, Receive, ReceiveRefusal, StreamEnds, TaskUnwinds, ConnectionBreaks,
                Throw, serverVars
<1> QED
    BY <1>1, <1>2, <1>3, <1>4, <1>5 DEF Next

(* The writer implements the stream the client's reducer relies on: a      *)
(* draft is taken back once at most, by a retry and the restart behind it, *)
(* and nothing follows a done or an error.                                 *)
THEOREM NarrativeFramesInOrder ==
    ASSUME MaxCorrections = 1
    PROVE  Spec => ImplementsFrames
<1>1. Init => TypeInv /\ FreshOK /\ OrderedOK /\ Frames!Init
    BY TypeInit, FreshInit, OrderedInit
<1>2. TypeInv /\ FreshOK /\ OrderedOK /\ [Next]_vars
        => (TypeInv /\ FreshOK /\ OrderedOK)' /\ [Frames!Next]_<<lasts, restarts>>
    BY TypeNext, FreshNext, OrderedNext
<1> QED
    BY <1>1, <1>2, PTL DEF Spec, ImplementsFrames, Frames!Spec, lasts, restarts
-----------------------------------------------------------------------------
(***************************************************************************)
(* One draft on screen.  What of a generation is on screen, what is on its *)
(* way and what its handler writes at the moment are of one draft, as far  *)
(* as no restart lies between them.                                        *)
(***************************************************************************)
Screen(g) == {view.text[i].attempt : i \in {j \in 1..Len(view.text) : view.text[j].of = g}}

Same(w, i, j) == \A k \in i..j : w[k].type # "restart"

(* w: the frames under way; screen: the drafts on screen; writes: whether  *)
(* the handler goes on with the draft.                                     *)
Stream(w, screen, draft, writes) ==
    /\ \A a, b \in screen : a = b
    /\ \A i, j \in 1..Len(w) :
          i < j /\ w[i].type = "token" /\ w[j].type = "token" /\ Same(w, i, j)
             => w[i].attempt = w[j].attempt
    /\ \A i \in 1..Len(w) :
          w[i].type = "token" /\ Same(w, 1, i) => \A a \in screen : a = w[i].attempt
    /\ writes => \A i \in 1..Len(w) :
                    w[i].type = "token" /\ Same(w, i, Len(w)) => w[i].attempt = draft
    /\ writes /\ Same(w, 1, Len(w)) => \A a \in screen : a = draft
    /\ \A i \in 1..Len(w) : w[i].type = "done" => i = Len(w) /\ ~writes

LEMMA StreamEmpty ==
    ASSUME NEW screen, NEW draft, NEW writes, \A a, b \in screen : a = b,
           writes => screen = {}
    PROVE  Stream(<<>>, screen, draft, writes)
BY Len(<<>>) = 0 DEF Stream

LEMMA StreamLess ==
    ASSUME NEW w, NEW screen, NEW draft, NEW writes, Stream(w, screen, draft, writes),
           NEW less \in SUBSET screen, NEW next, NEW still, still => writes /\ next = draft
    PROVE  Stream(w, less, next, still)
BY DEF Stream

(* A frame more: what lies between two of the others stays the same.       *)
LEMMA FrameMore ==
    ASSUME NEW w \in Seq(WireFrame), NEW f \in WireFrame
    PROVE  LET v == w \o <<f>>
               n == Len(w)
           IN  /\ n \in Nat /\ Len(v) = n + 1 /\ v[n + 1] = f
               /\ \A i \in 1..n : v[i] = w[i]
               /\ \A i \in 1..(n + 1) : i = n + 1 \/ i \in 1..n
               /\ \A i \in 1..n : Same(v, i, n + 1) => Same(w, i, n)
               /\ \A i, j \in 1..n : Same(v, i, j) => Same(w, i, j)
               /\ Same(v, 1, n + 1) => Same(w, 1, n)
               /\ f.type = "restart" => \A i \in 1..(n + 1) : ~Same(v, i, n + 1)
<1> DEFINE v == w \o <<f>>
           n == Len(w)
<1>1. /\ n \in Nat /\ Len(v) = n + 1 /\ v[n + 1] = f
      /\ \A i \in 1..n : v[i] = w[i]
    BY LenProperties
<1> HIDE DEF v
<1> QED
    BY <1>1 DEF Same, v

(* Any frame whatever: only what concerns its own draft is to be shown.    *)
LEMMA StreamMore ==
    ASSUME NEW w \in Seq(WireFrame), NEW screen, NEW draft, NEW writes, NEW f \in WireFrame,
           Stream(w, screen, draft, writes),
           \A i \in 1..Len(w) : w[i].type # "done",
           f.type = "token" => writes /\ f.attempt = draft,
           NEW next, NEW still, still => writes /\ (next = draft \/ f.type = "restart"),
           f.type = "done" => ~still
    PROVE  Stream(w \o <<f>>, screen, next, still)
<1> DEFINE v == w \o <<f>>
           n == Len(w)
<1>1. /\ n \in Nat /\ Len(v) = n + 1 /\ v[n + 1] = f
      /\ \A i \in 1..n : v[i] = w[i]
      /\ \A i \in 1..(n + 1) : i = n + 1 \/ i \in 1..n
      /\ \A i \in 1..n : Same(v, i, n + 1) => Same(w, i, n)
      /\ \A i, j \in 1..n : Same(v, i, j) => Same(w, i, j)
      /\ Same(v, 1, n + 1) => Same(w, 1, n)
      /\ f.type = "restart" => \A i \in 1..(n + 1) : ~Same(v, i, n + 1)
    BY FrameMore
<1> HIDE DEF v
<1>2. \A i, j \in 1..(n + 1) :
         i < j /\ v[i].type = "token" /\ v[j].type = "token" /\ Same(v, i, j)
            => v[i].attempt = v[j].attempt
  <2> SUFFICES ASSUME NEW i \in 1..(n + 1), NEW j \in 1..(n + 1), i < j,
                      v[i].type = "token", v[j].type = "token", Same(v, i, j)
               PROVE  v[i].attempt = v[j].attempt
    OBVIOUS
  <2>1. i \in 1..n
    BY <1>1
  <2>2. CASE j = n + 1
    BY <1>1, <2>1, <2>2 DEF Stream
  <2>3. CASE j \in 1..n
    BY <1>1, <2>1, <2>3 DEF Stream
  <2> QED
    BY <1>1, <2>2, <2>3
<1>3. \A i \in 1..(n + 1) :
         v[i].type = "token" /\ Same(v, 1, i) => \A a \in screen : a = v[i].attempt
  <2> SUFFICES ASSUME NEW i \in 1..(n + 1), v[i].type = "token", Same(v, 1, i)
               PROVE  \A a \in screen : a = v[i].attempt
    OBVIOUS
  <2>1. CASE i = n + 1
    BY <1>1, <2>1 DEF Stream
  <2>2. CASE i \in 1..n
    BY <1>1, <2>2, 1 \in 1..n DEF Stream
  <2> QED
    BY <1>1, <2>1, <2>2
<1>4. ASSUME still
      PROVE  \A i \in 1..(n + 1) :
                v[i].type = "token" /\ Same(v, i, n + 1) => v[i].attempt = next
  <2>1. CASE f.type = "restart"
    BY <1>1, <2>1
  <2>2. CASE f.type # "restart"
    BY <1>1, <1>4, <2>2 DEF Stream
  <2> QED
    BY <2>1, <2>2
<1>5. ASSUME still, Same(v, 1, n + 1)
      PROVE  \A a \in screen : a = next
  <2>1. f.type # "restart"
    BY <1>1, <1>5
  <2> QED
    BY <1>1, <1>5, <2>1 DEF Stream
<1>6. \A i \in 1..(n + 1) : v[i].type = "done" => i = n + 1 /\ ~still
    BY <1>1
<1> QED
    BY <1>1, <1>2, <1>3, <1>4, <1>5, <1>6 DEF Stream, v

(* The first frame is taken off the wire and put on screen.                *)
Taken(screen, f) ==
    CASE f.type = "token" -> screen \cup {f.attempt}
      [] f.type = "retry" -> screen
      [] f.type = "done"  -> {0}
      [] OTHER            -> {}

LEMMA StreamTaken ==
    ASSUME NEW w \in Seq(WireFrame), w # <<>>, NEW screen, NEW draft, NEW writes,
           Stream(w, screen, draft, writes)
    PROVE  Stream(Tail(w), Taken(screen, Head(w)), draft, writes)
<1> DEFINE v == Tail(w)
           n == Len(v)
           f == w[1]
           taken == Taken(screen, f)
<1>1. /\ n \in Nat /\ Len(w) = n + 1 /\ Head(w) = f /\ f \in WireFrame
      /\ \A i \in 1..n : v[i] = w[i + 1] /\ i + 1 \in 1..(n + 1)
      /\ 1 \in 1..(n + 1)
    BY HeadTailProperties, LenProperties, EmptySeq, ElementOfSeq
<1> HIDE DEF v
<1>2. /\ \A i, j \in 1..n : Same(v, i, j) => Same(w, i + 1, j + 1)
      /\ f.type # "restart" => \A i \in 1..n : Same(v, 1, i) => Same(w, 1, i + 1)
      /\ f.type # "restart" /\ Same(v, 1, n) => Same(w, 1, n + 1)
  <2>1. ASSUME NEW i \in 1..n, NEW j \in 1..n, Same(v, i, j), NEW k \in (i + 1)..(j + 1)
        PROVE  w[k].type # "restart"
    <3>1. k - 1 \in i..j /\ k - 1 \in 1..n /\ (k - 1) + 1 = k
      BY <1>1
    <3> QED
      BY <1>1, <2>1, <3>1 DEF Same
  <2>2. ASSUME f.type # "restart", NEW i \in 0..n, Same(v, 1, i), NEW k \in 1..(i + 1)
        PROVE  w[k].type # "restart"
    <3>1. CASE k = 1
      BY <2>2, <3>1
    <3>2. CASE k # 1
      <4>1. k - 1 \in 1..i /\ k - 1 \in 1..n /\ (k - 1) + 1 = k
        BY <1>1, <3>2
      <4> QED
        BY <1>1, <2>2, <4>1 DEF Same
    <3> QED
      BY <3>1, <3>2
  <2> QED
    BY <1>1, <2>1, <2>2 DEF Same
<1>3. CASE f.type = "done"
  <2>1. n = 0 /\ ~writes
    BY <1>1, <1>3 DEF Stream
  <2>2. taken = {0}
    BY <1>3 DEF Taken
  <2> HIDE DEF taken
  <2>3. Stream(v, taken, draft, writes)
    BY <2>1, <2>2 DEF Stream
  <2> QED
    BY <1>1, <2>3 DEF v, taken
<1>4. CASE f.type # "done"
  <2>1. /\ f.type = "token" => taken = screen \cup {f.attempt}
        /\ f.type # "token" => taken \subseteq screen
        /\ f.type = "restart" => taken = {}
    BY <1>4 DEF Taken
  <2> HIDE DEF taken
  <2>2. \A a, b \in taken : a = b
    <3>1. f.type = "token" => Same(w, 1, 1)
      BY DEF Same
    <3>2. f.type = "token" => \A a \in screen : a = f.attempt
      BY <1>1, <3>1 DEF Stream
    <3> QED
      BY <2>1, <3>2 DEF Stream
  <2>3. \A i, j \in 1..n :
           i < j /\ v[i].type = "token" /\ v[j].type = "token" /\ Same(v, i, j)
              => v[i].attempt = v[j].attempt
    BY <1>1, <1>2 DEF Stream
  <2>4. ASSUME NEW i \in 1..n, v[i].type = "token", Same(v, 1, i), NEW a \in taken
        PROVE  a = v[i].attempt
    <3>1. f.type # "restart" /\ Same(w, 1, i + 1) /\ 1 < i + 1
      BY <1>2, <2>1, <2>4
    <3>2. CASE a \in screen
      BY <1>1, <2>4, <3>1, <3>2 DEF Stream
    <3>3. CASE a \notin screen
      BY <1>1, <2>1, <2>4, <3>1, <3>3 DEF Stream
    <3> QED
      BY <3>2, <3>3
  <2>5. ASSUME writes
        PROVE  \A i \in 1..n : v[i].type = "token" /\ Same(v, i, n) => v[i].attempt = draft
    BY <1>1, <1>2, <2>5 DEF Stream
  <2>6. ASSUME writes, Same(v, 1, n), NEW a \in taken
        PROVE  a = draft
    <3>1. f.type # "restart" /\ Same(w, 1, n + 1)
      BY <1>2, <2>1, <2>6
    <3>2. CASE a \in screen
      BY <1>1, <2>6, <3>1, <3>2 DEF Stream
    <3>3. CASE a \notin screen
      BY <1>1, <2>1, <2>6, <3>1, <3>3 DEF Stream
    <3> QED
      BY <3>2, <3>3
  <2>7. \A i \in 1..n : v[i].type = "done" => i = n /\ ~writes
    BY <1>1 DEF Stream
  <2> QED
    BY <1>1, <2>2, <2>3, <2>4, <2>5, <2>6, <2>7 DEF Stream, v, taken
<1> QED
    BY <1>3, <1>4
-----------------------------------------------------------------------------
(***************************************************************************)
(* The panel.  Its button is about the one task that reads; what is not    *)
(* read is off the wire, and nothing is on the wire or on screen of a      *)
(* handler that has not begun to write.                                    *)
(***************************************************************************)
Drafting == {"generate", "judge", "restart"}
Early == {"none", "asked", "load"}
Writes(g) == task[g] = "reading" /\ server[g].pc \in Drafting

RunOK ==
    /\ running <=> abort # None
    /\ abort # None => mounted /\ task[abort] = "reading"
    /\ \A g \in Generations : task[g] = "reading" => abort = g
QuietOK == \A g \in Generations : task[g] # "reading" => wire[g] = <<>>
EarlyOK ==
    \A g \in Generations : server[g].pc \in Early => wire[g] = <<>> /\ Screen(g) = {}
StreamsOK ==
    \A g \in Generations : Stream(wire[g], Screen(g), server[g].attempt, Writes(g))
DoneOK ==
    \A g \in Generations : \A i \in 1..Len(wire[g]) :
       wire[g][i].type = "done" => server[g].pc = "ended" /\ IsStored(g)
Shown == RunOK /\ QuietOK /\ EarlyOK /\ StreamsOK /\ DoneOK /\ DoneShowsStored

LEMMA ShownInit == Init => Shown
<1> SUFFICES ASSUME Init PROVE Shown
    OBVIOUS
<1>1. Len(<<>>) = 0 /\ view.text = <<>> /\ view.status = "idle"
    BY DEF Init, initialView
<1>2. \A g \in Generations : Screen(g) = {} /\ ~Writes(g)
    BY <1>1 DEF Screen, Init, Writes
<1>3. StreamsOK
    BY <1>2, StreamEmpty DEF Init, StreamsOK
<1> QED
    BY <1>1, <1>2, <1>3 DEF Shown, RunOK, QuietOK, EarlyOK, DoneOK, DoneShowsStored, Init

(* What is stored stays.                                                   *)
LEMMA StoredGrows ==
    ASSUME TypeInv, [Next]_vars, NEW g \in Generations, IsStored(g)
    PROVE  IsStored(g)'
<1>1. PICK i \in 1..Len(stored) : stored[i].of = g
    BY DEF IsStored
<1>2. stored[i] \in Stored /\ stored \in Seq(Stored)
    BY ElementOfSeq DEF TypeInv, StoredOK
<1>3. CASE ReIngest
  <2>1. Len(stored') = Len(stored) /\ stored'[i] = [stored[i] EXCEPT !.citations = {}]
    BY <1>2, <1>3, LenProperties DEF ReIngest
  <2> QED
    BY <1>1, <1>2, <2>1 DEF IsStored, Stored
<1>4. ASSUME NEW k \in Generations, Save(k)
      PROVE  IsStored(g)'
  <2>1. Narrative(k) \in Stored
    BY NarrativeType DEF TypeInv
  <2>2. Len(stored') = Len(stored) + 1 /\ stored'[i] = stored[i] /\ Len(stored) \in Nat
    BY <1>2, <1>4, <2>1, AppendProperties, LenProperties DEF Save
  <2>3. i \in 1..Len(stored')
    BY <2>2
  <2> QED
    BY <1>1, <2>2, <2>3 DEF IsStored
<1>5. CASE UNCHANGED stored
    BY <1>5 DEF IsStored
<1>6. ASSUME NEW k \in Generations, ServerStep(k) \/ ServerFault(k), ~Save(k)
      PROVE  UNCHANGED stored
    BY <1>6 DEF ServerStep, ServerFault, Refuse, ReadReport, LoadClauses, Token, Answer, Judge,
                Restart, GenerationFails, SaveFails, ServerDies
<1>7. ASSUME NEW k \in Generations, TaskStep(k) \/ ConnectionBreaks(k) \/ Start(k)
      PROVE  UNCHANGED stored
    BY <1>7 DEF TaskStep, Receive, ReceiveRefusal, StreamEnds, TaskUnwinds, ConnectionBreaks,
                Throw, Start, serverVars
<1>8. CASE ReAnalyze \/ Mount \/ Unmount \/ Stop \/ UNCHANGED vars
    BY <1>5, <1>8 DEF ReAnalyze, Mount, Unmount, Stop, vars, serverVars
<1> QED
    BY <1>3, <1>4, <1>5, <1>6, <1>7, <1>8 DEF Next

(* A step of the writer that sends nothing.                                *)
LEMMA StreamsSilent ==
    ASSUME TypeInv, StreamsOK, NEW g \in Generations, NEW k, Step(g, k),
           UNCHANGED <<wire, view, task>>,
           k.pc \in Drafting =>
              \/ server[g].pc \in Drafting /\ k.attempt = server[g].attempt
              \/ wire[g] = <<>> /\ Screen(g) = {}
    PROVE  StreamsOK'
<1>1. server'[g] = k /\ \A j \in Generations \ {g} : server'[j] = server[j]
    BY DEF Step, TypeInv, ServerOK
<1>2. ASSUME NEW j \in Generations
      PROVE  /\ Screen(j)' = Screen(j) /\ wire'[j] = wire[j]
             /\ Writes(j)' <=> task[j] = "reading" /\ server'[j].pc \in Drafting
    BY DEF Screen, Writes
<1>3. ASSUME NEW j \in Generations \ {g}
      PROVE  Stream(wire[j], Screen(j), server'[j].attempt, Writes(j)')
    BY <1>1, <1>2 DEF StreamsOK, Writes
<1>4. Stream(wire[g], Screen(g), k.attempt, Writes(g)')
  <2>1. CASE k.pc \in Drafting => server[g].pc \in Drafting /\ k.attempt = server[g].attempt
    <3>1. Writes(g)' => Writes(g) /\ k.attempt = server[g].attempt
      BY <1>1, <1>2, <2>1 DEF Writes
    <3> QED
      BY <3>1, StreamLess DEF StreamsOK
  <2>2. CASE wire[g] = <<>> /\ Screen(g) = {}
    BY <2>2, StreamEmpty
  <2> QED
    BY <2>1, <2>2
<1> QED
    BY <1>1, <1>2, <1>3, <1>4 DEF StreamsOK

(* One that sends a frame, to whoever reads.                               *)
LEMMA StreamsPush ==
    ASSUME TypeInv, Shown, NEW g \in Generations, NEW k, Step(g, k), NEW f \in WireFrame,
           Push(g, <<f>>), UNCHANGED <<view, task>>, server[g].pc # "ended",
           f.type = "token" => server[g].pc \in Drafting /\ f.attempt = server[g].attempt,
           k.pc \in Drafting => /\ server[g].pc \in Drafting
                                /\ k.attempt = server[g].attempt \/ f.type = "restart",
           f.type = "done" => k.pc \notin Drafting
    PROVE  StreamsOK'
<1>1. server'[g] = k /\ \A j \in Generations \ {g} : server'[j] = server[j]
    BY DEF Step, TypeInv, ServerOK
<1>2. ASSUME NEW j \in Generations
      PROVE  /\ Screen(j)' = Screen(j)
             /\ Writes(j)' <=> task[j] = "reading" /\ server'[j].pc \in Drafting
    BY DEF Screen, Writes
<1>3. \A j \in Generations \ {g} : wire'[j] = wire[j]
    BY DEF Push, TypeInv, WireOK
<1>4. ASSUME NEW j \in Generations \ {g}
      PROVE  Stream(wire'[j], Screen(j), server'[j].attempt, Writes(j)')
    BY <1>1, <1>2, <1>3 DEF Shown, StreamsOK, Writes
<1>5. Stream(wire'[g], Screen(g), k.attempt, Writes(g)')
  <2>1. CASE task[g] # "reading"
    <3>1. wire'[g] = wire[g] /\ ~Writes(g)'
      BY <1>2, <2>1 DEF Push
    <3> QED
      BY <3>1, StreamLess DEF Shown, StreamsOK
  <2>2. CASE task[g] = "reading"
    <3>1. wire'[g] = wire[g] \o <<f>> /\ wire[g] \in Seq(WireFrame)
      BY <2>2 DEF Push, TypeInv, WireOK
    <3>2. \A i \in 1..Len(wire[g]) : wire[g][i].type # "done"
      BY DEF Shown, DoneOK
    <3>3. Writes(g) <=> server[g].pc \in Drafting
      BY <2>2 DEF Writes
    <3>4. Writes(g)' <=> k.pc \in Drafting
      BY <1>1, <1>2, <2>2
    <3>5. Stream(wire[g], Screen(g), server[g].attempt, Writes(g))
      BY DEF Shown, StreamsOK
    <3> DEFINE w == wire[g]
               screen == Screen(g)
               draft == server[g].attempt
               writes == Writes(g)
               still == Writes(g)'
               next == k.attempt
    <3>6. w \in Seq(WireFrame) /\ \A i \in 1..Len(w) : w[i].type # "done"
      BY <3>1, <3>2
    <3>7. f.type = "token" => writes /\ f.attempt = draft
      BY <3>3
    <3>8. still => writes /\ (next = draft \/ f.type = "restart")
      BY <3>3, <3>4
    <3>9. f.type = "done" => ~still
      BY <3>4
    <3>10. Stream(w, screen, draft, writes)
      BY <3>5
    <3> HIDE DEF w, screen, draft, writes, still, next
    <3>11. Stream(w \o <<f>>, screen, next, still)
      BY <3>6, <3>7, <3>8, <3>9, <3>10, StreamMore
    <3> QED
      BY <3>1, <3>11 DEF w, screen, still, next
  <2> QED
    BY <2>1, <2>2
<1> QED
    BY <1>1, <1>2, <1>4, <1>5 DEF StreamsOK

(* The rest of what such a step keeps.                                     *)
LEMMA ShownStep ==
    ASSUME TypeInv, Shown, [Next]_vars, NEW g \in Generations, NEW k, Step(g, k), ServerOnly,
           server[g].pc # "ended", StreamsOK',
           \/ UNCHANGED wire
           \/ \E f \in WireFrame : /\ Push(g, <<f>>) /\ k.pc \notin Early
                                   /\ f.type = "done" => k.pc = "ended" /\ IsStored(g)',
           k.pc \in Early => server[g].pc \in Early
    PROVE  Shown'
<1> USE DEF Shown
<1>1. server'[g] = k /\ \A j \in Generations \ {g} : server'[j] = server[j]
    BY DEF Step, TypeInv, ServerOK
<1>2. UNCHANGED <<task, view, mounted, abort, running>>
    BY DEF ServerOnly, panelVars
<1>3. RunOK'
    BY <1>2 DEF RunOK
<1>4. \A j \in Generations : Screen(j)' = Screen(j)
    BY <1>2 DEF Screen
<1>5. \A j \in Generations \ {g} : wire'[j] = wire[j]
    BY DEF Push, TypeInv, WireOK
<1>6. task[g] # "reading" => wire'[g] = wire[g]
    BY DEF Push
<1>7. QuietOK'
    BY <1>2, <1>5, <1>6 DEF QuietOK
<1>8. EarlyOK'
  <2>1. k.pc \in Early => wire'[g] = wire[g]
    OBVIOUS
  <2> QED
    BY <1>1, <1>4, <1>5, <2>1 DEF EarlyOK
<1>9. DoneOK'
  <2> SUFFICES ASSUME NEW j \in Generations, NEW i \in 1..Len(wire'[j]),
                      wire'[j][i].type = "done"
               PROVE  server'[j].pc = "ended" /\ IsStored(j)'
    BY DEF DoneOK
  <2>1. CASE wire'[j] = wire[j]
    <3>1. server[j].pc = "ended" /\ IsStored(j)
      BY <2>1 DEF DoneOK
    <3> QED
      BY <1>1, <3>1, StoredGrows
  <2>2. CASE wire'[j] # wire[j]
    <3>1. PICK f \in WireFrame : /\ wire'[g] = wire[g] \o <<f>> /\ j = g
                                 /\ f.type = "done" => k.pc = "ended" /\ IsStored(g)'
      BY <1>5, <2>2 DEF Push, TypeInv, WireOK
    <3>2. \A n \in 1..Len(wire[g]) : wire[g][n].type # "done"
      BY DEF DoneOK
    <3>3. wire'[g][i] = f
      BY <3>1, <3>2, FrameMore DEF TypeInv, WireOK
    <3> QED
      BY <1>1, <3>1, <3>3
  <2> QED
    BY <2>1, <2>2
<1>10. DoneShowsStored'
    BY <1>2, StoredGrows DEF DoneShowsStored, TypeInv, ViewOK, View
<1> QED
    BY <1>3, <1>7, <1>8, <1>9, <1>10

LEMMA ShownServer ==
    ASSUME TypeInv, Shown, [Next]_vars, NEW g \in Generations, ServerStep(g) \/ ServerFault(g)
    PROVE  Shown'
<1> DEFINE h == server[g]
<1> USE DEF Drafting, Early
<1>1. h \in Handler
    BY DEF TypeInv, ServerOK
<1>2. \A t \in Arrivals : \A a \in Attempts : Frame(t, a) \in WireFrame /\ Frame(t, a).type = t
                                              /\ Frame(t, a).attempt = a
    BY DEF Frame, WireFrame
<1>3. 0 \in Attempts /\ h.attempt \in Attempts
    BY <1>1, Bounds DEF Handler
<1>4. ServerOnly /\ h.pc # "ended" /\ UNCHANGED <<view, task>>
    BY DEF ServerStep, ServerFault, Refuse, ReadReport, LoadClauses, Token, Answer, Judge,
           Restart, Save, EmitDone, GenerationFails, SaveFails, EmitError, ServerDies, ServerOnly
<1>5. ASSUME NEW k, Step(g, k), UNCHANGED wire, k.pc \in Early => h.pc \in Early,
             k.pc \in Drafting => \/ h.pc \in Drafting /\ k.attempt = h.attempt
                                  \/ h.pc \in Early
      PROVE  Shown'
  <2>1. h.pc \in Early => wire[g] = <<>> /\ Screen(g) = {}
    BY DEF Shown, EarlyOK
  <2>2. StreamsOK'
    BY <1>4, <1>5, <2>1, StreamsSilent DEF Shown
  <2> QED
    BY <1>4, <1>5, <2>2, ShownStep
<1>6. ASSUME NEW k, Step(g, k), NEW f \in WireFrame, Push(g, <<f>>), k.pc \notin Early,
             f.type = "token" => h.pc \in Drafting /\ f.attempt = h.attempt,
             k.pc \in Drafting => /\ h.pc \in Drafting
                                  /\ k.attempt = h.attempt \/ f.type = "restart",
             f.type = "done" => k.pc = "ended" /\ IsStored(g)'
      PROVE  Shown'
  <2>1. StreamsOK'
    BY <1>4, <1>6, StreamsPush
  <2> QED
    BY <1>4, <1>6, <2>1, ShownStep
<1>7. CASE Refuse(g)
  <2> DEFINE k == Over(g, "ended", "none")
  <2>1. k.pc = "ended"
    BY OverType DEF TypeInv, Lasts
  <2>2. Frame("refused", 0) \in WireFrame /\ Frame("refused", 0).type = "refused"
    BY <1>2, <1>3 DEF Arrivals
  <2> HIDE DEF k
  <2> QED
    BY <1>6, <1>7, <2>1, <2>2 DEF Refuse, k
<1>8. CASE ReadReport(g)
  <2> DEFINE k == [h EXCEPT !.pc = "load", !.wanted = cited \X {row}]
  <2>1. k.pc = "load" /\ h.pc = "asked"
    BY <1>1, <1>8 DEF ReadReport, Handler
  <2> QED
    BY <1>5, <1>8, <2>1 DEF ReadReport
<1>9. CASE LoadClauses(g)
  <2> DEFINE found == [r \in Refs |-> IF <<r, row>> \in h.wanted THEN row ELSE 0]
             none == found = NothingCitable
             pc == IF none THEN "save" ELSE "generate"
             a == IF none THEN 0 ELSE 1
             k == [h EXCEPT !.wanted = {}, !.citable = found, !.pc = pc, !.ok = none,
                            !.attempt = a]
  <2>1. Step(g, k) /\ UNCHANGED wire /\ h.pc = "load"
    BY <1>9 DEF LoadClauses
  <2>2. pc \in {"save", "generate"}
    OBVIOUS
  <2> HIDE DEF found, none, pc, a
  <2>3. k.pc = pc
    BY <1>1 DEF Handler
  <2> HIDE DEF k
  <2> QED
    BY <1>5, <2>1, <2>2, <2>3
<1>10. CASE Token(g)
  <2> DEFINE k == [h EXCEPT !.pieces = @ + 1, !.last = "token"]
             f == Frame("token", h.attempt)
  <2>1. k.pc = h.pc /\ k.attempt = h.attempt /\ h.pc = "generate"
    BY <1>1, <1>10 DEF Token, Handler
  <2>2. f \in WireFrame /\ f.type = "token" /\ f.attempt = h.attempt
    BY <1>2, <1>3 DEF Arrivals
  <2>3. Step(g, k) /\ Push(g, <<f>>)
    BY <1>10 DEF Token
  <2> HIDE DEF k, f
  <2> QED
    BY <1>6, <2>1, <2>2, <2>3
<1>11. ASSUME NEW draft \in Drafts, Answer(g, draft)
       PROVE  Shown'
  <2> DEFINE k == [h EXCEPT !.pc = "judge", !.text = draft]
  <2>1. k.pc = "judge" /\ k.attempt = h.attempt /\ h.pc = "generate"
    BY <1>1, <1>11 DEF Answer, Handler
  <2> QED
    BY <1>5, <1>11, <2>1 DEF Answer
<1>12. CASE Judge(g)
  <2> DEFINE ok == Verdict(h.text, h.citable).ok
             passes == ok \/ h.attempt > MaxCorrections
             saving == [h EXCEPT !.pc = "save", !.ok = ok]
             again == [h EXCEPT !.pc = "restart", !.last = "retry"]
             f == Frame("retry", 0)
  <2>1. IF passes THEN Step(g, saving) /\ UNCHANGED wire
                  ELSE Step(g, again) /\ Push(g, <<f>>)
    BY <1>12 DEF Judge
  <2>2. /\ h.pc = "judge" /\ saving.pc = "save"
        /\ again.pc = "restart" /\ again.attempt = h.attempt
    BY <1>1, <1>12 DEF Judge, Handler
  <2>3. f \in WireFrame /\ f.type = "retry"
    BY <1>2, <1>3 DEF Arrivals
  <2> HIDE DEF passes, saving, again, f
  <2>4. CASE passes
    BY <1>5, <2>1, <2>2, <2>4
  <2>5. CASE ~passes
    BY <1>6, <2>1, <2>2, <2>3, <2>5
  <2> QED
    BY <2>4, <2>5
<1>13. CASE Restart(g)
  <2> DEFINE k == [h EXCEPT !.pc = "generate", !.attempt = @ + 1, !.pieces = 0,
                            !.text = {}, !.last = "restart", !.restarted = TRUE]
             f == Frame("restart", 0)
  <2>1. k.pc = "generate" /\ h.pc = "restart"
    BY <1>1, <1>13 DEF Restart, Handler
  <2>2. f \in WireFrame /\ f.type = "restart"
    BY <1>2, <1>3 DEF Arrivals
  <2>3. Step(g, k) /\ Push(g, <<f>>)
    BY <1>13 DEF Restart
  <2> HIDE DEF k, f
  <2> QED
    BY <1>6, <2>1, <2>2, <2>3
<1>14. CASE Save(g)
  <2> DEFINE k == Over(g, "ended", "done")
             f == Frame("done", 0)
  <2>1. k.pc = "ended"
    BY OverType DEF TypeInv, Lasts
  <2>2. f \in WireFrame /\ f.type = "done"
    BY <1>2, <1>3 DEF Arrivals
  <2>3. Step(g, k) /\ Push(g, <<f>>) /\ stored' = Append(stored, Narrative(g))
    BY <1>14 DEF Save, EmitDone
  <2>4. IsStored(g)'
    <3>1. Narrative(g) \in Stored /\ Narrative(g).of = g
      BY NarrativeType DEF TypeInv, Narrative
    <3>2. /\ Len(stored') \in 1..Len(stored')
          /\ stored'[Len(stored')] = Narrative(g)
      BY <2>3, <3>1, AppendProperties, LenProperties DEF TypeInv, StoredOK
    <3> QED
      BY <3>1, <3>2 DEF IsStored
  <2> HIDE DEF k, f
  <2> QED
    BY <1>6, <2>1, <2>2, <2>3, <2>4
<1>15. ASSUME EmitError(g)
       PROVE  Shown'
  <2> DEFINE k == Over(g, "ended", "error")
             f == Frame("error", 0)
  <2>1. k.pc = "ended"
    BY OverType DEF TypeInv, Lasts
  <2>2. f \in WireFrame /\ f.type = "error"
    BY <1>2, <1>3 DEF Arrivals
  <2>3. Step(g, k) /\ Push(g, <<f>>)
    BY <1>15 DEF EmitError
  <2> HIDE DEF k, f
  <2> QED
    BY <1>6, <2>1, <2>2, <2>3
<1>16. CASE ServerDies(g)
  <2> DEFINE k == Over(g, "dead", h.last)
  <2>1. k.pc = "dead"
    BY <1>1, OverType DEF TypeInv, Handler
  <2>2. Step(g, k) /\ UNCHANGED wire
    BY <1>16 DEF ServerDies
  <2> HIDE DEF k
  <2> QED
    BY <1>5, <2>1, <2>2
<1> QED
  BY <1>7, <1>8, <1>9, <1>10, <1>11, <1>12, <1>13, <1>14, <1>15, <1>16
     DEF ServerStep, ServerFault, GenerationFails, SaveFails

(* What the reducer does to what is on screen of each generation.          *)
LEMMA ScreenReducer ==
    ASSUME TypeInv, NEW g \in Generations, NEW f \in WireFrame, f.type # "refused",
           view' = narrativeReducer(view, g, f)
    PROVE  /\ Screen(g)' = Taken(Screen(g), f)
           /\ \A j \in Generations \ {g} : Screen(j)' \subseteq Screen(j)
           /\ view'.status = "done" => /\ f.type = "done"
                                       /\ view'.result = g /\ view'.text = <<Final(g)>>
<1> DEFINE n == Len(view.text)
           piece == [of |-> g, attempt |-> f.attempt]
<1>1. view \in View /\ view.text \in Seq(Piece) /\ n \in Nat
    BY LenProperties DEF TypeInv, ViewOK, View
<1>2. piece.of = g /\ piece.attempt = f.attempt /\ piece \in Piece
    BY DEF Piece, WireFrame, Attempts
<1>3. f.type \in {"token", "retry", "restart", "done", "error"}
    BY DEF WireFrame, Arrivals
<1> HIDE DEF piece
<1>4. CASE f.type = "token"
  <2>1. view' = [view EXCEPT !.status = "streaming", !.text = Append(@, piece)]
    BY <1>4 DEF narrativeReducer, piece
  <2>2. view'.text = Append(view.text, piece) /\ view'.status = "streaming"
    BY <1>1, <2>1 DEF View
  <2>3. /\ Len(view'.text) = n + 1 /\ view'.text[n + 1] = piece
        /\ \A i \in 1..n : view'.text[i] = view.text[i]
    BY <1>1, <1>2, <2>2, AppendProperties
  <2>4. \A i \in 1..(n + 1) : i = n + 1 \/ i \in 1..n
    BY <1>1
  <2>5. Screen(g)' = Screen(g) \cup {f.attempt}
    BY <1>1, <1>2, <2>3, <2>4 DEF Screen
  <2>6. \A j \in Generations \ {g} : Screen(j)' \subseteq Screen(j)
    BY <1>1, <1>2, <2>3, <2>4 DEF Screen
  <2> QED
    BY <1>4, <2>2, <2>5, <2>6 DEF Taken
<1>5. CASE f.type = "retry"
  <2>1. view'.text = view.text /\ view'.status = "correcting"
    BY <1>1, <1>5 DEF narrativeReducer, View
  <2> QED
    BY <1>5, <2>1 DEF Taken, Screen
<1>6. CASE f.type \in {"restart", "error"}
  <2>1. view'.text = <<>> /\ view'.status # "done"
    BY <1>1, <1>6 DEF narrativeReducer, View
  <2>2. \A j : Screen(j)' = {}
    BY <2>1 DEF Screen
  <2> QED
    BY <1>6, <2>1, <2>2 DEF Taken
<1>7. CASE f.type = "done"
  <2>1. view'.text = <<Final(g)>> /\ view'.result = g
    BY <1>1, <1>7 DEF narrativeReducer, View
  <2>2. Len(view'.text) = 1 /\ view'.text[1].of = g /\ view'.text[1].attempt = 0
    BY <2>1 DEF Final
  <2>3. Screen(g)' = {0} /\ \A j \in Generations \ {g} : Screen(j)' = {}
    BY <2>2 DEF Screen
  <2> QED
    BY <1>7, <2>1, <2>3 DEF Taken
<1> QED
    BY <1>3, <1>4, <1>5, <1>6, <1>7

(* A step that only takes off the wire, or off the screen.                 *)
LEMMA ShownLess ==
    ASSUME TypeInv, Shown, [Next]_vars, UNCHANGED server, RunOK', DoneShowsStored',
           \A g \in Generations :
              /\ Screen(g)' \subseteq Screen(g)
              /\ task'[g] = "reading" => task[g] = "reading" /\ wire'[g] = wire[g]
              /\ task'[g] # "reading" => wire'[g] = <<>>
    PROVE  Shown'
<1> USE DEF Shown
<1>1. QuietOK'
    BY DEF QuietOK
<1>2. \A g \in Generations : wire'[g] \in {wire[g], <<>>}
    OBVIOUS
<1>3. EarlyOK'
    BY <1>2 DEF EarlyOK
<1>4. ASSUME NEW g \in Generations
      PROVE  Stream(wire[g], Screen(g), server[g].attempt, Writes(g))'
  <2>1. CASE task'[g] = "reading"
    <3>1. Writes(g)' => Writes(g)
      BY <2>1 DEF Writes
    <3> QED
      BY <2>1, <3>1, StreamLess DEF StreamsOK
  <2>2. CASE task'[g] # "reading"
    <3>1. ~Writes(g)'
      BY <2>2 DEF Writes
    <3>2. \A a, b \in Screen(g)' : a = b
      BY DEF StreamsOK, Stream
    <3> QED
      BY <2>2, <3>1, <3>2, StreamEmpty
  <2> QED
    BY <2>1, <2>2
<1>5. StreamsOK'
    BY <1>4 DEF StreamsOK
<1>6. DoneOK'
  <2> SUFFICES ASSUME NEW g \in Generations, NEW i \in 1..Len(wire'[g]),
                      wire'[g][i].type = "done"
               PROVE  server'[g].pc = "ended" /\ IsStored(g)'
    BY DEF DoneOK
  <2>1. wire'[g] = wire[g]
    BY <1>2, EmptySeq
  <2> QED
    BY <2>1, StoredGrows DEF DoneOK
<1> QED
    BY <1>1, <1>3, <1>5, <1>6

LEMMA ShownReceive ==
    ASSUME TypeInv, Shown, [Next]_vars, NEW g \in Generations, Receive(g)
    PROVE  Shown'
<1> USE DEF Shown
<1> DEFINE w == wire[g]
           f == Head(w)
<1>1. /\ w \in Seq(WireFrame) /\ w # <<>> /\ task[g] = "reading" /\ f.type # "refused"
      /\ view' = narrativeReducer(view, g, f)
      /\ UNCHANGED <<server, stored, mounted, abort, running, task>>
    BY DEF Receive, TypeInv, WireOK, panelVars
<1>2. wire'[g] = Tail(w) /\ \A j \in Generations \ {g} : wire'[j] = wire[j]
    BY DEF Receive, TypeInv, WireOK
<1>3. f \in WireFrame /\ f = w[1] /\ 1 \in 1..Len(w)
    BY <1>1, HeadTailProperties, EmptySeq
<1> HIDE DEF f
<1>4. /\ Screen(g)' = Taken(Screen(g), f)
      /\ \A j \in Generations \ {g} : Screen(j)' \subseteq Screen(j)
      /\ view'.status = "done" => /\ f.type = "done"
                                  /\ view'.result = g /\ view'.text = <<Final(g)>>
    BY <1>1, <1>3, ScreenReducer
<1>5. RunOK'
    BY <1>1 DEF RunOK
<1>6. QuietOK'
    BY <1>1, <1>2 DEF QuietOK
<1>7. EarlyOK'
    BY <1>1, <1>2, <1>4 DEF EarlyOK
<1>8. StreamsOK'
  <2>1. Stream(Tail(w), Taken(Screen(g), f), server[g].attempt, Writes(g))
    BY <1>1, StreamTaken DEF StreamsOK, f
  <2>2. \A j \in Generations : server'[j].attempt = server[j].attempt /\ (Writes(j)' <=> Writes(j))
    BY <1>1 DEF Writes
  <2>3. ASSUME NEW j \in Generations
        PROVE  Stream(wire[j], Screen(j), server[j].attempt, Writes(j))'
    <3>1. CASE j = g
      <4>1. Stream(Tail(w), Taken(Screen(g), f), server'[g].attempt, Writes(g)')
        BY <2>1, <2>2, StreamLess
      <4> QED
        BY <1>2, <1>4, <3>1, <4>1
    <3>2. CASE j # g
      BY <1>2, <1>4, <2>2, <3>2, StreamLess DEF StreamsOK
    <3> QED
      BY <3>1, <3>2
  <2> QED
    BY <2>3 DEF StreamsOK
<1>9. DoneOK'
  <2> SUFFICES ASSUME NEW j \in Generations, NEW i \in 1..Len(wire'[j]),
                      wire'[j][i].type = "done"
               PROVE  server'[j].pc = "ended" /\ IsStored(j)'
    BY DEF DoneOK
  <2>1. PICK m \in 1..Len(wire[j]) : wire[j][m].type = "done"
    <3>1. CASE j = g
      <4>1. i \in 1..Len(Tail(w)) /\ wire'[j][i] = Tail(w)[i]
        BY <1>2, <3>1
      <4>2. Len(Tail(w)) = Len(w) - 1 /\ Tail(w)[i] = w[i + 1] /\ Len(w) \in Nat
        BY <1>1, <4>1, HeadTailProperties, LenProperties
      <4>3. i + 1 \in 1..Len(w) /\ wire'[j][i] = w[i + 1]
        BY <4>1, <4>2
      <4> QED
        BY <3>1, <4>3
    <3>2. CASE j # g
      BY <1>2, <3>2
    <3> QED
      BY <3>1, <3>2
  <2> QED
    BY <1>1, <2>1, StoredGrows DEF DoneOK
<1>10. DoneShowsStored'
  <2> SUFFICES ASSUME view'.status = "done"
               PROVE  view'.result = g /\ view'.text = <<Final(g)>> /\ IsStored(g)'
    BY Bounds DEF DoneShowsStored
  <2>1. IsStored(g)
    BY <1>3, <1>4 DEF DoneOK
  <2> QED
    BY <1>4, <2>1, StoredGrows
<1> QED
    BY <1>5, <1>6, <1>7, <1>8, <1>9, <1>10

LEMMA ShownStart ==
    ASSUME TypeInv, FreshOK, Shown, [Next]_vars, NEW g \in Generations, Start(g)
    PROVE  Shown'
<1> USE DEF Shown
<1>1. /\ mounted /\ abort = None /\ task[g] = "none" /\ abort' = g /\ running' = TRUE
      /\ task' = [task EXCEPT ![g] = "reading"]
      /\ UNCHANGED <<wire, stored, mounted, view>>
    BY DEF Start
<1>2. /\ server'[g].pc = "asked" /\ \A j \in Generations \ {g} : server'[j] = server[j]
    BY DEF Start, TypeInv, ServerOK, Handler
<1>3. wire[g] = <<>> /\ Screen(g) = {}
    BY <1>1 DEF FreshOK, NewHandler, EarlyOK, Early
<1>4. \A j \in Generations : Screen(j)' = Screen(j)
    BY <1>1 DEF Screen
<1>5. task' \in [Generations -> Tasks] /\ task'[g] = "reading" /\ g # None
      /\ \A j \in Generations \ {g} : task'[j] = task[j]
    BY <1>1, Bounds DEF TypeInv, PanelOK, Tasks
<1>6. RunOK'
    BY <1>1, <1>5, Bounds DEF RunOK
<1>7. QuietOK'
    BY <1>1, <1>5 DEF QuietOK
<1>8. EarlyOK'
    BY <1>1, <1>2, <1>3, <1>4 DEF EarlyOK
<1>9. StreamsOK'
  <2>1. ~Writes(g)'
    BY <1>2 DEF Writes, Drafting
  <2>2. Stream(wire[g], Screen(g), server[g].attempt, Writes(g))'
    BY <1>1, <1>3, <1>4, <2>1, StreamEmpty
  <2>3. \A j \in Generations \ {g} : Writes(j)' <=> Writes(j)
    BY <1>2, <1>5 DEF Writes
  <2>4. ASSUME NEW j \in Generations \ {g}
        PROVE  Stream(wire[j], Screen(j), server[j].attempt, Writes(j))'
    BY <1>1, <1>2, <1>4, <2>3, StreamLess DEF StreamsOK
  <2> QED
    BY <2>2, <2>4 DEF StreamsOK
<1>10. DoneOK'
    BY <1>1, <1>2, <1>3, EmptySeq, StoredGrows DEF DoneOK
<1>11. DoneShowsStored'
    BY <1>1 DEF DoneShowsStored, IsStored
<1> QED
    BY <1>6, <1>7, <1>8, <1>9, <1>10, <1>11

LEMMA ShownNext ==
    ASSUME TypeInv, FreshOK, Shown, [Next]_vars
    PROVE  Shown'
<1>1. DoneShowsStored /\ UNCHANGED view => DoneShowsStored'
    BY StoredGrows DEF DoneShowsStored, TypeInv, ViewOK, View
<1>2. CASE ReIngest \/ ReAnalyze \/ Mount \/ UNCHANGED vars
  <2>1. UNCHANGED <<server, wire, abort, running, task, view>> /\ (mounted => mounted')
    BY <1>2 DEF ReIngest, ReAnalyze, Mount, vars, serverVars, panelVars
  <2>2. RunOK'
    BY <2>1 DEF Shown, RunOK
  <2>3. \A g \in Generations : Screen(g)' = Screen(g)
    BY <2>1 DEF Screen
  <2> QED
    BY <1>1, <2>1, <2>2, <2>3, ShownLess DEF Shown, QuietOK
<1>3. CASE Unmount \/ Stop
  <2>1. /\ UNCHANGED server /\ abort' = None /\ running' = FALSE
        /\ \A g \in Generations :
              /\ g = abort => task'[g] = "aborted" /\ wire'[g] = <<>>
              /\ g # abort => task'[g] = task[g] /\ wire'[g] = wire[g]
    BY <1>3 DEF Unmount, Stop, TypeInv, PanelOK, WireOK
  <2>2. UNCHANGED view \/ view' = initialView
    BY <1>3 DEF Unmount, Stop
  <2>3. \A g \in Generations : Screen(g)' \subseteq Screen(g)
    BY <2>2, EmptySeq DEF Screen, initialView
  <2>4. DoneShowsStored'
    BY <1>1, <2>2 DEF DoneShowsStored, initialView, Shown
  <2>5. RunOK'
    BY <2>1 DEF Shown, RunOK
  <2> QED
    BY <2>1, <2>3, <2>4, <2>5, ShownLess DEF Shown, RunOK, QuietOK
<1>4. ASSUME NEW g \in Generations,
             ReceiveRefusal(g) \/ StreamEnds(g) \/ TaskUnwinds(g) \/ ConnectionBreaks(g)
      PROVE  Shown'
  <2>1. /\ task' = [task EXCEPT ![g] = "over"] /\ Finally(g)
        /\ UNCHANGED <<server, mounted>>
        /\ wire'[g] = <<>> /\ \A j \in Generations \ {g} : wire'[j] = wire[j]
    BY <1>4 DEF ReceiveRefusal, StreamEnds, TaskUnwinds, ConnectionBreaks, Throw, serverVars,
                TypeInv, WireOK, Shown, QuietOK
  <2>2. task'[g] = "over" /\ \A j \in Generations \ {g} : task'[j] = task[j]
    BY <2>1 DEF TypeInv, PanelOK
  <2>3. RunOK'
    BY <2>1, <2>2 DEF Shown, RunOK, Finally, TypeInv, PanelOK
  <2>4. DoneShowsStored' /\ \A j \in Generations : Screen(j)' \subseteq Screen(j)
    <3>1. CASE UNCHANGED view
      BY <1>1, <3>1 DEF Shown, Screen
    <3>2. CASE ConnectionBreaks(g)
      <4>1. view'.text = <<>> /\ view'.status = "error"
        BY <3>2 DEF ConnectionBreaks, narrativeReducer, Frame, TypeInv, ViewOK, View
      <4> QED
        BY <4>1, EmptySeq DEF DoneShowsStored, Screen
    <3> QED
      BY <1>4, <3>1, <3>2 DEF ReceiveRefusal, StreamEnds, TaskUnwinds
  <2> QED
    BY <2>1, <2>2, <2>3, <2>4, ShownLess DEF Shown, QuietOK
<1> QED
    BY <1>2, <1>3, <1>4, ShownServer, ShownReceive, ShownStart DEF Next, TaskStep

LEMMA ShownIsShown == TypeInv /\ Shown => NarrativeIsShown
<1> SUFFICES ASSUME TypeInv, Shown PROVE NarrativeIsShown
    OBVIOUS
<1>1. NeverTwoDrafts
  <2> SUFFICES ASSUME NEW i \in 1..Len(view.text), NEW j \in 1..Len(view.text),
                      view.text[i].of = view.text[j].of
               PROVE  view.text[i].attempt = view.text[j].attempt
    BY DEF NeverTwoDrafts
  <2>1. view.text[i] \in Piece
    BY ElementOfSeq DEF TypeInv, ViewOK, View
  <2>2. PICK g \in Generations : view.text[i].of = g
    BY <2>1 DEF Piece
  <2>3. view.text[i].attempt \in Screen(g) /\ view.text[j].attempt \in Screen(g)
    BY <2>2 DEF Screen
  <2> QED
    BY <2>3 DEF Shown, StreamsOK, Stream
<1>2. NarrativeRunningIsHonest
  <2>1. abort \in Generations \cup {None}
    BY DEF TypeInv, PanelOK
  <2> QED
    BY <2>1, Bounds DEF Shown, RunOK, NarrativeRunningIsHonest
<1> QED
    BY <1>1, <1>2, TypeImplies DEF NarrativeIsShown, Shown

(* What the panel shows, for every number of requests, drafts, corrections *)
(* and tokens: the stored text once it says done, one draft of an answer   *)
(* at a time, and a button that is about what streams.                     *)
THEOREM NarrativeShownAlways == Spec => []NarrativeIsShown
<1>1. Init => TypeInv /\ FreshOK /\ Shown
    BY TypeInit, FreshInit, ShownInit
<1>2. TypeInv /\ FreshOK /\ Shown /\ [Next]_vars => (TypeInv /\ FreshOK /\ Shown)'
    BY TypeNext, FreshNext, ShownNext
<1> QED
    BY <1>1, <1>2, ShownIsShown, PTL DEF Spec
=============================================================================
