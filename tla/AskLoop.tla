------------------------------- MODULE AskLoop -------------------------------
(***************************************************************************)
(* One question, from the request to the stored turn: the tool loop of     *)
(* agent/agent-service.ts with its ceilings and its one correction, the    *)
(* frames of the route, and the transaction of agent/qa-store.ts, while    *)
(* the document it is about may be re-ingested or deleted.                 *)
(*                                                                         *)
(* Each action is the code between two awaits.  Which clauses a search     *)
(* finds and what the model writes are choices.                            *)
(***************************************************************************)
EXTENDS Grounding, StreamFrames

CONSTANTS
    Drafts,         \* texts the model may write
    MaxTurns,       \* MAX_TURNS
    MaxTokens,      \* MAX_OUTPUT_TOKENS_PER_REQUEST
    TurnTokens,     \* MAX_TOKENS_PER_TURN
    Costs,          \* output tokens of one turn
    MaxCorrections, \* MAX_CORRECTIONS
    MaxCalls,       \* bound: tool calls in one turn
    MaxRow          \* bound: ingest commits of the document

ASSUME CeilingsAssumption ==
    /\ Drafts \subseteq SUBSET Sentence
    /\ MaxTurns \in Nat \ {0}
    /\ MaxTokens \in Nat \ {0}
    /\ TurnTokens \in Nat
    /\ Costs \subseteq 0..TurnTokens
    /\ MaxCorrections \in Nat
    /\ MaxCalls \in Nat \ {0}
    /\ MaxRow \in Nat \ {0}

VARIABLES
    row,            \* the ingest commit the clause rows come from, 0 once deleted
    pc, turns, calls,
    spent,          \* usage.outputTokens
    citable,
    correctionCount,
    stopReason,
    answer, grounding,
    drafted,        \* history: correctionCount when the answer was written
    streamed,       \* text of the current turn has been streamed
    frame,          \* the last frame sent
    saved           \* the stored turn, if there is one

loopVars == <<turns, calls, spent, correctionCount, stopReason>>
textVars == <<citable, answer, grounding, drafted>>
vars == <<row, pc, loopVars, textVars, streamed, frame, saved>>

Running == {"converse", "tools", "execute", "save", "emit"}
StopReasons == {"end_turn", "max_tokens", "refusal", "tool_use",
                "budget_exhausted", "turn_limit"}
Citation == [ref: Refs, row: Nat]
Grounded == [ok: BOOLEAN, uncited: SUBSET Sentence, citations: SUBSET Citation]
Turn == [answer: SUBSET Sentence, grounded: BOOLEAN, uncited: SUBSET Sentence,
         citations: SUBSET Citation, corrected: BOOLEAN, drafted: Nat,
         citable: Citable, stopReason: StopReasons]

TypeOK ==
    /\ row \in 0..MaxRow
    /\ pc \in Running \cup {"ended", "dead"}
    /\ turns \in 1..MaxTurns
    /\ calls \in 0..MaxCalls
    /\ spent \in Nat
    /\ citable \in Citable
    /\ correctionCount \in 0..MaxCorrections
    /\ stopReason \in StopReasons
    /\ answer \in SUBSET Sentence
    /\ grounding \in Grounded
    /\ drafted \in 0..MaxCorrections
    /\ streamed \in BOOLEAN
    /\ frame \in Frames \cup {"none"}
    /\ saved \subseteq Turn

Init ==
    /\ row = 1
    /\ pc = "converse"
    /\ turns = 1 /\ calls = 0 /\ spent = 0
    /\ citable = NothingCitable
    /\ correctionCount = 0
    /\ stopReason = "end_turn"
    /\ answer = {} /\ grounding = Verdict({}, NothingCitable)
    /\ drafted = 0
    /\ streamed = FALSE
    /\ frame = "none"
    /\ saved = {}
-----------------------------------------------------------------------------
(* Leave the loop, or take the next turn if there is one: the head of the  *)
(* loop, and what follows it.                                              *)
Leave(reason) ==
    /\ pc' = "save"
    /\ stopReason' = reason
    /\ UNCHANGED <<turns, streamed>>

GoOn(reason) ==
    \/ /\ turns < MaxTurns
       /\ pc' = "converse"
       /\ turns' = turns + 1
       /\ streamed' = FALSE
       /\ stopReason' = reason
    \/ /\ turns >= MaxTurns
       /\ Leave(IF reason = "tool_use" THEN "turn_limit" ELSE reason)

(* Text deltas reach the client as they come, but not those of a           *)
(* regeneration.                                                           *)
StreamTokenAlways ==    \* streams the regeneration too
    /\ pc = "converse"
    /\ frame' = "token"
    /\ streamed' = TRUE
    /\ UNCHANGED <<row, pc, loopVars, textVars, saved>>

StreamToken ==
    /\ pc = "converse"
    /\ correctionCount = 0
    /\ frame' = "token"
    /\ streamed' = TRUE
    /\ UNCHANGED <<row, pc, loopVars, textVars, saved>>

(* The model asks for tools, with or without some words about it.          *)
AnswerWithTools(n, cost) ==
    /\ pc = "converse"
    /\ pc' = "tools"
    /\ calls' = n
    /\ spent' = spent + cost
    /\ stopReason' = "tool_use"
    /\ UNCHANGED <<row, turns, correctionCount, textVars, streamed, frame, saved>>

AfterCallUnchecked ==   \* without the token ceiling
    /\ calls' = calls - 1
    /\ \/ calls > 1 /\ pc' = "tools" /\ UNCHANGED <<turns, streamed, stopReason>>
       \/ calls = 1 /\ GoOn("tool_use")

AfterCall ==
    /\ calls' = calls - 1
    /\ \/ calls > 1 /\ pc' = "tools" /\ UNCHANGED <<turns, streamed, stopReason>>
       \/ calls = 1 /\ spent >= MaxTokens /\ Leave("budget_exhausted")
       \/ calls = 1 /\ spent < MaxTokens /\ GoOn("tool_use")

(* The calls of a turn are executed in their order.  The client is told of *)
(* every call, but not of the answer to a call of an unknown tool.         *)
CallUnknownTool ==
    /\ pc = "tools"
    /\ frame' = "tool_call"
    /\ AfterCall
    /\ UNCHANGED <<row, spent, correctionCount, textVars, saved>>

CallTool ==
    /\ pc = "tools"
    /\ frame' = "tool_call"
    /\ pc' = "execute"
    /\ UNCHANGED <<row, loopVars, textVars, streamed, saved>>

(* A tool surfaces clauses as they are now; one that throws surfaces none. *)
ToolReturns(surfaced) ==
    /\ pc = "execute"
    /\ row = 0 => surfaced = {}
    /\ citable' = [r \in Refs |-> IF r \in surfaced THEN row ELSE citable[r]]
    /\ frame' = "tool_result"
    /\ AfterCall
    /\ UNCHANGED <<row, spent, correctionCount, answer, grounding, drafted, saved>>
-----------------------------------------------------------------------------
(* The model answers.  An answer that fails the contract buys a critique   *)
(* and another turn, once.                                                 *)
AnswerWithTextKeepVerdict(draft, reason, cost) ==   \* keeps the first verdict
    /\ pc = "converse"
    /\ correctionCount = 0 => (streamed <=> draft # {})
    /\ spent' = spent + cost
    /\ answer' = draft
    /\ grounding' = IF correctionCount = 0 THEN Verdict(draft, citable) ELSE grounding
    /\ drafted' = correctionCount
    /\ \/ /\ grounding'.ok \/ correctionCount >= MaxCorrections \/ reason = "refusal"
          /\ Leave(reason)
          /\ UNCHANGED <<correctionCount, frame>>
       \/ /\ ~grounding'.ok /\ correctionCount < MaxCorrections /\ reason # "refusal"
          /\ correctionCount' = correctionCount + 1
          /\ frame' = "retry"
          /\ GoOn(reason)
    /\ UNCHANGED <<row, calls, citable, saved>>

AnswerWithTextEager(draft, reason, cost) == \* takes a truncated text as it is
    /\ pc = "converse"
    /\ correctionCount = 0 => (streamed <=> draft # {})
    /\ spent' = spent + cost
    /\ answer' = draft
    /\ grounding' = Verdict(draft, citable)
    /\ drafted' = correctionCount
    /\ \/ /\ \/ grounding'.ok \/ correctionCount >= MaxCorrections
             \/ reason \in {"refusal", "max_tokens"}
          /\ Leave(reason)
          /\ UNCHANGED <<correctionCount, frame>>
       \/ /\ ~grounding'.ok /\ correctionCount < MaxCorrections
          /\ reason \notin {"refusal", "max_tokens"}
          /\ correctionCount' = correctionCount + 1
          /\ frame' = "retry"
          /\ GoOn(reason)
    /\ UNCHANGED <<row, calls, citable, saved>>

AnswerWithText(draft, reason, cost) ==
    /\ pc = "converse"
    /\ correctionCount = 0 => (streamed <=> draft # {})
    /\ spent' = spent + cost
    /\ answer' = draft
    /\ grounding' = Verdict(draft, citable)
    /\ drafted' = correctionCount
    /\ \/ /\ grounding'.ok \/ correctionCount >= MaxCorrections \/ reason = "refusal"
          /\ Leave(reason)
          /\ UNCHANGED <<correctionCount, frame>>
       \/ /\ ~grounding'.ok /\ correctionCount < MaxCorrections /\ reason # "refusal"
          /\ correctionCount' = correctionCount + 1
          /\ frame' = "retry"
          /\ GoOn(reason)
    /\ UNCHANGED <<row, calls, citable, saved>>

(* The provider gave up; the route turns the exception into a frame.       *)
ConverseThrows ==
    /\ pc = "converse"
    /\ pc' = "ended"
    /\ frame' = "error"
    /\ UNCHANGED <<row, loopVars, textVars, streamed, saved>>
-----------------------------------------------------------------------------
StoredTurn ==
    [answer |-> answer, grounded |-> grounding.ok, uncited |-> grounding.uncited,
     citations |-> grounding.citations, corrected |-> correctionCount > 0,
     drafted |-> drafted, citable |-> citable, stopReason |-> stopReason]

(* The rows the turn refers to by foreign keys: its case, cited clauses.   *)
RowsThere == row # 0 /\ \A c \in grounding.citations : c.row = row

SaveTurnUnreferenced == \* the clause of a citation is not a foreign key
    /\ pc = "save"
    /\ row # 0
    /\ saved' = {StoredTurn}
    /\ pc' = "emit"
    /\ UNCHANGED <<row, loopVars, textVars, streamed, frame>>

SaveTurn ==
    /\ pc = "save"
    /\ RowsThere
    /\ saved' = {StoredTurn}
    /\ pc' = "emit"
    /\ UNCHANGED <<row, loopVars, textVars, streamed, frame>>

SaveThrowsHalfway ==    \* without a transaction the turn may stay
    /\ pc = "save"
    /\ saved' = IF row # 0 THEN {[StoredTurn EXCEPT !.citations = {}]} ELSE saved
    /\ pc' = "ended"
    /\ frame' = "error"
    /\ UNCHANGED <<row, loopVars, textVars, streamed>>

(* The transaction fails, on a foreign key or for any other reason.        *)
SaveThrows ==
    /\ pc = "save"
    /\ pc' = "ended"
    /\ frame' = "error"
    /\ UNCHANGED <<row, loopVars, textVars, streamed, saved>>

EmitDone ==
    /\ pc = "emit"
    /\ pc' = "ended"
    /\ frame' = "done"
    /\ UNCHANGED <<row, loopVars, textVars, streamed, saved>>
-----------------------------------------------------------------------------
(* A re-ingest replaces the clause rows, and citations go with theirs.     *)
Reingest ==
    /\ row \in 1..(MaxRow - 1)
    /\ row' = row + 1
    /\ saved' = {[t EXCEPT !.citations = {}] : t \in saved}
    /\ UNCHANGED <<pc, loopVars, textVars, streamed, frame>>

DeleteCase ==
    /\ row # 0
    /\ row' = 0
    /\ saved' = {}
    /\ UNCHANGED <<pc, loopVars, textVars, streamed, frame>>

(* The API process dies.                                                   *)
Crash ==
    /\ pc \in Running
    /\ pc' = "dead"
    /\ UNCHANGED <<row, loopVars, textVars, streamed, frame, saved>>

Next ==
    \/ StreamToken \/ ConverseThrows
    \/ \E n \in 1..MaxCalls, cost \in Costs : AnswerWithTools(n, cost)
    \/ CallUnknownTool \/ CallTool
    \/ \E surfaced \in SUBSET Refs : ToolReturns(surfaced)
    \/ \E draft \in Drafts, reason \in {"end_turn", "max_tokens", "refusal"},
          cost \in Costs : AnswerWithText(draft, reason, cost)
    \/ SaveTurn \/ SaveThrows \/ EmitDone
    \/ Reingest \/ DeleteCase \/ Crash

Spec == Init /\ [][Next]_vars
-----------------------------------------------------------------------------
(***************************************************************************)
(* Properties.                                                             *)
(***************************************************************************)
(* FR-5.1, "one question can never run away": the token ceiling is looked  *)
(* at only after a turn of tool calls, so a request may pass it, but by no *)
(* more than the answer and each regeneration may cost.                    *)
BudgetBounded == spent < MaxTokens + (MaxCorrections + 1) * TurnTokens

(* FR-5.2: a turn stored as grounded honours the contract against the      *)
(* clauses its own trace lists, although the verdict may stem from an      *)
(* earlier turn of the loop; what "could not be verified" is in the text.  *)
AnswerMatchesVerdict ==
    \A t \in saved :
       /\ t.grounded => Honours(t.answer, t.citable)
       /\ t.uncited \subseteq t.answer

(* An answer that fails the contract is stored only if the model refused,  *)
(* or its one correction has been spent.                                   *)
UngroundedWasCorrected ==
    \A t \in saved : ~t.grounded =>
       t.stopReason = "refusal" \/ (t.corrected /\ correctionCount = MaxCorrections)

(* Clauses stay citable for the rest of the request, however long ago a    *)
(* tool surfaced them; yet every citation that is stored points at a row   *)
(* that exists.                                                            *)
AnswerCitationsResolve ==
    \A t \in saved : \A c \in t.citations : row # 0 /\ c.row = row

(* The reader who was told that the question failed finds no turn of it in *)
(* the transcript, and the agent does not remember one.                    *)
ErrorLeavesNoTurn == frame = "error" => saved = {}

(* The client's view: every frame may follow the one before it.            *)
Stream == INSTANCE AgentFrames WITH retried <- correctionCount > 0
ImplementsFrames == Stream!Spec
=============================================================================
