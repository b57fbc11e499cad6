---------------------------- MODULE AskLoopProofs ----------------------------
(***************************************************************************)
(* The safety properties of AskLoop for every value of its constants, and  *)
(* that its frames are those of AgentFrames.                               *)
(***************************************************************************)
EXTENDS AskLoop, TLAPS

(***************************************************************************)
(* The contract.                                                           *)
(***************************************************************************)
LEMMA VerdictType ==
    ASSUME NEW d \in SUBSET Sentence, NEW c \in Citable
    PROVE  /\ Verdict(d, c) \in Grounded
           /\ Verdict(d, c).uncited \subseteq d
<1> DEFINE known == Known(c)
           uncited == {s \in d : s.asserts /\ ~s.aside /\ s.cites \cap known = {}}
           cited == {[ref |-> r, row |-> c[r]] : r \in Named(d) \cap known}
           ok == /\ uncited = {} /\ Named(d) \ known = {}
                 /\ \A s \in d : ~s.malformed
<1>1. Verdict(d, c) = [ok |-> ok, uncited |-> uncited, citations |-> cited]
    BY DEF Verdict
<1>2. cited \subseteq Citation
    BY DEF Citation, Citable, Known
<1>3. ok \in BOOLEAN /\ uncited \subseteq d
    OBVIOUS
<1> HIDE DEF ok, uncited, cited
<1> QED
    BY <1>1, <1>2, <1>3 DEF Grounded

(* A verdict of "ok" means what FR-5.2 asks for. *)
LEMMA VerdictSound ==
    ASSUME NEW d \in SUBSET Sentence, NEW c, Verdict(d, c).ok
    PROVE  Honours(d, c)
<1>1. /\ {s \in d : s.asserts /\ ~s.aside /\ s.cites \cap Known(c) = {}} = {}
      /\ Named(d) \ Known(c) = {}
      /\ \A s \in d : ~s.malformed
    BY DEF Verdict
<1>2. \A s \in d : s.cites \subseteq Named(d)
    BY DEF Named
<1> QED
    BY <1>1, <1>2 DEF Honours

(* An empty text makes no claim. *)
LEMMA EmptyIsGrounded ==
    ASSUME NEW c
    PROVE  Verdict({}, c).ok
<1>1. Named({}) = {}
    BY DEF Named
<1> QED
    BY <1>1 DEF Verdict

(* What honours the contract goes on doing so when more is surfaced. *)
LEMMA HonoursGrows ==
    ASSUME NEW d, NEW c, NEW e, Known(c) \subseteq Known(e), Honours(d, c)
    PROVE  Honours(d, e)
BY DEF Honours
-----------------------------------------------------------------------------
(***************************************************************************)
(* Types.  The calls of a turn are counted down to the end of the turn.    *)
(***************************************************************************)
TypeInv ==
    /\ TypeOK
    /\ pc \in {"tools", "execute"} => calls > 0

LEMMA TypeInit == Init => TypeInv
<1> SUFFICES ASSUME Init PROVE TypeInv
    OBVIOUS
<1>1. NothingCitable \in Citable
    BY DEF NothingCitable, Citable
<1>2. grounding \in Grounded
    BY <1>1, VerdictType DEF Init
<1>3. MaxTurns \in Nat \ {0} /\ MaxCalls \in Nat \ {0} /\ MaxRow \in Nat \ {0}
      /\ MaxCorrections \in Nat
    BY CeilingsAssumption DEF CeilingsAssumption
<1>4. /\ row \in 0..MaxRow /\ turns \in 1..MaxTurns /\ calls \in 0..MaxCalls
      /\ spent \in Nat /\ correctionCount \in 0..MaxCorrections
      /\ drafted \in 0..MaxCorrections
    BY <1>3 DEF Init
<1>5. /\ pc \in Running /\ ~(pc \in {"tools", "execute"})
      /\ stopReason \in StopReasons
      /\ streamed \in BOOLEAN /\ frame \in Frames \cup {"none"}
    BY DEF Init, Running, StopReasons
<1>6. citable \in Citable /\ answer \in SUBSET Sentence /\ saved \subseteq Turn
    BY <1>1 DEF Init
<1> QED
    BY <1>2, <1>4, <1>5, <1>6 DEF TypeInv, TypeOK

LEMMA GoOnType ==
    ASSUME TypeOK, NEW reason \in StopReasons, GoOn(reason)
    PROVE  /\ pc' \in {"converse", "save"}
           /\ turns' \in 1..MaxTurns
           /\ stopReason' \in StopReasons
           /\ streamed' \in BOOLEAN
<1>1. MaxTurns \in Nat /\ turns \in 1..MaxTurns /\ streamed \in BOOLEAN
    BY CeilingsAssumption DEF CeilingsAssumption, TypeOK
<1>2. "turn_limit" \in StopReasons
    BY DEF StopReasons
<1>3. CASE turns < MaxTurns /\ pc' = "converse" /\ turns' = turns + 1
             /\ streamed' = FALSE /\ stopReason' = reason
  <2>1. turns + 1 \in 1..MaxTurns
    BY <1>1, <1>3
  <2> QED
    BY <2>1, <1>3, Zenon
<1>4. CASE Leave(IF reason = "tool_use" THEN "turn_limit" ELSE reason)
    BY <1>1, <1>2, <1>4 DEF Leave
<1> QED
    BY <1>3, <1>4 DEF GoOn

LEMMA AfterCallType ==
    ASSUME TypeInv, pc \in {"tools", "execute"}, AfterCall
    PROVE  /\ pc' \in {"tools", "converse", "save"}
           /\ pc' = "tools" => calls' > 0
           /\ calls' \in 0..MaxCalls
           /\ turns' \in 1..MaxTurns
           /\ stopReason' \in StopReasons
           /\ streamed' \in BOOLEAN
<1>1. calls \in 1..MaxCalls /\ MaxCalls \in Nat
    BY CeilingsAssumption DEF CeilingsAssumption, TypeInv, TypeOK
<1>2. calls' = calls - 1
    BY DEF AfterCall
<1>3. "tool_use" \in StopReasons /\ "budget_exhausted" \in StopReasons
    BY DEF StopReasons
<1>4. CASE calls > 1 /\ pc' = "tools" /\ UNCHANGED <<turns, streamed, stopReason>>
    BY <1>1, <1>2, <1>4 DEF TypeInv, TypeOK
<1>5. CASE calls = 1 /\ Leave("budget_exhausted")
    BY <1>1, <1>2, <1>3, <1>5 DEF TypeInv, TypeOK, Leave
<1>6. CASE calls = 1 /\ GoOn("tool_use")
    BY <1>1, <1>2, <1>3, <1>6, GoOnType DEF TypeInv
<1> QED
    BY <1>4, <1>5, <1>6 DEF AfterCall

(* A draft, and what validateGrounding says of it. *)
LEMMA DraftType ==
    ASSUME TypeOK, NEW draft \in Drafts
    PROVE  /\ draft \in SUBSET Sentence
           /\ Verdict(draft, citable) \in Grounded
<1>1. draft \in SUBSET Sentence /\ citable \in Citable
    BY CeilingsAssumption DEF CeilingsAssumption, TypeOK
<1> QED
    BY <1>1, VerdictType

LEMMA AnswerType ==
    ASSUME TypeOK, NEW draft \in Drafts,
           NEW reason \in {"end_turn", "max_tokens", "refusal"}, NEW cost \in Costs,
           AnswerWithText(draft, reason, cost)
    PROVE  /\ pc' \in {"converse", "save"}
           /\ turns' \in 1..MaxTurns
           /\ stopReason' \in StopReasons
           /\ streamed' \in BOOLEAN
           /\ correctionCount' \in 0..MaxCorrections
           /\ frame' \in {frame, "retry"}
<1>1. reason \in StopReasons
    BY DEF StopReasons
<1>2. CASE Leave(reason) /\ UNCHANGED <<correctionCount, frame>>
    BY <1>1, <1>2 DEF Leave, TypeOK
<1>3. CASE /\ correctionCount < MaxCorrections /\ correctionCount' = correctionCount + 1
           /\ frame' = "retry" /\ GoOn(reason)
  <2>1. correctionCount' \in 0..MaxCorrections
    BY <1>3, CeilingsAssumption DEF CeilingsAssumption, TypeOK
  <2> QED
    BY <1>1, <1>3, <2>1, GoOnType
<1> QED
    BY <1>2, <1>3 DEF AnswerWithText

LEMMA TypeStep == TypeInv /\ [Next]_vars => TypeInv'
<1> SUFFICES ASSUME TypeInv, [Next]_vars PROVE TypeInv'
    OBVIOUS
<1>a. TypeOK
    BY DEF TypeInv
<1>1. CASE StreamToken
    BY <1>1 DEF TypeInv, TypeOK, StreamToken, loopVars, textVars, Frames
<1>2. CASE ConverseThrows
    BY <1>2 DEF TypeInv, TypeOK, ConverseThrows, loopVars, textVars, Frames
<1>3. ASSUME NEW n \in 1..MaxCalls, NEW cost \in Costs, AnswerWithTools(n, cost)
      PROVE TypeInv'
  <2>1. cost \in Nat /\ n \in 0..MaxCalls /\ n > 0
    BY CeilingsAssumption DEF CeilingsAssumption
  <2>2. calls' = n /\ spent' = spent + cost /\ spent' \in Nat
    BY <1>3, <2>1 DEF AnswerWithTools, TypeInv, TypeOK
  <2>3. pc' \in Running /\ stopReason' \in StopReasons
    BY <1>3 DEF AnswerWithTools, Running, StopReasons
  <2>4. UNCHANGED <<row, turns, correctionCount, textVars, streamed, frame, saved>>
    BY <1>3 DEF AnswerWithTools
  <2> QED
    BY <2>1, <2>2, <2>3, <2>4 DEF TypeInv, TypeOK, textVars
<1>4. CASE CallUnknownTool
  <2>1. pc \in {"tools", "execute"} /\ AfterCall
    BY <1>4 DEF CallUnknownTool
  <2>2. frame' \in Frames
    BY <1>4 DEF CallUnknownTool, Frames
  <2>3. UNCHANGED <<row, spent, correctionCount, textVars, saved>>
    BY <1>4 DEF CallUnknownTool
  <2> QED
    BY <2>1, <2>2, <2>3, <1>a, AfterCallType DEF TypeInv, TypeOK, textVars, Running
<1>5. CASE CallTool
    BY <1>5 DEF TypeInv, TypeOK, CallTool, loopVars, textVars, Frames, Running
<1>6. ASSUME NEW surfaced \in SUBSET Refs, ToolReturns(surfaced) PROVE TypeInv'
  <2>1. pc \in {"tools", "execute"} /\ AfterCall
    BY <1>6 DEF ToolReturns
  <2>2. frame' \in Frames
    BY <1>6 DEF ToolReturns, Frames
  <2>3. row \in Nat
    BY <1>a DEF TypeOK
  <2>4. citable' \in Citable
    BY <1>6, <1>a, <2>3 DEF ToolReturns, Citable, TypeOK
  <2>5. UNCHANGED <<row, spent, correctionCount, answer, grounding, drafted, saved>>
    BY <1>6 DEF ToolReturns
  <2> QED
    BY <2>1, <2>2, <2>4, <2>5, <1>a, AfterCallType DEF TypeInv, TypeOK, Running
<1>7. ASSUME NEW draft \in Drafts,
             NEW reason \in {"end_turn", "max_tokens", "refusal"}, NEW cost \in Costs,
             AnswerWithText(draft, reason, cost)
      PROVE TypeInv'
  <2>1. cost \in Nat
    BY CeilingsAssumption DEF CeilingsAssumption
  <2>2. spent' \in Nat
    BY <1>7, <1>a, <2>1 DEF AnswerWithText, TypeOK
  <2>3. answer' \in SUBSET Sentence /\ grounding' \in Grounded
    BY <1>7, <1>a, DraftType DEF AnswerWithText
  <2>4. drafted' \in 0..MaxCorrections /\ frame' \in Frames \cup {"none"}
    BY <1>7, <1>a, AnswerType DEF AnswerWithText, TypeOK, Frames
  <2>5. UNCHANGED <<row, calls, citable, saved>>
    BY <1>7 DEF AnswerWithText
  <2> QED
    BY <1>7, <1>a, <2>2, <2>3, <2>4, <2>5, AnswerType DEF TypeInv, TypeOK, Running
<1>8. CASE SaveTurn
  <2>1. StoredTurn \in Turn
    BY <1>a, CeilingsAssumption DEF CeilingsAssumption, TypeOK, StoredTurn, Turn, Grounded
  <2> QED
    BY <1>8, <2>1 DEF TypeInv, TypeOK, SaveTurn, loopVars, textVars, Running
<1>9. CASE SaveThrows \/ EmitDone
    BY <1>9 DEF TypeInv, TypeOK, SaveThrows, EmitDone, loopVars, textVars, Frames
<1>10. CASE Reingest
  <2>1. \A t \in Turn : [t EXCEPT !.citations = {}] \in Turn
    BY DEF Turn
  <2>2. saved' \subseteq Turn
    BY <1>10, <2>1 DEF Reingest, TypeInv, TypeOK
  <2>3. row' \in 0..MaxRow
    BY <1>10, CeilingsAssumption DEF CeilingsAssumption, Reingest
  <2>4. UNCHANGED <<pc, loopVars, textVars, streamed, frame>>
    BY <1>10 DEF Reingest
  <2> QED
    BY <2>2, <2>3, <2>4 DEF TypeInv, TypeOK, loopVars, textVars
<1>11. CASE DeleteCase
  <2>1. row' \in 0..MaxRow /\ saved' = {}
    BY <1>11, CeilingsAssumption DEF CeilingsAssumption, DeleteCase
  <2>2. UNCHANGED <<pc, loopVars, textVars, streamed, frame>>
    BY <1>11 DEF DeleteCase
  <2> QED
    BY <2>1, <2>2 DEF TypeInv, TypeOK, loopVars, textVars
<1>12. CASE Crash
    BY <1>12 DEF TypeInv, TypeOK, Crash, loopVars, textVars
<1>13. CASE UNCHANGED vars
    BY <1>13 DEF TypeInv, TypeOK, vars, loopVars, textVars
<1> QED
    BY <1>1, <1>2, <1>3, <1>4, <1>5, <1>6, <1>7, <1>8, <1>9, <1>10, <1>11, <1>12, <1>13
    DEF Next

LEMMA TypeAlways == Spec => []TypeInv
BY TypeInit, TypeStep, PTL DEF Spec

(* Every variable keeps its type, and what the loop counts stays within    *)
(* its ceilings, for every choice of them.                                 *)
THEOREM TypeCorrect == Spec => []TypeOK
<1>1. TypeInv => TypeOK
    BY DEF TypeInv
<1> QED
    BY <1>1, TypeAlways, PTL
-----------------------------------------------------------------------------
(***************************************************************************)
(* The budget.  Every correction may cost one turn's tokens beyond the     *)
(* ceiling, because only a turn of tool calls looks at it: a turn begins   *)
(* below the ceiling raised by the corrections so far, and ends below the  *)
(* ceiling raised by one turn more.                                        *)
(***************************************************************************)
BudgetInv ==
    /\ TypeInv
    /\ pc = "converse" => spent < MaxTokens + correctionCount * TurnTokens
    /\ spent < MaxTokens + (correctionCount + 1) * TurnTokens

LEMMA Products ==
    ASSUME NEW a \in Nat, NEW b \in Nat, NEW t \in Nat, a <= b
    PROVE  /\ a * t \in Nat /\ (a + 1) * t = a * t + t
           /\ a * t <= b * t
<1>1. PICK k \in Nat : b = a + k
    BY SMT
<1>2. a * t \in Nat /\ k * t \in Nat
    BY SMT
<1>3. (a + k) * t = a * t + k * t /\ (a + 1) * t = a * t + t
    BY SMT
<1> QED
    BY <1>1, <1>2, <1>3

LEMMA BudgetInit == Init => BudgetInv
<1> SUFFICES ASSUME Init PROVE BudgetInv
    OBVIOUS
<1>1. spent = 0 /\ correctionCount = 0
    BY DEF Init
<1>2. MaxTokens \in Nat \ {0} /\ TurnTokens \in Nat
    BY CeilingsAssumption DEF CeilingsAssumption
<1>3. 0 * TurnTokens = 0 /\ (0 + 1) * TurnTokens = TurnTokens
    BY <1>2
<1> QED
    BY <1>1, <1>2, <1>3, TypeInit DEF BudgetInv

LEMMA BudgetStep == BudgetInv /\ [Next]_vars => BudgetInv'
<1> SUFFICES ASSUME BudgetInv, [Next]_vars PROVE BudgetInv'
    OBVIOUS
<1>a. TypeInv' /\ TypeOK
    BY TypeStep DEF BudgetInv, TypeInv
<1>b. /\ spent \in Nat /\ MaxTokens \in Nat /\ TurnTokens \in Nat
      /\ correctionCount \in Nat /\ MaxCorrections \in Nat
    BY <1>a, CeilingsAssumption DEF CeilingsAssumption, TypeOK
<1>c. /\ correctionCount * TurnTokens \in Nat
      /\ (correctionCount + 1) * TurnTokens = correctionCount * TurnTokens + TurnTokens
    BY <1>b, Products
<1>d. \A cost \in Costs : cost \in Nat /\ cost <= TurnTokens
    BY <1>b, CeilingsAssumption DEF CeilingsAssumption
<1>1. CASE /\ UNCHANGED <<spent, correctionCount>>
           /\ pc' = "converse" => pc = "converse" \/ spent < MaxTokens
  <2>1. pc' = "converse" => spent' < MaxTokens + correctionCount' * TurnTokens
    BY <1>1, <1>b, <1>c DEF BudgetInv
  <2> QED
    BY <1>1, <1>a, <2>1 DEF BudgetInv
<1>2. ASSUME NEW n \in 1..MaxCalls, NEW cost \in Costs, AnswerWithTools(n, cost)
      PROVE BudgetInv'
  <2>1. /\ pc = "converse" /\ pc' = "tools" /\ spent' = spent + cost
        /\ correctionCount' = correctionCount
    BY <1>2 DEF AnswerWithTools
  <2>2. spent < MaxTokens + correctionCount * TurnTokens
    BY <2>1 DEF BudgetInv
  <2>3. spent' < MaxTokens + (correctionCount' + 1) * TurnTokens
    BY <2>1, <2>2, <1>b, <1>c, <1>d
  <2> QED
    BY <2>1, <2>3, <1>a DEF BudgetInv
<1>3. ASSUME NEW draft \in Drafts,
             NEW reason \in {"end_turn", "max_tokens", "refusal"}, NEW cost \in Costs,
             AnswerWithText(draft, reason, cost)
      PROVE BudgetInv'
  <2>1. pc = "converse" /\ spent' = spent + cost
    BY <1>3 DEF AnswerWithText
  <2>2. spent < MaxTokens + correctionCount * TurnTokens
    BY <2>1 DEF BudgetInv
  <2>3. spent' < MaxTokens + (correctionCount + 1) * TurnTokens
    BY <2>1, <2>2, <1>b, <1>c, <1>d
  <2>4. CASE Leave(reason) /\ correctionCount' = correctionCount
    <3>1. pc' = "save"
      BY <2>4 DEF Leave
    <3> QED
      BY <3>1, <2>3, <2>4, <1>a DEF BudgetInv
  <2>5. CASE correctionCount' = correctionCount + 1
    <3>1. (correctionCount' + 1) * TurnTokens
            = correctionCount' * TurnTokens + TurnTokens
      BY <2>5, <1>b, Products
    <3>2. correctionCount' * TurnTokens \in Nat
      BY <2>5, <1>b, Products
    <3>3. spent' < MaxTokens + correctionCount' * TurnTokens
      BY <2>3, <2>5
    <3>4. spent' \in Nat
      BY <1>a DEF TypeInv, TypeOK
    <3>5. spent' < MaxTokens + (correctionCount' + 1) * TurnTokens
      BY <3>1, <3>2, <3>3, <3>4, <1>b
    <3> QED
      BY <3>3, <3>5, <1>a DEF BudgetInv
  <2> QED
    BY <1>3, <2>4, <2>5 DEF AnswerWithText
<1>4. CASE StreamToken \/ ConverseThrows \/ CallTool
    BY <1>1, <1>4 DEF StreamToken, ConverseThrows, CallTool, loopVars
<1>5. CASE CallUnknownTool \/ \E surfaced \in SUBSET Refs : ToolReturns(surfaced)
  <2>1. AfterCall /\ UNCHANGED <<spent, correctionCount>>
    BY <1>5 DEF CallUnknownTool, ToolReturns
  <2>2. pc' = "converse" => spent < MaxTokens
    BY <2>1 DEF AfterCall, Leave
  <2> QED
    BY <1>1, <2>1, <2>2
<1>6. CASE SaveTurn \/ SaveThrows \/ EmitDone \/ Crash
    BY <1>1, <1>6 DEF SaveTurn, SaveThrows, EmitDone, Crash, loopVars
<1>7. CASE Reingest \/ DeleteCase \/ UNCHANGED vars
    BY <1>1, <1>7 DEF Reingest, DeleteCase, vars, loopVars
<1> QED
    BY <1>2, <1>3, <1>4, <1>5, <1>6, <1>7 DEF Next

(* FR-5.1: one question can never run away.  For every choice of the       *)
(* ceilings a request spends less than the ceiling plus one turn for its   *)
(* answer and one for each correction.                                     *)
THEOREM BudgetHolds == Spec => []BudgetBounded
<1>1. BudgetInv => BudgetBounded
  <2> SUFFICES ASSUME BudgetInv PROVE BudgetBounded
    OBVIOUS
  <2>1. /\ correctionCount \in Nat /\ MaxCorrections \in Nat /\ spent \in Nat
        /\ correctionCount + 1 <= MaxCorrections + 1
        /\ TurnTokens \in Nat /\ MaxTokens \in Nat
    BY CeilingsAssumption DEF CeilingsAssumption, BudgetInv, TypeInv, TypeOK
  <2>2. /\ (correctionCount + 1) * TurnTokens <= (MaxCorrections + 1) * TurnTokens
        /\ (correctionCount + 1) * TurnTokens \in Nat
        /\ (MaxCorrections + 1) * TurnTokens \in Nat
    BY <2>1, Products
  <2>3. spent < MaxTokens + (correctionCount + 1) * TurnTokens
    BY DEF BudgetInv
  <2> QED
    BY <2>1, <2>2, <2>3 DEF BudgetBounded
<1> QED
    BY <1>1, BudgetInit, BudgetStep, PTL DEF Spec
-----------------------------------------------------------------------------
(***************************************************************************)
(* The answer and what is stored of it.  The verdict is computed once, on  *)
(* the clauses surfaced by then; it stays true because the citable set     *)
(* only grows, and the turn is stored once, at the end.                    *)
(***************************************************************************)
AnswerInv ==
    /\ TypeInv
    /\ grounding.ok => Honours(answer, citable)
    /\ grounding.uncited \subseteq answer
    /\ pc \in {"converse", "tools", "execute", "save"} => saved = {}
    /\ AnswerMatchesVerdict

LEMMA AnswerInit == Init => AnswerInv
<1> SUFFICES ASSUME Init PROVE AnswerInv
    OBVIOUS
<1>1. NothingCitable \in Citable
    BY DEF NothingCitable, Citable
<1>2. answer = {} /\ grounding = Verdict({}, NothingCitable) /\ saved = {}
    BY DEF Init
<1>3. Honours({}, citable) /\ Verdict({}, NothingCitable).uncited \subseteq {}
    BY <1>1, VerdictType DEF Honours
<1> QED
    BY <1>2, <1>3, TypeInit DEF AnswerInv, AnswerMatchesVerdict

LEMMA AnswerStep == AnswerInv /\ [Next]_vars => AnswerInv'
<1> SUFFICES ASSUME AnswerInv, [Next]_vars PROVE AnswerInv'
    OBVIOUS
<1>a. TypeInv' /\ TypeOK
    BY TypeStep DEF AnswerInv, TypeInv
<1>1. CASE /\ UNCHANGED textVars
           /\ saved' = saved \/ saved' = {}
           /\ pc' \in {"converse", "tools", "execute", "save"}
                => pc \in {"converse", "tools", "execute", "save"}
    BY <1>1, <1>a DEF AnswerInv, AnswerMatchesVerdict, textVars
<1>2. CASE StreamToken \/ ConverseThrows \/ CallTool
    BY <1>1, <1>2 DEF StreamToken, ConverseThrows, CallTool, loopVars
<1>3. CASE \E n \in 1..MaxCalls, cost \in Costs : AnswerWithTools(n, cost)
    BY <1>1, <1>3 DEF AnswerWithTools
<1>4. CASE CallUnknownTool
    BY <1>1, <1>4 DEF CallUnknownTool
<1>5. ASSUME NEW surfaced \in SUBSET Refs, ToolReturns(surfaced) PROVE AnswerInv'
  <2>1. /\ pc = "execute"
        /\ row = 0 => surfaced = {}
        /\ citable' = [r \in Refs |-> IF r \in surfaced THEN row ELSE citable[r]]
        /\ UNCHANGED <<answer, grounding, saved>>
    BY <1>5 DEF ToolReturns
  <2>2. Known(citable) \subseteq Known(citable')
    BY <2>1, <1>a DEF Known, TypeOK, Citable
  <2>3. saved' = {}
    BY <2>1 DEF AnswerInv
  <2> QED
    BY <2>1, <2>2, <2>3, <1>a, HonoursGrows DEF AnswerInv, AnswerMatchesVerdict
<1>6. ASSUME NEW draft \in Drafts,
             NEW reason \in {"end_turn", "max_tokens", "refusal"}, NEW cost \in Costs,
             AnswerWithText(draft, reason, cost)
      PROVE AnswerInv'
  <2>1. /\ pc = "converse" /\ answer' = draft
        /\ grounding' = Verdict(draft, citable)
        /\ UNCHANGED <<citable, saved>>
    BY <1>6 DEF AnswerWithText
  <2>2. draft \in SUBSET Sentence /\ citable \in Citable
    BY <1>a, DraftType DEF TypeOK
  <2>3. /\ grounding'.ok => Honours(answer', citable')
        /\ grounding'.uncited \subseteq answer'
    BY <2>1, <2>2, VerdictType, VerdictSound
  <2>4. saved' = {}
    BY <2>1 DEF AnswerInv
  <2> QED
    BY <2>3, <2>4, <1>a DEF AnswerInv, AnswerMatchesVerdict
<1>7. CASE SaveTurn
  <2>1. /\ saved' = {StoredTurn} /\ pc' = "emit"
        /\ UNCHANGED textVars
    BY <1>7 DEF SaveTurn
  <2>2. /\ StoredTurn.grounded = grounding.ok
        /\ StoredTurn.uncited = grounding.uncited
        /\ StoredTurn.answer = answer
        /\ StoredTurn.citable = citable
    BY DEF StoredTurn
  <2> QED
    BY <2>1, <2>2, <1>a DEF AnswerInv, AnswerMatchesVerdict, textVars
<1>8. CASE SaveThrows \/ EmitDone \/ Crash
  <2>1. UNCHANGED textVars /\ saved' = saved /\ pc' \in {"ended", "dead"}
    BY <1>8 DEF SaveThrows, EmitDone, Crash
  <2> QED
    BY <1>1, <2>1
<1>9. CASE Reingest
  <2>1. /\ UNCHANGED textVars /\ pc' = pc
        /\ saved' = {[t EXCEPT !.citations = {}] : t \in saved}
    BY <1>9 DEF Reingest
  <2>2. saved \subseteq Turn
    BY <1>a DEF TypeOK
  <2>3. \A t \in Turn : LET u == [t EXCEPT !.citations = {}] IN
          /\ u.grounded = t.grounded /\ u.answer = t.answer
          /\ u.citable = t.citable /\ u.uncited = t.uncited
    BY DEF Turn
  <2>4. ASSUME NEW u \in saved'
        PROVE  /\ u.grounded => Honours(u.answer, u.citable)
               /\ u.uncited \subseteq u.answer
    <3>1. PICK t \in saved : u = [t EXCEPT !.citations = {}]
      BY <2>1
    <3>2. /\ t.grounded => Honours(t.answer, t.citable)
          /\ t.uncited \subseteq t.answer
      BY DEF AnswerInv, AnswerMatchesVerdict
    <3>3. /\ u.grounded = t.grounded /\ u.answer = t.answer
          /\ u.citable = t.citable /\ u.uncited = t.uncited
      BY <2>2, <2>3, <3>1
    <3> QED
      BY <3>2, <3>3
  <2>5. AnswerMatchesVerdict'
    BY <2>4 DEF AnswerMatchesVerdict
  <2> QED
    BY <2>1, <2>5, <1>a DEF AnswerInv, textVars
<1>10. CASE DeleteCase \/ UNCHANGED vars
    BY <1>1, <1>10 DEF DeleteCase, vars
<1> QED
    BY <1>2, <1>3, <1>4, <1>5, <1>6, <1>7, <1>8, <1>9, <1>10 DEF Next

(* FR-5.2: whatever detours through tools, corrections and ceilings led to *)
(* it, a turn stored as grounded honours the contract against the clauses  *)
(* its trace lists, and what could not be verified is in the answer.       *)
THEOREM VerdictStands == Spec => []AnswerMatchesVerdict
<1>1. AnswerInv => AnswerMatchesVerdict
    BY DEF AnswerInv
<1> QED
    BY <1>1, AnswerInit, AnswerStep, PTL DEF Spec
-----------------------------------------------------------------------------
(***************************************************************************)
(* The correction.  The loop goes on with a rejected answer in hand only   *)
(* after it has spent its correction.                                      *)
(***************************************************************************)
CorrectionInv ==
    /\ AnswerInv
    /\ ~grounding.ok =>
          \/ correctionCount = MaxCorrections
          \/ stopReason = "refusal" /\ pc \notin {"converse", "tools", "execute"}
    /\ UngroundedWasCorrected

LEMMA CorrectionInit == Init => CorrectionInv
BY AnswerInit, EmptyIsGrounded DEF Init, CorrectionInv, UngroundedWasCorrected

LEMMA CorrectionStep ==
    ASSUME MaxCorrections = 1
    PROVE  CorrectionInv /\ [Next]_vars => CorrectionInv'
<1> SUFFICES ASSUME CorrectionInv, [Next]_vars PROVE CorrectionInv'
    OBVIOUS
<1>a. AnswerInv' /\ TypeOK
    BY AnswerStep DEF CorrectionInv, AnswerInv, TypeInv
<1>1. CASE /\ UNCHANGED <<grounding, correctionCount>>
           /\ saved' = saved \/ saved' = {}
           /\ \/ pc \in {"converse", "tools", "execute"}
              \/ UNCHANGED stopReason /\ pc' \notin {"converse", "tools", "execute"}
    BY <1>1, <1>a DEF CorrectionInv, UngroundedWasCorrected
<1>2. CASE StreamToken \/ ConverseThrows \/ CallTool
    BY <1>1, <1>2 DEF StreamToken, ConverseThrows, CallTool, textVars, loopVars
<1>3. CASE \E n \in 1..MaxCalls, cost \in Costs : AnswerWithTools(n, cost)
    BY <1>1, <1>3 DEF AnswerWithTools, textVars
<1>4. CASE CallUnknownTool \/ \E surfaced \in SUBSET Refs : ToolReturns(surfaced)
    BY <1>1, <1>4 DEF CallUnknownTool, ToolReturns, textVars
<1>5. ASSUME NEW draft \in Drafts,
             NEW reason \in {"end_turn", "max_tokens", "refusal"}, NEW cost \in Costs,
             AnswerWithText(draft, reason, cost)
      PROVE CorrectionInv'
  <2>1. pc = "converse" /\ saved' = saved
    BY <1>5 DEF AnswerWithText
  <2>2. saved' = {}
    BY <2>1 DEF CorrectionInv, AnswerInv
  <2>3. correctionCount \in 0..1
    BY <1>a DEF TypeOK
  <2>4. \/ /\ grounding'.ok \/ correctionCount >= MaxCorrections \/ reason = "refusal"
           /\ Leave(reason) /\ correctionCount' = correctionCount
        \/ correctionCount < MaxCorrections /\ correctionCount' = correctionCount + 1
    BY <1>5 DEF AnswerWithText
  <2>5. CASE /\ grounding'.ok \/ correctionCount >= MaxCorrections \/ reason = "refusal"
             /\ Leave(reason) /\ correctionCount' = correctionCount
    <3>1. correctionCount >= MaxCorrections => correctionCount' = MaxCorrections
      BY <2>3, <2>5
    <3>2. stopReason' = reason /\ pc' = "save"
      BY <2>5 DEF Leave
    <3> QED
      BY <2>2, <2>5, <3>1, <3>2, <1>a DEF CorrectionInv, UngroundedWasCorrected
  <2>6. CASE correctionCount < MaxCorrections /\ correctionCount' = correctionCount + 1
    <3>1. correctionCount' = MaxCorrections
      BY <2>3, <2>6
    <3> QED
      BY <2>2, <3>1, <1>a DEF CorrectionInv, UngroundedWasCorrected
  <2> QED
    BY <2>4, <2>5, <2>6
<1>6. CASE SaveTurn
  <2>1. /\ pc = "save" /\ pc' = "emit" /\ saved' = {StoredTurn}
        /\ UNCHANGED <<grounding, correctionCount, stopReason>>
    BY <1>6 DEF SaveTurn, loopVars, textVars
  <2>2. /\ StoredTurn.grounded = grounding.ok
        /\ StoredTurn.stopReason = stopReason
        /\ StoredTurn.corrected = (correctionCount > 0)
    BY DEF StoredTurn
  <2>3. ~grounding.ok =>
           \/ stopReason = "refusal"
           \/ correctionCount > 0 /\ correctionCount = MaxCorrections
    BY DEF CorrectionInv
  <2> QED
    BY <2>1, <2>2, <2>3, <1>a DEF CorrectionInv, UngroundedWasCorrected
<1>7. CASE SaveThrows \/ EmitDone \/ Crash \/ DeleteCase \/ UNCHANGED vars
    BY <1>1, <1>7
    DEF SaveThrows, EmitDone, Crash, DeleteCase, vars, loopVars, textVars
<1>8. CASE Reingest
  <2>1. /\ UNCHANGED <<grounding, correctionCount, stopReason, pc>>
        /\ saved' = {[t EXCEPT !.citations = {}] : t \in saved}
    BY <1>8 DEF Reingest, loopVars, textVars
  <2>2. ASSUME NEW u \in saved', ~u.grounded
        PROVE u.stopReason = "refusal"
                \/ (u.corrected /\ correctionCount' = MaxCorrections)
    <3>1. PICK t \in saved : u = [t EXCEPT !.citations = {}]
      BY <2>1
    <3>2. /\ u.grounded = t.grounded /\ u.stopReason = t.stopReason
          /\ u.corrected = t.corrected
      BY <1>a, <3>1 DEF TypeOK, Turn
    <3> QED
      BY <2>1, <2>2, <3>2 DEF CorrectionInv, UngroundedWasCorrected
  <2> QED
    BY <2>1, <2>2, <1>a DEF CorrectionInv, UngroundedWasCorrected
<1> QED
    BY <1>2, <1>3, <1>4, <1>5, <1>6, <1>7, <1>8 DEF Next

(* FR-5.2: with the one correction the code allows, an answer that breaks  *)
(* the contract is stored only when the model refused to answer, or when   *)
(* that correction has been spent.                                         *)
THEOREM OneCorrection ==
    ASSUME MaxCorrections = 1
    PROVE  Spec => []UngroundedWasCorrected
<1>1. CorrectionInv => UngroundedWasCorrected
    BY DEF CorrectionInv
<1>2. CorrectionInv /\ [Next]_vars => CorrectionInv'
    BY CorrectionStep
<1> QED
    BY <1>1, <1>2, CorrectionInit, PTL DEF Spec
-----------------------------------------------------------------------------
(***************************************************************************)
(* The stored citations.                                                   *)
(***************************************************************************)
CitationInv == AnswerInv /\ AnswerCitationsResolve

LEMMA CitationStep == CitationInv /\ [Next]_vars => CitationInv'
<1> SUFFICES ASSUME CitationInv, [Next]_vars PROVE CitationInv'
    OBVIOUS
<1>a. AnswerInv' /\ TypeOK
    BY AnswerStep DEF CitationInv, AnswerInv, TypeInv
<1>1. CASE UNCHANGED <<row, saved>> \/ saved' = {}
    BY <1>1, <1>a DEF CitationInv, AnswerCitationsResolve
<1>2. CASE StreamToken \/ ConverseThrows \/ CallTool \/ CallUnknownTool
    BY <1>1, <1>2 DEF StreamToken, ConverseThrows, CallTool, CallUnknownTool
<1>3. CASE \/ \E n \in 1..MaxCalls, cost \in Costs : AnswerWithTools(n, cost)
           \/ \E surfaced \in SUBSET Refs : ToolReturns(surfaced)
           \/ \E draft \in Drafts, reason \in {"end_turn", "max_tokens", "refusal"},
                 cost \in Costs : AnswerWithText(draft, reason, cost)
    BY <1>1, <1>3 DEF AnswerWithTools, ToolReturns, AnswerWithText
<1>4. CASE SaveTurn
  <2>1. RowsThere /\ saved' = {StoredTurn} /\ row' = row
    BY <1>4 DEF SaveTurn
  <2>2. StoredTurn.citations = grounding.citations
    BY DEF StoredTurn
  <2> QED
    BY <2>1, <2>2, <1>a DEF CitationInv, AnswerCitationsResolve, RowsThere
<1>5. CASE SaveThrows \/ EmitDone \/ Crash \/ DeleteCase \/ UNCHANGED vars
    BY <1>1, <1>5 DEF SaveThrows, EmitDone, Crash, DeleteCase, vars
<1>6. CASE Reingest
  <2>1. saved' = {[t EXCEPT !.citations = {}] : t \in saved}
    BY <1>6 DEF Reingest
  <2>2. \A u \in saved' : u.citations = {}
    BY <2>1, <1>a DEF TypeOK, Turn
  <2> QED
    BY <2>2, <1>a DEF CitationInv, AnswerCitationsResolve
<1> QED
    BY <1>2, <1>3, <1>4, <1>5, <1>6 DEF Next

(* Although a clause stays citable for the whole request, and a re-ingest  *)
(* may replace it before the turn is saved or after, no stored citation of *)
(* an answer ever points at a row that is gone.                            *)
THEOREM AnswersStayCited == Spec => []AnswerCitationsResolve
<1>1. Init => CitationInv
    BY AnswerInit DEF Init, CitationInv, AnswerCitationsResolve
<1>2. CitationInv => AnswerCitationsResolve
    BY DEF CitationInv
<1> QED
    BY <1>1, <1>2, CitationStep, PTL DEF Spec
-----------------------------------------------------------------------------
(***************************************************************************)
(* The frames.  That a retry comes right behind the text it rejects needs  *)
(* three facts at once: the text of a turn was streamed if there was any,  *)
(* nothing is sent between it and the verdict, and an empty text cannot be *)
(* rejected.                                                               *)
(***************************************************************************)
FrameInv ==
    /\ AnswerInv
    /\ frame \in Terminal => pc = "ended"
    /\ pc = "execute" => frame = "tool_call"
    /\ pc = "converse" /\ streamed => frame = "token"
    /\ ErrorLeavesNoTurn

LEMMA FrameInit == Init => FrameInv
BY AnswerInit DEF Init, FrameInv, ErrorLeavesNoTurn, Terminal

LEMMA FrameStep == FrameInv /\ [Next]_vars => FrameInv'
<1> SUFFICES ASSUME FrameInv, [Next]_vars PROVE FrameInv'
    OBVIOUS
<1>a. AnswerInv'
    BY AnswerStep DEF FrameInv
<1>1. CASE StreamToken
    BY <1>1, <1>a DEF FrameInv, ErrorLeavesNoTurn, Terminal, StreamToken
<1>2. CASE ConverseThrows
  <2>1. pc' = "ended" /\ saved' = {}
    BY <1>2 DEF ConverseThrows, FrameInv, AnswerInv
  <2> QED
    BY <2>1, <1>a DEF FrameInv, ErrorLeavesNoTurn
<1>3. ASSUME NEW n \in 1..MaxCalls, NEW cost \in Costs, AnswerWithTools(n, cost)
      PROVE FrameInv'
    BY <1>3, <1>a DEF FrameInv, ErrorLeavesNoTurn, Terminal, AnswerWithTools
<1>4. CASE CallUnknownTool \/ \E surfaced \in SUBSET Refs : ToolReturns(surfaced)
  <2>1. /\ frame' \in {"tool_call", "tool_result"}
        /\ pc' # "execute"
        /\ pc' = "converse" => streamed' = FALSE
    BY <1>4 DEF CallUnknownTool, ToolReturns, AfterCall, GoOn, Leave
  <2> QED
    BY <2>1, <1>a DEF FrameInv, ErrorLeavesNoTurn, Terminal
<1>5. CASE CallTool
    BY <1>5, <1>a DEF FrameInv, ErrorLeavesNoTurn, Terminal, CallTool
<1>6. ASSUME NEW draft \in Drafts,
             NEW reason \in {"end_turn", "max_tokens", "refusal"}, NEW cost \in Costs,
             AnswerWithText(draft, reason, cost)
      PROVE FrameInv'
  <2>1. pc = "converse" /\ frame \notin Terminal
    BY <1>6 DEF AnswerWithText, FrameInv
  <2>2. CASE Leave(reason) /\ frame' = frame
    BY <2>1, <2>2, <1>a DEF FrameInv, ErrorLeavesNoTurn, Terminal, Leave
  <2>3. CASE frame' = "retry" /\ GoOn(reason)
    BY <2>3, <1>a DEF FrameInv, ErrorLeavesNoTurn, Terminal, GoOn, Leave
  <2> QED
    BY <1>6, <2>2, <2>3 DEF AnswerWithText
<1>7. CASE SaveTurn
  <2>1. pc = "save" /\ pc' = "emit" /\ frame' = frame /\ frame \notin Terminal
    BY <1>7 DEF SaveTurn, FrameInv
  <2> QED
    BY <2>1, <1>a DEF FrameInv, ErrorLeavesNoTurn, Terminal
<1>8. CASE SaveThrows
  <2>1. pc' = "ended" /\ saved' = {}
    BY <1>8 DEF SaveThrows, FrameInv, AnswerInv
  <2> QED
    BY <2>1, <1>a DEF FrameInv, ErrorLeavesNoTurn
<1>9. CASE EmitDone
    BY <1>9, <1>a DEF FrameInv, ErrorLeavesNoTurn, EmitDone
<1>10. CASE Reingest
    BY <1>10, <1>a DEF FrameInv, ErrorLeavesNoTurn, Reingest
<1>11. CASE DeleteCase
    BY <1>11, <1>a DEF FrameInv, ErrorLeavesNoTurn, DeleteCase
<1>12. CASE Crash
    BY <1>12, <1>a DEF FrameInv, ErrorLeavesNoTurn, Crash, Running
<1>13. CASE UNCHANGED vars
    BY <1>13, <1>a DEF FrameInv, ErrorLeavesNoTurn, vars
<1> QED
    BY <1>1, <1>2, <1>3, <1>4, <1>5, <1>6, <1>7, <1>8, <1>9, <1>10, <1>11, <1>12, <1>13
    DEF Next

(* A reader who was told that the question failed finds no turn of it, nor *)
(* does the agent remember one, whatever failed and whenever.              *)
THEOREM FailureLeavesNothing == Spec => []ErrorLeavesNoTurn
<1>1. FrameInv => ErrorLeavesNoTurn
    BY DEF FrameInv
<1> QED
    BY <1>1, FrameInit, FrameStep, PTL DEF Spec

LEMMA FramesInit == Init => Stream!Init
BY DEF Init, Stream!Init

(* A step that sends no frame is a stutter of AgentFrames. *)
LEMMA FramesStep ==
    ASSUME MaxCorrections = 1
    PROVE  FrameInv /\ [Next]_vars
             => [Stream!Next]_<<frame, correctionCount > 0>>
<1> SUFFICES ASSUME FrameInv, [Next]_vars
             PROVE [Stream!Next]_<<frame, correctionCount > 0>>
    OBVIOUS
<1> USE DEF Stream!Next, Stream!Send, Stream!MayFollow, Stream!Frames, Stream!Terminal
<1>a. TypeOK
    BY DEF FrameInv, AnswerInv, TypeInv
<1>1. CASE UNCHANGED <<frame, correctionCount>>
    BY <1>1
<1>2. CASE StreamToken
  <2>1. frame \notin Terminal /\ correctionCount = 0
        /\ frame' = "token" /\ correctionCount' = 0
    BY <1>2 DEF StreamToken, FrameInv, loopVars
  <2> QED
    BY <2>1 DEF Terminal
<1>3. CASE ConverseThrows \/ SaveThrows
  <2>1. frame \notin Terminal /\ frame' = "error" /\ correctionCount' = correctionCount
    BY <1>3 DEF ConverseThrows, SaveThrows, FrameInv, loopVars
  <2> QED
    BY <2>1 DEF Terminal
<1>4. CASE CallUnknownTool \/ CallTool
  <2>1. frame \notin Terminal /\ frame' = "tool_call" /\ correctionCount' = correctionCount
    BY <1>4 DEF CallUnknownTool, CallTool, FrameInv, loopVars
  <2> QED
    BY <2>1 DEF Terminal
<1>5. CASE \E surfaced \in SUBSET Refs : ToolReturns(surfaced)
  <2>1. /\ frame = "tool_call" /\ frame' = "tool_result"
        /\ correctionCount' = correctionCount
    BY <1>5 DEF ToolReturns, FrameInv
  <2> QED
    BY <2>1
<1>6. ASSUME NEW draft \in Drafts,
             NEW reason \in {"end_turn", "max_tokens", "refusal"}, NEW cost \in Costs,
             AnswerWithText(draft, reason, cost)
      PROVE [Stream!Next]_<<frame, correctionCount > 0>>
  <2>1. CASE UNCHANGED <<correctionCount, frame>>
    BY <2>1
  <2>2. CASE /\ ~grounding'.ok /\ correctionCount < MaxCorrections
             /\ correctionCount' = correctionCount + 1 /\ frame' = "retry"
    <3>1. correctionCount = 0 /\ correctionCount' = 1
      BY <2>2, <1>a DEF TypeOK
    <3>2. draft # {}
      BY <1>6, <2>2, EmptyIsGrounded DEF AnswerWithText
    <3>3. streamed /\ pc = "converse"
      BY <1>6, <3>1, <3>2 DEF AnswerWithText
    <3>4. frame = "token"
      BY <3>3 DEF FrameInv
    <3> QED
      BY <2>2, <3>1, <3>4
  <2> QED
    BY <1>6, <2>1, <2>2 DEF AnswerWithText
<1>7. CASE EmitDone
  <2>1. frame \notin Terminal /\ frame' = "done" /\ correctionCount' = correctionCount
    BY <1>7 DEF EmitDone, FrameInv, loopVars
  <2> QED
    BY <2>1 DEF Terminal
<1>8. CASE \E n \in 1..MaxCalls, cost \in Costs : AnswerWithTools(n, cost)
    BY <1>1, <1>8 DEF AnswerWithTools
<1>9. CASE SaveTurn \/ Reingest \/ DeleteCase \/ Crash \/ UNCHANGED vars
    BY <1>1, <1>9 DEF SaveTurn, Reingest, DeleteCase, Crash, vars, loopVars
<1> QED
    BY <1>2, <1>3, <1>4, <1>5, <1>6, <1>7, <1>8, <1>9 DEF Next

(* The agent's loop implements the stream the client's reducer relies on:  *)
(* no frame behind a terminal one, one retry right behind the text that it *)
(* rejects, never a token after it, every result behind its call.          *)
THEOREM FramesInOrder ==
    ASSUME MaxCorrections = 1
    PROVE  Spec => ImplementsFrames
<1>1. FrameInv /\ [Next]_vars => [Stream!Next]_<<frame, correctionCount > 0>>
    BY FramesStep
<1> QED
    BY <1>1, FrameInit, FrameStep, FramesInit, PTL
    DEF Spec, ImplementsFrames, Stream!Spec
=============================================================================
