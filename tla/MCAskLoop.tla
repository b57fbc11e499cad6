------------------------------ MODULE MCAskLoop ------------------------------
(* Values of the constants of AskLoop for the model checker.                *)
EXTENDS AskLoop, FiniteSets, TLC

CONSTANTS r1, r2    \* two clauses of the case

Says(cites) == [asserts |-> TRUE, cites |-> cites, aside |-> FALSE, malformed |-> FALSE]
Aside(cites) == [asserts |-> TRUE, cites |-> cites, aside |-> TRUE, malformed |-> FALSE]
Heading == [asserts |-> FALSE, cites |-> {}, aside |-> FALSE, malformed |-> FALSE]
Broken == [asserts |-> TRUE, cites |-> {r1}, aside |-> FALSE, malformed |-> TRUE]

(* Nothing at all; a cited claim, with an uncited one, with another clause, *)
(* with a caveat that also names a clause; a marker that is no clause id.   *)
MCDrafts ==
    {{}, {Says({r1})}, {Says({r1}), Says({})}, {Heading, Says({r1, r2})},
     {Aside({r2}), Says({r1})}, {Broken}}

Clauses == Permutations(Refs)
=============================================================================
