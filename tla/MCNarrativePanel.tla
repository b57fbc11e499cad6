--------------------------- MODULE MCNarrativePanel ---------------------------
(* Values of the constants of NarrativePanel for the model checker.         *)
EXTENDS NarrativePanel

CONSTANTS r1

Says(cites) == [asserts |-> TRUE, cites |-> cites, aside |-> FALSE, malformed |-> FALSE]

(* A cited claim, and one beside an uncited one.                            *)
MCDrafts == {{Says({r1})}, {Says({r1}), Says({})}}
=============================================================================
