------------------------------ MODULE Arithmetic ------------------------------
(***************************************************************************)
(* api/src/agent/tools/arithmetic.ts: the recursive descent behind the     *)
(* math tool.  Tokens are "n" (any number), "-", "*", "^", "(" and ")"; +  *)
(* is read as - is, and / as * is, but for the division by zero, which     *)
(* ends the evaluation.  The result is the tree instead of its value.      *)
(***************************************************************************)
EXTENDS Integers, Sequences, FiniteSets, SequencesExt

Tokens == {"n", "-", "*", "^", "(", ")"}

Node(kind, args) == [kind |-> kind, args |-> args]
Num == Node("n", <<>>)
Read(pos, tree) == [ok |-> TRUE, pos |-> pos, tree |-> tree]
Error == [ok |-> FALSE, pos |-> 0, tree |-> Num]
At(t, pos) == IF pos \in DOMAIN t THEN t[pos] ELSE "end"

RECURSIVE expr(_, _), exprRest(_, _), term(_, _), termRest(_, _), unary(_, _), power(_, _),
          primary(_, _), PowerLeft(_, _), powerRest(_, _)

primary(t, pos) ==
    CASE At(t, pos) = "n" -> Read(pos + 1, Num)
      [] At(t, pos) = "(" -> LET e == expr(t, pos + 1)
                             IN  IF e.ok /\ At(t, e.pos) = ")" THEN Read(e.pos + 1, Node("()", <<e.tree>>))
                                 ELSE Error
      [] OTHER -> Error
powerRest(t, left) ==
    IF ~left.ok \/ At(t, left.pos) # "^" THEN left
    ELSE LET right == primary(t, left.pos + 1)
         IN  IF right.ok THEN powerRest(t, Read(right.pos, Node("^", <<left.tree, right.tree>>))) ELSE Error
PowerLeft(t, pos) == powerRest(t, primary(t, pos))
power(t, pos) ==
    LET base == primary(t, pos)
    IN  IF ~base.ok \/ At(t, base.pos) # "^" THEN base
        ELSE LET exponent == unary(t, base.pos + 1)
             IN  IF exponent.ok THEN Read(exponent.pos, Node("^", <<base.tree, exponent.tree>>)) ELSE Error
unary(t, pos) ==
    IF At(t, pos) # "-" THEN power(t, pos)
    ELSE LET of == unary(t, pos + 1)
         IN  IF of.ok THEN Read(of.pos, Node("neg", <<of.tree>>)) ELSE Error
termRest(t, left) ==
    IF ~left.ok \/ At(t, left.pos) # "*" THEN left
    ELSE LET right == unary(t, left.pos + 1)
         IN  IF right.ok THEN termRest(t, Read(right.pos, Node("*", <<left.tree, right.tree>>))) ELSE Error
term(t, pos) == termRest(t, unary(t, pos))
exprRest(t, left) ==
    IF ~left.ok \/ At(t, left.pos) # "-" THEN left
    ELSE LET right == term(t, left.pos + 1)
         IN  IF right.ok THEN exprRest(t, Read(right.pos, Node("-", <<left.tree, right.tree>>))) ELSE Error
expr(t, pos) == exprRest(t, term(t, pos))

parseTrusting(t) == expr(t, 1)
parse(t) ==
    LET e == expr(t, 1)
    IN  IF e.ok /\ e.pos = Len(t) + 1 THEN e ELSE Error

-----------------------------------------------------------------------------
(* An expression is operands between operators, any number of signs before *)
(* an operand, and brackets that match: read from the left with the number *)
(* of open brackets, knowing whether an operand comes next.                *)
Scan(s, token) ==
    CASE s.bad -> s
      [] s.operand /\ token = "n" -> [s EXCEPT !.operand = FALSE]
      [] s.operand /\ token = "-" -> s
      [] s.operand /\ token = "(" -> [s EXCEPT !.open = @ + 1]
      [] ~s.operand /\ token \in {"-", "*", "^"} -> [s EXCEPT !.operand = TRUE]
      [] ~s.operand /\ token = ")" /\ s.open > 0 -> [s EXCEPT !.open = @ - 1]
      [] OTHER -> [s EXCEPT !.bad = TRUE]
Expression(t) ==
    LET s == FoldLeft(Scan, [operand |-> TRUE, open |-> 0, bad |-> FALSE], t)
    IN  ~s.bad /\ ~s.operand /\ s.open = 0

(* The tool answers exactly the well-formed expressions: what it cannot    *)
(* read whole is an error, never the value of a part of it.                *)
AnswersExpressions(t) == parse(t).ok <=> Expression(t)

(* A tree stands for its tokens, and is the one the conventions give them: *)
(* "^" binds tightest and to the right, a sign is looser than the power it *)
(* stands before, "*" is looser still, "-" loosest, both to the left.      *)
RECURSIVE Flat(_), Proper(_)
Flat(tree) ==
    CASE tree.kind = "n" -> <<"n">>
      [] tree.kind = "()" -> <<"(">> \o Flat(tree.args[1]) \o <<")">>
      [] tree.kind = "neg" -> <<"-">> \o Flat(tree.args[1])
      [] OTHER -> Flat(tree.args[1]) \o <<tree.kind>> \o Flat(tree.args[2])
Atom == {"n", "()"}
Tight == Atom \cup {"^", "neg"}
Proper(tree) ==
    LET kind(i) == tree.args[i].kind
    IN  /\ \A i \in DOMAIN tree.args : Proper(tree.args[i])
        /\ CASE tree.kind = "^" -> kind(1) \in Atom /\ kind(2) \in Tight
             [] tree.kind = "neg" -> kind(1) \in Tight
             [] tree.kind = "*" -> kind(1) \in Tight \cup {"*"} /\ kind(2) \in Tight
             [] tree.kind = "-" -> kind(2) # "-"
             [] OTHER -> TRUE
BindsByConvention(t) ==
    parse(t).ok => Flat(parse(t).tree) = t /\ Proper(parse(t).tree)
=============================================================================
