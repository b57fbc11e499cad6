------------------------------- MODULE Chunker -------------------------------
(***************************************************************************)
(* api/src/ingestion/chunker/chunker.ts: a clause over the token budget is *)
(* cut into overlapping chunks at paragraph breaks and sentence ends, or   *)
(* anywhere inside a unit that alone is over the budget.  A text is a      *)
(* sequence of character classes, positions count from 0 as in the code,   *)
(* and every character that is not white space is a token.                 *)
(***************************************************************************)
EXTENDS Integers, Sequences, FiniteSets, FiniteSetsExt, SequencesExt

CONSTANTS MaxTokens, OverlapTokens,
          Floor,        \* hardCut stops shrinking at this length: 16
          PerToken      \* and starts from this many characters a token: 4
ChunkerAssumption ==
    /\ MaxTokens \in Nat \ {0} /\ OverlapTokens \in 0 .. MaxTokens /\ Floor \in 0 .. MaxTokens
    /\ PerToken \in Nat \ {0}

Letter == "x"
Stop == "."
Blank == "_"
Break == "/"
Chars == {Letter, Stop, Blank, Break}
White == {Blank, Break}

(* countTokens(text.slice(from, to)) *)
Tokens(text, from, to) == Cardinality({i \in from + 1 .. to : text[i] \notin White})
Fits(text, from, to) == Tokens(text, from, to) <= MaxTokens

(* A unit ends after a run of line breaks, and after a stop and its blanks. *)
EndsRun(text, p, S) == text[p] \in S /\ (p = Len(text) \/ text[p + 1] \notin S)
AfterStop(text, p) ==
    \E q \in 1 .. p - 1 : text[q] = Stop /\ \A i \in q + 1 .. p : text[i] \in White
UnitEnds(text) ==
    {p \in 1 .. Len(text) : EndsRun(text, p, {Break}) \/ (EndsRun(text, p, White) /\ AfterStop(text, p))}
unitBoundaries(text) == {0, Len(text)} \cup UnitEnds(text)

(* The boundaries are kept as a set: a cut is strictly inside its unit, so *)
(* that the list of the code, which has them in order, has each only once. *)
Beyond(bounds, p) == {q \in bounds : q > p}
(* The last boundary up to which everything fits, the next one at least.   *)
extendWhileFits(text, bounds, start) ==
    LET next == Min(Beyond(bounds, start))
    IN  Max({next} \cup
            {e \in Beyond(bounds, next) : \A f \in Beyond(bounds, next) : f <= e => Fits(text, start, f)})

Shrunk(text, from) ==
    LET shrink[cut \in 0 .. Len(text)] ==
            IF cut > from + Floor /\ ~Fits(text, from, cut)
            THEN shrink[from + ((cut - from) * 3) \div 4] ELSE cut
    IN  shrink
hardCut(text, from, to) == Max({Shrunk(text, from)[Min({to, from + MaxTokens * PerToken})], from + 1})

(* The next chunk starts at the earliest boundary of this one whose rest   *)
(* is within the overlap, or where this one ends.                          *)
NextBeyond(text, bounds, start, end) ==
    Max({end} \cup {p \in bounds : Tokens(text, p, end) <= OverlapTokens})
NextAtLeast(text, bounds, start, end) ==
    Min({end} \cup {p \in bounds : start < p /\ p < end /\ Tokens(text, p, end) <= OverlapTokens + 1})
NextStart(text, bounds, start, end) ==
    Min({end} \cup {p \in bounds : start < p /\ p < end /\ Tokens(text, p, end) <= OverlapTokens})

(* One round of the loop, unless it is over: a unit that alone is over the *)
(* budget is cut, and the cut is a boundary from then on.                  *)
Emit(text, s) ==
    LET end    == extendWhileFits(text, s.bounds, s.start)
        to     == IF Fits(text, s.start, end) THEN end ELSE hardCut(text, s.start, end)
        bounds == s.bounds \cup {to}
    IN  [bounds |-> bounds,
         start  |-> IF to >= Len(text) THEN to ELSE NextStart(text, bounds, s.start, to),
         chunks |-> Append(s.chunks, [from |-> s.start, to |-> to])]
Round(text, s) == IF s.start >= Len(text) THEN s ELSE Emit(text, s)
Looped(text) ==
    LET loop[n \in 0 .. Len(text)] ==
            IF n = 0 THEN [bounds |-> unitBoundaries(text), start |-> 0, chunks |-> <<>>]
            ELSE Round(text, loop[n - 1])
    IN  loop
chunkClause(text) ==
    IF Fits(text, 0, Len(text)) THEN <<[from |-> 0, to |-> Len(text)]>>
    ELSE Looped(text)[Len(text)].chunks

-----------------------------------------------------------------------------
(* Every character of the clause is in a chunk, the chunks come in the     *)
(* order of the text, and each starts beyond the one before: the loop      *)
(* cannot stand still, whatever the cut units and the overlaps are.        *)
Covers(text) ==
    LET c == chunkClause(text)
    IN  /\ c[1].from = 0 /\ Last(c).to = Len(text)
        /\ \A i \in 1 .. Len(c) - 1 :
              c[i].from < c[i + 1].from /\ c[i + 1].from <= c[i].to /\ c[i].to <= c[i + 1].to

(* No chunk is over the budget, save one too short to be cut further; two  *)
(* neighbours share no more than the overlap.                              *)
WithinBudget(text) ==
    LET c == chunkClause(text)
    IN  /\ \A i \in 1 .. Len(c) : Fits(text, c[i].from, c[i].to) \/ c[i].to - c[i].from <= Floor
        /\ \A i \in 1 .. Len(c) - 1 : Tokens(text, c[i + 1].from, c[i].to) <= OverlapTokens
=============================================================================
