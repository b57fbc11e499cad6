--------------------------- MODULE CitationResolver ---------------------------
(***************************************************************************)
(* api/src/extraction/citation-resolver.ts: the span of a clause that an   *)
(* extracted field quotes.  Matching is blind to white space and to the    *)
(* variants of quotes and dashes, and what it finds is a span of the       *)
(* frozen text.  Positions count from 0.                                   *)
(***************************************************************************)
EXTENDS Integers, Sequences, FiniteSets, FiniteSetsExt, SequencesExt

Blank == "_"
Break == "/"
White == {Blank, Break}
Curly == "q"                            \* a typographic variant
Straight == "Q"                         \* what it folds to
Fold(ch) == IF ch = Curly THEN Straight ELSE ch

(* normalizeForMatch: one entry for a character, one for a run of white    *)
(* space, each with the original span it came from.                        *)
RunStart(text, i) ==
    Min({j \in 1 .. i : \A k \in j .. i : text[k] \in White})
EndsEntry(text, i) ==
    text[i] \in White => (i = Len(text) \/ text[i + 1] \notin White)
EntryUnmapped(text, i) ==
    LET n == Cardinality({j \in 1 .. i : EndsEntry(text, j)})
    IN  [ch |-> IF text[i] \in White THEN Blank ELSE Fold(text[i]), from |-> n - 1, to |-> n]
Entry(text, i) ==
    IF text[i] \in White THEN [ch |-> Blank, from |-> RunStart(text, i) - 1, to |-> i]
    ELSE [ch |-> Fold(text[i]), from |-> i - 1, to |-> i]
Entries(text) ==
    LET ends == SetToSortSeq({i \in 1 .. Len(text) : EndsEntry(text, i)}, <)
    IN  [k \in 1 .. Len(ends) |-> Entry(text, ends[k])]
Norm(text) == LET e == Entries(text) IN [k \in 1 .. Len(e) |-> e[k].ch]

trim(text) ==
    LET kept == {i \in 1 .. Len(text) : text[i] \notin White}
    IN  IF kept = {} THEN <<>> ELSE SubSeq(text, Min(kept), Max(kept))

(* norm.indexOf(anchor), counted from 1, and 0 if there is none.           *)
MatchAt(norm, anchor, k) ==
    k + Len(anchor) - 1 <= Len(norm) /\ SubSeq(norm, k, k + Len(anchor) - 1) = anchor
IndexOf(norm, anchor) ==
    LET at == {k \in 1 .. Len(norm) : MatchAt(norm, anchor, k)} IN IF at = {} THEN 0 ELSE Min(at)

Spot(text, anchor) ==
    LET at == IndexOf(Norm(text), anchor)  e == Entries(text)
    IN  [from |-> e[at].from, to |-> e[at + Len(anchor) - 1].to]

(* resolveFieldCitations: clauses is the sequence of the document's clause *)
(* texts, hints the indices the model's ids resolve to.                    *)
Containing(clauses, anchor) == {c \in DOMAIN clauses : IndexOf(Norm(clauses[c]), anchor) # 0}
ChooseAny(clauses, anchor, hints) ==
    LET in == Containing(clauses, anchor) IN IF in = {} THEN {} ELSE {Min(in)}
Choose1(clauses, anchor, hints) ==
    LET in == Containing(clauses, anchor)
    IN  IF in \cap hints # {} THEN {Min(in \cap hints)}
        ELSE IF Cardinality(in) = 1 THEN in ELSE {}
resolve(clauses, anchor, hints) ==
    LET a == Norm(trim(anchor))
    IN  IF a = <<>> THEN {[clause |-> c, from |-> 0, to |-> Len(clauses[c])] : c \in hints}
        ELSE {[clause |-> c] @@ Spot(clauses[c], a) : c \in Choose1(clauses, a, hints)}

-----------------------------------------------------------------------------
Slice(text, from, to) == SubSeq(text, from + 1, to)
Spans(text) == {s \in (0 .. Len(text)) \X (0 .. Len(text)) : s[1] < s[2]}
(* A span says what the anchor says, but for white space and quotes.       *)
Says(text, s, anchor) ==
    /\ text[s[1] + 1] \notin White /\ text[s[2]] \notin White
    /\ Norm(Slice(text, s[1], s[2])) = Norm(trim(anchor))
Quotes(text, anchor) == {s \in Spans(text) : Says(text, s, anchor)}

(* What is cited for an anchor is a span of the frozen text that says what *)
(* the anchor says, to the character and however it was laid out, and the  *)
(* first one of its clause: the offsets survive the normalization.         *)
CitesVerbatim(clauses, anchor, hints) ==
    trim(anchor) # <<>> =>
        \A c \in resolve(clauses, anchor, hints) :
            LET q == Quotes(clauses[c.clause], anchor)
            IN  /\ <<c.from, c.to>> \in q
                /\ \A s \in q : c.from <= s[1]

(* A citation is never a guess and never missed: of several clauses that   *)
(* say it a hinted one is taken, and none if none of them is hinted; the   *)
(* only one that says it is taken whatever the hints are.                  *)
NeverGuesses(clauses, anchor, hints) ==
    trim(anchor) # <<>> =>
        LET saying == {c \in DOMAIN clauses : Quotes(clauses[c], anchor) # {}}
            cited  == {c.clause : c \in resolve(clauses, anchor, hints)}
        IN  /\ cited \subseteq saying /\ Cardinality(cited) <= 1
            /\ saying \cap hints # {} => cited \subseteq hints /\ cited # {}
            /\ saying \cap hints = {} => (cited # {} <=> Cardinality(saying) = 1)
=============================================================================
