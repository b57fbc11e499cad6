------------------------------ MODULE Segmenter ------------------------------
(***************************************************************************)
(* api/src/ingestion/segmenter: the clauses of a parsed document.  A block *)
(* is its type and what its text begins with, its lead: a keyword or none, *)
(* the outline number as a sequence, the mark after the number and how the *)
(* rest begins.  A block fills BlockLength characters of the canonical     *)
(* text and a line break joins it to the next; positions count from 0.     *)
(***************************************************************************)
EXTENDS Integers, Sequences, FiniteSets, FiniteSetsExt, SequencesExt

CONSTANTS BlockLength, Window          \* 4 blocks a clause in the last resort
SegmenterAssumption == BlockLength \in Nat \ {0} /\ Window \in Nat \ {0, 1}

NoMatch == [depth |-> -1]
Opens == {"annex"}
Keywords == {"paragraph", "article", "ziffer", "section", "preamble", "annex"}
(* A number that is matched as an outline has a segment at least.          *)
Outlined == {"ziffer", "section", "decimal"}
Leads ==
    {l \in [keyword: Keywords \cup {"decimal", "none"}, number: Seq(Nat), marked: BOOLEAN,
            rest: {"lower", "capital", "month"}] : l.keyword \in Outlined => l.number # <<>>}
Blocks == [type: {"paragraph", "heading", "list_item", "table_cell", "footer"}, lead: Leads]

(* matchHeading: path, depth in the scope and whether the scope is new.    *)
(* Paragraphs, articles and the preamble have no outline of their own.     *)
Depth(lead) ==
    CASE lead.keyword = "annex" -> 0
      [] lead.keyword \in {"paragraph", "article", "preamble"} -> 1
      [] OTHER -> Len(lead.number)
Heading(lead) ==
    [kind |-> lead.keyword, number |-> lead.number, depth |-> Depth(lead),
     opensScope |-> lead.keyword \in Opens]
(* A number alone is a heading unless a month follows it; of one segment   *)
(* it must be marked, "1." or "1)", and a capital must follow.             *)
DecimalHeading(lead) ==
    /\ lead.rest # "month"
    /\ Len(lead.number) = 1 => lead.marked /\ lead.rest = "capital"
matchHeading(lead) ==
    IF lead.keyword \in Keywords \/ (lead.keyword = "decimal" /\ DecimalHeading(lead))
    THEN Heading(lead) ELSE NoMatch
candidateMatch(block) ==
    IF block.type \in {"table_cell", "list_item", "footer"} THEN NoMatch ELSE matchHeading(block.lead)

Start(i) == (i - 1) * (BlockLength + 1)
CanonicalLength(blocks) == Len(blocks) * (BlockLength + 1) - 1

(* The blocks that begin a clause, and what they match.                    *)
Headed(blocks) == {i \in DOMAIN blocks : candidateMatch(blocks[i]) # NoMatch}
fallbackBoundaries(blocks) ==
    LET headings == {i \in DOMAIN blocks : blocks[i].type = "heading"}
    IN  IF headings # {} THEN headings ELSE {i \in DOMAIN blocks : i % Window = 1}
boundaries(blocks) == IF Headed(blocks) # {} THEN Headed(blocks) ELSE fallbackBoundaries(blocks)

(* dedupePath: a path in use gets the first number that frees it.          *)
DedupeOnce(path, used) == IF path \in used THEN [path EXCEPT !.copy = 2] ELSE path
dedupePath(path, used) ==
    IF path \notin used THEN path
    ELSE [path EXCEPT !.copy = Min({n \in 2 .. Cardinality(used) + 2 : [path EXCEPT !.copy = n] \notin used})]

Clause(blocks, acc, from, to, path, headings) ==
    LET unique == dedupePath(path, acc.used)
    IN  [acc EXCEPT !.used = @ \cup {unique},
                    !.clauses = Append(@, [charStart |-> Start(from), charEnd |-> to, block |-> from,
                                           path |-> unique, headingPath |-> headings])]
Path(scope, kind, number) == [scope |-> scope, kind |-> kind, number |-> number, copy |-> 1]

(* The headings above a heading: those of a smaller depth stay.            *)
PopDeeper(stack, depth) == SelectSeq(stack, LAMBDA s : s.depth <= depth)
Pop(stack, depth) ==
    LET keep == {k \in 0 .. Len(stack) : k = 0 \/ stack[k].depth < depth}
    IN  SubSeq(stack, 1, Max(keep))

Empty == [clauses |-> <<>>, used |-> {}, scope |-> <<>>, stack |-> <<>>]
(* A clause ends before the line break to the next boundary, or with the   *)
(* text.                                                                   *)
Following(blocks, at, i) == Min({j \in at : j > i} \cup {Len(blocks) + 1})
EndOf(blocks, at, i) == Start(Following(blocks, at, i)) - 1
Ordinal(at, i) == Cardinality({j \in at : j <= i})
(* One boundary: an annex opens a scope, another heading goes under the    *)
(* stack, and without a match the path only counts.                        *)
Step(blocks, acc, at, i) ==
    LET m == candidateMatch(blocks[i])
        to == EndOf(blocks, at, i)
        stack == Append(Pop(acc.stack, m.depth), [depth |-> m.depth, block |-> i])
    IN  CASE m = NoMatch -> Clause(blocks, acc, i, to, Path(<<>>, "seq", <<Ordinal(at, i)>>), <<>>)
          [] m # NoMatch /\ m.opensScope ->
               Clause(blocks, [acc EXCEPT !.scope = <<i>>, !.stack = <<>>], i, to,
                      Path(<<>>, m.kind, m.number), <<i>>)
          [] OTHER ->
               Clause(blocks, [acc EXCEPT !.stack = stack], i, to,
                      Path([k \in DOMAIN acc.scope |-> candidateMatch(blocks[acc.scope[k]]).number],
                           m.kind, m.number),
                      acc.scope \o [k \in DOMAIN stack |-> stack[k].block])

FrontMatterDropped(blocks, first) == Empty
(* What precedes the first boundary is a clause of its own.                *)
FrontMatter(blocks, first) ==
    IF first > 1 THEN Clause(blocks, Empty, 1, Start(first) - 1, Path(<<>>, "front-matter", <<>>), <<>>)
    ELSE Empty

(* The boundaries in their order: what there is after the first i blocks.  *)
Walk(blocks) ==
    LET at == boundaries(blocks)
        acc[i \in 0 .. Len(blocks)] ==
            IF i = 0 THEN FrontMatter(blocks, Min(at))
            ELSE IF i \in at THEN Step(blocks, acc[i - 1], at, i) ELSE acc[i - 1]
    IN  acc
segmentClauses(blocks) == IF blocks = <<>> THEN <<>> ELSE Walk(blocks)[Len(blocks)].clauses

-----------------------------------------------------------------------------
(* The clauses tile the canonical text: one begins where the one before    *)
(* ends, the joining line break apart, the first at 0 and the last at the  *)
(* end, whichever headings were recognised.                                *)
Tiles(blocks) ==
    LET c == segmentClauses(blocks)
    IN  blocks # <<>> =>
        /\ c[1].charStart = 0 /\ Last(c).charEnd = CanonicalLength(blocks)
        /\ \A i \in DOMAIN c : c[i].charStart < c[i].charEnd
        /\ \A i \in 1 .. Len(c) - 1 : c[i + 1].charStart = c[i].charEnd + 1

(* No two clauses of a document have the same path, however often a number *)
(* or an annex comes again: the path is what a citation names.             *)
PathsUnique(blocks) ==
    LET c == segmentClauses(blocks)
    IN  \A i, j \in DOMAIN c : c[i].path = c[j].path => i = j

(* A clause stands under the headings that enclose it and no others: the   *)
(* annex it is in, and each earlier heading of a smaller depth that no     *)
(* later one of that depth or less has closed.                             *)
Closed(blocks, j, i) ==
    \E k \in j + 1 .. i - 1 :
       LET mk == candidateMatch(blocks[k])
       IN  mk # NoMatch /\ (mk.opensScope \/ mk.depth <= candidateMatch(blocks[j]).depth)
Above(blocks, i) ==
    {j \in 1 .. i - 1 :
       LET mj == candidateMatch(blocks[j])
       IN  mj # NoMatch /\ mj.depth < candidateMatch(blocks[i]).depth /\ ~Closed(blocks, j, i)}
InOrder(s) == \A k \in 1 .. Len(s) - 1 : s[k] < s[k + 1]
HeadingsEnclose(blocks) ==
    LET c == segmentClauses(blocks)
    IN  \A k \in DOMAIN c :
          c[k].headingPath # <<>> =>
             /\ InOrder(c[k].headingPath)
             /\ ToSet(c[k].headingPath) = Above(blocks, c[k].block) \cup {c[k].block}
=============================================================================
