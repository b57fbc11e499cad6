------------------------------ MODULE Highlights ------------------------------
(***************************************************************************)
(* web/src/citations/resolve.ts: the rectangles of a citation on the page, *)
(* from the character offsets of its span and the boxes of the blocks.  A  *)
(* block is [page, from, to, x, y, width, height]; offsets count from 0,   *)
(* spans are half-open, and lengths are whole multiples so that a fraction *)
(* of a block is a whole number.                                           *)
(***************************************************************************)
EXTENDS Integers, Sequences, FiniteSets, FiniteSetsExt, SequencesExt, Folds

CONSTANTS MinLineHeight, MaxLineHeight,  \* of an estimate: 6 and 30 points
          MaxLines,                      \* of a block: 60
          Tolerance                      \* of a merge: 1 point

Box(b, exact) == [x |-> b.x, y |-> b.y, width |-> b.width, height |-> b.height, exact |-> exact]
Length(b) == b.to - b.from
CeilDiv(a, b) == (a + b - 1) \div b

(* The 20th percentile of the heights on the page, the block's own height  *)
(* on a page of less than three blocks.                                    *)
estimateLineHeight(layout, b) ==
    LET heights == SortSeq([k \in DOMAIN SelectSeq(layout, LAMBDA c : c.page = b.page) |->
                               SelectSeq(layout, LAMBDA c : c.page = b.page)[k].height], <)
    IN  IF Len(heights) < 3 THEN b.height
        ELSE Min({MaxLineHeight, Max({MinLineHeight, heights[Len(heights) \div 5 + 1]})})
Lines(layout, b) ==
    LET h == estimateLineHeight(layout, b)
    IN  Min({MaxLines, Max({1, (2 * b.height + h) \div (2 * h)})})

(* Of the characters from .. to - 1 of a block of n lines.                 *)
FirstLine(b, n, from) == ((from - b.from) * n) \div Length(b)
LastLineFloor(b, n, to) == Min({n - 1, ((to - b.from) * n) \div Length(b) - 1})
LastLine(b, n, to) == Min({n - 1, CeilDiv((to - b.from) * n, Length(b)) - 1})
Along(b, count) == (count * b.width) \div Length(b)
Band(b, n, line, x, width) ==
    [x |-> x, y |-> b.y + line * (b.height \div n), width |-> width, height |-> b.height \div n, exact |-> FALSE]

(* One band on a single line, placed by its share of the whole block; else *)
(* the rest of the first line, the lines between and the start of the last.*)
rectsForPartialBlock(layout, b, from, to) ==
    LET n     == Lines(layout, b)
        first == FirstLine(b, n, from)
        last  == LastLine(b, n, to)
        left  == Along(b, (from - b.from) * n - first * Length(b))
        right == Along(b, (to - b.from) * n - last * Length(b))
    IN  IF first >= last
        THEN <<Band(b, n, first, b.x + Along(b, from - b.from), Along(b, to - from))>>
        ELSE <<Band(b, n, first, b.x + left, b.width - left)>>
             \o [k \in 1 .. last - first - 1 |-> Band(b, n, first + k, b.x, b.width)]
             \o <<Band(b, n, last, b.x, right)>>

Near(a, b) == a - b <= Tolerance /\ b - a <= Tolerance
Touches(p, r) == r.y <= p.y + p.height + Tolerance /\ r.y + r.height >= p.y - Tolerance
MergeableApart(p, r) == p.exact = r.exact /\ Near(p.x, r.x) /\ Near(p.width, r.width)
Mergeable(p, r) ==
    p.exact = r.exact /\ Near(p.x, r.x) /\ Near(p.width, r.width) /\ Touches(p, r)
Union(p, r) ==
    LET bottom == Max({p.y + p.height, r.y + r.height})
    IN  [p EXCEPT !.y = Min({p.y, r.y}), !.height = bottom - Min({p.y, r.y})]
merge(rects) ==
    LET sorted == SortSeq(rects, LAMBDA a, b : a.y < b.y \/ (a.y = b.y /\ a.x < b.x))
    IN  FoldLeft(LAMBDA out, r : IF out # <<>> /\ Mergeable(Last(out), r)
                                 THEN Front(out) \o <<Union(Last(out), r)>> ELSE Append(out, r),
                 <<>>, sorted)

(* Half-open: the line break between two blocks belongs to neither.        *)
Hit(b, span) == b.to > span.from /\ b.from < span.to
Whole(b, span) == span.from <= b.from /\ b.to <= span.to
RectsOf(layout, b, span) ==
    IF Whole(b, span) THEN <<Box(b, TRUE)>>
    ELSE rectsForPartialBlock(layout, b, Max({span.from, b.from}), Min({span.to, b.to}))
resolveHighlights(layout, span) ==
    LET hits == SelectSeq(layout, LAMBDA b : Hit(b, span))
        on(page) == SelectSeq(hits, LAMBDA b : b.page = page)
        rects(page) == FlattenSeq([k \in DOMAIN on(page) |-> RectsOf(layout, on(page)[k], span)])
    IN  [page \in {hits[k].page : k \in DOMAIN hits} |-> merge(rects(page))]

-----------------------------------------------------------------------------
Spanned(b, span) == {k \in b.from .. b.to - 1 : span.from <= k /\ k < span.to}
Blocks(layout) == {layout[k] : k \in DOMAIN layout}
(* The lines a character of a block may be on, with the rows of each.      *)
LinesOf(b, n, k) ==
    {l \in 0 .. n - 1 : l * Length(b) < (k + 1 - b.from) * n /\ (k - b.from) * n < (l + 1) * Length(b)}
Rows(b, n, line) == LET h == b.height \div n IN b.y + line * h .. b.y + (line + 1) * h - 1
RowsOf(r) == r.y .. r.y + r.height - 1
Within(r, b) == r.x >= b.x - Tolerance /\ r.x + r.width <= b.x + b.width + Tolerance
RectsOn(plan, page) == IF page \in DOMAIN plan THEN {plan[page][k] : k \in DOMAIN plan[page]} ELSE {}

(* Every character of the span is on a marked line, and the mark says      *)
(* whether it is exact: a block that is cited whole is never shown as an   *)
(* estimate, a block that is cited in part never as exact.                 *)
NeverOffTheLine(layout, span) ==
    LET plan == resolveHighlights(layout, span)
    IN  \A b \in Blocks(layout) :
            LET n == Lines(layout, b)
            IN  \A k \in Spanned(b, span) : \A line \in LinesOf(b, n, k) :
                  \E r \in RectsOn(plan, b.page) :
                     /\ Rows(b, n, line) \subseteq RowsOf(r)
                     /\ Within(r, b) /\ r.exact = Whole(b, span)

(* Nothing else is marked: every row of a rectangle is within the merge    *)
(* tolerance of a line with a character of the span, in its block's column;*)
(* and on the first of several lines nothing to the left of the first      *)
(* character.                                                              *)
Marks(layout, b, span, row) ==
    LET n == Lines(layout, b)
    IN  \E k \in Spanned(b, span) : \E line \in LinesOf(b, n, k) :
          \E y \in Rows(b, n, line) : Near(row, y)
PlaceOnLine(b, n, k) == b.x + Along(b, ((k - b.from) * n) % Length(b))
PaintsNothingElse(layout, span) ==
    LET plan == resolveHighlights(layout, span)
    IN  /\ \A page \in DOMAIN plan : \A r \in RectsOn(plan, page) : \A row \in RowsOf(r) :
              \E b \in Blocks(layout) : b.page = page /\ Within(r, b) /\ Marks(layout, b, span, row)
        /\ \A b \in {c \in Blocks(layout) : c.from < span.from /\ span.from < c.to} :
              LET n == Lines(layout, b)
                  first == Min(LinesOf(b, n, span.from))
              IN  first < Max(LinesOf(b, n, Min({span.to, b.to}) - 1)) =>
                    \A r \in RectsOn(plan, b.page) :
                       Rows(b, n, first) \cap RowsOf(r) # {} => r.x >= PlaceOnLine(b, n, span.from) - Tolerance
=============================================================================
