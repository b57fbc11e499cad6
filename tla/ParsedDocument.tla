---------------------------- MODULE ParsedDocument ----------------------------
(***************************************************************************)
(* The frozen text of a document and the geometry kept beside it:          *)
(* ingestion/parser (PDF and DOCX), canonicalText, and the layout route.   *)
(* A line is a sequence of "a" (a lower case letter), "A" (any other       *)
(* character) and "-"; boxes and font sizes, and the block types read off  *)
(* them, are left out.                                                     *)
(*                                                                         *)
(* A page is [broken, blocks], a block [lines, low], low being in the      *)
(* footer zone; offsets count from 0, spans are half-open.                 *)
(***************************************************************************)
EXTENDS Integers, Sequences, FiniteSets, SequencesExt

CONSTANTS FooterMax     \* characters of a footer: 120

NL == "NL"

(* A line that ends in a hyphen before a lower case letter was one word.   *)
joinLinesWithDehyphenation(lines) ==
    FoldLeft(LAMBDA out, piece :
                IF piece = <<>> THEN out
                ELSE IF out = <<>> THEN piece
                ELSE IF Last(out) = "-" /\ piece[1] = "a" THEN Front(out) \o piece
                ELSE out \o <<" ">> \o piece,
             <<>>, lines)

(* Footers are dropped before the offsets are frozen; the cursor counts    *)
(* the line break canonicalText puts after each block.                     *)
Footer(b) == b.low /\ Len(b.text) <= FooterMax
FreezeFooters(raw) ==
    FoldLeft(LAMBDA s, b :
                [cursor |-> s.cursor + Len(b.text) + 1,
                 blocks |-> IF Footer(b) THEN s.blocks
                            ELSE Append(s.blocks, [page |-> b.page, text |-> b.text, bbox |-> b.bbox,
                                                   from |-> s.cursor, to |-> s.cursor + Len(b.text)])],
             [cursor |-> 0, blocks |-> <<>>], raw).blocks
Freeze(raw) ==
    FoldLeft(LAMBDA s, b :
                IF Footer(b) THEN s
                ELSE [cursor |-> s.cursor + Len(b.text) + 1,
                      blocks |-> Append(s.blocks, [page |-> b.page, text |-> b.text, bbox |-> b.bbox,
                                                   from |-> s.cursor, to |-> s.cursor + Len(b.text)])],
             [cursor |-> 0, blocks |-> <<>>], raw).blocks
canonicalText(blocks) ==
    FlattenSeq([k \in DOMAIN blocks |-> (IF k = 1 THEN <<>> ELSE <<NL>>) \o blocks[k].text])

(* A PDF, page by page: a page that cannot be read is reported, without    *)
(* its size, and the others are parsed all the same.                       *)
RawOf(page, number) ==
    IF page.broken THEN <<>>
    ELSE SelectSeq([k \in DOMAIN page.blocks |->
                       [page |-> number, text |-> joinLinesWithDehyphenation(page.blocks[k].lines),
                        low |-> page.blocks[k].low, bbox |-> TRUE]],
                   LAMBDA b : b.text # <<>>)
PageReport(page, number) ==
    [page |-> number, sized |-> ~page.broken,
     status |-> IF page.broken THEN "error" ELSE IF RawOf(page, number) = <<>> THEN "empty" ELSE "ok"]
PagesReadable(pages) ==
    LET readable == SelectSeq(pages, LAMBDA p : ~p.broken)
    IN  [n \in DOMAIN readable |-> PageReport(readable[n], n)]
Pages(pages) == [n \in DOMAIN pages |-> PageReport(pages[n], n)]
parsePdf(pages) ==
    [blocks |-> Freeze(FlattenSeq([n \in DOMAIN pages |-> RawOf(pages[n], n)])), pages |-> Pages(pages)]

(* A DOCX is one page without geometry.                                    *)
parseDocx(texts) ==
    [blocks |-> Freeze([k \in DOMAIN SelectSeq(texts, LAMBDA t : t # <<>>) |->
                           [page |-> 1, text |-> SelectSeq(texts, LAMBDA t : t # <<>>)[k],
                            low |-> FALSE, bbox |-> FALSE]]),
     pages |-> <<[page |-> 1, sized |-> FALSE, status |-> "ok"]>>]

(* What the viewer gets: nothing, unless there are sized pages and boxes.  *)
getLayout(parsed) ==
    LET pages  == SelectSeq(parsed.pages, LAMBDA p : p.sized)
        blocks == SelectSeq(parsed.blocks, LAMBDA b : b.bbox)
    IN  IF pages = <<>> \/ blocks = <<>> THEN [geometry |-> FALSE, pages |-> <<>>, blocks |-> <<>>]
        ELSE [geometry |-> TRUE, pages |-> pages, blocks |-> blocks]

-----------------------------------------------------------------------------
Letters(s) == SelectSeq(s, LAMBDA a : a \in {"a", "A"})
TextsOf(pages) == [n \in DOMAIN pages |-> IF pages[n].broken THEN <<>> ELSE pages[n].blocks]
LinesOf(b) == FlattenSeq(b.lines)
Short(b) == Len(joinLinesWithDehyphenation(b.lines)) <= FooterMax
Written(pages) ==
    SelectSeq(FlattenSeq(TextsOf(pages)), LAMBDA b : ~(b.low /\ Short(b)))
FrozenIn(blocks) ==
    \A k \in DOMAIN blocks :
       /\ blocks[k].to <= Len(canonicalText(blocks))
       /\ SubSeq(canonicalText(blocks), blocks[k].from + 1, blocks[k].to) = blocks[k].text

(* Offsets are frozen once: the slice of the canonical text at a block's   *)
(* offsets is the block, for both parsers, and the canonical text has      *)
(* every letter of every readable page but those of the footers, in order. *)
OffsetsAreFrozen(pages) ==
    LET pdf  == parsePdf(pages).blocks
        docx == parseDocx([k \in DOMAIN Written(pages) |-> LinesOf(Written(pages)[k])]).blocks
    IN  /\ FrozenIn(pdf) /\ FrozenIn(docx)
        /\ Letters(canonicalText(pdf)) =
              Letters(FlattenSeq([k \in DOMAIN Written(pages) |-> LinesOf(Written(pages)[k])]))

(* A box is never handed out for a page without a size, on which the       *)
(* viewer could not place it: whatever page could not be read.             *)
ShownPagesAreMeasured(pages) ==
    LET layout == getLayout(parsePdf(pages))
    IN  /\ \A k \in DOMAIN layout.blocks : \E n \in DOMAIN layout.pages :
              layout.pages[n].page = layout.blocks[k].page
        /\ \A n \in DOMAIN layout.pages : ~pages[layout.pages[n].page].broken
=============================================================================
