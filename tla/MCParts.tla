-------------------------------- MODULE MCParts --------------------------------
(***************************************************************************)
(* The parts that are checked one by one: each behaviour is of one part,   *)
(* and the others stand still.  A part is a machine, with its variables,   *)
(* or a function, whose input is put together or picked.                   *)
(***************************************************************************)
EXTENDS Parts, TLC, SequencesExt

CONSTANTS d1, d2, d3, d4,          \* documents
          t1, t2,                  \* tenants
          v1, v2                   \* versions of a schema

MCLimit == [hour |-> 3, burst |-> 1]
MCWindow == [hour |-> 6, burst |-> 2]
MCTenants == d1 :> t1 @@ d2 :> t1 @@ d3 :> t1 @@ d4 :> t2
File(name, content) == [name |-> name, content |-> content]
MCFiles ==
    {<<>>, <<File("image", 1)>>, <<File("document", 1), File("document", 1)>>,
     <<File("document", 1), File("document", 2), File("document", 3)>>,
     <<File("document", 1), File("document", 2), File("image", 3)>>}

MCSchemas == [offer |-> {"salary", "notice"}, sheet |-> {"cap"}, other |-> {}]

Cites == INSTANCE CitationResolver
Marks == INSTANCE Highlights WITH MinLineHeight <- 1, MaxLineHeight <- 3, MaxLines <- 3, Tolerance <- 1
Frames == INSTANCE SseFraming
Sums == INSTANCE Arithmetic
Prose == INSTANCE AnswerText WITH MaxHeading <- 2, MaxHistory <- 2
Parsed == INSTANCE ParsedDocument WITH FooterMax <- 2
Score == INSTANCE Scoring

rateVars == <<now, keys, pc, history>>
sessionVars == <<clock, row, cookie, req, purge, last>>
toolVars == <<table, tool>>
reportVars == <<db, ids, bench, report, cited>>
cacheVars == <<vectors, answers, run, said>>
uploadVars == <<card, batch, docs, page>>
machineVars == <<call, rateVars, sessionVars, toolVars, reportVars, cacheVars, uploadVars>>
partVars == <<part, input, machineVars>>

Machines == {"call", "rate", "session", "tool", "report", "cache", "upload"}
Functions == {"chunks", "cites", "segments", "rules", "highlights", "frames", "sums", "prose", "markers",
              "parsed", "numbers", "arrays", "fields", "flags", "ranks", "stripped", "turns", "ids", "answers"}
Init ==
    /\ part \in Machines \cup Functions
    /\ input = <<>>
    /\ Call!Init /\ Rate!Init /\ Sess!Init /\ Tool!Init /\ Read!Init /\ Cache!Init
    /\ Card!Init

-----------------------------------------------------------------------------
NextCall == Call!Next /\ UNCHANGED <<rateVars, sessionVars, toolVars, reportVars, cacheVars, uploadVars>>
NextRate == Rate!Next /\ UNCHANGED <<call, sessionVars, toolVars, reportVars, cacheVars, uploadVars>>
NextSession == Sess!Next /\ UNCHANGED <<call, rateVars, toolVars, reportVars, cacheVars, uploadVars>>
NextTool == Tool!Next /\ UNCHANGED <<call, rateVars, sessionVars, reportVars, cacheVars, uploadVars>>
NextReport == Read!Next /\ UNCHANGED <<call, rateVars, sessionVars, toolVars, cacheVars, uploadVars>>
NextCache == Cache!Next /\ UNCHANGED <<call, rateVars, sessionVars, toolVars, reportVars, uploadVars>>
NextUpload == Card!Next /\ UNCHANGED <<call, rateVars, sessionVars, toolVars, reportVars, cacheVars>>
Machine ==
    /\ \/ part = "call" /\ NextCall
       \/ part = "rate" /\ NextRate
       \/ part = "session" /\ NextSession
       \/ part = "tool" /\ NextTool
       \/ part = "report" /\ NextReport
       \/ part = "cache" /\ NextCache
       \/ part = "upload" /\ NextUpload
    /\ UNCHANGED <<part, input>>

(* Bounds: of the documents a tool may read, two are ingested again; once  *)
(* a report is complete, nothing more is run.  One version is as another,  *)
(* and one document that is read as another.                               *)
TwoReplaced == Cardinality({d \in DOMAIN table : table[d].gen > 1}) <= 2
ReportUnderWay == report.pc # "done"
Renamed == Permutations(Versions) \cup Permutations(Docs)

Extend(S, max) == Len(input) < max /\ \E x \in S : input' = Append(input, x)
Pick(S) == input = <<>> /\ \E x \in S : input' = <<x>>
Of(S, max) == UNION {[1 .. n -> S] : n \in 0 .. max}

(* Clauses, what is quoted of them, and the clauses that are hinted at.    *)
ClauseTexts == {<<"a", "_", "a">>, <<"/", "a", "Q">>}
Anchors == {<<>>, <<"_">>, <<"a">>, <<"_", "a">>, <<"a", "/">>, <<"q">>, <<"a", "Q">>, <<"a", "q">>,
            <<"a", "_", "a">>, <<"a", "/", "_", "a">>, <<"a", "a">>, <<"q", "_", "a">>, <<"/", "Q", "_">>}
Quotations ==
    {[clauses |-> <<c, d>>, anchor |-> a, hints |-> h] :
       c \in Of({"a", "_", "/", "q"}, 3), d \in ClauseTexts, a \in Anchors, h \in SUBSET {1, 2}}

(* Blocks by what they begin with.                                         *)
Lead(keyword, number, marked, rest) ==
    [keyword |-> keyword, number |-> number, marked |-> marked, rest |-> rest]
BlockKinds ==
    {[type |-> "paragraph", lead |-> l] : l \in
       {Lead("none", <<>>, FALSE, "lower"), Lead("paragraph", <<4>>, FALSE, "capital"),
        Lead("annex", <<1>>, FALSE, "capital"), Lead("decimal", <<1>>, TRUE, "capital"),
        Lead("decimal", <<1>>, TRUE, "month"), Lead("decimal", <<1, 2>>, FALSE, "lower"),
        Lead("ziffer", <<1, 2, 1>>, FALSE, "lower")}}
    \cup {[type |-> "heading", lead |-> Lead("none", <<>>, FALSE, "lower")],
          [type |-> "table_cell", lead |-> Lead("decimal", <<1, 2>>, FALSE, "lower")]}

(* Extractions: the fields one rule reads, with the values at its limits;  *)
(* nothing else was found, and at most one field is left from before.      *)
CaseTypes == {"employment_offer", "term_sheet", "vsop_esop_agreement", "other"}
Around(n) == {n - 1, n, n + 1}
KeyValues(c) ==
    CASE c.op = "=" -> {<<c.key, c.v>>}
      [] c.op = "/=" -> {<<c.key, c.v>>, <<c.key, "other">>}
      [] c.op = "in" -> {<<c.key, v>> : v \in c.v}
      [] c.op = "missing" -> {<<c.key, 1>>}
      [] c.op \in {">", ">=", "<", "missing or <"} -> {<<c.key, v>> : v \in Around(c.v)}
      [] c.op \in {"over", "not under"} -> {<<c.key, 2>>, <<c.key, 3>>}
      [] c.op = "not both" -> {<<c.key[i], v>> : i \in {1, 2}, v \in {12, 48}}
      [] OTHER -> {}
Asked(f) ==
    {a \in UNION {{<<i, j>> : j \in DOMAIN Bench!Rules[i].when} : i \in DOMAIN Bench!Rules} :
       LET c == Bench!Rules[a[1]].when[a[2]]
       IN  c.field = f \/ (c.op \in {"over", "not under"} /\ c.v[1] = f)}
FieldPairs(f) == UNION {KeyValues(Bench!Rules[a[1]].when[a[2]]) : a \in Asked(f)}
Functional(S) == \A p, q \in S : p[1] = q[1] => p = q
Values(f) ==
    {[k \in {p[1] : p \in S} |-> (CHOOSE p \in S : p[1] = k)[2]] :
       S \in {T \in SUBSET FieldPairs(f) : Functional(T)}}
FieldsOf(rule) ==
    rule.fields \cup {rule.when[j].field : j \in DOMAIN rule.when}
Extracts(f) ==
    {[status |-> s, value |-> v] : s \in {"extracted", "not_found", "extraction_failed"}, v \in Values(f)}
OneOf(F) == UNION {{f :> e : e \in Extracts(f)} : f \in F}
AllOf(F) == {r @@ s : r \in OneOf(F), s \in OneOf(F)}
Cases ==
    UNION {LET F == FieldsOf(Bench!Rules[i])
           IN  [read : AllOf(F), left : {<<>>}, type : CaseTypes]
               \cup [read : OneOf(F), left : OneOf(F), type : CaseTypes] : i \in DOMAIN Bench!Rules}

(* Up to four blocks below each other, the fourth on a page of its own,    *)
(* and a span that begins in the first of them or ends in the last.        *)
Shapes == {[height |-> h, indent |-> i, gap |-> i] : h \in {2, 4, 6}, i \in {0, 1, 3}}
LastShape == [height |-> 4, indent |-> 0, gap |-> 0]
Layout(shapes) ==
    FoldLeft(LAMBDA out, s :
                LET first == out = <<>>
                    at == IF first THEN 0 ELSE Last(out).to + 1
                    y  == IF first THEN 0 ELSE Last(out).y + Last(out).height
                IN  Append(out, [page |-> IF Len(out) = 3 THEN 2 ELSE 1, from |-> at, to |-> at + 3,
                                 x |-> s.indent, y |-> y + s.gap, width |-> 6, height |-> s.height]),
             <<>>, shapes)
Spanned == input # <<>> /\ "span" \in DOMAIN Last(input)
Cited == [layout |-> Layout(Front(input)), span |-> Last(input).span]
AddBlock == IF Len(input) = 3 THEN input' = Append(input, LastShape) ELSE Extend(Shapes, 3)
AddSpan ==
    LET end == 4 * Len(input) - 1
    IN  \E a \in 0 .. end, b \in 0 .. end :
           /\ a < b /\ (a < 4 \/ b > end - 3)
           /\ input' = Append(input, [span |-> [from |-> a, to |-> b]])

(* A document page by page: pages begin, and blocks are put on the last.    *)
Items ==
    [page : {"new", "broken"}] \cup
    [lines : {<<<<"A", "-">>, <<"a">>>>, <<<<"A", "-">>, <<"A">>>>, <<<<"a">>, <<>>, <<"-">>>>, <<<<>>>>},
     low : BOOLEAN]
PagesOf(items) ==
    FoldLeft(LAMBDA pages, x :
                IF "page" \in DOMAIN x THEN Append(pages, [broken |-> x.page = "broken", blocks |-> <<>>])
                ELSE Append(Front(pages), [Last(pages) EXCEPT !.blocks = Append(@, x)]),
             <<[broken |-> FALSE, blocks |-> <<>>]>>, items)

(* The inputs are such as the theorems about the functions are of.         *)
ASSUME InputsAssumption ==
    /\ BlockKinds \subseteq Segments!Blocks
    /\ \A c \in Cases :
          /\ c.type \in Bench!DocumentTypes
          /\ \A rows \in {c.read} \cup {c.left} : \A f \in DOMAIN rows : IsReading(rows[f])

Function ==
    /\ \/ part = "chunks" /\ Extend(Chunks!Chars, 7)
       \/ part = "cites" /\ Pick(Quotations)
       \/ part = "segments" /\ Extend(BlockKinds, 5)
       \/ part = "rules" /\ Pick(Cases)
       \/ part = "highlights" /\ ~Spanned /\ Len(input) < 4 /\ AddBlock
       \/ part = "highlights" /\ ~Spanned /\ input # <<>> /\ AddSpan
       \/ part = "frames" /\ Extend(IF input = <<>> THEN Frames!Atoms \cup {Frames!BOM} ELSE Frames!Atoms, 6)
       \/ part = "sums" /\ Extend(Sums!Tokens, 6)
       \/ part = "prose" /\ Extend(Prose!Pieces, 4)
       \/ part = "markers" /\ Extend({"[", "]", " ", "x"}, 8)
       \/ part = "parsed" /\ Extend(Items, 4)
       \/ part = "numbers" /\ Pick([n : 1 .. 9, m : 0 .. 4, style : Score!Styles])
       \/ part = "arrays" /\ Pick(Of({1, 2, 3}, 3) \X Of({1, 2, 3}, 3))
       \/ part = "fields" /\ Extend(Score!ScoredFields, 5)
       \/ part = "flags" /\ Extend(Score!Observations, 5)
       \/ part = "ranks" /\ Extend([hits : [1 .. 3 -> BOOLEAN], gold : 3 .. 4], 3)
       \/ part = "stripped" /\ Extend(Prose!HistoryAtoms, 7)
       \/ part = "turns" /\ Extend(Prose!Turns, 5)
       \/ part = "ids" /\ Extend(Prose!IdAtoms, 6)
       \/ part = "answers" /\ Pick(Fills!Answers)
    /\ UNCHANGED <<part, machineVars>>
Next == Machine \/ Function
Spec == Init /\ [][Next]_partVars

-----------------------------------------------------------------------------
(* What a text says, and where, survives its handling: a grounding reports *)
(* the uncited claims, a chip is a validated marker, an id names one       *)
(* clause, a replayed conversation is its prose in turns, a sum is what it *)
(* would be on paper; how the network cuts a stream changes none of the    *)
(* frames the event-stream format gives; and offsets point at what they    *)
(* were made for: the blocks of a page, quotations and highlights.         *)
TextsKeepTheirSense ==
    /\ Is("prose") => Prose!ExactlyTheUncited(input)
    /\ Is("markers") => Prose!ChipsAreValidated(input)
    /\ Is("ids") => Prose!IdsReadBack(input)
    /\ Is("stripped") => Prose!StripLeavesProse(input)
    /\ Is("turns") => Prose!AsksInTurns(input)
    /\ Is("sums") => Sums!AnswersExpressions(input) /\ Sums!BindsByConvention(input)
    /\ Is("frames") => Frames!ChunkingIsInvisible(input) /\ Frames!FramesAreTheFormats(input)
    /\ Is("parsed") => Parsed!OffsetsAreFrozen(PagesOf(input)) /\ Parsed!ShownPagesAreMeasured(PagesOf(input))
    /\ Is("cites") /\ Picked =>
          /\ Cites!CitesVerbatim(input[1].clauses, input[1].anchor, input[1].hints)
          /\ Cites!NeverGuesses(input[1].clauses, input[1].anchor, input[1].hints)
    /\ Is("highlights") /\ Spanned =>
          /\ Marks!NeverOffTheLine(Cited.layout, Cited.span)
          /\ Marks!PaintsNothingElse(Cited.layout, Cited.span)

(* An evaluation is fair: numbers and arrays compare by what they mean,    *)
(* and a worse reading, flag or ranking never scores higher.               *)
EvaluationIsFair ==
    /\ Is("numbers") /\ Picked => Score!ReadsBack(input[1].n, input[1].m, input[1].style)
    /\ Is("arrays") /\ Picked => Score!MatchesAsMultisets(input[1][1], input[1][2])
    /\ Is("fields") => Score!WorseReadingScoresLower(input)
    /\ Is("flags") => Score!WorseFlagsScoreLower(input)
    /\ Is("ranks") => Score!BetterRanksScoreHigher(input)

(* README.md:41: an accepted text has no claim without a marker. *)
EverySentenceIsCited == Is("prose") => Prose!EverySentenceIsCited(input)
=============================================================================
