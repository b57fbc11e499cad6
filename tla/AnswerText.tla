------------------------------ MODULE AnswerText ------------------------------
(***************************************************************************)
(* The sentences the grounding contract is enforced on (agent/grounding.ts)*)
(* and the chips the reader sees (web/src/citations/markers.ts), with the  *)
(* ids the markers hold, and what is left of an answer when it is replayed *)
(* in a later question (agent/history.ts).  For the sentences a text is a  *)
(* sequence of "w" (a word), "abk" (an abbreviation or a bare number), "m" *)
(* (a marker that resolves, masked while a text is split), "." for every   *)
(* stop, ":", "#", " " and NL.                                             *)
(***************************************************************************)
EXTENDS Integers, Sequences, FiniteSets, FiniteSetsExt, SequencesExt

CONSTANTS MaxHeading,   \* words of a heading: 60 characters
          MaxHistory    \* MAX_HISTORY_TURNS

NL == "NL"
Words == {"w", "abk"}
Has(s, atoms) == \E i \in DOMAIN s : s[i] \in atoms
Trim(s) ==
    LET solid == {i \in DOMAIN s : s[i] # " "}
    IN  IF solid = {} THEN <<>> ELSE SubSeq(s, Min(solid), Max(solid))

(* Split at every line break, and at the spaces right after a stop.        *)
SplitsAt(t, i) ==
    \/ t[i] = NL
    \/ \E j \in 1 .. i - 1 : t[j] = "." /\ \A k \in j + 1 .. i : t[k] = " "
Fragments(t) ==
    LET places == [i \in DOMAIN t |-> i]
        kept == {i \in DOMAIN t : ~SplitsAt(t, i)}
        starts == SelectSeq(places, LAMBDA i : i \in kept /\ i - 1 \notin kept)
        ends == SelectSeq(places, LAMBDA i : i \in kept /\ i + 1 \notin kept)
    IN  SelectSeq([k \in DOMAIN starts |-> Trim(SubSeq(t, starts[k], ends[k]))], LAMBDA s : s # <<>>)

isMarkerOnly(s) == Has(s, {"m"}) /\ ~Has(s, Words)
endsWithAbbreviation(s) ==
    /\ Len(s) >= 2 /\ s[Len(s)] = "." /\ s[Len(s) - 1] = "abk"
    /\ Len(s) = 2 \/ s[Len(s) - 2] = " "
JoinedWords(t) ==
    FoldLeft(LAMBDA out, part :
                IF out # <<>> /\ endsWithAbbreviation(Last(out))
                THEN Append(Front(out), Last(out) \o <<" ">> \o part) ELSE Append(out, part),
             <<>>, Fragments(t))
splitSentences(t) ==
    FoldLeft(LAMBDA out, part :
                IF out # <<>> /\ (endsWithAbbreviation(Last(out)) \/ isMarkerOnly(part))
                THEN Append(Front(out), Last(out) \o <<" ">> \o part) ELSE Append(out, part),
             <<>>, Fragments(t))

isHeading(s) ==
    /\ Len(s) > 1 /\ s[1] = "#" /\ s[2] = " "
    /\ Last(s) # "." /\ Len(SelectSeq(s, LAMBDA a : a \in Words)) <= MaxHeading
requiresCitation(s) ==
    LET bare == Trim([i \in DOMAIN s |-> IF s[i] = "m" THEN " " ELSE s[i]])
    IN  Has(bare, Words) /\ Last(bare) # ":" /\ ~isHeading(bare)
Uncited(t) == SelectSeq(splitSentences(t), LAMBDA s : requiresCitation(s) /\ ~Has(s, {"m"}))

-----------------------------------------------------------------------------
(* What a writer writes: a claim cited before its stop or after it, at its *)
(* beginning or not at all, a heading, a lead-in, with abbreviations or    *)
(* numbers in it or at its end; each followed by a space or by a line      *)
(* break, where it needs one.                                              *)
Forms ==
    [before   |-> <<"w", " ", "m", ".">>,
     trailing |-> <<"w", ".", " ", "m">>,
     leading  |-> <<"m", " ", "w", ".">>,
     ordinal  |-> <<"w", " ", "abk", ".", " ", "w", " ", "m", ".">>,
     glued    |-> <<"w", ".", "m">>,
     bare     |-> <<"w", ".">>,
     ordinals |-> <<"abk", ".", " ", "w", " ", "abk", ".", " ", "w", ".">>,
     number   |-> <<"w", " ", "abk", ".">>,
     heading  |-> <<"#", " ", "w">>,
     leadIn   |-> <<"w", " ", "w", ":">>,
     long     |-> <<"#", " ", "w", " ", "w", " ", "w">>]
Lines == {"trailing", "heading", "leadIn", "long"}
Claims == {"bare", "ordinals", "number", "long"}
Pieces ==
    {[form |-> f, break |-> b] : f \in DOMAIN Forms, b \in {" ", NL}} \
       {[form |-> f, break |-> " "] : f \in Lines}
TextOf(pieces) == FlattenSeq([k \in DOMAIN pieces |-> Append(Forms[pieces[k].form], pieces[k].break)])
UncitedClaims(pieces) ==
    LET bare == SelectSeq(pieces, LAMBDA p : p.form \in Claims)
    IN  [k \in DOMAIN bare |-> Forms[bare[k].form]]

(* The contract is enforced on the writer's sentences: those that are      *)
(* reported, and sent back to the model, are the claims without a marker,  *)
(* each of them whole, and no other text -- as long as no marker is glued  *)
(* to the stop it follows, and no claim but the last ends in a number or   *)
(* in an abbreviation.                                                     *)
Glued(pieces) == \E k \in DOMAIN pieces : pieces[k].form = "glued"
EndsInNumber(pieces) == \E k \in DOMAIN pieces : pieces[k].form = "number" /\ k < Len(pieces)
ExactlyTheUncited(pieces) ==
    ~Glued(pieces) /\ ~EndsInNumber(pieces) => Uncited(TextOf(pieces)) = UncitedClaims(pieces)

(* README.md:41, "every factual sentence must carry a [[clause_id]]        *)
(* marker": what is accepted has no claim without one, at least where each *)
(* marker is apart from the stop before it.                                *)
EverySentenceIsCited(pieces) ==
    ~Glued(pieces) /\ Uncited(TextOf(pieces)) = <<>> => UncitedClaims(pieces) = <<>>

-----------------------------------------------------------------------------
(* Markers, on texts of "[", "]", " " and "x", where x is the serialized   *)
(* id of a clause that is cited: "[[", a body without "]" (on the server   *)
(* without "[" either), "]]"; from the left, without overlaps.             *)
Body(t, i, j, without) == j > i + 2 /\ \A k \in i + 2 .. j - 1 : t[k] \notin without
MarkerAt(t, i, without) ==
    {j \in i + 3 .. Len(t) - 1 :
       /\ t[i] = "[" /\ t[i + 1] = "[" /\ Body(t, i, j, without)
       /\ t[j] = "]" /\ t[j + 1] = "]"}
Matches(t, without) ==
    FoldLeft(LAMBDA out, i :
                IF (out # <<>> /\ i <= Last(out).to) \/ MarkerAt(t, i, without) = {} THEN out
                ELSE LET j == Min(MarkerAt(t, i, without))
                     IN  Append(out, [from |-> i, to |-> j + 1, value |-> Trim(SubSeq(t, i + 2, j - 1))]),
             <<>>, [i \in 1 .. Len(t) |-> i])
extractMarkers(t) == Matches(t, {"[", "]"})

Text(t, from, to) == IF to < from THEN <<>> ELSE <<[raw |-> SubSeq(t, from, to), chip |-> FALSE]>>
PartsOf(t, matches) ==
    LET after(k) == IF k = 0 THEN 1 ELSE matches[k].to + 1
    IN  FlattenSeq([k \in DOMAIN matches |->
                       Text(t, after(k - 1), matches[k].from - 1)
                       \o <<[raw |-> SubSeq(t, matches[k].from, matches[k].to),
                             chip |-> matches[k].value = <<"x">>]>>])
        \o Text(t, after(Len(matches)), Len(t))
splitMarkersLoosely(t) ==
    PartsOf(t, [k \in DOMAIN Matches(t, {"]"}) |-> [Matches(t, {"]"})[k] EXCEPT !.value = SelectSeq(@, LAMBDA a : a = "x")]])
splitMarkers(t) == PartsOf(t, Matches(t, {"]"}))

(* The reader loses no character of the answer, and is shown as a chip     *)
(* only what the server has validated as a marker, at that very place.     *)
ChipsAreValidated(t) ==
    LET parts == splitMarkers(t)
        raws == [k \in DOMAIN parts |-> parts[k].raw]
        at(k) == Len(FlattenSeq(SubSeq(raws, 1, k - 1))) + 1
        Validated(k) == \E n \in DOMAIN extractMarkers(t) :
                            LET m == extractMarkers(t)[n]
                            IN  /\ m.from >= at(k) /\ m.to = at(k) + Len(parts[k].raw) - 1
                                /\ m.value = <<"x">>
    IN  /\ FlattenSeq(raws) = t
        /\ \A k \in DOMAIN parts : parts[k].chip => Validated(k)

-----------------------------------------------------------------------------
(* The ids in the markers (shared/src/schemas/ids.ts): a document, a page  *)
(* and a clause path, joined by colons.  Here a string is a sequence of    *)
(* "D" (the uuid of a document), ":", " ", the digits "0" and "1" and "p", *)
(* which stands for all other characters; a number is its digits, without  *)
(* the zeros it may begin with and the spaces around it.                   *)
IdAtoms == {"D", ":", " ", "0", "1", "p"}
Refused == [ok |-> FALSE]
Zero == <<>>
NaN == <<"NaN">>
Number(s) ==
    LET digits == Trim(s)
        ones == {i \in DOMAIN digits : digits[i] = "1"}
    IN  IF Has(digits, IdAtoms \ {"0", "1"}) THEN NaN
        ELSE IF ones = {} THEN Zero ELSE SubSeq(digits, Min(ones), Len(digits))

clausePathValid(path) == path # <<>> /\ ToSet(path) \cap {":", " "} = {}
clauseRefValid(ref) ==
    \E i \in DOMAIN ref :
       /\ ref[i] = ":" /\ i > 1 /\ \A k \in 1 .. i - 1 : ref[k] \in {"0", "1"}
       /\ clausePathValid(SubSeq(ref, i + 1, Len(ref)))
buildClauseRef(page, path) == page \o <<":">> \o path
serializeClauseId(id) == <<"D", ":">> \o buildClauseRef(id.page, id.path)

Colons(s) == SelectSeq([i \in DOMAIN s |-> i], LAMBDA i : s[i] = ":")
parseAnyPath(s) ==      \* whatever follows the page
    LET colon == Colons(s)
        doc  == SubSeq(s, 1, colon[1] - 1)
        page == Number(SubSeq(s, colon[1] + 1, colon[2] - 1))
        path == SubSeq(s, colon[2] + 1, Len(s))
    IN  IF Len(colon) < 2 \/ doc # <<"D">> \/ page \in {Zero, NaN} THEN Refused
        ELSE [ok |-> TRUE, page |-> page, path |-> path]
parseClauseId(s) ==
    LET colon == Colons(s)
        doc  == SubSeq(s, 1, colon[1] - 1)
        page == Number(SubSeq(s, colon[1] + 1, colon[2] - 1))
        path == SubSeq(s, colon[2] + 1, Len(s))
    IN  IF Len(colon) < 2 \/ doc # <<"D">> \/ page \in {Zero, NaN} \/ ~clausePathValid(path) THEN Refused
        ELSE [ok |-> TRUE, page |-> page, path |-> path]

(* Whatever is accepted as an id, from a model or in a URL, names a clause *)
(* in one way: what was read can be written again, as a well-formed id,    *)
(* and reads the same; so an id that is spelt otherwise, with zeros or     *)
(* spaces around its page, is never the id of another clause.              *)
IdsReadBack(s) ==
    LET id == parseClauseId(s)
        written == serializeClauseId(id)
    IN  id.ok =>
          /\ clauseRefValid(SubSeq(written, 3, Len(written)))
          /\ parseClauseId(written) = id
          /\ Len(written) <= Len(s)
          /\ clauseRefValid(SubSeq(s, 3, Len(s))) /\ s[3] # "0" => s = written

-----------------------------------------------------------------------------
(* What the agent remembers of a conversation: earlier answers without     *)
(* their markers, and the messages a question is asked with.  A text is    *)
(* a sequence of "w" (a word), "m" (a marker, its brackets included), "."  *)
(* (every closing punctuation), " " and NL.                                *)
HistoryAtoms == {"w", "m", ".", " ", NL}
Keep(t, Test(_)) ==
    LET at == SelectSeq([i \in DOMAIN t |-> i], Test) IN [k \in DOMAIN at |-> t[at[k]]]

withoutMarkers(t) == Keep(t, LAMBDA i : t[i] # "m")
oneSpace(t) == Keep(t, LAMBDA i : ~(t[i] = " " /\ i > 1 /\ t[i - 1] = " "))
noSpaceBefore(t, atoms) == Keep(t, LAMBDA i : ~(t[i] = " " /\ i < Len(t) /\ t[i + 1] \in atoms))
oneBlankLine(t) == Keep(t, LAMBDA i : ~(i > 2 /\ \A k \in i - 2 .. i : t[k] = NL))
TrimLines(t) ==
    LET solid == {i \in DOMAIN t : t[i] \notin {" ", NL}}
    IN  IF solid = {} THEN <<>> ELSE SubSeq(t, Min(solid), Max(solid))
stripTidyingFirst(t) == \* the spaces a marker leaves behind are tidied before it goes
    TrimLines(oneBlankLine(noSpaceBefore(withoutMarkers(noSpaceBefore(oneSpace(t), {"."})), {NL})))
stripMarkers(t) ==
    TrimLines(oneBlankLine(noSpaceBefore(noSpaceBefore(oneSpace(withoutMarkers(t)), {"."}), {NL})))

(* Turns, oldest first: of the chat or of the report writer, with prose,   *)
(* with a long answer, or with nothing but markers in it.                  *)
Turns == [kind : {"ask", "report"}, answer : {"prose", "long", "markers"}]
Oldest(s, n) == SubSeq(s, 1, IF Len(s) < n THEN Len(s) ELSE n)
loadConversation(turns) ==
    LET asked == SelectSeq([i \in DOMAIN turns |-> i], LAMBDA i : turns[i].kind = "ask")
        newestFirst == Reverse(asked)
    IN  Reverse(Oldest(newestFirst, MaxHistory))
truncate(answer) == IF answer = "long" THEN "excerpt" ELSE answer
Said(role, i, text) == [role |-> role, turn |-> i, text |-> text]
toHistoryKeepingQuestions(turns, recent) ==
    FlattenSeq([k \in DOMAIN recent |->
        <<Said("user", recent[k], "question")>>
        \o IF turns[recent[k]].answer = "markers" THEN <<>>
           ELSE <<Said("assistant", recent[k], truncate(turns[recent[k]].answer))>>])
toHistoryMessages(turns, recent) ==
    FlattenSeq([k \in DOMAIN recent |->
        IF turns[recent[k]].answer = "markers" THEN <<>>
        ELSE <<Said("user", recent[k], "question"),
               Said("assistant", recent[k], truncate(turns[recent[k]].answer))>>])
Messages(turns) ==
    Append(toHistoryMessages(turns, loadConversation(turns)), Said("user", Len(turns) + 1, "question"))

(* A replayed answer is the prose of the old one: its words and stops, in  *)
(* their order; where two of them were apart they still are, by a line     *)
(* break if there was one, and by nothing before a stop; no marker, double *)
(* space, trailing space or second blank line is left of the citations.    *)
Solid == {"w", "."}
Gap(t, k) ==            \* between the k-th solid atom and the next
    LET at == SelectSeq([i \in DOMAIN t |-> i], LAMBDA i : t[i] \in Solid)
    IN  {t[i] : i \in at[k] + 1 .. at[k + 1] - 1} \ {"m"}
StripLeavesProse(t) ==
    LET out   == stripMarkers(t)
        solid == SelectSeq(t, LAMBDA a : a \in Solid)
    IN  /\ SelectSeq(out, LAMBDA a : a \in Solid) = solid
        /\ \A a \in ToSet(out) : a # "m"
        /\ out # <<>> => out[1] \in Solid /\ Last(out) \in Solid
        /\ \A k \in 1 .. Len(solid) - 1 :
              /\ NL \in Gap(out, k) <=> NL \in Gap(t, k)
              /\ NL \notin Gap(t, k) => (Gap(out, k) # {} <=> Gap(t, k) # {} /\ solid[k + 1] # ".")
        /\ \A i \in 2 .. Len(out) :
              /\ out[i - 1] = " " => out[i] \notin {" ", ".", NL}
              /\ i > 2 => ~(out[i - 2] = NL /\ out[i - 1] = NL /\ out[i] = NL)

(* The model is asked in turns: its messages begin and end with the reader *)
(* and alternate, and they are the last questions of the chat, in order,   *)
(* each with its own answer, as far as the answer says anything.           *)
AsksInTurns(turns) ==
    LET messages == Messages(turns)
        asks == {i \in DOMAIN turns : turns[i].kind = "ask"}
        recent == {i \in asks : Cardinality({j \in asks : j > i}) < MaxHistory}
    IN  /\ \A k \in DOMAIN messages : messages[k].role = IF k % 2 = 1 THEN "user" ELSE "assistant"
        /\ Last(messages).turn = Len(turns) + 1
        /\ \A k \in 1 .. Len(messages) - 1 :
              messages[k].turn = messages[k + 1].turn <=> k % 2 = 1
        /\ \A k \in 1 .. Len(messages) - 1 : messages[k].turn <= messages[k + 1].turn
        /\ {messages[k].turn : k \in 1 .. Len(messages) - 1} = {i \in recent : turns[i].answer # "markers"}
=============================================================================
