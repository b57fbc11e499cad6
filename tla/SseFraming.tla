------------------------------ MODULE SseFraming ------------------------------
(***************************************************************************)
(* web/src/stream/sse.ts: frames out of a stream of text that arrives in   *)
(* chunks, cut anywhere.  A text is a sequence of atoms; "data:", "event:" *)
(* and "id:" are the beginnings of the fields, ":" is any other colon, and *)
(* retry, which is carried along as id is, is left out.                    *)
(***************************************************************************)
EXTENDS Integers, Sequences, FiniteSets, FiniteSetsExt, SequencesExt

CR == "CR"
LF == "LF"
BOM == "BOM"
Atoms == {"data:", "event:", "id:", ":", "x", CR, LF}
Unset == <<>>

New == [buffer |-> <<>>, seenFirstChunk |-> FALSE, eventType |-> <<>>, data |-> <<>>,
        lastId |-> Unset, out |-> <<>>]
Frame(name, data, id) == [event |-> IF name = <<>> THEN <<"message">> ELSE name, data |-> data, id |-> id]

(* Every data line contributed a line break; the last one is not payload.  *)
DispatchKeepingEvent(s) ==
    IF s.data = <<>> THEN s
    ELSE [s EXCEPT !.out = Append(@, Frame(s.eventType, Front(s.data), s.lastId)),
                   !.eventType = <<>>, !.data = <<>>]
dispatch(s) ==
    IF s.data = <<>> THEN [s EXCEPT !.eventType = <<>>]
    ELSE [s EXCEPT !.out = Append(@, Frame(s.eventType, Front(s.data), s.lastId)),
                   !.eventType = <<>>, !.data = <<>>]
handleLine(s, line) ==
    IF line = <<>> THEN dispatch(s)
    ELSE CASE Head(line) = "event:" -> [s EXCEPT !.eventType = Tail(line)]
           [] Head(line) = "data:" -> [s EXCEPT !.data = @ \o Tail(line) \o <<LF>>]
           [] Head(line) = "id:" -> [s EXCEPT !.lastId = Tail(line)]
           [] OTHER -> s                            \* a comment, or an unknown field

(* A line ends with LF, CR LF or CR; a CR at the very end of the buffer    *)
(* may be half of a CR LF, and waits for the next chunk.                   *)
EndsEagerly(text) ==
    {i \in DOMAIN text : text[i] = LF \/ (text[i] = CR /\ (i = Len(text) \/ text[i + 1] # LF))}
Ends(text) ==
    {i \in DOMAIN text : text[i] = LF \/ (text[i] = CR /\ i < Len(text) /\ text[i + 1] # LF)}
Before(text, ends, i) == Max({0} \cup {e \in ends : e < i})
LineTo(text, ends, i) ==
    LET from == Before(text, ends, i) + 1
        to   == IF text[i] = LF /\ i > from /\ text[i - 1] = CR THEN i - 2 ELSE i - 1
    IN  SubSeq(text, from, to)
Lines(text) ==
    LET ends == Ends(text)
        at == SelectSeq([i \in DOMAIN text |-> i], LAMBDA i : i \in ends)
    IN  [k \in DOMAIN at |-> LineTo(text, ends, at[k])]
Unfinished(text) == SubSeq(text, Max({0} \cup Ends(text)) + 1, Len(text))

push(s, chunk) ==
    LET first == ~s.seenFirstChunk /\ chunk # <<>>
        text  == s.buffer \o (IF first /\ chunk[1] = BOM THEN Tail(chunk) ELSE chunk)
        read  == FoldLeft(handleLine, s, Lines(text))
    IN  [read EXCEPT !.buffer = Unfinished(text), !.seenFirstChunk = @ \/ chunk # <<>>]
flush(s) ==
    dispatch([(IF s.buffer = <<>> THEN s ELSE handleLine(s, s.buffer)) EXCEPT !.buffer = <<>>])

FramesOf(chunks) == flush(FoldLeft(push, New, chunks)).out

-----------------------------------------------------------------------------
(* The frames are those of the text, however the network cut it: in one    *)
(* piece, in two anywhere, or atom by atom.                                *)
ChunkingIsInvisible(text) ==
    LET whole == FramesOf(<<text>>)
    IN  /\ \A i \in 1 .. Len(text) - 1 :
              FramesOf(<<SubSeq(text, 1, i), SubSeq(text, i + 1, Len(text))>>) = whole
        /\ FramesOf([i \in DOMAIN text |-> <<text[i]>>]) = whole

(* The event-stream format, over the lines of a whole text: a group of     *)
(* lines between blank ones is a frame if it has a data line; it bears the *)
(* name of its last event line and the id of the last id line so far.      *)
(* What the stream ends in counts as finished.  (A text that ends in a     *)
(* lone CR is left out: flush reads the CR as part of the line.)           *)
AllLines(text) ==
    LET bare == IF text # <<>> /\ text[1] = BOM THEN Tail(text) ELSE text
    IN  Append(Lines(bare), Unfinished(bare)) \o <<<<>>>>
Named(lines, from, to, field) ==
    LET at == {k \in from .. to : lines[k] # <<>> /\ Head(lines[k]) = field}
    IN  IF at = {} THEN <<>> ELSE Tail(lines[Max(at)])
Payload(lines, from, to) ==
    LET data == SelectSeq(SubSeq(lines, from, to), LAMBDA l : l # <<>> /\ Head(l) = "data:")
    IN  FoldLeft(LAMBDA out, l : out \o Tail(l) \o <<LF>>, <<>>, data)
SpecFrames(text) ==
    LET lines == AllLines(text)
        blank == {k \in DOMAIN lines : lines[k] = <<>>}
        from(k) == Max({0} \cup {b \in blank : b < k}) + 1
        full == {k \in blank : Payload(lines, from(k), k) # <<>>}
        at == SelectSeq([k \in DOMAIN lines |-> k], LAMBDA k : k \in full)
    IN  [n \in DOMAIN at |->
           Frame(Named(lines, from(at[n]), at[n], "event:"),
                 Front(Payload(lines, from(at[n]), at[n])),
                 Named(lines, 1, at[n], "id:"))]
FramesAreTheFormats(text) ==
    text = <<>> \/ Last(text) # CR => FramesOf(<<text>>) = SpecFrames(text)
=============================================================================
