----------------------------- MODULE ProviderCall -----------------------------
(***************************************************************************)
(* One call of a model provider: the POST with its retries in              *)
(* api/src/providers/http.ts, buffered (postJson) or streamed (postSse),   *)
(* and the assembly of the streamed answer in providers/llm/anthropic.ts.  *)
(* The provider is external: it may refuse, drop the connection, and end   *)
(* or break a stream anywhere.                                             *)
(***************************************************************************)
EXTENDS Integers, Sequences

CONSTANTS Attempts,       \* posts at most: 5
          MaxBlocks,      \* blocks of an answer
          MaxDeltas       \* deltas of a block

CallAssumption == Attempts \in Nat \ {0} /\ MaxBlocks \in Nat /\ MaxDeltas \in Nat

VARIABLE call             \* the call, or NoCall

BlockTypes == {"text", "tool_use", "thinking"}
Retryable == {429, 500, 502, 503, 504}
StopReasons == {"end_turn", "tool_use", "max_tokens", "refusal"}

(* pc is where the loop stands; blocks are the partials by index; said is  *)
(* what onTextDelta was given; slept counts base delays.                   *)
NoCall == [pc |-> "idle"]
NewCall(streamed) ==
    [pc |-> "post", streamed |-> streamed, attempt |-> 0, posts |-> 0, slept |-> 0, owed |-> 0,
     flowing |-> FALSE, blocks |-> <<>>, said |-> <<>>, stop |-> "end_turn", content |-> <<>>]
Init == call = NoCall

Begin(streamed) == call = NoCall /\ call' = NewCall(streamed)

At(pc) == call.pc = pc
(* The next turn of the for loop, or the last error thrown.                *)
NextAttemptForever(c) == [c EXCEPT !.attempt = @ + 1, !.pc = "backoff"]
NextAttemptOf(c) ==
    [c EXCEPT !.attempt = @ + 1, !.pc = IF c.attempt + 1 < Attempts THEN "backoff" ELSE "failed"]

Backoff ==
    /\ At("backoff")
    /\ call' = [call EXCEPT !.pc = "post", !.slept = @ + 2 ^ (call.attempt - 1)]

Post ==
    /\ At("post")
    /\ call' = [call EXCEPT !.pc = "sent", !.posts = @ + 1, !.slept = 0, !.owed = 0]

ConnectionFails == At("sent") /\ call' = NextAttemptOf(call)

(* What is not retryable is thrown; a Retry-After is slept out first, also *)
(* after the last attempt.                                                 *)
RefusedImpatient(status, retryAfter) ==
    /\ At("sent")
    /\ call' = IF status \in Retryable
               THEN [NextAttemptOf(call) EXCEPT !.owed = retryAfter] ELSE [call EXCEPT !.pc = "failed"]
Refused(status, retryAfter) ==
    /\ At("sent")
    /\ call' = IF status \in Retryable
               THEN NextAttemptOf([call EXCEPT !.slept = retryAfter, !.owed = retryAfter])
               ELSE [call EXCEPT !.pc = "failed"]

(* postJson: the body is read whole or the error propagates.               *)
AnsweredWhole(stop) ==
    /\ At("sent") /\ ~call.streamed
    /\ call' = [call EXCEPT !.pc = "done", !.stop = stop]
BodyFails ==
    /\ At("sent")
    /\ call' = [call EXCEPT !.pc = "failed"]

StreamOpens ==
    /\ At("sent") /\ call.streamed
    /\ call' = [call EXCEPT !.pc = "stream", !.flowing = TRUE]

(* content_block_start, content_block_delta, message_delta                 *)
BlockStarts(type) ==
    /\ At("stream") /\ Len(call.blocks) < MaxBlocks
    /\ call' = [call EXCEPT !.blocks = Append(@, [type |-> type, text |-> <<>>, json |-> 0])]
Last == Len(call.blocks)
TextDelta ==
    /\ At("stream") /\ Last > 0
    /\ call.blocks[Last].type = "text" /\ Len(call.blocks[Last].text) < MaxDeltas
    /\ LET delta == <<Last, Len(call.blocks[Last].text)>>
       IN  call' = [call EXCEPT !.blocks[Last].text = Append(@, delta), !.said = Append(@, delta)]
JsonDelta ==
    /\ At("stream") /\ Last > 0
    /\ call.blocks[Last].type = "tool_use" /\ call.blocks[Last].json < MaxDeltas
    /\ call' = [call EXCEPT !.blocks[Last].json = @ + 1]
MessageDelta(stop) ==
    /\ At("stream") /\ Last > 0
    /\ call' = [call EXCEPT !.stop = stop]

(* The blocks in the order of their index; what was sent of a tool's input *)
(* parses when it is empty or whole, MaxDeltas pieces; thinking is dropped.*)
InputTrusting(json) == "object"
Input(json) == IF json \in {0, MaxDeltas} THEN "object" ELSE "parse error"
WireBlock(b) ==
    IF b.type = "text" THEN [type |-> "text", text |-> b.text]
    ELSE [type |-> "tool_use", sent |-> b.json, input |-> Input(b.json)]
Assembled(blocks) ==
    LET content[k \in 0 .. Len(blocks)] ==
            IF k = 0 THEN <<>>
            ELSE IF blocks[k].type = "thinking" THEN content[k - 1]
            ELSE Append(content[k - 1], WireBlock(blocks[k]))
    IN  content[Len(blocks)]
AssembleClosed == Assembled(SubSeq(call.blocks, 1, Last - 1))
Assemble == Assembled(call.blocks)

(* The stream ends, with or without a stop reason, and is assembled; when  *)
(* reading breaks the error propagates, for a retry would replay a turn.   *)
StreamEnds == At("stream") /\ call' = [call EXCEPT !.pc = "done", !.content = Assemble]
StreamBreaksRetried == At("stream") /\ call' = NextAttemptOf(call)
StreamBreaks == At("stream") /\ call' = [call EXCEPT !.pc = "failed"]

Answers(stop) == AnsweredWhole(stop) \/ MessageDelta(stop)
Streaming ==
    \/ \E type \in BlockTypes : BlockStarts(type)
    \/ TextDelta \/ JsonDelta \/ StreamEnds \/ StreamBreaks
Posting ==
    \/ Backoff \/ Post \/ ConnectionFails \/ BodyFails \/ StreamOpens
    \/ \E status \in {400, 429, 503}, retryAfter \in {0, 3} : Refused(status, retryAfter)
Next ==
    \/ \E streamed \in BOOLEAN : Begin(streamed)
    \/ Posting \/ Streaming
    \/ \E stop \in StopReasons : Answers(stop)

Spec == Init /\ [][Next]_call

-----------------------------------------------------------------------------
(* Once a stream has opened the request is never posted again: what the    *)
(* reader has been shown is not said twice.                                *)
NeverReplayed == call # NoCall /\ call.flowing => call.pc \in {"stream", "done", "failed"}

TextOf(b) == IF b.type = "text" THEN b.text ELSE <<>>
Said(content) ==
    LET text[k \in 0 .. Len(content)] == IF k = 0 THEN <<>> ELSE text[k - 1] \o TextOf(content[k])
    IN  text[Len(content)]
(* The text of the answer is what was streamed, wherever the stream was    *)
(* cut: what the loop validates and stores is what the reader has seen.    *)
DoneIsWhatWasSaid == call # NoCall /\ call.pc = "done" => Said(call.content) = call.said

(* A tool is never run on part of the input the model was writing.         *)
ToolInputWhole ==
    call # NoCall /\ call.pc = "done" =>
        \A k \in DOMAIN call.content :
            call.content[k].type = "tool_use" /\ call.content[k].input = "object" =>
                call.content[k].sent \in {0, MaxDeltas}

(* A provider that keeps refusing, or that cannot be reached, is asked no  *)
(* more than Attempts times, whatever it answers in between.               *)
RetriesAreBounded == call # NoCall => call.posts <= Attempts

(* No post follows a refusal sooner than it asked for, or sooner than the  *)
(* delay of that attempt.                                                  *)
WaitsFirst ==
    [][call # NoCall /\ At("post") /\ call.attempt > 0 =>
          call.slept >= call.owed + 2 ^ (call.attempt - 1)]_call
=============================================================================
