-------------------------------- MODULE Uploads --------------------------------
(***************************************************************************)
(* The upload card of the landing page (web/src/features/landing/upload-   *)
(* card.tsx, web/src/api/upload.ts): a batch of files becomes a case, its  *)
(* files are sent one after the other, and the page opens the case.  Files *)
(* can be dropped while a batch is under way; the button and the input are *)
(* disabled then.  Nothing stops a batch: not leaving the card, nor the    *)
(* batch dropped beside it.  A file is [name, content], the name being     *)
(* what the card refuses by.                                               *)
(***************************************************************************)
EXTENDS Integers, Sequences, FiniteSets, SequencesExt

CONSTANTS Batches, Files, MaxFiles, Cap, MaxMounts, None

(* The client takes no more files than a case may hold (10 and 10).        *)
UploadsAssumption ==
    /\ None \notin Batches /\ {"landing", "elsewhere"} \cap Batches = {}
    /\ \A files \in Files : files \in Seq([name: {"document", "image"}, content: Nat])
    /\ MaxFiles \in Nat /\ Cap \in Nat /\ MaxFiles <= Cap
    /\ MaxMounts \in Nat

VARIABLES card, batch, docs, page
uploadVars == <<card, batch, docs, page>>

Fresh == [mount |-> 1, busy |-> FALSE, sending |-> FALSE, error |-> None, latest |-> None, overlap |-> FALSE]
Unsent == [pc |-> "none", left |-> <<>>, chosen |-> <<>>, mount |-> 0]
Init ==
    /\ card = Fresh /\ page = "landing"
    /\ batch = [b \in Batches |-> Unsent]
    /\ docs = [b \in Batches |-> {}]

Over == {"none", "refused", "failed", "opened"}
Running == {b \in Batches : batch[b].pc \notin Over}
(* The card a batch was dropped on is still there: it can set its state.   *)
OnCard(b) == page = "landing" /\ batch[b].mount = card.mount
Here == {b \in Running : OnCard(b)}
Set(b, new) == card' = IF OnCard(b) THEN new ELSE card
Go(b, pc) == batch' = [batch EXCEPT ![b].pc = pc]

-----------------------------------------------------------------------------
(* send, up to its first await: the first files, none of them refused.     *)
AllOfThem(files) == files
Chosen(files) == SubSeq(files, 1, IF Len(files) < MaxFiles THEN Len(files) ELSE MaxFiles)
accepted(f) == f.name = "document"
Send(b, files) ==
    LET chosen == Chosen(files)
        bad    == \E k \in DOMAIN chosen : ~accepted(chosen[k])
        cleared == [card EXCEPT !.error = None, !.latest = b]
    IN  /\ page = "landing" /\ batch[b] = Unsent
        /\ batch' = [batch EXCEPT ![b] = [pc     |-> IF bad \/ chosen = <<>> THEN "refused" ELSE "creating",
                                          left   |-> chosen, chosen |-> chosen, mount |-> card.mount]]
        /\ card' = IF bad THEN [cleared EXCEPT !.error = b]
                   ELSE IF chosen = <<>> THEN cleared 
                   ELSE [cleared EXCEPT !.busy = TRUE, !.overlap = @ \/ Here # {}]
        /\ UNCHANGED <<docs, page>>
Drop(b, files) == Send(b, files)
Choose(b, files) == ~card.busy /\ files # <<>> /\ Send(b, files)

CreateCase(b) ==
    /\ batch[b].pc = "creating"
    /\ Go(b, "next")
    /\ UNCHANGED <<card, docs, page>>

(* uploadDocument: the bytes, with progress; then the server reads them.   *)
Start(b) ==
    /\ batch[b].pc = "next" /\ batch[b].left # <<>>
    /\ Go(b, "sending")
    /\ Set(b, [card EXCEPT !.sending = TRUE])
    /\ UNCHANGED <<docs, page>>
BytesUp(b) ==
    /\ batch[b].pc = "sending"
    /\ Go(b, "reading")
    /\ Set(b, [card EXCEPT !.sending = FALSE])
    /\ UNCHANGED <<docs, page>>
(* The route: the same bytes in the same case are one document, and a case *)
(* holds no more than Cap.                                                 *)
Full(b) == Head(batch[b].left).content \notin docs[b] /\ Cardinality(docs[b]) >= Cap
Store(b) ==
    /\ batch[b].pc = "reading" /\ ~Full(b)
    /\ docs' = [docs EXCEPT ![b] = @ \cup {Head(batch[b].left).content}]
    /\ Go(b, "answering")
    /\ UNCHANGED <<card, page>>
Answer(b) ==
    /\ batch[b].pc = "answering"
    /\ batch' = [batch EXCEPT ![b].pc = "next", ![b].left = Tail(@)]
    /\ UNCHANGED <<card, docs, page>>

(* The finally of send; what it was that failed is not told apart.         *)
FinallyKeepingBar(b, shown) == [shown EXCEPT !.busy = FALSE]
FinallyForgetting(b, shown) == [shown EXCEPT !.busy = FALSE, !.sending = FALSE, !.error = None]
FinallyKeepingBusy(b, shown) == [shown EXCEPT !.sending = FALSE]
Finally(b, shown) == [shown EXCEPT !.busy = FALSE, !.sending = FALSE]
FailQuietly(b) ==       \* the rest of the batch goes on
    /\ batch[b].pc \in {"sending", "reading", "answering"}
    /\ batch' = [batch EXCEPT ![b].pc = "next", ![b].left = Tail(@)]
    /\ Set(b, [card EXCEPT !.error = b])
    /\ UNCHANGED <<docs, page>>
Fail(b) ==
    /\ batch[b].pc \in {"creating", "sending", "reading", "answering"}
    /\ Go(b, "failed")
    /\ Set(b, Finally(b, [card EXCEPT !.error = b]))
    /\ UNCHANGED <<docs, page>>

(* The list of cases is read again, and then the page goes to the case.    *)
Invalidate(b) ==
    /\ batch[b].pc = "next" /\ batch[b].left = <<>>
    /\ Go(b, "opening")
    /\ UNCHANGED <<card, docs, page>>
Open(b) ==
    /\ batch[b].pc = "opening"
    /\ Go(b, "opened")
    /\ page' = b
    /\ UNCHANGED <<card, docs>>

Leave == page = "landing" /\ page' = "elsewhere" /\ UNCHANGED <<card, batch, docs>>
Enter ==
    /\ page # "landing" /\ card.mount < MaxMounts
    /\ page' = "landing" /\ card' = [Fresh EXCEPT !.mount = card.mount + 1]
    /\ UNCHANGED <<batch, docs>>

Next ==
    \/ \E b \in Batches :
          \/ \E files \in Files : Drop(b, files) \/ Choose(b, files)
          \/ CreateCase(b) \/ Start(b) \/ BytesUp(b) \/ Store(b) \/ Answer(b)
          \/ Fail(b) \/ Invalidate(b) \/ Open(b)
    \/ Leave \/ Enter

Spec == Init /\ [][Next]_uploadVars

-----------------------------------------------------------------------------
Contents(files) == {files[k].content : k \in DOMAIN files}

(* The page goes to no case with a part of its files: a batch is opened    *)
(* when everything that was chosen is stored, in one case, however often   *)
(* bytes are repeated, and no case gets what another batch has sent.       *)
OpenedIsWhole ==
    \A b \in Batches :
       /\ docs[b] \subseteq Contents(batch[b].chosen)
       /\ batch[b].pc = "opened" \/ page = b => docs[b] = Contents(batch[b].chosen)

(* "A case holds at most 10 documents" is never said to one who has        *)
(* dropped as many as that or more: no upload of a batch meets the cap.    *)
NeverFull == \A b \in Batches : batch[b].pc = "reading" => ~Full(b)

(* The card is busy exactly while it has a batch under way, as long as     *)
(* none was dropped on it beside another: what a failed or refused batch   *)
(* leaves behind, here or on an earlier card, does not lock it.            *)
BusyIsHonest == page = "landing" /\ ~card.overlap => (card.busy <=> Here # {})

(* What went wrong with the last batch is on the card until the next one   *)
(* is started, whichever of the batches ends when.                         *)
FailureIsTold ==
    page = "landing" /\ card.latest # None /\ batch[card.latest].pc = "failed" /\ OnCard(card.latest)
       => card.error # None

(* While the card is busy it says that bytes are sent only if they are.    *)
SaysWhatItSends == page = "landing" /\ card.sending => \E b \in Here : batch[b].pc = "sending"

(* All of them: a batch of files is opened only as a whole, within the     *)
(* cap; the card is busy while it has one, says what it sends, and keeps   *)
(* what went wrong.                                                        *)
BatchIsWhole == OpenedIsWhole /\ NeverFull /\ BusyIsHonest /\ FailureIsTold /\ SaysWhatItSends
=============================================================================
