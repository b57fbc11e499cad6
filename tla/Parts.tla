------------------------------- MODULE Parts -------------------------------
(***************************************************************************)
(* The parts that are checked one by one, next to each other.  They share  *)
(* nothing.  Some are machines of a few variables, and each takes its      *)
(* steps whatever the others do; some are functions, of an input.          *)
(***************************************************************************)
EXTENDS Integers, Sequences, FiniteSets

CONSTANTS Callers, Limit, Window, MaxArrivals, Horizon,       \* RateLimit
          Requests, Ttl, Latency, MaxTime,                    \* Sessions
          Home, Away, Tenants, Me, Places, TopK, MaxIngests,  \* AgentTools
          Docs, Versions, MaxIds,                             \* ReportRead
          Batches, Files, MaxFiles, Cap, MaxMounts, None,     \* Uploads
          Attempts, MaxBlocks, MaxDeltas,                     \* ProviderCall
          Providers, InputTypes, CachedTexts, Prompts,        \* EvalCache
          Replies, MaxBatch, MaxCalls,
          Schemas,                                            \* ExtractionAnswer
          BlockLength, BlockWindow,                           \* Segmenter
          MaxTokens, OverlapTokens, Floor, PerToken           \* Chunker

VARIABLES now, keys, pc, history,               \* RateLimit
          clock, row, cookie, req, purge, last, \* Sessions
          table, tool,                          \* AgentTools
          db, ids, bench, report, cited,        \* ReportRead
          card, batch, docs, page,              \* Uploads
          call,                                 \* ProviderCall
          vectors, answers, run, said,          \* EvalCache
          part, input                           \* the function, and its input

Rate == INSTANCE RateLimit WITH Requests <- Callers, MaxTime <- Horizon
Sess == INSTANCE Sessions
Tool == INSTANCE AgentTools
Read == INSTANCE ReportRead
Card == INSTANCE Uploads
Call == INSTANCE ProviderCall
Cache == INSTANCE EvalCache WITH Texts <- CachedTexts, Answers <- Replies
Fills == INSTANCE ExtractionAnswer WITH SchemaOf <- Schemas
Bench == INSTANCE BenchmarkRules
Segments == INSTANCE Segmenter WITH Window <- BlockWindow
Chunks == INSTANCE Chunker

ASSUME PartsAssumption ==
    /\ Rate!RateAssumption
    /\ Sess!SessionsAssumption
    /\ Tool!ToolAssumption
    /\ Read!ReportAssumption
    /\ Card!UploadsAssumption
    /\ Call!CallAssumption
    /\ Cache!CacheAssumption
    /\ Fills!AnswerAssumption
    /\ Segments!SegmenterAssumption
    /\ Chunks!ChunkerAssumption

-----------------------------------------------------------------------------
(* Counters and lifetimes mean what they say: no burst above twice its     *)
(* limit, no refusal that was not earned, no Retry-After too short;        *)
(* cookie and row agree on a session, and the purge spares who is active.  *)
WindowsAreKept ==
    /\ Rate!BurstIsBounded
    /\ Rate!RefusalIsEarned
    /\ Rate!RetryAfterIsHonest
    /\ Sess!EnforcersAgree
    /\ Sess!ActiveIsNotSelected

(* What is read by several statements belongs together: a tool stays in    *)
(* its case, shows what may be cited, of one ingest, and names what it was *)
(* asked about; the chips of a report resolve, and each is of the analysis *)
(* that found its value.                                                   *)
ReadsBelongTogether ==
    /\ Tool!StaysInCase
    /\ Tool!ShownIsCitable
    /\ Tool!OneGeneration
    /\ Tool!ComparedIsNamed
    /\ Read!ChipsResolve
    /\ Read!ChipsOfOneRun

(* A batch of files is opened only as a whole, within the cap; the card is *)
(* busy while it has one, says what it sends, and keeps what went wrong.   *)
BatchIsWhole == Card!BatchIsWhole

-----------------------------------------------------------------------------
(* What a model says is heard once, whole and in order, and remembered as  *)
(* said: no call is repeated after its first byte, the text and the tool   *)
(* inputs are the deltas in their order, and a refusal is waited out; what *)
(* the evaluation has cached is of this text and this model.               *)
ModelsAreHeardOnce ==
    /\ [](/\ Call!NeverReplayed
          /\ Call!DoneIsWhatWasSaid
          /\ Call!ToolInputWhole
          /\ Call!RetriesAreBounded
          /\ Cache!VectorsAreTheTexts
          /\ Cache!Reproducible
          /\ Cache!AnsweredByItsModel)
    /\ Call!WaitsFirst

-----------------------------------------------------------------------------
(* The functions.  Whatever part the behaviour is of; each property is     *)
(* stated, with its reasons, in the module of the part.                    *)
Is(p) == part = p
Picked == input # <<>>

(* The rows of a schema: what was read of some fields, and nothing else    *)
(* was found.                                                              *)
NotFound == [status |-> "not_found", value |-> <<>>]
Saved(read, type) == [f \in Bench!SchemaOf(type) |-> IF f \in DOMAIN read THEN read[f] ELSE NotFound]

(* What the functions are given: the answers to the calls of an analysis,  *)
(* what was read of some fields and is left from before, the blocks of a   *)
(* document, or a clause.                                                  *)
Statuses == {"extracted", "not_found", "extraction_failed"}
IsReading(x) == \E s \in Statuses : x = [status |-> s, value |-> x.value]
InputsAreLegal ==
    /\ Is("answers") /\ Picked => input[1] \in Fills!Answers
    /\ Is("rules") /\ Picked =>
          /\ input[1].type \in Bench!DocumentTypes
          /\ \A f \in DOMAIN input[1].read : IsReading(input[1].read[f])
          /\ \A f \in DOMAIN input[1].left : IsReading(input[1].left[f])
    /\ Is("segments") => input \in Seq(Segments!Blocks)
    /\ Is("chunks") => input \in Seq(Chunks!Chars)

(* Fields are one valid answer or say that it failed, and are trusted only *)
(* where they can be looked up; flags stand on extracted fields, which the *)
(* schema of the document has, and on no failure.                          *)
FieldsAreTrusted ==
    /\ Is("answers") /\ Picked => Fills!SavedWhole(input[1]) /\ Fills!TrustIsCited(input[1])
    /\ Is("rules") /\ Picked =>
          LET own == Saved(input[1].read, input[1].type)
              ex  == Bench!Merged(own, input[1].left)
          IN  /\ Bench!CiteExtracted(ex, input[1].type)
              /\ Bench!LessIsNotMore(ex, input[1].type)
              /\ Bench!NotFromLeftovers(own, input[1].left, input[1].type)

(* A document is cut into clauses and a clause into chunks without a loss: *)
(* every character is in one, in order, under its headings and a path of   *)
(* its own, and within the budget.                                         *)
CutsLoseNothing ==
    /\ Is("segments") =>
          Segments!Tiles(input) /\ Segments!PathsUnique(input) /\ Segments!HeadingsEnclose(input)
    /\ Is("chunks") => Chunks!Covers(input) /\ Chunks!WithinBudget(input)
=============================================================================
