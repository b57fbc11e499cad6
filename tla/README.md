# contractix, specified

contractix ingests contracts (PDF, DOCX), segments them into clauses, has a model classify them and extract their
terms, compares the terms with benchmarks, and answers questions about them, every statement with a citation of a
clause. It is built of an HTTP API, a worker process with two BullMQ queues, Postgres, a content-addressed blob store
and a web client. This directory holds TLA+ modules of the parts in which order, failure and concurrency matter, TLC
configurations that check them on small instances, and proofs that TLAPS checks for every instance.

Paths below are relative to `src/packages/`. To check by hand:
`tlc -config Lifecycle_faults.cfg MCDocumentLifecycle.tla`, `tlapm DocumentLifecycleProofs.tla`.

## 1. Inventory

| Component | Source | State it keeps | Operations | Module |
|---|---|---|---|---|
| Document and report routes | `api/src/routes/{documents,files,reports}.ts` | none of their own | upload, analyze one, analyze all, layout, report | `DocumentLifecycle`, `CaseStorage`, `ParsedDocument`, `ReportRead` |
| Ingestion worker, pipeline | `api/src/worker.ts`, `ingestion/pipeline.ts` | `documents.status`, clauses, chunks | parse, reject, commit, chain the analysis | `DocumentLifecycle` |
| Parsers, segmenter, chunker | `api/src/ingestion/{parser,segmenter,chunker}/*` | none (pure) | canonical text and offsets, clauses, chunks | `ParsedDocument`, `Segmenter`, `Chunker` |
| Analysis worker | `api/src/extraction/*-service.ts` | `documents.type`, `analysis_status`, extractions, citations, flags | classify, extract, benchmark, mark failed | `DocumentLifecycle`, `ExtractionAnswer` |
| Citation resolver, rules engine | `api/src/extraction/citation-resolver.ts`, `rules/src/*` | none (pure) | locate a quotation, raise flags | `CitationResolver`, `BenchmarkRules` |
| Job queues | `api/src/queue/*.ts`, BullMQ | one job per document and queue | add, remove, take, complete, fail, stall | `JobQueue` |
| Document phases | `shared/src/schemas/api.ts` | derived | `derivePhase` | `DocumentPhases` (abstract) |
| Cases, sessions, retention | `api/src/routes/cases.ts`, `auth/*.ts`, `retention/purge.ts` | tenants, cases, cookies | create, delete, refresh, purge | `CaseStorage`, `Sessions` |
| Rate limiter | `api/src/auth/rate-limit.ts` | counters of a window | check | `RateLimit` |
| Blob store and sweep | `api/src/storage/*.ts` | files, geometry sidecars | put, write sidecar, sweep | `CaseStorage` |
| Demo corpus | `api/src/demo/*.ts`, `routes/demo.ts`, `ingestion/seed-demo.ts` | template rows | seed, adopt | `DemoAdoption`; its files: `CaseStorage` |
| Agent loop, grounding, memory | `api/src/agent/{agent-service,grounding,qa-store,history}.ts`, `routes/ask.ts` | one request; the stored turn | converse, call tools, correct, save, replay | `AskLoop`, `Grounding`, `AgentFrames`, `AnswerText` |
| Agent tools, retrieval | `api/src/agent/tools/*`, `retrieval/*` | none | search, read clauses, fields, flags, compare, sums | `AgentTools`, `AnswerText`, `Arithmetic` |
| Providers | `api/src/providers/http.ts`, `llm/anthropic.ts` | one call | post, retry, stream, assemble | `ProviderCall` |
| Narrative reports | `api/src/agent/report-writer.ts`, `routes/narrative.ts` | stored narrative | write, correct with restart, stub | `NarrativePanel`, `NarrativeFrames` |
| Chat transcript in the browser | `web/src/stream/{use-ask-stream,ask-reducer,post-sse,read-sse,sse}.ts` | query cache, abort ref, streams | ask, stop, leave, return, reload, invalidate, merge a fetch | `AskTranscript`, `SseFraming` |
| Narrative panel in the browser | `web/src/stream/{use-narrative-stream,narrative-reducer}.ts` | reducer, abort ref | start, stop, leave | `NarrativePanel` |
| Progress stream and its page | `api/src/routes/progress.ts`, `web/src/stream/{use-progress,use-auto-analyze,derive-stage}.ts`, `case-page.tsx` | snapshots, reopen and error counters | poll, send, reopen, degrade, auto-analyze, re-run | `ProgressStream` |
| Upload card, viewer, chips | `web/src/features/landing/upload-card.tsx`, `web/src/citations/*.ts` | one batch | send, fail, open; highlight a citation | `Uploads`, `Highlights`, `AnswerText` |
| Evaluation | `eval/src/*`, `shared/src/schemas/extraction/normalize.ts` | committed caches | embed, ask, score, gate | `EvalCache`, `Scoring` |
| Other views, MCP, corpus, end-to-end tests | | none, or rendering | | not modelled |

How they interact. The upload route inserts a row and enqueues the ingest job. The ingest worker publishes the index in
one transaction and enqueues the analysis job, so an upload needs no further request; the analyze routes may enqueue
the same job again. The analysis commits in several transactions, in sequence, and a listener on the worker marks the
document failed after the last attempt, without being awaited. Deleting a case or purging a session removes rows by
cascade while any of this runs, and then sweeps the files that no row of any tenant references by hash. A question or a
narrative runs its loop inside its HTTP request, streams while it runs, and is stored in one transaction at the end; its
citations reference clause rows that the ingest worker may replace at any time. The browser keeps a transcript which
streams, late fetches and the Stop button all write, and a page that two sources, an `EventSource` and a polling query,
tell about the documents.

What is hard here, with the properties that are about it (`PROJECT.json` lists every hazard at its line):

- two queues and the API act on one document at once: `OneRunPerDocument`, `CitationsResolve`, `AnalyzedIsConsistent`;
- any attempt may fail at any call, and a run may go on without its lock: `IndexMatchesStatus`,
  `FailedMeansExhausted`, `EverythingSettles`;
- five writers share two status columns that a reader sees as one phase: `ImplementsPhases`, `AnalyzingHasJob`;
- rows go under a run that has read them, or between two reads of it: `DeletedLeavesNothing`, `FlagsResolve`,
  `AnswerCitationsResolve`, `ReadsBelongTogether`, `AdoptionIsSound`;
- several handlers share files they only know by hash: `TemplateIntact`, `BytesUnlessRaced`, `CapOvershoot`;
- a verdict, once computed, must be that of what is stored many steps later: `AnswerMatchesVerdict`,
  `UngroundedWasCorrected`, `BudgetBounded`, `ErrorLeavesNoTurn`, `NarrativeIsStored`;
- frames name no turn, so their order and the last turn of the transcript carry the meaning: `ImplementsFrames`,
  `PanelIsConsistent`, `DoneIsStored`, `FailedStays`, `AskEnds`, `NarrativeIsShown`, `NarrativeEnds`;
- streams close, break, time out and are reopened, while what they tell goes on: `PageIsTrue`, `PageIsLive`,
  `ModelsAreHeardOnce`;
- clocks are read at different moments by handlers next to each other: `WindowsAreKept`;
- an offset is computed once and trusted for ever: `CutsLoseNothing` for clauses and chunks, `TextsKeepTheirSense` for
  quotations and highlights; a model's answer is repaired, and what it does not prove must not be trusted:
  `FieldsAreTrusted`.

## 2. Modules and how they correspond to the code

Everywhere an action is the code between two awaits that touch shared state: Node runs it without interruption. A
`select` directly followed by an update guarded by it is one action where nothing in between depends on another writer.

**`JobQueue`** is BullMQ as the code uses it: the id of a job is its document, so a queue holds at most one job per
document, `add` is absorbed by a job in any state, and `remove` fails on a locked job, which `queue/analysis.ts`
swallows. It has no variables; `DocumentLifecycle` holds two functions of such jobs. BullMQ itself is not in the
repository. Assumed of it: a job that stalls is taken back to waiting without counting an attempt, at most once
(`maxStalledCount` is left at its default of 1, which is why the bounds allow one crash and one lost lock); completed
jobs are kept (their pruning by `removeOnComplete` is not modelled).

**`DocumentLifecycle`** is the life of the documents of one case. `status`, `analysis`, `docType` are the columns;
`index[d]` is the ingest commit the clause rows come from (commits insert fresh ids, so two commits share no clause);
an element of `extractions[d]` is the rows of one schema version, with the commit whose clauses the model was shown and
whether citations were stored; `flags[d]` remembers the fields it was computed from and the commits it cites. `ingest`
and `analyze` are the runs in the worker's slots, with a program counter per await, `failing` the un-awaited updates of
the `failed` listener, `requests` the analyze handlers. Foreign keys are in the guards: citations of deleted clauses
abort `SaveFields`, whereas `flags.clause_ids` is a bare array and checks nothing. `FAMILY_BY_TYPE` is partial: a type
may have no schema, and its analysis then leaves the extractions alone. `DeleteCase` here is about rows; files are the
business of `CaseStorage`.

**`DocumentPhases`** is the abstract specification: one phase per document, no jobs, no attempts.
`DocumentLifecycle` implements it under `phase <- derivePhase`.

**`CaseStorage`** is about bytes: which files and sidecars are on disk, which rows name them, and the handlers that put,
query and unlink. A file is `[sha, ext]`, because the store keys by both while the routes and the sweep compare
hashes alone. `raced` is a history variable: the rows whose put came before, and whose insert came after, the query of a
sweep that was removing their file (the window `storage/sweep.ts:12-20` accepts).

**`Grounding`** is `validateGrounding` on sentences that keep only what it looks at, and `Honours`, the contract itself,
stated without it. **`AskLoop`** is `askCase`, the frames of `routes/ask.ts` and the transaction of `saveQaTurn`, next to
`Reingest` and `DeleteCase`. `drafted` is a history variable: the correction count when the answer was written.
**`AgentFrames`** is the abstract stream a client relies on (`MayFollow` of `StreamFrames`); `AskLoop` implements it.

**`AskTranscript`** is the chat panel: `turns` is the entry of the query cache, `abort` and `running` the ref and the
state of the hook, `task` the async tasks (which outlive a Stop), `entry` and `fetch` the state of the cache entry and the
request for stored turns, `wire` the frames under way. The server side is reduced to `MayFollow`, the order `AskLoop` is shown to keep; that nobody tells the server
that the reader has gone is kept. The list of tool calls next to an answer is left out. Assumed of react-query
(5.101.4): the `queryFn` takes the signal, so its request is cancelled with its last observer; an entry that was written is
fresh until it is invalidated (`staleTime`, `gcTime` are infinite). `invalidateQueries(["case", id])`, on the `done` of the
progress stream and on an accepted re-run, takes in the key `["case", id, "turns"]` by its prefix: `Invalidate` may come at
any time, loads a transcript that is on screen again at once, in place of a load under way if there is data, and one that is
not on screen when it next is. A load that fails leaves the entry stale.

**`ProgressStream`** (with the derivations of `derive-stage.ts` and the closing condition of
`routes/progress.ts`) is one case page: `es[i]` are the `EventSource`s and the handlers behind them with what is on their wire,
`query` the polled read (of which the page uses the stage), `progress` the snapshot of the hook, `post`, `sent` and `marked` the
requests for analysis, sent document by document. The workers are an environment: `IngestBegins` asks nothing of the row, as
`pipeline.ts:44` does, so a retried ingest, or a second run of a stalled one, takes a document back to `processing` after it
was `ready` or `failed`; the analysis runs whatever the status says. Of two runs beside each other the one that ends last looks,
to whoever reads the row, like one that began behind the other. Whether the parser can make anything of a document is fixed at
the start (`illegible`): "deterministic re-runs would fail identically". `setBack` is a history variable, how often an ingest
has set the document back, and is told to nobody (`Told`).

**`NarrativePanel`** is the writer, the route and the panel in one module, because a rejected draft was already streamed
and is only taken back by a frame. `server[g]` is the request of generation `g`, `task[g]` its reader in the browser,
`wire[g]` what is between them, `view` the reducer's state, `stored` the rows. It implements **`NarrativeFrames`**, the
order of frames the reducer needs.

**`DemoAdoption`** is `cloneCase` statement by statement: at READ COMMITTED each `INSERT ... SELECT` sees what is
committed when it begins, and an insert that meets an uncommitted row of the same unique key waits for it. The temporary
map of old and new ids is `map`; rows are those of **`DocumentRows`**, the cascading tables that `ReportRead` shares, in which
an analysis replaces the fields of its own schema version only. The scripts ingest the whole manifest and only then analyze it,
document by document (`todo`, `rest`). A clone is deleted again by `DeleteCase` (the route, or the purge of its session); `deleted`
is a history variable, and so is `touched`, the clones that a script wrote beside.

**The parts.** `MCParts` checks in one run what is too small for one of its own; a behaviour is of one part, and the others
stand still. Some are machines:

| Part | What it is | Its properties |
|---|---|---|
| `ProviderCall` | one POST with retries, its stream, the assembly of deltas | `NeverReplayed`, `DoneIsWhatWasSaid`, `ToolInputWhole`, `RetriesAreBounded`, `WaitsFirst` |
| `RateLimit` | two counters with expiry, requests statement by statement, a store that fails | `BurstIsBounded`, `RefusalIsEarned`, `RetryAfterIsHonest` |
| `Sessions` | the cookie's `exp`, the row's `expires_at`, two requests and the purge, with a clock | `EnforcersAgree`, `ActiveIsNotSelected` |
| `AgentTools` | each tool statement by statement next to re-ingests | `StaysInCase`, `ShownIsCitable`, `OneGeneration`, `ComparedIsNamed` |
| `ReportRead` | five reads of a report next to ingests, analyses under several schema versions, benchmarks, deletion | `ChipsResolve`, `ChipsOfOneRun` |
| `EvalCache` | evaluations that share two caches and may die in any call | `VectorsAreTheTexts`, `Reproducible`, `AnsweredByItsModel` |
| `Uploads` | batches of files, the card, the page | `OpenedIsWhole`, `NeverFull`, `BusyIsHonest`, `FailureIsTold`, `SaysWhatItSends` |

The others are functions, checked over every input up to a bound against a definition that is written independently of them:

| Part | Input | Its properties |
|---|---|---|
| `ParsedDocument` | pages of blocks, some broken | `OffsetsAreFrozen`, `ShownPagesAreMeasured` |
| `Segmenter` | blocks by what they begin with | `Tiles`, `PathsUnique`, `HeadingsEnclose` |
| `Chunker` | characters by what they separate | `Covers`, `WithinBudget` |
| `CitationResolver` | three clauses, a quotation, hints | `CitesVerbatim`, `NeverGuesses` |
| `Highlights` | blocks with their geometry, a span | `NeverOffTheLine`, `PaintsNothingElse` |
| `ExtractionAnswer` | what a model fills in, twice: statuses, quotations, named clauses | `SavedWhole`, `TrustIsCited` |
| `BenchmarkRules` | the fields of one rule, at its limits, and what another version left of one | `CiteExtracted`, `LessIsNotMore`, `NotFromLeftovers` |
| `SseFraming` | characters of a stream, cut anywhere | `ChunkingIsInvisible`, `FramesAreTheFormats` |
| `AnswerText` | pieces of prose; brackets; characters of an id; stored answers and turns | `ExactlyTheUncited`, `ChipsAreValidated`, `IdsReadBack`, `StripLeavesProse`, `AsksInTurns` |
| `Arithmetic` | tokens of a sum | `AnswersExpressions`, `BindsByConvention` |
| `Scoring` | spellings, arrays; results of an evaluation | `ReadsBack`, `MatchesAsMultisets`, `WorseReadingScoresLower`, `WorseFlagsScoreLower`, `BetterRanksScoreHigher` |

Regular expressions are abstracted to what they find (a heading, a month, an abbreviation), never to the identity. Loops of
the functions that are proved about are recursive functions over the positions of their input (`Walk`, `Looped`,
`Shrunk`). A page in an id is its digits without the zeros it begins with. The chunker keeps its boundaries as a set, and leaves out a shortcut that spares counting tokens in a span of
more than 32 characters for each token of the budget (`chunker.ts:105`): it is over the budget all the same. Its `Floor` is at most the budget, as 16 is in the code.

What an analysis leaves is told in three parts of increasing detail. `persist` deletes and inserts the fields of one schema
version (`extraction-service.ts:137-139`), so a document may have fields of several; `DocumentRows` keeps the version with every
field, `ReportRead` reads all of them, and its benchmark triggers on any of them, because `benchmark-service.ts:48-66` puts them
together by their path without an order. `BenchmarkRules` makes that `Merged(own, left)`: what was read under the document's own
schema, and the rows that won over it, or stood alone.

Which module composes which: `DocumentLifecycle` uses `JobQueue` and implements `DocumentPhases`; `AskLoop` extends `Grounding` and
`StreamFrames` and implements `AgentFrames`; `AskTranscript` extends `StreamFrames`; `NarrativePanel` extends `Grounding` and
implements `NarrativeFrames`; `DemoAdoption` and `ReportRead` work on `DocumentRows`.
`Parts` puts the machines and the functions that are proved about side by side and states the properties that combine them;
`MCParts` adds the other functions.
`MCDocumentLifecycle`, `MCCaseStorage`, `MCAskLoop`, `MCNarrativePanel`, `MCParts` give the constants their values. Operators
named after another one (`CheckUploadOffByOne`, `FinallyUnguarded`, ...) are variants with a plausible bug; they are not part
of any specification and show that the property named in `PROJECT.json` would notice it. A property that is a conjunction of
named parts has at least one such variant for each part.

## 3. Runs

All of them switch the deadlock check off: the system may come to rest, when every job has ended and nobody asks for
anything.

| Run | Instance | What it shows |
|---|---|---|
| `faults` | 1 document, 1 request, deletion, 2 slots per queue, 2 attempts, failures at every call, one crash **or** one lost lock | `TypeOK`, `CitationsResolve`, `IndexMatchesStatus`, `DeletedLeavesNothing`, `OneRunPerDocument` in 1.2 million states |
| `regular` | 1 document, 2 requests, 2 types with different schemas, failures everywhere but in the chaining, no crash | `AnalyzedIsConsistent` |
| `unattended` | 2 documents, one illegible, 3 attempts, failures everywhere, deletion, no requests, no crash; with fairness | `FlagsResolve`, `AnalyzingHasJob`, `FailedMeansExhausted`, the liveness `EverythingSettles` (`EnqueuedSettles` and `JobsEnd`), and the refinement `ImplementsPhases` |
| `storage_races` | 1 session, 2 of 3 cases, 3 files, 2 uploads, a deletion and the purge at once, cap of 1 document, anything may throw | `TemplateIntact`, `BytesUnlessRaced`, `CapOvershoot` |
| `ask_loop` | 4 turns, 2 calls each, 2 clauses, 6 texts, 2 re-ingests, deletion, crash | the five safety properties of `AskLoop` and the refinement `ImplementsFrames` |
| `transcript` | 2 questions, 2 frames each before the last, 2 under way; with fairness | `PanelIsConsistent` (types, `OpenTurnIsLast`, `RunningIsHonest`), `DoneIsStored`, `FailedStays`, the liveness `AskEnds` |
| `progress` | 2 documents, one illegible, 1 reopen, 2 errors, the page opened twice, 1 repeated ingest or click, with requests and connections that fail at most 2 times in all; with fairness | `PageIsTrue` (types, `OneSource`, `AutoOnce`, `NeverBackwards`, `DoneIsSettled`) and the liveness `PageIsLive` (`PageCatchesUp`, `IngestedIsAsked`) |
| `narrative` | 2 generations, 1 clause, 1 piece per draft, a re-ingest, the panel shown twice; with fairness | `NarrativeIsStored` (`StoredIsValidated`, `NarrativeCitesResolve`, `ErrorStoresNothing`), `NarrativeIsShown` (types, `DoneShowsStored`, `NeverTwoDrafts`, `NarrativeRunningIsHonest`), the refinement `ImplementsFrames`, the liveness `NarrativeEnds` |
| `adopt` | 2 clicks, 1 or 2 sessions, 1 file, a run of the seeding scripts, 2 schema versions, anything may break off, clones are deleted again | `AdoptionIsSound` (types, `OneDemoCase`, `AnsweredIsOwned`, `LoserIsServed`, `CloneIsClosed`, `CloneIsFaithful`) |
| `parts` | every part of section 2 in turn, 2.6 million states | `WindowsAreKept` (`RateLimit`, `Sessions`), `ReadsBelongTogether` (`AgentTools`, `ReportRead`), `ModelsAreHeardOnce` (`ProviderCall`, `EvalCache`), `BatchIsWhole` (`Uploads`), `FieldsAreTrusted` (`ExtractionAnswer`, `BenchmarkRules`), `CutsLoseNothing` (`Segmenter`, `Chunker`), `EvaluationIsFair` (`Scoring`), `TextsKeepTheirSense` (the other functions): the conjunctions of the properties in the tables |
| `found_supersedes`, `found_hidden` | | section 5 |

Why these bounds are enough. One document suffices for what concerns one document, since documents share only slots;
two slots per queue are what a duplicate run needs; two attempts have a retry and an exhaustion, three (in `unattended`)
also a middle one. Some properties hold only where a named thing does not happen, and the runs say so by their bounds:
`AnalyzedIsConsistent` needs that the ingest is not repeated after its commit, `AnalyzingHasJob` that nobody requests
an analysis (section 5), the phases that nobody asks for a second one. In `storage_races`, `TwoCases` keeps at most
two of three cases, and lets the third file in only with one case and no deletion, where it serves to fill a case beyond
its cap; the theorems of section 4 have no such limits. In `ask_loop` the ceilings are scaled down so that both bite:
turns that cost 1 run into `MaxTurns`, turns that cost 3 into `MaxTokens`, and the correction can come before, between
and after tool calls. In `progress` one reopen and two errors are the least that tell a counter that is reset from one that
is not, and opening the page twice is what the once-per-tab mark is for. In `narrative` two generations are a stopped one and
its successor. In `adopt` two clicks race for one row, and one run of the scripts can fall between any two statements of a
clone. The machines of `parts` have two requests (or batches) next to each other, enough time for two windows, or for a
lifetime and a half that is twelve times the latency, and re-ingests up to two, of at most two of the four
documents a tool may read (`TwoReplaced`), two schema versions, and nothing more once a report is complete (`ReportUnderWay`); the theorem has no such
limits. The functions have inputs long enough for each of their cases to follow
each other (up to eight characters, five blocks, four pieces). `SYMMETRY` is over slots, cases, uploaders, schema versions and the documents of a report, in runs without
liveness, and is sound because no definition tells their members apart.

Fairness. `DocumentLifecycle` assumes weak fairness of whatever the code has started: a handler reaches its next await,
a free slot finds a waiting job, a run goes on, a backoff ends, the stalled check runs. Uploads, requests, deletions,
crashes and lost locks need never happen. Nothing is assumed about which of a step and its failure happens: a run may
fail as often as it has attempts. `AskTranscript` assumes that a handler comes to its end, which the ceilings of the
loop and the timeouts of its provider give, that frames arrive, and that the broken connection of a dead handler is noticed;
`NarrativePanel` assumes the same. `ProgressStream` assumes that handlers and the browser go on, not that a worker ever does,
that five minutes pass, or that anything fails.

## 4. Theorems

All for every value of the constants, under the assumptions named in the modules (`SlotsAssumption`,
`SchemaAssumption`, `BoundAssumption`; `CasesAssumption`, `HandlersAssumption`; `CeilingsAssumption`;
`NarrativeAssumption`; `TranscriptAssumption`; `ProgressAssumption`; `AdoptionAssumption`; and of the parts
`UploadsAssumption`, `RateAssumption`, `SessionsAssumption`, `ToolAssumption`, `ReportAssumption`, `CallAssumption`,
`CacheAssumption`, `AnswerAssumption`, `SegmenterAssumption`, `ChunkerAssumption` in `PartsAssumption`), which TLC evaluates in the runs. They say that bounds are numbers, that what is counted or
queued is finite, and that the values that stand for "none", a status code or a missing slot are not members of the
sets they are told apart from.

`DocumentLifecycleProofs`, any number of documents, slots, requests, crashes and lost locks:

- `TypeCorrect`. `TypeOK` alone is not inductive: that `tries` stays below `Attempts` needs that only a failed job has
  used them up (`JobsOK`), and that a run's document is one needs that busy runs have one (`RunsOK`).
- `CitationsAlwaysResolve`, `DeletedStaysEmpty`: by the writers of the rows concerned. No crash or duplicate run matters,
  which is the point: the foreign keys and the transaction carry them.
- `NeverTwoRuns`, from `BusySlotsOwn`: while no lock is lost a busy slot holds the lock of its document's job, and a job
  has one lock.
- `IndexAlwaysMatches`, from `IndexInv`: whatever may come to analyze a document (a job, a slot, a chaining ingest run, a
  request that saw it ready, an update on its way) is *engaged* with it, and an engaged document that was not deleted is indexed.

The rest of this module needs that something does not happen, which section 5 shows to be necessary. The hypotheses are
on constants and are met by the runs `regular` and `unattended`: `Undisturbed` says that no process dies and no lock is
lost, and that where somebody may ask for a second analysis the chaining does not fail after the commit (each of them
repeats an ingest behind its own commit); `Unattended`, that no process dies, no lock is lost and nobody asks. Documents,
slots, attempts, requests and where else a call fails stay arbitrary.

- `AnalyzedAgrees`, `FlagsAlwaysResolve`, for `Undisturbed`, from `OrderInv`: every active job is being worked on, so none is
  repeated (`ActiveAlive`); as long as an ingest may still replace the clauses, nothing is engaged with the document, and while
  the ingest is about to chain, only it is (`InOrder`); what is stored agrees with itself (`StoredOK`), and what a run has
  read is still so when it writes (`ReadOK`). That a second analysis cannot begin meanwhile is `BusySlotsOwn` again.
- `AnalyzingIsDue` (where the listener's update does not fail), `FailedIsFinal` and the refinement
  `PipelineShowsPhases == Unattended /\ Spec => ImplementsPhases`, from `ToldInv`: the status columns tell where the
  jobs are (`JobTold`, `RowTold`, `RunTold`). The refinement goes action by action: what a
  deletion, a commit, a refusal, the writes of an analysis and the late update do to one phase, that no step touches
  the phase of another document, and that everything else shows nothing (`NothingShown`).

`CaseStorageProofs`, any number of sessions, cases, files, uploads and sweeps: `TypeCorrect`, `OnlyTheRaceLosesBytes`,
`TemplateStays`, `CapIsNearlyKept`. `StorageInv` strengthens "the file is there" to "and no sweep is about to unlink it",
for rows that did not race and for uploads between put and insert that met no sweep; the template is spared because its rows
are never deleted, so its hashes are referenced at every query. The cap is a counting argument, `CapInv`: the rows of a case
and the uploads that have passed the count and not inserted are together at most the cap plus the uploads but one. An upload
that passes the count sees a case with room and joins at most all the others; an insert moves one from the uploads to the rows.

`AskLoopProofs`, any ceilings, texts and clauses:

- `TypeCorrect`, with the count of calls that are left in a turn;
- `BudgetHolds`: a turn begins below the ceiling raised by one turn's tokens per correction so far (`BudgetInv`), since
  only a turn of tool calls looks at the ceiling;
- `VerdictStands`: the verdict stays true because the citable set only grows, and nothing is stored before the end
  (`AnswerInv`);
- `OneCorrection` and `FramesInOrder`, for `MaxCorrections = 1` as in the code (with two, a second retry would follow the
  first, and a rejected draft could be stored with a correction to spare): the loop goes on with a rejected
  answer only after its correction, and a retry comes right behind a token because a text that can be rejected is not
  empty and was streamed. `FramesInOrder` is the refinement `Spec => ImplementsFrames`;
- `AnswersStayCited`, `FailureLeavesNothing`.

`NarrativePanelProofs`, any requests, drafts, tokens, re-ingests and remounts:

- `NarrativeStoredAlways`, for a `MaxCorrections` above 0 (with none a verdict against the first draft is stored), from
  `StoreInv`: what a handler carries when it comes to save is a text with the verdict on it, bad only after a correction,
  or no text because nothing was citable; a narrative is stored by the step that ends its generation with "done".
- `NarrativeFramesInOrder`, for `MaxCorrections = 1`: the refinement `Spec => ImplementsFrames`, from `OrderedOK`, which
  goes by where a handler is and what it has sent last; after a restart it is at its second attempt.
- `NarrativeShownAlways`, from `Shown`. Its core is `Stream`, about one answer: what of it is on screen, what is on the
  wire and what its handler writes are of one draft as far as no restart lies between them. It has a lemma for a frame
  put on the wire (`StreamMore`) and one for a frame taken off it and shown (`StreamTaken`); the rest is that nothing is
  on the wire of a generation that is not read, or that has not begun to write.

`AskTranscriptProofs`, any questions, stops, mounts, invalidations and failed or late fetches, and wires of any length: `PanelSound`,
`AnswersAreStored`, `FailuresStay`. The invariant says where a question that is read stands: its turn is the last one and
not yet a row, or its answer is on the page already and nothing more comes (`LiveOK`); a frame that ends a stream is the
last on its wire, and `done` is sent after the turn was stored (`WireOK`); what the fetch has read is a beginning of what is
stored (`FetchOK`). The order of answers needs one more part, `Due`: whatever is shown was stored before a question
whose answer is stored and not shown. Most of the module is what appending, patching the last turn and merging
(`Merged`, with `Filtered` for the filter of the code) do to these.

`ProgressStreamProofs`, any number of documents, reopened streams, errors, retries, faults and repeated ingests:
`PageAlwaysTrue`. Its core is `ChainOK`: the page's last snapshot, the frames on every wire in their order, and the rows form a
chain in which no document goes back, except where `setBack` has grown in between; a `done` among them carries a snapshot in
which everything has ended; and a document that no ingest has begun was analyzed by nobody.

`DemoAdoptionProofs`, any clicks, sessions, files and seeding runs, anything breaking off: `AdoptionSound`. A session's
demo case is held by at most one transaction, open or committed, and whoever is answered or has lost the race was answered or
beaten by a case that the session has, or has deleted (`SlotOK`); the rows of a clone point at rows of the clone,
statement by statement (`MapsOK`, `RowsOK`); ids of the template that are gone do not come back, so that a map made by an
earlier statement never leads to a wrong row (`TemplateInv`, `Kept`); and a clone no script crossed is, table by table as
far as it has come, the image of the template (`FaithOK`).

`PartsProofs`, the parts in `Parts`; `WindowsHold`, `ReadsHold`, `ModelsHold`, `TrustHolds` and `CutsHold` are conjunctions
the run checks. First the machines:

- `UploadsAreWhole`, any number of batches, of any files, and cards, with a client that takes no more files than a case may
  hold: every file of a batch is stored or still to come (`BatchOK`), and while no second batch was dropped beside it, at
  most one is under way on a card, and the card says so (`CardOK`).
- `RateLimitHolds`, any limits, windows and callers, a store that fails at any check: requests the burst rule lets in are
  numbered within a window without a gap, windows that follow each other do not overlap, and so a stretch as long as one meets at most two;
  a promised time is not before the end of the window that refused, unless another window has begun (`RateInv`). What remains
  is counting.
- `SessionsHold`, any lifetime, latency and number of requests: no request is older than the latency, what it signs or writes
  is as late as its own beginning (`RequestOK`), and refreshes beside each other swap what they wrote by no more (`RowOK`);
  the row tells when the last request came, or that one is still about to write it (`Spared`).
- `ToolsStayInCase`, any documents, tenants, places and re-ingests: by where a call stands, what it has found is of the case as
  far as that was checked (`Stands`), and no clause it read is of an ingest before the call (`During`).
- `ReportChipsHold`, any documents, any number of ingests, analyses, benchmarks and deletions between the five statements:
  the index that was read is the one the report began with, or that one was replaced for good, as ids are never
  used again (`ReadingOK`); a citation there is, is of a clause there is (by the foreign keys), and the fields of one document
  and version are of one run, as they are deleted and inserted in one transaction (`DbOK`). A report may still hold the fields of
  several versions; a chip stands under the value it was cited for, whichever run that was.

- `CallHeardOnce`, any number of attempts, blocks and deltas, a stream cut anywhere: what was read is what was said so far, block
  by block, and what is assembled of it concatenates to the same text (`CallInv`, with the concatenation of the deltas
  split at the last block); attempts count the posts, and what was slept is at least what the last refusal asked for.
- `CacheRemembers`, any providers, texts, prompts and answers, evaluations that die anywhere: every entry a run has in memory
  stands in the file and the other way round, with one line for a prompt of a provider (`CacheInv`); the texts a batch
  misses are numbered off, so that the answers of the embedder, which come as a list, reach their places (`Numbered`).

Then the functions. A function has an input and no steps, so `TrustHolds` and `CutsHold` have the hypothesis `InputsAreLegal`: the
input is a value of the type the function of the code is given (any sequence of blocks, any sequence of characters, any
answers to the calls of an analysis, any reading of the fields). TLC confirms in the run that its inputs are among them
(`InputsAssumption` in `MCParts`; the inputs of the other two are drawn from the very sets).

- `TrustHolds`: `ExtractionAnswer` by cases on which of the two answers is valid, and of a field on what became of its quotation.
  The three properties of `BenchmarkRules`
  are proved of the 31 rules of `CHECKS` as they stand: each is shown to have one of five shapes that are `Sound` (of each
  field it names a condition says something, it tests for a missing key only next to such a condition on the same field, and
  what it reads is in the schema of every type it is for), and what a sound rule raises has the properties. That fields left by
  another version change a flag only through a field of the document's own schema is then that nothing else is read.
- `CutsHold`, any budget, overlap and window, documents and clauses of any length. The loops of the code are recursive functions
  on an interval. That such a function exists, and what each of its values is, follows from the well-foundedness of the
  numbers by taking a least counterexample as a set (`Least`, `Induct`, `Recursion`; `Descent` where each step goes to a smaller
  number), so that no induction over an operator is needed. The chunker's invariant is `LoopInv`: the last chunk ends at a
  boundary, the next start is beyond the last and inside its chunk with at most the overlap between them, and every round
  begins further on, so that as many rounds as there are characters are enough. The segmenter's is `WalkInv`: the clauses so far
  tile the text up to the next boundary (`Tiled`), every path given out is remembered (`Named`), each clause stands under what
  encloses it (`Under`), and the scope and the stack are the annex and the open headings of the block
  reached (`Scoped`), which is the hard part: popping a stack leaves exactly the headings no later one has closed.

Only model-checked:

- all liveness (`EverythingSettles`, `AskEnds`, `NarrativeEnds`, `PageIsLive`), which the prover does not reach;
- `TextsKeepTheirSense` and `EvaluationIsFair`: the functions they are about (framing, sums, prose, offsets of the parser,
  quotations, highlights, scores) are folds over sequences or recursive operators, and what a fold computes for every input
  would have to be shown by an induction the provers cannot be given.

## 5. Where the code differs from what is said about it

Two runs end in a counterexample. Each is the only property of its run.

- `found_supersedes`: a re-analysis that classifies differently leaves the fields of the former schema, although
  `queue/analysis.ts:28-30` says it supersedes the prior run.
- `found_hidden`: the sentence splitter joins a fragment that ends in a number or an abbreviation and a stop to the next one
  (`grounding.ts:133`), across a line break too. The trace is an uncited claim that ends so and a cited one behind it: they
  are validated as one sentence, although the repository's `README.md:41` says every factual sentence must carry a marker.
  `ExactlyTheUncited` says what holds elsewhere: of texts without such a claim, and without a marker glued to the stop it follows,
  exactly the claims without a marker are reported.

Noticed while modelling, without a run of their own.

Life of a document:

- An ingest job that has used up its attempts leaves its document `uploaded` or `processing`; the listener only logs, and a
  second upload of the same bytes finds the row and enqueues nothing. `EnqueuedSettles` counts this as an end.
- After a worker crash behind the commit of an ingest, its repetition runs next to the analysis it had chained: a stored flag
  can then cite deleted clauses, although `pipeline.ts:133-139` deletes flags to prevent exactly that.
- The analyze routes write `analyzing` after they enqueued (`reports.ts:149`); a fast job ends first, and the document stays
  `analyzing`.
- The benchmark merges the rows of all schema versions by field, in whatever order they come (`benchmark-service.ts:48-66`).
  `vesting`, `good_leaver_definition` and `bad_leaver_definition` are in the schemas of two families, and a later version of a schema has
  the fields of the earlier; after a re-analysis under another type or version a flag may stand on the value that was left behind, and
  differ from one run to the next, although `README.md:40` says that the same document always yields the same flags.
  `NotFromLeftovers` bounds it to fields that the document's own schema has too. The report shows the fields of all versions
  under the version of its first row (`report-service.ts:164`), the newest analysis or not.
- A value without a quotation cites the whole of the clauses the model named, and keeps the confidence the model gave it
  (`citation-resolver.ts:158-167`): whether the value stands there nobody looks. `TrustIsCited` asks that it can be looked up.
- Bytes uploaded under two types leave a file no sweep will ever remove (`sweep.ts:56`, against its comment at 41-43).
- The layout route's ETag is keyed on the hash of the file, although the layout changes when the sidecar is written after a
  first read.
- A visitor who comes back after the purge has selected the session loses it, however short the answer takes.

Questions and narratives:

- `corrected` means that a critique was sent, not that the answer came from the regeneration (`agent-service.ts:302`, against
  `qa-turns.ts:57`): the model may answer the critique with tool calls until a ceiling ends the loop.
- A ceiling reached before any text was written stores an empty answer, and an empty answer is grounded. So does a narrative
  whose report was read before a re-ingest: it is stored as a grounded stub.
- A re-ingest cascades to the citations of stored turns: the turn stays, without the citations that `qa-store.ts:31-33`
  says it is never observed without. `AnswerCitationsResolve` therefore is about citations that are there.
- A call of an unknown tool is announced to the client, its result is not: its activity stays "running".
- A marker glued to the stop before it (`Sentence.[[id]] Next claim.`) leaves no place to split, so that it covers the next claim
  as well; a `[[statute: ...]]` marker is told by different rules on
  the client and on the server; stripping the markers of `[[a] ]` can make one.
- `http.ts` waits out a Retry-After also after its last attempt, swallows what a listener throws, takes a truncated stream for
  an ended turn, and sets no timeout of its own.

The page:

- Leaving the panel in the middle of an answer leaves a half-answer "streaming" for good (`use-ask-stream.ts:120`).
- The transcript is not "fetched once on mount and never again" (`use-ask-stream.ts:57-59`), nor is it true that "nothing ever
  fetches this key" (:31): every invalidation of the case loads it again, while questions stream. The merge bears it
  (`PanelIsConsistent`, `DoneIsStored`, `FailedStays`).
- A fetch of stored turns can arrive when an answer was stored but its last frame is still under way: the question
  is then shown twice (`DoneIsStored` allows for it) until the next fetch.
- Asking before the first fetch has arrived, and leaving, makes the cache entry fresh: the history does not load on this page
  until something invalidates it.
- A connection that breaks behind `done` marks as failed whatever turn is last, which after a merge may be another answer.
- A stopped question is still answered and stored, and appears as answered after a reload.
- `done` is sent while a document whose analysis had failed is being ingested again: `derivePhase` (`shared/src/schemas/api.ts:299`)
  looks at the failed analysis before it looks at the ingest. The page then shows "ingesting" with its stream closed, and only the
  poll goes on; `DoneIsSettled` excepts it (`Reingested`). A page that has stopped listening for good learns nothing of a later
  ingest at all.
- Once its stream was given up, or after a re-run, the page stays on its last snapshot, although `progress-panel.tsx:84` says that
  it is checking: `PageCatchesUp` and `IngestedIsAsked` exclude it. Nothing refetches the report after a re-run.
- A document is marked as asked for before the request is sent, and a failed request is never repeated.
- After Stop, the unvalidated draft of a narrative stays on screen, below the label "Every claim tied to a clause" of the one
  stored before (`narrative-panel.tsx:38-52`).
- A second batch may be dropped on the upload card while one is under way; the one that ends first clears `busy`, and the one
  that ends later moves the page to its case, wherever the reader has gone. A failed upload leaves a case with part of its files.

- The two rules of `ask` are counted one after the other, and the first that refuses answers (`rate-limit.ts:161-183`). A request
  the burst ceiling refuses has been counted by the hour: 21 clicks in a minute spend the budget of the hour with 5 answers,
  although :104 has the ceiling "so one tab cannot spend it in a minute" (`RefusalIsEarned` says what is counted). Nor is "every rule
  checked, and the tightest failure" reported (:158-159): behind a spent hour the ceiling is not looked at.

Smaller ones: the segmenter gives the clauses of a second annex of the same number the first one's prefix; a chunk may be contained
in the one before; a one-line span is placed by its share of the whole block (`resolve.ts`, against ADR-0012); "0.125 %" is read
as 125; a month 13 is accepted; a clone made during a re-seed copies documents that are still being processed and that nothing
will ingest; two clicks without a cookie mint two tenants.

## 6. Not modelled, and why

- What libraries do: PDF and DOCX parsing, column and table geometry, embeddings and how well a search ranks. Choices, where
  they matter.
- The wording of prompts, answers, flags and errors; validation answers, authorisation beyond the tenant filters of tools.
- The JSON variant of `ask` (it returns what is streamed at once), the OpenAI-compatible and the fake providers, rerankers:
  single calls of the same shape as `ProviderCall`.
- Reads that return rows as they are; the list of tool calls next to an answer; views that keep no state of their own.
- MCP (a stub that exports nothing), the corpus generator and the browser tests.
- Replication or failure of Postgres and Redis beyond a call that throws: Redis is assumed to keep what it acknowledged.

## 7. Plan

1. *Proofs.* The resolver and the highlights, once their folds are restated as functions on an interval, as those of the
   segmenter and the chunker are; then `Scoring`.
2. *Larger instances* where a machine has room: three requests for `RateLimit`, three statements of two tools at once.
3. *Views with state:* the trace drawer and the viewer's page cache, if they come to keep more than they show.
