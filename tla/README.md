# Verification of factvault

TLA+ modules that model factvault's workers, TLC configurations that check them
on small instances, and proofs that hold for every instance. All paths below
are relative to the repository unless they end in `.tla` or `.cfg`.

factvault turns web documents into facts that can be traced to the passage they
come from. Independent processes (Kubernetes CronJobs every 15 minutes, or an
operator's `factvault worker <name>`) and two servers share one PostgreSQL database and nothing
else: they communicate through the rows they write. So what can go wrong is
mostly a matter of transactions that overlap, of rows that were read long before
they are written or used, of runs that fail half-way, and of loops that share a
limited resource.

- [Inventory](#inventory)
- [Modules](#modules)
- [Runs](#runs)
- [Fairness](#fairness)
- [Proofs](#proofs)
- [Disagreements found](#disagreements-found)
- [What is not modelled](#what-is-not-modelled)
- [Plan](#plan)

## Inventory

### Components, their state and their operations

| Component | State | Operations | Code |
|---|---|---|---|
| Source pipeline | `sources` (status, raw_text, archive_url, last_verified_at), append-only `source_verifications` | `CollectOnce`, `ArchiveOnce`, `VerifyOnce`: one transaction per run, network calls inside | `internal/workers/source_pipeline.go` |
| Fact extraction | `entities`, `properties`, `proposed_properties`, `statements`, `statement_sources`, `sources.status` | `ExtractOnce`: read a batch, one transaction per source | `internal/workers/extract.go`, `internal/vocabulary` |
| Extractors | none | deterministic patterns; an LLM asked for proposals with offsets, with retries | `internal/extractors` |
| Corroboration | `statements.confidence` | `CorroborateOnce`: one transaction over all evidence | `internal/workers/corroborate.go`, `internal/assembler/confidence.go` |
| Embedding | the `embedding` columns | `EmbedWorker.RunOnce`: fill NULL vectors, one batch per table: read, ask the embedder, write | `internal/workers/embed.go`, `internal/embed`, `services/embedder` |
| RSS | time of the last poll per feed (in memory) | the loop of `worker rss`, `RSSCollector.Collect`, `CollectOnce` | `cmd/factvault/worker.go`, `internal/collectors` |
| Research | none (limits of one run) | `GenerateQueries`, `SearchCollector.Collect`, `CollectOnce` | `internal/research` |
| Assembler | none | `Assemble`: six queries; `ExpandGraph` | `internal/assembler` |
| Dossier worker | `dossiers` | `RunOnce`: one transaction per batch of entities | `internal/workers/dossier.go` |
| Briefs | `evidence_briefs` | `Generate`; one transaction to assemble, one to insert | `internal/briefs` |
| Retrieval, REST API, MCP | a pool of 5 connections | `Dossier`, `Story`, `FactsQuery`, briefs; shutdown | `internal/retrieval`, `internal/api`, `internal/mcp`, `cmd/factvault/api.go`, `internal/db/conn.go` |
| Authentication, configuration, initialisation | key files, environment | token checks, precedence rules, key generation | `internal/auth`, `internal/config`, `cmd/factvault/init.go` |
| Stores | schema version | migrations; a SQLite backend | `internal/store`, `migrations` |

### How they interact

A source row is the hand-over point of four workers:

    (no row) --Collect--> collected --Archive--> archived --Extract--> extracted
                                        |  ^---- Archive again (overlap) ----|
                                        +--Verify--> verified | link-rot | content-changed

`Archive` reads `collected`, `Extract` reads `archived`, `Verify` reads everything
past `Archive` except `link-rot`. None of them claims a row before working on it
and none of their UPDATEs has a condition on the status. `Extract` leaves
statements with one link each; `Corroborate` reads the links and writes the
confidences; `Embed` fills vectors; assembler, dossiers, retrieval and briefs read.
RSS and research are collectors that never stop at one batch: both insert into `sources`
under one unique index.
The CronJobs have `concurrencyPolicy: Forbid`, so the schedule alone starts one
run per worker at a time, but an operator may start another next to it, and runs of
different workers always overlap.

### What is hard, and what must hold

| Component | Hard | Must hold |
|---|---|---|
| Source pipeline | status written from an old read; two verifiers, dated by the begin of their transactions; log row and status in two statements; lock order with equal `fetched_at`; failure in mid-batch | text present exactly from Archive on; a verdict is that of a logged check, with one verifier of the latest, and checks are `--age-days` apart; `extracted` has evidence; each committed change is one legal step; every collected source is archived, every due source verified |
| Extraction | two extractors create the same rows; a property appears between look-up and insert; an error after some inserts | no duplicates, no dangling references, all facts of a source or none, nothing with a good excerpt dropped, vocabulary grows only as the mode allows |
| Corroboration | stale confidences of an older run; random lock order; similarity that is not transitive; LIMIT | no confidence above what the evidence carries, with copies counted once (violated, see `FindWireCopy`); confidences end up current |
| Embedding | rows filled, inserted or archived while the embedder computes; an embedder that never answers; equal `created_at`; a request that is too large; error in one table | a NULL column is filled once, with a vector of its own row; every row gets one |
| RSS | wait computed from a clock read before slow polls; one failing feed ends the worker and forgets all polls; inserts of the same urls in another order by research | no feed waits longer than its interval and two batches; every entry of a scheduled feed is stored |
| Research | a model that answers too much; failures that do not count; two queries in other words | never more pages stored, results tried per query, or queries of one normal form than the limits; never more fetches than `--max-fetches` (not so, see [below](#disagreements-found)) |
| Extractors | offsets in bytes and in runes; overlaps; lower case of another length; a model that fails | an excerpt stands where its fact says, no name is passed over, the work on a source is bounded |
| Assembler, dossiers | writers commit between the queries of one bundle; an older bundle stored over a newer one; cycles in the graph | a bundle is coherent and fully sourced; dossiers end up current; the expansion is reachability |
| Briefs | Go's maps have no order | one brief per bundle |
| Requests | a second connection asked for inside a transaction; embedder down or silent; shutdown | no connection lost, a search falls back to names without an error (one kind of brief is answered with one, see [below](#disagreements-found)), every request answered |

`PROJECT.json` lists every hazard with its line and the properties that cover it.

## Modules

| Module | Stands for | Remarks |
|---|---|---|
| `SourceRows` | a row of `sources` with its verification log, and how each worker updates it | `stripHTML`, `mapSourceStatus`, `WithText`, `WithCheck`, `WithFacts` keep the names of the code |
| `SourceLedger` | abstract: what a reader of committed rows may see happen | one batch of captures, archives or checks, or one source extracted, per step |
| `SourceLifecycle` | the four workers with transactions, row locks, deadlocks, failures | implements `SourceLedger` |
| `MCSourceLifecycle` | instances for TLC | |
| `SourceLifecycleProofs` | theorems about `SourceLifecycle` | see [Proofs](#proofs) |
| `FactExtraction` | `ExtractOnce` insert by insert | its committed rows take `SourceLedger`'s `Extract` step |
| `MCFactExtraction` | instances for TLC | |
| `FactExtractionProofs` | theorems about `FactExtraction` | |
| `Corroboration` | `CorroborateOnce` and `ComputeConfidence` | |
| `MCCorroboration` | instances for TLC | |
| `CorroborationProofs` | theorems about `Corroboration` | |
| `EmbeddingColumns` | abstract: what a reader of the `embedding` columns may see happen | |
| `EmbedWorker` | `EmbedWorker.RunOnce`, next to the workers that insert and archive rows | implements `EmbeddingColumns` |
| `MCEmbedWorker` | instances for TLC | |
| `EmbedWorkerProofs` | theorems about `EmbedWorker` | see [Proofs](#proofs) |
| `Acquisition` | `worker rss` and `worker research` up to the rows of `sources` | what becomes of these rows is `SourceLifecycle` |
| `GoStrings` | strings as bytes and runes, and how the extractors convert between their offsets | operators only |
| `Extractors` | the deterministic extractors, the language model and its configuration | extends `GoStrings`; what becomes of the facts is `FactExtraction` |
| `Assembler` | the evidence as readers see it, the six queries of `Assemble`, `ExpandGraph` | operators only; `Reachable` is the reference definition |
| `Briefs` | `BriefGenerator.Generate` | extends `Assembler`; operators only |
| `Dossiers` | the dossier worker and the creation of briefs, next to writers | composes `Assembler` and `Briefs` |
| `Requests` | the HTTP API and the MCP tools over the pool of connections | what the bundles contain is `Dossiers` |
| `MCAcquisition`, `MCExtractors`, `MCDossiers`, `MCRequests` | instances for TLC | |
| `AcquisitionProofs`, `DossiersProofs`, `ExtractorsProofs`, `RequestsProofs` | theorems about these four | see [Proofs](#proofs) |

### SourceLifecycle

`sources` are the committed rows, `draft` the newest row versions, `lock` the
transaction that wrote a draft (PostgreSQL's row lock), `evidence` the committed
`statement_sources`, `run[w]` the batch that worker `w` has yet to work through, with
the status each row had when the batch was read (`pendingVerification.oldStatus`).
`CollectBegin`, `ArchiveBegin`, `VerifyBegin` and `ExtractBegin` are the batch queries:
`Selections` gives every result that `ORDER BY fetched_at LIMIT n` allows, ties in any
order. `CollectItem`, `ArchiveItem`, `VerifyItem` are one round of the loops, with the
network answers chosen freely (Wayback gives a URL or nothing, a check finds any
outcome). `ExtractItem` is the whole transaction of one source, which
`FactExtraction` refines. `Commit`, `Fail` and `DeadlockVictim` end runs. An UPDATE of a row
another transaction has written is disabled until that transaction ends, and then
works on the newest version, as READ COMMITTED does. A collector's conflict with an
uncommitted insert waits; a failed item of a collector is undone by its savepoint.

Data is abstracted: a page asserts a set of facts `Grounded[s]`, is `Blank` or not after
stripping, and extraction proposes any set of facts; a proposal whose excerpt is not
in the text is one outside `Grounded[s]`.

`day` is the clock that checks are dated with, and `Age` is `--age-days`. `run[w].now` is the day on
which a run began: `verified_at` and `last_verified_at` are PostgreSQL's `now()`, the begin of
the transaction (`00001_initial_schema.sql:172`, `source_pipeline.go:237`). `NextDay` may happen at any time, so
a run may last for days, and of two that overlap the one that began earlier may commit
later. The order of `log` is that of the commits, which the table does not keep; it is there to say
that no row of the log goes away, and what is said of the time of a check uses its `at`. The
cutoff of the batch query (`time.Now()` of the worker, line 201) is taken to be read at the
begin of the transaction, which is a few statements earlier.

### FactExtraction

`rows` are the committed rows of the five tables, each with its table and unique key;
`mine[w]` what the open transaction of extractor `w` has inserted; `run[w]` where it is in
the batch, the source and the fact. Each SQL statement of `ensureEntity`,
`ensureProperty` and `insertFact` is an action. `Insert` is `INSERT ... ON CONFLICT DO
NOTHING`: it waits while another transaction holds the key, and afterwards takes the
committed row (the fallback SELECTs W-05, W-06, W-07). `Approve` is the operator's
transaction of `docs/guides/defining-properties.md`.

### Corroboration

`similar` is any reflexive and symmetric relation on the sources, which is all that
`trigramSimilarity >= 0.85` guarantees, and `domain` any assignment of
publishers: both are chosen in `Init`, so `CorroborationSafety` checks the clustering for
every combination. `run[w].order` is the random order of the Go map, `Held(w)` the rows
that `w` has updated and not committed. `AddEvidence` stands for writers other than the
pipeline: `insertFact` itself never adds a second link to a statement.

### EmbedWorker

`vector` are the committed columns; the vector of a text is the text itself, and a text is
its row with the columns it was made of (`sourceEmbedText` gives the title alone while a
source has no `raw_text`). `run[w]` is the table a run is at, its step and its batch
(`embedRow`: id and the text that was read), `written[w]` the rows updated in its open
transaction. `Fetch` is phase 1 of a table, `Embed` or `Reject` the answer of the embedder
(which refuses more than `MAX_EMBED_TEXTS` texts, and may never come: the client is
`http.DefaultClient`, without a timeout, `internal/embed/client.go:26`), `Write` one UPDATE of phase 3, `Commit` its
end. The UPDATE waits for another embedder that has updated the row and then sees a
column that is no longer NULL. `Insert` commits all rows of one transaction, which have one
`created_at`, and may commit later than rows with a later one; `Archive` gives a source its
`raw_text`. Descriptions of entities and labels are not changed by any worker, so only
sources have two texts. The embedder's limit on bytes, a wrong number of vectors or of
dimensions, and lost connections are `Fail`.

### Acquisition

`rows` are the committed urls, `inserted[w]` those of the open transaction of a writer
(`rss` or `research`), `items[w]` what its `CollectOnce` has yet to insert. `rss` is the
process: `batch` the feeds that were due when it read the clock and `due` those of them that
it has yet to poll, the first in the order of the file next, `took` the time since it read
the clock, `wait` what is left of its sleep. `since[f]` is the age of `lastPolled[f]`, so that no
clock grows without end; a new process knows of no poll. `BatchDone` notes the time that
`now` had before the polls (worker.go:244) and computes the wait from it. `research` follows
`SearchCollector.Collect`: `queries` and `searched` are the positions in `answer` of the
queries left and searched, `urls` the positions in `results` of the pages left of the current
query, `tried` counts fetches. `Answers` are what a language model may make of the two
prompts, as sequences of perspective and query, which the code cuts and clears of duplicates
(`Capped`, `dedup`). An insert that
waits for the other writer's insert of the same url may end in a deadlock, which
`CollectOnce` treats like any failing item (`ROLLBACK TO SAVEPOINT`).

### Extractors

A Go string is the sequence of its bytes, byte `k` of rune `r` being `<<r, k>>`
(`GoStrings`); so offsets of both kinds, slices in the middle of a rune and
lower case of another length mean what they mean in Go. Regular expressions are finite
sets of strings, with `\b` where the expression has it. `Configure` is the choice of a model
and the cost guardrail. A round of a loop is a step: `Match` takes the next match of a pattern and
`Mention` the next mention of a phrase, from `searchFrom` on; `NextPass` goes on with the next
pattern or phrase when there is none; `Keep` is the runner's loop over what an extractor found, which it
keeps once. `Extracted` ends with the facts or asks the model, `Transient`, `Resend`, `ModelFails` and
`Complete` are the request with its retries, and `Filter` verifies one proposal of the answer. Slices
beyond the end are a panic (`crashed`).

### Assembler, Briefs and Dossiers

The tables are reduced to what decides whether something belongs to a bundle:
`confidence` (below 0.7 or not), `links`, `status`, `qualified`, `relations`. READ COMMITTED gives each
query a snapshot of its own, so `run[w]` collects a bundle in the steps `Expand`,
`LoadStatements`, `LoadSources`, `LoadQualifiers`, `LoadRelations`, and any writer (`Extract`,
`AddEvidence`, `Corroborate`, `Verify`, `Qualify`, `Relate`) may commit between two of them. `Upsert` waits
for another run's upsert of the same dossier; `recent` says whether a dossier is less than
24 hours old, and `NextDay` ends that for all of them. Go visits the map in `detectConflicts` in any order, and anew in
each of the two calls; `Orders` are the orders in which conflicts that compare as equal may leave `sort.Slice`, and
`StoreBrief` takes any brief of `Generated`.

### Requests

A request is the list of transactions it has yet to run (`Plans`), each on a connection of its
own. A search embeds the query and then needs a second connection (`AcquireSecond`) while it
holds the first, since `SearchNearest` runs on the pool and not in the transaction
(service.go:175, :204). An embedder that fails, a search that fails or finds nothing near enough
leads to `SearchByName` (`FallBack`); one that never answers keeps the request at `embed`, since neither its client
nor the server's `WriteTimeout` ends the call. The search by name may begin with another entity than the
nearest: `missed` remembers that a brief was asked for just that one, and the answer is then `astray`, the 500 of
`ErrBundleEntityMismatch`. `GiveUp` is a client that goes away, `Fail` a database error;
`Terminate`, `CloseDrained`, `Stop` and `Restart` are SIGTERM, the end of `Shutdown`, of `pool.Close`, and the
Deployment.

## Runs

Each run fires the interesting cases: bounds are the smallest that allow two sources
to tie or differ in `fetched_at`, two runs of one worker to overlap, a second
verification period, one failure at any point, two facts of which one is shared; for the newer
runs they are given below the table.
`CHECK_DEADLOCK FALSE` is set where the bounds (collector runs, days, failures) let the
system stop legitimately, and in `Extractors`, which is about one source.

| Run | Instance | Shows |
|---|---|---|
| `Lifecycle` | 2 sources, one of them blank, 2 facts, 1 worker per stage, 3 days and checks due after more than 1, 1 failure, fair | `TextCaptured`, `EvidenceGrounded`, `ExtractedHasEvidence`, `VerdictIsLogged`, `CheckedOncePerPeriod`, `VerdictIsLatest`, `ArchivedOnce`, `CollectedIsArchived`, `DueIsVerified`, `ImplementsLedger` (refinement) |
| `LifecycleOverlap` | 2 sources of one collector run or of two, 2 archivers, 2 verifiers, 2 days | `LifecycleInv` (the inductive invariant), `DeadlocksAreTies`, `ImplementsLedger` (refinement) |
| `Extraction` | a strict and a permissive extractor, 3 sources (two with a shared fact and subjects in opposite order, the youngest with a value its column does not accept), operator, 1 failure, fair | `NoDuplicates`, `ReferencesHold` (with `TypeOK`), `ExtractedIffLinked`, `VocabularyGuarded`, `NothingDropped`, `ExtractsAtOnce`, `RunsEnd`, `ProductiveIsExtracted` |
| `CorroborationSafety` | 1 statement, 3 sources, all publishers and similarities, 2 runs, LIMIT 2, editor, 1 failure | `CountBounded`, `Warranted`, `CorroborationInv` (the inductive invariant, with `TypeOK`) |
| `CorroborationProgress` | 2 statements, scheduled and manual run, editor, 1 failure, fair | `EndsCurrent` (every run ends, and confidences end up current) |
| `Embedding` | 3 entities (2 tied), 1 source, 1 statement, scheduled and manual embedder, `--limit` 3 and 2 texts per request, 1 failure, fair | `EmbedInv` (the inductive invariant), `ImplementsColumns` (refinement), `EveryRowEmbedded` |
| `Dossiers` | 4 entities (2 created together), 5 statements, 2 sources, a graph with edges in both directions and a weak or strong shortcut, scheduled and manual run, 1 brief, 1 write, 1 failure, fair | `BundlesCoherent`, `ExpansionIsReachability`, `BriefsStable`, `DossiersEndCurrent` |
| `Requests` | 3 handlers, one of them followed, 2 connections, every kind of request, an embedder that need not answer, errors, shutdown and restart, fair | `PoolSound`, `SearchFallsBack`, `EveryRequestAnswered` |
| `Acquisition` | 3 feeds (intervals 1, 1 and 7, one without tenant), polls of up to 1 tick, 2 research runs with limits 2 queries, 3 results, 2 fetches, 2 failures, fair | `EveryFeedFresh`, `ResearchBounded`, `EveryEntryStored` |
| `Extractors` | 455 texts of up to 7 runes of 1 to 3 bytes, every configuration, a model that answers anything, fair | `FactsExact`, `ExtractionBounded` |

`Dossiers`: one write is enough for a bundle to mix two states, since each of the six
queries sees it or does not; `Limit` 2 with four entities makes runs take batches, and
`LimitSuffices` says that a day has room for all of them, without which
`DossiersEndCurrent` is not true. `BriefsStable` is about bundles with at most 12
conflicts (`InsertionMax`): beyond that `sort.Slice` keeps no order, see
[below](#disagreements-found).

`Requests`: with two connections and three handlers, all kinds of waiting happen: one search
waits for another, two for each other, and a third request for both. `EveryRequestAnswered` excepts two
cases by name, because there the code does wait until a client gives up: a request whose
embedder never answers, and `HeldUp`, in which searches that wait for the embedder or for a second connection
hold the whole pool from some time on. `MaxConns` is 5 in the code; neither case depends on it. The handlers are alike, so that
following one of them is following each.

`Acquisition`: `EveryFeedFresh` needs polls that take time, feeds that come due at different
times and a feed that is not scheduled between two that are; the urls of feeds and search
results come in opposite orders, so that inserts deadlock. A tick stands for the shortest
interval; the code's second of minimal sleep is one tick.

`Extractors`: the texts are all short ones, and longer ones around a name with an alias
that is its prefix, and around dates that overlap or are none. `FactsExact` is stated for texts whose
lower case has the width of the text (`KeepsWidth`): in others the code goes wrong, see
[below](#disagreements-found).

`Lifecycle` is about the schedule alone. With an age of one day a source that is checked on the
first day is due again on the third, and runs may last overnight. No circle of waits is possible
there: archiver, verifier and collector have different rows. `LifecycleOverlap` is what remains true when an
operator starts runs next to it; its second day lets a verifier that began on the first commit after
one that began on the second. Two collector runs of one source each, or one run of two, make rows that differ or tie
in `fetched_at`: in a tie two runs lock the rows in opposite orders and wait for each other. That a run which is
not chosen as a victim then goes on is not checked there, only which circles there are. The extractor, which holds no
lock between two steps, is in `Lifecycle` and not here; the theorems are about all of them together.
In `ProductiveIsExtracted` runs are assumed not to deadlock for ever: two extractors that
restart as soon as they are aborted may abort each other alternately.

`EveryRowEmbedded` excludes two cases by name. The scheduled run may wait forever for an embedder that
never answers; `Forbid` or a loop that waits for it then keep the next one from starting, and no row is
filled. An operator's run that hangs does not keep the scheduled one from its work. The other is `Crowded`: `--limit` is larger than
`MAX_EMBED_TEXTS` and more rows wait than one request may hold. Then every run fails on the
same batch, and the tables after it starve. The third entity, inserted in time, makes the
case happen in the run.

`CountBounded` deserves a word. Because similarity is not transitive, the number of
clusters depends on the order of the sources (by uuid), so there is no one right
count. What does hold is that it lies between the number of groups that chains of
similar texts connect and the size of the largest set of pairwise independent sources.

## Fairness

- A run that started goes on: its process does not stop by itself, and the HTTP clients of the source
  pipeline, of RSS, research and the language model have timeouts. Failures are separate actions,
  bounded by `MaxFailures` (in `Requests` they are not: an error ends a request, just as a client that gives up does).
- The client of the embedder has no timeout (`embed.NewClient(url, nil)`, `cmd/factvault/worker.go:438`,
  takes `http.DefaultClient`), and no CronJob limits the run. So nothing is assumed of the embedder's answer, neither in
  `EmbedWorker` (`Embed` and `Reject` are outside `Proceed`) nor in `Requests` (`Embed` and `EmbedFails` are
  outside `Handle`).
- Workers are started again and again (the CronJobs; for the embedder, which has none, the
  schedule that `docs/guides/embedding-population.md:123` asks for). Collectors are not: nothing
  says that a feed has items. In `Corroboration` and `EmbedWorker` only the scheduled process is; what
  a person starts is bounded by `MaxByHand`. Without that bound two corroborators can
  deadlock with each other forever, each aborted in turn just before it commits.
- Fairness of workers is strong where a step may wait for a row lock: a worker that
  finds the row free again and again gets it, since PostgreSQL queues the waiters.
- `WF(DeadlockVictim)`: PostgreSQL detects every cycle of waits (`deadlock_timeout`) and
  ends one transaction of it, whichever.
- In `Dossiers` only dossier runs are fair: nothing says that anybody asks for a brief or
  writes. `SF` because an upsert may wait for another run's. `NextDay` comes only after
  `RunsPerDay` scheduled runs (the CronJob's schedule leaves room for them).
- In `Requests` a handler that has its answer goes on and is served by the pool in turn (pgxpool's semaphore is
  first come, first served); clients need not give up, and nobody has to send a request or SIGTERM.
- In `Acquisition` the worker is restarted when it ends (loop: its supervisor; `--once`: the
  CronJob), and time passes. Nobody has to start a research run.
- In `Extractors` the HTTP client's timeout ends a request that gets no answer, so that
  `Resend`, `Tick` and `ModelFails` together are fair; so is what the command does by itself (`Work`).
- In `SourceLifecycle` nothing forces a day to end, a run to fail or an operator to act, and days pass
  whether or not runs are open.

## Proofs

Every theorem is about the specification of a module without fairness, for any finite
sets of sources, statements, workers, handlers and so on and for any bounds. What is
assumed of the constants is named in the module that declares them, and TLC evaluates it on
every run; other hypotheses are part of the theorem. In each module one inductive
invariant carries the rest: it adds to the safety properties what is true of work in progress, since what
a transaction publishes was written, and what it writes was read, some time before. TLC checks
`LifecycleInv`, `EmbedInv` and `CorroborationInv` in runs of their own modules, and has checked `FactInv`,
`RequestInv`, `BundlesInv`, `AcquisitionInv` and `ExtractionInv` on the instances of `Extraction`, `Requests`, `Dossiers`,
`Acquisition` and `Extractors`, where they are not listed, because the properties listed there follow from them.

### SourceLifecycleProofs

| Theorem | Statement |
|---|---|
| `Invariance` | `LifecycleInv` |
| `TypeCorrect`, `TextStaysCaptured`, `EvidenceStaysGrounded`, `ExtractedStaysBacked`, `VerdictsStayLogged` | the safety invariants of the runs, whatever overlaps |
| `Refinement` | `ImplementsLedger`: each committed change is a step of `SourceLedger` |
| `LedgerIsSound` | the ledger alone keeps the invariants of the rows |
| `HistoryStaysKept` | a captured row keeps its `fetched_at`, its text, the rows of its log and its links |
| `ArchivesStayNew`, `NeverArchivedTwice` | with one archiver: what it works on stays `collected`; `ArchivedOnce` |
| `ChecksStayDue` | with one verifier: what is left of its batch is still due, and all checks of a row are spaced out |
| `NeverCheckedTwice`, `VerdictsStayLatest` | with one verifier: `CheckedOncePerPeriod`, `VerdictIsLatest` |
| `LocksStayInOrder` | archivers and verifiers hold and ask for locks in the order of `fetched_at` |
| `DeadlocksNeedTies` | `DeadlocksAreTies`: who waits in a circle is at rows of one `fetched_at` |

`LifecycleInv`: `DraftsHaveWriters`: a draft without lock is the committed row, and a lock belongs
to an open run. `DraftsAreSteps`: a draft differs from the committed row by one capture,
archive or check. `BatchesExist`: the rows of a batch have reached the stage the worker
expects. `ChecksToCome`: a verifier checks each source once, and a remembered status
`extracted` still means that a fact is linked (links are never removed, so the
stale read is harmless for `ExtractedHasEvidence`, though not for the status itself:
see `FindExtractedStays`). `TimeIsPast`: the clock is not before the begin of an open
verify run, so that what it writes has a date. There is one lemma
per action; a commit then turns the drafts of one worker into one `Batch` step of the
ledger, and every other step leaves the committed rows alone or extracts one source.

`LedgerIsSound` is about every behaviour of `SourceLedger`, so it says what of the safety of the rows
needs neither the locks nor the schedule: `RowsSound`, the four invariants of the rows, is
inductive for the ledger's steps as it stands. With `Refinement` the pipeline inherits it.
`HistoryStaysKept` rests on the two: every step of the pipeline is a step of the ledger from
sound rows, and such a step keeps what was captured (`README.md:21` of the repository, "Nothing deleted,
overwritten, or tombstoned"). Status and `archive_url` are outside this promise: the code does
write over them, and the text that a second archival writes is the one that is there. So is
`last_verified_at`, which a verifier that began earlier and commits later sets back.

The last part is what the schedule adds. "One archiver" and "one verifier" are
`concurrencyPolicy: Forbid`, and an operator's run next to it breaks them; all other workers may be any
number. `ArchivesAreNew` and `ChecksAreDue` say that nobody else moves a row out of
the reach of the query that found it: the workers that overlap write other columns or wait for the row.
`ChecksAreDue` compares with the day on which the run began, not with today, because that is the date
it will write; the checks of a row are then `SpacedOut`, none later than the one it shows.

`LocksStayInOrder` and `DeadlocksNeedTies` hold for any number of workers. Who waits is waiting for a row fetched no later
than the row its holder is at. Of a circle, one is at a row fetched last of all, and its holder's
row must be as late: the sets of rows fetched from there on do not shrink, which is argued by
the library's well-foundedness of strict subsets of a finite set. So the deadlocks of archivers and verifiers
come from ties in `fetched_at` alone, which all rows of one collector run have.

### FactExtractionProofs

| Theorem | Statement |
|---|---|
| `Invariance` | `FactInv` |
| `NeverTwice`, `NeverDangling`, `StatusIsLinks`, `NeverDropped` | `NoDuplicates`, `ReferencesHold`, `ExtractedIffLinked`, `NothingDropped` |
| `NeverWidened` | `VocabularyGuarded` |
| `ExtractionRefinement` | `ExtractsAtOnce`: the inserts of `ExtractOnce` implement the ledger's `Extract` |

`FactInv` needs four facts about open transactions. Statements and links are written in pairs
(`RowsPaired`), `accepted` means that something is linked to the current source
(`LinksCurrent`), what a statement refers to is visible to its transaction
(`RefersToVisible`), and each step has the references that the steps before it ensured
(`Progress`). Duplicates are excluded by the unique keys only together with the waiting of
`Insert`: a transaction takes the key of a row only while no other holds it, so the keys of two
open transactions are disjoint and stay so through commits of others. `ExtractionRefinement`
joins this module to the first one: the step that `SourceLifecycle` takes for a source in one
transaction is what the commit of these inserts amounts to.

### CorroborationProofs

| Theorem | Statement |
|---|---|
| `CorroborationInvariance` | `CorroborationInv` |
| `TypesHold`, `AlwaysWarranted` | `TypeOK`, `Warranted` |
| `CountsStayBounded` | `CountBounded`, for any reflexive and symmetric similarity |

`Warranted` survives stale runs because evidence only grows: what a run has computed is carried by the
links it read (`Carried`), and by any larger set. That it is carried when it is computed rests on
the clustering. `ClustersUpTo` is a recursive function over the numbered sources; the lemma about it
(`ClustersAreGood`) takes the least number at which the claim fails (`MinIsLeast`) and
shows that there is none. The claim, `Clustered`, is stronger than the bounds it is for: there are as
many clusters as sources of some set that is pairwise apart (the upper bound), and no cluster crosses
the border of a set that is closed under similarity (the lower one).

### EmbedWorkerProofs

| Theorem | Statement |
|---|---|
| `EmbedInvariance` | `EmbedInv` |
| `EmbedRefinement` | `ImplementsColumns`: columns are filled once, by texts of their own row |

`BatchesExist` says that what was fetched still exists and that its text
is one the row has or had, although rows and texts appear while the embedder computes;
`WritersAreAlone` that what an open transaction has written is NULL for everybody else and
held by nobody else. The first makes a committed vector one of its own row, the second
makes it the first. A `Commit` is then one `Fill` of the abstract columns, and every other
step but `Insert` and `Archive` leaves them alone.

### DossiersProofs

| Theorem | Statement |
|---|---|
| `BundlesInvariance` | `BundlesInv` |
| `BundlesStayCoherent` | `BundlesCoherent`, for any evidence and any writers between the queries |
| `ExpansionReachesAll` | `ExpansionIsReachability`, for any graph and any depth that the property asks for |
| `BriefsStayStable` | `BriefsStable`, for any bundle with up to 12 conflicts |

`GoodRun` says, query by query, what the ones before have left: the statements of a bundle are in the
table and about its entities (tables only grow), and from the query of the sources on, the bundle is coherent
whatever the table has become. The seeds of an expansion are entities of known statements, which is why
`DossiersConstants` has both ends of a relation in the entities of the evidence: a foreign key
of `relations`. Expansion is again argued by the least round at which it and the walks of that
length differ. Briefs are stable because `Less` tells conflicts of different keys apart, and those of
one key come to the sort by the ids of their statements, so that whatever order Go chooses, the order of the
sorted conflicts is the same relation (`OneOrder`).

### RequestsProofs

| Theorem | Statement |
|---|---|
| `RequestInvariance` | `RequestInv` |
| `PoolStaysSound`, `SearchAlwaysFallsBack` | `PoolSound`, `SearchFallsBack` |

`Free` is computed from what all requests hold, so the lemmas `FreeByHolders` and `FreeChanges` first
relate a step of one request to the cardinalities of the sets of holders. `SearchFallsBack` is part of the invariant:
`internal` is an answer only when the process is about to end. `OnTask` says that each step has the transaction
that it is about.

### AcquisitionProofs

| Theorem | Statement |
|---|---|
| `AcquisitionInvariance` | `AcquisitionInv` |
| `FeedsStayFresh` | `EveryFeedFresh`, for any feeds, intervals, and polls of any length up to `MaxPoll` |
| `ResearchStaysBounded` | `ResearchBounded`, for any answer of the model and any results |

`InTime` follows the age of a poll around the loop: a feed outside the batch was not due when the clock was read, so
it is older by `took` at most, and a feed of the batch may have been late by what the batch before it took.
`took` is bounded because each poll takes a feed out of `due`. For the research run the claim
that the fetches tried and the pages left fit the queries searched so far
is what survives the loop over the pages.

### ExtractorsProofs

| Theorem | Statement |
|---|---|
| `FactsStandWhereTheySay` | `FactsExact`, for texts of any length and scripts, any patterns, any answers of the model |
| `ModelStaysWithinBudget` | `WithinBudget`, for any request timeout, number of sources and threshold |
| `ExcerptsVerified` | between two byte offsets where runes start, what the extractors write is what `llm.go` would verify |
| `ToLowerIsBytewise` | where lower case keeps its width, positions in it are positions in the text |

`ExtractionInv` carries `FactsExact`. `PlaceOK` says that the search stands between two runes (a match is a valid
string, so it begins and ends between runes: `OccurrencesAtRunes`) and how far it must be when the extractors are done;
`Verified` and `Apart` are about kept and found facts together, so that keeping moves facts without changing them;
`OriginsOK` has the facts of one extractor arrive together, so that a new fact is compared with all that
could overlap it. `Covered` is the loop invariant of the gazetteer: every mention before the place of the
search is covered by a fact. That nothing lies between the place and the next mention
is `First`; that nothing is lost inside a mention, which the loop skips, is `NoMentionInside`.

The last needs an assumption about the names: one that can overlap itself must do so inside a
word. `GazetteerAssumption` says it, and that the names keep their width in lower case; the eleven names of
`gazetteer.go` satisfy it. Without it the claim is false: with a name "A a" the loop would find the mention at 1 in
"xA a a", which is part of a word and no fact, go on behind it, and pass over the mention at 3.

`ToLower` is a recursive function over the text. Its value is not proved by induction: the
function that spells out its value satisfies the recursive equation, and by the first position where
another function that satisfies it would differ there is only one.

### What is only model-checked

All liveness (`RunsEnd` of extraction, `CollectedIsArchived`, `DueIsVerified`, `ProductiveIsExtracted`, `EndsCurrent`,
`EveryRowEmbedded`, `DossiersEndCurrent`, `EveryRequestAnswered`, `EveryEntryStored`, `ExtractionBounded`),
which the proof system does not do. The safety half of the last, `WithinBudget`, is proved. Every invariant and action
property that the passing runs check is stated by a theorem.

## Disagreements found

A run whose name starts with `Find` checks what a document or comment says, and TLC
finds a behaviour of the code that contradicts it. `PROJECT.json` quotes the lines.

| Run | The code |
|---|---|
| `FindExtractedStays` | a verifier overlapping an extractor writes `verified` over `extracted` (`source_pipeline.go:235`; the comment at line 284) |
| `FindWireCopy` | sources are dependent only if domain and text agree (`internal/workers/corroborate.go:114`), so one text under two mastheads counts twice and carries 0.85 (README.md:27; `docs/concepts/confidence-and-corroboration.md:89`, "if either condition holds") |

`FindWireCopy` has one run over two sources of two domains. `CountBounded`, `Warranted` and `CorroborationInv`
measure independence as the code does (`Near`): this run shows what the documentation has and the code has not.

The models also show the following, which no run states as a property of its own. In the pipeline:

- A second source of a known fact is never linked to it (`internal/workers/extract.go:250`);
  `docs/concepts/facts-and-sources.md:3`: "is what allows a fact to accumulate multiple
  supporting sources over time".
- A source that is verified before it is extracted is never extracted
  (`extract.go:119`, `source_pipeline.go:288`); `docs/guides/active-acquisition.md:32` has the
  stages "run independently".
- The statements of a source that were rejected for an unknown slug are not extracted after
  its approval if another fact of it was accepted (`extract.go:188`);
  `docs/guides/defining-properties.md:158`: "they will be re-extracted on the next pass".
- A source embedded before it is archived keeps the vector of its title
  (`internal/workers/embed.go:277`); `docs/concepts/source-existence.md:40`: "BGE-M3 embedding
  of raw_text".
- `ArchiveOnce` sets `archive_url` without a condition (`internal/workers/source_pipeline.go:161`),
  so an overlapping run whose Wayback submission fails replaces a URL by the empty
  string; README.md:21 has "Nothing deleted, overwritten, or tombstoned".
- Two overlapping verifiers both check a source that is due. `last_verified_at` and
  `verified_at` are the begin of the transaction (`source_pipeline.go:237`), so the one that began earlier may commit
  later: it sets `last_verified_at` back and leaves a status older than the latest row of the log
  (`VerdictIsLatest` holds for one verifier only).
- An embedder that accepts a request and never answers stops `worker embed` for good
  (`internal/embed/client.go:26`).
- Two extractors whose sources name two new entities in opposite order deadlock, and one
  returns an error (`internal/workers/extract.go:275`); the comment at
  `internal/workers/extract_test.go:568` has "do not produce duplicate rows or errors".
- An embed run counts as populated what another run has filled meanwhile
  (`internal/workers/embed.go:172`).
- `link-rot` is final (`source_pipeline.go:197`); `docs/concepts/source-existence.md:128` has
  "always re-verified regardless of prior status".
- The column of a statement follows the proposal, never the stored `value_type`
  (`internal/workers/extract.go:307`; `docs/guides/defining-properties.md:74`).
- Links beyond the first 1000 never count (`internal/workers/corroborate.go:63`), and a
  statement at the limit is computed from part of its evidence.
- The next run of `CorroborateOnce` replaces a confidence that an editor set
  (`corroborate.go:87`; `docs/concepts/confidence-and-corroboration.md:83`).

In acquisition and extraction:

- `--max-fetches` is no ceiling on fetches. A page that cannot be had is passed over before it is counted
  (`internal/research/research.go:316`), so a run asks for up to results-per-query pages per query, however small
  the limit. `docs/guides/active-acquisition.md:120` has "Hard ceiling on page fetches per run", `:124` "a hard
  guarantee, not a soft suggestion", the flag at `cmd/factvault/worker.go:398` the same, and the ceiling that the
  command prints (`worker.go:356`) is computed from it. `ResearchBounded` states the limits that the code does keep.
- A feed without a tenant of its own is never polled (`cmd/factvault/worker.go:508`); the
  comment at `worker.go:555` has `--tenant` and the development tenant stand in for it.
- One failing feed ends the worker, and the feeds after it were not polled (`worker.go:224`).
- A collector's insert that loses a deadlock is skipped like a bad item. A feed offers its
  entries again; a research run does not.
- The queries of a research run may be more than perspectives times queries per
  perspective, because the items of the second answer are not counted
  (`internal/research/research.go:220`); "LLM over-production is silently truncated"
  (`research.go:56`) is true of each item.
- The gazetteer uses positions in the lower-cased text on the text itself
  (`internal/extractors/deterministic/gazetteer.go:74`). A letter before a name whose lower case is
  shorter (the Kelvin sign) displaces the excerpt, one whose lower case is longer (U+023A) may
  end the process with a panic: the state `crashed` of run `Extractors`. `extractTitle`
  (`research.go:406`) has the same pattern.
- The language model is sent the whole text (`internal/extractors/llm.go:72`); README.md:113
  has "LLM runs on uncovered text only". And since model and address have defaults
  (`worker.go:466`, `:476`), an extract run without any configuration asks
  localhost:11434 and fails if nobody answers, although README.md:54 counts the LLM among
  the optional services.

In reading:

- A source that several statements cite comes once, with the excerpt of the first statement
  only (`internal/assembler/bundle.go:293`); `docs/concepts/dossiers-vs-stories.md:50` has "the
  verbatim excerpt that produced it" for each number.
- Bundles have no `conflicts[]` block (`docs/concepts/confidence-and-corroboration.md:138`).
- `GET /entities/{id}/dossier` always assembles; nothing reads `dossiers`
  (`docs/concepts/dossiers-vs-stories.md:111`: "returns the cached bundle").
- With more than 12 conflicts under two or more keys, conflicts with equal first value may
  change places from call to call (`internal/briefs/briefs.go:228`: the second value is not compared, and
  `sort.Slice` is not stable); `briefs.go:134`: "stable across repeated calls".
- As many concurrent searches as the pool has connections wait for each other until a client
  gives up (`internal/retrieval/service.go:175`), and at shutdown `pool.Close` waits for them. An embedder
  that never answers has the same effect, one connection per search.
- `SearchNearest` runs outside the transaction that has set the tenant, with the rights
  of the login role: if row-level security binds that role, it finds nothing and every search is
  one by name.
- A story brief for a given entity falls back to a search by name when the embedder fails. If that begins with
  another entity than the nearest, the answer is a 500 (`astray` in `Requests`: `internal/briefs/briefs.go:357`, for which
  `writeError`, `internal/api/api.go:302`, has no case); the comment at `internal/retrieval/service.go:167` has "a
  down embedder must never 500 callers". `SearchFallsBack` is about all other answers.
- A malformed id or a negative limit is answered with a 500 (`failed` in `Requests`, like a database error).

Two consequences are worth spelling out. No extractor sets `SourceConfidence`, so every
statement and link of the pipeline starts at 0.5, and since a statement never gets a
second link, no confidence the pipeline computes is ever above 0.5. And
`CollectOnce` appends topic and tags to the publisher, so the same outlet under two
topics counts as two domains.

## What is not modelled

- Tenancy: row-level security is PostgreSQL's; every module is about one tenant.
- Texts: offsets, hashes, compression and trigram arithmetic are abstracted to the
  outcomes that the workers distinguish. TLC has no use for their characters. `EvidenceGrounded` has a fact
  in a text or not; the boundaries of excerpts are in `Extractors`.
- Time inside a run, other than the days that a verify run may last: its limit of 60 seconds, HTTP timeouts,
  `activeDeadlineSeconds`. A run that is cut off is a `Fail`.
- A statement with more evidence than the LIMIT of `CorroborateOnce`, in the run that shows `EndsCurrent`.
- Texts whose lower case has another width, in `FactsExact`.
- Permanently bad input (an item that fails in every run): failures are bounded, so the
  liveness properties speak of sources and values that can be processed. A value its
  column does not accept is modelled (`StatementError`).
- Starvation by `LIMIT`: an extractor whose batch is full of sources that bring nothing.
- Regular expressions and the normal forms of values (dates, amounts, ISBN): pure functions of
  short strings that the table tests of the package enumerate; what the rest of the code
  makes of their matches is in `Extractors`.
- Authentication: a signature check of a library, and a comparison of claims with the clock;
  a request with a bad token is a refused one in `Requests`.
- Configuration: stateless precedence of flag, variable and default. What it
  means for the language model is in `Configure` of `Extractors`.
- Initialisation: one sequential run by a person. A crash between the two key files leaves
  half a pair, which the next run replaces.
- The SQLite backend and the other methods of the PostgreSQL backend: no worker or command uses them.
- Doctor (read-only probes), the example loader (a fixture, in one transaction), start-up scripts, the
  address checks of the HTTP client (a pure function of DNS answers), the MCP transport.
- Which tenant a feed belongs to (`effectiveRSSTenant`), since all modules are about one.

## Plan

Done: 1. `SourceRows`, `SourceLedger`, `SourceLifecycle` with proofs; 2. `FactExtraction`;
3. `Corroboration`; 4. `EmbeddingColumns`, `EmbedWorker` with proofs; 5. `Assembler`, `Briefs`,
`Dossiers`; 6. `Requests`; 7. `Acquisition`; 8. `GoStrings`, `Extractors`. Each component that the runs check has a module of proofs.

Questions about one instance share a run, so that there is one run per kind of
situation. What remains to be modelled is time within a run (the 60 seconds of a verify
run) and items that fail in every run; both would extend `SourceLifecycle`.

What remains to be proved is only what the prover cannot state, see
[What is only model-checked](#what-is-only-model-checked).
