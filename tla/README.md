# Verification of fin-sight

fin-sight crawls Vietnamese analyst reports, keeps their PDFs in an object store, lets Gemini extract
structured data from them, and serves the result over HTTP and MCP together with live SSI market data.
These modules model the parts of it that keep state and run concurrently; TLC checks them on small
instances and TLAPS proves the central invariants for every instance.

## The system

| Part | State it keeps | Operations | Talks to |
|---|---|---|---|
| Pipeline orchestration (`app/reports/jobs.py`) | one session per invocation; a `crawl_runs` row per (source, type) | `run_pipeline`, `_run_one`, its exception handler | the three stages, PostgreSQL |
| Discover (`services/crawler.py`) | `reports` rows, status `discovered` | `discover`, `_upsert` | crawler, PostgreSQL |
| Download (`services/storage.py`) | status, `retry_count`, `pdf_object_key`, `pdf_sha256` | claim, fetch, dedup, upload, mark failure | crawler, MinIO, PostgreSQL |
| Extract (`services/extractor.py`) | `report_extractions`, status `extracted` | claim, read, ask Gemini, map facets, mark failure | MinIO, Gemini, PostgreSQL |
| Data model (`models.py`, `alembic/`) | unique (source, external id), unique (report, prompt version); no constraint on `pdf_sha256` | | |
| Scheduler (`app/scheduler.py`) | one task, one stop event | `start`, `stop`, `_loop`, `_run_once` with a timeout | pipeline |
| Command line (`reports/__main__.py`) | none | stages and types of one invocation | pipeline |
| Vietstock crawler (`crawlers/`) | cached request token, ids seen in one listing | `discover` page by page, `fetch_pdf` | the source's site |
| MinIO client (`app/core/`) | none; calls run in worker threads | put, get, presign | MinIO |
| Gemini client (`app/core/llm/`) | none; awaited on the event loop, no timeout | generate | Gemini |
| SSI clients (`app/core/ssi/`) | SDK object, lock, TTL cache | one `_call` around a worker thread | SSI |
| Tools, MCP server, HTTP API | none of their own; share connections, threads and locks | queries, market data, questions about a PDF | everything above |
| Renderer (`app/mcp/render.py`) | none | result to text | tools |

What is hard: several invocations may overlap (the scheduler and a command line or cron job); a whole
batch is one transaction, while the object store is outside every transaction; a timeout cancels an
invocation anywhere, but not the thread that uploads for it; an insert waits for another transaction's
insert; the failure handler runs after a rollback; retries are counted inside the transaction that may
be rolled back. Elsewhere: the SSI lock is released by a cancelled caller whose thread runs on, a
listing moves while its pages are read, and the loop of the scheduler must survive what it starts. All
calls of the process share one connection pool, one executor and one lock per SSI client, and some wait
for services that no timeout bounds.

What makes each part correct:

- pipeline and stages: a committed report always is at one well-defined point of its life cycle and
  moves along one edge at a time; a stored row names an existing object; a duplicate has an original;
  an extraction matches the PDF on record; no lock survives its transaction; what is discovered
  settles; every invocation that does not hang in Gemini ends;
- scheduler: a tick after every failure, a backlog worked off run by run, nothing after `stop`;
- SSI clients: one thread inside the SDK, one SDK object, no answer older than the TTL;
- listing: every report inside the window is yielded once, and what one call misses a later one finds;
- facets and queries: a value that `list_facets` has shown finds its report in a search; a ticker that
  an extraction names does so when it is typed without blanks (it is stored stripped and in upper case,
  while the argument is only put in upper case, so that one copied with blanks finds nothing); a report
  is shown once; what an answer calls extracted stays so; reading page by page misses nothing;
- the process as a whole: an outage of SSI or Gemini takes no other call with it while it leaves a
  thread and a connection, and every call ends if they answer;
- renderer: the last line is never an id.

PROJECT.json lists the hazards, each at its line, with the properties that would catch it.

## Modules

**Pipeline** models an arbitrary set of overlapping invocations. `rows` is what is committed (`reports`
together with its extraction), `draft` what the transaction that holds a row (`owner`) sees, so
`View(w, r)` is READ COMMITTED. `Commit` and `Rollback` act on all rows of a worker, as a batch does.
`objects` is the object store, keyed by row since the key is made of source, type and external id;
`late` holds uploads whose caller has been cancelled. A worker's control state follows the awaits of
`_run_one`: `discover`/`insert`, `download`/`fetch`/`put`, `extract`/`ai`, `finish`. One action stands
for the code between two awaits that matter to another worker: the fetch with the dedup query is one
action, the upload with the update is the next, and other workers commit in between. `run` is the
`crawl_runs` row, committed and in the transaction.

Each exception is one of four things: caught per report (`FetchFails`, `PutFails`, `ExtractFails`,
which count a retry), a consequence of the data (`FetchAmbiguous`), a deadlock broken by PostgreSQL
(`BreakDeadlock`), or anything else (`Raise`). `Cancel` is a timeout, `stop()` or the end of the
process. The handler never succeeds in recording a failure: the session's rollback either removes the
`crawl_runs` row or expires `run`, whose id is then loaded outside the async bridge and raises.

**ReportLifecycle** is the abstract specification: six edges between the states of a report, every
report at most one edge per step. `Pipeline!LifecycleSpec` is its instance on `rows`, and
`Catalogue!LifecycleSpec` its instance on what the queries read (`Life`, which forgets the digest of the
PDF and the retries): the commits that Catalogue assumes keep to the same edges.

**SsiClient** is one of the two SSI clients. A caller is a coroutine inside `_call`; `queue` and
`holder` are the `asyncio.Lock`; `thread` is the worker thread of `asyncio.to_thread`, whose steps are
those of `_sync_call`. Cancellation frees the lock and leaves a running thread behind (`Orphan`). A
cache entry remembers when it was stored and when its answer was asked for. A caller is used for a new
request when its thread has ended, so the number of callers bounds the threads.

**AnswerCache** is what the two SSI clients promise: one cache that answers at once, without lock,
threads or SDK object; SSI is asked again only after the last answer has lived its TTL, and who fails or
is cancelled leaves no trace. `SsiClient!PromiseSpec` is its instance on the cache, on what was
delivered, and on what each coroutine that is not idle wants.

**VietstockListing** is `VietstockSource.discover` against a site that publishes and withdraws reports
while its pages are read. External ids are numbers in order of publication; page `p` is what stands at
its positions when it is asked for; `seen` is the set of ids of the call. `Again` is the next tick, with
a new source; `known` is what `_upsert` has stored, over all calls.

**Scheduler** is `ReportsScheduler` in the lifespan of the application: the task with its timeout, the
stop event, the cancellation, `engine.dispose()` at the end. Of the pipeline it keeps what the timeout
meets: a run goes through its types in any order (`NextType`), and for each through a listing and one
batch per stage (`Discover`, `Process`, `CommitBatch`), each of which takes time and is committed as a
whole; `waiting` is the committed backlog of each type and stage, and a run ends when it has been
through its types, whatever still waits. The timeout may meet a listing as well as a batch.

**Facets** is the mapping of an answer of Gemini to typed columns, and the comparison of a filter with
a column. A text is a word, the case it is spelled in and whether white space surrounds it, since that
is what `strip`, `upper`, `lower` and `ILIKE` tell apart.

**Catalogue** is what the HTTP API and the five tools over stored reports read while the pipeline
commits (`Discover` to `Deploy`, the commits of Pipeline by report). Each query is one READ COMMITTED
statement and one step; `get_report` has two. The client keeps something it was told (`known`) and uses
it in a later request, as the descriptions of the tools invite it to do; it also reads `list_reports`
page by page. `answer` is what the last request returned.

**Service** is what the calls of one process share. A call is of a kind (a query, the URL of a PDF, a
question about a PDF, market data, account data, or the refresh of the scheduler), and each kind has a program:
the resources it awaits, in order. A statement takes a connection at the first use of its session and
keeps it until the session commits or is closed, or fails when the pool of fifteen stays empty for 30
seconds; MinIO and SSI are called through `asyncio.to_thread` on one executor; an SSI call first
waits for the lock of its client. `Cancel` may hit any wait: a queued job is dropped, a running thread
stays (`orphans`) although its lock is released. It abstracts what Pipeline and SsiClient model in
detail to the resources they occupy.

**PipelineProofs**, **PipelineOverlapProofs**, **SsiClientProofs**, **VietstockListingProofs**,
**SchedulerProofs**, **CatalogueProofs** and **ServiceProofs** hold the theorems, **SequenceLemmas** what
they need of `RemoveAt`. The modules **MC...** declare the model values of the runs and define what a
.cfg cannot write.

Faulty variants of single operators (for example `FailureLate`) stand beside them: replacing the
operator by its variant breaks the property named for it in PROJECT.json.

## Runs

| Run | Instance | Shows |
|---|---|---|
| pipeline_overlap | 2 workers, full runs beside a backfill of extractions, 3 reports, batches of 2, a PDF that changes, 2 tries, 1 fault | type invariant, `RowsCoherent`, `DuplicateHasOriginal`, `ExtractionMatches`, `LocksReleased`, `WorkedOnOnce`, `WaitsForListing`, `CopiesBounded`, `LifecycleSpec` |
| pipeline_alone | 1 worker, 3 reports under 2 types, two of them equal, batches of 2, 2 faults, fairness | `UniqueContent`: dedup works without overlap, across types and after failures; `DiscoveredSettles`: reports of types that an exception skipped settle too |
| pipeline_fair | the scheduler beside every other command line, 2 equal reports, batches of 1, 1 fault, fairness | `DiscoveredSettles`, `InvocationEnds` |
| third_copy | 1 worker, 3 equal reports, no fault, fairness | `DiscoveredSettles` fails: the third copy is rolled back for ever |
| dedup_race | 2 workers, 2 equal reports, no fault | `UniqueContent` fails: both are stored |
| run_row | 1 worker, 1 fault | `FailureLeavesRun` fails: no `crawl_runs` row |
| ssi_calls | 3 callers of one key, 1 cancellation, clock to 3, TTL 2 | `OneCallerInSdk`, `PromiseSpec`, `CallsEnd` |
| ssi_serialized | 2 callers, 1 cancellation | `Serialized` fails: the thread of the cancelled caller runs beside the next one |
| listing_moves | up to 10 reports, 3 pages of 3, 1 unreadable card, 1 withdrawal | `YieldedOnce`, `Complete`, `EventuallyKnown` |
| scheduler_ticks | 2 types, up to 3 reports waiting at each stage of each and 1 more to be listed, batches of 2, a timeout that the listings and one batch just fit, 2 failures | `UsesOpenEngine`, `NothingAfterStop`, `EachRunGains`, `BacklogSettles` |
| catalogue_reads | 2 reports, 3 listings, limits 1 and 2, 2 prompt versions | `SearchedOnce`, `DetailCoherent`, `DrillDown`, `ListedIsFound`, `MentionFound`, `PagesComplete`, `LifecycleSpec` |
| service_outage | 3 calls, 2 connections, 3 threads, the data client, 1 orphan | `ThreadsForReports`, `ConnectionsNeeded`, `NothingLost`, `OutageContained`, `EveryCallEnds` |

One passing run of each module also checks its type invariant.

Bounds: two workers produce every pair of racing steps and a waiting cycle; two reports suffice for a
duplicate and for a limit smaller than the queue; the third gives a batch of two beside the batch of
another worker, a copy of each worker beside a third report with the same PDF, and the ambiguous dedup
query. The command lines are split over two runs: pipeline_overlap has the full run and the backfill
`extract`, which works on rows another worker has left, pipeline_fair the full run beside all others.
`MaxRetries = 2` distinguishes a retry from the last one. `MaxFaults` bounds cancellations and unforeseen
exceptions; one is enough to leave an upload behind and meet it again, since the other worker continues.
In pipeline_alone no PDF stands under three reports: the third copy would be rolled back for ever, and
with it the types after it be skipped for ever (third_copy). An exception that returns at every tick
otherwise is outside its bound of two.

Three SSI callers are one whose thread is left behind, one that takes its place and one that waits; the
clock reaches the expiry of an entry stored at time 1. The listing has one report more than `max_pages`
reach, and grows by up to a page and more; `max_pages` ends a listing silently, so `Complete` and
`EventuallyKnown` speak of what is within its reach (`InReach`), and `Complete` of what is stored, or
could not be read.

In scheduler_ticks three reports at a stage need two runs, since a run takes one batch of two per type
and stage, and more if some are tried again. The listings of both types and one batch of the slowest
reports take exactly the timeout (`Fits`), so a run of slow listings and slow reports is cut off after
its first batch, in the next listing or in a later batch. `Fits` is a premise about the settings that
the code does not enforce: without it the timeout may roll the same batch back at every tick, and
`BacklogSettles` does not hold. `RunFails` stands for a run that raises or hangs before the timeout;
like the reports tried again it is bounded by `MaxFailures`.

In catalogue_reads two reports give ties,
a missing date, two analyses of one stock and a limit smaller than the result; two prompt versions are
what a second extraction would need. `discovered_at` is the start of a transaction, so a report may
appear below one that is already there: any unused number. Rows inserted by one transaction tie, and
tied rows come in any order each time; `PagesComplete` leaves them out, and the filter on the status,
which reports leave as they progress. Between extractions of one version `extracted_at` is left open.

In service_outage two connections are one that a question may keep while Gemini hangs and one that the
other two calls compete for. When the hung questions hold the whole pool (fifteen of them, in the code),
every query waits until the pool gives up; nothing in the code limits them, so that they leave a
connection is a premise of `OutageContained`. `PoolTimeout` is an action without fairness: the property
says that the other calls end although the pool need not give up.

Three threads are one inside the SDK, one left behind, one for the others: the smallest executor with
contention and yet `Clients + MaxOrphans < Threads`. That premise is tight: with two orphans TLC refutes
`OutageContained`, as the whole executor is inside the SDK. The code does not bound the orphans, since
nothing limits how many callers give up on a request that never returns; the property says what the
executor tolerates, not that it is never exceeded. Three calls are one inside a resource, one waiting
for it, and one that should not be in its way. One client suffices as both take the same steps, those of
the trading client up to twice in a call; the theorems hold for both.

Fairness of Pipeline (`FairSpec`): every worker that can take a step of its own eventually does, and the
scheduler ticks again: the event loop, PostgreSQL and MinIO make progress, and the client of the site
has a timeout. A worker that awaits Gemini (`AwaitsGemini`) need not go on, since the Gemini client has
no timeout and a command line has none either: `InvocationEnds` says of each invocation that it ends
unless it hangs there itself, whoever else hangs with a batch locked, and `DiscoveredSettles` has as
premise that none hangs for ever. (That the timeout of the scheduler cuts its own runs off is in
Scheduler.) Starting a command line is not fair, and nothing that goes wrong is. A waiting insert gets
strong fairness: PostgreSQL wakes it when the other transaction ends, and the other worker needs a whole
new invocation to be in its way again; under weak fairness a pair of workers could meet there for ever.

Fairness of SsiClient: the event loop resumes a coroutine that can run. Nothing is assumed of the
threads, as the SDK sets no timeout; `CallsEnd` has the return of the SDK as its premise. Fairness of
Scheduler: the task goes on (`WF(Loop)`), as a listing or a report is finished or cut off by the
timeout; failures, `Stop` and `Dispose` are not fair.

Fairness of VietstockListing: a request is answered or fails, and there always is a next tick; that an
answer is a success is not assumed, so `EventuallyKnown` has as premise that calls stop failing at some
time. Fairness of Service: the event loop resumes what can run, the executor starts what is submitted
when it has a thread, PostgreSQL and MinIO answer, and the timeout of the refresh fires. Who waits for a
connection gets strong fairness, since the pool serves its waiters in turn. Nothing is assumed of the SSI
SDK or of Gemini, nor that the pool gives up: `OutageContained` holds without their answers, and
`EveryCallEnds` names them in its premise.

## Proofs

Each module of theorems uses the named ASSUMEs of the module it is about, and nothing else: settings are
positive, Nil is not a value, `Workers` of Pipeline, `Reports` of Catalogue and `Calls` of Service are
finite, payloads and queries have the form that their schemas let through.

Pipeline: the inductive invariant `IInv` has three parts that need each other. `TypeOK`. `DBInv`: free
rows have no draft; a draft is at most one edge from its row; rows and drafts are coherent; objects exist
and match; and a content on record is kept by some row, both as committed and *as each transaction sees
it*. The last clause is what makes the duplicates inductive: the dedup query is answered from a
transaction's view, and a commit by one worker changes the view of all. `ControlInv`: rows waiting in a
batch are locked, untouched and unsettled; outside the stages a worker holds nothing.

`CommitDB`, `RollbackDB`, `ClaimDB` and `WriteDB` show that each way of using the database preserves
`DBInv`; `StepDB` and `StepControl` go through the actions. From `Invariance` follow `TypeCorrectness`,
`CoherentRows`, `Duplicates`, `ExtractionsMatch`, `Locks` and `Refinement`, for every number of
workers, reports, contents and retries.

What overlap can do and cannot is in PipelineOverlapProofs. `OneWorkerPerReport` (`WorkedOnOnce`) follows
from `IInv`: a batch is locked, and a row another worker has extracted is no longer claimed. `Waits`
(`WaitsForListing`) needs that a worker that has inserted a row is still in the stage that lists
(`ListingInv`). `CopyBound` bounds the copies of one PDF by the number of workers, although each of them
may miss the copies of all others; it rests on two facts. `OneEach`: a worker adds at most one copy,
since it sees its own. `Room`: the copies and the workers that may still add one (`Pending`: they are
uploading it, or have a copy that is not committed) are together no more than the workers, since a worker
becomes pending only while it sees no copy. dedup_race shows that two workers reach the bound; for one
worker the bound is `UniqueContent` (`SoleWorker`, under `Alone`), which pipeline_alone checks.

SsiClient: `QueueInv` (the waiters are distinct and waiting), `LockInv` (the holder is the one caller
that awaits a thread), `ClientInv` (without cancellations every thread has its caller, and only the
first builds), `AnswersInv` (the holder's entry has expired, and its request is younger than anything
delivered). The last one is needed because SSI is asked after one step has looked and before another one
stores: the answer that is stored was asked for a whole TTL after the one it replaces was stored. From it
follow `CacheSpaced`, `ReadsMonotone` and `Refinement` (`PromiseSpec`): a return from the SDK is one step of
AnswerCache, a hit another, a failure or a cancellation leaves nothing behind, and everything that happens
to locks and threads is a stutter. `Spaced` and `MonotoneReads` hold for AnswerCache itself, so no run
checks them beside `PromiseSpec`. `CallersAlone` and `ClientOnce` are about what the promise hides.

VietstockListing: while nothing is withdrawn, `StillInv` (the position of a report follows from the
number of those published after it) and `PagesInv` (all that stood on the pages read has been seen, and
nothing seen is further up than that); from them a page without new cards is past the oldest report,
for every page size and growth below it, and what has been seen is stored when the call ends well
(`Completeness`). `YieldsOnce` needs no such premise.

Scheduler: `ShutdownInv` ties the phases of the application to those of the task: while it is up nothing
is cancelled, afterwards the task that there is has been, and at the end it is over. From it follow
`EngineLast`, `LoopGoesOn` (only a stop ends the loop; the run shows the same through `BacklogSettles`)
and `QuietAfterStop`. `Gains` (`EachRunGains`) rests on `TimeInv`: until a run has committed a batch, its
time is at most that of the listings it has read, each type being listed once, and of the reports of the
batch it holds; so a cut-off would exceed what `Fits` grants. It holds for any set of types in any order,
any costs, batch size and timeout, and is what keeps `BacklogSettles` from losing the same work at every
tick.

Catalogue: `RowsInv` (a report has at most one extraction, exactly the extracted ones have one, and
those have their PDF) is kept by every commit, and every commit keeps what can be drilled into;
`ClientInv` and `AnswerInv` carry that to what a client holds and is told. Theorems `Once`, `Detail`,
`Drilling`, for any number of reports, versions, listings and queries. `FacetValues` and `Mentions`
rest on `FoundInv`: what a facet list has told is, after normalisation, the value of some extraction,
and extractions are never removed, so the comparison of a search finds it, whatever its case and white
space. `Pages` rests on `ReadInv`: the order of the listing is total on the reports that do not tie, the
number of rows above a report never falls, and so a report not seen yet stands at or behind the offset.
`Refinement` (`LifecycleSpec`) takes each commit to its edge of ReportLifecycle (`CommitLife`) and every
request of a client to a stutter; `KeyInv` supplies the object that a row beyond the download names.

Service: `StagesInv` (only calls to SSI and the store leave the event loop), `QueueInv` (who waits for a
lock needs it, once), `JobsInv`, and `LockInv` (past the lock, a call to SSI holds it until its thread is
done), which needs the other three because cancellation removes a call from all of them at once. Theorems
`Connections` (`ConnectionsNeeded`), `OneThreadEach` (`ThreadsForReports`, from the injection of the
threads inside the SDKs into the clients) and `NothingLeft` (`NothingLost`: a lock that is taken belongs
to a call still inside, and who waits stands in the queue it waits in, whatever was cancelled; `Placed`
says it of one call, and each step is shown to keep it for the call that moves and for all others), for
any pools and any number of calls.

Only model-checked: liveness, which is out of the prover's reach (`DiscoveredSettles`, `InvocationEnds`,
`CallsEnd`, `BacklogSettles`, `EventuallyKnown`, `OutageContained`, `EveryCallEnds`). Every safety
property of a passing run is a theorem.

## Not modelled

- How the object store client and the Gemini client build a request, the bucket's creation,
  counts, logging, the health check, texts of errors: none keeps state between calls.
- Parsing of HTML; prompts, and the fields of a schema that become no facet.
- The bearer token check, which is stateless.
- The renderer and the tables of the SSI tools, which are stateless functions of characters.
- The width of columns: a value longer than its column raises at `extractor.py:220`, outside what is
  caught per report. It is one of the exceptions `Raise` stands for, but not one that repeats itself.
- An error envelope of the SSI SDK is cached like any answer (`data_client.py:65`); no property tells
  them apart.
- A duplicate whose original later fails to be extracted is never extracted itself (`storage.py:103`);
  the code intends nothing else, so no property forbids it.
- The order of `mentioned_tickers`, on which no query depends, and `period`, which is copied.
- Starvation of old reports by an endless stream of new ones (the claim takes the newest first) is
  outside a finite set of reports.
- A search with `has_extraction=False` and a facet is answered with extracted reports, as in the code;
  nothing says what it should mean. Wildcards of `ILIKE` (`%`, `_`, the backslash) in a value are left
  out.

## Plan

1. done: Pipeline, ReportLifecycle and their theorems.
2. done: SsiClient and its theorems.
3. done: VietstockListing and its theorems.
4. done: Scheduler and its theorems.
5. done: Facets and Catalogue, with the theorems about what a client can rely on.
6. done: `UniqueContent` for one worker, facets, mentions and pages as theorems.
7. done: Service, the composition of the process, and its theorems; `EventuallyKnown` of the listing.
8. done: PipelineOverlapProofs; AnswerCache and the refinements of AnswerCache by SsiClient and of
   ReportLifecycle by Catalogue; `NothingLost`.
9. open: pages of three reports in catalogue_reads, if its state space allows (the theorem has no
   bound).
10. done: runs of one batch per type and stage in Scheduler, with `Gains`; Gemini and the pool's timeout
    as premises instead of fairness.
11. open: the width of columns in Pipeline, as a value that fails every batch it is in; with it, an
    exception that returns at every tick and starves the types after it.
