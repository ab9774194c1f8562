------------------------------ MODULE Pipeline ------------------------------
(***************************************************************************)
(* The reports pipeline: run_pipeline and the three stage services, run by *)
(* several workers at once (the in-process scheduler, and the command line *)
(* or a cron job) against one PostgreSQL database at READ COMMITTED and    *)
(* one object store.                                                       *)
(*                                                                         *)
(* A worker keeps one session for a whole invocation.  Its transaction is  *)
(* modelled by `owner` (the rows it has inserted or locked FOR UPDATE) and *)
(* `draft` (its uncommitted version of those rows); `rows` is what every   *)
(* other session sees.                                                     *)
(***************************************************************************)
EXTENDS Naturals, FiniteSets

CONSTANTS
    Workers,      \* invocations of run_pipeline that may overlap
    Scheduler,    \* the worker that is ReportsScheduler; the others are CLI or cron
    Reports,      \* what the sources list; one row each, by (source_id, external_id)
    Types,        \* the enabled (source, report type) pairs
    Contents,     \* PDF bodies, identified with their sha256
    Listed,       \* Listed[t]: the reports the source lists under type t
    Serves,       \* Serves[r]: the bodies the source may serve for r over time
    PublishedAt,  \* the date of each report; 0 is NULL
    Invocations,  \* the command lines used: stages and selected types
    MaxRetries,   \* settings.crawl_max_retries
    BatchSize,    \* settings.crawl_batch_size
    MaxFaults,    \* bound: cancellations and unforeseen exceptions in a behaviour
    Nil

Stages == {"discover", "download", "extract"}

\* stages_from_args: everything, --skip-extraction, or --only one stage.
StageSets == {Stages, {"discover", "download"}} \cup {{s} : s \in Stages}

ASSUME WorkersAssumption ==
    Scheduler \in Workers /\ Nil \notin Workers /\ IsFiniteSet(Workers)
ASSUME DataAssumption == Nil \notin Contents /\ Nil \notin Types /\ Nil \notin Reports
ASSUME SourceAssumption ==
    /\ Listed \in [Types -> SUBSET Reports]
    /\ Serves \in [Reports -> SUBSET Contents]
    /\ PublishedAt \in [Reports -> Nat]
ASSUME SettingsAssumption ==
    /\ MaxRetries \in Nat \ {0}
    /\ BatchSize \in Nat \ {0}
    /\ MaxFaults \in Nat
ASSUME InvocationsAssumption ==
    Invocations \subseteq [stages : StageSets, types : SUBSET Types]

VARIABLES
    rows,         \* reports (and report_extractions), as committed
    draft,        \* the same rows as their owner's transaction sees them
    owner,        \* the worker whose transaction inserted or locked the row
    objects,      \* the object store; the key is a function of the row
    late,         \* uploads whose caller is gone and that may still land
    overwritten,  \* objects last written by such an upload
    run,          \* the crawl_runs row of the worker's current _run_one
    pc, stages, todo, rtype, batch, report, body,   \* control state of a worker
    faults        \* cancellations and unforeseen exceptions so far

db == <<rows, draft, owner>>
store == <<objects, late, overwritten>>
local == <<stages, todo, rtype>>
item == <<report, body>>
vars == <<rows, draft, owner, objects, late, overwritten, run, pc, stages, todo,
          rtype, batch, report, body, faults>>

-----------------------------------------------------------------------------
(* Rows *)

Statuses == {"absent", "discovered", "downloaded", "duplicate", "extracted", "failed"}

\* stored: pdf_object_key is set.  digest: the content the row of
\* report_extractions was made from, Nil while there is none.
Row == [status : Statuses, type : Types \cup {Nil}, retry : 0..MaxRetries,
        stored : BOOLEAN, sha : Contents \cup {Nil}, digest : Contents \cup {Nil}]

Absent == [status |-> "absent", type |-> Nil, retry |-> 0,
           stored |-> FALSE, sha |-> Nil, digest |-> Nil]

Discovered(t) == [Absent EXCEPT !.status = "discovered", !.type = t]

Downloaded(x, c) == [x EXCEPT !.status = "downloaded", !.stored = TRUE, !.sha = c]

Duplicate(x, c) == [x EXCEPT !.status = "duplicate", !.sha = c]

\* ON CONFLICT (report_id, prompt_version) DO NOTHING keeps an extraction.
Extracted(x, c) == [x EXCEPT !.status = "extracted",
                             !.digest = IF x.digest = Nil THEN c ELSE x.digest]

\* Faulty variants of Failure: one attempt more than allowed; a status that no
\* query knows, which the column (a plain string) would accept.
FailureLate(x) == [x EXCEPT !.retry = x.retry + 1,
                            !.status = IF x.retry + 1 > MaxRetries THEN "failed" ELSE x.status]
FailureMisnamed(x) == [x EXCEPT !.retry = x.retry + 1,
                                !.status = IF x.retry + 1 >= MaxRetries THEN "error" ELSE x.status]

\* _mark_failure of both services.
Failure(x) == [x EXCEPT !.retry = x.retry + 1,
                        !.status = IF x.retry + 1 >= MaxRetries THEN "failed" ELSE x.status]

\* READ COMMITTED: a transaction sees its own writes and what is committed.
View(w, r) == IF owner[r] = w THEN draft[r] ELSE rows[r]

Owned(w) == {r \in Reports : owner[r] = w}

Release(w) == owner' = [r \in Reports |-> IF owner[r] = w THEN Nil ELSE owner[r]]

Commit(w, status) ==
    /\ rows' = [r \in Reports |-> View(w, r)]
    /\ Release(w)
    /\ run' = [run EXCEPT ![w] = [row |-> status, tx |-> status]]
    /\ UNCHANGED draft

Rollback(w) ==
    /\ draft' = [r \in Reports |-> IF owner[r] = w THEN rows[r] ELSE draft[r]]
    /\ Release(w)
    /\ UNCHANGED rows

Write(r, x) == draft' = [draft EXCEPT ![r] = x] /\ UNCHANGED <<rows, owner>>

-----------------------------------------------------------------------------
(* Control of one invocation *)

InRunOne == {"discover", "insert", "download", "fetch", "put", "extract", "ai", "finish"}

Goto(w, label) == pc' = [pc EXCEPT ![w] = label]

FirstOf(S) ==
    IF "discover" \in S THEN "discover" ELSE IF "download" \in S THEN "download" ELSE "extract"

AfterDiscover(S) ==
    IF "download" \in S THEN "download" ELSE IF "extract" \in S THEN "extract" ELSE "finish"

AfterDownload(S) == IF "extract" \in S THEN "extract" ELSE "finish"

NoRun == [row |-> "none", tx |-> "none"]

FullInvocation == [stages |-> Stages, types |-> Types]

Init ==
    /\ rows = [r \in Reports |-> Absent]
    /\ draft = rows
    /\ owner = [r \in Reports |-> Nil]
    /\ objects = [r \in Reports |-> Nil]
    /\ late = {}
    /\ overwritten = {}
    /\ run = [w \in Workers |-> NoRun]
    /\ pc = [w \in Workers |-> "idle"]
    /\ stages = [w \in Workers |-> {}]
    /\ todo = [w \in Workers |-> {}]
    /\ rtype = [w \in Workers |-> Nil]
    /\ batch = [w \in Workers |-> {}]
    /\ report = [w \in Workers |-> Nil]
    /\ body = [w \in Workers |-> Nil]
    /\ faults = 0

\* The local variables of an invocation die with it.
Leave(w, label) ==
    /\ Goto(w, label)
    /\ stages' = [stages EXCEPT ![w] = {}]
    /\ todo' = [todo EXCEPT ![w] = {}]
    /\ rtype' = [rtype EXCEPT ![w] = Nil]
    /\ batch' = [batch EXCEPT ![w] = {}]
    /\ report' = [report EXCEPT ![w] = Nil]
    /\ body' = [body EXCEPT ![w] = Nil]

\* The scheduler's tick, or a command line.
StartPipeline(w) ==
    /\ pc[w] = "idle"
    /\ \E i \in IF w = Scheduler THEN {FullInvocation} ELSE Invocations :
          /\ stages' = [stages EXCEPT ![w] = i.stages]
          /\ todo' = [todo EXCEPT ![w] = i.types]
    /\ Goto(w, "select")
    /\ UNCHANGED <<db, store, run, rtype, batch, item, faults>>

\* The loop of run_pipeline takes the types in the order the database returned
\* them; _run_one adds its crawl_runs row and flushes it, uncommitted.
RunOne(w) ==
    /\ pc[w] = "select"
    /\ \E t \in todo[w] :
          /\ todo' = [todo EXCEPT ![w] = @ \ {t}]
          /\ rtype' = [rtype EXCEPT ![w] = t]
    /\ run' = [run EXCEPT ![w] = [row |-> "none", tx |-> "running"]]
    /\ Goto(w, FirstOf(stages[w]))
    /\ UNCHANGED <<db, store, stages, batch, item, faults>>

EndPipeline(w) ==
    /\ pc[w] = "select"
    /\ todo[w] = {}
    /\ run' = [run EXCEPT ![w] = NoRun]
    /\ Leave(w, "idle")
    /\ UNCHANGED <<db, store, faults>>

FinishRun(w) ==
    /\ pc[w] = "finish"
    /\ Commit(w, "success")
    /\ Goto(w, "select")
    /\ UNCHANGED <<store, local, batch, item, faults>>

-----------------------------------------------------------------------------
(* Stage 1: discover *)

\* The crawler yields a report.  Yielding one whose row exists changes nothing.
DiscoverYield(w) ==
    /\ pc[w] = "discover"
    /\ \E r \in Listed[rtype[w]] :
          /\ View(w, r).status = "absent"
          /\ report' = [report EXCEPT ![w] = r]
    /\ Goto(w, "insert")
    /\ UNCHANGED <<db, store, run, local, batch, body, faults>>

\* INSERT ... ON CONFLICT DO NOTHING waits for another transaction that has
\* inserted the same key to end.
WaitsFor(w, v) == pc[w] = "insert" /\ v # w /\ owner[report[w]] = v /\ rows[report[w]].status = "absent"

\* Faulty variant: ON CONFLICT DO UPDATE, which starts the report over.
UpsertOverwrites(w) ==
    /\ pc[w] = "insert"
    /\ \A v \in Workers : ~WaitsFor(w, v)
    /\ owner[report[w]] \in {Nil, w}
    /\ draft' = [draft EXCEPT ![report[w]] = Discovered(rtype[w])]
    /\ owner' = [owner EXCEPT ![report[w]] = w]
    /\ report' = [report EXCEPT ![w] = Nil]
    /\ Goto(w, "discover")
    /\ UNCHANGED <<rows, store, run, local, batch, body, faults>>

Upsert(w) ==
    /\ pc[w] = "insert"
    /\ \A v \in Workers : ~WaitsFor(w, v)
    /\ LET r == report[w]
       IN  \/ /\ rows[r].status = "absent"
              /\ draft' = [draft EXCEPT ![r] = Discovered(rtype[w])]
              /\ owner' = [owner EXCEPT ![r] = w]
           \/ /\ rows[r].status # "absent"
              /\ UNCHANGED <<draft, owner>>
    /\ report' = [report EXCEPT ![w] = Nil]
    /\ Goto(w, "discover")
    /\ UNCHANGED <<rows, store, run, local, batch, body, faults>>

\* Faulty variant: the inserts are flushed and left to the next commit.
DiscoverDoneUncommitted(w) ==
    /\ pc[w] = "discover"
    /\ Goto(w, AfterDiscover(stages[w]))
    /\ UNCHANGED <<db, store, run, local, batch, item, faults>>

\* The listing ends: complete, or cut short by max_pages or a page without
\* new cards.
DiscoverDone(w) ==
    /\ pc[w] = "discover"
    /\ Commit(w, "running")
    /\ Goto(w, AfterDiscover(stages[w]))
    /\ UNCHANGED <<store, local, batch, item, faults>>

-----------------------------------------------------------------------------
(* Claiming a batch: SELECT ... LIMIT n FOR UPDATE SKIP LOCKED *)

\* Faulty variant: a plain SELECT, without FOR UPDATE.
ClaimableUnlocked(w, status) ==
    {r \in Reports : /\ rows[r].status = status
                     /\ rows[r].type = rtype[w]
                     /\ rows[r].retry < MaxRetries}

Claimable(w, status) ==
    {r \in Reports : /\ owner[r] = Nil
                     /\ rows[r].status = status
                     /\ rows[r].type = rtype[w]
                     /\ rows[r].retry < MaxRetries}

Limited(B, C) ==
    /\ B \subseteq C
    /\ Cardinality(B) = IF Cardinality(C) < BatchSize THEN Cardinality(C) ELSE BatchSize

\* ORDER BY published_at DESC NULLS LAST.
NewestFirst(B, C) == \A r \in B : \A q \in C \ B : PublishedAt[r] >= PublishedAt[q]

\* An empty batch returns at once, without a commit.
Claim(w, B, full, empty) ==
    /\ owner' = [r \in Reports |-> IF r \in B THEN w ELSE owner[r]]
    /\ batch' = [batch EXCEPT ![w] = B]
    /\ Goto(w, IF B = {} THEN empty ELSE full)
    /\ UNCHANGED <<rows, draft, store, run, local, item, faults>>

ClaimDownload(w) ==
    /\ pc[w] = "download"
    /\ \E B \in SUBSET Claimable(w, "discovered") :
          /\ Limited(B, Claimable(w, "discovered"))
          /\ NewestFirst(B, Claimable(w, "discovered"))
          /\ Claim(w, B, "fetch", AfterDownload(stages[w]))

ClaimExtract(w) ==
    /\ pc[w] = "extract"
    /\ \E B \in SUBSET Claimable(w, "downloaded") :
          /\ Limited(B, Claimable(w, "downloaded"))
          /\ Claim(w, B, "ai", "finish")

-----------------------------------------------------------------------------
(* An exception that no stage catches *)

\* The upload runs in a thread that nobody can cancel.
LeaveUpload(w) ==
    \/ UNCHANGED store
    \/ /\ pc[w] = "put"
       /\ late' = late \cup {<<report[w], body[w]>>}
       /\ UNCHANGED <<objects, overwritten>>

\* The handler of _run_one.  Its bookkeeping never takes effect: the rollback
\* either removed the crawl_runs row, so the UPDATE matches nothing, or
\* expired `run`, so reading run.id raises before the UPDATE is sent.
HandleException(w) ==
    /\ Rollback(w)
    /\ run' = [run EXCEPT ![w].tx = run[w].row]
    /\ Leave(w, "failed")

\* Faulty variant: the scheduler's task dies of the exception.
PropagateUncaught(w) ==
    /\ pc[w] = "failed"
    /\ w # Scheduler
    /\ Goto(w, "idle")
    /\ run' = [run EXCEPT ![w] = NoRun]
    /\ UNCHANGED <<db, store, local, batch, item, faults>>

\* The exception leaves run_pipeline: the scheduler logs it, the CLI exits.
Propagate(w) ==
    /\ pc[w] = "failed"
    /\ Goto(w, "idle")
    /\ run' = [run EXCEPT ![w] = NoRun]
    /\ UNCHANGED <<db, store, local, batch, item, faults>>

-----------------------------------------------------------------------------
(* Stage 2: download *)

IsNext(w, r) == r \in batch[w] /\ \A q \in batch[w] : PublishedAt[r] >= PublishedAt[q]

Processed(w, r) == batch' = [batch EXCEPT ![w] = @ \ {r}]

\* Faulty variants: the query misses what this session has not committed, or
\* sees what other sessions have not.
SameContentCommitted(w, r, c) == {q \in Reports \ {r} : rows[q].sha = c}
SameContentDirty(w, r, c) == {q \in Reports \ {r} : draft[q].sha = c}

\* The rows that the dedup query returns.
SameContent(w, r, c) == {q \in Reports \ {r} : View(w, q).sha = c}

FetchNew(w) ==
    /\ pc[w] = "fetch"
    /\ \E r \in batch[w] : \E c \in Serves[r] :
          /\ IsNext(w, r)
          /\ SameContent(w, r, c) = {}
          /\ report' = [report EXCEPT ![w] = r]
          /\ body' = [body EXCEPT ![w] = c]
    /\ Goto(w, "put")
    /\ UNCHANGED <<db, store, run, local, batch, faults>>

FetchDuplicate(w) ==
    /\ pc[w] = "fetch"
    /\ \E r \in batch[w] : \E c \in Serves[r] :
          /\ IsNext(w, r)
          /\ \E q \in Reports : SameContent(w, r, c) = {q}
          /\ Write(r, Duplicate(draft[r], c))
          /\ Processed(w, r)
    /\ UNCHANGED <<store, run, pc, local, item, faults>>

\* scalar_one_or_none raises MultipleResultsFound, which process_pending does
\* not catch.
FetchAmbiguous(w) ==
    /\ pc[w] = "fetch"
    /\ \E r \in batch[w] : \E c \in Serves[r] :
          /\ IsNext(w, r)
          /\ \E p, q \in SameContent(w, r, c) : p # q
    /\ HandleException(w)
    /\ UNCHANGED <<store, faults>>

\* CrawlerError.
FetchFails(w) ==
    /\ pc[w] = "fetch"
    /\ \E r \in batch[w] : /\ IsNext(w, r)
                           /\ Write(r, Failure(draft[r]))
                           /\ Processed(w, r)
    /\ UNCHANGED <<store, run, pc, local, item, faults>>

EndPut(w) ==
    /\ Processed(w, report[w])
    /\ report' = [report EXCEPT ![w] = Nil]
    /\ body' = [body EXCEPT ![w] = Nil]
    /\ Goto(w, "fetch")

PutObject(w) ==
    /\ pc[w] = "put"
    /\ objects' = [objects EXCEPT ![report[w]] = body[w]]
    /\ overwritten' = overwritten \ {report[w]}
    /\ Write(report[w], Downloaded(draft[report[w]], body[w]))
    /\ EndPut(w)
    /\ UNCHANGED <<late, run, local, faults>>

\* Faulty variant: the StorageError is ignored.
PutFailsIgnored(w) ==
    /\ pc[w] = "put"
    /\ Write(report[w], Downloaded(draft[report[w]], body[w]))
    /\ EndPut(w)
    /\ UNCHANGED <<store, run, local, faults>>

\* StorageError.
PutFails(w) ==
    /\ pc[w] = "put"
    /\ Write(report[w], Failure(draft[report[w]]))
    /\ EndPut(w)
    /\ UNCHANGED <<store, run, local, faults>>

\* Faulty variant: the batch ends without a commit.
DownloadDoneUncommitted(w) ==
    /\ pc[w] = "fetch"
    /\ batch[w] = {}
    /\ Goto(w, AfterDownload(stages[w]))
    /\ UNCHANGED <<db, store, run, local, batch, item, faults>>

DownloadDone(w) ==
    /\ pc[w] = "fetch"
    /\ batch[w] = {}
    /\ Commit(w, "running")
    /\ Goto(w, AfterDownload(stages[w]))
    /\ UNCHANGED <<store, local, batch, item, faults>>

-----------------------------------------------------------------------------
(* Stage 3: extract *)

Extract(w) ==
    /\ pc[w] = "ai"
    /\ \E r \in batch[w] :
          /\ draft[r].stored
          /\ objects[r] # Nil
          /\ Write(r, Extracted(draft[r], objects[r]))
          /\ Processed(w, r)
    /\ UNCHANGED <<store, run, pc, local, item, faults>>

\* LLMError, StorageError or ExtractionError.
ExtractFails(w) ==
    /\ pc[w] = "ai"
    /\ \E r \in batch[w] : Write(r, Failure(draft[r])) /\ Processed(w, r)
    /\ UNCHANGED <<store, run, pc, local, item, faults>>

ExtractDone(w) ==
    /\ pc[w] = "ai"
    /\ batch[w] = {}
    /\ Commit(w, "running")
    /\ Goto(w, "finish")
    /\ UNCHANGED <<store, local, batch, item, faults>>

-----------------------------------------------------------------------------
(* The environment *)

\* An exception outside what the stages catch: a CrawlerError while listing, a
\* database error, a connection error that MinIO does not wrap.
Raise(w) ==
    /\ pc[w] \in InRunOne
    /\ faults < MaxFaults
    /\ faults' = faults + 1
    /\ LeaveUpload(w)
    /\ HandleException(w)

\* The scheduler's timeout, stop() or the end of the process.  CancelledError
\* is not an Exception: the handler of _run_one does not run.
Cancel(w) ==
    /\ pc[w] \in InRunOne
    /\ faults < MaxFaults
    /\ faults' = faults + 1
    /\ LeaveUpload(w)
    /\ Rollback(w)
    /\ run' = [run EXCEPT ![w] = NoRun]
    /\ Leave(w, "idle")

\* PostgreSQL's deadlock detector aborts a transaction on a waiting cycle.
BreakDeadlock(w) ==
    /\ \E S \in SUBSET Workers :
          /\ w \in S
          /\ \A x \in S : (\E y \in S : WaitsFor(x, y)) /\ (\E y \in S : WaitsFor(y, x))
    /\ HandleException(w)
    /\ UNCHANGED <<store, faults>>

LandLate ==
    /\ \E u \in late : /\ objects' = [objects EXCEPT ![u[1]] = u[2]]
                       /\ overwritten' = overwritten \cup {u[1]}
                       /\ late' = late \ {u}
    /\ UNCHANGED <<db, run, pc, local, batch, item, faults>>

Discover(w) == DiscoverYield(w) \/ Upsert(w) \/ DiscoverDone(w)

Download(w) ==
    \/ ClaimDownload(w) \/ FetchNew(w) \/ FetchDuplicate(w) \/ FetchAmbiguous(w)
    \/ FetchFails(w) \/ PutObject(w) \/ PutFails(w) \/ DownloadDone(w)

ExtractStage(w) == ClaimExtract(w) \/ Extract(w) \/ ExtractFails(w) \/ ExtractDone(w)

\* What a worker does by itself once it is running.
Step(w) ==
    \/ RunOne(w) \/ EndPipeline(w) \/ FinishRun(w) \/ Propagate(w) \/ BreakDeadlock(w)
    \/ Discover(w) \/ Download(w) \/ ExtractStage(w)

Next ==
    \/ \E w \in Workers : StartPipeline(w) \/ Step(w) \/ Raise(w) \/ Cancel(w)
    \/ LandLate

Spec == Init /\ [][Next]_vars

\* A request to Gemini, which sets no timeout, is awaited with the batch locked.
AwaitsGemini(w) == pc[w] = "ai" /\ batch[w] # {}

\* The event loop runs every ready task and the scheduler always ticks again;
\* PostgreSQL, MinIO and the site (a client with a timeout) answer.  Nothing is
\* assumed of Gemini, nobody has to call the command line, and nothing has to go
\* wrong.  A waiting insert is woken when the other transaction ends, and that worker
\* needs a new invocation to get in its way again: strong fairness.
FairSpec ==
    /\ Spec
    /\ \A w \in Workers : WF_vars(~AwaitsGemini(w) /\ Step(w)) /\ SF_vars(Upsert(w))
    /\ WF_vars(StartPipeline(Scheduler))
-----------------------------------------------------------------------------
(* Properties *)

\* Every variable keeps its type.
TypeOK ==
    /\ rows \in [Reports -> Row]
    /\ draft \in [Reports -> Row]
    /\ owner \in [Reports -> Workers \cup {Nil}]
    /\ objects \in [Reports -> Contents \cup {Nil}]
    /\ late \subseteq Reports \X Contents
    /\ overwritten \subseteq Reports
    /\ run \in [Workers -> [row : {"none", "running", "success"},
                            tx : {"none", "running", "success"}]]
    /\ pc \in [Workers -> InRunOne \cup {"idle", "select", "failed"}]
    /\ stages \in [Workers -> SUBSET Stages]
    /\ todo \in [Workers -> SUBSET Types]
    /\ rtype \in [Workers -> Types \cup {Nil}]
    /\ batch \in [Workers -> SUBSET Reports]
    /\ report \in [Workers -> Reports \cup {Nil}]
    /\ body \in [Workers -> Contents \cup {Nil}]
    /\ faults \in 0..MaxFaults

\* The columns of a row agree with its status: an object key is set exactly
\* when the PDF was stored, an extraction exists exactly for an extracted
\* report, and only a failed report has used up its retries.
Coherent(x) ==
    /\ x.status = "absent" \/ x.type = Nil => x = Absent
    /\ x.status \in {"absent", "discovered", "duplicate"} => ~x.stored
    /\ x.status \in {"downloaded", "extracted"} => x.stored
    /\ x.stored \/ x.status = "duplicate" <=> x.sha # Nil
    /\ x.status = "extracted" <=> x.digest # Nil
    /\ x.status = "failed" <=> x.retry = MaxRetries

\* Whatever is committed or rolled back, and wherever a worker is stopped, the
\* committed rows are coherent and a key in pdf_object_key names an object
\* that exists, with the content whose sha256 is recorded, unless an upload left
\* behind has replaced it: the upload comes before the row, in another system.
RowsCoherent ==
    \A r \in Reports :
        /\ Coherent(rows[r])
        /\ rows[r].stored =>
               objects[r] # Nil /\ (objects[r] = rows[r].sha \/ r \in overwritten)

\* A report marked duplicate skips extraction; its content is kept by another
\* report, and by one that is committed with it.  The dedup query matches
\* duplicates too, and sees the transaction's own uncommitted rows.
DuplicateHasOriginal ==
    \A r \in Reports : rows[r].status = "duplicate" =>
        \E q \in Reports : rows[q].stored /\ rows[q].sha = rows[r].sha

\* An extraction was made from the PDF whose sha256 the row records, unless an
\* upload left behind by a cancelled worker has replaced the object since.
ExtractionMatches ==
    \A r \in Reports :
        rows[r].digest \in {Nil, rows[r].sha} \/ r \in overwritten

\* A transaction that is over holds no rows: each way out of a batch, the
\* empty batch that returns without a commit too, releases what was locked.
LocksReleased ==
    \A w \in Workers :
        pc[w] \in {"idle", "select", "download", "extract", "finish", "failed"} =>
            Owned(w) = {}

\* Two invocations never work on one report at the same time, and nobody pays for
\* an extraction that is on record: claimed rows are locked until the commit.
WorkedOnOnce ==
    \A w \in Workers : \A r \in batch[w] :
        /\ \A v \in Workers \ {w} : r \notin batch[v]
        /\ pc[w] = "ai" => rows[r].digest = Nil

\* An insert waits at most for the listing of another invocation to end, never
\* for its downloads, for Gemini, or for one that is over: each stage commits.
WaitsForListing ==
    \A w, v \in Workers : WaitsFor(w, v) => pc[v] \in {"discover", "insert"}

\* Each committed step moves each report along its life cycle.
Lifecycle == INSTANCE ReportLifecycle WITH life <- rows
LifecycleSpec == Lifecycle!Spec

\* The same PDF is stored once: the dedup check of _download_one.
UniqueContent ==
    \A p, q \in Reports : rows[p].stored /\ rows[q].stored /\ rows[p].sha = rows[q].sha => p = q

\* Overlapping invocations may each store a PDF that the others have not committed
\* yet, but no invocation stores one that it can see: there are at most as many
\* copies as workers, and one worker alone stores a PDF once.
Copies(c) == {r \in Reports : rows[r].stored /\ rows[r].sha = c}
CopiesBounded == \A c \in Contents : Cardinality(Copies(c)) <= Cardinality(Workers)

\* If no invocation hangs in Gemini, a report that has been discovered is eventually
\* a duplicate, extracted or failed for good: retries are counted and the scheduler
\* comes back.
GeminiAnswers(w) == []<>~AwaitsGemini(w)
DiscoveredSettles ==
    (\A w \in Workers : GeminiAnswers(w)) =>
        \A r \in Reports : rows[r].status = "discovered" ~> rows[r].status \in Lifecycle!Settled

\* Every invocation that does not itself hang in Gemini ends, beside others that hang
\* there with their batch locked, and also one that waits for the insert of the same
\* report in another transaction, or that is on a cycle of such waits.
InvocationEnds == \A w \in Workers : GeminiAnswers(w) => (pc[w] # "idle" ~> pc[w] = "idle")

\* jobs.py: "A single CrawlRun row is inserted per (source, type) per
\* invocation": an invocation that fails leaves its row behind.
FailureLeavesRun == \A w \in Workers : pc[w] = "failed" => run[w].row # "none"
=============================================================================
