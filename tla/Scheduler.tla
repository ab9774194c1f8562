----------------------------- MODULE Scheduler ------------------------------
(***************************************************************************)
(* ReportsScheduler inside the lifespan of the application: one task that  *)
(* sleeps, runs the pipeline under a timeout, and is stopped before the    *)
(* database engine is disposed.  Of the pipeline it keeps what the timeout *)
(* meets: the types of a run one after the other, a listing and one batch  *)
(* per stage for each, committed as a whole, and the time all that takes.  *)
(***************************************************************************)
EXTENDS Naturals, FiniteSets

CONSTANTS
    Types,        \* the enabled (source, report type) pairs
    Backlog,      \* bound: reports that wait at a stage when the application starts
    Published,    \* bound: reports that listings show afterwards
    BatchSize,    \* settings.crawl_batch_size
    MaxListing,   \* the longest a listing may take
    MaxCost,      \* the longest a report may take at a stage
    Timeout,      \* settings.refresh_timeout_seconds
    MaxFailures   \* bound: runs that raise or hang, and reports tried again

ASSUME SchedulerAssumption ==
    /\ IsFiniteSet(Types)
    /\ {Backlog, Published, MaxListing, Timeout, MaxFailures} \subseteq Nat
    /\ BatchSize \in Nat \ {0} /\ MaxCost \in Nat \ {0}

VARIABLES
    app,       \* up, stopping (in the finally of lifespan) or disposed
    loop,      \* none (disabled), created, sleeping, running, unwinding, ended
    stop,      \* the event self._stop
    cancel,    \* self._task.cancel() was called
    todo,      \* types this run has not come to
    type,      \* the type it is at
    stage,     \* select (between two types), discover, download or extract
    waiting,   \* reports of each type that wait for each stage, as committed
    held,      \* reports of the current batch processed and not committed
    gained,    \* this run has committed a batch
    elapsed,   \* time since wait_for began
    unlisted,  \* reports that no listing has shown yet
    failures

work == <<waiting, held, gained, unlisted>>
place == <<todo, type, stage>>
vars == <<app, loop, stop, cancel, place, work, elapsed, failures>>

Batches == {"download", "extract"}

\* refresh_interval_hours <= 0 disables the task.
Init ==
    /\ app = "up"
    /\ loop \in {"none", "created"}
    /\ stop = FALSE
    /\ cancel = FALSE
    /\ todo = {}
    /\ type \in Types
    /\ stage = "select"
    /\ waiting \in [Types -> [Batches -> 0..Backlog]]
    /\ held = 0
    /\ gained = FALSE
    /\ elapsed = 0
    /\ unlisted = Published
    /\ failures = 0

-----------------------------------------------------------------------------
(* The task: _loop and _run_once *)

\* The loop begins with a run (refresh_on_startup) or with a sleep, and runs
\* again when wait_for(stop.wait()) has timed out.
Tick ==
    /\ loop \in {"created", "sleeping"}
    /\ ~stop /\ ~cancel
    /\ loop' = "running"
    /\ todo' = Types
    /\ stage' = "select"
    /\ elapsed' = 0
    /\ gained' = FALSE
    /\ UNCHANGED <<app, stop, cancel, type, waiting, held, unlisted, failures>>

FirstSleep ==
    /\ loop = "created"
    /\ ~stop /\ ~cancel
    /\ loop' = "sleeping"
    /\ UNCHANGED <<app, stop, cancel, place, work, elapsed, failures>>

InRun(s) == loop = "running" /\ ~cancel /\ stage = s

\* The types come in the order of the database, which is a different one each time.
NextType ==
    /\ InRun("select")
    /\ type' \in todo
    /\ todo' = todo \ {type'}
    /\ stage' = "discover"
    /\ UNCHANGED <<app, loop, stop, cancel, work, elapsed, failures>>

Takes(longest, least) ==
    \E cost \in least..longest :
        /\ elapsed + cost <= Timeout
        /\ elapsed' = elapsed + cost

\* The listing of one type is stored in one transaction.
Discover ==
    /\ InRun("discover")
    /\ Takes(MaxListing, 0)
    /\ \E new \in 0..unlisted :
        /\ waiting' = [waiting EXCEPT ![type].download = @ + new]
        /\ unlisted' = unlisted - new
    /\ stage' = "download"
    /\ UNCHANGED <<app, loop, stop, cancel, todo, type, held, gained, failures>>

\* Faulty: the claim has no limit.
BatchUnlimited == waiting[type][stage]

\* One claim for each type and stage of a run.
Batch ==
    IF waiting[type][stage] < BatchSize THEN waiting[type][stage] ELSE BatchSize

\* One report of the batch, in the time that is left.
Process ==
    /\ \E s \in Batches : InRun(s)
    /\ held < Batch
    /\ Takes(MaxCost, 1)
    /\ held' = held + 1
    /\ UNCHANGED <<app, loop, stop, cancel, place, waiting, gained, unlisted, failures>>

\* Of a batch some reports may be tried again, which the retries bound; of those
\* downloaded some go on to their extraction, all others have settled.
Outcome ==
    \E again \in 0..held :
        /\ failures' = failures + again /\ failures' <= MaxFailures
        /\ IF stage = "extract"
           THEN waiting' = [waiting EXCEPT ![type].extract = @ - (held - again)]
           ELSE \E on \in 0..(held - again) :
                    waiting' = [waiting EXCEPT ![type].download = @ - (held - again),
                                               ![type].extract = @ + on]

StageDone == stage' = IF stage = "download" THEN "extract" ELSE "select"

\* Faulty: the next stage begins with the reports of the last one.
CommitAgain ==
    /\ \E s \in Batches : InRun(s)
    /\ held = Batch
    /\ Outcome
    /\ gained' = (gained \/ held > 0)
    /\ StageDone
    /\ UNCHANGED <<app, loop, stop, cancel, todo, type, held, elapsed, unlisted>>

\* The batch is committed, and the run goes on to the next stage, whatever still waits.
CommitBatch ==
    /\ \E s \in Batches : InRun(s)
    /\ held = Batch
    /\ Outcome
    /\ held' = 0
    /\ gained' = (gained \/ held > 0)
    /\ StageDone
    /\ UNCHANGED <<app, loop, stop, cancel, todo, type, elapsed, unlisted>>

RunDone ==
    /\ InRun("select")
    /\ todo = {}
    /\ loop' = "sleeping"
    /\ UNCHANGED <<app, stop, cancel, place, work, elapsed, failures>>

\* wait_for cancels run_pipeline in a listing or in a batch, and waits until it has
\* unwound.
RunTimesOut ==
    /\ \/ InRun("discover") /\ elapsed + MaxListing > Timeout
       \/ /\ \E s \in Batches : InRun(s)
          /\ held < Batch
          /\ elapsed + MaxCost > Timeout
    /\ loop' = "unwinding"
    /\ UNCHANGED <<app, stop, cancel, place, work, elapsed, failures>>

\* An exception leaves run_pipeline, or something it waits for (Gemini sets no timeout)
\* hangs until wait_for cancels it.
RunFails ==
    /\ loop = "running"
    /\ ~cancel
    /\ failures < MaxFailures
    /\ loop' = "unwinding"
    /\ failures' = failures + 1
    /\ UNCHANGED <<app, stop, cancel, place, work, elapsed>>

\* The cancellation reaches the task at its await.
Cancelled ==
    /\ cancel
    /\ loop \in {"created", "sleeping", "running"}
    /\ loop' = IF loop = "running" THEN "unwinding" ELSE "ended"
    /\ UNCHANGED <<app, stop, cancel, place, work, elapsed, failures>>

\* Faulty: a timeout or an exception leaves _run_once, and ends the task.
UnwoundUncaught ==
    /\ loop = "unwinding"
    /\ held' = 0
    /\ loop' = "ended"
    /\ UNCHANGED <<app, stop, cancel, place, waiting, gained, elapsed, unlisted, failures>>

\* The session is rolled back and closed.  TimeoutError and Exception stop in
\* _run_once, CancelledError does not.
Unwound ==
    /\ loop = "unwinding"
    /\ held' = 0
    /\ loop' = IF cancel THEN "ended" ELSE "sleeping"
    /\ UNCHANGED <<app, stop, cancel, place, waiting, gained, elapsed, unlisted, failures>>

\* The event alone ends the loop too, before its next run.
Stopped ==
    /\ loop = "sleeping"
    /\ stop
    /\ loop' = "ended"
    /\ UNCHANGED <<app, stop, cancel, place, work, elapsed, failures>>

-----------------------------------------------------------------------------
(* The application: lifespan *)

\* Faulty: stop() only sets the event.
StopGently ==
    /\ app = "up"
    /\ app' = "stopping"
    /\ stop' = TRUE
    /\ UNCHANGED <<loop, cancel, place, work, elapsed, failures>>

\* scheduler.stop(): the event, then the cancellation, of a task that there is.
Stop ==
    /\ app = "up"
    /\ app' = "stopping"
    /\ stop' = TRUE
    /\ cancel' = (loop # "none")
    /\ UNCHANGED <<loop, place, work, elapsed, failures>>

\* Faulty: stop() does not await the task.
DisposeEarly ==
    /\ app = "stopping"
    /\ app' = "disposed"
    /\ UNCHANGED <<loop, stop, cancel, place, work, elapsed, failures>>

\* stop() has returned from awaiting the task; engine.dispose().
Dispose ==
    /\ app = "stopping"
    /\ loop \in {"none", "ended"}
    /\ app' = "disposed"
    /\ UNCHANGED <<loop, stop, cancel, place, work, elapsed, failures>>

-----------------------------------------------------------------------------
Loop == \/ Tick \/ FirstSleep \/ NextType \/ Discover \/ Process \/ CommitBatch
        \/ RunDone \/ RunTimesOut \/ Cancelled \/ Unwound \/ Stopped

Next == Loop \/ RunFails \/ Stop \/ Dispose

Spec == Init /\ [][Next]_vars

\* The event loop and its timers go on: what a run waits for answers in time or is cut
\* off.
FairSpec == Spec /\ WF_vars(Loop)

-----------------------------------------------------------------------------
(* Properties *)

TypeOK ==
    /\ app \in {"up", "stopping", "disposed"}
    /\ loop \in {"none", "created", "sleeping", "running", "unwinding", "ended"}
    /\ stop \in BOOLEAN /\ cancel \in BOOLEAN /\ gained \in BOOLEAN
    /\ todo \subseteq Types
    /\ type \in Types
    /\ stage \in Batches \cup {"select", "discover"}
    /\ waiting \in [Types -> [Batches -> Nat]]
    /\ held \in Nat
    /\ IF stage \in Batches THEN held <= Batch ELSE held = 0
    /\ elapsed \in 0..Timeout
    /\ unlisted \in Nat
    /\ failures \in 0..MaxFailures

\* The task never touches the database after the engine was disposed, its
\* rollback included: shutdown awaits it in whatever state it was stopped.
UsesOpenEngine == app = "disposed" => loop \in {"none", "ended"}

\* The refresh goes on for as long as the application: neither a timeout nor
\* an exception of the pipeline ends the loop.
LoopSurvives == app = "up" => loop # "ended"

\* A stop interrupts a run at once; nothing more is processed or committed.
NothingAfterStop == [][app # "up" => held' <= held /\ waiting' = waiting]_vars

\* The timeout leaves time for the listings of all types and for one batch.
Fits == Cardinality(Types) * MaxListing + BatchSize * MaxCost <= Timeout

\* If it does, no run is cut off before it has committed a batch, in whatever order
\* the types come and wherever the time goes: work that is rolled back at one tick is
\* not rolled back alone at every tick.  A run that hangs instead is one of RunFails.
EachRunGains == [][Fits /\ RunTimesOut => gained]_vars

\* A backlog longer than one run can process, of several types and at both stages,
\* is worked off tick by tick, one batch of each stage per run, though runs fail or
\* are cut off by the timeout in a listing or a batch, if listings and one batch fit.
Settled == \A t \in Types, s \in Batches : waiting[t][s] = 0
BacklogSettles == Fits => [](loop # "none" => <>(Settled \/ app # "up"))
=============================================================================
