------------------------------- MODULE Service -------------------------------
(***************************************************************************)
(* What the calls of one process share: the connections of the database    *)
(* engine, the threads of asyncio.to_thread, the locks of the SSI clients. *)
(* A call is an HTTP request, a request of an MCP tool or the refresh of   *)
(* the scheduler; it goes through the steps of its program, may end early  *)
(* with an error, and may be cancelled while it waits.                     *)
(***************************************************************************)
EXTENDS Naturals, FiniteSets, SequencesExt

CONSTANTS
    Calls,      \* bound: calls at the same time
    Clients,    \* the SSI clients that are configured
    PoolSize,   \* connections of the engine, overflow included
    Threads,    \* workers of the event loop's default executor
    MaxOrphans, \* bound: threads left behind inside an SSI SDK by cancelled callers
    NoCall

ASSUME SharesAssumption ==
    /\ IsFiniteSet(Calls) /\ NoCall \notin Calls
    /\ Clients \subseteq {"data", "trading"}
    /\ PoolSize \in Nat \ {0} /\ Threads \in Nat \ {0} /\ MaxOrphans \in Nat

\* What each kind of call awaits, in order; a call may end after any step, as most
\* queries do after one statement, and all requests about the account except the
\* one about derivatives after one call.  The refresh is the pipeline with one
\* report, uploaded in one transaction and extracted in the next; a commit gives
\* the connection back.
Programs ==
    [query   |-> <<"db", "db">>,
     pdf     |-> <<"db", "store">>,
     ask     |-> <<"db", "store", "gemini">>,
     market  |-> <<"data">>,
     account |-> <<"trading", "trading">>,
     refresh |-> <<"db", "store", "commit", "db", "store", "gemini", "commit">>]

\* The tools of a client that is not configured are not registered.
Offered ==
    {k \in DOMAIN Programs :
        ToSet(Programs[k]) \subseteq {"db", "commit", "store", "gemini"} \cup Clients}

VARIABLES
    kind,    \* what each call is, none when there is no call
    at,      \* the step of its program it is at
    stage,   \* ready, lock (waits), held (got the lock), job (submitted) or thread
    conns,   \* calls whose session holds a connection
    holder,  \* the call that holds the lock of each client
    queue,   \* the calls that wait for it
    jobs,    \* submitted to the executor and not started
    orphans  \* running threads whose caller is gone, by what they are inside of

vars == <<kind, at, stage, conns, holder, queue, jobs, orphans>>
locks == <<holder, queue>>
pool == <<jobs, orphans>>

Init ==
    /\ kind = [c \in Calls |-> "none"]
    /\ at = [c \in Calls |-> 0]
    /\ stage = [c \in Calls |-> "ready"]
    /\ conns = {}
    /\ holder = [s \in Clients |-> NoCall]
    /\ queue = [s \in Clients |-> <<>>]
    /\ jobs = <<>>
    /\ orphans = [sdk |-> 0, store |-> 0]

Active(c) == kind[c] # "none"

\* What c awaits now.
Awaits(c, what) == Active(c) /\ Programs[kind[c]][at[c]] = what
Step(c) == Programs[kind[c]][at[c]]
InSdk(c) == Active(c) /\ Step(c) \in Clients

\* Faulty: a call that has gone through its program is awaited once more.
AtEndMissed(c) == at[c] > Len(Programs[kind[c]])

AtEnd(c) == at[c] = Len(Programs[kind[c]])

-----------------------------------------------------------------------------
(* A call begins, goes on and ends *)

\* Faulty: the session takes its connection when it is opened.
OpenEagerly(c) == conns' = conns \cup {c}

\* A session takes no connection before its first statement.
OpenSession(c) == conns' = conns

Start(c) ==
    /\ ~Active(c)
    /\ \E k \in Offered :
        /\ k = "refresh" => \A d \in Calls : kind[d] # "refresh"
        /\ kind' = [kind EXCEPT ![c] = k]
    /\ at' = [at EXCEPT ![c] = 1]
    /\ stage' = [stage EXCEPT ![c] = "ready"]
    /\ OpenSession(c)
    /\ UNCHANGED <<locks, pool>>

\* The session is closed however the call ends, and its connection returned.
End(c) ==
    /\ kind' = [kind EXCEPT ![c] = "none"]
    /\ at' = [at EXCEPT ![c] = 0]
    /\ stage' = [stage EXCEPT ![c] = "ready"]
    /\ conns' = conns \ {c}

\* A step is over: the call goes on, or ends, with its answer or an error.
Outcome(c) ==
    \/ End(c)
    \/ /\ ~AtEnd(c)
       /\ at' = [at EXCEPT ![c] = @ + 1]
       /\ stage' = [stage EXCEPT ![c] = "ready"]
       /\ UNCHANGED <<kind, conns>>

-----------------------------------------------------------------------------
(* Statements and answers awaited on the event loop *)

CheckOut(c) ==
    /\ Awaits(c, "db")
    /\ c \notin conns
    /\ Cardinality(conns) < PoolSize
    /\ conns' = conns \cup {c}
    /\ UNCHANGED <<kind, at, stage, locks, pool>>

Exhausted(c) == c \notin conns /\ Cardinality(conns) >= PoolSize

\* The pool gives up after thirty seconds.
PoolTimeout(c) ==
    /\ Awaits(c, "db")
    /\ Exhausted(c)
    /\ End(c)
    /\ UNCHANGED <<locks, pool>>

Statement(c) ==
    /\ Awaits(c, "db")
    /\ c \in conns
    /\ Outcome(c)
    /\ UNCHANGED <<locks, pool>>

Commit(c) ==
    /\ Awaits(c, "commit")
    /\ IF AtEnd(c) THEN End(c)
       ELSE /\ conns' = conns \ {c}
            /\ at' = [at EXCEPT ![c] = @ + 1]
            /\ UNCHANGED <<kind, stage>>
    /\ UNCHANGED <<locks, pool>>

\* Gemini answers or raises; the client sets no timeout and uses no thread.
GeminiAnswers(c) ==
    /\ Awaits(c, "gemini")
    /\ Outcome(c)
    /\ UNCHANGED <<locks, pool>>

-----------------------------------------------------------------------------
(* The lock of an SSI client, in the order of arrival *)

\* Faulty: the client calls its SDK without a lock.
UnlockedFor(c) == Awaits(c, "store") \/ InSdk(c)

NoLockFor(c) == Awaits(c, "store")

WaitForLock(c) ==
    /\ InSdk(c)
    /\ ~NoLockFor(c)
    /\ stage[c] = "ready"
    /\ stage' = [stage EXCEPT ![c] = "lock"]
    /\ queue' = [queue EXCEPT ![Step(c)] = Append(@, c)]
    /\ UNCHANGED <<kind, at, conns, holder, pool>>

Acquire(s) ==
    /\ holder[s] = NoCall
    /\ queue[s] # <<>>
    /\ holder' = [holder EXCEPT ![s] = Head(queue[s])]
    /\ queue' = [queue EXCEPT ![s] = Tail(@)]
    /\ stage' = [stage EXCEPT ![Head(queue[s])] = "held"]
    /\ UNCHANGED <<kind, at, conns, pool>>

\* Faulty: the lock stays with a call that has left it.
KeepLock(c) == holder' = holder

Release(c) == holder' = [s \in Clients |-> IF holder[s] = c THEN NoCall ELSE holder[s]]

CacheHit(c) ==
    /\ stage[c] = "held"
    /\ Release(c)
    /\ Outcome(c)
    /\ UNCHANGED <<queue, pool>>

-----------------------------------------------------------------------------
(* asyncio.to_thread *)

Submit(c) ==
    /\ \/ stage[c] = "held"
       \/ stage[c] = "ready" /\ NoLockFor(c)
    /\ stage' = [stage EXCEPT ![c] = "job"]
    /\ jobs' = Append(jobs, c)
    /\ UNCHANGED <<kind, at, conns, locks, orphans>>

InThread == {c \in Calls : stage[c] = "thread"}
Busy == Cardinality(InThread) + orphans.sdk + orphans.store

StartJob ==
    /\ jobs # <<>>
    /\ Busy < Threads
    /\ stage' = [stage EXCEPT ![Head(jobs)] = "thread"]
    /\ jobs' = Tail(jobs)
    /\ UNCHANGED <<kind, at, conns, locks, orphans>>

\* The thread returns or raises; an SSI call leaves its lock.
Returned(c) ==
    /\ stage[c] = "thread"
    /\ Release(c)
    /\ Outcome(c)
    /\ UNCHANGED <<queue, pool>>

StoreReturns(c) == Awaits(c, "store") /\ Returned(c)
SdkReturns(c) == InSdk(c) /\ Returned(c)

OrphanEnds(w) ==
    /\ orphans[w] > 0
    /\ orphans' = [orphans EXCEPT ![w] = @ - 1]
    /\ UNCHANGED <<kind, at, stage, conns, locks, jobs>>

-----------------------------------------------------------------------------
(* Cancellation *)

\* The sequence without call c, which is in it at most once.
Without(q, c) ==
    IF \E i \in 1..Len(q) : q[i] = c
    THEN RemoveAt(q, CHOOSE i \in 1..Len(q) : q[i] = c)
    ELSE q

\* A client goes away, or the timeout of the refresh: the call leaves the lock or
\* its queue, a job that has not started is dropped, a thread that runs goes on.
Cancel(c) ==
    /\ Active(c)
    /\ InSdk(c) /\ stage[c] = "thread" => orphans.sdk < MaxOrphans
    /\ orphans' = CASE stage[c] # "thread" -> orphans
                    [] stage[c] = "thread" /\ InSdk(c) -> [orphans EXCEPT !.sdk = @ + 1]
                    [] OTHER -> [orphans EXCEPT !.store = @ + 1]
    /\ jobs' = Without(jobs, c)
    /\ queue' = [s \in Clients |-> Without(queue[s], c)]
    /\ Release(c)
    /\ End(c)

RefreshTimeout(c) == kind[c] = "refresh" /\ Cancel(c)

-----------------------------------------------------------------------------

Next ==
    \/ \E c \in Calls :
        \/ Start(c)
        \/ CheckOut(c) \/ PoolTimeout(c) \/ Statement(c) \/ Commit(c) \/ GeminiAnswers(c)
        \/ WaitForLock(c) \/ CacheHit(c) \/ Submit(c)
        \/ StoreReturns(c) \/ SdkReturns(c)
        \/ Cancel(c)
    \/ \E s \in Clients : Acquire(s)
    \/ StartJob
    \/ \E w \in {"sdk", "store"} : OrphanEnds(w)

Spec == Init /\ [][Next]_vars

\* What a call does without an answer of SSI or Gemini, and without giving up.
Proceed(c) ==
    \/ CheckOut(c) \/ Statement(c) \/ Commit(c)
    \/ WaitForLock(c) \/ CacheHit(c) \/ Submit(c) \/ StoreReturns(c)

\* The event loop resumes what can run, the executor starts what is submitted, a
\* connection that is returned goes to whoever has waited longest, and PostgreSQL and
\* MinIO are taken to answer.  Nothing of the kind is assumed of an SSI SDK or of
\* Gemini, and no client has to cancel; the scheduler does.  The pool may give up but
\* need not: an end that only PoolTimeout would bring is no end here.
Fairness ==
    /\ \A c \in Calls : /\ WF_vars(Proceed(c)) /\ SF_vars(CheckOut(c))
                        /\ WF_vars(RefreshTimeout(c))
    /\ \A s \in Clients : WF_vars(Acquire(s))
    /\ WF_vars(StartJob)
    /\ WF_vars(OrphanEnds("store"))

FairSpec == Spec /\ Fairness

-----------------------------------------------------------------------------
(* Properties *)

TypeOK ==
    /\ kind \in [Calls -> Offered \cup {"none"}]
    /\ at \in [Calls -> Nat]
    /\ \A c \in Calls : IF Active(c) THEN at[c] \in 1..Len(Programs[kind[c]]) ELSE at[c] = 0
    /\ stage \in [Calls -> {"ready", "lock", "held", "job", "thread"}]
    /\ conns \subseteq Calls
    /\ holder \in [Clients -> Calls \cup {NoCall}]
    /\ queue \in [Clients -> Seq(Calls)]
    /\ jobs \in Seq(Calls)
    /\ orphans \in [{"sdk", "store"} -> Nat]

\* However many calls wait for SSI, one thread of each client is inside its SDK,
\* besides those that cancelled callers left there: the rest of the executor stays
\* with the object store.
ThreadsForReports ==
    Cardinality({c \in InThread : InSdk(c)}) <= Cardinality(Clients)

\* A call to SSI holds no connection in any of its waits, no call that has ended
\* does, and the pool is never overdrawn.
ConnectionsNeeded ==
    /\ \A c \in conns : Active(c) /\ ~InSdk(c)
    /\ Cardinality(conns) <= PoolSize

\* However calls end and are cancelled, nothing that another call waits for is left
\* behind: a lock that is taken belongs to a call that is still inside, who waits for
\* a lock stands in its queue, and who waits for a thread is among the jobs.
NothingLost ==
    /\ \A s \in Clients : holder[s] # NoCall =>
           Awaits(holder[s], s) /\ stage[holder[s]] \in {"held", "job", "thread"}
    /\ \A c \in Calls : /\ stage[c] = "lock" => \E s \in Clients : c \in ToSet(queue[s])
                        /\ stage[c] = "job" => c \in ToSet(jobs)

\* Calls that need neither SSI nor Gemini, and the refresh, which does but is timed.
Contained == {"query", "pdf", "refresh"}

\* Questions about a PDF that Gemini does not answer; each keeps its connection.
Hung == {c \in Calls : kind[c] = "ask" /\ Awaits(c, "gemini")}

\* In an outage of SSI or Gemini, in which nothing that waits for them ever returns,
\* every other call still gets its connection and its threads and ends, though the pool
\* never gives up: as long as a thread is left, and as long as the hung questions do
\* not hold the whole pool.  When they do, every query waits for the pool to give up.
OutageContained ==
    /\ Cardinality(Clients) + MaxOrphans < Threads
    /\ [](Cardinality(Hung) < PoolSize)
    => \A c \in Calls : kind[c] \in Contained ~> ~Active(c)

\* If SSI and Gemini answer whoever waits for them, every call ends, whatever else
\* is cancelled: none waits for ever for a lock, a thread or a connection, nor needs
\* the pool to give up.
EveryCallEnds ==
    /\ Cardinality(Clients) + MaxOrphans < Threads
    /\ \A c \in Calls : /\ []<>~(InSdk(c) /\ stage[c] = "thread")
                        /\ []<>~Awaits(c, "gemini")
    => \A c \in Calls : Active(c) ~> ~Active(c)
=============================================================================
