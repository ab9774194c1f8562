------------------------------ MODULE SsiClient -----------------------------
(***************************************************************************)
(* SsiDataClient and SsiTradingClient: async callers, one asyncio.Lock, a  *)
(* synchronous SDK that runs in a worker thread, an SDK object built on    *)
(* first use and a cache whose entries live Ttl.                           *)
(*                                                                         *)
(* A caller may be cancelled while it waits for the lock or for the        *)
(* thread.  A thread cannot be: it runs on, and what it returns is lost.   *)
(***************************************************************************)
EXTENDS Naturals, Sequences, SequencesExt

CONSTANTS
    Callers,     \* requests in flight; a caller is used again once its thread has ended
    Keys,        \* method and arguments of a read
    Ttl,         \* cache_ttl_seconds
    MaxTime,     \* bound: the clock stops there
    MaxCancels,  \* bound: cancelled callers in a behaviour
    Nil

ASSUME CallersAssumption == Nil \notin Callers
ASSUME KeysAssumption == Nil \notin Keys
ASSUME TimeAssumption == Ttl \in Nat /\ MaxTime \in Nat /\ MaxCancels \in Nat

VARIABLES
    pc,         \* idle, waiting (for the lock) or calling (holds it, awaits the thread)
    key,        \* what a caller asks for
    queue,      \* the waiters of the asyncio.Lock, first come first served
    holder,     \* who holds the lock
    thread,     \* the worker thread started for a caller
    asked,      \* when that thread sent its request, 0 outside: the answer is no older
    client,     \* self._client is set
    builds,     \* SDK objects constructed so far, each with a token of its own
    cache,      \* self._cache: when an answer was stored and when it was asked for
    delivered,  \* per key, when the answer last handed to a caller was asked for
    now,        \* time.monotonic()
    cancels

lock == <<queue, holder>>
sdk == <<client, builds>>
vars == <<pc, key, queue, holder, thread, asked, client, builds, cache, delivered,
          now, cancels>>

\* queued: not yet running.  build: in the constructor of the SDK object.
\* request: in the SDK's method.  answered, raised: done, the caller not resumed.
Running == {"build", "request"}
ThreadStates == {"none", "queued", "answered", "raised"} \cup Running

NoEntry == [at |-> 0, asked |-> 0]

Init ==
    /\ pc = [c \in Callers |-> "idle"]
    /\ key = [c \in Callers |-> Nil]
    /\ queue = <<>>
    /\ holder = Nil
    /\ thread = [c \in Callers |-> "none"]
    /\ asked = [c \in Callers |-> 0]
    /\ client = FALSE
    /\ builds = 0
    /\ cache = [k \in Keys |-> NoEntry]
    /\ delivered = [k \in Keys |-> 0]
    /\ now = 1
    /\ cancels = 0

-----------------------------------------------------------------------------
(* The coroutine: _call *)

\* A tool asks for a key and queues up for the lock.
Call(c, k) ==
    /\ pc[c] = "idle"
    /\ thread[c] = "none"
    /\ pc' = [pc EXCEPT ![c] = "waiting"]
    /\ key' = [key EXCEPT ![c] = k]
    /\ queue' = Append(queue, c)
    /\ UNCHANGED <<holder, thread, asked, sdk, cache, delivered, now, cancels>>

\* Faulty: there is no lock; callers enter in turn, but do not wait for each other.
AcquiresUnlocked(c) == queue # <<>> /\ Head(queue) = c

Acquires(c) == holder = Nil /\ queue # <<>> /\ Head(queue) = c

Fresh(k) == cache[k] # NoEntry /\ now < cache[k].at + Ttl

\* A cached answer is returned; the lock is taken and released without an await.
Hit(c) ==
    /\ Acquires(c)
    /\ Fresh(key[c])
    /\ pc' = [pc EXCEPT ![c] = "idle"]
    /\ queue' = Tail(queue)
    /\ delivered' = [delivered EXCEPT ![key[c]] = cache[key[c]].asked]
    /\ UNCHANGED <<key, holder, thread, asked, sdk, cache, now, cancels>>

\* asyncio.to_thread hands _sync_call to the pool of the event loop.
Miss(c) ==
    /\ Acquires(c)
    /\ ~Fresh(key[c])
    /\ pc' = [pc EXCEPT ![c] = "calling"]
    /\ queue' = Tail(queue)
    /\ holder' = c
    /\ thread' = [thread EXCEPT ![c] = "queued"]
    /\ UNCHANGED <<key, asked, sdk, cache, delivered, now, cancels>>

Store(k, entry) ==
    /\ cache' = [cache EXCEPT ![k] = entry]
    /\ delivered' = [delivered EXCEPT ![k] = entry.asked]

\* The thread of c is done with, or was never started.
End(c) ==
    /\ thread' = [thread EXCEPT ![c] = "none"]
    /\ asked' = [asked EXCEPT ![c] = 0]

\* The answer is stored with the time at which the caller resumes, and returned.
Return(c) ==
    /\ pc[c] = "calling"
    /\ thread[c] = "answered"
    /\ pc' = [pc EXCEPT ![c] = "idle"]
    /\ End(c)
    /\ holder' = Nil
    /\ Store(key[c], [at |-> now, asked |-> asked[c]])
    /\ UNCHANGED <<key, queue, sdk, now, cancels>>

\* Faulty: the lock is released by hand, and not on this path.
RaiseKeepsLock(c) ==
    /\ pc[c] = "calling"
    /\ thread[c] = "raised"
    /\ pc' = [pc EXCEPT ![c] = "idle"]
    /\ End(c)
    /\ UNCHANGED <<key, lock, sdk, cache, delivered, now, cancels>>

\* Faulty: a failed call is cached like an answer.
RaiseCached(c) ==
    /\ pc[c] = "calling"
    /\ thread[c] = "raised"
    /\ pc' = [pc EXCEPT ![c] = "idle"]
    /\ End(c)
    /\ holder' = Nil
    /\ Store(key[c], [at |-> now, asked |-> asked[c]])
    /\ UNCHANGED <<key, queue, sdk, now, cancels>>

\* What the thread raised becomes an SsiError; nothing is cached.
Raise(c) ==
    /\ pc[c] = "calling"
    /\ thread[c] = "raised"
    /\ pc' = [pc EXCEPT ![c] = "idle"]
    /\ End(c)
    /\ holder' = Nil
    /\ UNCHANGED <<key, queue, sdk, cache, delivered, now, cancels>>

\* A cancelled waiter leaves the queue.
CancelWaiting(c) ==
    /\ cancels < MaxCancels
    /\ \E i \in 1..Len(queue) : queue[i] = c /\ queue' = RemoveAt(queue, i)
    /\ pc' = [pc EXCEPT ![c] = "idle"]
    /\ cancels' = cancels + 1
    /\ UNCHANGED <<key, holder, thread, asked, sdk, cache, delivered, now>>

\* CancelledError is no Exception: the lock is released and nothing else
\* happens.  A thread that has not started never will; a running one goes on.
CancelCalling(c) ==
    /\ cancels < MaxCancels
    /\ pc[c] = "calling"
    /\ pc' = [pc EXCEPT ![c] = "idle"]
    /\ holder' = Nil
    /\ IF thread[c] \in Running THEN UNCHANGED <<thread, asked>> ELSE End(c)
    /\ cancels' = cancels + 1
    /\ UNCHANGED <<key, queue, sdk, cache, delivered, now>>

-----------------------------------------------------------------------------
(* The worker thread: _sync_call *)

\* `if self._client is None` decides whether the constructor runs.
StartThread(c) ==
    /\ thread[c] = "queued"
    /\ \/ ~client /\ thread' = [thread EXCEPT ![c] = "build"] /\ UNCHANGED asked
       \/ /\ client
          /\ thread' = [thread EXCEPT ![c] = "request"]
          /\ asked' = [asked EXCEPT ![c] = now]
    /\ UNCHANGED <<pc, key, lock, sdk, cache, delivered, now, cancels>>

\* The constructor has its token; self._client is assigned and then used.
Built(c) ==
    /\ thread[c] = "build"
    /\ client' = TRUE
    /\ builds' = builds + 1
    /\ thread' = [thread EXCEPT ![c] = "request"]
    /\ asked' = [asked EXCEPT ![c] = now]
    /\ UNCHANGED <<pc, key, lock, cache, delivered, now, cancels>>

\* Nobody waits for the thread of a caller that is gone.
Finish(c, outcome) ==
    /\ IF pc[c] = "calling"
       THEN thread' = [thread EXCEPT ![c] = outcome] /\ UNCHANGED asked
       ELSE End(c)
    /\ UNCHANGED <<pc, key, lock, sdk, now, cancels>>

\* Faulty: the thread stores its answer, whether anybody waits for it or not.
AnswerStored(c) ==
    /\ thread[c] = "request"
    /\ Finish(c, "answered")
    /\ Store(key[c], [at |-> now, asked |-> asked[c]])

Answer(c) ==
    /\ thread[c] = "request"
    /\ Finish(c, "answered")
    /\ UNCHANGED <<cache, delivered>>

\* The import, the constructor (token, PEM file) or the request fails.
SdkRaises(c) ==
    /\ thread[c] \in Running \cup {"queued"}
    /\ Finish(c, "raised")
    /\ UNCHANGED <<cache, delivered>>

Tick ==
    /\ now < MaxTime
    /\ now' = now + 1
    /\ UNCHANGED <<pc, key, lock, thread, asked, sdk, cache, delivered, cancels>>

-----------------------------------------------------------------------------
Coroutine(c) == Hit(c) \/ Miss(c) \/ Return(c) \/ Raise(c)
Thread(c) == StartThread(c) \/ Built(c) \/ Answer(c) \/ SdkRaises(c)

Next ==
    \/ \E c \in Callers :
        \/ \E k \in Keys : Call(c, k)
        \/ Coroutine(c)
        \/ Thread(c)
        \/ CancelWaiting(c)
        \/ CancelCalling(c)
    \/ Tick

Spec == Init /\ [][Next]_vars

\* The event loop resumes every coroutine that can run.  Nothing is assumed of
\* the threads: the SDK sets no timeout on its requests.
FairSpec == Spec /\ \A c \in Callers : WF_vars(Coroutine(c))

-----------------------------------------------------------------------------
(* Properties *)

TypeOK ==
    /\ pc \in [Callers -> {"idle", "waiting", "calling"}]
    /\ key \in [Callers -> Keys \cup {Nil}]
    /\ queue \in Seq(Callers)
    /\ holder \in Callers \cup {Nil}
    /\ thread \in [Callers -> ThreadStates]
    /\ asked \in [Callers -> Nat]
    /\ client \in BOOLEAN
    /\ builds \in Nat
    /\ cache \in [Keys -> {NoEntry} \cup [at : Nat \ {0}, asked : Nat \ {0}]]
    /\ delivered \in [Keys -> Nat]
    /\ now \in Nat \ {0}
    /\ cancels \in 0..MaxCancels

InSdk(c) == thread[c] \in Running
Orphan(c) == InSdk(c) /\ pc[c] # "calling"

\* The lock serialises what it can: of two threads inside the SDK at once, one
\* was left behind by a cancelled caller.
OneCallerInSdk ==
    \A c, d \in Callers : InSdk(c) /\ InSdk(d) => c = d \/ Orphan(c) \/ Orphan(d)

\* The SDK object, and its token, is built once, whoever calls first, as long
\* as no caller was cancelled: check and assignment are far apart in a thread.
OneClient == cancels = 0 => builds <= 1

\* The rate limit is what the cache is for: an answer is replaced only after it
\* has lived its Ttl, however many callers missed the cache together.
Spaced ==
    [][\A k \in Keys :
        cache[k] # NoEntry /\ cache'[k] # cache[k] => now >= cache[k].at + Ttl]_vars

\* Callers that ask for the same thing never see it go back in time, though
\* threads of cancelled callers come back late.
MonotoneReads == [][\A k \in Keys : delivered'[k] >= delivered[k]]_vars

\* Seen from outside, all of it is one cache that answers at once: asking again
\* begins after the Ttl, and whoever fails or is cancelled leaves no trace.  Both
\* of the properties above hold of that cache.
Promise == INSTANCE AnswerCache WITH
    want <- [c \in Callers |-> IF pc[c] = "idle" THEN Nil ELSE key[c]],
    entry <- cache,
    shown <- delivered
PromiseSpec == Promise!Spec

\* If the SDK always comes back, every caller is served or told of the failure:
\* each way out of _call releases the lock.
ThreadsEnd ==
    \A c \in Callers : thread[c] \in Running \cup {"queued"}
                       ~> thread[c] \notin Running \cup {"queued"}
CallsEnd == ThreadsEnd => \A c \in Callers : pc[c] # "idle" ~> pc[c] = "idle"

\* data_client.py: "serialize access behind a lock": one thread in the SDK.
Serialized == \A c, d \in Callers : InSdk(c) /\ InSdk(d) => c = d
=============================================================================
