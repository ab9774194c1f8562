--------------------------- MODULE SsiClientProofs --------------------------
(***************************************************************************)
(* Theorems about SsiClient, for every set of callers and keys and every   *)
(* Ttl.                                                                    *)
(***************************************************************************)
EXTENDS SsiClient, SequenceLemmas, TLAPS

-----------------------------------------------------------------------------
(* The inductive invariant *)

\* Only waiters are in the queue, each once, and each knows what it wants.
QueueInv ==
    /\ \A i \in 1..Len(queue) : pc[queue[i]] = "waiting" /\ key[queue[i]] \in Keys
    /\ \A i, j \in 1..Len(queue) : queue[i] = queue[j] => i = j

\* The holder is the one caller that awaits a thread; what other threads there
\* are runs for nobody.
LockInv ==
    /\ \A c \in Callers : holder = c <=> pc[c] = "calling"
    /\ \A c \in Callers : pc[c] = "calling" => key[c] \in Keys
    /\ \A c \in Callers : pc[c] # "calling" => thread[c] \in Running \cup {"none"}

\* Without cancellations a thread has its caller, and only the first builds.
ClientInv ==
    cancels = 0 =>
        /\ \A c \in Callers : thread[c] # "none" => pc[c] = "calling"
        /\ \A c \in Callers : thread[c] = "build" => ~client
        /\ builds = IF client THEN 1 ELSE 0

\* What callers saw last is what is cached, and the holder asks for no older
\* answer, and only after what it replaces has lived its Ttl.
AnswersInv ==
    /\ \A k \in Keys : delivered[k] = cache[k].asked /\ delivered[k] <= now
    /\ \A c \in Callers :
        thread[c] \in {"request", "answered"} => asked[c] \in 1..now
    /\ \A c \in Callers :
        pc[c] = "calling" =>
            /\ thread[c] \in {"request", "answered"} => asked[c] >= delivered[key[c]]
            /\ cache[key[c]] # NoEntry =>
                   /\ now >= cache[key[c]].at + Ttl
                   /\ thread[c] \in {"request", "answered"} => asked[c] >= cache[key[c]].at + Ttl

IInv == TypeOK /\ QueueInv /\ LockInv /\ ClientInv /\ AnswersInv

\* Whoever acquires the lock was waiting for it.
LEMMA HeadWaits ==
    ASSUME TypeOK, QueueInv, NEW c, Acquires(c)
    PROVE  pc[c] = "waiting" /\ key[c] \in Keys
<1>1. Len(queue) \in Nat \ {0} /\ queue[1] = c
  BY DEF TypeOK, Acquires
<1> QED BY <1>1 DEF QueueInv

LEMMA Initially == Init => IInv
<1> SUFFICES ASSUME Init PROVE IInv
  OBVIOUS
<1>1. TypeOK
  <2>1. queue \in Seq(Callers) /\ cancels \in 0..MaxCancels
    BY TimeAssumption DEF Init
  <2>2. pc \in [Callers -> {"idle", "waiting", "calling"}] /\ thread \in [Callers -> ThreadStates]
    BY DEF Init, ThreadStates
  <2>3. cache \in [Keys -> {NoEntry} \cup [at : Nat \ {0}, asked : Nat \ {0}]]
    BY DEF Init
  <2>4. delivered \in [Keys -> Nat] /\ asked \in [Callers -> Nat] /\ key \in [Callers -> Keys \cup {Nil}]
    BY DEF Init
  <2>5. holder = Nil /\ builds \in Nat /\ now \in Nat \ {0}
    BY DEF Init
  <2>6. client \in BOOLEAN
    BY Zenon DEF Init
  <2> QED BY <2>1, <2>2, <2>3, <2>4, <2>5, <2>6 DEF TypeOK
<1>2. QueueInv
  BY DEF Init, QueueInv
<1>3. LockInv /\ ClientInv
  BY CallersAssumption DEF Init, LockInv, ClientInv
<1>4. AnswersInv
  BY DEF Init, AnswersInv, NoEntry
<1> QED BY <1>1, <1>2, <1>3, <1>4 DEF IInv

LEMMA Inductive == IInv /\ [Next]_vars => IInv'
<1> SUFFICES ASSUME IInv, [Next]_vars PROVE IInv'
  OBVIOUS
<1> USE DEF sdk, lock
<1>1. ASSUME NEW c \in Callers, NEW k \in Keys, Call(c, k) PROVE IInv'
  <2>1. TypeOK'
    BY <1>1 DEF IInv, TypeOK, Call
  <2>2. QueueInv'
    BY <1>1 DEF IInv, QueueInv, TypeOK, Call
  <2>3. LockInv'
    BY <1>1 DEF IInv, LockInv, Call
  <2>4. ClientInv'
    BY <1>1 DEF IInv, ClientInv, Call
  <2>5. AnswersInv'
    BY <1>1 DEF IInv, AnswersInv, Call
  <2> QED BY <2>1, <2>2, <2>3, <2>4, <2>5 DEF IInv
<1>2. ASSUME NEW c \in Callers, Hit(c) PROVE IInv'
  <2>1. TypeOK'
    <3>1. key[c] \in Keys
      BY <1>2, HeadWaits DEF IInv, Hit
    <3>2. queue' \in Seq(Callers)
      BY <1>2, HeadTailProperties DEF IInv, TypeOK, Hit, Acquires
    <3>3. cache[key[c]].asked \in Nat
      BY <3>1 DEF IInv, TypeOK, NoEntry
    <3>4. delivered' \in [Keys -> Nat] /\ pc' \in [Callers -> {"idle", "waiting", "calling"}]
      BY <1>2, <3>1, <3>3 DEF IInv, TypeOK, Hit
    <3> QED BY <1>2, <3>2, <3>4 DEF IInv, TypeOK, Hit
  <2>2. QueueInv'
    BY <1>2 DEF IInv, QueueInv, Hit, Acquires
  <2>3. LockInv'
    BY <1>2, CallersAssumption DEF IInv, LockInv, Hit, Acquires
  <2>4. ClientInv'
    BY <1>2, CallersAssumption DEF IInv, ClientInv, LockInv, Hit, Acquires
  <2>5. AnswersInv'
    BY <1>2 DEF IInv, AnswersInv, TypeOK, Hit
  <2> QED BY <2>1, <2>2, <2>3, <2>4, <2>5 DEF IInv
<1>3. ASSUME NEW c \in Callers, Miss(c) PROVE IInv'
  <2>1. TypeOK'
    BY <1>3 DEF IInv, TypeOK, ThreadStates, Miss, Acquires
  <2>2. QueueInv'
    BY <1>3 DEF IInv, QueueInv, Miss, Acquires
  <2>3. LockInv'
    <3>1. pc[c] = "waiting" /\ key[c] \in Keys
      BY <1>3, HeadWaits DEF IInv, Miss
    <3> QED BY <1>3, <3>1, CallersAssumption, SMT
            DEF IInv, LockInv, TypeOK, Miss, Acquires
  <2>4. ClientInv'
    BY <1>3 DEF IInv, ClientInv, TypeOK, Miss
  <2>5. AnswersInv'
    <3>1. pc[c] = "waiting" /\ key[c] \in Keys
      BY <1>3, HeadWaits DEF IInv, Miss
    <3>2. cache[key[c]] # NoEntry => now >= cache[key[c]].at + Ttl
      BY <1>3, <3>1, TimeAssumption DEF IInv, TypeOK, Miss, Fresh
    <3> QED BY <1>3, <3>1, <3>2 DEF IInv, AnswersInv, TypeOK, Miss
  <2> QED BY <2>1, <2>2, <2>3, <2>4, <2>5 DEF IInv
<1>4. ASSUME NEW c \in Callers, Return(c) PROVE IInv'
  <2>1. TypeOK'
    <3>1. key[c] \in Keys /\ asked[c] \in Nat \ {0}
      BY <1>4 DEF IInv, LockInv, AnswersInv, Return
    <3> DEFINE entry == [at |-> now, asked |-> asked[c]]
    <3>2. entry \in [at : Nat \ {0}, asked : Nat \ {0}] /\ entry.asked \in Nat
      BY <3>1 DEF IInv, TypeOK
    <3>3. cache' = [cache EXCEPT ![key[c]] = entry]
          /\ delivered' = [delivered EXCEPT ![key[c]] = entry.asked]
      BY <1>4 DEF Return, Store
    <3> HIDE DEF entry
    <3>4. cache' \in [Keys -> {NoEntry} \cup [at : Nat \ {0}, asked : Nat \ {0}]]
          /\ delivered' \in [Keys -> Nat]
      BY <3>1, <3>2, <3>3 DEF IInv, TypeOK
    <3> QED BY <1>4, <3>4 DEF IInv, TypeOK, ThreadStates, Return, End
  <2>2. QueueInv'
    BY <1>4 DEF IInv, QueueInv, Return
  <2>3. LockInv'
    BY <1>4, CallersAssumption DEF IInv, LockInv, TypeOK, Return, End
  <2>4. ClientInv'
    BY <1>4 DEF IInv, ClientInv, TypeOK, Return, End
  <2>5. AnswersInv'
    BY <1>4 DEF IInv, AnswersInv, TypeOK, LockInv, Return, Store, End
  <2> QED BY <2>1, <2>2, <2>3, <2>4, <2>5 DEF IInv
<1>5. ASSUME NEW c \in Callers, Raise(c) PROVE IInv'
  <2>1. TypeOK'
    BY <1>5 DEF IInv, TypeOK, ThreadStates, Raise, End
  <2>2. QueueInv'
    BY <1>5 DEF IInv, QueueInv, Raise
  <2>3. LockInv'
    BY <1>5, CallersAssumption DEF IInv, LockInv, TypeOK, Raise, End
  <2>4. ClientInv'
    BY <1>5 DEF IInv, ClientInv, TypeOK, Raise, End
  <2>5. AnswersInv'
    BY <1>5 DEF IInv, AnswersInv, Raise, End
  <2> QED BY <2>1, <2>2, <2>3, <2>4, <2>5 DEF IInv
<1>6. ASSUME NEW c \in Callers, CancelWaiting(c) PROVE IInv'
  <2>1. TypeOK'
    <3>1. PICK i \in 1..Len(queue) : queue[i] = c /\ queue' = RemoveAt(queue, i)
      BY <1>6 DEF CancelWaiting
    <3>2. /\ queue' \in Seq(Callers)
          /\ Len(queue') = Len(queue) - 1
          /\ \A j \in 1..Len(queue) - 1 : queue'[j] = IF j < i THEN queue[j] ELSE queue[j + 1]
      BY <3>1, RemoveAtProperties DEF IInv, TypeOK
    <3> QED BY <1>6, <3>2, TimeAssumption DEF IInv, TypeOK, CancelWaiting
  <2>2. QueueInv'
    <3>1. PICK i \in 1..Len(queue) : queue[i] = c /\ queue' = RemoveAt(queue, i)
      BY <1>6 DEF CancelWaiting
    <3>2. /\ queue' \in Seq(Callers)
          /\ Len(queue') = Len(queue) - 1
          /\ \A j \in 1..Len(queue) - 1 : queue'[j] = IF j < i THEN queue[j] ELSE queue[j + 1]
      BY <3>1, RemoveAtProperties DEF IInv, TypeOK
    <3>3. Len(queue) \in Nat /\ i \in Nat
      BY <3>1 DEF IInv
    <3>4. ASSUME NEW j \in 1..Len(queue')
          PROVE  \E m \in 1..Len(queue) : queue'[j] = queue[m] /\ m # i /\ m = IF j < i THEN j ELSE j + 1
      BY <3>2, <3>3
    <3>5. ASSUME NEW j \in 1..Len(queue')
          PROVE  pc'[queue'[j]] = "waiting" /\ key'[queue'[j]] \in Keys
      <4>1. PICK m \in 1..Len(queue) : queue'[j] = queue[m] /\ m # i
        BY <3>4
      <4>2. queue[m] # c /\ queue[m] \in Callers
        BY <3>1, <4>1 DEF IInv, TypeOK, QueueInv
      <4> QED BY <1>6, <4>1, <4>2 DEF IInv, QueueInv, CancelWaiting
    <3>6. ASSUME NEW j \in 1..Len(queue'), NEW l \in 1..Len(queue'), queue'[j] = queue'[l]
          PROVE  j = l
      <4>1. PICK m \in 1..Len(queue) : queue'[j] = queue[m] /\ m = IF j < i THEN j ELSE j + 1
        BY <3>4
      <4>2. PICK n \in 1..Len(queue) : queue'[l] = queue[n] /\ n = IF l < i THEN l ELSE l + 1
        BY <3>4
      <4>3. m = n
        BY <3>6, <4>1, <4>2 DEF IInv, QueueInv
      <4> QED BY <3>2, <3>3, <4>1, <4>2, <4>3
    <3> QED BY <3>5, <3>6 DEF QueueInv
  <2>3. LockInv'
    <3>1. pc[c] = "waiting"
      BY <1>6 DEF IInv, QueueInv, CancelWaiting
    <3> QED BY <1>6, <3>1 DEF IInv, LockInv, CancelWaiting
  <2>4. ClientInv'
    BY <1>6 DEF IInv, ClientInv, TypeOK, CancelWaiting
  <2>5. AnswersInv'
    BY <1>6 DEF IInv, AnswersInv, CancelWaiting
  <2> QED BY <2>1, <2>2, <2>3, <2>4, <2>5 DEF IInv
<1>7. ASSUME NEW c \in Callers, CancelCalling(c) PROVE IInv'
  <2>1. TypeOK'
    <3>1. thread \in [Callers -> ThreadStates] /\ asked \in [Callers -> Nat] /\ now \in Nat
      BY DEF IInv, TypeOK
    <3>2. thread' \in [Callers -> ThreadStates] /\ asked' \in [Callers -> Nat]
      BY <1>7, <3>1 DEF ThreadStates, CancelCalling, End
    <3>3. pc' \in [Callers -> {"idle", "waiting", "calling"}] /\ cancels' \in 0..MaxCancels
      BY <1>7, TimeAssumption DEF IInv, TypeOK, CancelCalling
    <3>4. holder' = Nil /\ UNCHANGED <<key, queue, client, builds, cache, delivered, now>>
      BY <1>7 DEF CancelCalling
    <3> QED BY <3>2, <3>3, <3>4 DEF IInv, TypeOK
  <2>2. QueueInv'
    BY <1>7 DEF IInv, QueueInv, CancelCalling
  <2>3. LockInv'
    BY <1>7, CallersAssumption DEF IInv, LockInv, TypeOK, CancelCalling, End
  <2>4. ClientInv'
    BY <1>7 DEF IInv, ClientInv, TypeOK, CancelCalling
  <2>5. AnswersInv'
    BY <1>7 DEF IInv, AnswersInv, TypeOK, CancelCalling, End
  <2> QED BY <2>1, <2>2, <2>3, <2>4, <2>5 DEF IInv
<1>8. ASSUME NEW c \in Callers, StartThread(c) PROVE IInv'
  <2>1. TypeOK'
    <3>1. thread \in [Callers -> ThreadStates] /\ asked \in [Callers -> Nat] /\ now \in Nat
      BY DEF IInv, TypeOK
    <3>2. thread' \in [Callers -> ThreadStates] /\ asked' \in [Callers -> Nat]
      BY <1>8, <3>1 DEF ThreadStates, Running, StartThread
    <3> QED BY <1>8, <3>2 DEF IInv, TypeOK, StartThread
  <2>2. QueueInv'
    BY <1>8 DEF IInv, QueueInv, StartThread
  <2>3. LockInv'
    <3>1. pc[c] = "calling" /\ \A d \in Callers : d # c => thread'[d] = thread[d]
      BY <1>8 DEF IInv, TypeOK, LockInv, Running, StartThread
    <3> QED BY <1>8, <3>1 DEF IInv, LockInv, StartThread
  <2>4. ClientInv'
    BY <1>8 DEF IInv, ClientInv, TypeOK, StartThread
  <2>5. AnswersInv'
    <3>1. pc[c] = "calling"
      BY <1>8 DEF IInv, LockInv, Running, StartThread
    <3>2. \A d \in Callers : \/ thread'[d] = thread[d] /\ asked'[d] = asked[d]
                             \/ d = c /\ (asked'[d] = now \/ thread'[d] = "build")
      BY <1>8 DEF IInv, TypeOK, StartThread
    <3>3. now \in Nat \ {0} /\ \A k \in Keys : delivered[k] \in Nat
      BY DEF IInv, TypeOK
    <3> QED BY <1>8, <3>1, <3>2, <3>3 DEF IInv, AnswersInv, LockInv, StartThread
  <2> QED BY <2>1, <2>2, <2>3, <2>4, <2>5 DEF IInv
<1>9. ASSUME NEW c \in Callers, Built(c) PROVE IInv'
  <2>1. TypeOK'
    BY <1>9 DEF IInv, TypeOK, ThreadStates, Running, Built
  <2>2. QueueInv'
    BY <1>9 DEF IInv, QueueInv, Built
  <2>3. LockInv'
    BY <1>9 DEF IInv, LockInv, Running, Built
  <2>4. ClientInv'
    BY <1>9 DEF IInv, ClientInv, TypeOK, LockInv, Built
  <2>5. AnswersInv'
    BY <1>9 DEF IInv, AnswersInv, TypeOK, LockInv, Built
  <2> QED BY <2>1, <2>2, <2>3, <2>4, <2>5 DEF IInv
<1>10. ASSUME NEW c \in Callers, Answer(c) PROVE IInv'
  <2>1. TypeOK'
    <3>1. thread \in [Callers -> ThreadStates] /\ asked \in [Callers -> Nat] /\ now \in Nat
      BY DEF IInv, TypeOK
    <3>2. thread' \in [Callers -> ThreadStates] /\ asked' \in [Callers -> Nat]
      BY <1>10, <3>1 DEF ThreadStates, Answer, Finish, End
    <3> QED BY <1>10, <3>2 DEF IInv, TypeOK, Answer, Finish
  <2>2. QueueInv'
    BY <1>10 DEF IInv, QueueInv, Answer, Finish
  <2>3. LockInv'
    <3>1. \A d \in Callers : d # c => thread'[d] = thread[d]
      BY <1>10 DEF IInv, TypeOK, Answer, Finish, End
    <3>2. pc[c] # "calling" => thread'[c] = "none"
      BY <1>10 DEF IInv, TypeOK, Answer, Finish, End
    <3> QED BY <1>10, <3>1, <3>2 DEF IInv, LockInv, Answer, Finish
  <2>4. ClientInv'
    BY <1>10 DEF IInv, ClientInv, TypeOK, Answer, Finish
  <2>5. AnswersInv'
    BY <1>10 DEF IInv, AnswersInv, TypeOK, Answer, Finish, End
  <2> QED BY <2>1, <2>2, <2>3, <2>4, <2>5 DEF IInv
<1>11. ASSUME NEW c \in Callers, SdkRaises(c) PROVE IInv'
  <2>1. TypeOK'
    <3>1. thread \in [Callers -> ThreadStates] /\ asked \in [Callers -> Nat] /\ now \in Nat
      BY DEF IInv, TypeOK
    <3>2. thread' \in [Callers -> ThreadStates] /\ asked' \in [Callers -> Nat]
      BY <1>11, <3>1 DEF ThreadStates, SdkRaises, Finish, End
    <3> QED BY <1>11, <3>2 DEF IInv, TypeOK, SdkRaises, Finish
  <2>2. QueueInv'
    BY <1>11 DEF IInv, QueueInv, SdkRaises, Finish
  <2>3. LockInv'
    <3>1. \A d \in Callers : d # c => thread'[d] = thread[d]
      BY <1>11 DEF IInv, TypeOK, SdkRaises, Finish, End
    <3>2. pc[c] # "calling" => thread'[c] = "none"
      BY <1>11 DEF IInv, TypeOK, SdkRaises, Finish, End
    <3> QED BY <1>11, <3>1, <3>2 DEF IInv, LockInv, SdkRaises, Finish
  <2>4. ClientInv'
    BY <1>11 DEF IInv, ClientInv, TypeOK, SdkRaises, Finish, End
  <2>5. AnswersInv'
    <3>1. \A d \in Callers :
              \/ thread'[d] = thread[d] /\ asked'[d] = asked[d]
              \/ thread'[d] \notin {"request", "answered"}
      BY <1>11 DEF IInv, TypeOK, SdkRaises, Finish, End
    <3> QED BY <1>11, <3>1 DEF IInv, AnswersInv, SdkRaises, Finish
  <2> QED BY <2>1, <2>2, <2>3, <2>4, <2>5 DEF IInv
<1>12. ASSUME Tick PROVE IInv'
  <2>1. TypeOK' /\ QueueInv' /\ LockInv' /\ ClientInv'
    BY <1>12 DEF IInv, TypeOK, QueueInv, LockInv, ClientInv, Tick
  <2>2. ASSUME NEW k \in Keys, cache[k] # NoEntry PROVE cache[k].at \in Nat
    BY <2>2 DEF IInv, TypeOK
  <2>3. AnswersInv'
    BY <1>12, <2>2, TimeAssumption DEF IInv, TypeOK, LockInv, AnswersInv, Tick
  <2> QED BY <2>1, <2>3 DEF IInv
<1>13. CASE UNCHANGED vars
  BY <1>13 DEF IInv, TypeOK, QueueInv, LockInv, ClientInv, AnswersInv, vars
<1> QED
  BY <1>1, <1>2, <1>3, <1>4, <1>5, <1>6, <1>7, <1>8, <1>9, <1>10, <1>11, <1>12, <1>13
  DEF Next, Coroutine, Thread

LEMMA Invariance == Spec => []IInv
BY Initially, Inductive, PTL DEF Spec

-----------------------------------------------------------------------------
(* Theorems *)

\* Every state is of the declared type; the queue of the lock in particular
\* stays a sequence of callers while waiters leave it anywhere.
THEOREM TypeCorrectness == Spec => []TypeOK
BY Invariance, PTL DEF IInv

\* Two threads are in the SDK at once only if a caller was cancelled and left
\* one of them behind.
THEOREM CallersAlone == Spec => []OneCallerInSdk
<1>1. IInv => OneCallerInSdk
  BY CallersAssumption DEF IInv, LockInv, OneCallerInSdk, Orphan
<1> QED BY <1>1, Invariance, PTL

\* As long as no caller is cancelled, at most one SDK object is built.
THEOREM ClientOnce == Spec => []OneClient
<1>1. IInv => OneClient
  BY DEF IInv, ClientInv, OneClient
<1> QED BY <1>1, Invariance, PTL

\* However many callers miss the cache together, an answer is replaced only
\* after its Ttl: whoever holds the lock found no fresh one, and nobody else
\* stores anything while it is held.
THEOREM CacheSpaced == Spec => Spaced
<1> DEFINE Lived == \A k \in Keys :
        cache[k] # NoEntry /\ cache'[k] # cache[k] => now >= cache[k].at + Ttl
<1>1. IInv /\ [Next]_vars => [Lived]_vars
  <2> SUFFICES ASSUME IInv, Next PROVE Lived
    OBVIOUS
  <2>1. ASSUME NEW c \in Callers, Return(c) PROVE Lived
    BY <2>1 DEF IInv, AnswersInv, Return, Store
  <2>2. CASE cache' = cache
    BY <2>2
  <2> QED
    BY <2>1, <2>2 DEF Next, Coroutine, Thread, Call, Hit, Miss, Raise, CancelWaiting,
       CancelCalling, StartThread, Built, Answer, SdkRaises, Finish, sdk, Tick
<1> QED BY <1>1, Invariance, PTL DEF Spec, Spaced

\* No caller is handed an answer older than one handed out before for the same
\* key: what is cached is what was handed out last, and the holder of the lock
\* asked later.
THEOREM ReadsMonotone == Spec => MonotoneReads
<1> DEFINE Later == \A k \in Keys : delivered'[k] >= delivered[k]
<1>1. IInv /\ [Next]_vars => [Later]_vars
  <2> SUFFICES ASSUME IInv, Next PROVE Later
    OBVIOUS
  <2>1. ASSUME NEW c \in Callers, Return(c) PROVE Later
    BY <2>1 DEF IInv, TypeOK, AnswersInv, Return, Store
  <2>2. ASSUME NEW c \in Callers, Hit(c) PROVE Later
    <3>1. key[c] \in Keys
      BY <2>2, HeadWaits DEF IInv, Hit
    <3> QED BY <2>2, <3>1 DEF IInv, TypeOK, AnswersInv, Hit
  <2>3. CASE delivered' = delivered
    BY <2>3 DEF IInv, TypeOK
  <2> QED
    BY <2>1, <2>2, <2>3 DEF Next, Coroutine, Thread, Call, Miss, Raise, CancelWaiting,
       CancelCalling, StartThread, Built, Answer, SdkRaises, Finish, sdk, Tick
<1> QED BY <1>1, Invariance, PTL DEF Spec, MonotoneReads

\* The clients implement the abstract cache: taking the lock, starting threads,
\* building the SDK object and losing an answer change nothing that is promised.
THEOREM Refinement == Spec => PromiseSpec
<1> DEFINE wants == [c \in Callers |-> IF pc[c] = "idle" THEN Nil ELSE key[c]]
<1>1. Init => Promise!Init
  BY DEF Init, NoEntry, Promise!Init, Promise!None
<1>2. IInv /\ [Next]_vars => [Promise!Next]_(Promise!vars)
  <2> SUFFICES ASSUME IInv, [Next]_vars PROVE [Promise!Next]_(Promise!vars)
    OBVIOUS
  <2>k. ASSUME NEW c \in Callers, pc[c] # "idle", wants' = [wants EXCEPT ![c] = Nil],
               UNCHANGED <<cache, delivered, now>>, key[c] \in Keys
        PROVE  Promise!Fails(c)
    BY <2>k, KeysAssumption DEF Promise!Fails, Promise!Leaves
  <2>1. ASSUME NEW c \in Callers, NEW k \in Keys, Call(c, k) PROVE Promise!Next
    <3>1. wants[c] = Nil /\ wants' = [wants EXCEPT ![c] = k]
      BY <2>1 DEF IInv, TypeOK, Call
    <3>2. Promise!Ask(c, k)
      BY <2>1, <3>1 DEF Call, Promise!Ask
    <3> QED BY <3>2 DEF Promise!Next
  <2>2. ASSUME NEW c \in Callers, Hit(c) PROVE Promise!Next
    <3>1. pc[c] = "waiting" /\ key[c] \in Keys
      BY <2>2, HeadWaits DEF IInv, Hit
    <3>2. wants[c] = key[c] /\ wants' = [wants EXCEPT ![c] = Nil]
      BY <2>2, <3>1 DEF IInv, TypeOK, Hit
    <3>3. Promise!FromCache(c, key[c])
      BY <2>2, <3>2 DEF Hit, Fresh, NoEntry, Promise!FromCache, Promise!Leaves, Promise!Kept, Promise!None
    <3> QED BY <3>1, <3>3 DEF Promise!Next
  <2>3. ASSUME NEW c \in Callers, Miss(c) PROVE UNCHANGED Promise!vars
    <3>1. pc[c] = "waiting"
      BY <2>3, HeadWaits DEF IInv, Miss
    <3>2. wants' = wants
      BY <2>3, <3>1 DEF IInv, TypeOK, Miss
    <3> QED BY <2>3, <3>2 DEF Miss, Promise!vars
  <2>4. ASSUME NEW c \in Callers, Return(c) PROVE Promise!Next
    <3>1. key[c] \in Keys /\ asked[c] \in 1..now
      BY <2>4 DEF IInv, LockInv, AnswersInv, Return
    <3>2. wants[c] = key[c] /\ wants' = [wants EXCEPT ![c] = Nil]
      BY <2>4 DEF IInv, TypeOK, Return
    <3>3. cache[key[c]] # NoEntry => asked[c] >= cache[key[c]].at + Ttl
      BY <2>4 DEF IInv, AnswersInv, Return
    <3>4. Promise!FromSsi(c, key[c])
      BY <2>4, <3>1, <3>2, <3>3
      DEF Return, Store, NoEntry, Promise!FromSsi, Promise!Leaves, Promise!None
    <3> QED BY <3>1, <3>4 DEF Promise!Next
  <2>5. ASSUME NEW c \in Callers, Raise(c) \/ CancelCalling(c) \/ CancelWaiting(c)
        PROVE  Promise!Next
    <3>1. pc[c] # "idle" /\ key[c] \in Keys
      BY <2>5 DEF IInv, QueueInv, LockInv, Raise, CancelCalling, CancelWaiting
    <3>2. pc' = [pc EXCEPT ![c] = "idle"] /\ UNCHANGED <<key, cache, delivered, now>>
      BY <2>5 DEF Raise, CancelCalling, CancelWaiting
    <3>3. wants' = [wants EXCEPT ![c] = Nil]
      BY <3>2 DEF IInv, TypeOK
    <3>4. Promise!Fails(c)
      BY <2>k, <3>1, <3>2, <3>3
    <3> QED BY <3>4 DEF Promise!Next
  <2>6. ASSUME NEW c \in Callers, Thread(c) PROVE UNCHANGED Promise!vars
    BY <2>6 DEF Thread, StartThread, Built, Answer, SdkRaises, Finish, Promise!vars
  <2>7. CASE Tick
    BY <2>7 DEF Tick, Promise!Next, Promise!Tick
  <2>8. CASE UNCHANGED vars
    BY <2>8 DEF vars, Promise!vars
  <2> QED
    BY <2>1, <2>2, <2>3, <2>4, <2>5, <2>6, <2>7, <2>8 DEF Next, Coroutine
<1> QED BY <1>1, <1>2, Invariance, PTL DEF Spec, PromiseSpec, Promise!Spec
=============================================================================
