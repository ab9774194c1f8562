---------------------------- MODULE ServiceProofs ----------------------------
(***************************************************************************)
(* Theorems about Service, for any number of calls, clients, connections   *)
(* and threads.                                                            *)
(***************************************************************************)
EXTENDS Service, SequenceLemmas, FiniteSetTheorems, TLAPS

-----------------------------------------------------------------------------
(* Programs and queues *)

SsiKinds == {"market", "account"}

\* A program asks SSI in all of its steps or in none.
LEMMA ProgramShape ==
    ASSUME NEW k \in Offered
    PROVE  /\ k # "none"
           /\ Len(Programs[k]) \in Nat \ {0}
           /\ \A i \in 1..Len(Programs[k]) : Programs[k][i] \in Clients <=> k \in SsiKinds
<1>1. DOMAIN Programs = {"query", "pdf", "ask", "market", "account", "refresh"}
  BY DEF Programs
<1>2. /\ k \in DOMAIN Programs
      /\ \A i \in 1..Len(Programs[k]) :
            Programs[k][i] \in {"db", "commit", "store", "gemini"} \cup Clients
  BY DEF Offered, ToSet
<1>3. CASE k \in {"query", "pdf", "ask"}
  <2>1. CASE k = "query"
    BY <2>1, SharesAssumption DEF Programs, SsiKinds
  <2>2. CASE k = "pdf"
    BY <2>2, SharesAssumption DEF Programs, SsiKinds
  <2>3. CASE k = "ask"
    BY <2>3, SharesAssumption DEF Programs, SsiKinds
  <2> QED BY <1>3, <2>1, <2>2, <2>3
<1>4. CASE k = "market"
  BY <1>4, <1>2 DEF Programs, SsiKinds
<1>5. CASE k = "account"
  BY <1>5, <1>2 DEF Programs, SsiKinds
<1>6. CASE k = "refresh"
  BY <1>6, SharesAssumption DEF Programs, SsiKinds
<1>7. k \in {"query", "pdf", "ask", "market", "account", "refresh"}
  BY <1>1, <1>2
<1> QED BY <1>3, <1>4, <1>5, <1>6, <1>7

\* A call is at most once in a sequence of this kind.
Once(q) == \A i, j \in 1..Len(q) : q[i] = q[j] => i = j

LEMMA WithoutIsShorter ==
    ASSUME NEW q \in Seq(Calls), Once(q), NEW c
    PROVE  /\ Without(q, c) \in Seq(Calls) /\ Once(Without(q, c))
           /\ \A i \in 1..Len(Without(q, c)) :
                Without(q, c)[i] # c /\ \E j \in 1..Len(q) : Without(q, c)[i] = q[j]
<1>1. CASE ~\E i \in 1..Len(q) : q[i] = c
  BY <1>1 DEF Without
<1>2. CASE \E i \in 1..Len(q) : q[i] = c
  <2> DEFINE n == CHOOSE i \in 1..Len(q) : q[i] = c
  <2>1. n \in 1..Len(q) /\ q[n] = c
    BY <1>2
  <2>2. Without(q, c) = RemoveAt(q, n)
    BY <1>2 DEF Without
  <2> HIDE DEF n
  <2>3. /\ Without(q, c) \in Seq(Calls)
        /\ Len(Without(q, c)) = Len(q) - 1
        /\ \A j \in 1..Len(q) - 1 : Without(q, c)[j] = IF j < n THEN q[j] ELSE q[j + 1]
    BY <2>1, <2>2, RemoveAtProperties
  <2>4. ASSUME NEW i \in 1..Len(q) - 1
        PROVE  Without(q, c)[i] # c /\ \E j \in 1..Len(q) : Without(q, c)[i] = q[j]
    <3>1. CASE i < n
      BY <2>1, <2>3, <3>1 DEF Once
    <3>2. CASE ~(i < n)
      <4>1. i + 1 \in 1..Len(q) /\ i + 1 # n
        BY <2>1, <3>2
      <4> QED BY <2>1, <2>3, <3>2, <4>1 DEF Once
    <3> QED BY <3>1, <3>2
  <2>5. Once(Without(q, c))
    <3> SUFFICES ASSUME NEW i \in 1..Len(q) - 1, NEW j \in 1..Len(q) - 1,
                        Without(q, c)[i] = Without(q, c)[j]
                 PROVE  i = j
      BY <2>3 DEF Once
    <3> DEFINE at_(x) == IF x < n THEN x ELSE x + 1
    <3>1. at_(i) \in 1..Len(q) /\ at_(j) \in 1..Len(q)
      BY <2>1
    <3>2. q[at_(i)] = q[at_(j)]
      BY <2>3
    <3>3. at_(i) = at_(j)
      BY <3>1, <3>2 DEF Once
    <3> QED BY <2>1, <3>3
  <2> QED BY <2>3, <2>4, <2>5
<1> QED BY <1>1, <1>2

-----------------------------------------------------------------------------
(* The inductive invariant *)

\* Only a call to SSI or to the object store waits for anything but the loop.
StagesInv == \A c \in Calls : stage[c] # "ready" => InSdk(c) \/ Awaits(c, "store")

\* Who waits for a lock needs it, and is in its queue once.
QueueInv ==
    \A s \in Clients :
        /\ Once(queue[s])
        /\ \A i \in 1..Len(queue[s]) :
            Awaits(queue[s][i], s) /\ stage[queue[s][i]] = "lock"

JobsInv == Once(jobs) /\ \A i \in 1..Len(jobs) : stage[jobs[i]] = "job"

\* Past the lock, a call to SSI holds it.
LockInv ==
    \A c \in Calls :
        InSdk(c) /\ stage[c] \in {"held", "job", "thread"} => holder[Step(c)] = c

IInv == TypeOK /\ StagesInv /\ QueueInv /\ JobsInv /\ LockInv /\ ConnectionsNeeded

LEMMA Initially == Init => IInv
<1> SUFFICES ASSUME Init PROVE IInv
  OBVIOUS
<1>1. TypeOK
  BY DEF Init, TypeOK, Active
<1>2. StagesInv /\ JobsInv /\ LockInv
  BY DEF Init, StagesInv, JobsInv, LockInv, Once, InSdk, Active
<1>3. QueueInv
  BY DEF Init, QueueInv, Once
<1>4. ConnectionsNeeded
  <2>1. Cardinality({}) = 0
    BY FS_EmptySet
  <2> QED BY <2>1, SharesAssumption DEF Init, ConnectionsNeeded
<1> QED BY <1>1, <1>2, <1>3, <1>4 DEF IInv

\* What the queue of a lock holds.
LEMMA Queued ==
    ASSUME IInv, NEW s \in Clients, NEW i \in 1..Len(queue[s])
    PROVE  queue[s][i] \in Calls /\ Awaits(queue[s][i], s) /\ stage[queue[s][i]] = "lock"
<1>1. queue[s] \in Seq(Calls)
  <2>1. queue \in [Clients -> Seq(Calls)]
    BY DEF IInv, TypeOK
  <2> QED BY <2>1
<1>2. queue[s][i] \in Calls
  BY <1>1
<1>3. Awaits(queue[s][i], s) /\ stage[queue[s][i]] = "lock"
  BY DEF IInv, QueueInv
<1> QED BY <1>2, <1>3

-----------------------------------------------------------------------------
(* Steps of one call *)

CallTypes ==
    /\ kind \in [Calls -> Offered \cup {"none"}]
    /\ at \in [Calls -> Nat]
    /\ \A c \in Calls : IF Active(c) THEN at[c] \in 1..Len(Programs[kind[c]]) ELSE at[c] = 0
    /\ stage \in [Calls -> {"ready", "lock", "held", "job", "thread"}]

\* A step that is over leaves its call ready, all others where they are, and no
\* connection with a call to SSI.
LEMMA OutcomeState ==
    ASSUME IInv, NEW c \in Calls, Active(c), Outcome(c) \/ End(c)
    PROVE  /\ CallTypes'
           /\ conns' \subseteq conns
           /\ \A d \in conns' : Active(d)' /\ ~InSdk(d)'
           /\ stage'[c] = "ready"
           /\ \A d \in Calls : d # c =>
                kind'[d] = kind[d] /\ at'[d] = at[d] /\ stage'[d] = stage[d]
<1>0. TypeOK /\ ConnectionsNeeded
  BY DEF IInv
<1>1. CASE End(c)
  <2>1. /\ kind' \in [Calls -> Offered \cup {"none"}] /\ kind'[c] = "none"
        /\ at' \in [Calls -> Nat] /\ at'[c] = 0
        /\ stage' \in [Calls -> {"ready", "lock", "held", "job", "thread"}]
        /\ stage'[c] = "ready" /\ conns' = conns \ {c}
        /\ \A d \in Calls : d # c =>
            kind'[d] = kind[d] /\ at'[d] = at[d] /\ stage'[d] = stage[d]
    BY <1>0, <1>1 DEF End, TypeOK
  <2>2. \A d \in Calls : IF Active(d)' THEN at'[d] \in 1..Len(Programs[kind'[d]]) ELSE at'[d] = 0
    BY <1>0, <2>1 DEF TypeOK, Active
  <2>3. \A d \in conns' : Active(d)' /\ ~InSdk(d)'
    BY <1>0, <2>1 DEF TypeOK, ConnectionsNeeded, Active, InSdk, Step
  <2> QED BY <2>1, <2>2, <2>3 DEF CallTypes
<1>2. CASE ~End(c)
  <2>1. /\ ~AtEnd(c)
        /\ at' = [at EXCEPT ![c] = @ + 1]
        /\ stage' = [stage EXCEPT ![c] = "ready"]
        /\ UNCHANGED <<kind, conns>>
    BY <1>2 DEF Outcome
  <2>2. /\ at' \in [Calls -> Nat] /\ at'[c] = at[c] + 1
        /\ stage' \in [Calls -> {"ready", "lock", "held", "job", "thread"}]
        /\ stage'[c] = "ready"
        /\ \A d \in Calls : d # c => at'[d] = at[d] /\ stage'[d] = stage[d]
    BY <1>0, <2>1 DEF TypeOK
  <2>3. kind[c] \in Offered /\ at[c] \in 1..Len(Programs[kind[c]])
    BY <1>0 DEF TypeOK, Active
  <2>4. at'[c] \in 1..Len(Programs[kind[c]])
    BY <2>1, <2>2, <2>3, ProgramShape DEF AtEnd
  <2>5. \A d \in Calls : IF Active(d)' THEN at'[d] \in 1..Len(Programs[kind'[d]]) ELSE at'[d] = 0
    BY <1>0, <2>1, <2>2, <2>4 DEF TypeOK, Active
  <2>6. ASSUME NEW d \in conns PROVE Active(d)' /\ ~InSdk(d)'
    <3>1. d \in Calls /\ Active(d) /\ ~InSdk(d)
      BY <1>0 DEF TypeOK, ConnectionsNeeded
    <3>2. CASE d # c
      BY <2>1, <2>2, <3>1, <3>2 DEF Active, InSdk, Step
    <3>3. CASE d = c
      BY <2>1, <2>3, <2>4, <3>1, <3>3, ProgramShape DEF Active, InSdk, Step
    <3> QED BY <3>2, <3>3
  <2> QED BY <1>0, <2>1, <2>2, <2>5, <2>6 DEF CallTypes, TypeOK
<1> QED BY <1>1, <1>2

LEMMA CallsFinite == \A S : S \subseteq Calls => IsFiniteSet(S) /\ Cardinality(S) \in Nat
BY SharesAssumption, FS_Subset, FS_CardinalityType

\* The lock of a client is given back by the call that leaves it, and by no other.
LEMMA Handover ==
    ASSUME IInv, NEW c \in Calls, Release(c) \/ UNCHANGED holder
    PROVE  /\ holder' \in [Clients -> Calls \cup {NoCall}]
           /\ \A s \in Clients : \A d \in Calls : d # c /\ holder[s] = d => holder'[s] = d
BY DEF IInv, TypeOK, Release

\* A call that is neither in a queue nor submitted ends its step.
LEMMA OutcomeStep ==
    ASSUME IInv, NEW c \in Calls, Active(c), Outcome(c) \/ End(c),
           stage[c] \notin {"lock", "job"}, Release(c) \/ UNCHANGED holder,
           UNCHANGED <<queue, pool>>
    PROVE  IInv'
<1>1. /\ CallTypes'
      /\ conns' \subseteq conns
      /\ \A d \in conns' : Active(d)' /\ ~InSdk(d)'
      /\ stage'[c] = "ready"
      /\ \A d \in Calls : d # c =>
            kind'[d] = kind[d] /\ at'[d] = at[d] /\ stage'[d] = stage[d]
  BY OutcomeState
<1>2. /\ holder' \in [Clients -> Calls \cup {NoCall}]
      /\ \A s \in Clients : \A d \in Calls : d # c /\ holder[s] = d => holder'[s] = d
  BY Handover
<1>3. TypeOK'
  BY <1>1, <1>2 DEF IInv, TypeOK, CallTypes, Active, pool
<1>4. StagesInv'
  BY <1>1 DEF IInv, StagesInv, InSdk, Awaits, Active, Step
<1>5. QueueInv'
  <2> SUFFICES ASSUME NEW s \in Clients, NEW i \in 1..Len(queue[s])
               PROVE  Awaits(queue[s][i], s)' /\ stage'[queue[s][i]] = "lock"
    BY DEF IInv, QueueInv
  <2>1. queue[s][i] \in Calls /\ Awaits(queue[s][i], s) /\ stage[queue[s][i]] = "lock"
    BY Queued
  <2> QED BY <1>1, <2>1 DEF Awaits, Active
<1>6. JobsInv'
  <2> SUFFICES ASSUME NEW i \in 1..Len(jobs) PROVE stage'[jobs[i]] = "job"
    BY DEF IInv, JobsInv, pool
  <2>1. jobs[i] \in Calls /\ stage[jobs[i]] = "job"
    BY DEF IInv, TypeOK, JobsInv
  <2> QED BY <1>1, <2>1
<1>7. LockInv'
  <2> SUFFICES ASSUME NEW d \in Calls, InSdk(d)', stage'[d] \in {"held", "job", "thread"}
               PROVE  holder'[Step(d)'] = d
    BY DEF LockInv
  <2>1. d # c /\ InSdk(d) /\ Step(d)' = Step(d) /\ Step(d) \in Clients
    BY <1>1 DEF InSdk, Active, Step
  <2> QED BY <1>1, <1>2, <2>1 DEF IInv, LockInv
<1>8. ConnectionsNeeded'
  <2>1. Cardinality(conns') <= Cardinality(conns)
    BY <1>1, CallsFinite, FS_Subset DEF IInv, TypeOK
  <2>2. Cardinality(conns') \in Nat /\ Cardinality(conns) \in Nat /\ PoolSize \in Nat
    BY <1>1, CallsFinite, SharesAssumption DEF IInv, TypeOK
  <2> QED BY <1>1, <2>1, <2>2 DEF IInv, ConnectionsNeeded
<1> QED BY <1>3, <1>4, <1>5, <1>6, <1>7, <1>8 DEF IInv

\* Whatever a call awaits on the event loop itself, it is ready.
LEMMA OnTheLoop ==
    ASSUME IInv, NEW c \in Calls, NEW w \in {"db", "commit", "gemini"}, Awaits(c, w)
    PROVE  Active(c) /\ ~InSdk(c) /\ stage[c] = "ready"
BY SharesAssumption DEF IInv, StagesInv, Awaits, InSdk, Step

LEMMA StartStep == ASSUME IInv, NEW c \in Calls, Start(c) PROVE IInv'
<1>1. PICK k \in Offered : kind' = [kind EXCEPT ![c] = k]
  BY DEF Start
<1>2. /\ kind' \in [Calls -> Offered \cup {"none"}] /\ kind'[c] = k
      /\ at' \in [Calls -> Nat] /\ at'[c] = 1
      /\ stage' \in [Calls -> {"ready", "lock", "held", "job", "thread"}]
      /\ stage'[c] = "ready" /\ conns' = conns
      /\ \A d \in Calls : d # c =>
            kind'[d] = kind[d] /\ at'[d] = at[d] /\ stage'[d] = stage[d]
      /\ UNCHANGED <<holder, queue, jobs, orphans>>
  BY <1>1 DEF IInv, TypeOK, Start, OpenSession, locks, pool
<1>3. \A d \in Calls : IF Active(d)' THEN at'[d] \in 1..Len(Programs[kind'[d]]) ELSE at'[d] = 0
  <2>1. k # "none" /\ 1 \in 1..Len(Programs[k])
    BY ProgramShape
  <2> TAKE d \in Calls
  <2>2. CASE d = c
    BY <1>2, <2>1, <2>2 DEF Active
  <2>3. CASE d # c
    BY <1>2, <2>3 DEF IInv, TypeOK, Active
  <2> QED BY <2>2, <2>3
<1>4. TypeOK'
  BY <1>2, <1>3 DEF IInv, TypeOK
<1>5. ~Active(c) /\ kind[c] = "none" /\ ~InSdk(c)
  BY DEF Start, Active, InSdk
<1>6. stage[c] = "ready"
  BY <1>5 DEF IInv, TypeOK, StagesInv, Awaits
<1>7. StagesInv'
  BY <1>2 DEF IInv, StagesInv, InSdk, Awaits, Active, Step
<1>8. QueueInv'
  <2> SUFFICES ASSUME NEW s \in Clients, NEW i \in 1..Len(queue[s])
               PROVE  Awaits(queue[s][i], s)' /\ stage'[queue[s][i]] = "lock"
    BY <1>2 DEF IInv, QueueInv
  <2>1. queue[s][i] \in Calls /\ Awaits(queue[s][i], s) /\ stage[queue[s][i]] = "lock"
    BY Queued
  <2> QED BY <1>2, <1>6, <2>1 DEF Awaits, Active
<1>9. JobsInv'
  <2> SUFFICES ASSUME NEW i \in 1..Len(jobs) PROVE stage'[jobs[i]] = "job"
    BY <1>2 DEF IInv, JobsInv
  <2>1. jobs[i] \in Calls /\ stage[jobs[i]] = "job"
    BY DEF IInv, TypeOK, JobsInv
  <2> QED BY <1>2, <1>6, <2>1
<1>10. LockInv'
  BY <1>2 DEF IInv, LockInv, InSdk, Active, Step
<1>11. ConnectionsNeeded'
  <2>1. \A d \in conns : d \in Calls /\ d # c
    BY <1>5 DEF IInv, TypeOK, ConnectionsNeeded
  <2> QED BY <1>2, <2>1 DEF IInv, ConnectionsNeeded, InSdk, Active, Step
<1> QED BY <1>4, <1>7, <1>8, <1>9, <1>10, <1>11 DEF IInv

LEMMA CheckOutStep == ASSUME IInv, NEW c \in Calls, CheckOut(c) PROVE IInv'
<1>1. UNCHANGED <<kind, at, stage, holder, queue, jobs, orphans>> /\ conns' = conns \cup {c}
  BY DEF CheckOut, locks, pool
<1>2. Active(c) /\ ~InSdk(c)
  BY OnTheLoop DEF CheckOut
<1>3. Cardinality(conns') <= PoolSize
  <2>1. Cardinality(conns') = Cardinality(conns) + 1
    BY <1>1, CallsFinite, FS_AddElement DEF IInv, TypeOK, CheckOut
  <2> QED BY <2>1, CallsFinite, SharesAssumption DEF IInv, TypeOK, CheckOut
<1>4. TypeOK' /\ StagesInv' /\ QueueInv' /\ JobsInv' /\ LockInv'
  BY <1>1 DEF IInv, TypeOK, StagesInv, QueueInv, JobsInv, LockInv, InSdk, Awaits, Active, Step
<1>5. ConnectionsNeeded'
  BY <1>1, <1>2, <1>3 DEF IInv, ConnectionsNeeded, InSdk, Active, Step
<1> QED BY <1>4, <1>5 DEF IInv

\* A commit in the middle of a program is the end of its step, with the
\* connection returned as well.
LEMMA CommitStep == ASSUME IInv, NEW c \in Calls, Commit(c) PROVE IInv'
<1>1. Active(c) /\ ~InSdk(c) /\ stage[c] = "ready"
  BY OnTheLoop DEF Commit
<1>2. UNCHANGED <<holder, queue, jobs, orphans>>
  BY DEF Commit, locks, pool
<1>3. CASE AtEnd(c)
  BY <1>1, <1>2, <1>3, OutcomeStep DEF Commit, pool
<1>4. CASE ~AtEnd(c)
  <2>1. /\ conns' = conns \ {c}
        /\ at' \in [Calls -> Nat] /\ at'[c] = at[c] + 1
        /\ \A d \in Calls : d # c => at'[d] = at[d]
        /\ UNCHANGED <<kind, stage>>
    BY <1>4 DEF IInv, TypeOK, Commit
  <2>2. kind[c] \in Offered /\ at[c] \in 1..Len(Programs[kind[c]])
    BY <1>1 DEF IInv, TypeOK, Active
  <2>3. at'[c] \in 1..Len(Programs[kind[c]])
    BY <1>4, <2>1, <2>2, ProgramShape DEF AtEnd
  <2>4. TypeOK'
    <3>1. \A d \in Calls :
            IF Active(d)' THEN at'[d] \in 1..Len(Programs[kind'[d]]) ELSE at'[d] = 0
      <4> TAKE d \in Calls
      <4>1. CASE d = c
        BY <1>1, <2>1, <2>3, <4>1 DEF Active
      <4>2. CASE d # c
        BY <2>1, <4>2 DEF IInv, TypeOK, Active
      <4> QED BY <4>1, <4>2
    <3>2. conns' \subseteq Calls
      BY <2>1 DEF IInv, TypeOK
    <3> QED BY <1>2, <2>1, <3>1, <3>2 DEF IInv, TypeOK
  <2>5. \A d \in Calls : d # c => (InSdk(d)' <=> InSdk(d)) /\ Step(d)' = Step(d)
    BY <2>1 DEF InSdk, Active, Step
  <2>6. StagesInv' /\ LockInv'
    BY <1>1, <1>2, <2>1, <2>5 DEF IInv, StagesInv, LockInv, Awaits, Active, Step
  <2>7. QueueInv'
    <3> SUFFICES ASSUME NEW s \in Clients, NEW i \in 1..Len(queue[s])
                 PROVE  Awaits(queue[s][i], s)' /\ stage'[queue[s][i]] = "lock"
      BY <1>2 DEF IInv, QueueInv
    <3>1. queue[s][i] \in Calls /\ Awaits(queue[s][i], s) /\ stage[queue[s][i]] = "lock"
      BY Queued
    <3>2. queue[s][i] # c
      BY <1>1, <3>1
    <3>3. at'[queue[s][i]] = at[queue[s][i]] /\ kind' = kind /\ stage' = stage
      BY <2>1, <3>1, <3>2
    <3> QED BY <1>2, <3>1, <3>3 DEF Awaits, Active
  <2>8. JobsInv'
    BY <1>2, <2>1 DEF IInv, JobsInv
  <2>9. ConnectionsNeeded'
    <3>1. Cardinality(conns') <= Cardinality(conns)
      BY <2>1, CallsFinite, FS_Subset DEF IInv, TypeOK
    <3>2. Cardinality(conns') \in Nat /\ Cardinality(conns) \in Nat /\ PoolSize \in Nat
      BY <2>1, CallsFinite, SharesAssumption DEF IInv, TypeOK
    <3> QED BY <2>1, <2>5, <3>1, <3>2 DEF IInv, TypeOK, ConnectionsNeeded, Active
  <2> QED BY <2>4, <2>6, <2>7, <2>8, <2>9 DEF IInv
<1> QED BY <1>3, <1>4

LEMMA LoopStep ==
    ASSUME IInv, NEW c \in Calls, PoolTimeout(c) \/ Statement(c) \/ GeminiAnswers(c)
    PROVE  IInv'
<1>1. Active(c) /\ stage[c] = "ready"
  BY OnTheLoop DEF PoolTimeout, Statement, GeminiAnswers
<1>2. (Outcome(c) \/ End(c)) /\ UNCHANGED holder /\ UNCHANGED <<queue, pool>>
  BY DEF PoolTimeout, Statement, GeminiAnswers, locks
<1> QED BY <1>1, <1>2, OutcomeStep

\* A call comes back from its thread, or from the cache.
LEMMA ReturnStep ==
    ASSUME IInv, NEW c \in Calls, CacheHit(c) \/ Returned(c)
    PROVE  IInv'
<1>1. stage[c] \in {"held", "thread"} /\ Release(c) /\ Outcome(c) /\ UNCHANGED <<queue, pool>>
  BY DEF CacheHit, Returned
<1>2. Active(c)
  BY <1>1 DEF IInv, StagesInv, InSdk, Awaits
<1> QED BY <1>1, <1>2, OutcomeStep

-----------------------------------------------------------------------------
(* Steps of the locks and of the executor *)

\* Steps at which no call begins, goes on or ends: it is enough to look at stages.
LEMMA SameCalls ==
    ASSUME IInv, UNCHANGED <<kind, at, conns>>,
           stage' \in [Calls -> {"ready", "lock", "held", "job", "thread"}],
           holder' \in [Clients -> Calls \cup {NoCall}],
           queue' \in [Clients -> Seq(Calls)],
           jobs' \in Seq(Calls),
           orphans' \in [{"sdk", "store"} -> Nat]
    PROVE  TypeOK' /\ ConnectionsNeeded'
BY DEF IInv, TypeOK, ConnectionsNeeded, Active, InSdk, Step

\* Appending a call that is not there yet.
LEMMA AppendOnce ==
    ASSUME NEW q \in Seq(Calls), Once(q), NEW c \in Calls, \A i \in 1..Len(q) : q[i] # c
    PROVE  /\ Append(q, c) \in Seq(Calls) /\ Once(Append(q, c))
           /\ \A i \in 1..Len(Append(q, c)) :
                Append(q, c)[i] = c \/ \E j \in 1..Len(q) : Append(q, c)[i] = q[j]
<1>1. /\ Append(q, c) \in Seq(Calls) /\ Len(Append(q, c)) = Len(q) + 1
      /\ \A i \in 1..Len(q) : Append(q, c)[i] = q[i]
      /\ Append(q, c)[Len(q) + 1] = c
  OBVIOUS
<1>2. Once(Append(q, c))
  BY <1>1 DEF Once
<1> QED BY <1>1, <1>2

\* The first call of a sequence, and those behind it.
LEMMA HeadOnce ==
    ASSUME NEW q \in Seq(Calls), Once(q), q # <<>>
    PROVE  /\ Head(q) \in Calls /\ Head(q) = q[1] /\ 1 \in 1..Len(q)
           /\ Tail(q) \in Seq(Calls) /\ Once(Tail(q))
           /\ \A i \in 1..Len(Tail(q)) :
                /\ Tail(q)[i] # Head(q)
                /\ \E j \in 1..Len(q) : Tail(q)[i] = q[j]
<1>1. /\ Head(q) \in Calls /\ Head(q) = q[1] /\ 1 \in 1..Len(q)
      /\ Tail(q) \in Seq(Calls) /\ Len(Tail(q)) = Len(q) - 1
      /\ \A i \in 1..Len(q) - 1 : Tail(q)[i] = q[i + 1] /\ i + 1 \in 1..Len(q)
  OBVIOUS
<1>2. Once(Tail(q))
  BY <1>1 DEF Once
<1>3. \A i \in 1..Len(q) - 1 : Tail(q)[i] # Head(q)
  BY <1>1 DEF Once
<1> QED BY <1>1, <1>2, <1>3

LEMMA WaitStep == ASSUME IInv, NEW c \in Calls, WaitForLock(c) PROVE IInv'
<1> DEFINE s == Step(c)
<1>1. /\ s \in Clients /\ InSdk(c) /\ Awaits(c, s) /\ stage[c] = "ready"
      /\ stage' = [stage EXCEPT ![c] = "lock"]
      /\ queue' = [queue EXCEPT ![s] = Append(@, c)]
      /\ UNCHANGED <<kind, at, conns, holder, jobs, orphans>>
  BY DEF WaitForLock, InSdk, Awaits, Step, pool
<1>2. /\ queue[s] \in Seq(Calls) /\ Once(queue[s])
      /\ \A i \in 1..Len(queue[s]) : queue[s][i] # c
  BY <1>1 DEF IInv, TypeOK, QueueInv
<1> HIDE DEF s
<1> DEFINE longer == Append(queue[s], c)
<1>3. /\ longer \in Seq(Calls) /\ Once(longer)
      /\ \A i \in 1..Len(longer) :
            longer[i] = c \/ \E j \in 1..Len(queue[s]) : longer[i] = queue[s][j]
  BY <1>2, AppendOnce
<1>4. queue' = [queue EXCEPT ![s] = longer]
  BY <1>1
<1> HIDE DEF longer
<1>5. TypeOK' /\ ConnectionsNeeded'
  <2>1. stage' \in [Calls -> {"ready", "lock", "held", "job", "thread"}]
        /\ queue' \in [Clients -> Seq(Calls)]
    BY <1>1, <1>3, <1>4 DEF IInv, TypeOK
  <2> QED BY <1>1, <2>1, SameCalls DEF IInv, TypeOK
<1>6. StagesInv' /\ JobsInv' /\ LockInv'
  <2>1. \A i \in 1..Len(jobs) : jobs[i] \in Calls /\ jobs[i] # c
    BY <1>1 DEF IInv, TypeOK, JobsInv
  <2>2. \A d \in Calls : stage'[d] = IF d = c THEN "lock" ELSE stage[d]
    BY <1>1 DEF IInv, TypeOK
  <2>3. JobsInv'
    BY <1>1, <2>1, <2>2 DEF IInv, JobsInv
  <2> QED BY <1>1, <2>2, <2>3 DEF IInv, StagesInv, LockInv, InSdk, Awaits, Active, Step
<1>7. QueueInv'
  <2> SUFFICES ASSUME NEW t \in Clients
               PROVE  /\ Once(queue[t])'
                      /\ \A i \in 1..Len(queue'[t]) :
                            Awaits(queue[t][i], t)' /\ stage'[queue'[t][i]] = "lock"
    BY DEF QueueInv
  <2>0. \A d \in Calls : stage'[d] = IF d = c THEN "lock" ELSE stage[d]
    BY <1>1 DEF IInv, TypeOK
  <2>1. /\ Once(queue[t])
        /\ \A i \in 1..Len(queue[t]) :
            queue[t][i] \in Calls /\ Awaits(queue[t][i], t) /\ stage[queue[t][i]] = "lock"
    BY Queued DEF IInv, QueueInv
  <2>2. CASE t = s
    <3>1. queue'[t] = longer
      BY <1>4, <2>2 DEF IInv, TypeOK
    <3>2. ASSUME NEW i \in 1..Len(longer)
          PROVE  longer[i] \in Calls /\ Awaits(longer[i], t) /\ stage'[longer[i]] = "lock"
      BY <1>1, <1>3, <2>0, <2>1, <2>2
    <3> QED BY <1>1, <1>3, <3>1, <3>2 DEF Awaits, Active
  <2>3. CASE t # s
    <3>1. queue'[t] = queue[t]
      BY <1>4, <2>3 DEF IInv, TypeOK
    <3> QED BY <1>1, <2>0, <2>1, <3>1 DEF Awaits, Active
  <2> QED BY <2>2, <2>3
<1> QED BY <1>5, <1>6, <1>7 DEF IInv

LEMMA AcquireStep == ASSUME IInv, NEW s \in Clients, Acquire(s) PROVE IInv'
<1> DEFINE h == Head(queue[s])
           rest == Tail(queue[s])
<1>1. /\ holder[s] = NoCall
      /\ holder' = [holder EXCEPT ![s] = h]
      /\ queue' = [queue EXCEPT ![s] = rest]
      /\ stage' = [stage EXCEPT ![h] = "held"]
      /\ UNCHANGED <<kind, at, conns, jobs, orphans>>
  BY DEF Acquire, pool
<1>2. queue[s] \in Seq(Calls) /\ Once(queue[s]) /\ queue[s] # <<>>
  BY DEF IInv, TypeOK, QueueInv, Acquire
<1>3. /\ h \in Calls /\ h = queue[s][1] /\ 1 \in 1..Len(queue[s])
      /\ rest \in Seq(Calls) /\ Once(rest)
      /\ \A i \in 1..Len(rest) :
            rest[i] # h /\ \E j \in 1..Len(queue[s]) : rest[i] = queue[s][j]
  BY <1>2, HeadOnce
<1> HIDE DEF h, rest
<1>4. Awaits(h, s) /\ stage[h] = "lock" /\ InSdk(h) /\ Step(h) = s
  BY <1>3 DEF IInv, QueueInv, Awaits, InSdk, Step
<1>5. \A d \in Calls : stage'[d] = IF d = h THEN "held" ELSE stage[d]
  BY <1>1, <1>3 DEF IInv, TypeOK
<1>6. TypeOK' /\ ConnectionsNeeded'
  <2>1. stage' \in [Calls -> {"ready", "lock", "held", "job", "thread"}]
        /\ queue' \in [Clients -> Seq(Calls)] /\ holder' \in [Clients -> Calls \cup {NoCall}]
    BY <1>1, <1>3 DEF IInv, TypeOK
  <2> QED BY <1>1, <2>1, SameCalls DEF IInv, TypeOK
<1>7. StagesInv' /\ JobsInv'
  <2>1. \A i \in 1..Len(jobs) : jobs[i] \in Calls /\ jobs[i] # h
    BY <1>4 DEF IInv, TypeOK, JobsInv
  <2>2. JobsInv'
    BY <1>1, <1>5, <2>1 DEF IInv, JobsInv
  <2> QED BY <1>1, <1>4, <1>5, <2>2 DEF IInv, StagesInv, InSdk, Awaits, Active, Step
<1>8. LockInv'
  <2> SUFFICES ASSUME NEW d \in Calls, InSdk(d), stage'[d] \in {"held", "job", "thread"}
               PROVE  holder'[Step(d)] = d
    BY <1>1 DEF LockInv, InSdk, Active, Step
  <2>1. Step(d) \in Clients /\ holder \in [Clients -> Calls \cup {NoCall}]
    BY DEF InSdk, IInv, TypeOK
  <2>2. CASE d = h
    BY <1>1, <1>4, <2>1, <2>2
  <2>3. CASE d # h
    <3>1. holder[Step(d)] = d
      BY <1>5, <2>3 DEF IInv, LockInv
    <3>2. Step(d) # s
      BY <1>1, <3>1, SharesAssumption
    <3> QED BY <1>1, <2>1, <3>1, <3>2
  <2> QED BY <2>2, <2>3
<1>9. QueueInv'
  <2> SUFFICES ASSUME NEW t \in Clients
               PROVE  /\ Once(queue[t])'
                      /\ \A i \in 1..Len(queue'[t]) :
                            Awaits(queue[t][i], t)' /\ stage'[queue'[t][i]] = "lock"
    BY DEF QueueInv
  <2>1. /\ Once(queue[t])
        /\ \A i \in 1..Len(queue[t]) :
            queue[t][i] \in Calls /\ Awaits(queue[t][i], t) /\ stage[queue[t][i]] = "lock"
    BY Queued DEF IInv, QueueInv
  <2>2. CASE t = s
    <3>1. queue'[t] = rest
      BY <1>1, <2>2 DEF IInv, TypeOK
    <3>2. ASSUME NEW i \in 1..Len(rest)
          PROVE  rest[i] \in Calls /\ Awaits(rest[i], t) /\ stage'[rest[i]] = "lock"
      BY <1>3, <1>5, <2>1, <2>2
    <3> QED BY <1>1, <1>3, <3>1, <3>2 DEF Awaits, Active
  <2>3. CASE t # s
    <3>1. queue'[t] = queue[t]
      BY <1>1, <2>3 DEF IInv, TypeOK
    <3>2. \A i \in 1..Len(queue[t]) : queue[t][i] # h
      BY <1>4, <2>1, <2>3 DEF Awaits
    <3> QED BY <1>1, <1>5, <2>1, <3>1, <3>2 DEF Awaits, Active
  <2> QED BY <2>2, <2>3
<1> QED BY <1>6, <1>7, <1>8, <1>9 DEF IInv

\* The queues of the locks do not mind what calls do that are not in them.
LEMMA QueuesKept ==
    ASSUME IInv, NEW c \in Calls, stage[c] # "lock", UNCHANGED <<kind, at, queue>>,
           \A d \in Calls : d # c => stage'[d] = stage[d]
    PROVE  QueueInv'
<1> SUFFICES ASSUME NEW s \in Clients, NEW i \in 1..Len(queue[s])
             PROVE  Awaits(queue[s][i], s)' /\ stage'[queue[s][i]] = "lock"
  BY DEF IInv, QueueInv
<1>1. queue[s][i] \in Calls /\ Awaits(queue[s][i], s) /\ stage[queue[s][i]] = "lock"
  BY Queued
<1> QED BY <1>1 DEF Awaits, Active

LEMMA SubmitStep == ASSUME IInv, NEW c \in Calls, Submit(c) PROVE IInv'
<1>1. /\ stage[c] \in {"held", "ready"}
      /\ stage' = [stage EXCEPT ![c] = "job"]
      /\ jobs' = Append(jobs, c)
      /\ UNCHANGED <<kind, at, conns, holder, queue, orphans>>
  BY DEF Submit, locks
<1>2. \A d \in Calls : stage'[d] = IF d = c THEN "job" ELSE stage[d]
  BY <1>1 DEF IInv, TypeOK
<1>3. jobs \in Seq(Calls) /\ Once(jobs) /\ \A i \in 1..Len(jobs) : jobs[i] # c
  BY <1>1 DEF IInv, TypeOK, JobsInv
<1> DEFINE longer == Append(jobs, c)
<1>4. /\ longer \in Seq(Calls) /\ Once(longer)
      /\ \A i \in 1..Len(longer) :
            longer[i] = c \/ \E j \in 1..Len(jobs) : longer[i] = jobs[j]
  BY <1>3, AppendOnce
<1>5. jobs' = longer
  BY <1>1
<1> HIDE DEF longer
<1>6. TypeOK' /\ ConnectionsNeeded'
  <2>1. stage' \in [Calls -> {"ready", "lock", "held", "job", "thread"}]
    BY <1>1 DEF IInv, TypeOK
  <2> QED BY <1>1, <1>4, <1>5, <2>1, SameCalls DEF IInv, TypeOK
<1>7. JobsInv'
  <2>1. ASSUME NEW i \in 1..Len(longer) PROVE stage'[longer[i]] = "job"
    <3>1. CASE longer[i] = c
      BY <1>2, <3>1
    <3>2. ASSUME NEW j \in 1..Len(jobs), longer[i] = jobs[j] PROVE stage'[longer[i]] = "job"
      <4>1. jobs[j] \in Calls /\ stage[jobs[j]] = "job"
        BY DEF IInv, TypeOK, JobsInv
      <4> QED BY <1>2, <3>2, <4>1
    <3> QED BY <1>4, <3>1, <3>2
  <2> QED BY <1>4, <1>5, <2>1 DEF JobsInv
<1>8. QueueInv'
  BY <1>1, <1>2, QueuesKept
<1>9. InSdk(c) \/ Awaits(c, "store")
  BY <1>1 DEF IInv, StagesInv, Submit, NoLockFor
<1>10. StagesInv'
  BY <1>1, <1>2, <1>9 DEF IInv, StagesInv, InSdk, Awaits, Active, Step
<1>11. InSdk(c) => holder[Step(c)] = c
  <2>1. InSdk(c) => ~NoLockFor(c)
    BY SharesAssumption DEF NoLockFor, InSdk, Awaits, Step
  <2> QED BY <2>1 DEF IInv, LockInv, Submit
<1>12. LockInv'
  BY <1>1, <1>2, <1>11 DEF IInv, LockInv, InSdk, Active, Step
<1> QED BY <1>6, <1>7, <1>8, <1>10, <1>12 DEF IInv

LEMMA JobStep == ASSUME IInv, StartJob PROVE IInv'
<1> DEFINE h == Head(jobs)
           rest == Tail(jobs)
<1>1. /\ stage' = [stage EXCEPT ![h] = "thread"]
      /\ jobs' = rest
      /\ UNCHANGED <<kind, at, conns, holder, queue, orphans>>
  BY DEF StartJob, locks
<1>2. jobs \in Seq(Calls) /\ Once(jobs) /\ jobs # <<>>
  BY DEF IInv, TypeOK, JobsInv, StartJob
<1>3. /\ h \in Calls /\ h = jobs[1] /\ 1 \in 1..Len(jobs)
      /\ rest \in Seq(Calls) /\ Once(rest)
      /\ \A i \in 1..Len(rest) :
            rest[i] # h /\ \E j \in 1..Len(jobs) : rest[i] = jobs[j]
  BY <1>2, HeadOnce
<1> HIDE DEF h, rest
<1>4. stage[h] = "job"
  BY <1>3 DEF IInv, JobsInv
<1>5. \A d \in Calls : stage'[d] = IF d = h THEN "thread" ELSE stage[d]
  BY <1>1, <1>3 DEF IInv, TypeOK
<1>6. TypeOK' /\ ConnectionsNeeded'
  <2>1. stage' \in [Calls -> {"ready", "lock", "held", "job", "thread"}]
    BY <1>1 DEF IInv, TypeOK
  <2> QED BY <1>1, <1>3, <2>1, SameCalls DEF IInv, TypeOK
<1>7. JobsInv'
  <2>1. ASSUME NEW i \in 1..Len(rest) PROVE stage'[rest[i]] = "job"
    BY <1>3, <1>5 DEF IInv, TypeOK, JobsInv
  <2> QED BY <1>1, <1>3, <2>1 DEF JobsInv
<1>8. QueueInv'
  BY <1>1, <1>3, <1>4, <1>5, QueuesKept
<1>9. StagesInv' /\ LockInv'
  BY <1>1, <1>4, <1>5 DEF IInv, StagesInv, LockInv, InSdk, Awaits, Active, Step
<1> QED BY <1>6, <1>7, <1>8, <1>9 DEF IInv

LEMMA OrphanStep == ASSUME IInv, NEW w \in {"sdk", "store"}, OrphanEnds(w) PROVE IInv'
<1>1. UNCHANGED <<kind, at, stage, conns, holder, queue, jobs>>
  BY DEF OrphanEnds, locks
<1>2. orphans' \in [{"sdk", "store"} -> Nat]
  BY DEF OrphanEnds, IInv, TypeOK
<1>3. TypeOK' /\ ConnectionsNeeded'
  BY <1>1, <1>2, SameCalls DEF IInv, TypeOK
<1> QED
  BY <1>1, <1>3 DEF IInv, StagesInv, QueueInv, JobsInv, LockInv, InSdk, Awaits, Active, Step

\* A cancelled call is in no queue afterwards, and what it held is free.
LEMMA CancelStep == ASSUME IInv, NEW c \in Calls, Cancel(c) PROVE IInv'
<1>1. /\ CallTypes'
      /\ conns' \subseteq conns
      /\ \A d \in conns' : Active(d)' /\ ~InSdk(d)'
      /\ stage'[c] = "ready"
      /\ \A d \in Calls : d # c =>
            kind'[d] = kind[d] /\ at'[d] = at[d] /\ stage'[d] = stage[d]
  BY OutcomeState DEF Cancel
<1>2. /\ holder' \in [Clients -> Calls \cup {NoCall}]
      /\ \A s \in Clients : \A d \in Calls : d # c /\ holder[s] = d => holder'[s] = d
  BY Handover DEF Cancel
<1>3. orphans' \in [{"sdk", "store"} -> Nat]
  BY DEF Cancel, IInv, TypeOK
<1>4. /\ Without(jobs, c) \in Seq(Calls) /\ Once(Without(jobs, c))
      /\ \A i \in 1..Len(Without(jobs, c)) :
            Without(jobs, c)[i] # c /\ \E j \in 1..Len(jobs) : Without(jobs, c)[i] = jobs[j]
  BY WithoutIsShorter DEF IInv, TypeOK, JobsInv
<1>5. ASSUME NEW s \in Clients
      PROVE  /\ Without(queue[s], c) \in Seq(Calls) /\ Once(Without(queue[s], c))
             /\ \A i \in 1..Len(Without(queue[s], c)) :
                    /\ Without(queue[s], c)[i] # c
                    /\ \E j \in 1..Len(queue[s]) : Without(queue[s], c)[i] = queue[s][j]
  <2>1. queue[s] \in Seq(Calls) /\ Once(queue[s])
    BY DEF IInv, TypeOK, QueueInv
  <2> QED BY <2>1, WithoutIsShorter
<1>6. jobs' = Without(jobs, c) /\ queue' = [s \in Clients |-> Without(queue[s], c)]
  BY DEF Cancel
<1>7. TypeOK'
  <2>1. queue' \in [Clients -> Seq(Calls)] /\ conns' \subseteq Calls
    BY <1>1, <1>5, <1>6 DEF IInv, TypeOK
  <2> QED BY <1>1, <1>2, <1>3, <1>4, <1>6, <2>1 DEF TypeOK, CallTypes, Active
<1>8. StagesInv'
  BY <1>1 DEF IInv, StagesInv, InSdk, Awaits, Active, Step
<1>9. QueueInv'
  <2> SUFFICES ASSUME NEW s \in Clients, NEW i \in 1..Len(Without(queue[s], c))
               PROVE  Awaits(queue[s][i], s)' /\ stage'[queue'[s][i]] = "lock"
    BY <1>5, <1>6 DEF QueueInv
  <2> DEFINE d == Without(queue[s], c)[i]
  <2>1. d # c /\ \E j \in 1..Len(queue[s]) : d = queue[s][j]
    BY <1>5
  <2>2. queue'[s][i] = d
    BY <1>6
  <2> HIDE DEF d
  <2>3. d \in Calls /\ Awaits(d, s) /\ stage[d] = "lock"
    BY <2>1 DEF IInv, TypeOK, QueueInv
  <2> QED BY <1>1, <2>1, <2>2, <2>3 DEF Awaits, Active
<1>10. JobsInv'
  <2>1. ASSUME NEW i \in 1..Len(Without(jobs, c)) PROVE stage'[Without(jobs, c)[i]] = "job"
    BY <1>1, <1>4 DEF IInv, TypeOK, JobsInv
  <2> QED BY <1>4, <1>6, <2>1 DEF JobsInv
<1>11. LockInv'
  <2> SUFFICES ASSUME NEW d \in Calls, InSdk(d)', stage'[d] \in {"held", "job", "thread"}
               PROVE  holder'[Step(d)'] = d
    BY DEF LockInv
  <2>1. d # c /\ InSdk(d) /\ Step(d)' = Step(d) /\ Step(d) \in Clients
    BY <1>1 DEF InSdk, Active, Step
  <2> QED BY <1>1, <1>2, <2>1 DEF IInv, LockInv
<1>12. ConnectionsNeeded'
  <2>1. Cardinality(conns') <= Cardinality(conns)
    BY <1>1, CallsFinite, FS_Subset DEF IInv, TypeOK
  <2>2. Cardinality(conns') \in Nat /\ Cardinality(conns) \in Nat /\ PoolSize \in Nat
    BY <1>1, CallsFinite, SharesAssumption DEF IInv, TypeOK
  <2> QED BY <1>1, <2>1, <2>2 DEF IInv, ConnectionsNeeded
<1> QED BY <1>7, <1>8, <1>9, <1>10, <1>11, <1>12 DEF IInv

LEMMA Inductive == IInv /\ [Next]_vars => IInv'
<1> SUFFICES ASSUME IInv, [Next]_vars PROVE IInv'
  OBVIOUS
<1>1. ASSUME NEW c \in Calls, Start(c) \/ CheckOut(c) \/ Commit(c) PROVE IInv'
  BY <1>1, StartStep, CheckOutStep, CommitStep
<1>2. ASSUME NEW c \in Calls, PoolTimeout(c) \/ Statement(c) \/ GeminiAnswers(c) PROVE IInv'
  BY <1>2, LoopStep
<1>3. ASSUME NEW c \in Calls, WaitForLock(c) \/ Submit(c) \/ Cancel(c) PROVE IInv'
  BY <1>3, WaitStep, SubmitStep, CancelStep
<1>4. ASSUME NEW c \in Calls, CacheHit(c) \/ StoreReturns(c) \/ SdkReturns(c) PROVE IInv'
  BY <1>4, ReturnStep DEF StoreReturns, SdkReturns
<1>5. CASE UNCHANGED vars
  BY <1>5 DEF IInv, TypeOK, StagesInv, QueueInv, JobsInv, LockInv, ConnectionsNeeded,
              InSdk, Awaits, Active, Step, vars
<1> QED BY <1>1, <1>2, <1>3, <1>4, <1>5, AcquireStep, JobStep, OrphanStep DEF Next

LEMMA Invariance == Spec => []IInv
BY Initially, Inductive, PTL DEF Spec

-----------------------------------------------------------------------------
(* Theorems *)

\* Every variable keeps its type; a call is always at a step of its program.
THEOREM TypeCorrectness == Spec => []TypeOK
BY Invariance, PTL DEF IInv

\* Calls to SSI and calls that have ended hold no connection, however they ended.
THEOREM Connections == Spec => []ConnectionsNeeded
BY Invariance, PTL DEF IInv

\* The calls inside an SDK hold their locks, of which there is one per client.
THEOREM OneThreadEach == Spec => []ThreadsForReports
<1>1. IInv => ThreadsForReports
  <2> SUFFICES ASSUME IInv PROVE ThreadsForReports
    OBVIOUS
  <2> DEFINE Inside == {c \in InThread : InSdk(c)}
             Of == [c \in Inside |-> Step(c)]
  <2>1. \A c \in Inside : c \in Calls /\ Step(c) \in Clients /\ holder[Step(c)] = c
    BY DEF IInv, LockInv, InThread, InSdk
  <2>2. Of \in Injection(Inside, Clients)
    BY <2>1 DEF Injection, IsInjective
  <2>3. IsFiniteSet(Clients)
    <3>1. IsFiniteSet({"data"})
      BY FS_Singleton
    <3>2. IsFiniteSet({"data"} \cup {"trading"})
      BY <3>1, FS_AddElement
    <3>3. {"data"} \cup {"trading"} = {"data", "trading"}
      OBVIOUS
    <3> QED BY <3>2, <3>3, SharesAssumption, FS_Subset
  <2> HIDE DEF Inside, Of
  <2>4. Cardinality(Inside) <= Cardinality(Clients)
    BY <2>2, <2>3, FS_Injection
  <2> QED BY <2>4 DEF ThreadsForReports, Inside
<1> QED BY <1>1, Invariance, PTL

-----------------------------------------------------------------------------
(* What calls leave behind *)

LEMMA Elements ==
    ASSUME NEW q \in Seq(Calls)
    PROVE  /\ \A i \in 1..Len(q) : q[i] \in ToSet(q)
           /\ \A d \in ToSet(q) : \E i \in 1..Len(q) : q[i] = d
BY DEF ToSet

\* Who is in a sequence after a call has joined it, has been taken from its head, or
\* has been cancelled.
LEMMA Members ==
    ASSUME NEW q \in Seq(Calls), NEW c \in Calls
    PROVE  /\ ToSet(Append(q, c)) = ToSet(q) \cup {c}
           /\ q # <<>> => ToSet(q) \subseteq ToSet(Tail(q)) \cup {Head(q)}
<1>1. /\ Append(q, c) \in Seq(Calls) /\ Len(Append(q, c)) = Len(q) + 1
      /\ \A i \in 1..Len(q) : Append(q, c)[i] = q[i]
      /\ Append(q, c)[Len(q) + 1] = c
  OBVIOUS
<1>2. ToSet(Append(q, c)) = ToSet(q) \cup {c}
  BY <1>1 DEF ToSet
<1>3. ASSUME q # <<>>, NEW i \in 1..Len(q)
      PROVE  q[i] \in ToSet(Tail(q)) \cup {Head(q)}
  <2>1. /\ Tail(q) \in Seq(Calls) /\ Len(Tail(q)) = Len(q) - 1 /\ Head(q) = q[1]
        /\ \A j \in 1..Len(q) - 1 : Tail(q)[j] = q[j + 1]
    BY <1>3
  <2>2. CASE i = 1
    BY <2>1, <2>2
  <2>3. CASE i # 1
    <3>1. i - 1 \in 1..Len(q) - 1 /\ Tail(q)[i - 1] = q[i]
      BY <2>1, <2>3
    <3> QED BY <2>1, <3>1, Elements
  <2> QED BY <2>2, <2>3
<1> QED BY <1>2, <1>3, Elements

LEMMA OthersStay ==
    ASSUME NEW q \in Seq(Calls), NEW c, NEW d \in ToSet(q), d # c
    PROVE  d \in ToSet(Without(q, c))
<1>1. CASE ~\E i \in 1..Len(q) : q[i] = c
  BY <1>1 DEF Without
<1>2. CASE \E i \in 1..Len(q) : q[i] = c
  <2> DEFINE n == CHOOSE i \in 1..Len(q) : q[i] = c
  <2>1. n \in 1..Len(q) /\ q[n] = c
    BY <1>2
  <2>2. Without(q, c) = RemoveAt(q, n)
    BY <1>2 DEF Without
  <2> HIDE DEF n
  <2>3. /\ Without(q, c) \in Seq(Calls)
        /\ Len(Without(q, c)) = Len(q) - 1
        /\ \A j \in 1..Len(q) - 1 : Without(q, c)[j] = IF j < n THEN q[j] ELSE q[j + 1]
    BY <2>1, <2>2, RemoveAtProperties
  <2>4. PICK i \in 1..Len(q) : q[i] = d
    BY DEF ToSet
  <2>5. CASE i < n
    <3>1. i \in 1..Len(q) - 1 /\ Without(q, c)[i] = d
      BY <2>1, <2>3, <2>4, <2>5
    <3> QED BY <2>3, <3>1 DEF ToSet
  <2>6. CASE ~(i < n)
    <3>1. i # n
      BY <2>1, <2>4
    <3>2. i - 1 \in 1..Len(q) - 1 /\ ~(i - 1 < n) /\ i - 1 + 1 = i
      BY <2>1, <2>6, <3>1
    <3>3. Without(q, c)[i - 1] = d
      BY <2>3, <2>4, <3>2
    <3> QED BY <2>3, <3>2, <3>3 DEF ToSet
  <2> QED BY <2>5, <2>6
<1> QED BY <1>1, <1>2

\* A call is at its place: at the lock that it holds, or where it will be found.
Placed(c) ==
    /\ \A s \in Clients : holder[s] = c =>
           Awaits(c, s) /\ stage[c] \in {"held", "job", "thread"}
    /\ stage[c] = "lock" => \E s \in Clients : c \in ToSet(queue[s])
    /\ stage[c] = "job" => c \in ToSet(jobs)

Places == \A c \in Calls : Placed(c)

LEMMA AllPlaced == IInv => (NothingLost <=> Places)
<1>1. IInv => holder \in [Clients -> Calls \cup {NoCall}] /\ NoCall \notin Calls
  BY SharesAssumption DEF IInv, TypeOK
<1>2. IInv /\ NothingLost => Places
  BY <1>1 DEF NothingLost, Places, Placed
<1>3. IInv /\ Places => NothingLost
  BY <1>1 DEF NothingLost, Places, Placed
<1> QED BY <1>2, <1>3

\* Who goes on as before, with as much and in the same places, is at its place still.
LEMMA StillPlaced ==
    ASSUME NEW c \in Calls, Placed(c),
           kind'[c] = kind[c], at'[c] = at[c], stage'[c] = stage[c],
           \A s \in Clients : holder'[s] = c => holder[s] = c,
           \A s \in Clients : c \in ToSet(queue[s]) => c \in ToSet(queue'[s]),
           c \in ToSet(jobs) => c \in ToSet(jobs')
    PROVE  Placed(c)'
<1>1. \A s : Awaits(c, s)' <=> Awaits(c, s)
  BY DEF Awaits, Active
<1> QED BY <1>1 DEF Placed

\* A call that is ready, and holds nothing, is in nobody's way.
LEMMA ReadyPlaced ==
    ASSUME NEW c \in Calls, stage'[c] = "ready", \A s \in Clients : holder'[s] # c
    PROVE  Placed(c)'
BY DEF Placed

\* A call is ready and holds nothing; all others are where they were.
LEMMA OneReady ==
    ASSUME IInv, \A d \in Calls : Placed(d), NEW c \in Calls, stage'[c] = "ready",
           \A d \in Calls \ {c} :
               kind'[d] = kind[d] /\ at'[d] = at[d] /\ stage'[d] = stage[d],
           \A s \in Clients : holder'[s] # c /\ holder'[s] \in {holder[s], NoCall},
           \A s \in Clients : queue'[s] \in {queue[s], Without(queue[s], c)},
           jobs' \in {jobs, Without(jobs, c)}
    PROVE  \A d \in Calls : Placed(d)'
<1> TAKE d \in Calls
<1>1. CASE d = c
  BY <1>1, ReadyPlaced
<1>2. CASE d # c
  <2>1. jobs \in Seq(Calls) /\ \A s \in Clients : queue[s] \in Seq(Calls)
    BY DEF IInv, TypeOK
  <2>2. \A s \in Clients : d \in ToSet(queue[s]) => d \in ToSet(queue'[s])
    BY <1>2, <2>1, OthersStay
  <2>3. d \in ToSet(jobs) => d \in ToSet(jobs')
    BY <1>2, <2>1, OthersStay
  <2>4. \A s \in Clients : holder'[s] = d => holder[s] = d
    BY SharesAssumption
  <2> QED BY <1>2, <2>2, <2>3, <2>4, StillPlaced
<1> QED BY <1>1, <1>2

LEMMA StartPlaced ==
    ASSUME IInv, \A d \in Calls : Placed(d), NEW c \in Calls, Start(c)
    PROVE  \A d \in Calls : Placed(d)'
<1>1. PICK k \in Offered : kind' = [kind EXCEPT ![c] = k]
  BY DEF Start
<1>2. /\ stage'[c] = "ready"
      /\ \A d \in Calls \ {c} :
            kind'[d] = kind[d] /\ at'[d] = at[d] /\ stage'[d] = stage[d]
      /\ UNCHANGED <<holder, queue, jobs>>
  BY <1>1 DEF IInv, TypeOK, Start, locks, pool
<1>3. \A s \in Clients : holder[s] # c
  BY DEF Start, Placed, Awaits
<1> QED BY <1>2, <1>3, OneReady

\* The end of a step, of a call, and a cancellation.
LEMMA EndPlaced ==
    ASSUME IInv, \A d \in Calls : Placed(d), NEW c \in Calls, Active(c), Outcome(c) \/ End(c),
           Release(c) \/ (UNCHANGED holder /\ stage[c] = "ready"),
           \A s \in Clients : queue'[s] \in {queue[s], Without(queue[s], c)},
           jobs' \in {jobs, Without(jobs, c)}
    PROVE  \A d \in Calls : Placed(d)'
<1>1. /\ stage'[c] = "ready"
      /\ \A d \in Calls : d # c =>
            kind'[d] = kind[d] /\ at'[d] = at[d] /\ stage'[d] = stage[d]
  BY OutcomeState
<1>2. \A s \in Clients : holder'[s] # c /\ holder'[s] \in {holder[s], NoCall}
  <2>1. CASE Release(c)
    BY <2>1, SharesAssumption DEF Release
  <2>2. CASE UNCHANGED holder /\ stage[c] = "ready"
    BY <2>2 DEF Placed
  <2> QED BY <2>1, <2>2
<1> QED BY <1>1, <1>2, OneReady

LEMMA CommitPlaced ==
    ASSUME IInv, \A d \in Calls : Placed(d), NEW c \in Calls, Commit(c)
    PROVE  \A d \in Calls : Placed(d)'
<1>1. Active(c) /\ stage[c] = "ready"
  BY OnTheLoop DEF Commit
<1>2. UNCHANGED <<holder, queue, jobs>>
  BY DEF Commit, locks, pool
<1>3. CASE End(c)
  BY <1>1, <1>2, <1>3, EndPlaced
<1>4. CASE ~End(c)
  <2>1. /\ at' = [at EXCEPT ![c] = @ + 1]
        /\ UNCHANGED <<kind, stage>>
    BY <1>4 DEF Commit
  <2>2. \A d \in Calls \ {c} : at'[d] = at[d]
    BY <2>1 DEF IInv, TypeOK
  <2>3. \A s \in Clients : holder[s] # c
    BY <1>1 DEF Placed
  <2> QED BY <1>1, <1>2, <2>1, <2>2, <2>3, OneReady
<1> QED BY <1>3, <1>4

LEMMA WaitPlaced ==
    ASSUME IInv, \A d \in Calls : Placed(d), NEW c \in Calls, WaitForLock(c)
    PROVE  \A d \in Calls : Placed(d)'
<1>1. PICK s \in Clients : s = Step(c)
  BY DEF WaitForLock, InSdk
<1>2. /\ stage[c] = "ready"
      /\ \A d \in Calls : stage'[d] = IF d = c THEN "lock" ELSE stage[d]
      /\ queue' = [queue EXCEPT ![s] = Append(queue[s], c)]
      /\ UNCHANGED <<kind, at, holder, jobs>>
  BY <1>1 DEF WaitForLock, IInv, TypeOK, pool
<1>3. ToSet(Append(queue[s], c)) = ToSet(queue[s]) \cup {c}
  BY Members DEF IInv, TypeOK
<1>4. \A t \in Clients : queue'[t] = IF t = s THEN Append(queue[s], c) ELSE queue[t]
  BY <1>2 DEF IInv, TypeOK
<1>5. c \in ToSet(queue'[s])
  BY <1>3, <1>4
<1>6. \A t \in Clients : ToSet(queue[t]) \subseteq ToSet(queue'[t])
  BY <1>3, <1>4
<1> TAKE d \in Calls
<1>7. CASE d = c
  BY <1>2, <1>5, <1>7 DEF Placed
<1>8. CASE d # c
  BY <1>2, <1>6, <1>8, StillPlaced
<1> QED BY <1>7, <1>8

LEMMA AcquirePlaced ==
    ASSUME IInv, \A d \in Calls : Placed(d), NEW s \in Clients, Acquire(s)
    PROVE  \A d \in Calls : Placed(d)'
<1>1. queue[s] \in Seq(Calls) /\ Once(queue[s]) /\ queue[s] # <<>>
  BY DEF IInv, TypeOK, QueueInv, Acquire
<1>2. PICK h \in Calls, rest \in Seq(Calls) :
          /\ h = Head(queue[s]) /\ rest = Tail(queue[s])
          /\ h = queue[s][1] /\ 1 \in 1..Len(queue[s])
  BY <1>1, HeadOnce
<1>3. ToSet(queue[s]) \subseteq ToSet(rest) \cup {h}
  BY <1>1, <1>2, Members
<1>4. /\ holder' = [holder EXCEPT ![s] = h]
      /\ queue' = [queue EXCEPT ![s] = rest]
      /\ stage' = [stage EXCEPT ![h] = "held"]
      /\ UNCHANGED <<kind, at, jobs>>
  BY <1>2 DEF Acquire, pool
<1>5. Awaits(h, s) /\ stage[h] = "lock"
  BY <1>2, Queued
<1>6. /\ \A d \in Calls : stage'[d] = IF d = h THEN "held" ELSE stage[d]
      /\ \A t \in Clients : holder'[t] = IF t = s THEN h ELSE holder[t]
      /\ \A t \in Clients : queue'[t] = IF t = s THEN rest ELSE queue[t]
  BY <1>4 DEF IInv, TypeOK
<1>7. Awaits(h, s)'
  BY <1>4, <1>5 DEF Awaits, Active
<1> TAKE d \in Calls
<1>8. CASE d = h
  <2>1. \A t \in Clients : holder[t] # h
    BY <1>2, <1>5 DEF Placed
  <2> QED BY <1>6, <1>7, <1>8, <2>1 DEF Placed
<1>9. CASE d # h
  <2>1. \A t \in Clients : d \in ToSet(queue[t]) => d \in ToSet(queue'[t])
    BY <1>3, <1>6, <1>9
  <2>2. \A t \in Clients : holder'[t] = d => holder[t] = d
    BY <1>6, <1>9
  <2> QED BY <1>4, <1>6, <1>9, <2>1, <2>2, StillPlaced
<1> QED BY <1>8, <1>9

LEMMA SubmitPlaced ==
    ASSUME IInv, \A d \in Calls : Placed(d), NEW c \in Calls, Submit(c)
    PROVE  \A d \in Calls : Placed(d)'
<1>1. /\ \A d \in Calls : stage'[d] = IF d = c THEN "job" ELSE stage[d]
      /\ jobs' = Append(jobs, c)
      /\ UNCHANGED <<kind, at, holder, queue>>
  BY DEF Submit, IInv, TypeOK, locks
<1>2. ToSet(jobs') = ToSet(jobs) \cup {c}
  BY <1>1, Members DEF IInv, TypeOK
<1> TAKE d \in Calls
<1>3. CASE d = c
  <2>1. \A s \in Clients : Awaits(c, s)' <=> Awaits(c, s)
    BY <1>1 DEF Awaits, Active
  <2> QED BY <1>1, <1>2, <1>3, <2>1 DEF Placed
<1>4. CASE d # c
  BY <1>1, <1>2, <1>4, StillPlaced
<1> QED BY <1>3, <1>4

LEMMA JobPlaced ==
    ASSUME IInv, \A d \in Calls : Placed(d), StartJob
    PROVE  \A d \in Calls : Placed(d)'
<1>1. jobs \in Seq(Calls) /\ Once(jobs) /\ jobs # <<>>
  BY DEF IInv, TypeOK, JobsInv, StartJob
<1>2. PICK h \in Calls, rest \in Seq(Calls) : h = Head(jobs) /\ rest = Tail(jobs) /\ stage[h] = "job"
  BY <1>1, HeadOnce DEF IInv, JobsInv
<1>3. ToSet(jobs) \subseteq ToSet(rest) \cup {h}
  BY <1>1, <1>2, Members
<1>4. /\ jobs' = rest
      /\ stage' = [stage EXCEPT ![h] = "thread"]
      /\ UNCHANGED <<kind, at, holder, queue>>
  BY <1>2 DEF StartJob, locks
<1>5. \A d \in Calls : stage'[d] = IF d = h THEN "thread" ELSE stage[d]
  BY <1>4 DEF IInv, TypeOK
<1> TAKE d \in Calls
<1>6. CASE d = h
  <2>1. \A s \in Clients : Awaits(h, s)' <=> Awaits(h, s)
    BY <1>4 DEF Awaits, Active
  <2> QED BY <1>2, <1>4, <1>5, <1>6, <2>1 DEF Placed
<1>7. CASE d # h
  BY <1>3, <1>4, <1>5, <1>7, StillPlaced
<1> QED BY <1>6, <1>7

LEMMA PlacesKept == IInv /\ NothingLost /\ [Next]_vars => NothingLost'
<1> SUFFICES ASSUME IInv, NothingLost, [Next]_vars PROVE NothingLost'
  OBVIOUS
<1>0. \A c \in Calls : Placed(c)
  BY AllPlaced DEF Places
<1>1. ASSUME NEW c \in Calls, PoolTimeout(c) \/ Statement(c) \/ GeminiAnswers(c)
      PROVE  \A d \in Calls : Placed(d)'
  <2>1. Active(c) /\ stage[c] = "ready"
    BY <1>1, OnTheLoop DEF PoolTimeout, Statement, GeminiAnswers
  <2>2. (Outcome(c) \/ End(c)) /\ UNCHANGED <<holder, queue, jobs>>
    BY <1>1 DEF PoolTimeout, Statement, GeminiAnswers, locks, pool
  <2> QED BY <1>0, <2>1, <2>2, EndPlaced
<1>2. ASSUME NEW c \in Calls, CacheHit(c) \/ StoreReturns(c) \/ SdkReturns(c)
      PROVE  \A d \in Calls : Placed(d)'
  <2>1. /\ stage[c] \in {"held", "thread"}
        /\ Release(c) /\ Outcome(c) /\ UNCHANGED <<queue, jobs>>
    BY <1>2 DEF CacheHit, StoreReturns, SdkReturns, Returned, pool
  <2>2. Active(c)
    BY <2>1 DEF IInv, StagesInv, InSdk, Awaits
  <2> QED BY <1>0, <2>1, <2>2, EndPlaced
<1>3. ASSUME NEW c \in Calls, Cancel(c) PROVE \A d \in Calls : Placed(d)'
  BY <1>0, <1>3, EndPlaced DEF Cancel
<1>4. ASSUME UNCHANGED <<kind, at, stage, holder, queue, jobs>>
      PROVE  \A d \in Calls : Placed(d)'
  BY <1>0, <1>4, StillPlaced
<1>5. ASSUME NEW c \in Calls, CheckOut(c) PROVE \A d \in Calls : Placed(d)'
  BY <1>4, <1>5 DEF CheckOut, locks, pool
<1>6. ASSUME NEW w \in {"sdk", "store"}, OrphanEnds(w) PROVE \A d \in Calls : Placed(d)'
  BY <1>4, <1>6 DEF OrphanEnds, locks
<1>7. ASSUME UNCHANGED vars PROVE \A d \in Calls : Placed(d)'
  BY <1>4, <1>7 DEF vars
<1>8. Places'
  BY <1>0, <1>1, <1>2, <1>3, <1>5, <1>6, <1>7, StartPlaced, CommitPlaced, WaitPlaced,
     AcquirePlaced, SubmitPlaced, JobPlaced DEF Next, Places
<1>9. IInv'
  BY Inductive
<1>10. NothingLost'
  BY <1>8, <1>9, AllPlaced, PTL
<1> QED BY <1>10

\* Nothing that a call waits for is left with one that has gone.
THEOREM NothingLeft == Spec => []NothingLost
<1>1. Init => NothingLost
  BY SharesAssumption DEF Init, NothingLost
<1> QED BY <1>1, PlacesKept, Invariance, PTL DEF Spec
=============================================================================
