--------------------------- MODULE SchedulerProofs --------------------------
(* Theorems about Scheduler, for every backlog, batch size and timeout, and any types. *)
EXTENDS Scheduler, FiniteSetTheorems, TLAPS

\* A task that is none or ended stays so; stop() cancels the task that there is, and
\* nothing else does.
ShutdownInv ==
    /\ app = "up" => ~stop /\ ~cancel /\ loop # "ended"
    /\ app # "up" => cancel \/ loop = "none"
    /\ app = "disposed" => loop \in {"none", "ended"}

\* Outside a run and its rollback nothing is held.
HeldInv == loop \notin {"running", "unwinding"} => held = 0

IInv == TypeOK /\ HeldInv /\ ShutdownInv

LEMMA Settings ==
    /\ Backlog \in Nat /\ Published \in Nat /\ BatchSize \in Nat /\ MaxListing \in Nat
    /\ MaxCost \in Nat /\ Timeout \in Nat /\ MaxFailures \in Nat
BY SchedulerAssumption

LEMMA Initially == Init => IInv
<1> SUFFICES ASSUME Init PROVE IInv
  OBVIOUS
<1>1. stop \in BOOLEAN /\ cancel \in BOOLEAN /\ gained \in BOOLEAN
  BY Zenon DEF Init
<1>2. waiting \in [Types -> [Batches -> Nat]]
  BY Settings DEF Init
<1>3. TypeOK
  BY <1>1, <1>2, Settings DEF Init, TypeOK, Batches
<1>4. HeldInv /\ ShutdownInv
  BY DEF Init, HeldInv, ShutdownInv
<1> QED BY <1>3, <1>4 DEF IInv

-----------------------------------------------------------------------------
(* Types *)

LEMMA BatchType ==
    ASSUME TypeOK, stage \in Batches
    PROVE  /\ waiting[type][stage] \in Nat /\ Batch \in Nat
           /\ Batch <= waiting[type][stage] /\ Batch <= BatchSize
BY Settings DEF TypeOK, Batch

\* What a batch leaves waiting, and what the download of one adds.
LEMMA OutcomeType ==
    ASSUME TypeOK, stage \in Batches, held = Batch, Outcome
    PROVE  waiting' \in [Types -> [Batches -> Nat]] /\ failures' \in 0..MaxFailures
<1>1. PICK again \in 0..held :
        /\ failures' = failures + again /\ failures' <= MaxFailures
        /\ IF stage = "extract"
           THEN waiting' = [waiting EXCEPT ![type].extract = @ - (held - again)]
           ELSE \E on \in 0..(held - again) :
                    waiting' = [waiting EXCEPT ![type].download = @ - (held - again),
                                               ![type].extract = @ + on]
  BY DEF Outcome
<1>2. held \in Nat /\ held <= waiting[type][stage] /\ failures' \in 0..MaxFailures
  BY <1>1, BatchType, Settings DEF TypeOK
<1>3. type \in Types /\ waiting \in [Types -> [Batches -> Nat]]
  BY DEF TypeOK
<1>4. CASE stage = "extract"
  <2>1. waiting[type].extract - (held - again) \in Nat
    BY <1>2, <1>3, <1>4 DEF Batches
  <2> QED BY <1>1, <1>2, <1>3, <1>4, <2>1 DEF Batches
<1>5. CASE stage = "download"
  <2>1. PICK on \in 0..(held - again) :
            waiting' = [waiting EXCEPT ![type].download = @ - (held - again),
                                       ![type].extract = @ + on]
    BY <1>1, <1>5
  <2>2. /\ waiting[type].download - (held - again) \in Nat
        /\ waiting[type].extract + on \in Nat
    BY <1>2, <1>3, <1>5 DEF Batches
  <2> QED BY <1>2, <1>3, <2>1, <2>2 DEF Batches
<1> QED BY <1>4, <1>5 DEF Batches

\* The largest a batch may be depends only on what is kept here.
LEMMA SameBatch ==
    ASSUME UNCHANGED <<waiting, type, stage>> PROVE Batch' = Batch
BY DEF Batch

LEMMA CommitType == TypeOK /\ CommitBatch => TypeOK'
<1> SUFFICES ASSUME TypeOK, CommitBatch PROVE TypeOK'
  OBVIOUS
<1>1. stage \in Batches /\ held = Batch /\ Outcome
  BY DEF CommitBatch, InRun
<1>2. waiting' \in [Types -> [Batches -> Nat]] /\ failures' \in 0..MaxFailures
  BY <1>1, OutcomeType
<1>3. stage' \in {"extract", "select"} /\ held' = 0
  BY DEF CommitBatch, StageDone
<1>4. type' \in Types
  BY DEF CommitBatch, TypeOK
<1>5. IF stage' \in Batches THEN held' <= Batch' ELSE held' = 0
  BY <1>2, <1>3, <1>4, Settings DEF Batch, Batches
<1>6. gained' \in BOOLEAN
  BY Zenon DEF CommitBatch
<1> QED BY <1>2, <1>3, <1>4, <1>5, <1>6 DEF CommitBatch, TypeOK, Batches

LEMMA DiscoverType == TypeOK /\ Discover => TypeOK'
<1> SUFFICES ASSUME TypeOK, Discover PROVE TypeOK'
  OBVIOUS
<1>1. PICK new \in 0..unlisted :
        /\ waiting' = [waiting EXCEPT ![type].download = @ + new]
        /\ unlisted' = unlisted - new
  BY DEF Discover
<1>2. waiting' \in [Types -> [Batches -> Nat]] /\ unlisted' \in Nat
  BY <1>1 DEF TypeOK, Batches
<1>3. elapsed' \in 0..Timeout
  BY Settings DEF Discover, Takes, TypeOK
<1>4. stage' = "download" /\ held' = 0 /\ type' \in Types
  BY DEF Discover, InRun, TypeOK, Batches
<1>5. IF stage' \in Batches THEN held' <= Batch' ELSE held' = 0
  BY <1>2, <1>4, Settings DEF Batch, Batches
<1> QED BY <1>2, <1>3, <1>4, <1>5 DEF Discover, TypeOK, Batches

LEMMA ProcessType == TypeOK /\ Process => TypeOK'
<1> SUFFICES ASSUME TypeOK, Process PROVE TypeOK'
  OBVIOUS
<1>1. stage \in Batches /\ held < Batch /\ Batch' = Batch
  BY SameBatch DEF Process, InRun, place
<1>2. elapsed' \in 0..Timeout
  BY Settings DEF Process, Takes, TypeOK
<1>3. held' \in Nat /\ held' <= Batch'
  BY <1>1, BatchType DEF Process, TypeOK
<1> QED BY <1>1, <1>2, <1>3 DEF Process, TypeOK, place

LEMMA TypePreserved == TypeOK /\ HeldInv /\ [Next]_vars => TypeOK' /\ HeldInv'
<1> SUFFICES ASSUME TypeOK, HeldInv, [Next]_vars PROVE TypeOK' /\ HeldInv'
  OBVIOUS
<1>1. ASSUME Process \/ CommitBatch \/ Discover PROVE TypeOK' /\ HeldInv'
  BY <1>1, ProcessType, CommitType, DiscoverType DEF Process, CommitBatch, Discover, InRun,
     HeldInv
<1>2. ASSUME Tick PROVE TypeOK' /\ HeldInv'
  <2>1. stage' = "select" /\ stage' \notin Batches /\ held = 0 /\ held' = 0
    BY <1>2 DEF Tick, HeldInv, Batches
  <2>2. todo' = Types /\ elapsed' = 0 /\ gained' = FALSE
    BY <1>2 DEF Tick
  <2>3. 0 \in 0..Timeout
    BY Settings
  <2>4. UNCHANGED <<app, stop, cancel, type, waiting, held, unlisted, failures>>
        /\ loop' = "running"
    BY <1>2 DEF Tick
  <2>5. gained' \in BOOLEAN /\ stop' \in BOOLEAN /\ cancel' \in BOOLEAN
    BY <2>2, <2>4, Zenon DEF TypeOK
  <2> QED BY <2>1, <2>2, <2>3, <2>4, <2>5 DEF TypeOK, HeldInv
<1>3. ASSUME NextType PROVE TypeOK' /\ HeldInv'
  <2>1. stage' = "discover" /\ stage' \notin Batches /\ held = 0 /\ held' = 0
    BY <1>3 DEF NextType, InRun, TypeOK, Batches, work
  <2>2. todo' \subseteq Types /\ type' \in Types
    BY <1>3 DEF NextType, TypeOK
  <2> QED BY <1>3, <2>1, <2>2 DEF NextType, TypeOK, HeldInv, work
<1>4. ASSUME Unwound PROVE TypeOK' /\ HeldInv'
  <2>1. Batch' = Batch /\ held' = 0
    BY <1>4, SameBatch DEF Unwound, place
  <2>2. stage \in Batches => Batch >= 0
    BY BatchType
  <2> QED BY <1>4, <2>1, <2>2 DEF Unwound, place, TypeOK, HeldInv
<1>5. ASSUME \/ FirstSleep \/ RunDone \/ RunTimesOut \/ RunFails \/ Cancelled \/ Stopped
             \/ Stop \/ Dispose \/ UNCHANGED vars
      PROVE  TypeOK' /\ HeldInv'
  <2>1. Batch' = Batch /\ UNCHANGED <<place, work, elapsed>>
    BY <1>5, SameBatch DEF FirstSleep, RunDone, RunTimesOut, RunFails, Cancelled, Stopped,
       Stop, Dispose, vars, place, work
  <2>2. failures' \in 0..MaxFailures
    BY <1>5, Settings DEF FirstSleep, RunDone, RunTimesOut, RunFails, Cancelled, Stopped,
       Stop, Dispose, vars, TypeOK
  <2>3. /\ app' \in {"up", "stopping", "disposed"}
        /\ loop' \in {"none", "created", "sleeping", "running", "unwinding", "ended"}
    BY <1>5 DEF FirstSleep, RunDone, RunTimesOut, RunFails, Cancelled, Stopped, Stop,
       Dispose, vars, TypeOK
  <2>4. stop' \in BOOLEAN /\ cancel' \in BOOLEAN
    BY <1>5, Zenon DEF FirstSleep, RunDone, RunTimesOut, RunFails, Cancelled, Stopped, Stop,
       Dispose, vars, TypeOK
  <2>5. HeldInv'
    BY <1>5, <2>1 DEF FirstSleep, RunDone, RunTimesOut, RunFails, Cancelled, Stopped, Stop,
       Dispose, vars, work, InRun, HeldInv, TypeOK, Batches
  <2> QED BY <2>1, <2>2, <2>3, <2>4, <2>5 DEF TypeOK, place, work
<1> QED BY <1>1, <1>2, <1>3, <1>4, <1>5 DEF Next, Loop

-----------------------------------------------------------------------------
(* Shutdown *)

LEMMA ShutdownPreserved == IInv /\ [Next]_vars => ShutdownInv'
<1> SUFFICES ASSUME IInv, [Next]_vars PROVE ShutdownInv'
  OBVIOUS
<1> USE DEF IInv, ShutdownInv
<1>1. ASSUME \/ NextType \/ Discover \/ Process \/ CommitBatch \/ RunDone \/ RunTimesOut
             \/ RunFails
      PROVE  ShutdownInv'
  BY <1>1 DEF NextType, Discover, Process, CommitBatch, RunDone, RunTimesOut, RunFails, InRun
<1>2. ASSUME Tick \/ FirstSleep \/ Unwound \/ Stopped \/ Cancelled PROVE ShutdownInv'
  BY <1>2 DEF Tick, FirstSleep, Unwound, Stopped, Cancelled
<1>3. ASSUME Stop \/ Dispose PROVE ShutdownInv'
  BY <1>3 DEF Stop, Dispose
<1>4. CASE UNCHANGED vars
  BY <1>4 DEF vars
<1> QED BY <1>1, <1>2, <1>3, <1>4 DEF Next, Loop

LEMMA Invariance == Spec => []IInv
<1>1. IInv /\ [Next]_vars => IInv'
  BY TypePreserved, ShutdownPreserved DEF IInv
<1> QED BY <1>1, Initially, PTL DEF Spec

\* Every state is of the declared type, and no batch is larger than its limit or than
\* what waits, whatever the settings are.
THEOREM TypeCorrectness == Spec => []TypeOK
BY Invariance, PTL DEF IInv

\* Once the engine is disposed the task is over, its rollback included.
THEOREM EngineLast == Spec => []UsesOpenEngine
<1>1. IInv => UsesOpenEngine
  BY DEF IInv, ShutdownInv, UsesOpenEngine
<1> QED BY <1>1, Invariance, PTL

\* Nothing but a stop ends the loop.
THEOREM LoopGoesOn == Spec => []LoopSurvives
<1>1. IInv => LoopSurvives
  BY DEF IInv, ShutdownInv, LoopSurvives
<1> QED BY <1>1, Invariance, PTL

\* A stop interrupts a run at once: what the cancelled task still does is to roll back.
THEOREM QuietAfterStop == Spec => NothingAfterStop
<1> DEFINE Quiet == app # "up" => held' <= held /\ waiting' = waiting
<1>1. ASSUME IInv, Next PROVE Quiet
  <2> SUFFICES ASSUME app # "up" PROVE held' <= held /\ waiting' = waiting
    OBVIOUS
  <2>1. cancel \/ loop = "none"
    BY <1>1 DEF IInv, ShutdownInv
  <2>2. held \in Nat
    BY <1>1 DEF IInv, TypeOK
  <2>3. ASSUME Loop PROVE held' <= held /\ waiting' = waiting
    BY <2>1, <2>2, <2>3 DEF Loop, Tick, FirstSleep, NextType, Discover, Process, CommitBatch,
       RunDone, RunTimesOut, Cancelled, Unwound, Stopped, InRun, work
  <2>4. ASSUME RunFails \/ Stop \/ Dispose PROVE held' <= held /\ waiting' = waiting
    BY <2>2, <2>4 DEF RunFails, Stop, Dispose, work
  <2> QED BY <1>1, <2>3, <2>4 DEF Next
<1>2. IInv /\ [Next]_vars => [Quiet]_vars
  BY <1>1
<1> QED BY <1>2, Invariance, PTL DEF Spec, NothingAfterStop

-----------------------------------------------------------------------------
(* Time *)

\* The types whose listing this run has read.
ListedOnes == Types \ (todo \cup IF stage = "discover" THEN {type} ELSE {})

\* A run that has not committed a batch has spent its time on the listings it has read
\* and on the batch that it holds.
TimeInv ==
    /\ stage = "discover" => type \notin todo
    /\ loop = "running" /\ ~gained =>
           elapsed <= Cardinality(ListedOnes) * MaxListing + held * MaxCost

LEMMA Times ==
    ASSUME NEW a \in Nat, NEW b \in Nat, NEW c \in Nat, a <= b
    PROVE  a * c <= b * c /\ a * c \in Nat
<1>1. PICK d \in Nat : b = a + d
  BY b - a \in Nat /\ b = a + (b - a)
<1>2. b * c = a * c + d * c /\ d * c \in Nat /\ a * c \in Nat
  BY <1>1
<1> QED BY <1>2

LEMMA OneMore ==
    ASSUME NEW a \in Nat, NEW c \in Nat
    PROVE  (a + 1) * c = a * c + c /\ a * c \in Nat
OBVIOUS

LEMMA ListedCount ==
    /\ Cardinality(ListedOnes) \in Nat /\ Cardinality(Types) \in Nat
    /\ Cardinality(ListedOnes) <= Cardinality(Types)
    /\ stage = "discover" /\ type \in Types =>
           Cardinality(ListedOnes) + 1 <= Cardinality(Types)
<1>1. IsFiniteSet(Types) /\ ListedOnes \in SUBSET Types
  BY SchedulerAssumption DEF ListedOnes
<1>2. /\ IsFiniteSet(ListedOnes) /\ Cardinality(ListedOnes) <= Cardinality(Types)
  BY <1>1, FS_Subset
<1>3. Cardinality(ListedOnes) \in Nat /\ Cardinality(Types) \in Nat
  BY <1>1, <1>2, FS_CardinalityType
<1>4. ASSUME stage = "discover", type \in Types
      PROVE  Cardinality(ListedOnes) + 1 <= Cardinality(Types)
  <2>1. type \notin ListedOnes /\ ListedOnes \cup {type} \in SUBSET Types
    BY <1>1, <1>4 DEF ListedOnes
  <2>2. Cardinality(ListedOnes \cup {type}) = Cardinality(ListedOnes) + 1
    BY <1>2, <2>1, FS_AddElement
  <2>3. Cardinality(ListedOnes \cup {type}) <= Cardinality(Types)
    BY <1>1, <2>1, FS_Subset
  <2> QED BY <2>2, <2>3
<1> QED BY <1>2, <1>3, <1>4

LEMMA TimeDiscover == TypeOK /\ TimeInv /\ Discover => TimeInv'
<1> SUFFICES ASSUME TypeOK, TimeInv, Discover PROVE TimeInv'
  OBVIOUS
<1>1. stage = "discover" /\ loop = "running" /\ stage' = "download" /\ type \notin todo
  BY DEF Discover, InRun, TimeInv
<1>2. ListedOnes' = ListedOnes \cup {type} /\ type \notin ListedOnes
  BY <1>1 DEF Discover, ListedOnes, TypeOK
<1>3. IsFiniteSet(ListedOnes)
  BY SchedulerAssumption, FS_Subset DEF ListedOnes
<1>4. Cardinality(ListedOnes') = Cardinality(ListedOnes) + 1
  BY <1>2, <1>3, FS_AddElement
<1>5. Cardinality(ListedOnes) \in Nat
  BY ListedCount
<1>6. (Cardinality(ListedOnes) + 1) * MaxListing
          = Cardinality(ListedOnes) * MaxListing + MaxListing
  BY <1>5, OneMore, Settings
<1>7. held = 0 /\ held' = 0 /\ gained' = gained /\ held * MaxCost = 0
  BY <1>1, Settings DEF Discover, TypeOK, Batches
<1>8. elapsed' <= elapsed + MaxListing
  BY Settings DEF Discover, Takes, TypeOK
<1>9. ASSUME ~gained PROVE elapsed' <= Cardinality(ListedOnes') * MaxListing
  <2>1. elapsed <= Cardinality(ListedOnes) * MaxListing
    BY <1>1, <1>5, <1>7, <1>9, Settings, OneMore DEF TimeInv
  <2>2. elapsed \in Nat /\ elapsed' \in Nat /\ Cardinality(ListedOnes) * MaxListing \in Nat
    BY <1>5, Settings, OneMore DEF Discover, Takes, TypeOK
  <2> HIDE DEF ListedOnes
  <2> QED BY <1>4, <1>6, <1>8, <2>1, <2>2, Settings
<1>10. Cardinality(ListedOnes') * MaxListing + held' * MaxCost
           = Cardinality(ListedOnes') * MaxListing
  BY <1>4, <1>5, <1>7, Settings
<1> QED BY <1>1, <1>7, <1>9, <1>10 DEF TimeInv, Discover

LEMMA TimeProcess == TypeOK /\ TimeInv /\ Process => TimeInv'
<1> SUFFICES ASSUME TypeOK, TimeInv, Process PROVE TimeInv'
  OBVIOUS
<1>1. ListedOnes' = ListedOnes /\ gained' = gained /\ held' = held + 1 /\ loop = "running"
  BY DEF Process, ListedOnes, place, InRun
<1>2. elapsed' <= elapsed + MaxCost /\ elapsed \in Nat /\ elapsed' \in Nat
  BY Settings DEF Process, Takes, TypeOK
<1>3. held \in Nat /\ (held + 1) * MaxCost = held * MaxCost + MaxCost
      /\ held * MaxCost \in Nat
  BY OneMore, Settings DEF TypeOK
<1>4. Cardinality(ListedOnes) * MaxListing \in Nat
  BY ListedCount, OneMore, Settings
<1>5. ASSUME ~gained
      PROVE  elapsed' <= Cardinality(ListedOnes) * MaxListing + (held + 1) * MaxCost
  <2>1. elapsed <= Cardinality(ListedOnes) * MaxListing + held * MaxCost
    BY <1>1, <1>5 DEF TimeInv
  <2> QED BY <1>2, <1>3, <1>4, <2>1, Settings
<1> QED BY <1>1, <1>5 DEF TimeInv, Process, place

LEMMA TimePreserved == TypeOK /\ HeldInv /\ TimeInv /\ [Next]_vars => TimeInv'
<1> SUFFICES ASSUME TypeOK, HeldInv, TimeInv, [Next]_vars PROVE TimeInv'
  OBVIOUS
<1>1. ASSUME Discover \/ Process PROVE TimeInv'
  BY <1>1, TimeDiscover, TimeProcess
<1>2. ASSUME Tick PROVE TimeInv'
  <2>1. ListedOnes' = {} /\ held' = 0 /\ elapsed' = 0 /\ stage' = "select"
    BY <1>2 DEF Tick, ListedOnes, HeldInv
  <2>2. Cardinality(ListedOnes') = 0
    BY <2>1, FS_EmptySet
  <2> QED BY <2>1, <2>2, Settings DEF TimeInv
<1>3. ASSUME NextType PROVE TimeInv'
  <2>1. ListedOnes' = ListedOnes /\ type' \notin todo'
    BY <1>3 DEF NextType, InRun, ListedOnes, TypeOK
  <2> QED BY <1>3, <2>1 DEF NextType, work, TimeInv
<1>4. ASSUME CommitBatch PROVE TimeInv'
  <2>1. ListedOnes' = ListedOnes /\ stage' # "discover" /\ held' = 0 /\ elapsed' = elapsed
    BY <1>4 DEF CommitBatch, InRun, ListedOnes, StageDone, Batches
  <2>2. ASSUME ~gained' PROVE ~gained /\ held = 0
    <3>1. ~gained /\ ~(held > 0)
      BY <1>4, <2>2, Zenon DEF CommitBatch
    <3> QED BY <3>1 DEF TypeOK
  <2> QED BY <1>4, <2>1, <2>2 DEF TimeInv, CommitBatch
<1>5. ASSUME \/ FirstSleep \/ RunDone \/ RunTimesOut \/ RunFails \/ Cancelled \/ Stopped
             \/ Unwound
      PROVE  TimeInv'
  <2>1. UNCHANGED place /\ loop' # "running"
    BY <1>5 DEF FirstSleep, RunDone, RunTimesOut, RunFails, Cancelled, Stopped, Unwound
  <2> QED BY <2>1 DEF TimeInv, place
<1>6. ASSUME Stop \/ Dispose \/ UNCHANGED vars PROVE TimeInv'
  <2>1. UNCHANGED <<loop, place, work, elapsed>>
    BY <1>6 DEF Stop, Dispose, vars
  <2>2. ListedOnes' = ListedOnes
    BY <2>1 DEF ListedOnes, place
  <2> QED BY <2>1, <2>2 DEF TimeInv, place, work
<1> QED BY <1>1, <1>2, <1>3, <1>4, <1>5, <1>6 DEF Next, Loop

LEMMA TimeInvariance == Spec => [](IInv /\ TimeInv)
<1>1. Init => TimeInv
  BY DEF Init, TimeInv
<1>2. IInv /\ TimeInv /\ [Next]_vars => TimeInv'
  BY TimePreserved DEF IInv
<1> QED BY <1>1, <1>2, Invariance, PTL DEF Spec

LEMMA TimeLeft == TypeOK /\ TimeInv /\ Fits /\ RunTimesOut => gained
<1> SUFFICES ASSUME TypeOK, TimeInv, Fits, RunTimesOut, ~gained PROVE FALSE
  BY DEF TypeOK
<1> DEFINE n == Cardinality(ListedOnes)
           all == Cardinality(Types)
<1>1. loop = "running" /\ elapsed <= n * MaxListing + held * MaxCost
  BY DEF RunTimesOut, InRun, TimeInv
<1>2. n \in Nat /\ all \in Nat /\ n <= all
      /\ (stage = "discover" => n + 1 <= all)
  BY ListedCount DEF TypeOK
<1>3. held \in Nat /\ elapsed \in Nat /\ held * MaxCost \in Nat /\ n * MaxListing \in Nat
      /\ all * MaxListing \in Nat /\ BatchSize * MaxCost \in Nat
  BY <1>2, OneMore, Settings DEF TypeOK
<1>4. all * MaxListing + BatchSize * MaxCost <= Timeout
  BY DEF Fits
<1> HIDE DEF n, all
<1>5. CASE stage = "discover"
  <2>1. held = 0 /\ elapsed + MaxListing > Timeout
    BY <1>5 DEF RunTimesOut, InRun, TypeOK, Batches
  <2>2. (n + 1) * MaxListing <= all * MaxListing
    BY <1>2, <1>5, Times, Settings
  <2>3. (n + 1) * MaxListing = n * MaxListing + MaxListing
    BY <1>2, OneMore, Settings
  <2>4. held * MaxCost = 0
    BY <2>1, Settings
  <2> QED BY <1>1, <1>3, <1>4, <2>1, <2>2, <2>3, <2>4, Settings
<1>6. CASE stage \in Batches
  <2>1. held < Batch /\ elapsed + MaxCost > Timeout
    BY <1>6 DEF RunTimesOut, InRun, Batches
  <2>2. held + 1 <= BatchSize
    BY <1>3, <1>6, <2>1, BatchType, Settings
  <2>3. (held + 1) * MaxCost <= BatchSize * MaxCost
    BY <1>3, <2>2, Times, Settings
  <2>4. (held + 1) * MaxCost = held * MaxCost + MaxCost
    BY <1>3, OneMore, Settings
  <2>5. n * MaxListing <= all * MaxListing
    BY <1>2, Times, Settings
  <2> QED BY <1>1, <1>3, <1>4, <2>1, <2>3, <2>4, <2>5, Settings
<1> QED BY <1>5, <1>6 DEF RunTimesOut, InRun

\* No run is cut off before it has committed a batch, if the listings of all types and
\* one batch fit: until then its time has gone into the listings it has read and the
\* batch it holds, for any types, in any order, and every batch size and timeout.
THEOREM Gains == Spec => EachRunGains
<1> DEFINE Gain == Fits /\ RunTimesOut => gained
<1>1. IInv /\ TimeInv /\ [Next]_vars => [Gain]_vars
  BY TimeLeft DEF IInv
<1> QED BY <1>1, TimeInvariance, PTL DEF Spec, EachRunGains
=============================================================================
