--------------------------- MODULE PipelineProofs ---------------------------
(***************************************************************************)
(* Proofs about Pipeline for every set of workers, reports, types and      *)
(* contents, every listing and every retry limit.                          *)
(***************************************************************************)
EXTENDS Pipeline, TLAPS

\* A row that no transaction holds has no uncommitted version.
DraftFree == \A r \in Reports : owner[r] = Nil => draft[r] = rows[r]

\* A transaction moves a row by at most one edge.
OneEdge == \A r \in Reports : draft[r] = rows[r] \/ Lifecycle!Edge(rows[r], draft[r])

Coherence == \A r \in Reports : Coherent(rows[r]) /\ Coherent(draft[r])

\* The object of a stored row exists and, unless a late upload has replaced
\* it, has the content that the row records.
ObjectOf(x, r) ==
    x.stored => objects[r] # Nil /\ (objects[r] = x.sha \/ r \in overwritten)

Objects == \A r \in Reports : ObjectOf(rows[r], r) /\ ObjectOf(draft[r], r)

MadeFrom(x, r) == x.digest \in {Nil, x.sha} \/ r \in overwritten

Extractions == \A r \in Reports : MadeFrom(rows[r], r) /\ MadeFrom(draft[r], r)

\* A content on record is kept by some row, as the database is and as each
\* transaction sees it.
CommittedOriginals ==
    \A r \in Reports : rows[r].sha # Nil =>
        \E q \in Reports : rows[q].stored /\ rows[q].sha = rows[r].sha

VisibleOriginals ==
    \A w \in Workers : \A r \in Reports : View(w, r).sha # Nil =>
        \E q \in Reports : View(w, q).stored /\ View(w, q).sha = View(w, r).sha

DBInv ==
    /\ DraftFree
    /\ OneEdge
    /\ Coherence
    /\ Objects
    /\ Extractions
    /\ CommittedOriginals
    /\ VisibleOriginals

\* A row waiting in a batch is locked, and neither touched nor settled.
Waiting(w, r) ==
    /\ owner[r] = w
    /\ draft[r] = rows[r]
    /\ rows[r].retry < MaxRetries
    /\ rows[r].status = IF pc[w] = "ai" THEN "downloaded" ELSE "discovered"

Control(w) ==
    /\ \A r \in batch[w] : Waiting(w, r)
    /\ batch[w] # {} => pc[w] \in {"fetch", "put", "ai"}
    /\ pc[w] = "put" => report[w] \in batch[w] /\ body[w] \in Contents
    /\ pc[w] = "insert" => report[w] \in Reports
    /\ pc[w] \in InRunOne => rtype[w] \in Types
    /\ pc[w] \in {"idle", "select", "download", "extract", "finish", "failed"} =>
           \A r \in Reports : owner[r] # w

ControlInv == \A w \in Workers : Control(w)

IInv == TypeOK /\ DBInv /\ ControlInv

-----------------------------------------------------------------------------
(* Types *)

\* The values the stages write into a row are rows again.
LEMMA DiscoveredType == Absent \in Row /\ \A t \in Types : Discovered(t) \in Row
  <1>1. Absent \in Row
      BY SettingsAssumption DEF Row, Statuses, Absent
  <1> QED
      BY <1>1 DEF Row, Statuses, Discovered

LEMMA ContentType ==
    ASSUME NEW x \in Row, NEW c \in Contents
    PROVE  Downloaded(x, c) \in Row /\ Duplicate(x, c) \in Row /\ Extracted(x, c) \in Row
  <1>1. Downloaded(x, c) \in Row
      BY DEF Row, Statuses, Downloaded
  <1>2. Duplicate(x, c) \in Row
      BY DEF Row, Statuses, Duplicate
  <1>3. Extracted(x, c) \in Row
      BY DEF Row, Statuses, Extracted
  <1> QED
      BY <1>1, <1>2, <1>3

LEMMA FailureType ==
    ASSUME NEW x \in Row, x.retry < MaxRetries PROVE Failure(x) \in Row
  <1>1. x.retry + 1 \in 0..MaxRetries
      BY SettingsAssumption DEF Row
  <1> QED
      BY <1>1 DEF Row, Statuses, Failure

LEMMA TypeInit == Init => TypeOK
  BY DiscoveredType, SettingsAssumption DEF Init, TypeOK, NoRun

\* The variables of the database, which every step changes in one of four ways.
TypeDB ==
    /\ rows \in [Reports -> Row]
    /\ draft \in [Reports -> Row]
    /\ owner \in [Reports -> Workers \cup {Nil}]

LEMMA CommitType ==
    ASSUME TypeDB, NEW w \in Workers, NEW s, Commit(w, s) PROVE TypeDB'
  BY DEF TypeDB, Commit, View, Release

LEMMA RollbackType ==
    ASSUME TypeDB, NEW w \in Workers, Rollback(w) PROVE TypeDB'
  BY DEF TypeDB, Rollback, Release

LEMMA WriteType ==
    ASSUME TypeDB, NEW r \in Reports, NEW x \in Row, Write(r, x) PROVE TypeDB'
  BY DEF TypeDB, Write

\* The other variables.
TypeRest ==
    /\ objects \in [Reports -> Contents \cup {Nil}]
    /\ late \subseteq Reports \X Contents
    /\ overwritten \subseteq Reports
    /\ run \in [Workers -> [row : {"none", "running", "success"},
                            tx : {"none", "running", "success"}]]
    /\ pc \in [Workers -> InRunOne \cup {"idle", "select", "failed"}]
    /\ stages \in [Workers -> SUBSET Stages]
    /\ todo \in [Workers -> SUBSET Types]
    /\ rtype \in [Workers -> Types \cup {Nil}]
    /\ batch \in [Workers -> SUBSET Reports]
    /\ report \in [Workers -> Reports \cup {Nil}]
    /\ body \in [Workers -> Contents \cup {Nil}]
    /\ faults \in 0..MaxFaults

LEMMA TypeStep == TypeOK /\ ControlInv /\ [Next]_vars => TypeOK'
  <1> SUFFICES ASSUME TypeOK, ControlInv, [Next]_vars PROVE TypeDB' /\ TypeRest'
      BY DEF TypeOK, TypeDB, TypeRest
  <1>t. TypeDB /\ TypeRest
      BY DEF TypeOK, TypeDB, TypeRest
  <1>b. \A w \in Workers : \A r \in batch[w] : r \in Reports /\ draft[r].retry < MaxRetries
      BY <1>t DEF TypeRest, ControlInv, Control, Waiting
  <1>p. \A w \in Workers : pc[w] = "put" => <<report[w], body[w]>> \in Reports \X Contents
      BY <1>t DEF TypeRest, ControlInv, Control
  <1>1. CASE UNCHANGED vars
      BY <1>t, <1>1 DEF TypeDB, TypeRest, vars
  <1>2. ASSUME NEW w \in Workers, StartPipeline(w) PROVE TypeDB' /\ TypeRest'
    <2>1. TypeDB'
      BY <1>t, <1>2 DEF TypeDB, StartPipeline, db
    <2>2. PICK i \in {FullInvocation} \cup Invocations :
              /\ stages' = [stages EXCEPT ![w] = i.stages]
              /\ todo' = [todo EXCEPT ![w] = i.types]
      BY <1>2 DEF StartPipeline
    <2>3. i.stages \subseteq Stages /\ i.types \subseteq Types
      BY <2>2, InvocationsAssumption DEF FullInvocation, StageSets, Stages
    <2> QED
      BY <1>t, <1>2, <2>1, <2>2, <2>3
      DEF TypeRest, StartPipeline, Goto, store, item, InRunOne
  <1>3. ASSUME NEW w \in Workers, RunOne(w) PROVE TypeDB' /\ TypeRest'
    <2>1. TypeDB'
      BY <1>t, <1>3 DEF TypeDB, RunOne, db
    <2>2. TypeRest'
      BY <1>t, <1>3 DEF TypeRest, RunOne, Goto, FirstOf, InRunOne, store, item
    <2> QED
      BY <2>1, <2>2
  <1>4. ASSUME NEW w \in Workers, EndPipeline(w) PROVE TypeDB' /\ TypeRest'
    <2>1. TypeDB'
      BY <1>t, <1>4 DEF TypeDB, EndPipeline, db
    <2>2. TypeRest'
      BY <1>t, <1>4 DEF TypeRest, EndPipeline, Leave, Goto, NoRun, store
    <2> QED
      BY <2>1, <2>2
  <1>5. ASSUME NEW w \in Workers, FinishRun(w) PROVE TypeDB' /\ TypeRest'
    <2>1. TypeDB'
      BY <1>t, <1>5, CommitType DEF FinishRun
    <2>2. TypeRest'
      BY <1>t, <1>5 DEF TypeRest, FinishRun, Commit, Goto, store, local, item
    <2> QED
      BY <2>1, <2>2
  <1>6. ASSUME NEW w \in Workers, Propagate(w) PROVE TypeDB' /\ TypeRest'
    <2>1. TypeDB'
      BY <1>t, <1>6 DEF TypeDB, Propagate, db
    <2>2. TypeRest'
      BY <1>t, <1>6 DEF TypeRest, Propagate, Goto, NoRun, store, local, item
    <2> QED
      BY <2>1, <2>2
  <1>7. ASSUME NEW w \in Workers, BreakDeadlock(w) PROVE TypeDB' /\ TypeRest'
    <2>1. TypeDB'
      BY <1>t, <1>7, RollbackType DEF BreakDeadlock, HandleException
    <2>2. TypeRest'
      BY <1>t, <1>7 DEF TypeRest, BreakDeadlock, HandleException, Leave, Goto, store
    <2> QED
      BY <2>1, <2>2
  <1>8. ASSUME NEW w \in Workers, DiscoverYield(w) PROVE TypeDB' /\ TypeRest'
    <2>1. TypeDB'
      BY <1>t, <1>8 DEF TypeDB, DiscoverYield, db
    <2>2. TypeRest'
      BY <1>t, <1>8, SourceAssumption DEF TypeRest, DiscoverYield, ControlInv, Control, InRunOne, Goto, store, local
    <2> QED
      BY <2>1, <2>2
  <1>9. ASSUME NEW w \in Workers, Upsert(w) PROVE TypeDB' /\ TypeRest'
    <2>1. report[w] \in Reports /\ rtype[w] \in Types
      BY <1>9 DEF Upsert, ControlInv, Control, InRunOne
    <2>2. Discovered(rtype[w]) \in Row
      BY <2>1, DiscoveredType
    <2>3. TypeDB'
      BY <1>t, <1>9, <2>1, <2>2 DEF TypeDB, Upsert
    <2>4. TypeRest'
      BY <1>t, <1>9 DEF TypeRest, Upsert, Goto, InRunOne, store, local
    <2> QED
      BY <2>3, <2>4
  <1>10. ASSUME NEW w \in Workers, DiscoverDone(w) PROVE TypeDB' /\ TypeRest'
    <2>1. TypeDB'
      BY <1>t, <1>10, CommitType DEF DiscoverDone
    <2>2. TypeRest'
      BY <1>t, <1>10 DEF TypeRest, DiscoverDone, Commit, Goto, AfterDiscover, InRunOne, store, local, item
    <2> QED
      BY <2>1, <2>2
  <1>11. ASSUME NEW w \in Workers, ClaimDownload(w) PROVE TypeDB' /\ TypeRest'
    <2>1. PICK B \in SUBSET Claimable(w, "discovered") : Claim(w, B, "fetch", AfterDownload(stages[w]))
      BY <1>11 DEF ClaimDownload
    <2>2. B \subseteq Reports
      BY <2>1 DEF Claimable
    <2>3. TypeDB'
      BY <1>t, <2>1 DEF TypeDB, Claim
    <2>4. TypeRest'
      BY <1>t, <2>1, <2>2 DEF TypeRest, Claim, Goto, AfterDownload, InRunOne, store, local, item
    <2> QED
      BY <2>3, <2>4
  <1>12. ASSUME NEW w \in Workers, ClaimExtract(w) PROVE TypeDB' /\ TypeRest'
    <2>1. PICK B \in SUBSET Claimable(w, "downloaded") : Claim(w, B, "ai", "finish")
      BY <1>12 DEF ClaimExtract
    <2>2. B \subseteq Reports
      BY <2>1 DEF Claimable
    <2>3. TypeDB'
      BY <1>t, <2>1 DEF TypeDB, Claim
    <2>4. TypeRest'
      BY <1>t, <2>1, <2>2 DEF TypeRest, Claim, Goto, AfterDownload, InRunOne, store, local, item
    <2> QED
      BY <2>3, <2>4
  <1>13. ASSUME NEW w \in Workers, FetchNew(w) PROVE TypeDB' /\ TypeRest'
    <2>1. TypeDB'
      BY <1>t, <1>13 DEF TypeDB, FetchNew, db
    <2>2. TypeRest'
      BY <1>t, <1>13, SourceAssumption DEF TypeRest, FetchNew, Goto, InRunOne, store, local
    <2> QED
      BY <2>1, <2>2
  <1>14. ASSUME NEW w \in Workers, FetchDuplicate(w) PROVE TypeDB' /\ TypeRest'
    <2>1. PICK r \in batch[w], c \in Contents : r \in Reports /\ Write(r, Duplicate(draft[r], c)) /\ Processed(w, r)
      BY <1>14, <1>b, SourceAssumption DEF FetchDuplicate
    <2>2. Duplicate(draft[r], c) \in Row
      BY <1>t, <2>1, <1>b, ContentType DEF TypeDB, TypeRest
    <2>3. TypeDB'
      BY <1>t, <2>1, <2>2, WriteType
    <2>4. TypeRest'
      BY <1>t, <1>14, <2>1 DEF TypeRest, FetchDuplicate, Processed, store, local, item
    <2> QED
      BY <2>3, <2>4
  <1>15. ASSUME NEW w \in Workers, FetchAmbiguous(w) PROVE TypeDB' /\ TypeRest'
    <2>1. TypeDB'
      BY <1>t, <1>15, RollbackType DEF FetchAmbiguous, HandleException
    <2>2. TypeRest'
      BY <1>t, <1>15 DEF TypeRest, FetchAmbiguous, HandleException, Leave, Goto, store
    <2> QED
      BY <2>1, <2>2
  <1>16. ASSUME NEW w \in Workers, FetchFails(w) PROVE TypeDB' /\ TypeRest'
    <2>1. PICK r \in batch[w] : r \in Reports /\ Write(r, Failure(draft[r])) /\ Processed(w, r)
      BY <1>16, <1>b DEF FetchFails
    <2>2. Failure(draft[r]) \in Row
      BY <1>t, <2>1, <1>b, FailureType DEF TypeDB, TypeRest
    <2>3. TypeDB'
      BY <1>t, <2>1, <2>2, WriteType
    <2>4. TypeRest'
      BY <1>t, <1>16, <2>1 DEF TypeRest, FetchFails, Processed, store, local, item
    <2> QED
      BY <2>3, <2>4
  <1>17. ASSUME NEW w \in Workers, PutObject(w) PROVE TypeDB' /\ TypeRest'
    <2>1. report[w] \in batch[w] /\ report[w] \in Reports /\ body[w] \in Contents
      BY <1>t, <1>17 DEF PutObject, ControlInv, Control, TypeRest
    <2>2. Downloaded(draft[report[w]], body[w]) \in Row
      BY <1>t, <2>1, <1>b, ContentType DEF TypeDB
    <2>3. TypeDB'
      BY <1>t, <1>17, <2>1, <2>2, WriteType DEF PutObject
    <2>4. TypeRest'
      BY <1>t, <1>17, <2>1 DEF TypeRest, PutObject, EndPut, Processed, Goto, InRunOne, store, local
    <2> QED
      BY <2>3, <2>4
  <1>18. ASSUME NEW w \in Workers, PutFails(w) PROVE TypeDB' /\ TypeRest'
    <2>1. report[w] \in batch[w] /\ report[w] \in Reports /\ body[w] \in Contents
      BY <1>t, <1>18 DEF PutFails, ControlInv, Control, TypeRest
    <2>2. Failure(draft[report[w]]) \in Row
      BY <1>t, <2>1, <1>b, FailureType DEF TypeDB
    <2>3. TypeDB'
      BY <1>t, <1>18, <2>1, <2>2, WriteType DEF PutFails
    <2>4. TypeRest'
      BY <1>t, <1>18, <2>1 DEF TypeRest, PutFails, EndPut, Processed, Goto, InRunOne, store, local
    <2> QED
      BY <2>3, <2>4
  <1>19. ASSUME NEW w \in Workers, DownloadDone(w) PROVE TypeDB' /\ TypeRest'
    <2>1. TypeDB'
      BY <1>t, <1>19, CommitType DEF DownloadDone
    <2>2. TypeRest'
      BY <1>t, <1>19 DEF TypeRest, DownloadDone, Commit, Goto, AfterDownload, InRunOne, store, local, item
    <2> QED
      BY <2>1, <2>2
  <1>20. ASSUME NEW w \in Workers, Extract(w) PROVE TypeDB' /\ TypeRest'
    <2>1. PICK r \in batch[w] : /\ r \in Reports
                             /\ objects[r] \in Contents
                             /\ Write(r, Extracted(draft[r], objects[r]))
                             /\ Processed(w, r)
      BY <1>20, <1>t, <1>b DEF Extract, TypeRest
    <2>2. Extracted(draft[r], objects[r]) \in Row
      BY <1>t, <2>1, <1>b, ContentType DEF TypeDB, TypeRest
    <2>3. TypeDB'
      BY <1>t, <2>1, <2>2, WriteType
    <2>4. TypeRest'
      BY <1>t, <1>20, <2>1 DEF TypeRest, Extract, Processed, store, local, item
    <2> QED
      BY <2>3, <2>4
  <1>21. ASSUME NEW w \in Workers, ExtractFails(w) PROVE TypeDB' /\ TypeRest'
    <2>1. PICK r \in batch[w] : r \in Reports /\ Write(r, Failure(draft[r])) /\ Processed(w, r)
      BY <1>21, <1>b DEF ExtractFails
    <2>2. Failure(draft[r]) \in Row
      BY <1>t, <2>1, <1>b, FailureType DEF TypeDB, TypeRest
    <2>3. TypeDB'
      BY <1>t, <2>1, <2>2, WriteType
    <2>4. TypeRest'
      BY <1>t, <1>21, <2>1 DEF TypeRest, ExtractFails, Processed, store, local, item
    <2> QED
      BY <2>3, <2>4
  <1>22. ASSUME NEW w \in Workers, ExtractDone(w) PROVE TypeDB' /\ TypeRest'
    <2>1. TypeDB'
      BY <1>t, <1>22, CommitType DEF ExtractDone
    <2>2. TypeRest'
      BY <1>t, <1>22 DEF TypeRest, ExtractDone, Commit, Goto, InRunOne, store, local, item
    <2> QED
      BY <2>1, <2>2
  <1>23. ASSUME NEW w \in Workers, Raise(w) PROVE TypeDB' /\ TypeRest'
    <2>1. TypeDB'
      BY <1>t, <1>23, RollbackType DEF Raise, HandleException
    <2>2. late' \subseteq Reports \X Contents /\ objects' = objects /\ overwritten' = overwritten
      BY <1>t, <1>23, <1>p DEF TypeRest, Raise, LeaveUpload, store
    <2>3. faults' \in 0..MaxFaults
      BY <1>t, <1>23, SettingsAssumption DEF TypeRest, Raise
    <2>4. TypeRest'
      BY <1>t, <1>23, <2>2, <2>3 DEF TypeRest, Raise, HandleException, Leave, Goto, InRunOne
    <2> QED
      BY <2>1, <2>4
  <1>24. ASSUME NEW w \in Workers, Cancel(w) PROVE TypeDB' /\ TypeRest'
    <2>1. TypeDB'
      BY <1>t, <1>24, RollbackType DEF Cancel
    <2>2. late' \subseteq Reports \X Contents /\ objects' = objects /\ overwritten' = overwritten
      BY <1>t, <1>24, <1>p DEF TypeRest, Cancel, LeaveUpload, store
    <2>3. faults' \in 0..MaxFaults
      BY <1>t, <1>24, SettingsAssumption DEF TypeRest, Cancel
    <2>4. TypeRest'
      BY <1>t, <1>24, <2>2, <2>3 DEF TypeRest, Cancel, NoRun, Leave, Goto, InRunOne
    <2> QED
      BY <2>1, <2>4
  <1>25. ASSUME LandLate PROVE TypeDB' /\ TypeRest'
    <2>1. TypeDB'
      BY <1>t, <1>25 DEF TypeDB, LandLate, db
    <2>2. TypeRest'
      BY <1>t, <1>25 DEF TypeRest, LandLate, local, item
    <2> QED
      BY <2>1, <2>2
  <1> QED
      BY <1>1, <1>2, <1>3, <1>4, <1>5, <1>6, <1>7, <1>8, <1>9, <1>10, <1>11, <1>12, <1>13, <1>14, <1>15, <1>16, <1>17, <1>18, <1>19, <1>20, <1>21, <1>22, <1>23, <1>24, <1>25
      DEF Next, Step, Discover, Download, ExtractStage

-----------------------------------------------------------------------------
(* The database invariant, one lemma per way of ending or using a transaction *)

LEMMA InitDB == Init => DBInv
  <1> SUFFICES ASSUME Init PROVE DBInv
      OBVIOUS
  <1>1. \A r \in Reports : rows[r] = Absent /\ draft[r] = Absent /\ owner[r] = Nil
      BY DEF Init
  <1>2. Coherent(Absent)
      BY SettingsAssumption DEF Coherent, Absent
  <1>3. \A w \in Workers : \A r \in Reports : View(w, r) = Absent
      BY <1>1 DEF View
  <1> QED
      BY <1>1, <1>2, <1>3
      DEF DBInv, DraftFree, OneEdge, Coherence, Objects, ObjectOf, Extractions, MadeFrom,
          CommittedOriginals, VisibleOriginals, Absent

LEMMA SameDB == DBInv /\ UNCHANGED <<db, objects, overwritten>> => DBInv'
  BY DEF DBInv, db, DraftFree, OneEdge, Coherence, Objects, ObjectOf, Extractions, MadeFrom,
         CommittedOriginals, VisibleOriginals, View

\* An edge keeps a stored PDF and its sha256.
LEMMA EdgeKeeps ==
    ASSUME NEW x \in Row, NEW y, Lifecycle!Edge(x, y), Coherent(x), x.stored
    PROVE  y.stored /\ y.sha = x.sha
  <1>1. ~Lifecycle!Appears(x, y)
      BY DEF Lifecycle!Appears, Lifecycle!Unknown
  <1>2. CASE Lifecycle!Retried(x, y)
      BY <1>2 DEF Lifecycle!Retried, Row
  <1>3. CASE Lifecycle!GivenUp(x, y)
      BY <1>3 DEF Lifecycle!GivenUp, Row
  <1>4. ~Lifecycle!Stored(x, y)
      BY DEF Lifecycle!Stored, Coherent
  <1>5. ~Lifecycle!Deduplicated(x, y)
      BY DEF Lifecycle!Deduplicated, Coherent
  <1>6. CASE Lifecycle!Digested(x, y)
      BY <1>6 DEF Lifecycle!Digested, Row
  <1> QED
      BY <1>1, <1>2, <1>3, <1>4, <1>5, <1>6 DEF Lifecycle!Edge

LEMMA DraftKeeps ==
    ASSUME TypeOK, DBInv, NEW q \in Reports, rows[q].stored
    PROVE  draft[q].stored /\ draft[q].sha = rows[q].sha
  <1>1. rows[q] \in Row
      BY DEF TypeOK
  <1> QED
      BY <1>1, EdgeKeeps DEF DBInv, OneEdge, Coherence

LEMMA CommitDB ==
    ASSUME TypeOK, DBInv, NEW w \in Workers, NEW s, Commit(w, s),
           UNCHANGED <<objects, overwritten>>
    PROVE  DBInv'
  <1>1. \A r \in Reports :
            /\ rows'[r] = IF owner[r] = w THEN draft[r] ELSE rows[r]
            /\ draft'[r] = draft[r]
            /\ owner'[r] = IF owner[r] = w THEN Nil ELSE owner[r]
      BY DEF Commit, Release, View
  <1>2. DraftFree'
      BY <1>1 DEF DBInv, DraftFree
  <1>3. OneEdge'
      BY <1>1 DEF DBInv, OneEdge
  <1>4. Coherence'
      BY <1>1 DEF DBInv, Coherence
  <1>5. Objects'
      BY <1>1 DEF DBInv, Objects, ObjectOf
  <1>6. Extractions'
      BY <1>1 DEF DBInv, Extractions, MadeFrom
  <1>7. CommittedOriginals'
      BY <1>1 DEF DBInv, VisibleOriginals, CommittedOriginals, View
  <1>8. VisibleOriginals'
    <2> SUFFICES ASSUME NEW v \in Workers, NEW r \in Reports, View(v, r)'.sha # Nil
                 PROVE  \E q \in Reports : View(v, q)'.stored /\ View(v, q)'.sha = View(v, r)'.sha
        BY DEF VisibleOriginals
    <2>1. \A q \in Reports : View(v, q)' = IF owner[q] \in {v, w} THEN draft[q] ELSE rows[q]
        BY <1>1, WorkersAssumption DEF View
    <2>2. \A u \in {v, w} : \A q \in Reports :
              View(u, q).stored => View(v, q)'.stored /\ View(v, q)'.sha = View(u, q).sha
        BY <2>1, DraftKeeps DEF View
    <2>3. \E u \in {v, w} : View(v, r)' = View(u, r)
        BY <2>1 DEF View
    <2>4. PICK u \in {v, w} : View(v, r)' = View(u, r)
        BY <2>3
    <2>5. PICK q \in Reports : View(u, q).stored /\ View(u, q).sha = View(u, r).sha
        BY <2>4 DEF DBInv, VisibleOriginals
    <2> QED
        BY <2>2, <2>4, <2>5
  <1> QED
      BY <1>2, <1>3, <1>4, <1>5, <1>6, <1>7, <1>8 DEF DBInv


LEMMA RollbackDB ==
    ASSUME TypeOK, DBInv, NEW w \in Workers, Rollback(w), UNCHANGED <<objects, overwritten>>
    PROVE  DBInv'
  <1>1. \A r \in Reports :
            /\ rows'[r] = rows[r]
            /\ draft'[r] = IF owner[r] = w THEN rows[r] ELSE draft[r]
            /\ owner'[r] = IF owner[r] = w THEN Nil ELSE owner[r]
      BY DEF Rollback, Release
  <1>2. DraftFree'
      BY <1>1 DEF DBInv, DraftFree
  <1>3. OneEdge'
      BY <1>1 DEF DBInv, OneEdge
  <1>4. Coherence'
      BY <1>1 DEF DBInv, Coherence
  <1>5. Objects'
      BY <1>1 DEF DBInv, Objects, ObjectOf
  <1>6. Extractions'
      BY <1>1 DEF DBInv, Extractions, MadeFrom
  <1>7. CommittedOriginals'
      BY <1>1 DEF DBInv, CommittedOriginals
  <1>8. VisibleOriginals'
    <2>1. \A v \in Workers : \A r \in Reports :
              View(v, r)' = IF v = w THEN rows[r] ELSE View(v, r)
        BY <1>1, WorkersAssumption DEF View
    <2> QED
        BY <2>1 DEF DBInv, CommittedOriginals, VisibleOriginals
  <1> QED
      BY <1>2, <1>3, <1>4, <1>5, <1>6, <1>7, <1>8 DEF DBInv

\* A claim locks committed rows that nobody holds; nobody's view changes.
LEMMA ClaimDB ==
    ASSUME TypeOK, DBInv, NEW w \in Workers, NEW B \in SUBSET {r \in Reports : owner[r] = Nil},
           owner' = [r \in Reports |-> IF r \in B THEN w ELSE owner[r]],
           UNCHANGED <<rows, draft, objects, overwritten>>
    PROVE  DBInv'
  <1>1. \A v \in Workers : \A r \in Reports : View(v, r)' = View(v, r)
      BY WorkersAssumption DEF View, DBInv, DraftFree
  <1>2. VisibleOriginals' /\ CommittedOriginals'
      BY <1>1 DEF DBInv, VisibleOriginals, CommittedOriginals
  <1>3. DraftFree'
      BY WorkersAssumption DEF DBInv, DraftFree
  <1> QED
      BY <1>2, <1>3
      DEF DBInv, OneEdge, Coherence, Objects, ObjectOf, Extractions, MadeFrom

\* The owner of a row rewrites it, and perhaps its object.
LEMMA WriteDB ==
    ASSUME TypeOK, DBInv, NEW w \in Workers, NEW r \in Reports, owner[r] = w,
           NEW x \in Row, Write(r, x),
           Lifecycle!Edge(rows[r], x), Coherent(x),
           \A q \in Reports \ {r} : objects'[q] = objects[q] /\ (q \in overwritten' <=> q \in overwritten),
           ObjectOf(x, r)', MadeFrom(x, r)', ObjectOf(rows[r], r)', MadeFrom(rows[r], r)',
           draft[r].stored => x.stored /\ x.sha = draft[r].sha,
           x.sha # Nil /\ ~x.stored => \E q \in Reports \ {r} : View(w, q).sha = x.sha
    PROVE  DBInv'
  <1>1. /\ rows' = rows /\ owner' = owner
        /\ draft'[r] = x
        /\ \A q \in Reports \ {r} : draft'[q] = draft[q]
      BY DEF Write, TypeOK
  <1>2. DraftFree'
      BY <1>1, WorkersAssumption DEF DBInv, DraftFree
  <1>3. OneEdge'
      BY <1>1 DEF DBInv, OneEdge
  <1>4. Coherence'
      BY <1>1 DEF DBInv, Coherence
  <1>5. Objects'
      BY <1>1 DEF DBInv, Objects, ObjectOf
  <1>6. Extractions'
      BY <1>1 DEF DBInv, Extractions, MadeFrom
  <1>7. CommittedOriginals'
      BY <1>1 DEF DBInv, CommittedOriginals
  <1>8. VisibleOriginals'
    <2> SUFFICES ASSUME NEW v \in Workers, NEW p \in Reports, View(v, p)'.sha # Nil
                 PROVE  \E q \in Reports : View(v, q)'.stored /\ View(v, q)'.sha = View(v, p)'.sha
        BY DEF VisibleOriginals
    <2>1. \A q \in Reports : View(v, q)' = IF v = w /\ q = r THEN x ELSE View(v, q)
        BY <1>1 DEF View
    <2>2. \A q \in Reports : View(v, q).stored => View(v, q)'.stored /\ View(v, q)'.sha = View(v, q).sha
        BY <2>1 DEF View
    <2>3. CASE v = w /\ p = r /\ x.stored
        BY <2>3, <2>1
    <2>4. CASE v = w /\ p = r /\ ~x.stored
        BY <2>4, <2>1, <2>2 DEF DBInv, VisibleOriginals
    <2>5. CASE ~(v = w /\ p = r)
        BY <2>5, <2>1, <2>2 DEF DBInv, VisibleOriginals
    <2> QED
        BY <2>3, <2>4, <2>5
  <1> QED
      BY <1>2, <1>3, <1>4, <1>5, <1>6, <1>7, <1>8 DEF DBInv


-----------------------------------------------------------------------------
(* The values the stages write lie one edge further and are coherent *)

LEMMA DiscoveredEdge ==
    ASSUME NEW t \in Types
    PROVE  Lifecycle!Edge(Absent, Discovered(t)) /\ Coherent(Discovered(t))
  <1>1. /\ Discovered(t).status = "discovered" /\ Discovered(t).type = t
        /\ Discovered(t).retry = 0 /\ ~Discovered(t).stored
        /\ Discovered(t).sha = Nil /\ Discovered(t).digest = Nil
      BY DEF Discovered, Absent
  <1>2. Lifecycle!Appears(Absent, Discovered(t))
      BY DEF Lifecycle!Appears, Lifecycle!Unknown, Discovered, Absent
  <1>3. Coherent(Discovered(t))
      BY <1>1, SettingsAssumption, DataAssumption DEF Coherent
  <1> QED
      BY <1>2, <1>3 DEF Lifecycle!Edge

LEMMA FailureEdge ==
    ASSUME NEW x \in Row, Coherent(x), x.status \in {"discovered", "downloaded"},
           x.retry < MaxRetries
    PROVE  /\ Lifecycle!Edge(x, Failure(x))
           /\ Coherent(Failure(x))
           /\ Failure(x).stored = x.stored /\ Failure(x).sha = x.sha
           /\ Failure(x).digest = x.digest
  <1>1. x.retry \in Nat /\ x.retry + 1 <= MaxRetries
      BY SettingsAssumption DEF Row
  <1>2. /\ Failure(x).stored = x.stored /\ Failure(x).sha = x.sha
        /\ Failure(x).digest = x.digest /\ Failure(x).type = x.type
        /\ Failure(x).retry = x.retry + 1
        /\ Failure(x).status = IF x.retry + 1 >= MaxRetries THEN "failed" ELSE x.status
      BY DEF Failure, Row
  <1>3. CASE x.retry + 1 = MaxRetries
    <2>1. Failure(x) = [x EXCEPT !.retry = MaxRetries, !.status = "failed"]
        BY <1>1, <1>3, SettingsAssumption DEF Failure
    <2>2. Lifecycle!GivenUp(x, Failure(x))
        BY <1>3, <2>1 DEF Lifecycle!GivenUp, Lifecycle!Open
    <2>3. Coherent(Failure(x))
        BY <1>1, <1>2, <1>3, SettingsAssumption, DataAssumption DEF Coherent, Absent
    <2> QED
        BY <1>2, <2>2, <2>3 DEF Lifecycle!Edge
  <1>4. CASE x.retry + 1 # MaxRetries
    <2> DEFINE y == [x EXCEPT !.retry = x.retry + 1]
    <2>0. y \in Row /\ y.status = x.status
        BY <1>1, SettingsAssumption DEF Row
    <2>1. Failure(x) = y
      <3>1. x.retry + 1 >= MaxRetries <=> FALSE
          BY <1>1, <1>4, SettingsAssumption
      <3>2. Failure(x) = [y EXCEPT !.status = y.status]
          BY <2>0, <3>1 DEF Failure
      <3>3. [y EXCEPT !.status = y.status] = y
          BY <2>0 DEF Row
      <3> QED
          BY <3>2, <3>3
    <2>2. Lifecycle!Retried(x, Failure(x))
        BY <1>1, <1>4, <2>1, SettingsAssumption DEF Lifecycle!Retried, Lifecycle!Open
    <2>3. Coherent(Failure(x))
        BY <1>1, <1>2, <1>4, SettingsAssumption, DataAssumption DEF Coherent, Absent
    <2> QED
        BY <1>2, <2>2, <2>3 DEF Lifecycle!Edge
  <1> QED
      BY <1>3, <1>4

LEMMA DownloadEdge ==
    ASSUME NEW x \in Row, Coherent(x), x.status = "discovered", NEW c \in Contents
    PROVE  /\ Lifecycle!Edge(x, Downloaded(x, c)) /\ Coherent(Downloaded(x, c))
           /\ Downloaded(x, c).stored /\ Downloaded(x, c).sha = c
           /\ Downloaded(x, c).digest = Nil
           /\ Lifecycle!Edge(x, Duplicate(x, c)) /\ Coherent(Duplicate(x, c))
           /\ ~Duplicate(x, c).stored /\ Duplicate(x, c).sha = c
           /\ Duplicate(x, c).digest = Nil
  <1>1. x.digest = Nil /\ ~x.stored /\ x.type # Nil /\ x.retry # MaxRetries
      BY DEF Coherent, Absent
  <1>2. Lifecycle!Stored(x, Downloaded(x, c)) /\ Lifecycle!Deduplicated(x, Duplicate(x, c))
      BY DEF Lifecycle!Stored, Lifecycle!Deduplicated, Downloaded, Duplicate
  <1>3. /\ Downloaded(x, c).status = "downloaded" /\ Downloaded(x, c).type = x.type
        /\ Downloaded(x, c).retry = x.retry /\ Downloaded(x, c).stored
        /\ Downloaded(x, c).sha = c /\ Downloaded(x, c).digest = x.digest
      BY DEF Downloaded, Row
  <1>4. /\ Duplicate(x, c).status = "duplicate" /\ Duplicate(x, c).type = x.type
        /\ Duplicate(x, c).retry = x.retry /\ Duplicate(x, c).stored = x.stored
        /\ Duplicate(x, c).sha = c /\ Duplicate(x, c).digest = x.digest
      BY DEF Duplicate, Row
  <1>5. Coherent(Downloaded(x, c)) /\ Coherent(Duplicate(x, c))
      BY <1>1, <1>3, <1>4, DataAssumption DEF Coherent
  <1> QED
      BY <1>1, <1>2, <1>3, <1>4, <1>5 DEF Lifecycle!Edge

LEMMA ExtractEdge ==
    ASSUME NEW x \in Row, Coherent(x), x.status = "downloaded", NEW c \in Contents
    PROVE  /\ Lifecycle!Edge(x, Extracted(x, c)) /\ Coherent(Extracted(x, c))
           /\ Extracted(x, c).stored = x.stored /\ Extracted(x, c).sha = x.sha
           /\ Extracted(x, c).digest = c
  <1>1. x.digest = Nil /\ x.stored /\ x.type # Nil /\ x.retry # MaxRetries /\ x.sha # Nil
      BY DEF Coherent, Absent
  <1>2. Extracted(x, c) = [x EXCEPT !.status = "extracted", !.digest = c]
      BY <1>1 DEF Extracted
  <1>3. Lifecycle!Digested(x, Extracted(x, c))
      BY <1>1, <1>2 DEF Lifecycle!Digested
  <1>4. /\ Extracted(x, c).status = "extracted" /\ Extracted(x, c).type = x.type
        /\ Extracted(x, c).retry = x.retry /\ Extracted(x, c).stored = x.stored
        /\ Extracted(x, c).sha = x.sha /\ Extracted(x, c).digest = c
      BY <1>2 DEF Row
  <1>5. Coherent(Extracted(x, c))
      BY <1>1, <1>4, DataAssumption DEF Coherent
  <1> QED
      BY <1>3, <1>4, <1>5 DEF Lifecycle!Edge

-----------------------------------------------------------------------------
(* Every step preserves the database invariant *)

\* What is known of a report in the batch of a worker.
LEMMA InBatch ==
    ASSUME IInv, NEW w \in Workers, NEW r \in batch[w]
    PROVE  /\ r \in Reports /\ owner[r] = w /\ draft[r] = rows[r] /\ rows[r] \in Row
           /\ Coherent(rows[r]) /\ rows[r].retry < MaxRetries /\ rows[r].retry \in Nat
           /\ rows[r].status = IF pc[w] = "ai" THEN "downloaded" ELSE "discovered"
           /\ ObjectOf(rows[r], r) /\ MadeFrom(rows[r], r)
  BY SettingsAssumption
  DEF IInv, TypeOK, ControlInv, Control, Waiting, DBInv, Coherence, Objects, Extractions, Row

LEMMA FailureDB ==
    ASSUME IInv, NEW w \in Workers, NEW r \in batch[w], Write(r, Failure(draft[r])),
           UNCHANGED <<objects, overwritten>>
    PROVE  DBInv'
  <1>1. PICK x \in Row : x = Failure(rows[r])
      BY InBatch, FailureType
  <1>2. /\ r \in Reports /\ owner[r] = w /\ draft[r] = rows[r] /\ rows[r] \in Row
        /\ Coherent(rows[r]) /\ ObjectOf(rows[r], r) /\ MadeFrom(rows[r], r)
        /\ rows[r].status \in {"discovered", "downloaded"} /\ rows[r].retry < MaxRetries
      BY InBatch
  <1>3. /\ Lifecycle!Edge(rows[r], x) /\ Coherent(x)
        /\ x.stored = rows[r].stored /\ x.sha = rows[r].sha /\ x.digest = rows[r].digest
      BY <1>1, <1>2, FailureEdge
  <1>4. rows' = rows /\ Write(r, x)
      BY <1>1, <1>2 DEF Write
  <1>5. /\ ObjectOf(x, r)' /\ MadeFrom(x, r)'
        /\ ObjectOf(rows[r], r)' /\ MadeFrom(rows[r], r)'
      BY <1>2, <1>3, <1>4 DEF ObjectOf, MadeFrom
  <1>6. x.sha # Nil => x.stored
      BY <1>2, <1>3 DEF Coherent
  <1> QED
      BY <1>2, <1>3, <1>4, <1>5, <1>6, WriteDB DEF IInv

LEMMA DuplicateDB ==
    ASSUME IInv, NEW w \in Workers, pc[w] = "fetch", NEW r \in batch[w], NEW c \in Contents,
           NEW q \in SameContent(w, r, c),
           Write(r, Duplicate(draft[r], c)), UNCHANGED <<objects, overwritten>>
    PROVE  DBInv'
  <1>2. /\ r \in Reports /\ owner[r] = w /\ draft[r] = rows[r] /\ rows[r] \in Row
        /\ Coherent(rows[r]) /\ ObjectOf(rows[r], r) /\ MadeFrom(rows[r], r)
        /\ rows[r].status = "discovered"
      BY InBatch
  <1>1. PICK x \in Row : x = Duplicate(rows[r], c)
      BY <1>2, ContentType
  <1>3. /\ Lifecycle!Edge(rows[r], x) /\ Coherent(x)
        /\ ~x.stored /\ x.sha = c /\ x.digest = Nil
      BY <1>1, <1>2, DownloadEdge
  <1>4. rows' = rows /\ Write(r, x)
      BY <1>1, <1>2 DEF Write
  <1>5. /\ ObjectOf(x, r)' /\ MadeFrom(x, r)'
        /\ ObjectOf(rows[r], r)' /\ MadeFrom(rows[r], r)'
      BY <1>2, <1>3, <1>4 DEF ObjectOf, MadeFrom
  <1>6. q \in Reports \ {r} /\ View(w, q).sha = x.sha
      BY <1>3 DEF SameContent
  <1>7. ~draft[r].stored
      BY <1>2 DEF Coherent
  <1> QED
      BY <1>2, <1>3, <1>4, <1>5, <1>6, <1>7, WriteDB DEF IInv

LEMMA PutDB == ASSUME IInv, NEW w \in Workers, PutObject(w) PROVE DBInv'
  <1>1. PICK r \in Reports, c \in Contents : r = report[w] /\ c = body[w] /\ r \in batch[w]
      BY DEF PutObject, IInv, ControlInv, Control, TypeOK
  <1>2. /\ r \in Reports /\ owner[r] = w /\ draft[r] = rows[r] /\ rows[r] \in Row
        /\ Coherent(rows[r]) /\ rows[r].status = "discovered"
      BY <1>1, InBatch DEF PutObject
  <1>3. PICK x \in Row : x = Downloaded(rows[r], c)
      BY <1>2, ContentType
  <1>4. /\ Lifecycle!Edge(rows[r], x) /\ Coherent(x)
        /\ x.stored /\ x.sha = c /\ x.digest = Nil
      BY <1>2, <1>3, DownloadEdge
  <1>5. rows' = rows /\ Write(r, x)
      BY <1>1, <1>2, <1>3 DEF Write, PutObject
  <1>6. ~rows[r].stored /\ rows[r].digest = Nil
      BY <1>2 DEF Coherent
  <1>7. /\ objects'[r] = c
        /\ \A q \in Reports \ {r} :
               objects'[q] = objects[q] /\ (q \in overwritten' <=> q \in overwritten)
      BY <1>1 DEF PutObject, IInv, TypeOK
  <1>8. /\ ObjectOf(x, r)' /\ MadeFrom(x, r)'
        /\ ObjectOf(rows[r], r)' /\ MadeFrom(rows[r], r)'
      BY <1>4, <1>5, <1>6, <1>7, DataAssumption DEF ObjectOf, MadeFrom
  <1> QED
      BY <1>2, <1>4, <1>5, <1>6, <1>7, <1>8, WriteDB DEF IInv

LEMMA ExtractDB == ASSUME IInv, NEW w \in Workers, Extract(w) PROVE DBInv'
  <1>1. PICK r \in batch[w] : objects[r] # Nil /\ Write(r, Extracted(draft[r], objects[r]))
      BY DEF Extract
  <1>2. /\ r \in Reports /\ owner[r] = w /\ draft[r] = rows[r] /\ rows[r] \in Row
        /\ Coherent(rows[r]) /\ ObjectOf(rows[r], r) /\ MadeFrom(rows[r], r)
        /\ rows[r].status = "downloaded"
      BY InBatch DEF Extract
  <1>3. PICK c \in Contents : c = objects[r]
      BY <1>1, <1>2 DEF IInv, TypeOK
  <1>4. PICK x \in Row : x = Extracted(rows[r], c)
      BY <1>2, ContentType
  <1>5. /\ Lifecycle!Edge(rows[r], x) /\ Coherent(x)
        /\ x.stored = rows[r].stored /\ x.sha = rows[r].sha /\ x.digest = c
      BY <1>2, <1>4, ExtractEdge
  <1>6. /\ rows' = rows /\ Write(r, x) /\ objects' = objects /\ overwritten' = overwritten
      BY <1>1, <1>2, <1>3, <1>4 DEF Write, Extract, store
  <1>7. rows[r].stored
      BY <1>2 DEF Coherent
  <1>8. /\ ObjectOf(x, r)' /\ MadeFrom(x, r)'
        /\ ObjectOf(rows[r], r)' /\ MadeFrom(rows[r], r)'
      BY <1>2, <1>3, <1>5, <1>6, <1>7 DEF ObjectOf, MadeFrom
  <1> QED
      BY <1>2, <1>5, <1>6, <1>7, <1>8, WriteDB DEF IInv

\* An insert that does not wait gives the row to its transaction.
LEMMA UpsertDB == ASSUME IInv, NEW w \in Workers, Upsert(w) PROVE DBInv'
  <1>1. PICK r \in Reports, t \in Types : r = report[w] /\ t = rtype[w]
      BY DEF Upsert, IInv, ControlInv, Control, InRunOne
  <1>2. CASE rows[r].status # "absent"
      BY <1>1, <1>2, SameDB DEF Upsert, db, store, IInv
  <1>3. CASE rows[r].status = "absent"
    <2>1. /\ rows' = rows /\ objects' = objects /\ overwritten' = overwritten
          /\ \A q \in Reports : draft'[q] = IF q = r THEN Discovered(t) ELSE draft[q]
          /\ \A q \in Reports : owner'[q] = IF q = r THEN w ELSE owner[q]
        BY <1>1, <1>3 DEF Upsert, store, IInv, TypeOK
    <2>2. owner[r] \in {Nil, w}
        BY <1>1, <1>3 DEF Upsert, WaitsFor, IInv, TypeOK
    <2>3. rows[r] = Absent
        BY <1>3 DEF IInv, DBInv, Coherence, Coherent
    <2>4. Lifecycle!Edge(Absent, Discovered(t)) /\ Coherent(Discovered(t))
        BY DiscoveredEdge
    <2>5. Discovered(t).sha = Nil /\ ~Discovered(t).stored /\ Discovered(t).digest = Nil
        BY DEF Discovered, Absent
    <2>6. DraftFree' /\ OneEdge' /\ Coherence'
        BY <2>1, <2>3, <2>4, WorkersAssumption DEF IInv, DBInv, DraftFree, OneEdge, Coherence
    <2>7. Objects' /\ Extractions' /\ CommittedOriginals'
        BY <2>1, <2>5
        DEF IInv, DBInv, Objects, ObjectOf, Extractions, MadeFrom, CommittedOriginals
    <2>8. VisibleOriginals'
      <3>1. \A v \in Workers : \A q \in Reports :
                View(v, q)' = IF v = w /\ q = r THEN Discovered(t) ELSE View(v, q)
          BY <2>1, <2>2, WorkersAssumption DEF View, IInv, TypeOK
      <3>2. ~View(w, r).stored
        <4>1. draft[r] = Absent \/ Lifecycle!Edge(Absent, draft[r])
            BY <2>3 DEF IInv, DBInv, OneEdge
        <4>2. Lifecycle!Edge(Absent, draft[r]) => Lifecycle!Appears(Absent, draft[r])
            BY DEF Absent, Lifecycle!Edge, Lifecycle!Retried, Lifecycle!GivenUp, Lifecycle!Stored,
                   Lifecycle!Deduplicated, Lifecycle!Digested, Lifecycle!Open
        <4>3. Lifecycle!Appears(Absent, draft[r]) => ~draft[r].stored
            BY DEF Lifecycle!Appears, Lifecycle!Unknown
        <4> QED
            BY <2>3, <4>1, <4>2, <4>3 DEF View, Absent
      <3> QED
          BY <3>1, <3>2, <2>5 DEF IInv, DBInv, VisibleOriginals
    <2> QED
        BY <2>6, <2>7, <2>8 DEF DBInv
  <1> QED
      BY <1>2, <1>3

LEMMA LandLateDB == ASSUME IInv, LandLate PROVE DBInv'
  <1>1. PICK u \in Reports \X Contents : /\ objects' = [objects EXCEPT ![u[1]] = u[2]]
                                         /\ overwritten' = overwritten \cup {u[1]}
      BY DEF LandLate, IInv, TypeOK
  <1>2. \A r \in Reports : /\ r = u[1] => objects'[r] # Nil /\ r \in overwritten'
                           /\ r # u[1] => objects'[r] = objects[r]
                           /\ r \in overwritten => r \in overwritten'
      BY <1>1, DataAssumption DEF IInv, TypeOK
  <1>3. Objects' /\ Extractions'
      BY <1>2 DEF LandLate, db, IInv, DBInv, Objects, ObjectOf, Extractions, MadeFrom
  <1> QED
      BY <1>3
      DEF LandLate, db, IInv, DBInv, DraftFree, OneEdge, Coherence, CommittedOriginals,
          VisibleOriginals, View


LEMMA StepDB == IInv /\ [Next]_vars => DBInv'
  <1> SUFFICES ASSUME IInv, [Next]_vars PROVE DBInv'
      OBVIOUS
  <1>i. TypeOK /\ DBInv
      BY DEF IInv
  <1>1. CASE UNCHANGED vars
      BY <1>i, <1>1, SameDB DEF vars, db
  <1>2. ASSUME NEW w \in Workers, StartPipeline(w) PROVE DBInv'
      BY <1>i, <1>2, SameDB DEF StartPipeline, store
  <1>3. ASSUME NEW w \in Workers, RunOne(w) \/ EndPipeline(w) \/ Propagate(w) PROVE DBInv'
      BY <1>i, <1>3, SameDB DEF RunOne, EndPipeline, Propagate, store
  <1>4. ASSUME NEW w \in Workers, FinishRun(w) PROVE DBInv'
      BY <1>i, <1>4, CommitDB DEF FinishRun, store
  <1>5. ASSUME NEW w \in Workers, BreakDeadlock(w) \/ FetchAmbiguous(w) PROVE DBInv'
      BY <1>i, <1>5, RollbackDB DEF BreakDeadlock, FetchAmbiguous, HandleException, store
  <1>6. ASSUME NEW w \in Workers, DiscoverYield(w) \/ FetchNew(w) PROVE DBInv'
      BY <1>i, <1>6, SameDB DEF DiscoverYield, FetchNew, store
  <1>7. ASSUME NEW w \in Workers, Upsert(w) PROVE DBInv'
      BY <1>7, UpsertDB
  <1>8. ASSUME NEW w \in Workers, DiscoverDone(w) \/ DownloadDone(w) \/ ExtractDone(w) PROVE DBInv'
      BY <1>i, <1>8, CommitDB DEF DiscoverDone, DownloadDone, ExtractDone, store
  <1>9. ASSUME NEW w \in Workers, ClaimDownload(w) \/ ClaimExtract(w) PROVE DBInv'
    <2>1. PICK B \in SUBSET {r \in Reports : owner[r] = Nil} :
              \E full, empty : Claim(w, B, full, empty)
        BY <1>9 DEF ClaimDownload, ClaimExtract, Claimable
    <2> QED
        BY <1>i, <2>1, ClaimDB DEF Claim, store
  <1>10. ASSUME NEW w \in Workers, FetchDuplicate(w) PROVE DBInv'
    <2>1. PICK r \in batch[w], c \in Contents :
              /\ \E q \in Reports : q \in SameContent(w, r, c)
              /\ Write(r, Duplicate(draft[r], c))
        BY <1>10, <1>i, SourceAssumption DEF FetchDuplicate, TypeOK
    <2> QED
        BY <1>10, <2>1, DuplicateDB DEF FetchDuplicate, store
  <1>11. ASSUME NEW w \in Workers, FetchFails(w) \/ ExtractFails(w) PROVE DBInv'
      BY <1>11, FailureDB DEF FetchFails, ExtractFails, store
  <1>12. ASSUME NEW w \in Workers, PutFails(w) PROVE DBInv'
    <2>1. PICK r \in batch[w] : r = report[w]
        BY <1>12 DEF PutFails, IInv, ControlInv, Control
    <2> QED
        BY <1>12, <2>1, FailureDB DEF PutFails, store
  <1>13. ASSUME NEW w \in Workers, PutObject(w) PROVE DBInv'
      BY <1>13, PutDB
  <1>14. ASSUME NEW w \in Workers, Extract(w) PROVE DBInv'
      BY <1>14, ExtractDB
  <1>15. ASSUME NEW w \in Workers, Raise(w) \/ Cancel(w) PROVE DBInv'
      BY <1>i, <1>15, RollbackDB DEF Raise, Cancel, HandleException, LeaveUpload, store
  <1>16. ASSUME LandLate PROVE DBInv'
      BY <1>16, LandLateDB
  <1> QED
      BY <1>1, <1>2, <1>3, <1>4, <1>5, <1>6, <1>7, <1>8, <1>9, <1>10, <1>11, <1>12, <1>13,
         <1>14, <1>15, <1>16
      DEF Next, Step, Discover, Download, ExtractStage


-----------------------------------------------------------------------------
(* Every step preserves the control invariant *)

\* A step of w leaves the locals of the other workers and their rows alone.
Undisturbed(v) ==
    /\ pc'[v] = pc[v]
    /\ batch'[v] = batch[v]
    /\ report'[v] = report[v]
    /\ body'[v] = body[v]
    /\ rtype'[v] = rtype[v]
    /\ \A r \in Reports : /\ owner'[r] = v <=> owner[r] = v
                          /\ owner[r] = v => rows'[r] = rows[r] /\ draft'[r] = draft[r]

LEMMA UndisturbedControl ==
    ASSUME TypeOK, NEW v \in Workers, Control(v), Undisturbed(v) PROVE Control(v)'
  <1>1. batch[v] \subseteq Reports
      BY DEF TypeOK
  <1> QED
      BY <1>1 DEF Control, Undisturbed, Waiting

\* What is left to show of a step of w.
LEMMA ControlOf ==
    ASSUME TypeOK, ControlInv, NEW w \in Workers, Control(w)',
           \A v \in Workers \ {w} : Undisturbed(v)
    PROVE  ControlInv'
  BY UndisturbedControl DEF ControlInv

\* The ways of using the database never touch a row of another worker.
Confined(w) ==
    \A v \in Workers \ {w} : \A r \in Reports :
        /\ owner'[r] = v <=> owner[r] = v
        /\ owner[r] = v => rows'[r] = rows[r] /\ draft'[r] = draft[r]

LEMMA ConfinedSteps ==
    ASSUME TypeOK, NEW w \in Workers
    PROVE  /\ UNCHANGED db => Confined(w)
           /\ \A s : Commit(w, s) => Confined(w)
           /\ Rollback(w) => Confined(w)
           /\ \A r \in Reports : owner[r] = w => \A x : Write(r, x) => Confined(w)
  <1>1. UNCHANGED db => Confined(w)
      BY DEF db, Confined
  <1>2. \A s : Commit(w, s) => Confined(w)
      BY WorkersAssumption DEF Commit, Release, View, Confined
  <1>3. Rollback(w) => Confined(w)
      BY WorkersAssumption DEF Rollback, Release, Confined
  <1>4. \A r \in Reports : owner[r] = w => \A x : Write(r, x) => Confined(w)
      BY DEF Write, Confined, TypeOK
  <1> QED
      BY <1>1, <1>2, <1>3, <1>4

\* After a commit or a rollback the worker holds nothing.
LEMMA Released ==
    ASSUME NEW w \in Workers, Release(w) PROVE \A r \in Reports : owner'[r] # w
  BY WorkersAssumption DEF Release


LEMMA InitControl == Init => ControlInv
  BY WorkersAssumption DEF Init, ControlInv, Control, InRunOne

LEMMA StepControl == IInv /\ [Next]_vars => ControlInv'
  <1> SUFFICES ASSUME IInv, [Next]_vars PROVE ControlInv'
      OBVIOUS
  <1>t. TypeOK /\ ControlInv
      BY DEF IInv
  <1>c. \A w \in Workers : Control(w)
      BY <1>t DEF ControlInv
  <1>1. CASE UNCHANGED vars
      BY <1>c, <1>1 DEF vars, ControlInv, Control, Waiting
  <1>2. ASSUME NEW w \in Workers, StartPipeline(w) PROVE ControlInv'
    <2>1. Confined(w)
        BY <1>t, <1>2, ConfinedSteps DEF StartPipeline
    <2>2. \A v \in Workers \ {w} : Undisturbed(v)
        BY <1>t, <2>1, <1>2 DEF TypeOK, Undisturbed, Confined, StartPipeline, Goto, item
    <2>3. Control(w)'
        BY <1>t, <1>c, <1>2 DEF TypeOK, Control, StartPipeline, Goto, db, item, InRunOne
    <2> QED
        BY <1>t, <2>2, <2>3, ControlOf
  <1>3. ASSUME NEW w \in Workers, RunOne(w) PROVE ControlInv'
    <2>1. Confined(w)
        BY <1>t, <1>3, ConfinedSteps DEF RunOne
    <2>2. \A v \in Workers \ {w} : Undisturbed(v)
        BY <1>t, <2>1, <1>3 DEF TypeOK, Undisturbed, Confined, RunOne, Goto, item
    <2>3. /\ pc'[w] \in {"discover", "download", "extract"}
          /\ rtype'[w] \in Types
          /\ UNCHANGED <<batch, owner>>
      <3>1. PICK x \in todo[w] : rtype' = [rtype EXCEPT ![w] = x]
          BY <1>3 DEF RunOne
      <3>2. x \in Types /\ rtype'[w] = x
          BY <1>t, <3>1 DEF TypeOK
      <3>3. pc' = [pc EXCEPT ![w] = FirstOf(stages[w])] /\ UNCHANGED <<batch, owner>>
          BY <1>3 DEF RunOne, Goto, db
      <3>4. pc'[w] = FirstOf(stages[w])
          BY <1>t, <3>3 DEF TypeOK
      <3> QED
          BY <3>2, <3>3, <3>4 DEF FirstOf
    <2>4. batch[w] = {} /\ \A r \in Reports : owner[r] # w
        BY <1>c, <1>3 DEF Control, RunOne
    <2>5. Control(w)'
        BY <2>3, <2>4 DEF Control
    <2> QED
        BY <1>t, <2>2, <2>5, ControlOf
  <1>4. ASSUME NEW w \in Workers, EndPipeline(w) PROVE ControlInv'
    <2>1. Confined(w)
        BY <1>t, <1>4, ConfinedSteps DEF EndPipeline
    <2>2. \A v \in Workers \ {w} : Undisturbed(v)
        BY <1>t, <2>1, <1>4 DEF TypeOK, Undisturbed, Confined, EndPipeline, Leave, Goto
    <2>3. Control(w)'
        BY <1>t, <1>c, <1>4 DEF TypeOK, Control, EndPipeline, Leave, Goto, db, InRunOne
    <2> QED
        BY <1>t, <2>2, <2>3, ControlOf
  <1>5. ASSUME NEW w \in Workers, FinishRun(w) PROVE ControlInv'
    <2>1. Confined(w)
        BY <1>t, <1>5, ConfinedSteps DEF FinishRun
    <2>2. \A v \in Workers \ {w} : Undisturbed(v)
        BY <1>t, <2>1, <1>5 DEF TypeOK, Undisturbed, Confined, FinishRun, Goto, local, item
    <2>3. Control(w)'
        BY <1>t, <1>c, <1>5, Released DEF TypeOK, Control, FinishRun, Commit, Goto, local, item, InRunOne
    <2> QED
        BY <1>t, <2>2, <2>3, ControlOf
  <1>6. ASSUME NEW w \in Workers, Propagate(w) PROVE ControlInv'
    <2>1. Confined(w)
        BY <1>t, <1>6, ConfinedSteps DEF Propagate
    <2>2. \A v \in Workers \ {w} : Undisturbed(v)
        BY <1>t, <2>1, <1>6 DEF TypeOK, Undisturbed, Confined, Propagate, Goto, local, item
    <2>3. Control(w)'
        BY <1>t, <1>c, <1>6 DEF TypeOK, Control, Propagate, Goto, db, local, item, InRunOne
    <2> QED
        BY <1>t, <2>2, <2>3, ControlOf
  <1>7. ASSUME NEW w \in Workers, BreakDeadlock(w) PROVE ControlInv'
    <2>1. Confined(w)
        BY <1>t, <1>7, ConfinedSteps DEF BreakDeadlock, HandleException
    <2>2. \A v \in Workers \ {w} : Undisturbed(v)
        BY <1>t, <2>1, <1>7 DEF TypeOK, Undisturbed, Confined, BreakDeadlock, HandleException, Leave, Goto
    <2>3. Control(w)'
        BY <1>t, <1>7, Released DEF TypeOK, Control, BreakDeadlock, HandleException, Rollback, Leave, Goto, InRunOne
    <2> QED
        BY <1>t, <2>2, <2>3, ControlOf
  <1>8. ASSUME NEW w \in Workers, FetchAmbiguous(w) PROVE ControlInv'
    <2>1. Confined(w)
        BY <1>t, <1>8, ConfinedSteps DEF FetchAmbiguous, HandleException
    <2>2. \A v \in Workers \ {w} : Undisturbed(v)
        BY <1>t, <2>1, <1>8 DEF TypeOK, Undisturbed, Confined, FetchAmbiguous, HandleException, Leave, Goto
    <2>3. Control(w)'
        BY <1>t, <1>8, Released DEF TypeOK, Control, FetchAmbiguous, HandleException, Rollback, Leave, Goto, InRunOne
    <2> QED
        BY <1>t, <2>2, <2>3, ControlOf
  <1>9. ASSUME NEW w \in Workers, DiscoverYield(w) PROVE ControlInv'
    <2>1. Confined(w)
        BY <1>t, <1>9, ConfinedSteps DEF DiscoverYield
    <2>2. \A v \in Workers \ {w} : Undisturbed(v)
        BY <1>t, <2>1, <1>9 DEF TypeOK, Undisturbed, Confined, DiscoverYield, Goto, local
    <2>3. Control(w)'
      <3>1. rtype[w] \in Types /\ batch[w] = {}
          BY <1>c, <1>9 DEF Control, DiscoverYield, InRunOne
      <3>2. report'[w] \in Reports
          BY <1>t, <1>9, <3>1, SourceAssumption DEF DiscoverYield, TypeOK
      <3>3. pc'[w] = "insert" /\ rtype'[w] = rtype[w] /\ batch'[w] = batch[w]
          BY <1>t, <1>9 DEF DiscoverYield, Goto, local, TypeOK
      <3> QED
          BY <3>1, <3>2, <3>3 DEF Control
    <2> QED
        BY <1>t, <2>2, <2>3, ControlOf
  <1>10. ASSUME NEW w \in Workers, Upsert(w) PROVE ControlInv'
    <2>1. PICK r \in Reports : r = report[w]
        BY <1>c, <1>10 DEF Upsert, Control
    <2>2. owner[r] \in {Nil, w} \/ UNCHANGED db
        BY <1>t, <1>10, <2>1 DEF Upsert, WaitsFor, TypeOK, db
    <2>3. /\ rows' = rows
          /\ \A q \in Reports \ {r} : owner'[q] = owner[q] /\ draft'[q] = draft[q]
          /\ UNCHANGED db \/ owner'[r] = w
        BY <1>t, <1>10, <2>1 DEF Upsert, TypeOK, db
    <2>4. Confined(w)
        BY <2>2, <2>3, WorkersAssumption DEF Confined, db
    <2>5. \A v \in Workers \ {w} : Undisturbed(v)
        BY <1>t, <2>4, <1>10 DEF TypeOK, Undisturbed, Confined, Upsert, Goto, local
    <2>6. Control(w)'
        BY <1>t, <1>c, <1>10 DEF TypeOK, Control, Upsert, Goto, local, InRunOne
    <2> QED
        BY <1>t, <2>5, <2>6, ControlOf
  <1>11. ASSUME NEW w \in Workers, DiscoverDone(w) PROVE ControlInv'
    <2>1. Confined(w)
        BY <1>t, <1>11, ConfinedSteps DEF DiscoverDone
    <2>2. \A v \in Workers \ {w} : Undisturbed(v)
        BY <1>t, <2>1, <1>11 DEF TypeOK, Undisturbed, Confined, DiscoverDone, Goto, local, item
    <2>3. Control(w)'
        BY <1>t, <1>c, <1>11, Released DEF TypeOK, Control, DiscoverDone, Commit, AfterDiscover, Goto, local, item, InRunOne
    <2> QED
        BY <1>t, <2>2, <2>3, ControlOf
  <1>12. ASSUME NEW w \in Workers, ClaimDownload(w) PROVE ControlInv'
    <2>1. PICK B \in SUBSET Claimable(w, "discovered") : Claim(w, B, "fetch", AfterDownload(stages[w]))
        BY <1>12 DEF ClaimDownload
    <2>2. \A r \in B : /\ r \in Reports /\ owner[r] = Nil /\ rows[r].status = "discovered"
                       /\ rows[r].retry < MaxRetries /\ draft[r] = rows[r]
        BY <2>1 DEF Claimable, IInv, DBInv, DraftFree
    <2>3. \A v \in Workers \ {w} : Undisturbed(v)
        BY <1>t, <2>1, <2>2, WorkersAssumption
        DEF TypeOK, Undisturbed, Claim, Goto, local, item
    <2>4. \A r \in Reports : owner[r] # w
        BY <1>c, <1>12 DEF ClaimDownload, Control
    <2>5. /\ rows' = rows /\ draft' = draft /\ batch'[w] = B
          /\ rtype'[w] = rtype[w]
          /\ \A r \in Reports : owner'[r] = IF r \in B THEN w ELSE owner[r]
          /\ pc'[w] = IF B = {} THEN AfterDownload(stages[w]) ELSE "fetch"
        BY <1>t, <2>1 DEF TypeOK, Claim, Goto, local
    <2>6. ASSUME B = {} PROVE Control(w)'
        BY <1>c, <1>12, <2>4, <2>5, <2>6 DEF Control, ClaimDownload, AfterDownload, InRunOne
    <2>7. ASSUME B # {} PROVE Control(w)'
        BY <1>c, <1>12, <2>2, <2>5, <2>7 DEF Control, Waiting, ClaimDownload, InRunOne
    <2> QED
        BY <1>t, <2>3, <2>6, <2>7, ControlOf
  <1>13. ASSUME NEW w \in Workers, ClaimExtract(w) PROVE ControlInv'
    <2>1. PICK B \in SUBSET Claimable(w, "downloaded") : Claim(w, B, "ai", "finish")
        BY <1>13 DEF ClaimExtract
    <2>2. \A r \in B : /\ r \in Reports /\ owner[r] = Nil /\ rows[r].status = "downloaded"
                       /\ rows[r].retry < MaxRetries /\ draft[r] = rows[r]
        BY <2>1 DEF Claimable, IInv, DBInv, DraftFree
    <2>3. \A v \in Workers \ {w} : Undisturbed(v)
        BY <1>t, <2>1, <2>2, WorkersAssumption
        DEF TypeOK, Undisturbed, Claim, Goto, local, item
    <2>4. \A r \in Reports : owner[r] # w
        BY <1>c, <1>13 DEF ClaimExtract, Control
    <2>5. /\ rows' = rows /\ draft' = draft /\ batch'[w] = B
          /\ rtype'[w] = rtype[w]
          /\ \A r \in Reports : owner'[r] = IF r \in B THEN w ELSE owner[r]
          /\ pc'[w] = IF B = {} THEN "finish" ELSE "ai"
        BY <1>t, <2>1 DEF TypeOK, Claim, Goto, local
    <2>6. ASSUME B = {} PROVE Control(w)'
        BY <1>c, <1>13, <2>4, <2>5, <2>6 DEF Control, ClaimExtract, InRunOne
    <2>7. ASSUME B # {} PROVE Control(w)'
        BY <1>c, <1>13, <2>2, <2>5, <2>7 DEF Control, Waiting, ClaimExtract, InRunOne
    <2> QED
        BY <1>t, <2>3, <2>6, <2>7, ControlOf
  <1>14. ASSUME NEW w \in Workers, FetchNew(w) PROVE ControlInv'
    <2>1. Confined(w)
        BY <1>t, <1>14, ConfinedSteps DEF FetchNew
    <2>2. \A v \in Workers \ {w} : Undisturbed(v)
        BY <1>t, <2>1, <1>14 DEF TypeOK, Undisturbed, Confined, FetchNew, Goto, local
    <2>3. Control(w)'
        BY <1>t, <1>c, <1>14, SourceAssumption DEF TypeOK, Control, Waiting, FetchNew, Goto, db, local, InRunOne
    <2> QED
        BY <1>t, <2>2, <2>3, ControlOf
  <1>15. ASSUME NEW w \in Workers, FetchDuplicate(w) PROVE ControlInv'
    <2>1. PICK r \in batch[w] : (\E x : Write(r, x)) /\ Processed(w, r)
        BY <1>15 DEF FetchDuplicate
    <2>2. r \in Reports /\ owner[r] = w
        BY <2>1, InBatch
    <2>3. Confined(w)
        BY <1>t, <2>1, <2>2, ConfinedSteps
    <2>4. \A v \in Workers \ {w} : Undisturbed(v)
        BY <1>t, <2>1, <2>3, <1>15 DEF TypeOK, Undisturbed, Confined, FetchDuplicate, Processed, local, item
    <2>5. \A q \in batch'[w] : q \in batch[w] /\ q \in Reports /\ draft'[q] = draft[q]
        BY <1>t, <2>1, <2>2 DEF TypeOK, Write, Processed
    <2>6. Control(w)'
        BY <1>t, <1>c, <2>1, <2>5, <1>15 DEF TypeOK, Control, Waiting, Write, FetchDuplicate, local, item
    <2> QED
        BY <1>t, <2>4, <2>6, ControlOf
  <1>16. ASSUME NEW w \in Workers, FetchFails(w) PROVE ControlInv'
    <2>1. PICK r \in batch[w] : (\E x : Write(r, x)) /\ Processed(w, r)
        BY <1>16 DEF FetchFails
    <2>2. r \in Reports /\ owner[r] = w
        BY <2>1, InBatch
    <2>3. Confined(w)
        BY <1>t, <2>1, <2>2, ConfinedSteps
    <2>4. \A v \in Workers \ {w} : Undisturbed(v)
        BY <1>t, <2>1, <2>3, <1>16 DEF TypeOK, Undisturbed, Confined, FetchFails, Processed, local, item
    <2>5. \A q \in batch'[w] : q \in batch[w] /\ q \in Reports /\ draft'[q] = draft[q]
        BY <1>t, <2>1, <2>2 DEF TypeOK, Write, Processed
    <2>6. Control(w)'
        BY <1>t, <1>c, <2>1, <2>5, <1>16 DEF TypeOK, Control, Waiting, Write, FetchFails, local, item
    <2> QED
        BY <1>t, <2>4, <2>6, ControlOf
  <1>17. ASSUME NEW w \in Workers, PutObject(w) PROVE ControlInv'
    <2>1. PICK r \in batch[w] : r = report[w] /\ (\E x : Write(r, x)) /\ EndPut(w)
        BY <1>c, <1>17 DEF PutObject, Control
    <2>2. r \in Reports /\ owner[r] = w
        BY <2>1, InBatch
    <2>3. Confined(w)
        BY <1>t, <2>1, <2>2, ConfinedSteps
    <2>4. \A v \in Workers \ {w} : Undisturbed(v)
        BY <1>t, <2>1, <2>3, <1>17
        DEF TypeOK, Undisturbed, Confined, PutObject, EndPut, Processed, Goto, local
    <2>5. /\ batch'[w] \subseteq batch[w] /\ rows' = rows /\ owner' = owner
          /\ \A q \in batch'[w] : q \in Reports /\ draft'[q] = draft[q]
        BY <1>t, <2>1, <2>2 DEF TypeOK, Write, EndPut, Processed
    <2>6. pc'[w] = "fetch" /\ rtype'[w] = rtype[w]
        BY <1>t, <2>1, <1>17 DEF TypeOK, EndPut, Goto, PutObject, local
    <2>7. Control(w)'
        BY <1>c, <2>5, <2>6, <1>17 DEF Control, Waiting, PutObject, InRunOne
    <2> QED
        BY <1>t, <2>4, <2>7, ControlOf
  <1>18. ASSUME NEW w \in Workers, PutFails(w) PROVE ControlInv'
    <2>1. PICK r \in batch[w] : r = report[w] /\ (\E x : Write(r, x)) /\ EndPut(w)
        BY <1>c, <1>18 DEF PutFails, Control
    <2>2. r \in Reports /\ owner[r] = w
        BY <2>1, InBatch
    <2>3. Confined(w)
        BY <1>t, <2>1, <2>2, ConfinedSteps
    <2>4. \A v \in Workers \ {w} : Undisturbed(v)
        BY <1>t, <2>1, <2>3, <1>18
        DEF TypeOK, Undisturbed, Confined, PutFails, EndPut, Processed, Goto, local
    <2>5. /\ batch'[w] \subseteq batch[w] /\ rows' = rows /\ owner' = owner
          /\ \A q \in batch'[w] : q \in Reports /\ draft'[q] = draft[q]
        BY <1>t, <2>1, <2>2 DEF TypeOK, Write, EndPut, Processed
    <2>6. pc'[w] = "fetch" /\ rtype'[w] = rtype[w]
        BY <1>t, <2>1, <1>18 DEF TypeOK, EndPut, Goto, PutFails, local
    <2>7. Control(w)'
        BY <1>c, <2>5, <2>6, <1>18 DEF Control, Waiting, PutFails, InRunOne
    <2> QED
        BY <1>t, <2>4, <2>7, ControlOf
  <1>19. ASSUME NEW w \in Workers, DownloadDone(w) PROVE ControlInv'
    <2>1. Confined(w)
        BY <1>t, <1>19, ConfinedSteps DEF DownloadDone
    <2>2. \A v \in Workers \ {w} : Undisturbed(v)
        BY <1>t, <2>1, <1>19 DEF TypeOK, Undisturbed, Confined, DownloadDone, Goto, local, item
    <2>3. Control(w)'
        BY <1>t, <1>c, <1>19, Released DEF TypeOK, Control, DownloadDone, Commit, AfterDownload, Goto, local, item, InRunOne
    <2> QED
        BY <1>t, <2>2, <2>3, ControlOf
  <1>20. ASSUME NEW w \in Workers, Extract(w) PROVE ControlInv'
    <2>1. PICK r \in batch[w] : (\E x : Write(r, x)) /\ Processed(w, r)
        BY <1>20 DEF Extract
    <2>2. r \in Reports /\ owner[r] = w
        BY <2>1, InBatch
    <2>3. Confined(w)
        BY <1>t, <2>1, <2>2, ConfinedSteps
    <2>4. \A v \in Workers \ {w} : Undisturbed(v)
        BY <1>t, <2>1, <2>3, <1>20 DEF TypeOK, Undisturbed, Confined, Extract, Processed, local, item
    <2>5. \A q \in batch'[w] : q \in batch[w] /\ q \in Reports /\ draft'[q] = draft[q]
        BY <1>t, <2>1, <2>2 DEF TypeOK, Write, Processed
    <2>6. Control(w)'
        BY <1>t, <1>c, <2>1, <2>5, <1>20 DEF TypeOK, Control, Waiting, Write, Extract, local, item
    <2> QED
        BY <1>t, <2>4, <2>6, ControlOf
  <1>21. ASSUME NEW w \in Workers, ExtractFails(w) PROVE ControlInv'
    <2>1. PICK r \in batch[w] : (\E x : Write(r, x)) /\ Processed(w, r)
        BY <1>21 DEF ExtractFails
    <2>2. r \in Reports /\ owner[r] = w
        BY <2>1, InBatch
    <2>3. Confined(w)
        BY <1>t, <2>1, <2>2, ConfinedSteps
    <2>4. \A v \in Workers \ {w} : Undisturbed(v)
        BY <1>t, <2>1, <2>3, <1>21 DEF TypeOK, Undisturbed, Confined, ExtractFails, Processed, local, item
    <2>5. \A q \in batch'[w] : q \in batch[w] /\ q \in Reports /\ draft'[q] = draft[q]
        BY <1>t, <2>1, <2>2 DEF TypeOK, Write, Processed
    <2>6. Control(w)'
        BY <1>t, <1>c, <2>1, <2>5, <1>21 DEF TypeOK, Control, Waiting, Write, ExtractFails, local, item
    <2> QED
        BY <1>t, <2>4, <2>6, ControlOf
  <1>22. ASSUME NEW w \in Workers, ExtractDone(w) PROVE ControlInv'
    <2>1. Confined(w)
        BY <1>t, <1>22, ConfinedSteps DEF ExtractDone
    <2>2. \A v \in Workers \ {w} : Undisturbed(v)
        BY <1>t, <2>1, <1>22 DEF TypeOK, Undisturbed, Confined, ExtractDone, Goto, local, item
    <2>3. Control(w)'
        BY <1>t, <1>c, <1>22, Released DEF TypeOK, Control, ExtractDone, Commit, Goto, local, item, InRunOne
    <2> QED
        BY <1>t, <2>2, <2>3, ControlOf
  <1>23. ASSUME NEW w \in Workers, Raise(w) PROVE ControlInv'
    <2>1. Confined(w)
        BY <1>t, <1>23, ConfinedSteps DEF Raise, HandleException
    <2>2. \A v \in Workers \ {w} : Undisturbed(v)
        BY <1>t, <2>1, <1>23 DEF TypeOK, Undisturbed, Confined, Raise, HandleException, Leave, Goto
    <2>3. Control(w)'
        BY <1>t, <1>23, Released DEF TypeOK, Control, Raise, HandleException, Rollback, Leave, Goto, InRunOne
    <2> QED
        BY <1>t, <2>2, <2>3, ControlOf
  <1>24. ASSUME NEW w \in Workers, Cancel(w) PROVE ControlInv'
    <2>1. Confined(w)
        BY <1>t, <1>24, ConfinedSteps DEF Cancel
    <2>2. \A v \in Workers \ {w} : Undisturbed(v)
        BY <1>t, <2>1, <1>24 DEF TypeOK, Undisturbed, Confined, Cancel, Leave, Goto
    <2>3. Control(w)'
        BY <1>t, <1>24, Released DEF TypeOK, Control, Cancel, Rollback, Leave, Goto, InRunOne
    <2> QED
        BY <1>t, <2>2, <2>3, ControlOf
  <1>25. ASSUME LandLate PROVE ControlInv'
      BY <1>c, <1>25 DEF LandLate, ControlInv, Control, Waiting, db, local, item
  <1> QED
      BY <1>1, <1>2, <1>3, <1>4, <1>5, <1>6, <1>7, <1>8, <1>9, <1>10, <1>11, <1>12, <1>13, <1>14, <1>15, <1>16, <1>17, <1>18, <1>19, <1>20, <1>21, <1>22, <1>23, <1>24, <1>25
      DEF Next, Step, Discover, Download, ExtractStage

-----------------------------------------------------------------------------
(* Theorems *)

\* The conjunction is inductive: the three parts support one another.
THEOREM Invariance == Spec => []IInv
  <1>1. Init => IInv
      BY TypeInit, InitDB, InitControl DEF IInv
  <1>2. IInv /\ [Next]_vars => IInv'
      BY TypeStep, StepDB, StepControl DEF IInv
  <1> QED
      BY <1>1, <1>2, PTL DEF Spec

\* Every variable keeps its type, whatever the workers do and whatever fails.
THEOREM TypeCorrectness == Spec => []TypeOK
  <1>1. IInv => TypeOK
      BY DEF IInv
  <1> QED
      BY <1>1, Invariance, PTL

\* Committed rows are coherent and name objects that exist and have the recorded
\* content (storage.py and extractor.py, each commit and rollback of jobs.py).
THEOREM CoherentRows == Spec => []RowsCoherent
  <1>1. IInv => RowsCoherent
      BY DEF IInv, DBInv, Coherence, Objects, ObjectOf, RowsCoherent
  <1> QED
      BY <1>1, Invariance, PTL

\* What _download_one marks duplicate is kept under another report.
THEOREM Duplicates == Spec => []DuplicateHasOriginal
  <1>1. IInv => DuplicateHasOriginal
      BY DEF IInv, DBInv, Coherence, Coherent, CommittedOriginals, DuplicateHasOriginal
  <1> QED
      BY <1>1, Invariance, PTL

\* _extract_one reads the PDF whose sha256 the row records, unless a cancelled
\* worker's upload has landed on it.
THEOREM ExtractionsMatch == Spec => []ExtractionMatches
  <1>1. IInv => ExtractionMatches
      BY DEF IInv, DBInv, Extractions, MadeFrom, ExtractionMatches
  <1> QED
      BY <1>1, Invariance, PTL

\* No path through a stage keeps a lock on a row beyond its transaction.
THEOREM Locks == Spec => []LocksReleased
  <1>1. IInv => LocksReleased
      BY DEF IInv, ControlInv, Control, LocksReleased, Owned
  <1> QED
      BY <1>1, Invariance, PTL

\* The pipeline implements the life cycle of a report: no committed step moves
\* a report otherwise than by one edge, for any number of workers.
THEOREM Refinement == Spec => LifecycleSpec
  <1>1. Init => Lifecycle!Init
      BY DEF Init, Lifecycle!Init, Lifecycle!Unknown, Absent
  <1>2. IInv /\ [Next]_vars => [Lifecycle!Next]_rows
    <2> SUFFICES ASSUME IInv, [Next]_vars, UNCHANGED rows \/ \E w \in Workers : \E s : Commit(w, s)
                 PROVE  [Lifecycle!Next]_rows
      <3>1. IInv /\ [Next]_vars => UNCHANGED rows \/ \E w \in Workers : \E s : Commit(w, s)
          BY DEF Next, vars, Step, Discover, Download, ExtractStage, StartPipeline, RunOne,
                 EndPipeline, FinishRun, Propagate, BreakDeadlock, HandleException, Rollback,
                 DiscoverYield, Upsert, DiscoverDone, ClaimDownload, ClaimExtract, Claim,
                 FetchNew, FetchDuplicate, FetchAmbiguous, FetchFails, PutObject, PutFails,
                 DownloadDone, Extract, ExtractFails, ExtractDone, Raise, Cancel, LandLate,
                 Write, db
      <3> QED
          BY <3>1
    <2>1. CASE UNCHANGED rows
        BY <2>1
    <2>2. ASSUME NEW w \in Workers, NEW s, Commit(w, s) PROVE Lifecycle!Next
      <3>1. DOMAIN rows' = Reports
          BY <2>2 DEF Commit
      <3>2. \A r \in Reports : rows'[r] = rows[r] \/ Lifecycle!Edge(rows[r], rows'[r])
          BY <2>2 DEF Commit, View, IInv, DBInv, OneEdge
      <3> QED
          BY <3>1, <3>2 DEF Lifecycle!Next
    <2> QED
        BY <2>1, <2>2
  <1> QED
      BY <1>1, <1>2, Invariance, PTL DEF Spec, LifecycleSpec, Lifecycle!Spec

=============================================================================
