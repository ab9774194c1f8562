----------------------- MODULE PipelineOverlapProofs ------------------------
(***************************************************************************)
(* What invocations of the pipeline that overlap do to one another, for    *)
(* every finite set of workers: who works on what, who waits for whom, and *)
(* how many copies of a PDF the dedup check lets pass.                     *)
(***************************************************************************)
EXTENDS PipelineProofs, FiniteSetTheorems

-----------------------------------------------------------------------------
(* The shapes of a step *)

\* A step leaves the database alone, claims, inserts, writes one row that the worker
\* holds, or ends its transaction.
LEMMA Shapes ==
    ASSUME NEW w \in Workers, Step(w) \/ StartPipeline(w) \/ Raise(w) \/ Cancel(w)
    PROVE  \/ /\ UNCHANGED db
              /\ \/ StartPipeline(w) \/ RunOne(w) \/ EndPipeline(w) \/ Propagate(w)
                 \/ DiscoverYield(w) \/ FetchNew(w)
           \/ ClaimDownload(w) \/ ClaimExtract(w) \/ Upsert(w)
           \/ FetchDuplicate(w) \/ FetchFails(w) \/ PutFails(w) \/ ExtractFails(w)
           \/ Extract(w) \/ PutObject(w)
           \/ (\E s : Commit(w, s)) /\ (FinishRun(w) \/ DiscoverDone(w) \/ DownloadDone(w)
                                       \/ ExtractDone(w))
           \/ Rollback(w) /\ (BreakDeadlock(w) \/ FetchAmbiguous(w) \/ Raise(w) \/ Cancel(w))
  BY DEF Step, Discover, Download, ExtractStage, StartPipeline, RunOne, EndPipeline, Propagate,
         DiscoverYield, FetchNew, FinishRun, DiscoverDone, DownloadDone, ExtractDone,
         BreakDeadlock, FetchAmbiguous, Raise, Cancel, HandleException, db

-----------------------------------------------------------------------------
(* Who works on a report *)

\* FOR UPDATE SKIP LOCKED: a report is in one batch at a time, and what is with Gemini
\* has no extraction yet.
THEOREM OneWorkerPerReport == Spec => []WorkedOnOnce
  <1>1. IInv => WorkedOnOnce
    <2> SUFFICES ASSUME IInv, NEW w \in Workers, NEW r \in batch[w]
                 PROVE  /\ \A v \in Workers \ {w} : r \notin batch[v]
                        /\ pc[w] = "ai" => rows[r].digest = Nil
        BY DEF WorkedOnOnce
    <2>1. \A v \in Workers : r \in batch[v] => v = w
        BY InBatch
    <2>2. Coherent(rows[r]) /\ (pc[w] = "ai" => rows[r].status = "downloaded")
        BY InBatch
    <2> QED
        BY <2>1, <2>2 DEF Coherent
  <1> QED
      BY <1>1, Invariance, PTL

-----------------------------------------------------------------------------
(* Who waits for whom *)

\* A transaction that has inserted a report is still listing.
InsertedBy(v, r) == owner[r] = v /\ rows[r].status = "absent"

ListingInv ==
    \A v \in Workers : \A r \in Reports :
        InsertedBy(v, r) => pc[v] \in {"discover", "insert"}

\* What a step leaves to show: nobody but the worker itself inserts, and the worker
\* inserts in its listing only.
LEMMA ListingOf ==
    ASSUME ListingInv, TypeOK, NEW w \in Workers,
           \A v \in Workers \ {w} : pc'[v] = pc[v],
           \A v \in Workers \ {w} : \A r \in Reports : InsertedBy(v, r)' => InsertedBy(v, r),
           \/ \A r \in Reports : ~InsertedBy(w, r)'
           \/ pc'[w] \in {"discover", "insert"}
    PROVE  ListingInv'
  BY DEF ListingInv

LEMMA ListingStep == IInv /\ ListingInv /\ [Next]_vars => ListingInv'
  <1> SUFFICES ASSUME IInv, ListingInv, [Next]_vars PROVE ListingInv'
      OBVIOUS
  <1>t. TypeOK
      BY DEF IInv
  <1>1. CASE UNCHANGED vars
      BY <1>1 DEF ListingInv, InsertedBy, vars
  <1>2. ASSUME NEW w \in Workers, UNCHANGED db,
               StartPipeline(w) \/ RunOne(w) \/ EndPipeline(w) \/ Propagate(w)
               \/ DiscoverYield(w) \/ FetchNew(w)
        PROVE ListingInv'
    <2>1. \A v \in Workers \ {w} : pc'[v] = pc[v]
        BY <1>t, <1>2 DEF TypeOK, StartPipeline, RunOne, EndPipeline, Propagate, DiscoverYield,
                          FetchNew, Leave, Goto
    <2>2. \A v \in Workers : \A r \in Reports : InsertedBy(v, r)' <=> InsertedBy(v, r)
        BY <1>2 DEF InsertedBy, db
    <2>3. pc[w] \in {"idle", "select", "failed"} => \A r \in Reports : owner[r] # w
        BY DEF IInv, ControlInv, Control
    <2>4. \/ pc[w] \in {"idle", "select", "failed", "fetch"}
          \/ pc'[w] \in {"discover", "insert"}
        BY <1>t, <1>2 DEF TypeOK, StartPipeline, RunOne, EndPipeline, Propagate, DiscoverYield,
                          FetchNew, Goto
    <2>5. pc[w] = "fetch" => \A r \in Reports : ~InsertedBy(w, r)
        BY DEF ListingInv
    <2> QED
        BY <1>t, <2>1, <2>2, <2>3, <2>4, <2>5, ListingOf DEF InsertedBy
  <1>3. ASSUME NEW w \in Workers, ClaimDownload(w) \/ ClaimExtract(w) PROVE ListingInv'
    <2>1. PICK B \in SUBSET Reports :
              /\ \A r \in B : rows[r].status # "absent" /\ owner[r] = Nil
              /\ owner' = [r \in Reports |-> IF r \in B THEN w ELSE owner[r]]
        BY <1>3 DEF ClaimDownload, ClaimExtract, Claimable, Claim
    <2>2. \A r \in Reports : owner[r] # w
        BY <1>3 DEF ClaimDownload, ClaimExtract, IInv, ControlInv, Control
    <2>3. rows' = rows
        BY <1>3 DEF ClaimDownload, ClaimExtract, Claim
    <2>4. \A v \in Workers : \A r \in Reports : InsertedBy(v, r)' => InsertedBy(v, r)
        BY <2>1, <2>3 DEF InsertedBy
    <2>5. \A v \in Workers \ {w} : pc'[v] = pc[v]
        BY <1>t, <1>3 DEF TypeOK, ClaimDownload, ClaimExtract, Claim, Goto
    <2> QED
        BY <1>t, <2>2, <2>4, <2>5, ListingOf DEF InsertedBy
  <1>4. ASSUME NEW w \in Workers, Upsert(w) PROVE ListingInv'
    <2>1. pc'[w] = "discover" /\ \A v \in Workers \ {w} : pc'[v] = pc[v]
        BY <1>t, <1>4 DEF TypeOK, Upsert, Goto
    <2>2. \A r \in Reports : rows'[r] = rows[r] /\ owner'[r] \in {owner[r], w}
        BY <1>t, <1>4 DEF TypeOK, Upsert
    <2>3. \A v \in Workers \ {w} : \A r \in Reports : InsertedBy(v, r)' => InsertedBy(v, r)
        BY <2>2 DEF InsertedBy
    <2> QED
        BY <1>t, <2>1, <2>3, ListingOf
  <1>5. ASSUME NEW w \in Workers,
               FetchDuplicate(w) \/ FetchFails(w) \/ PutFails(w) \/ ExtractFails(w)
               \/ Extract(w) \/ PutObject(w)
        PROVE ListingInv'
    <2>1. rows' = rows /\ owner' = owner
        BY <1>5 DEF FetchDuplicate, FetchFails, PutFails, ExtractFails, Extract, PutObject, Write
    <2>2. pc[w] \in {"fetch", "put", "ai"} /\ \A v \in Workers \ {w} : pc'[v] = pc[v]
        BY <1>t, <1>5 DEF TypeOK, FetchDuplicate, FetchFails, PutFails, ExtractFails, Extract,
                          PutObject, EndPut, Goto
    <2>3. \A v \in Workers : \A r \in Reports : InsertedBy(v, r)' => InsertedBy(v, r)
        BY <2>1 DEF InsertedBy
    <2>4. \A r \in Reports : ~InsertedBy(w, r)
        BY <2>2 DEF ListingInv
    <2> QED
        BY <1>t, <2>2, <2>3, <2>4, ListingOf
  <1>6. ASSUME NEW w \in Workers, (\E s : Commit(w, s)) \/ Rollback(w),
               \A v \in Workers \ {w} : pc'[v] = pc[v]
        PROVE ListingInv'
    <2>1. Confined(w) /\ Release(w)
        BY <1>t, <1>6, ConfinedSteps DEF Commit, Rollback
    <2>2. \A r \in Reports : owner'[r] # w
        BY <2>1, Released
    <2>3. \A v \in Workers \ {w} : \A r \in Reports : InsertedBy(v, r)' => InsertedBy(v, r)
        BY <2>1 DEF Confined, InsertedBy
    <2> QED
        BY <1>t, <1>6, <2>2, <2>3, ListingOf DEF InsertedBy
  <1>7. ASSUME NEW w \in Workers,
               FinishRun(w) \/ DiscoverDone(w) \/ DownloadDone(w) \/ ExtractDone(w)
               \/ BreakDeadlock(w) \/ FetchAmbiguous(w) \/ Raise(w) \/ Cancel(w)
        PROVE \A v \in Workers \ {w} : pc'[v] = pc[v]
      BY <1>t, <1>7 DEF TypeOK, FinishRun, DiscoverDone, DownloadDone, ExtractDone, BreakDeadlock,
                        FetchAmbiguous, Raise, Cancel, HandleException, Leave, Goto
  <1>8. CASE LandLate
      BY <1>8 DEF LandLate, ListingInv, InsertedBy, db
  <1> QED
      BY <1>1, <1>2, <1>3, <1>4, <1>5, <1>6, <1>7, <1>8, Shapes DEF Next

\* An insert waits for a listing that is in progress, and for nothing slower.
THEOREM Waits == Spec => []WaitsForListing
  <1>1. Init => ListingInv
      BY WorkersAssumption DEF Init, ListingInv, InsertedBy
  <1>2. IInv /\ ListingInv => WaitsForListing
    <2> SUFFICES ASSUME IInv, ListingInv, NEW w \in Workers, NEW v \in Workers, WaitsFor(w, v)
                 PROVE  pc[v] \in {"discover", "insert"}
        BY DEF WaitsForListing
    <2>1. report[w] \in Reports
        BY DEF WaitsFor, IInv, ControlInv, Control
    <2> QED
        BY <2>1 DEF ListingInv, InsertedBy, WaitsFor
  <1> QED
      BY <1>1, <1>2, ListingStep, Invariance, PTL DEF Spec

-----------------------------------------------------------------------------
(* How many copies of a PDF are stored *)

\* What w has stored and not committed, and what it is about to store.
Made(w, c) ==
    {r \in Reports : owner[r] = w /\ ~rows[r].stored /\ draft[r].stored /\ draft[r].sha = c}

Putting(w, c) == pc[w] = "put" /\ body[w] = c

\* The workers that may still add a copy.
Pending(c) == {w \in Workers : Made(w, c) # {} \/ Putting(w, c)}

\* A worker adds one copy at most: it sees what it has stored itself.
OneEach ==
    \A w \in Workers : \A c \in Contents :
        /\ \A p, q \in Made(w, c) : p = q
        /\ Putting(w, c) => Made(w, c) = {}

\* A copy takes the place of a worker that could add one.  Once there is a copy,
\* nobody sets out to store another.
Room ==
    \A c \in Contents :
        /\ IsFiniteSet(Copies(c))
        /\ Cardinality(Copies(c)) + Cardinality(Pending(c)) <= Cardinality(Workers)

CopiesInv == OneEach /\ Room

LEMMA PendingFinite ==
    ASSUME NEW c
    PROVE  /\ IsFiniteSet(Pending(c)) /\ Cardinality(Pending(c)) \in Nat
           /\ Cardinality(Pending(c)) <= Cardinality(Workers) /\ Cardinality(Workers) \in Nat
  <1>1. Pending(c) \in SUBSET Workers
      BY DEF Pending
  <1>2. IsFiniteSet(Workers)
      BY WorkersAssumption
  <1>3. IsFiniteSet(Pending(c)) /\ Cardinality(Pending(c)) <= Cardinality(Workers)
      BY <1>1, <1>2, FS_Subset
  <1> QED
      BY <1>2, <1>3, FS_CardinalityType

\* As few copies as before and no more workers that may add one.
LEMMA RoomKept ==
    ASSUME Room, NEW c \in Contents, Copies(c)' = Copies(c), Pending(c)' \subseteq Pending(c)
    PROVE  /\ IsFiniteSet(Copies(c))'
           /\ (Cardinality(Copies(c)) + Cardinality(Pending(c)) <= Cardinality(Workers))'
  <1>1. Pending(c)' \in SUBSET Pending(c)
      OBVIOUS
  <1>2. IsFiniteSet(Pending(c)') /\ Cardinality(Pending(c)') <= Cardinality(Pending(c))
      BY <1>1, PendingFinite, FS_Subset
  <1>3. /\ Cardinality(Copies(c)) \in Nat /\ Cardinality(Pending(c)') \in Nat
        /\ Cardinality(Pending(c)) \in Nat /\ Cardinality(Workers) \in Nat
      BY <1>2, PendingFinite, FS_CardinalityType DEF Room
  <1> QED
      BY <1>2, <1>3 DEF Room

\* A step that commits nothing and stores nothing.
LEMMA NothingStored ==
    ASSUME CopiesInv, rows' = rows,
           \A v \in Workers : \A c \in Contents :
               /\ Made(v, c)' \subseteq Made(v, c)
               /\ Putting(v, c)' => Putting(v, c)
    PROVE  CopiesInv'
  <1>1. OneEach'
      BY DEF CopiesInv, OneEach
  <1>2. ASSUME NEW c \in Contents
        PROVE  Copies(c)' = Copies(c) /\ Pending(c)' \subseteq Pending(c)
    <2>1. \A v \in Workers : Made(v, c)' # {} => Made(v, c) # {}
        OBVIOUS
    <2> QED
        BY <2>1 DEF Copies, Pending
  <1> QED
      BY <1>1, <1>2, RoomKept DEF CopiesInv, Room

\* Writing a row that stores what it has stored before, or nothing.
LEMMA NoNewPdf ==
    ASSUME CopiesInv, TypeOK, NEW w \in Workers, NEW r \in Reports, NEW x, Write(r, x),
           x.stored => draft[r].stored /\ x.sha = draft[r].sha,
           \A v \in Workers : pc'[v] = "put" => pc[v] = "put" /\ body'[v] = body[v]
    PROVE  CopiesInv'
  <1>1. /\ rows' = rows /\ owner' = owner
        /\ \A q \in Reports : draft'[q] = IF q = r THEN x ELSE draft[q]
      BY DEF Write, TypeOK
  <1>2. \A v, c : Made(v, c)' \subseteq Made(v, c)
      BY <1>1 DEF Made
  <1>3. \A v \in Workers : \A c : Putting(v, c)' => Putting(v, c)
      BY DEF Putting
  <1> QED
      BY <1>1, <1>2, <1>3, NothingStored

\* A rollback drops what the worker has made; a claim takes rows nobody has written.
LEMMA RollbackCopies ==
    ASSUME IInv, CopiesInv, NEW w \in Workers, Rollback(w), pc'[w] # "put",
           \A v \in Workers \ {w} : pc'[v] = pc[v] /\ body'[v] = body[v]
    PROVE  CopiesInv'
  <1>1. \A r \in Reports :
            /\ rows'[r] = rows[r]
            /\ draft'[r] = IF owner[r] = w THEN rows[r] ELSE draft[r]
            /\ owner'[r] = IF owner[r] = w THEN Nil ELSE owner[r]
      BY DEF Rollback, Release
  <1>2. \A v \in Workers : \A c : Made(v, c)' \subseteq Made(v, c)
      BY <1>1, WorkersAssumption DEF Made
  <1>3. \A v \in Workers : \A c : Putting(v, c)' => Putting(v, c)
      BY DEF Putting
  <1>4. rows' = rows
      BY DEF Rollback
  <1> QED
      BY <1>2, <1>3, <1>4, NothingStored

LEMMA ClaimCopies ==
    ASSUME IInv, CopiesInv, NEW w \in Workers, ClaimDownload(w) \/ ClaimExtract(w)
    PROVE  CopiesInv'
  <1>1. PICK B \in SUBSET Reports :
            /\ \A r \in B : owner[r] = Nil
            /\ owner' = [r \in Reports |-> IF r \in B THEN w ELSE owner[r]]
      BY DEF ClaimDownload, ClaimExtract, Claimable, Claim
  <1>2. rows' = rows /\ draft' = draft /\ body' = body
      BY DEF ClaimDownload, ClaimExtract, Claim, item
  <1>3. \A r \in B : draft[r] = rows[r]
      BY <1>1 DEF IInv, DBInv, DraftFree
  <1>4. \A v, c : Made(v, c)' \subseteq Made(v, c)
      BY <1>1, <1>2, <1>3 DEF Made
  <1>5. \A v \in Workers : pc'[v] = "put" => pc[v] = "put"
      BY DEF ClaimDownload, ClaimExtract, Claim, Goto, AfterDownload, IInv, TypeOK
  <1> QED
      BY <1>2, <1>4, <1>5, NothingStored DEF Putting

LEMMA UpsertCopies ==
    ASSUME IInv, CopiesInv, NEW w \in Workers, Upsert(w)
    PROVE  CopiesInv'
  <1>1. report[w] \in Reports /\ ~Discovered(rtype[w]).stored
      BY DEF Upsert, InRunOne, IInv, ControlInv, Control, Discovered, Absent
  <1>2. rows' = rows /\ body' = body /\ \A v \in Workers : pc'[v] = "put" => pc[v] = "put"
      BY DEF Upsert, Goto, IInv, TypeOK
  <1>3. \/ draft' = draft /\ owner' = owner
        \/ /\ draft' = [draft EXCEPT ![report[w]] = Discovered(rtype[w])]
           /\ owner' = [owner EXCEPT ![report[w]] = w]
      BY DEF Upsert
  <1>4. \A v, c : Made(v, c)' \subseteq Made(v, c)
      BY <1>1, <1>2, <1>3 DEF Made, IInv, TypeOK
  <1> QED
      BY <1>2, <1>4, NothingStored DEF Putting

\* FetchNew: the worker sees no copy, so there is none that is committed and none that
\* it has made.
LEMMA FetchCopies ==
    ASSUME IInv, CopiesInv, NEW w \in Workers, FetchNew(w)
    PROVE  CopiesInv'
  <1>1. PICK r \in batch[w], d \in Contents :
            /\ SameContent(w, r, d) = {}
            /\ report' = [report EXCEPT ![w] = r]
            /\ body' = [body EXCEPT ![w] = d]
      BY SourceAssumption DEF FetchNew, IInv, TypeOK
  <1>2. /\ rows' = rows /\ draft' = draft /\ owner' = owner
        /\ pc[w] = "fetch" /\ pc' = [pc EXCEPT ![w] = "put"]
      BY DEF FetchNew, Goto, db
  <1>3. \A v, c : Made(v, c)' = Made(v, c) /\ Copies(c)' = Copies(c)
      BY <1>2 DEF Made, Copies
  <1>4. \A v \in Workers : \A c : Putting(v, c)' => Putting(v, c) \/ (v = w /\ c = d)
      BY <1>1, <1>2 DEF Putting, IInv, TypeOK
  <1>5. r \in Reports /\ owner[r] = w /\ draft[r] = rows[r] /\ ~rows[r].stored
      BY <1>2, InBatch DEF Coherent
  <1>6. \A q \in Reports \ {r} : View(w, q).sha # d
      BY <1>1 DEF SameContent
  <1>7. Made(w, d) = {}
      BY <1>5, <1>6 DEF Made, View
  <1>8. Copies(d) = {}
    <2> SUFFICES ASSUME NEW q \in Copies(d) PROVE FALSE
        OBVIOUS
    <2>1. q \in Reports /\ rows[q].stored /\ rows[q].sha = d /\ q # r
        BY <1>5 DEF Copies
    <2>2. draft[q].sha = d
        BY <2>1, DraftKeeps DEF IInv
    <2> QED
        BY <1>6, <2>1, <2>2 DEF View
  <1>9. OneEach'
      BY <1>3, <1>4, <1>7 DEF CopiesInv, OneEach
  <1>10. ASSUME NEW c \in Contents, c # d
         PROVE  Copies(c)' = Copies(c) /\ Pending(c)' \subseteq Pending(c)
      BY <1>3, <1>4, <1>10 DEF Pending
  <1>11. /\ IsFiniteSet(Copies(d))'
         /\ (Cardinality(Copies(d)) + Cardinality(Pending(d)) <= Cardinality(Workers))'
    <2>1. Copies(d)' = {} /\ IsFiniteSet({}) /\ Cardinality({}) = 0
        BY <1>3, <1>8, FS_EmptySet
    <2>2. Pending(d)' \in SUBSET Workers
        BY DEF Pending
    <2>3. IsFiniteSet(Pending(d)') /\ Cardinality(Pending(d)') <= Cardinality(Workers)
        BY <2>2, WorkersAssumption, FS_Subset
    <2>4. Cardinality(Pending(d)') \in Nat
        BY <2>3, FS_CardinalityType
    <2> QED
        BY <2>1, <2>3, <2>4
  <1>12. Room'
      BY <1>10, <1>11, RoomKept DEF Room, CopiesInv
  <1> QED
      BY <1>9, <1>12 DEF CopiesInv

\* PutObject: the worker was about to add the copy that it now has made.
LEMMA PutCopies ==
    ASSUME IInv, CopiesInv, NEW w \in Workers, PutObject(w)
    PROVE  CopiesInv'
  <1>1. PICK r \in Reports, d \in Contents : r = report[w] /\ d = body[w] /\ r \in batch[w]
      BY DEF PutObject, IInv, ControlInv, Control, TypeOK
  <1>2. PICK x \in Row : x = Downloaded(draft[r], d) /\ x.sha = d
    <2>1. draft[r] \in Row
        BY <1>1 DEF IInv, TypeOK
    <2>2. Downloaded(draft[r], d) \in Row /\ Downloaded(draft[r], d).sha = d
        BY <1>1, <2>1, ContentType DEF Downloaded, Row
    <2> QED
        BY <2>2
  <1>3. /\ rows' = rows /\ owner' = owner
        /\ \A q \in Reports : draft'[q] = IF q = r THEN x ELSE draft[q]
      BY <1>1, <1>2 DEF PutObject, Write, IInv, TypeOK
  <1>4. owner[r] = w /\ draft[r] = rows[r] /\ ~rows[r].stored
      BY <1>1, InBatch DEF PutObject, Coherent
  <1>5. Putting(w, d) /\ Made(w, d) = {}
      BY <1>1 DEF PutObject, Putting, CopiesInv, OneEach
  <1>6. Made(w, d)' \subseteq {r}
      BY <1>3, <1>5 DEF Made
  <1>7. \A v \in Workers : \A c \in Contents :
            v # w \/ c # d => Made(v, c)' \subseteq Made(v, c)
      BY <1>2, <1>3, <1>4 DEF Made
  <1>8. \A v \in Workers : \A c : Putting(v, c)' => v # w /\ Putting(v, c)
      BY DEF PutObject, EndPut, Goto, Putting, IInv, TypeOK
  <1>9. OneEach'
    <2>1. \A v \in Workers : \A c \in Contents : v # w \/ c # d =>
              /\ \A p, q \in Made(v, c)' : p = q
              /\ Putting(v, c)' => Made(v, c)' = {}
        BY <1>7, <1>8 DEF CopiesInv, OneEach
    <2> QED
        BY <1>6, <1>8, <2>1 DEF OneEach
  <1>10. ASSUME NEW c \in Contents
         PROVE  Copies(c)' = Copies(c) /\ Pending(c)' \subseteq Pending(c)
    <2>1. \A v \in Workers : v # w \/ c # d => (Made(v, c)' # {} => Made(v, c) # {})
        BY <1>7
    <2>2. \A v \in Workers : v \in Pending(c)' => v \in Pending(c)
        BY <1>5, <1>8, <2>1 DEF Pending
    <2> QED
        BY <1>3, <2>2 DEF Copies, Pending
  <1>11. Room'
      BY <1>10, RoomKept DEF Room, CopiesInv
  <1> QED
      BY <1>9, <1>11 DEF CopiesInv

\* The rows a batch writes otherwise: a duplicate stores nothing, and a failure and an
\* extraction keep what is stored.
LEMMA BatchCopies ==
    ASSUME IInv, CopiesInv, NEW w \in Workers,
           FetchDuplicate(w) \/ FetchFails(w) \/ PutFails(w) \/ Extract(w) \/ ExtractFails(w)
    PROVE  CopiesInv'
  <1>t. TypeOK
      BY DEF IInv
  <1>1. \A r \in batch[w] : /\ r \in Reports /\ draft[r] \in Row
                            /\ pc[w] = "fetch" => ~draft[r].stored
      BY InBatch DEF Coherent
  <1>2. \A v \in Workers : pc'[v] = "put" => pc[v] = "put" /\ body'[v] = body[v]
      BY <1>t DEF TypeOK, FetchDuplicate, FetchFails, PutFails, Extract, ExtractFails, EndPut,
                  Goto, item
  <1>3. ASSUME NEW r \in batch[w], NEW x, Write(r, x),
               x.stored => draft[r].stored /\ x.sha = draft[r].sha
        PROVE  CopiesInv'
      BY <1>t, <1>1, <1>2, <1>3, NoNewPdf
  <1>4. \A r \in batch[w] : /\ Failure(draft[r]).stored = draft[r].stored
                            /\ Failure(draft[r]).sha = draft[r].sha
      BY <1>1 DEF Failure, Row
  <1>5. CASE FetchDuplicate(w)
    <2>1. PICK r \in batch[w], c \in Contents : Write(r, Duplicate(draft[r], c))
        BY <1>1, <1>5, SourceAssumption DEF FetchDuplicate
    <2>2. ~Duplicate(draft[r], c).stored
        BY <1>1, <1>5 DEF FetchDuplicate, Duplicate, Row
    <2> QED
        BY <1>3, <2>1, <2>2
  <1>6. CASE Extract(w)
    <2>1. PICK r \in batch[w], c \in Contents : Write(r, Extracted(draft[r], c))
        BY <1>t, <1>1, <1>6 DEF TypeOK, Extract
    <2>2. /\ Extracted(draft[r], c).stored = draft[r].stored
          /\ Extracted(draft[r], c).sha = draft[r].sha
        BY <1>1 DEF Extracted, Row
    <2> QED
        BY <1>3, <2>1, <2>2
  <1>7. CASE FetchFails(w) \/ PutFails(w) \/ ExtractFails(w)
    <2>1. PICK r \in batch[w] : Write(r, Failure(draft[r]))
        BY <1>7 DEF FetchFails, PutFails, ExtractFails, IInv, ControlInv, Control
    <2> QED
        BY <1>3, <1>4, <2>1
  <1> QED
      BY <1>5, <1>6, <1>7

\* A commit makes what the worker has stored a copy, and leaves it nothing to add.
LEMMA CommitCopies ==
    ASSUME IInv, CopiesInv, NEW w \in Workers, NEW s, Commit(w, s), pc'[w] # "put",
           \A v \in Workers \ {w} : pc'[v] = pc[v] /\ body'[v] = body[v]
    PROVE  CopiesInv'
  <1>1. \A q \in Reports :
            /\ rows'[q] = IF owner[q] = w THEN draft[q] ELSE rows[q]
            /\ owner'[q] = IF owner[q] = w THEN Nil ELSE owner[q]
            /\ draft'[q] = draft[q]
      BY DEF Commit, View, Release
  <1>2. \A c : Made(w, c)' = {}
      BY <1>1, WorkersAssumption DEF Made
  <1>3. \A v \in Workers \ {w} : \A c : Made(v, c)' = Made(v, c)
      BY <1>1, WorkersAssumption DEF Made
  <1>4. \A v \in Workers : \A c : Putting(v, c)' => v # w /\ Putting(v, c)
      BY DEF Putting
  <1>5. OneEach'
    <2>1. \A v \in Workers : \A c : Made(v, c)' \subseteq Made(v, c)
        BY <1>2, <1>3
    <2> QED
        BY <1>4, <2>1 DEF CopiesInv, OneEach
  <1>6. ASSUME NEW c \in Contents
        PROVE  /\ IsFiniteSet(Copies(c))'
               /\ (Cardinality(Copies(c)) + Cardinality(Pending(c)) <= Cardinality(Workers))'
    <2>1. \A q \in Reports : rows[q].stored => draft[q].stored /\ draft[q].sha = rows[q].sha
        BY DraftKeeps DEF IInv
    <2>2. Copies(c)' = Copies(c) \cup Made(w, c)
      <3>1. \A q \in Copies(c)' : q \in Copies(c) \cup Made(w, c)
          BY <1>1, <2>1 DEF Copies, Made
      <3>2. \A q \in Copies(c) \cup Made(w, c) : q \in Copies(c)'
          BY <1>1, <2>1 DEF Copies, Made
      <3> QED
          BY <3>1, <3>2
    <2>3. Pending(c)' \subseteq Pending(c) \ {w}
        BY <1>2, <1>3, <1>4 DEF Pending
    <2>4. CASE Made(w, c) = {}
        BY <2>2, <2>3, <2>4, RoomKept DEF CopiesInv
    <2>5. CASE Made(w, c) # {}
      <3>1. PICK r : Made(w, c) = {r}
          BY <2>5 DEF CopiesInv, OneEach
      <3>2. w \in Pending(c)
          BY <2>5 DEF Pending
      <3>3. IsFiniteSet(Copies(c)) /\ IsFiniteSet(Pending(c))
          BY PendingFinite DEF CopiesInv, Room
      <3>4. /\ IsFiniteSet(Copies(c) \cup {r})
            /\ Cardinality(Copies(c) \cup {r}) \in
                   {Cardinality(Copies(c)), Cardinality(Copies(c)) + 1}
          BY <3>3, FS_AddElement
      <3>5. /\ IsFiniteSet(Pending(c) \ {w})
            /\ Cardinality(Pending(c) \ {w}) = Cardinality(Pending(c)) - 1
          BY <3>2, <3>3, FS_RemoveElement
      <3>6. Pending(c)' \in SUBSET (Pending(c) \ {w})
          BY <2>3
      <3>7. /\ IsFiniteSet(Pending(c)')
            /\ Cardinality(Pending(c)') <= Cardinality(Pending(c)) - 1
          BY <3>5, <3>6, FS_Subset
      <3>8. /\ Cardinality(Copies(c)) \in Nat /\ Cardinality(Pending(c)) \in Nat
            /\ Cardinality(Pending(c)') \in Nat /\ Cardinality(Workers) \in Nat
          BY <3>3, <3>7, PendingFinite, FS_CardinalityType
      <3>9. Copies(c)' = Copies(c) \cup {r}
          BY <2>2, <3>1
      <3>10. Cardinality(Copies(c)) + Cardinality(Pending(c)) <= Cardinality(Workers)
          BY DEF CopiesInv, Room
      <3> QED
          BY <3>4, <3>7, <3>8, <3>9, <3>10
    <2> QED
        BY <2>4, <2>5
  <1>7. Room'
      BY <1>6 DEF Room
  <1> QED
      BY <1>5, <1>7 DEF CopiesInv

LEMMA CopiesStep == IInv /\ CopiesInv /\ [Next]_vars => CopiesInv'
  <1> SUFFICES ASSUME IInv, CopiesInv, [Next]_vars PROVE CopiesInv'
      OBVIOUS
  <1>t. TypeOK
      BY DEF IInv
  <1>1. ASSUME UNCHANGED db, \A v \in Workers : pc'[v] = "put" => pc[v] = "put" /\ body'[v] = body[v]
        PROVE  CopiesInv'
    <2>1. rows' = rows /\ \A v, c : Made(v, c)' \subseteq Made(v, c)
        BY <1>1 DEF db, Made
    <2>2. \A v \in Workers : \A c : Putting(v, c)' => Putting(v, c)
        BY <1>1 DEF Putting
    <2> QED
        BY <2>1, <2>2, NothingStored
  <1>2. CASE UNCHANGED vars \/ LandLate
      BY <1>1, <1>2 DEF vars, LandLate, db, item
  <1>3. ASSUME NEW w \in Workers, UNCHANGED db,
               StartPipeline(w) \/ RunOne(w) \/ EndPipeline(w) \/ Propagate(w) \/ DiscoverYield(w)
        PROVE  CopiesInv'
    <2>1. \A v \in Workers : pc'[v] = "put" => pc[v] = "put" /\ body'[v] = body[v]
        BY <1>t, <1>3 DEF TypeOK, StartPipeline, RunOne, FirstOf, EndPipeline, Propagate,
                          DiscoverYield, Leave, Goto, item
    <2> QED
        BY <1>1, <1>3, <2>1
  <1>4. ASSUME NEW w \in Workers,
               FinishRun(w) \/ DiscoverDone(w) \/ DownloadDone(w) \/ ExtractDone(w)
               \/ BreakDeadlock(w) \/ FetchAmbiguous(w) \/ Raise(w) \/ Cancel(w)
        PROVE  /\ pc'[w] # "put"
               /\ \A v \in Workers \ {w} : pc'[v] = pc[v] /\ body'[v] = body[v]
      BY <1>t, <1>4 DEF TypeOK, FinishRun, DiscoverDone, AfterDiscover, DownloadDone,
                        AfterDownload, ExtractDone, BreakDeadlock, FetchAmbiguous, Raise, Cancel,
                        HandleException, Leave, Goto, item
  <1> QED
      BY <1>t, <1>2, <1>3, <1>4, Shapes, ClaimCopies, UpsertCopies, FetchCopies, PutCopies,
         BatchCopies, CommitCopies, RollbackCopies
      DEF Next

\* A copy is stored by a worker that has seen none: the count of those that may still
\* add one makes the bound inductive.
THEOREM CopiesInvariance == Spec => []CopiesInv
  <1>1. Init => CopiesInv
    <2> SUFFICES ASSUME Init PROVE CopiesInv
        OBVIOUS
    <2>1. \A w \in Workers : \A c \in Contents : Made(w, c) = {} /\ ~Putting(w, c)
        BY DEF Init, Absent, Made, Putting
    <2>2. \A c \in Contents : Copies(c) = {}
        BY DEF Init, Absent, Copies
    <2>3. IsFiniteSet({}) /\ Cardinality({}) = 0
        BY FS_EmptySet
    <2>4. \A c \in Contents : Cardinality({}) + Cardinality(Pending(c)) <= Cardinality(Workers)
        BY <2>3, PendingFinite
    <2> QED
        BY <2>1, <2>2, <2>3, <2>4 DEF CopiesInv, OneEach, Room
  <1> QED
      BY <1>1, CopiesStep, Invariance, PTL DEF Spec

\* No more copies of a PDF than invocations that overlap, however often they run, fail
\* and are cancelled.
THEOREM CopyBound == Spec => []CopiesBounded
  <1>1. CopiesInv => CopiesBounded
    <2> SUFFICES ASSUME CopiesInv, NEW c \in Contents
                 PROVE  Cardinality(Copies(c)) <= Cardinality(Workers)
        BY DEF CopiesBounded
    <2>1. /\ IsFiniteSet(Copies(c))
          /\ Cardinality(Copies(c)) + Cardinality(Pending(c)) <= Cardinality(Workers)
        BY DEF CopiesInv, Room
    <2> QED
        BY <2>1, PendingFinite, FS_CardinalityType
  <1> QED
      BY <1>1, CopiesInvariance, PTL

Alone == Workers = {Scheduler}

\* A worker that is alone stores each PDF once: no invocation overlaps another.
THEOREM SoleWorker == Spec => [](Alone => UniqueContent)
  <1>1. IInv /\ CopiesInv => (Alone => UniqueContent)
    <2> SUFFICES ASSUME IInv, CopiesInv, Alone, NEW p \in Reports, NEW q \in Reports,
                        rows[p].stored, rows[q].stored, rows[p].sha = rows[q].sha
                 PROVE  p = q
        BY DEF UniqueContent
    <2>1. PICK c \in Contents : c = rows[p].sha
        BY DEF IInv, TypeOK, Row, DBInv, Coherence, Coherent
    <2>2. {p, q} \in SUBSET Copies(c)
        BY <2>1 DEF Copies
    <2>3. IsFiniteSet(Copies(c)) /\ Cardinality(Copies(c)) <= Cardinality(Workers)
      <3>1. /\ IsFiniteSet(Copies(c))
            /\ Cardinality(Copies(c)) + Cardinality(Pending(c)) <= Cardinality(Workers)
          BY DEF CopiesInv, Room
      <3> QED
          BY <3>1, PendingFinite, FS_CardinalityType
    <2>4. Cardinality(Workers) = 1
        BY FS_Singleton DEF Alone
    <2>5. IsFiniteSet({p, q}) /\ Cardinality({p, q}) <= 1
      <3>1. IsFiniteSet({p, q}) /\ Cardinality({p, q}) <= Cardinality(Copies(c))
          BY <2>2, <2>3, FS_Subset
      <3> QED
          BY <2>3, <2>4, <3>1, FS_CardinalityType
    <2>6. Cardinality({p, q}) = IF q \in {p} THEN 1 ELSE 2
      <3>1. IsFiniteSet({p}) /\ Cardinality({p}) = 1
          BY FS_Singleton
      <3>2. Cardinality({p} \cup {q}) = IF q \in {p} THEN 1 ELSE 1 + 1
          BY <3>1, FS_AddElement
      <3>3. {p} \cup {q} = {p, q}
          OBVIOUS
      <3> QED
          BY <3>2, <3>3
    <2> QED
        BY <2>5, <2>6
  <1> QED
      BY <1>1, CopiesInvariance, Invariance, PTL
=============================================================================
