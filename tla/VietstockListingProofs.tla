----------------------- MODULE VietstockListingProofs -----------------------
(***************************************************************************)
(* Theorems about VietstockListing, for every page size, page limit and    *)
(* length of the listing.                                                  *)
(***************************************************************************)
EXTENDS VietstockListing, SequenceLemmas, FiniteSetTheorems, TLAPS

\* Where the pages read so far end.
Read == page * PageSize

\* While nothing is taken down the listing is what has been published.
StillInv ==
    withdrawn = {} =>
        /\ Len(listing) = newest
        /\ \A i \in 1..newest : listing[i] = newest + 1 - i

\* What has moved off the pages read is still ahead and has not been seen; all
\* that stands on them and was there at the beginning has.
PagesInv ==
    withdrawn = {} =>
        /\ \A r \in 1..start : r + Read > newest => r \in seen \cup Malformed
        /\ \A r \in seen : r <= newest /\ r + Read > start

OnceInv == \A r \in Reports : yields[r] = IF r \in seen THEN 1 ELSE 0

ControlInv == pc \in {"token", "request"} => page < MaxPages

IInv == TypeOK /\ StillInv /\ PagesInv /\ OnceInv /\ ControlInv /\ Complete

-----------------------------------------------------------------------------
(* What a page shows *)

LEMMA PageBounds ==
    ASSUME NEW p \in Nat
    PROVE  /\ p * PageSize \in Nat
           /\ (p + 1) * PageSize = p * PageSize + PageSize
BY SizesAssumption, SMT

LEMMA MalformedFinite == IsFiniteSet(Malformed) /\ Cardinality(Malformed) \in Nat
<1>1. IsFiniteSet(Reports)
  BY FS_Interval, SizesAssumption DEF Reports
<1> QED BY <1>1, MalformedAssumption, FS_Subset, FS_CardinalityType

LEMMA CardsAreReports ==
    ASSUME TypeOK, NEW p \in Nat
    PROVE  Cards(p) \subseteq Reports \ Malformed
BY DEF TypeOK, Cards

\* The next page of a listing from which nothing was taken down.
LEMMA CardsOfStill ==
    ASSUME TypeOK, StillInv, withdrawn = {}
    PROVE  Cards(page + 1) =
            {r \in 1..newest : r + Read <= newest /\ newest < r + Read + PageSize} \ Malformed
<1> DEFINE b == page * PageSize
           Positions == {j \in 1..Len(listing) : b < j /\ j <= b + PageSize}
<1>1. b \in Nat /\ (page + 1) * PageSize = b + PageSize /\ page + 1 - 1 = page
  BY PageBounds DEF TypeOK
<1>2. Cards(page + 1) = {listing[i] : i \in Positions} \ Malformed
  BY <1>1 DEF Cards, TypeOK
<1> HIDE DEF b
<1>3. newest \in Nat /\ PageSize \in Nat /\ Len(listing) = newest
  BY SizesAssumption DEF TypeOK, StillInv
<1>4. ASSUME NEW i \in Positions
      PROVE  /\ listing[i] \in 1..newest
             /\ listing[i] + b <= newest
             /\ newest < listing[i] + b + PageSize
  BY <1>1, <1>3 DEF StillInv
<1>5. ASSUME NEW r \in 1..newest, r + b <= newest, newest < r + b + PageSize
      PROVE  \E i \in Positions : listing[i] = r
  <2>1. newest + 1 - r \in Positions /\ listing[newest + 1 - r] = newest + 1 - (newest + 1 - r)
    BY <1>1, <1>3, <1>5 DEF StillInv
  <2> QED BY <2>1, <1>3
<1>6. b = Read
  BY DEF b, Read
<1> QED BY <1>2, <1>4, <1>5, <1>6

\* A page can show nothing new only when nothing is left: what moved onto it,
\* and the cards that cannot be read, do not fill it.
LEMMA NothingLeft ==
    ASSUME TypeOK, StillInv, PagesInv, withdrawn = {}, NothingNew(page + 1),
           newest - start + Cardinality(Malformed) < PageSize,
           NEW r \in 1..start
    PROVE  r \in seen \cup Malformed
<1>1. /\ Read \in Nat /\ newest \in Nat /\ start \in Nat /\ start <= newest
      /\ PageSize \in Nat /\ newest <= MaxReports /\ MaxReports \in Nat
  BY PageBounds, SizesAssumption DEF TypeOK, Read
<1>2. \A q \in 1..newest : q + Read <= newest /\ newest < q + Read + PageSize
                           => q \in seen \cup Malformed
  BY CardsOfStill DEF NothingNew, New
<1>3. CASE newest < Read + PageSize
  BY <1>1, <1>2, <1>3 DEF PagesInv
<1>4. CASE newest >= Read + PageSize
  <2> DEFINE Ahead == (newest - Read - PageSize + 1)..(start - Read)
  <2>1. ASSUME NEW q \in Ahead PROVE q \in Malformed
    <3>1. q \in 1..newest /\ q + Read <= newest /\ newest < q + Read + PageSize
      BY <1>1, <1>4
    <3>2. q \notin seen
      BY <1>1 DEF PagesInv
    <3> QED BY <1>2, <3>1, <3>2
  <2>2. Ahead \in SUBSET Malformed
    BY <2>1
  <2>3. Cardinality(Ahead) <= Cardinality(Malformed)
    BY <2>2, MalformedFinite, FS_Subset
  <2>4. newest - Read - PageSize + 1 \in Int /\ start - Read \in Int
    BY <1>1
  <2>5. Cardinality(Ahead) = IF newest - Read - PageSize + 1 > start - Read THEN 0
                             ELSE (start - Read) - (newest - Read - PageSize + 1) + 1
    BY <2>4, FS_Interval
  <2> HIDE DEF Ahead
  <2> QED BY <1>1, <2>3, <2>5, MalformedFinite
<1> QED BY <1>1, <1>3, <1>4

-----------------------------------------------------------------------------
(* The invariant *)

LEMMA Initially == Init => IInv
<1> SUFFICES ASSUME Init PROVE IInv
  OBVIOUS
<1>1. newest \in Nat /\ newest <= MaxReports /\ MaxReports \in Nat /\ start = newest
  BY SizesAssumption DEF Init
<1>2. listing \in Seq(Reports) /\ Len(listing) = newest
  <2>1. \A i \in 1..newest : newest + 1 - i \in Reports
    BY <1>1 DEF Reports
  <2> QED BY <1>1, <2>1 DEF Init
<1>3. TypeOK
  BY <1>1, <1>2, SizesAssumption DEF Init, TypeOK
<1>4. StillInv /\ OnceInv /\ Complete
  BY <1>2 DEF Init, StillInv, OnceInv, Complete
<1>5. PagesInv
  BY <1>1, SizesAssumption DEF Init, PagesInv, Read
<1>6. ControlInv
  BY SizesAssumption DEF Init, ControlInv
<1> QED BY <1>3, <1>4, <1>5, <1>6 DEF IInv

LEMMA PublishStep == IInv /\ Publish => IInv'
<1> SUFFICES ASSUME IInv, Publish PROVE IInv'
  OBVIOUS
<1> DEFINE one == <<newest + 1>>
<1>1. /\ newest \in Nat /\ start \in Nat /\ newest' = newest + 1 /\ newest' <= MaxReports
      /\ MaxReports \in Nat
  BY SizesAssumption DEF IInv, TypeOK, Publish
<1>2. one \in Seq(Reports) /\ Len(one) = 1 /\ one[1] = newest + 1
  BY <1>1 DEF Reports
<1>3. listing' = one \o listing /\ listing \in Seq(Reports)
  BY DEF IInv, TypeOK, Publish
<1> HIDE DEF one
<1>4. /\ listing' \in Seq(Reports)
      /\ Len(listing') = Len(listing) + 1
      /\ \A i \in 1..Len(listing) + 1 :
            listing'[i] = IF i <= 1 THEN newest + 1 ELSE listing[i - 1]
  <2>1. /\ one \o listing \in Seq(Reports)
        /\ Len(one \o listing) = Len(one) + Len(listing)
        /\ \A i \in 1..Len(one) + Len(listing) : (one \o listing)[i] =
              IF i <= Len(one) THEN one[i] ELSE listing[i - Len(one)]
    BY <1>2, <1>3, ConcatProperties
  <2>2. Len(listing) \in Nat
    BY <1>3
  <2>3. ASSUME NEW i \in 1..Len(listing) + 1
        PROVE  listing'[i] = IF i <= 1 THEN newest + 1 ELSE listing[i - 1]
    <3>1. CASE i <= 1
      BY <1>2, <1>3, <2>1, <2>2, <3>1
    <3>2. CASE ~(i <= 1)
      BY <1>2, <1>3, <2>1, <2>2, <3>2
    <3> QED BY <3>1, <3>2
  <2> QED BY <1>2, <1>3, <2>1, <2>2, <2>3
<1>5. TypeOK'
  BY <1>1, <1>4 DEF IInv, TypeOK, Publish
<1>6. StillInv'
  <2> SUFFICES ASSUME withdrawn = {}, NEW i \in 1..newest + 1
               PROVE  Len(listing') = newest + 1 /\ listing'[i] = newest + 2 - i
    BY <1>1 DEF StillInv, Publish
  <2>1. Len(listing) = newest /\ \A j \in 1..newest : listing[j] = newest + 1 - j
    BY DEF IInv, StillInv
  <2>2. CASE i = 1
    BY <1>1, <1>4, <2>1, <2>2
  <2>3. CASE i # 1
    <3>1. i - 1 \in 1..newest /\ newest + 1 - (i - 1) = newest + 2 - i /\ ~(i <= 1)
      BY <1>1, <2>3
    <3> QED BY <1>1, <1>4, <2>1, <3>1
  <2> QED BY <2>2, <2>3
<1>7. Read \in Nat /\ Read' = Read
  BY PageBounds DEF IInv, TypeOK, Publish, Read
<1>8. PagesInv'
  BY <1>1, <1>7 DEF IInv, TypeOK, Reports, PagesInv, Publish
<1>9. OnceInv' /\ ControlInv'
  BY DEF IInv, OnceInv, ControlInv, Publish
<1>10. Complete'
  <2>1. MaxPages * PageSize \in Nat /\ PageSize \in Nat
    BY PageBounds, SizesAssumption
  <2> QED BY <1>1, <2>1, MalformedFinite DEF IInv, Complete, Publish
<1> QED BY <1>5, <1>6, <1>8, <1>9, <1>10 DEF IInv

LEMMA WithdrawStep == IInv /\ Withdraw => IInv'
<1> SUFFICES ASSUME IInv, Withdraw PROVE IInv'
  OBVIOUS
<1>1. PICK i \in 1..Len(listing) :
        withdrawn' = withdrawn \cup {listing[i]} /\ listing' = RemoveAt(listing, i)
  BY DEF Withdraw
<1>2. withdrawn' # {} /\ listing' \in Seq(Reports) /\ listing[i] \in Reports
  <2>1. listing \in Seq(Reports)
    BY DEF IInv, TypeOK
  <2>2. RemoveAt(listing, i) \in Seq(Reports)
    BY <2>1, RemoveAtProperties
  <2> QED BY <1>1, <2>1, <2>2
<1>3. TypeOK'
  BY <1>1, <1>2 DEF IInv, TypeOK, Withdraw
<1>4. StillInv' /\ PagesInv' /\ Complete'
  BY <1>2 DEF StillInv, PagesInv, Complete
<1>5. OnceInv' /\ ControlInv'
  BY DEF IInv, OnceInv, ControlInv, Withdraw
<1> QED BY <1>3, <1>4, <1>5 DEF IInv

LEMMA YieldStep == IInv /\ YieldPage => IInv'
<1> SUFFICES ASSUME IInv, YieldPage PROVE IInv'
  OBVIOUS
<1>1. /\ page \in Nat /\ page < MaxPages /\ newest \in Nat /\ start \in Nat
      /\ MaxPages \in Nat /\ PageSize \in Nat /\ page' = page + 1
  BY SizesAssumption DEF IInv, TypeOK, ControlInv, YieldPage
<1>2. Read \in Nat /\ Read' = Read + PageSize
  BY <1>1, PageBounds DEF Read
<1>3. New(page + 1) \subseteq Reports \ (Malformed \cup seen)
  BY <1>1, CardsAreReports DEF IInv, New
<1>4. TypeOK'
  <2>1. seen' \subseteq Reports \ Malformed /\ yields' \in [Reports -> Nat]
    BY <1>3 DEF IInv, TypeOK, YieldPage
  <2>2. Yielded' \subseteq seen'
    BY <1>3 DEF IInv, TypeOK, OnceInv, Yielded, YieldPage
  <2>3. known' \subseteq Reports \ Malformed
    BY <2>1, <2>2 DEF IInv, TypeOK, YieldPage
  <2> QED BY <1>1, <2>1, <2>3 DEF IInv, TypeOK, YieldPage
<1>5. StillInv'
  BY DEF IInv, StillInv, YieldPage
<1>6. PagesInv'
  <2> SUFFICES ASSUME withdrawn = {} PROVE PagesInv'
    BY DEF PagesInv, YieldPage
  <2>1. seen' = seen \cup Cards(page + 1)
    BY DEF New, YieldPage
  <2>2. Cards(page + 1) =
          {r \in 1..newest : r + Read <= newest /\ newest < r + Read + PageSize} \ Malformed
    BY CardsOfStill DEF IInv
  <2>3. ASSUME NEW r \in 1..start, r + Read + PageSize > newest
        PROVE  r \in seen' \cup Malformed
    <3>1. r \in 1..newest
      BY <1>1 DEF IInv, TypeOK
    <3> QED BY <1>1, <1>2, <2>1, <2>2, <2>3, <3>1 DEF IInv, PagesInv
  <2>4. ASSUME NEW r \in seen' PROVE r <= newest /\ r + Read + PageSize > start
    <3>1. r \in Nat /\ start <= newest
      BY <1>1, <1>4 DEF IInv, TypeOK, Reports
    <3>2. CASE r \in seen
      BY <1>1, <1>2, <3>1, <3>2 DEF IInv, PagesInv
    <3>3. CASE r \in Cards(page + 1)
      BY <1>1, <1>2, <2>2, <3>1, <3>3
    <3> QED BY <2>1, <3>2, <3>3
  <2>5. newest' = newest /\ start' = start
    BY DEF YieldPage
  <2>6. Read' = Read + PageSize
    BY <1>2
  <2>7. \A r \in 1..start : r + (Read + PageSize) > newest => r \in seen' \cup Malformed
    BY <1>1, <1>2, <2>3
  <2>8. \A r \in seen' : r <= newest /\ r + (Read + PageSize) > start
    <3> TAKE r \in seen'
    <3>1. r \in Nat
      BY <1>4 DEF TypeOK, Reports
    <3> QED BY <1>1, <1>2, <2>4, <3>1
  <2> QED BY <2>5, <2>6, <2>7, <2>8 DEF PagesInv
<1>7. OnceInv'
  BY <1>3 DEF IInv, TypeOK, OnceInv, YieldPage
<1>8. ControlInv'
  BY <1>1 DEF ControlInv, YieldPage
<1>9. Complete'
  <2> SUFFICES ASSUME pc' = "done", withdrawn' = {},
                      NEW r \in 1..start, r + MaxPages * PageSize > newest
               PROVE  r \in known' \cup Malformed
    BY DEF Complete, YieldPage
  <2>1. page' = MaxPages
    BY <1>1 DEF YieldPage
  <2>2. Read' = MaxPages * PageSize
    BY <2>1 DEF Read
  <2>3. r \in seen' \cup Malformed
    BY <1>6, <2>2 DEF PagesInv, YieldPage
  <2>4. seen' \subseteq Yielded' /\ Yielded' \subseteq known'
    BY <1>1, <1>4, <1>7, <2>1 DEF OnceInv, TypeOK, Yielded, YieldPage
  <2> QED BY <2>3, <2>4
<1> QED BY <1>4, <1>5, <1>6, <1>7, <1>8, <1>9 DEF IInv

LEMMA EndStep == IInv /\ EndOfListing => IInv'
<1> SUFFICES ASSUME IInv, EndOfListing PROVE IInv'
  OBVIOUS
<1>1. TypeOK' /\ StillInv' /\ OnceInv' /\ ControlInv'
  <2>1. Yielded \subseteq seen
    BY DEF IInv, OnceInv, Yielded
  <2> QED BY <2>1 DEF IInv, TypeOK, StillInv, OnceInv, ControlInv, EndOfListing
<1>2. PagesInv'
  BY DEF IInv, PagesInv, Read, EndOfListing
<1>3. Complete'
  <2>1. seen \subseteq Yielded /\ Yielded \subseteq known'
    BY DEF IInv, TypeOK, OnceInv, Yielded, EndOfListing
  <2> QED BY <2>1, NothingLeft DEF IInv, Complete, EndOfListing
<1> QED BY <1>1, <1>2, <1>3 DEF IInv

\* A new call has read nothing and seen nothing.
LEMMA AgainStep == IInv /\ Again => IInv'
<1> SUFFICES ASSUME IInv, Again PROVE IInv'
  OBVIOUS
<1>1. newest \in Nat /\ newest' = newest /\ start' = newest /\ MaxPages \in Nat \ {0}
  BY SizesAssumption DEF IInv, TypeOK, Again
<1>2. TypeOK' /\ StillInv' /\ OnceInv' /\ ControlInv' /\ Complete'
  BY <1>1 DEF IInv, TypeOK, StillInv, OnceInv, ControlInv, Complete, Again
<1>3. Read' = 0
  BY SizesAssumption DEF Read, Again
<1>4. PagesInv'
  BY <1>1, <1>3 DEF PagesInv, Again
<1> QED BY <1>2, <1>4 DEF IInv

LEMMA Inductive == IInv /\ [Next]_vars => IInv'
<1> SUFFICES ASSUME IInv, [Next]_vars PROVE IInv'
  OBVIOUS
<1>1. ASSUME FetchToken \/ RequestFails PROVE IInv'
  <2>1. pc' # "done" /\ UNCHANGED <<listing, newest, start, withdrawn, page, seen, yields, known>>
    BY <1>1 DEF FetchToken, RequestFails
  <2>2. TypeOK' /\ StillInv' /\ OnceInv' /\ Complete'
    BY <1>1, <2>1 DEF IInv, TypeOK, StillInv, OnceInv, Complete, FetchToken, RequestFails
  <2>3. PagesInv'
    BY <2>1 DEF IInv, PagesInv, Read
  <2>4. ControlInv'
    BY <1>1 DEF IInv, ControlInv, FetchToken, RequestFails
  <2> QED BY <2>2, <2>3, <2>4 DEF IInv
<1>2. CASE UNCHANGED vars
  BY <1>2 DEF IInv, TypeOK, StillInv, PagesInv, Read, OnceInv, ControlInv, Complete, vars
<1> QED
  BY <1>1, <1>2, PublishStep, WithdrawStep, YieldStep, EndStep, AgainStep DEF Next

LEMMA Invariance == Spec => []IInv
BY Initially, Inductive, PTL DEF Spec

-----------------------------------------------------------------------------
(* Theorems *)

\* Every state is of the declared type; no card that could not be read is ever
\* among the ids of a call.
THEOREM TypeCorrectness == Spec => []TypeOK
BY Invariance, PTL DEF IInv

\* However the listing moves under the pages, a report is yielded at most once.
THEOREM YieldsOnce == Spec => []YieldedOnce
<1>1. IInv => YieldedOnce
  BY DEF IInv, OnceInv, YieldedOnce
<1> QED BY <1>1, Invariance, PTL

\* A listing that grows by less than a page while it is read is stored whole,
\* as far as max_pages reach.
THEOREM Completeness == Spec => []Complete
BY Invariance, PTL DEF IInv
=============================================================================
