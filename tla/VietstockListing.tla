-------------------------- MODULE VietstockListing --------------------------
(***************************************************************************)
(* VietstockSource.discover: a listing of reports, newest first, is read   *)
(* page by page.  The server keeps no cursor: a page is whatever stands at *)
(* its positions when it is asked for, and the listing may change between  *)
(* two requests.  The next tick of the scheduler calls discover again.     *)
(***************************************************************************)
EXTENDS Naturals, FiniteSets, SequencesExt

CONSTANTS
    MaxReports,   \* bound: external ids are 1..MaxReports, in order of publication
    PageSize,     \* PAGE_SIZE, as the server caps it
    MaxPages,     \* max_pages
    Malformed,    \* reports whose card has no title link or no id in it
    MaxWithdrawn  \* bound: reports the site takes down while it is read

Reports == 1..MaxReports

ASSUME SizesAssumption ==
    /\ PageSize \in Nat \ {0}
    /\ MaxPages \in Nat \ {0}
    /\ MaxReports \in Nat
    /\ MaxWithdrawn \in Nat
ASSUME MalformedAssumption == Malformed \subseteq Reports

VARIABLES
    listing,    \* what the site lists for the type, the window and the ticker
    newest,     \* the last id given out by the site
    start,      \* the last id given out when discover was called
    withdrawn,  \* reports taken down since
    pc,         \* token, request, done or raised
    page,       \* pages yielded
    seen,       \* the ids of this call
    yields,     \* how often each report has been yielded by this call
    known       \* reports with a committed row

vars == <<listing, newest, start, withdrawn, pc, page, seen, yields, known>>

Init ==
    /\ newest \in 0..MaxReports
    /\ start = newest
    /\ listing = [i \in 1..newest |-> newest + 1 - i]
    /\ withdrawn = {}
    /\ pc = "token"
    /\ page = 0
    /\ seen = {}
    /\ yields = [r \in Reports |-> 0]
    /\ known = {}

-----------------------------------------------------------------------------
(* The site *)

\* A report is published: all others move towards the later pages.
Publish ==
    /\ newest < MaxReports
    /\ newest' = newest + 1
    /\ listing' = <<newest + 1>> \o listing
    /\ UNCHANGED <<start, withdrawn, pc, page, seen, yields, known>>

\* A report is taken down: what follows moves towards the pages already read.
Withdraw ==
    /\ Cardinality(withdrawn) < MaxWithdrawn
    /\ \E i \in 1..Len(listing) :
        /\ withdrawn' = withdrawn \cup {listing[i]}
        /\ listing' = RemoveAt(listing, i)
    /\ UNCHANGED <<newest, start, pc, page, seen, yields, known>>

-----------------------------------------------------------------------------
(* The crawler *)

\* The token is in a hidden input of the listing page, or left by an earlier call.
FetchToken ==
    /\ pc = "token"
    /\ pc' = "request"
    /\ UNCHANGED <<listing, newest, start, withdrawn, page, seen, yields, known>>

\* Faulty: a card without an id is kept.
CardsUnchecked(p) ==
    {listing[i] : i \in {j \in 1..Len(listing) : (p - 1) * PageSize < j /\ j <= p * PageSize}}

\* _parse_cards: what stands on page p, without the cards it cannot read.
Cards(p) ==
    {listing[i] : i \in {j \in 1..Len(listing) : (p - 1) * PageSize < j /\ j <= p * PageSize}}
        \ Malformed

\* Faulty: what an earlier page has shown is yielded again.
NewRepeated(p) == Cards(p)

\* The cards of a page not shown on an earlier one.  An id is taken to stand once on a
\* page: the code does not compare the cards of one page with each other.
New(p) == Cards(p) \ seen

\* Faulty: the first known report is taken for the end of what is new.
NothingNewAfter(p) == Cards(p) = {} \/ Cards(p) \cap seen # {}

Yielded == {r \in Reports : yields[r] > 0}

\* A page without cards, or without new ones, is the end of the listing.  The
\* discover stage commits what it has inserted when there is no more.
NothingNew(p) == New(p) = {}

EndOfListing ==
    /\ pc = "request"
    /\ NothingNew(page + 1)
    /\ pc' = "done"
    /\ known' = known \cup Yielded
    /\ UNCHANGED <<listing, newest, start, withdrawn, page, seen, yields>>

YieldPage ==
    /\ pc = "request"
    /\ ~NothingNew(page + 1)
    /\ seen' = seen \cup New(page + 1)
    /\ yields' = [r \in Reports |-> IF r \in New(page + 1) THEN yields[r] + 1 ELSE yields[r]]
    /\ page' = page + 1
    /\ pc' = IF page' < MaxPages THEN "request" ELSE "done"
    /\ known' = IF page' < MaxPages THEN known ELSE known \cup Yielded'
    /\ UNCHANGED <<listing, newest, start, withdrawn>>

\* Any HTTP error, of the token or of a page, is a CrawlerError at once: the rows
\* of the pages before it are rolled back.
RequestFails ==
    /\ pc \in {"token", "request"}
    /\ pc' = "raised"
    /\ UNCHANGED <<listing, newest, start, withdrawn, page, seen, yields, known>>

\* Faulty: the ids of the call before are still in the set.
AgainSeen ==
    /\ pc \in {"done", "raised"}
    /\ pc' = "token"
    /\ page' = 0
    /\ start' = newest
    /\ yields' = [r \in Reports |-> 0]
    /\ UNCHANGED <<listing, newest, withdrawn, seen, known>>

\* The next run builds a new source, which has no token, and starts at page one.
Again ==
    /\ pc \in {"done", "raised"}
    /\ pc' = "token"
    /\ page' = 0
    /\ seen' = {}
    /\ start' = newest
    /\ yields' = [r \in Reports |-> 0]
    /\ UNCHANGED <<listing, newest, withdrawn, known>>

Next ==
    \/ Publish \/ Withdraw
    \/ FetchToken \/ YieldPage \/ EndOfListing \/ RequestFails
    \/ Again

Spec == Init /\ [][Next]_vars

\* A request is answered or fails, and there is always a next tick.  Whether a
\* request succeeds, and what the site lists, is up to the site.
Fairness ==
    /\ WF_vars(FetchToken \/ YieldPage \/ EndOfListing \/ RequestFails)
    /\ WF_vars(Again)

FairSpec == Spec /\ Fairness

-----------------------------------------------------------------------------
(* Properties *)

TypeOK ==
    /\ listing \in Seq(Reports)
    /\ newest \in 0..MaxReports
    /\ start \in 0..newest
    /\ withdrawn \subseteq Reports
    /\ pc \in {"token", "request", "done", "raised"}
    /\ page \in 0..MaxPages
    /\ seen \subseteq Reports \ Malformed
    /\ yields \in [Reports -> Nat]
    /\ known \subseteq Reports \ Malformed

\* A report that moves from page to page while they are read is yielded once.
YieldedOnce == \A r \in Reports : yields[r] <= 1

\* Whatever is published meanwhile, if less than a page of it (with the cards
\* that cannot be read), all that was listed at the beginning has its row when the
\* listing is over, as far as max_pages reach: no page without new cards comes too
\* early, no report falls between two pages, and what was yielded is committed.
Complete ==
    /\ pc = "done"
    /\ withdrawn = {}
    /\ newest - start + Cardinality(Malformed) < PageSize
    => \A r \in 1..start : r + MaxPages * PageSize > newest => r \in known \cup Malformed

\* A readable report in reach of max_pages.
InReach(r) ==
    /\ r \notin Malformed
    /\ \E i \in 1..Len(listing) : i <= MaxPages * PageSize /\ listing[i] = r

\* What one call misses, because the listing moved under its pages or a request
\* failed, a later one finds: if from some time on requests succeed, a report that
\* stays listed gets its row.  A page can then not consist of unreadable cards
\* only, which would end every call at the same place.
EventuallyKnown ==
    Cardinality(Malformed) < PageSize /\ <>[](pc # "raised")
    => \A r \in Reports : <>[]InReach(r) => <>(r \in known)
=============================================================================
