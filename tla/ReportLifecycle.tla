-------------------------- MODULE ReportLifecycle --------------------------
(***************************************************************************)
(* What the pipeline promises about each report, whatever the number of    *)
(* workers and whatever fails: a committed transaction moves a report by   *)
(* at most one edge of its life cycle, along these edges only, and nothing *)
(* happens to a report after duplicate, extracted or failed.               *)
(***************************************************************************)
EXTENDS Naturals

CONSTANTS Reports, Types, Contents, MaxRetries, Nil

VARIABLE life   \* life[r]: the committed state of report r

Unknown == [status |-> "absent", type |-> Nil, retry |-> 0,
            stored |-> FALSE, sha |-> Nil, digest |-> Nil]

Open == {"discovered", "downloaded"}

Settled == {"duplicate", "extracted", "failed"}

Appears(x, y) ==
    x = Unknown /\ \E t \in Types : y = [Unknown EXCEPT !.status = "discovered", !.type = t]

Retried(x, y) ==
    /\ x.status \in Open
    /\ x.retry + 1 < MaxRetries
    /\ y = [x EXCEPT !.retry = x.retry + 1]

GivenUp(x, y) ==
    /\ x.status \in Open
    /\ x.retry + 1 = MaxRetries
    /\ y = [x EXCEPT !.retry = MaxRetries, !.status = "failed"]

Stored(x, y) ==
    /\ x.status = "discovered"
    /\ \E c \in Contents : y = [x EXCEPT !.status = "downloaded", !.stored = TRUE, !.sha = c]

Deduplicated(x, y) ==
    /\ x.status = "discovered"
    /\ \E c \in Contents : y = [x EXCEPT !.status = "duplicate", !.sha = c]

Digested(x, y) ==
    /\ x.status = "downloaded"
    /\ x.stored
    /\ \E c \in Contents : y = [x EXCEPT !.status = "extracted", !.digest = c]

Edge(x, y) ==
    \/ Appears(x, y) \/ Retried(x, y) \/ GivenUp(x, y)
    \/ Stored(x, y) \/ Deduplicated(x, y) \/ Digested(x, y)

Init == life = [r \in Reports |-> Unknown]

Next ==
    /\ DOMAIN life' = Reports
    /\ \A r \in Reports : life'[r] = life[r] \/ Edge(life[r], life'[r])

Spec == Init /\ [][Next]_life
=============================================================================
