----------------------------- MODULE MCPipeline -----------------------------
(* Small instances of Pipeline for TLC. *)
EXTENDS Pipeline, TLC

CONSTANTS w1, w2, r1, r2, r3, t1, t2, c1, c2

MCFull == {FullInvocation}

\* The command lines, over all types: a backfill of extractions beside the full run,
\* and the other ones.
MCBackfill == {FullInvocation, [stages |-> {"extract"}, types |-> Types]}
MCCommands == [stages : StageSets \ {{"extract"}}, types : {Types}]

\* A report may be listed under two types; the first insert decides its type.
MCListed == t1 :> {r1, r2} @@ t2 :> {r2, r3}
MCListedOne == t1 :> Reports

\* The PDF of r2 may change between fetches.
MCServes == [r \in Reports |-> IF r = r2 THEN {c1, c2} ELSE {c1}]

\* No PDF is served under more than two reports.
MCServesTwo == [r \in Reports |-> {IF r = r3 THEN c2 ELSE c1}]

\* The source serves the same PDF under each report.
MCSameContent == [r \in Reports |-> {c1}]

\* r1 has no date, r2 is the newest.
MCPublishedAt == [r \in Reports |-> IF r = r1 THEN 0 ELSE IF r = r2 THEN 2 ELSE 1]
=============================================================================
