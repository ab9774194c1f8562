---------------------------- MODULE AnswerCache -----------------------------
(***************************************************************************)
(* What the SSI clients promise to those who call them, whatever the order *)
(* of the callers and whoever is cancelled: one cache in front of SSI that *)
(* answers at once.  There are no locks, threads or SDK objects here.      *)
(***************************************************************************)
EXTENDS Naturals

CONSTANTS Callers, Keys, Ttl, Nil

VARIABLES
    want,    \* what a caller is waiting for, Nil if it is not
    entry,   \* per key, when the answer kept was stored and when SSI was asked
    shown,   \* per key, when SSI was asked for the answer that was shown last
    now

vars == <<want, entry, shown, now>>

None == [at |-> 0, asked |-> 0]

Init ==
    /\ want = [c \in Callers |-> Nil]
    /\ entry = [k \in Keys |-> None]
    /\ shown = [k \in Keys |-> 0]
    /\ now = 1

Ask(c, k) ==
    /\ want[c] = Nil
    /\ want' = [want EXCEPT ![c] = k]
    /\ UNCHANGED <<entry, shown, now>>

Leaves(c) == want' = [want EXCEPT ![c] = Nil]

\* An answer is kept for Ttl.
Kept(k) == entry[k] # None /\ now < entry[k].at + Ttl

FromCache(c, k) ==
    /\ want[c] = k
    /\ Kept(k)
    /\ shown' = [shown EXCEPT ![k] = entry[k].asked]
    /\ Leaves(c)
    /\ UNCHANGED <<entry, now>>

\* SSI is asked again only once the last answer has lived its Ttl.
FromSsi(c, k) ==
    /\ want[c] = k
    /\ \E asked \in 1..now :
          /\ entry[k] # None => asked >= entry[k].at + Ttl
          /\ entry' = [entry EXCEPT ![k] = [at |-> now, asked |-> asked]]
          /\ shown' = [shown EXCEPT ![k] = asked]
    /\ Leaves(c)
    /\ UNCHANGED now

\* An error of SSI, or the caller was cancelled: nobody else is concerned.
Fails(c) ==
    /\ want[c] # Nil
    /\ Leaves(c)
    /\ UNCHANGED <<entry, shown, now>>

Tick == now' = now + 1 /\ UNCHANGED <<want, entry, shown>>

Next ==
    \/ \E c \in Callers :
          \/ \E k \in Keys : Ask(c, k) \/ FromCache(c, k) \/ FromSsi(c, k)
          \/ Fails(c)
    \/ Tick

Spec == Init /\ [][Next]_vars
=============================================================================
