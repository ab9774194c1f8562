---------------------------- MODULE MCSsiClient -----------------------------
(* Small instances of SsiClient for TLC. *)
EXTENDS SsiClient

CONSTANTS c1, c2, c3, k1
=============================================================================
