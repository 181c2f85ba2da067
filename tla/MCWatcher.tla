----------------------------- MODULE MCWatcher -----------------------------
(***************************************************************************)
(* Three watches with room for two in a tick, one query that is broken,    *)
(* and prices of which 100 and 101 are within the threshold.               *)
(***************************************************************************)
EXTENDS Watcher

CONSTANTS o1, q1, q2, q3, c1, c2

=============================================================================
