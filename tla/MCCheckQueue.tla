---------------------------- MODULE MCCheckQueue ----------------------------
(* Instance of CheckQueue for TLC: two workers and the master share blocks   *)
(* of up to three checks, so that workers are idle, wait, are notified and   *)
(* race for the last check.  No symmetry: WaitReturns is a liveness property. *)
EXTENDS CheckQueue, TLC
=============================================================================
