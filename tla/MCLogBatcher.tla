---------------------------- MODULE MCLogBatcher ---------------------------
(* Values for the constants of LogBatcher in the run of TLC. *)
EXTENDS LogBatcher

CONSTANTS r1, r2
=============================================================================
