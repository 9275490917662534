---------------------------- MODULE MCCallbacks ----------------------------
(* Callbacks with the constants of MCScheduler, for the run of TLC. *)
EXTENDS Callbacks, MCScheduler
=============================================================================
