------------------------------- MODULE LogPipe -----------------------------
(***************************************************************************)
(* What the log batcher of a process promises of table scheduler_logs: the *)
(* rows the process has taken over arrive in the order it took them, in    *)
(* stretches that leave no gap.  A stretch may arrive again, when the      *)
(* process was not told that it had arrived.                               *)
(***************************************************************************)
EXTENDS Integers, Sequences

CONSTANT Rows       \* the rows there are to log

VARIABLES
  accepted,   \* the rows taken over, in order
  table,      \* what was inserted, in order
  upto        \* how many rows of accepted are known to have been inserted

vars == <<accepted, table, upto>>

Init == accepted = <<>> /\ table = <<>> /\ upto = 0

Accept ==
  /\ \E r \in Rows : accepted' = Append(accepted, r)
  /\ UNCHANGED <<table, upto>>

Insert ==
  /\ \E n \in upto + 1 .. Len(accepted) :
       /\ table' = table \o SubSeq(accepted, upto + 1, n)
       /\ upto' \in {upto, n}
  /\ UNCHANGED accepted

Next == Accept \/ Insert

Spec == Init /\ [][Next]_vars
=============================================================================
