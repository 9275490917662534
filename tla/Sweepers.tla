------------------------------ MODULE Sweepers -----------------------------
(***************************************************************************)
(* The two sweepers of an mp-worker process (internal/worker): the one for *)
(* rows stuck in admitted (runner.go) and the one for workloads over their *)
(* maximum run time (runtime_sweep.go).  Time is not modelled: a row may   *)
(* be over a limit or not at any sweep.                                    *)
(*                                                                         *)
(* The runtime sweeper lists first and works through its listing later:    *)
(* every element is a copy of a row that had a runtime_ref when listed.    *)
(***************************************************************************)
EXTENDS Runtime

CONSTANTS
  Processes,              \* the mp-worker processes whose background loops run
  AdmittedSweepEnable,    \* worker.admitted_timeout_seconds > 0
  RuntimeSweepEnable      \* worker.disable_runtime_sweeper = false

ASSUME SweeperAssumption ==
  AdmittedSweepEnable \in BOOLEAN /\ RuntimeSweepEnable \in BOOLEAN

VARIABLES
  overdue,    \* overdue[w]: the listed rows w has not dealt with yet
  sweepItem,  \* sweepItem[w]: the row w is dealing with
  sweepPc     \* sweepPc[w]: what w does next to it

sweeperVars == <<overdue, sweepItem, sweepPc>>

SweeperInit ==
  /\ overdue = [w \in Processes |-> {}]
  /\ sweepPc = [w \in Processes |-> "stop"]
  /\ sweepItem = [w \in Processes |-> NoTask]

SweeperTypeOK ==
  /\ overdue \in [Processes -> SUBSET TaskIds]
  /\ sweepPc \in [Processes -> {"stop", "clear", "fail"}]
  /\ sweepItem \in [Processes -> TaskIds \cup {NoTask}]

----------------------------------------------------------------------------
AdmittedSweep ==
  /\ AdmittedSweepEnable
  /\ \E stuck \in SUBSET TaskIds : RevertAdmittedStuck(stuck)
  /\ UNCHANGED <<container, sweeperVars>>

\* Which of the running rows are over their limit is open.
ListOverdue(w) ==
  /\ RuntimeSweepEnable
  /\ overdue[w] = {} /\ sweepPc[w] = "stop"
  /\ \E late \in SUBSET RunningRowsWithRef :
       /\ late # {}
       /\ overdue' = [overdue EXCEPT ![w] = late]
  /\ UNCHANGED <<sweepPc, sweepItem, tableVars, container>>

\* Mutant: the workload is not stopped.
SweepWithoutStop(w) ==
  /\ sweepPc[w] = "stop"
  /\ \E t \in overdue[w] :
       /\ overdue' = [overdue EXCEPT ![w] = @ \ {t}]
       /\ sweepItem' = [sweepItem EXCEPT ![w] = t]
  /\ sweepPc' = [sweepPc EXCEPT ![w] = "clear"]
  /\ UNCHANGED <<tableVars, container>>

\* An error of Stop is logged, and the sweep goes on as if it had stopped.
SweepStop(w) ==
  /\ sweepPc[w] = "stop"
  /\ \E t \in overdue[w] :
       /\ StopOK(t, TRUE) \/ StopError(t, TRUE)
       /\ overdue' = [overdue EXCEPT ![w] = @ \ {t}]
       /\ sweepItem' = [sweepItem EXCEPT ![w] = t]
  /\ sweepPc' = [sweepPc EXCEPT ![w] = "clear"]
  /\ UNCHANGED tableVars

\* An error of ClearRuntimeRef is ignored.
SweepClear(w) ==
  /\ sweepPc[w] = "clear"
  /\ \/ ClearRuntimeRef(sweepItem[w])
     \/ "db" \in Faults /\ UNCHANGED tableVars
  /\ sweepPc' = [sweepPc EXCEPT ![w] = "fail"]
  /\ UNCHANGED <<overdue, sweepItem, container>>

\* Mutant: a status the code does not have.
SweepTimeout(w) ==
  /\ sweepPc[w] = "fail"
  /\ UpdateStatus(sweepItem[w], "timeout")
  /\ sweepPc' = [sweepPc EXCEPT ![w] = "stop"]
  /\ sweepItem' = [sweepItem EXCEPT ![w] = NoTask]
  /\ UNCHANGED <<overdue, container>>

SweepFail(w) ==
  /\ sweepPc[w] = "fail"
  /\ \/ UpdateStatus(sweepItem[w], "failed")
     \/ "db" \in Faults /\ UNCHANGED tableVars
  /\ sweepPc' = [sweepPc EXCEPT ![w] = "stop"]
  /\ sweepItem' = [sweepItem EXCEPT ![w] = NoTask]
  /\ UNCHANGED <<overdue, container>>

\* The process dies and forgets its listing.
ForgetSweep(w) ==
  /\ overdue' = [overdue EXCEPT ![w] = {}]
  /\ sweepPc' = [sweepPc EXCEPT ![w] = "stop"]
  /\ sweepItem' = [sweepItem EXCEPT ![w] = NoTask]

SweeperStep(w) == ListOverdue(w) \/ SweepStop(w) \/ SweepClear(w) \/ SweepFail(w)
=============================================================================
