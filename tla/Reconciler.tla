----------------------------- MODULE Reconciler ----------------------------
(***************************************************************************)
(* The reconciler loop of an mp-worker process                             *)
(* (internal/reconciler/reconciler.go, Tick): it lists the rows that       *)
(* occupy a slot, asks the provider for the phase of each, collects the    *)
(* container's last log lines and writes the final status.  The row may    *)
(* have changed since the listing and the container since the answer;      *)
(* neither is looked at again.                                             *)
(*                                                                         *)
(* After each Tick the loop may look for orphans (TickOrphanReap): rows    *)
(* that are final and still have a runtime_ref.  Each gets a goroutine,    *)
(* one per row and process, that watches the container for a while, then   *)
(* stops it and clears the ref.  The goroutine reads the row again before  *)
(* each look, but not its status.                                          *)
(***************************************************************************)
EXTENDS Sweepers

CONSTANTS
  ReconcilerEnable,     \* reconciler.enable
  OrphanReapEnable      \* reconciler.orphan_reap_enable

ASSUME ReconcilerAssumption ==
  ReconcilerEnable \in BOOLEAN /\ OrphanReapEnable \in BOOLEAN

VARIABLES
  listed,     \* listed[w]: copies of rows w has still to ask about
  verdict,    \* verdict[w]: the row and the final status w is about to write
  reap        \* reap[w][t]: what the goroutine of w for orphan t does next

reconcilerVars == <<listed, verdict, reap>>

NoVerdict == [task |-> NoTask, phase |-> "none"]

Verdict == [task : TaskIds, phase : {"succeeded", "failed"}]

ReconcilerInit ==
  /\ listed = [w \in Processes |-> {}]
  /\ verdict = [w \in Processes |-> NoVerdict]
  /\ reap = [w \in Processes |-> [t \in TaskIds |-> "none"]]

ReconcilerTypeOK ==
  /\ listed \in [Processes -> SUBSET TaskIds]
  /\ verdict \in [Processes -> Verdict \cup {NoVerdict}]
  /\ reap \in [Processes -> [TaskIds -> {"none", "look", "watch", "stop", "clear"}]]

----------------------------------------------------------------------------
\* The phase of a copy without ref, and of any k8s task, is unknown and has no
\* effect, so only the other rows are kept.
Listable ==
  {t \in SlotRows : runtimeRef[t] /\ req[t].provider = "docker"}

TickList(w) ==
  /\ ReconcilerEnable
  /\ listed[w] = {} /\ verdict[w] = NoVerdict
  /\ Listable # {}
  /\ listed' = [listed EXCEPT ![w] = Listable]
  /\ UNCHANGED <<verdict, reap, tableVars, container>>

\* A phase that is not final has no effect; an error of Status skips the row.
TickInspect(w) ==
  /\ verdict[w] = NoVerdict
  /\ \E t \in listed[w] :
       /\ listed' = [listed EXCEPT ![w] = @ \ {t}]
       /\ \/ /\ Phase(t, TRUE) \in {"succeeded", "failed"}
             /\ verdict' = [verdict EXCEPT ![w] = [task |-> t, phase |-> Phase(t, TRUE)]]
          \/ /\ Phase(t, TRUE) = "running" \/ "engine" \in Faults
             /\ UNCHANGED verdict
  /\ UNCHANGED <<reap, tableVars, container>>

\* An error of UpdateStatus is ignored.
TickUpdate(w) ==
  /\ verdict[w] # NoVerdict
  /\ \/ UpdateStatus(verdict[w].task, verdict[w].phase)
     \/ "db" \in Faults /\ UNCHANGED tableVars
  /\ verdict' = [verdict EXCEPT ![w] = NoVerdict]
  /\ UNCHANGED <<listed, reap, container>>

----------------------------------------------------------------------------
GotoReap(w, t, step) == reap' = [reap EXCEPT ![w][t] = step]

\* A goroutine for every orphan that has none in this process.  The loop is
\* between two Ticks.
ReapList(w) ==
  /\ OrphanReapEnable
  /\ listed[w] = {} /\ verdict[w] = NoVerdict
  /\ LET orphans == {t \in TerminalDockerRowsWithRef : reap[w][t] = "none"}
     IN  /\ orphans # {}
         /\ reap' = [reap EXCEPT ![w] =
                       [t \in TaskIds |-> IF t \in orphans THEN "look" ELSE @[t]]]
  /\ UNCHANGED <<listed, verdict, tableVars, container>>

\* A container that is gone only leaves a ref to clear; one that runs is watched,
\* and after the last look stopped.  How many looks that takes is open.  A row
\* without ref, or an error of either call, ends the goroutine.
ReapLook(w, t) ==
  /\ reap[w][t] \in {"look", "watch"}
  /\ LET phase == Phase(t, runtimeRef[t])
     IN  \/ phase = "running" /\ GotoReap(w, t, "watch")
         \/ phase = "running" /\ reap[w][t] = "watch" /\ GotoReap(w, t, "stop")
         \/ phase \in {"succeeded", "failed"} /\ GotoReap(w, t, "clear")
         \/ phase = "unknown" /\ GotoReap(w, t, "none")
         \/ Faults \cap {"engine", "db"} # {} /\ GotoReap(w, t, "none")
  /\ UNCHANGED <<listed, verdict, tableVars, container>>

\* The row is read once more; an error of that ends the goroutine.  An error of
\* Stop is logged, and the ref is cleared all the same.
ReapStop(w, t) ==
  /\ reap[w][t] = "stop"
  /\ \/ /\ StopOK(t, runtimeRef[t]) \/ StopError(t, runtimeRef[t])
        /\ GotoReap(w, t, "clear")
     \/ "db" \in Faults /\ GotoReap(w, t, "none") /\ UNCHANGED container
  /\ UNCHANGED <<listed, verdict, tableVars>>

ReapClear(w, t) ==
  /\ reap[w][t] = "clear"
  /\ \/ ClearRuntimeRef(t)
     \/ "db" \in Faults /\ UNCHANGED tableVars
  /\ GotoReap(w, t, "none")
  /\ UNCHANGED <<listed, verdict, container>>

Reap(w, t) == ReapLook(w, t) \/ ReapStop(w, t) \/ ReapClear(w, t)

----------------------------------------------------------------------------
\* The process dies and forgets its listing and its goroutines.
ForgetTick(w) ==
  /\ listed' = [listed EXCEPT ![w] = {}]
  /\ verdict' = [verdict EXCEPT ![w] = NoVerdict]
  /\ reap' = [reap EXCEPT ![w] = [t \in TaskIds |-> "none"]]

Tick(w) == TickList(w) \/ TickInspect(w) \/ TickUpdate(w) \/ ReapList(w)
=============================================================================
