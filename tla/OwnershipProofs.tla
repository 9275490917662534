--------------------------- MODULE OwnershipProofs --------------------------
(***************************************************************************)
(* Types first: what each statement, provider call and step does to them.  *)
(* Then OwnInv, which is inductive: who holds a row tells what others may  *)
(* still write to it.  From it follow the theorems about claims, launches, *)
(* the queue and the reaper, for any number of workers and tasks, any      *)
(* configuration, and whatever fails.                                      *)
(***************************************************************************)
EXTENDS SchedulerInvariants, FiniteSetTheorems, TLAPS

----------------------------------------------------------------------------
(* Types. *)

\* Counting rows yields a number.
LEMMA SlotCount == Cardinality(SlotRows) \in Nat
<1>1. IsFiniteSet(SlotRows)
  BY TaskAssumption, FS_Subset DEF SlotRows
<1> QED BY <1>1, FS_CardinalityType

LEMMA TypeInit == Init => TypeOK /\ RestartsKnown
<1> SUFFICES ASSUME Init PROVE TypeOK /\ RestartsKnown
  OBVIOUS
<1>1. TableTypeOK
  <2>1. Absent \in Request
    BY DEF Absent, Request, NoTask
  <2> QED BY <2>1 DEF Init, TableInit, TableTypeOK, Status
<1>2. RuntimeTypeOK
  BY DEF Init, RuntimeInit, RuntimeTypeOK, ContainerState
<1>3. WorkerTypeOK
  BY DEF Init, WorkerInit, WorkerTypeOK
<1>4. SweeperTypeOK
  BY DEF Init, SweeperInit, SweeperTypeOK
<1>5. ReconcilerTypeOK
  BY DEF Init, ReconcilerInit, ReconcilerTypeOK
<1>6. ControllerTypeOK /\ RestartsKnown
  BY DEF Init, ControllerInit, ControllerTypeOK, RestartsKnown
<1> QED BY <1>1, <1>2, <1>3, <1>4, <1>5, <1>6 DEF TypeOK

\* Inserting a row whose columns are well formed.
LEMMA CreateType ==
  ASSUME TypeOK, RestartsKnown, NEW t \in TaskIds, NEW r \in Request, Create(t, r)
  PROVE  /\ TableTypeOK'
         /\ \A u \in TaskIds : status[u] # "none" =>
              status'[u] # "none" /\ req'[u] = req[u]
         /\ status'[t] = "pending" /\ req'[t] = r
BY DEF TypeOK, TableTypeOK, Create, Status

LEMMA ControlType ==
  ASSUME TypeOK, RestartsKnown, Control
  PROVE  TypeOK' /\ RestartsKnown'
<1>1. /\ RuntimeTypeOK' /\ WorkerTypeOK' /\ SweeperTypeOK' /\ ReconcilerTypeOK'
  BY DEF Control, TypeOK, RuntimeTypeOK, WorkerTypeOK, SweeperTypeOK,
     ReconcilerTypeOK, workerVars, sweeperVars, reconcilerVars
<1>2. \A u \in TaskIds : StopRequestFor(u) \in Request
                         /\ StopRequestFor(u).target = u
  BY DEF TypeOK, TableTypeOK, StopRequestFor, Request
<1>3. \A u \in TaskIds : CloneOf(u) \in Request
  BY DEF TypeOK, TableTypeOK, CloneOf, Request
<1>4. ASSUME NEW t \in TaskIds, Enqueue(t)
      PROVE  TableTypeOK' /\ ControllerTypeOK' /\ RestartsKnown'
  <2>1. PICK r \in Requests : Create(t, r)
    BY <1>4 DEF Enqueue
  <2>2. r \in Request
    BY ClientAssumption
  <2> QED BY <1>4, <2>1, <2>2, CreateType
          DEF Enqueue, TypeOK, ControllerTypeOK, RestartsKnown
<1>5. ASSUME NEW t \in TaskIds, NEW u \in TaskIds,
             EnqueueStopForTarget(t, u) \/ RestartFinished(t, u)
      PROVE  TableTypeOK' /\ ControllerTypeOK' /\ RestartsKnown'
  BY <1>2, <1>3, <1>5, CreateType
  DEF EnqueueStopForTarget, RestartFinished, TypeOK, ControllerTypeOK, RestartsKnown
<1>6. ASSUME NEW t \in TaskIds, NEW u \in TaskIds, RestartLive(t, u)
      PROVE  TableTypeOK' /\ ControllerTypeOK' /\ RestartsKnown'
  <2>1. TableTypeOK' /\ status'[t] # "none" /\ req'[t].target = u
    BY <1>2, <1>6, CreateType DEF RestartLive
  <2> QED BY <1>2, <1>6, <2>1, CreateType
          DEF RestartLive, TypeOK, ControllerTypeOK, RestartsKnown
<1>7. ASSUME NEW t \in TaskIds, NEW s \in TaskIds, RestartSubmit(t, s)
      PROVE  TableTypeOK' /\ ControllerTypeOK' /\ RestartsKnown'
  <2>1. req[s].target \in TaskIds
    BY <1>7 DEF RestartSubmit, RestartsKnown
  <2>2. CloneOf(req[s].target) \in Request
    BY <2>1, <1>3
  <2>3. status[s] # "none"
    BY <1>7 DEF RestartSubmit, RestartsKnown
  <2> QED BY <1>7, <2>1, <2>2, <2>3, CreateType
          DEF RestartSubmit, TypeOK, ControllerTypeOK, RestartsKnown
<1>8. ASSUME NEW s \in TaskIds, RestartAbandon(s)
      PROVE  TableTypeOK' /\ ControllerTypeOK' /\ RestartsKnown'
  BY <1>8 DEF RestartAbandon, TypeOK, TableTypeOK, ControllerTypeOK, RestartsKnown, tableVars
<1>9. TableTypeOK' /\ ControllerTypeOK' /\ RestartsKnown'
  BY <1>4, <1>5, <1>6, <1>7, <1>8 DEF Control, ControllerStep
<1> QED BY <1>1, <1>9 DEF TypeOK

\* What every statement but the insert leaves alone.
RowsKept == req' = req /\ \A t \in TaskIds : status[t] # "none" => status'[t] # "none"

LEMMA StatementType ==
  ASSUME TypeOK
  PROVE  /\ \A t, s : s \in Status \ {"none"} /\ UpdateStatus(t, s)
              => TableTypeOK' /\ RowsKept
         /\ \A t : UpdateRuntime(t) \/ ClearRuntimeRef(t) => TableTypeOK' /\ RowsKept
         /\ \A t, ok : CreateStopRecord(t, ok) => TableTypeOK' /\ RowsKept
         /\ \A stuck : RevertAdmittedStuck(stuck) => TableTypeOK' /\ RowsKept
         /\ UNCHANGED tableVars => TableTypeOK' /\ RowsKept
<1> USE DEF TypeOK, TableTypeOK, RowsKept
<1>1. \A t, s : s \in Status \ {"none"} /\ UpdateStatus(t, s) => TableTypeOK' /\ RowsKept
  BY DEF UpdateStatus
<1>2. \A t : UpdateRuntime(t) \/ ClearRuntimeRef(t) => TableTypeOK' /\ RowsKept
  BY DEF UpdateRuntime, ClearRuntimeRef, Status, SlotStatuses
<1>3. \A t, ok : CreateStopRecord(t, ok) => TableTypeOK' /\ RowsKept
  BY DEF CreateStopRecord
<1>4. \A stuck : RevertAdmittedStuck(stuck) => TableTypeOK' /\ RowsKept
  BY DEF RevertAdmittedStuck, Status, Terminal
<1>5. UNCHANGED tableVars => TableTypeOK' /\ RowsKept
  BY DEF tableVars
<1> QED BY <1>1, <1>2, <1>3, <1>4, <1>5

LEMMA ContainerType ==
  ASSUME TypeOK
  PROVE  /\ \A t, s : s \in ContainerState /\ SetContainer(t, s) => RuntimeTypeOK'
         /\ \A t, ref : StopOK(t, ref) \/ StopError(t, ref) => RuntimeTypeOK'
         /\ \A t : ContainerExit(t) => RuntimeTypeOK'
         /\ UNCHANGED container => RuntimeTypeOK'
<1> USE DEF TypeOK, RuntimeTypeOK
<1>1. \A t, s : s \in ContainerState /\ SetContainer(t, s) => RuntimeTypeOK'
  BY DEF SetContainer
<1>2. {"removed", "exited0", "exitedN", "created", "running"} \subseteq ContainerState
  BY DEF ContainerState
<1>3. UNCHANGED container => RuntimeTypeOK'
  OBVIOUS
<1>4. \A t, ref : StopOK(t, ref) \/ StopError(t, ref) => RuntimeTypeOK'
  BY <1>1, <1>2, <1>3 DEF StopOK, StopError
<1>5. \A t : ContainerExit(t) => RuntimeTypeOK'
  BY <1>1, <1>2 DEF ContainerExit
<1> QED BY <1>1, <1>3, <1>4, <1>5

LEMMA WorkType ==
  ASSUME TypeOK, NEW w \in Workers, WorkerStep(w) \/ DbError(w) \/ CrashWorker(w)
  PROVE  TableTypeOK' /\ RowsKept /\ RuntimeTypeOK' /\ WorkerTypeOK'
<1> DEFINE Steps == {"idle", "claim"} \cup Deciding \cup Starting \cup Stopping
<1>0. /\ \A step \in Steps : Goto(w, step) /\ Keep(w) => WorkerTypeOK'
      /\ Return(w) => WorkerTypeOK'
  <2>1. ASSUME NEW step \in Steps, Goto(w, step), Keep(w) PROVE WorkerTypeOK'
    BY <2>1 DEF Goto, Keep, TypeOK, WorkerTypeOK
  <2>2. ASSUME Return(w) PROVE WorkerTypeOK'
    BY <2>2 DEF Goto, Return, TypeOK, WorkerTypeOK, NoTask
  <2> QED BY <2>1, <2>2
<1>s. {"pending", "processing", "admitted", "running", "failed", "stopped", "succeeded"}
         \subseteq Status \ {"none"}
  BY DEF Status, SlotStatuses, Terminal
<1>c. {"removed", "created", "running"} \subseteq ContainerState
  BY DEF ContainerState
<1>p. {"idle", "claim", "count", "policy", "gpu", "cas", "reject", "check", "create",
       "start", "record", "fail", "target", "stop", "mark", "finish", "failstop",
       "audit", "auditfail"} \subseteq Steps
  BY DEF Deciding, Starting, Stopping, Auditing
<1>1. CASE ClaimLock(w)
  BY <1>1, <1>p, StatementType, ContainerType
  DEF ClaimLock, Claimable, Goto, TypeOK, WorkerTypeOK
<1>2. CASE ClaimCommit(w)
  BY <1>2, <1>0, <1>p, <1>s, StatementType, ContainerType DEF ClaimCommit, TrySetStatus
<1>3. CASE CountTotal(w)
  BY <1>3, <1>p, SlotCount, StatementType, ContainerType
  DEF CountTotal, Goto, TypeOK, WorkerTypeOK
<1>4. CASE ApplyPolicy(w)
  BY <1>4, <1>0, <1>p, StatementType, ContainerType DEF ApplyPolicy
<1>5. CASE CheckGPU(w)
  BY <1>5, <1>0, <1>p, StatementType, ContainerType DEF CheckGPU
<1>6. CASE CommitAdmission(w)
  BY <1>6, <1>0, <1>p, <1>s, StatementType, ContainerType DEF CommitAdmission, TrySetStatus
<1>7. CASE ResetToPending(w)
  BY <1>7, <1>0, <1>s, StatementType, ContainerType DEF ResetToPending, TrySetStatus
<1>8. CASE ResourceCheck(w)
  BY <1>8, <1>0, <1>p, StatementType, ContainerType DEF ResourceCheck
<1>9. CASE CreateContainer(w)
  BY <1>9, <1>0, <1>p, <1>c, StatementType, ContainerType DEF CreateContainer
<1>10. CASE StartContainer(w)
  BY <1>10, <1>0, <1>p, <1>c, StatementType, ContainerType DEF StartContainer
<1>11. CASE RecordRunning(w)
  BY <1>11, <1>0, StatementType, ContainerType DEF RecordRunning
<1>12. CASE FailStart(w)
  BY <1>12, <1>0, <1>s, StatementType, ContainerType DEF FailStart
<1>13. CASE ReadTarget(w)
  <2>1. CASE Stoppable(w)
    <3>1. runtimeRef[Target(w)] \in BOOLEAN
      BY <2>1 DEF Stoppable, SlotRows, TypeOK, TableTypeOK
    <3> QED BY <1>13, <2>1, <3>1, <1>p, StatementType, ContainerType
            DEF ReadTarget, Goto, TypeOK, WorkerTypeOK
  <2>2. CASE ~Stoppable(w)
    BY <1>13, <2>2, <1>0, <1>p, StatementType, ContainerType DEF ReadTarget, Keep
  <2> QED BY <2>1, <2>2
<1>14. CASE StopTarget(w)
  BY <1>14, <1>0, <1>p, StatementType, ContainerType DEF StopTarget
<1>15. CASE MarkStopped(w)
  BY <1>15, <1>0, <1>p, <1>s, StatementType, ContainerType DEF MarkStopped
<1>16. CASE FinishStop(w)
  BY <1>16, <1>0, <1>p, <1>s, StatementType, ContainerType DEF FinishStop
<1>17. CASE FailStop(w)
  BY <1>17, <1>0, <1>p, <1>s, StatementType, ContainerType DEF FailStop
<1>18. CASE WriteStopRecord(w)
  BY <1>18, <1>0, StatementType, ContainerType DEF WriteStopRecord
<1>19. CASE DbError(w)
  <2>1. CASE StatementFails(w)
    BY <2>1, <1>0, <1>p, StatementType, ContainerType DEF StatementFails
  <2>2. CASE AnswerLost(w)
    BY <2>2, <1>0, <1>p, <1>s, StatementType, ContainerType DEF AnswerLost, TrySetStatus
  <2> QED BY <1>19, <2>1, <2>2 DEF DbError
<1>20. CASE CrashWorker(w)
  BY <1>20, <1>0, StatementType, ContainerType DEF CrashWorker
<1> QED BY <1>1, <1>2, <1>3, <1>4, <1>5, <1>6, <1>7, <1>8, <1>9, <1>10, <1>11, <1>12,
           <1>13, <1>14, <1>15, <1>16, <1>17, <1>18, <1>19, <1>20 DEF WorkerStep

LEMMA BackgroundType ==
  ASSUME TypeOK, RestartsKnown,
         \/ \E w \in Processes : \/ Sweep(w) \/ Reconcile(w)
                                 \/ \E t \in TaskIds : ReapOrphan(w, t)
         \/ SweepAdmitted
         \/ \E t \in TaskIds : Exit(t)
  PROVE  /\ TableTypeOK' /\ RowsKept /\ RuntimeTypeOK'
         /\ SweeperTypeOK' /\ ReconcilerTypeOK'
<1>s. {"succeeded", "failed"} \subseteq Status \ {"none"}
  BY DEF Status, Terminal
<1>1. ASSUME NEW w \in Processes, Sweep(w)
      PROVE  /\ TableTypeOK' /\ RowsKept /\ RuntimeTypeOK'
             /\ SweeperTypeOK' /\ ReconcilerTypeOK'
  <2>0. ReconcilerTypeOK'
    BY <1>1 DEF Sweep, reconcilerVars, TypeOK, ReconcilerTypeOK
  <2>1. CASE ListOverdue(w)
    <3>1. SweeperTypeOK'
      BY <2>1 DEF ListOverdue, RunningRowsWithRef, TypeOK, SweeperTypeOK
    <3> QED BY <2>0, <2>1, <3>1, StatementType, ContainerType DEF ListOverdue
  <2>2. CASE SweepStop(w)
    <3>1. SweeperTypeOK'
      BY <2>2 DEF SweepStop, TypeOK, SweeperTypeOK
    <3> QED BY <2>0, <2>2, <3>1, StatementType, ContainerType DEF SweepStop
  <2>3. CASE SweepClear(w)
    <3>1. SweeperTypeOK'
      BY <2>3 DEF SweepClear, TypeOK, SweeperTypeOK
    <3> QED BY <2>0, <2>3, <3>1, StatementType, ContainerType DEF SweepClear
  <2>4. CASE SweepFail(w)
    <3>1. SweeperTypeOK'
      BY <2>4 DEF SweepFail, TypeOK, SweeperTypeOK
    <3> QED BY <1>s, <2>0, <2>4, <3>1, StatementType, ContainerType DEF SweepFail
  <2> QED BY <1>1, <2>1, <2>2, <2>3, <2>4 DEF Sweep, SweeperStep
<1>2. ASSUME NEW w \in Processes, Reconcile(w)
      PROVE  /\ TableTypeOK' /\ RowsKept /\ RuntimeTypeOK'
             /\ SweeperTypeOK' /\ ReconcilerTypeOK'
  <2>0. SweeperTypeOK'
    BY <1>2 DEF Reconcile, sweeperVars, TypeOK, SweeperTypeOK
  <2>1. CASE TickList(w)
    <3>1. ReconcilerTypeOK'
      BY <2>1 DEF TickList, Listable, SlotRows, TypeOK, ReconcilerTypeOK
    <3> QED BY <2>0, <2>1, <3>1, StatementType, ContainerType DEF TickList
  <2>2. CASE TickInspect(w)
    <3>1. PICK t \in listed[w] :
            /\ listed' = [listed EXCEPT ![w] = @ \ {t}]
            /\ \/ \E phase \in {"succeeded", "failed"} :
                    verdict' = [verdict EXCEPT ![w] = [task |-> t, phase |-> phase]]
               \/ UNCHANGED verdict
            /\ UNCHANGED reap
      BY <2>2 DEF TickInspect
    <3>2. \A phase \in {"succeeded", "failed"} : [task |-> t, phase |-> phase] \in Verdict
      BY DEF TypeOK, ReconcilerTypeOK, Verdict
    <3>3. verdict' \in [Processes -> Verdict \cup {NoVerdict}]
      BY <3>1, <3>2 DEF TypeOK, ReconcilerTypeOK
    <3>4. ReconcilerTypeOK'
      BY <3>1, <3>3 DEF TypeOK, ReconcilerTypeOK
    <3> QED BY <2>0, <2>2, <3>4, StatementType, ContainerType DEF TickInspect
  <2>3. CASE TickUpdate(w)
    <3>1. ReconcilerTypeOK'
      BY <2>3 DEF TickUpdate, TypeOK, ReconcilerTypeOK
    <3>2. verdict[w].phase \in {"succeeded", "failed"}
      BY <2>3 DEF TickUpdate, TypeOK, ReconcilerTypeOK, Verdict
    <3> QED BY <1>s, <2>0, <2>3, <3>1, <3>2, StatementType, ContainerType DEF TickUpdate
  <2>4. CASE ReapList(w)
    <3>1. ReconcilerTypeOK'
      BY <2>4 DEF ReapList, TypeOK, ReconcilerTypeOK
    <3> QED BY <2>0, <2>4, <3>1, StatementType, ContainerType DEF ReapList
  <2> QED BY <1>2, <2>1, <2>2, <2>3, <2>4 DEF Reconcile, Tick
<1>3. ASSUME NEW w \in Processes, NEW t \in TaskIds, ReapOrphan(w, t)
      PROVE  /\ TableTypeOK' /\ RowsKept /\ RuntimeTypeOK'
             /\ SweeperTypeOK' /\ ReconcilerTypeOK'
  <2>0. SweeperTypeOK'
    BY <1>3 DEF ReapOrphan, sweeperVars, TypeOK, SweeperTypeOK
  <2>1. \A step \in {"none", "look", "watch", "stop", "clear"} :
          GotoReap(w, t, step) /\ UNCHANGED <<listed, verdict>> => ReconcilerTypeOK'
    BY DEF GotoReap, TypeOK, ReconcilerTypeOK
  <2>2. CASE ReapLook(w, t)
    BY <2>0, <2>1, <2>2, StatementType, ContainerType DEF ReapLook
  <2>3. CASE ReapStop(w, t)
    BY <2>0, <2>1, <2>3, StatementType, ContainerType DEF ReapStop
  <2>4. CASE ReapClear(w, t)
    BY <2>0, <2>1, <2>4, StatementType, ContainerType DEF ReapClear
  <2> QED BY <1>3, <2>2, <2>3, <2>4 DEF ReapOrphan, Reap
<1>4. ASSUME SweepAdmitted
      PROVE  /\ TableTypeOK' /\ RowsKept /\ RuntimeTypeOK'
             /\ SweeperTypeOK' /\ ReconcilerTypeOK'
  BY <1>4, StatementType, ContainerType
  DEF SweepAdmitted, AdmittedSweep, sweeperVars, reconcilerVars, TypeOK,
      SweeperTypeOK, ReconcilerTypeOK
<1>5. ASSUME NEW t \in TaskIds, Exit(t)
      PROVE  /\ TableTypeOK' /\ RowsKept /\ RuntimeTypeOK'
             /\ SweeperTypeOK' /\ ReconcilerTypeOK'
  BY <1>5, StatementType, ContainerType
  DEF Exit, sweeperVars, reconcilerVars, TypeOK, SweeperTypeOK, ReconcilerTypeOK
<1> QED BY <1>1, <1>2, <1>3, <1>4, <1>5

LEMMA TypeStep == TypeOK /\ RestartsKnown /\ [Next]_vars => TypeOK' /\ RestartsKnown'
<1> SUFFICES ASSUME TypeOK, RestartsKnown, [Next]_vars PROVE TypeOK' /\ RestartsKnown'
  OBVIOUS
<1>k. ASSUME RowsKept, UNCHANGED restarts PROVE ControllerTypeOK' /\ RestartsKnown'
  BY <1>k DEF RowsKept, RestartsKnown, TypeOK, ControllerTypeOK
<1>1. CASE Control
  BY <1>1, ControlType
<1>2. ASSUME NEW w \in Workers, Work(w) \/ DbFault(w) \/ Crash(w)
      PROVE  TypeOK' /\ RestartsKnown'
  <2>1. /\ TableTypeOK' /\ RowsKept /\ RuntimeTypeOK' /\ WorkerTypeOK'
        /\ UNCHANGED restarts
    BY <1>2, WorkType DEF Work, DbFault, Crash
  <2>2. SweeperTypeOK'
    BY <1>2 DEF Work, DbFault, Crash, ForgetSweep, sweeperVars, TypeOK, SweeperTypeOK
  <2>3. ReconcilerTypeOK'
    <3>1. CASE UNCHANGED reconcilerVars
      BY <3>1 DEF reconcilerVars, TypeOK, ReconcilerTypeOK
    <3>2. CASE ForgetTick(w)
      BY <3>2 DEF ForgetTick, TypeOK, ReconcilerTypeOK
    <3> QED BY <1>2, <3>1, <3>2 DEF Work, DbFault, Crash
  <2> QED BY <1>k, <2>1, <2>2, <2>3 DEF TypeOK
<1>3. CASE \/ \E w \in Processes : \/ Sweep(w) \/ Reconcile(w)
                                   \/ \E t \in TaskIds : ReapOrphan(w, t)
           \/ SweepAdmitted
           \/ \E t \in TaskIds : Exit(t)
  <2>1. /\ TableTypeOK' /\ RowsKept /\ RuntimeTypeOK'
        /\ SweeperTypeOK' /\ ReconcilerTypeOK'
    BY <1>3, BackgroundType
  <2>2. UNCHANGED <<restarts, workerVars>>
    BY <1>3 DEF Sweep, Reconcile, ReapOrphan, SweepAdmitted, Exit
  <2> QED BY <1>k, <2>1, <2>2 DEF TypeOK, workerVars, WorkerTypeOK
<1>4. CASE UNCHANGED vars
  <2>1. TableTypeOK' /\ RowsKept /\ RuntimeTypeOK'
    BY <1>4, StatementType, ContainerType DEF vars
  <2> QED BY <1>4, <1>k, <2>1 DEF vars, workerVars, sweeperVars, reconcilerVars, TypeOK,
          WorkerTypeOK, SweeperTypeOK, ReconcilerTypeOK
<1> QED BY <1>1, <1>2, <1>3, <1>4 DEF Next

\* Every variable keeps its type in every behaviour: no row is ever given a status,
\* and no process a step, that the code does not name.
THEOREM TypeCorrect == Spec => []TypeOK
<1> QED BY TypeInit, TypeStep, PTL DEF Spec

----------------------------------------------------------------------------
(* The steps of controllers, background loops and workloads. *)

\* What such a step may do to the rows and containers.
RowsAdvance ==
  \A t \in TaskIds :
    /\ status[t] # "none" => req'[t] = req[t]
    /\ status[t] = "none" => status'[t] \in {"none", "pending"}
    /\ status[t] \in {"pending", "processing"} => status'[t] = status[t]
    /\ status[t] \in Past => status'[t] \in Past
    /\ status[t] \in {"succeeded", "failed"} /\ ~IsStart(t) => status'[t] = status[t]
    /\ status[t] \in Terminal => status'[t] \in Terminal
    /\ runtimeRef'[t] => runtimeRef[t]
    /\ container'[t] # "none" => container[t] # "none" \/ Settled(t)

LEMMA AdvanceSettled ==
  ASSUME OwnInv, RowsAdvance, UNCHANGED workerVars
  PROVE  \A t \in TaskIds : /\ Settled(t) => Settled(t)'
                            /\ Finished(t) => Finished(t)'
<1> SUFFICES ASSUME NEW t \in TaskIds, Settled(t)
             PROVE  Settled(t)' /\ (status[t] \in Terminal => status'[t] \in Terminal)
  BY DEF Finished
<1>1. status[t] \in Past /\ status[t] # "none" /\ IsStart(t)
  BY DEF Settled, Past, SlotStatuses, Terminal
<1>2. status'[t] \in Past /\ IsStart(t)'
  BY <1>1 DEF RowsAdvance, IsStart
<1> QED BY <1>1, <1>2 DEF Settled, RowsAdvance, workerVars

LEMMA AdvanceHolds ==
  ASSUME OwnInv, RowsAdvance, UNCHANGED workerVars
  PROVE  ExclusiveClaim' /\ HoldsTask' /\ HoldsTarget' /\ ContainersFresh'
<1> USE DEF OwnInv
<1>0. /\ pc' = pc /\ cur' = cur /\ seenRef' = seenRef
      /\ \A w \in Workers : cur[w] \in TaskIds \cup {NoTask}
  BY DEF workerVars, TypeOK, WorkerTypeOK
<1>1. ExclusiveClaim'
  BY <1>0 DEF ExclusiveClaim
<1>2. ASSUME NEW w \in Workers, pc[w] # "idle"
      PROVE  /\ cur[w] \in TaskIds
             /\ status[cur[w]] # "none" => req'[cur[w]] = req[cur[w]]
  BY <1>0, <1>2 DEF HoldsTask, HoldsTaskOf, RowsAdvance
<1>3. HoldsTask'
  BY <1>0, <1>2 DEF HoldsTask, HoldsTaskOf, RowsAdvance, IsStart, Past, SlotStatuses, Terminal,
     Deciding, Starting, Stopping, Auditing
<1>4. ASSUME NEW w \in Workers, pc[w] \in {"stop", "mark"}
      PROVE  /\ Target(w)' = Target(w) /\ Target(w) \in TaskIds
             /\ status'[Target(w)] \in Past
             /\ IsStart(Target(w))'
  <2>1. req'[cur[w]] = req[cur[w]]
    BY <1>2, <1>4 DEF HoldsTask, HoldsTaskOf, Stopping, Auditing
  <2>2. Target(w)' = Target(w)
    BY <1>0, <2>1 DEF Target
  <2>3. Target(w) \in TaskIds /\ status[Target(w)] \in Past /\ IsStart(Target(w))
    BY <1>4 DEF HoldsTarget, HoldsTargetOf
  <2> QED BY <2>2, <2>3 DEF RowsAdvance, IsStart, Past, SlotStatuses, Terminal
<1>5. HoldsTarget'
  BY <1>0, <1>4, AdvanceSettled DEF HoldsTarget, HoldsTargetOf
<1>6. ContainersFresh'
  <2>1. ASSUME NEW t \in TaskIds, container'[t] # "none" PROVE status'[t] \in Past
    BY <2>1 DEF RowsAdvance, ContainersFresh, HasNoContainer, Settled
  <2>2. ASSUME NEW w \in Workers, pc[w] \in {"check", "create"}
        PROVE  container'[cur[w]] = "none"
    BY <1>2, <2>2 DEF RowsAdvance, ContainersFresh, HasNoContainer, Settled, Starting
  <2> QED BY <1>0, <2>1, <2>2 DEF ContainersFresh, HasNoContainer
<1> QED BY <1>1, <1>3, <1>5, <1>6

\* What the background loops remember after such a step was settled before it.
CopiesKnown ==
  \A w \in Processes :
    /\ \A t \in overdue'[w] \cup listed'[w] : t \in TaskIds /\ Settled(t)
    /\ sweepPc'[w] # "stop" => sweepItem'[w] \in TaskIds /\ Settled(sweepItem'[w])
    /\ verdict'[w] # NoVerdict =>
         verdict'[w].task \in TaskIds /\ Settled(verdict'[w].task)
    /\ \A t \in TaskIds : reap'[w][t] # "none" => Finished(t)

LEMMA AdvanceCopies ==
  ASSUME OwnInv, RowsAdvance, CopiesKnown, UNCHANGED workerVars
  PROVE  CopiesSettled'
<1>1. \A t \in TaskIds : runtimeRef'[t] => Settled(t)'
  BY AdvanceSettled DEF RowsAdvance, OwnInv, CopiesSettled
<1>2. ASSUME NEW w \in Processes
      PROVE  /\ \A t \in overdue'[w] \cup listed'[w] : Settled(t)'
             /\ sweepPc'[w] # "stop" =>
                  sweepItem'[w] \in TaskIds /\ Settled(sweepItem[w])'
             /\ verdict'[w] # NoVerdict => Settled(verdict[w].task)'
             /\ \A t \in TaskIds : reap'[w][t] # "none" => Finished(t)'
  BY AdvanceSettled DEF CopiesKnown, Settled
<1> QED BY <1>1, <1>2 DEF CopiesSettled

\* What OwnInv says of the memory of the background loops.
LEMMA CopiesNow ==
  ASSUME OwnInv, NEW w \in Processes
  PROVE  /\ \A t \in overdue[w] \cup listed[w] : t \in TaskIds /\ Settled(t)
         /\ sweepPc[w] # "stop" => sweepItem[w] \in TaskIds /\ Settled(sweepItem[w])
         /\ verdict[w] # NoVerdict =>
              /\ verdict[w].task \in TaskIds /\ Settled(verdict[w].task)
              /\ verdict[w].phase \in {"succeeded", "failed"}
         /\ \A t \in TaskIds : reap[w][t] # "none" => Finished(t)
BY DEF OwnInv, CopiesSettled, TypeOK, SweeperTypeOK, ReconcilerTypeOK, Verdict

\* Nothing but a settled row changes, and that only to a final status, and no
\* container but that of a settled row appears.
LEMMA SettledWrites ==
  ASSUME OwnInv
  PROVE  /\ \A t, s : t \in TaskIds /\ Settled(t) /\ s \in Terminal /\ UpdateStatus(t, s)
               /\ UNCHANGED container => RowsAdvance
         /\ \A t : ClearRuntimeRef(t) /\ UNCHANGED container => RowsAdvance
         /\ \A t, ref : Settled(t) /\ (StopOK(t, ref) \/ StopError(t, ref))
               /\ UNCHANGED tableVars => RowsAdvance
         /\ UNCHANGED <<tableVars, container>> => RowsAdvance
<1> USE DEF OwnInv, TypeOK, TableTypeOK, RuntimeTypeOK, RowsAdvance, tableVars
<1>1. ASSUME NEW t \in TaskIds, Settled(t), NEW s \in Terminal, UpdateStatus(t, s),
             UNCHANGED container
      PROVE  RowsAdvance
  BY <1>1 DEF UpdateStatus, Settled, Past, SlotStatuses, Terminal, IsStart
<1>2. ASSUME NEW t, ClearRuntimeRef(t), UNCHANGED container PROVE RowsAdvance
  BY <1>2 DEF ClearRuntimeRef
<1>3. ASSUME NEW t, NEW ref, Settled(t), StopOK(t, ref) \/ StopError(t, ref),
             UNCHANGED tableVars
      PROVE  RowsAdvance
  BY <1>3 DEF StopOK, StopError, SetContainer
<1>4. ASSUME UNCHANGED <<tableVars, container>> PROVE RowsAdvance
  BY <1>4
<1> QED BY <1>1, <1>2, <1>3, <1>4

LEMMA SweepOwn ==
  ASSUME OwnInv, NEW w \in Processes, Sweep(w)
  PROVE  RowsAdvance /\ CopiesKnown
<1> USE DEF Sweep
<1>0. sweepPc \in [Processes -> {"stop", "clear", "fail"}]
      /\ DOMAIN sweepItem = Processes /\ DOMAIN overdue = Processes
  BY DEF OwnInv, TypeOK, SweeperTypeOK
<1>1. CASE ListOverdue(w)
  <2>1. \A t \in RunningRowsWithRef : t \in TaskIds /\ Settled(t)
    BY DEF RunningRowsWithRef, OwnInv, CopiesSettled
  <2>2. CopiesKnown
    BY <1>0, <1>1, <2>1, CopiesNow DEF ListOverdue, CopiesKnown, reconcilerVars
  <2> QED BY <1>1, <2>2, SettledWrites DEF ListOverdue
<1>2. CASE SweepStop(w)
  <2>1. CopiesKnown
    BY <1>0, <1>2, CopiesNow DEF SweepStop, CopiesKnown, reconcilerVars
  <2> QED BY <1>2, <2>1, CopiesNow, SettledWrites DEF SweepStop
<1>3. CASE SweepClear(w)
  <2>1. CopiesKnown
    BY <1>0, <1>3, CopiesNow DEF SweepClear, CopiesKnown, reconcilerVars
  <2> QED BY <1>3, <2>1, SettledWrites DEF SweepClear
<1>4. CASE SweepFail(w)
  <2>1. CopiesKnown
    BY <1>0, <1>4, CopiesNow DEF SweepFail, CopiesKnown, reconcilerVars
  <2>2. sweepItem[w] \in TaskIds /\ Settled(sweepItem[w]) /\ "failed" \in Terminal
    BY <1>4, CopiesNow DEF SweepFail, Terminal
  <2> QED BY <1>4, <2>1, <2>2, SettledWrites DEF SweepFail
<1> QED BY <1>1, <1>2, <1>3, <1>4 DEF SweeperStep

LEMMA ReconcileOwn ==
  ASSUME OwnInv, NEW w \in Processes, Reconcile(w)
  PROVE  RowsAdvance /\ CopiesKnown
<1> USE DEF Reconcile
<1>0. /\ DOMAIN listed = Processes /\ DOMAIN verdict = Processes
      /\ DOMAIN reap = Processes
  BY DEF OwnInv, TypeOK, ReconcilerTypeOK
<1>1. CASE TickList(w)
  <2>1. \A t \in Listable : t \in TaskIds /\ Settled(t)
    BY DEF Listable, SlotRows, OwnInv, CopiesSettled
  <2>2. CopiesKnown
    BY <1>0, <1>1, <2>1, CopiesNow DEF TickList, CopiesKnown, sweeperVars
  <2> QED BY <1>1, <2>2, SettledWrites DEF TickList
<1>2. CASE TickInspect(w)
  <2>1. PICK t \in listed[w] :
          /\ listed' = [listed EXCEPT ![w] = @ \ {t}]
          /\ \/ \E phase : verdict' = [verdict EXCEPT ![w] = [task |-> t, phase |-> phase]]
             \/ UNCHANGED verdict
          /\ UNCHANGED reap
    BY <1>2 DEF TickInspect
  <2>2. t \in TaskIds /\ Settled(t)
    BY CopiesNow
  <2>3. verdict'[w] # verdict[w] => verdict'[w].task = t
    <3>1. ASSUME NEW phase, verdict' = [verdict EXCEPT ![w] = [task |-> t, phase |-> phase]]
          PROVE  verdict'[w].task = t
      BY <1>0, <3>1
    <3> QED BY <2>1, <3>1
  <2>4. \A v \in Processes : v # w => verdict'[v] = verdict[v] /\ listed'[v] = listed[v]
    BY <1>0, <2>1
  <2>5. CopiesKnown
    BY <1>0, <1>2, <2>1, <2>2, <2>3, <2>4, CopiesNow
    DEF CopiesKnown, sweeperVars
  <2> QED BY <1>2, <2>5, SettledWrites DEF TickInspect
<1>3. CASE TickUpdate(w)
  <2>1. CopiesKnown
    BY <1>0, <1>3, CopiesNow DEF TickUpdate, CopiesKnown, sweeperVars
  <2>2. /\ verdict[w].task \in TaskIds /\ Settled(verdict[w].task)
        /\ verdict[w].phase \in Terminal
    BY <1>3, CopiesNow DEF TickUpdate, Terminal
  <2> QED BY <1>3, <2>1, <2>2, SettledWrites DEF TickUpdate
<1>4. CASE ReapList(w)
  <2>1. \A t \in TerminalDockerRowsWithRef : Finished(t)
    BY DEF TerminalDockerRowsWithRef, Finished, OwnInv, CopiesSettled
  <2>2. CopiesKnown
    BY <1>0, <1>4, <2>1, CopiesNow DEF ReapList, CopiesKnown, sweeperVars
  <2> QED BY <1>4, <2>2, SettledWrites DEF ReapList
<1> QED BY <1>1, <1>2, <1>3, <1>4 DEF Tick

LEMMA ReapOwn ==
  ASSUME OwnInv, NEW w \in Processes, NEW t \in TaskIds, ReapOrphan(w, t)
  PROVE  RowsAdvance /\ CopiesKnown
<1> USE DEF ReapOrphan
<1>1. ReapLook(w, t) \/ ReapStop(w, t) \/ ReapClear(w, t)
  BY DEF Reap
<1>2. Finished(t)
  BY <1>1, CopiesNow DEF ReapLook, ReapStop, ReapClear
<1>3. CopiesKnown
  <2>1. \E step : GotoReap(w, t, step)
    BY <1>1 DEF ReapLook, ReapStop, ReapClear
  <2>2. \A v \in Processes, u \in TaskIds : reap'[v][u] # "none" => Finished(u)
    BY <1>2, <2>1, CopiesNow DEF GotoReap, OwnInv, TypeOK, ReconcilerTypeOK
  <2> QED BY <1>1, <2>2, CopiesNow
          DEF ReapLook, ReapStop, ReapClear, CopiesKnown, sweeperVars
<1>4. RowsAdvance
  BY <1>1, <1>2, SettledWrites DEF ReapLook, ReapStop, ReapClear, Finished
<1> QED BY <1>3, <1>4

LEMMA ControlOwn ==
  ASSUME OwnInv, Control
  PROVE  RowsAdvance /\ CopiesKnown
<1> USE DEF Control
<1>1. CopiesKnown
  BY CopiesNow DEF CopiesKnown, sweeperVars, reconcilerVars
<1>2. (\E t \in TaskIds : \E r : Create(t, r)) \/ UNCHANGED tableVars
  BY DEF ControllerStep, Enqueue, EnqueueStopForTarget, RestartFinished, RestartLive,
     RestartSubmit, RestartAbandon
<1>3. ASSUME NEW t \in TaskIds, NEW r, Create(t, r) PROVE RowsAdvance
  BY <1>3 DEF OwnInv, TypeOK, TableTypeOK, Create, RowsAdvance, Past, SlotStatuses, Terminal
<1>4. RowsAdvance
  BY <1>2, <1>3, SettledWrites
<1> QED BY <1>1, <1>4

LEMMA SweepAdmittedOwn ==
  ASSUME OwnInv, SweepAdmitted
  PROVE  RowsAdvance /\ CopiesKnown
<1>1. CopiesKnown
  BY CopiesNow DEF SweepAdmitted, AdmittedSweep, CopiesKnown, sweeperVars, reconcilerVars
<1>2. PICK stuck : RevertAdmittedStuck(stuck) /\ UNCHANGED container
  BY DEF SweepAdmitted, AdmittedSweep
<1>3. RowsAdvance
  BY <1>2 DEF RevertAdmittedStuck, RowsAdvance, Past, SlotStatuses, Terminal
<1> QED BY <1>1, <1>3

LEMMA ExitOwn ==
  ASSUME OwnInv, NEW t \in TaskIds, Exit(t)
  PROVE  RowsAdvance /\ CopiesKnown
<1>1. CopiesKnown
  BY CopiesNow DEF Exit, CopiesKnown, sweeperVars, reconcilerVars
<1>2. RowsAdvance
  BY DEF Exit, ContainerExit, SetContainer, RowsAdvance, tableVars, OwnInv, TypeOK,
     RuntimeTypeOK
<1> QED BY <1>1, <1>2

----------------------------------------------------------------------------
(* The steps of a worker. *)

\* What a step of w may do: to others' memory nothing, to the row it holds what
\* its step allows, to the other rows only what a background loop may.
MemoryEffect(w) ==
  /\ \A v \in Workers \ {w} : pc'[v] = pc[v] /\ cur'[v] = cur[v] /\ seenRef'[v] = seenRef[v]
  /\ cur'[w] \in {cur[w], NoTask} \/ \A v \in Workers : cur[v] # cur'[w]
  /\ pc'[w] \in Starting => /\ cur'[w] = cur[w]
                            /\ pc[w] \in Starting \/ status[cur[w]] \notin Past

RowsEffect(w) ==
  /\ req' = req
  /\ \A t \in TaskIds :
       /\ t # cur[w] /\ status[t] \notin Past => status'[t] = status[t]
       /\ t # cur[w] /\ ~IsStart(t) => status'[t] = status[t]
       /\ status[t] \in Past => status'[t] \in Past
       /\ Finished(t) => status'[t] \in Terminal
       /\ runtimeRef'[t] => \/ runtimeRef[t]
                            \/ /\ t = cur[w] /\ pc[w] = "record"
                               /\ pc'[w] = "idle" /\ status'[t] \in Past

ContainersEffect(w) ==
  \A t \in TaskIds :
    container'[t] # "none" => \/ container[t] # "none"
                              \/ Settled(t)
                              \/ t = cur[w] /\ (pc[w] = "create" \/ pc[w] = "start")

WorkerEffect(w) == MemoryEffect(w) /\ RowsEffect(w) /\ ContainersEffect(w)

LEMMA EffectSettled ==
  ASSUME OwnInv, NEW w \in Workers, WorkerEffect(w)
  PROVE  \A t \in TaskIds : /\ Settled(t) => Settled(t)'
                            /\ Finished(t) => Finished(t)'
<1>1. ASSUME NEW t \in TaskIds, Settled(t) PROVE Settled(t)'
  <2>1. status'[t] \in Past /\ IsStart(t)'
    BY <1>1 DEF WorkerEffect, MemoryEffect, RowsEffect, ContainersEffect, Settled, IsStart
  <2>2. ASSUME NEW v \in Workers, cur'[v] = t, pc'[v] \in Starting PROVE FALSE
    BY <1>1, <2>2 DEF WorkerEffect, MemoryEffect, RowsEffect, ContainersEffect, Settled
  <2> QED BY <2>1, <2>2 DEF Settled
<1> QED BY <1>1 DEF WorkerEffect, MemoryEffect, RowsEffect, ContainersEffect, Finished

\* The parts of OwnInv that are not about w itself.
LEMMA EffectOthers ==
  ASSUME OwnInv, NEW w \in Workers, WorkerEffect(w)
  PROVE  /\ ExclusiveClaim'
         /\ \A v \in Workers \ {w} :
              /\ pc[v] # "idle" =>
                   /\ cur[v] \in TaskIds \ {cur[w]}
                   /\ pc[v] \notin Starting => status'[cur[v]] = status[cur[v]]
                   /\ pc[v] \in Starting => status'[cur[v]] \in Past
              /\ pc[v] \in {"stop", "mark"} =>
                   /\ Target(v)' = Target(v) /\ Target(v) \in TaskIds
                   /\ status'[Target(v)] \in Past /\ IsStart(Target(v))
<1> USE DEF OwnInv
<1>0. \A v \in Workers : cur[v] \in TaskIds \cup {NoTask}
  BY DEF TypeOK, WorkerTypeOK
<1>1. ExclusiveClaim'
  BY <1>0 DEF WorkerEffect, MemoryEffect, RowsEffect, ContainersEffect, ExclusiveClaim
<1>2. ASSUME NEW v \in Workers \ {w}, pc[v] # "idle"
      PROVE  /\ cur[v] \in TaskIds \ {cur[w]}
             /\ pc[v] \notin Starting => status'[cur[v]] = status[cur[v]]
             /\ pc[v] \in Starting => status'[cur[v]] \in Past
  <2>1. cur[v] \in TaskIds \ {cur[w]}
    BY <1>0, <1>2 DEF HoldsTask, HoldsTaskOf, ExclusiveClaim
  <2>2. CASE pc[v] \in Starting
    BY <2>1, <2>2 DEF HoldsTask, HoldsTaskOf, WorkerEffect, MemoryEffect, RowsEffect, ContainersEffect
  <2>3. CASE pc[v] \in {"claim"} \cup Deciding
    BY <2>1, <2>3 DEF HoldsTask, HoldsTaskOf, WorkerEffect, MemoryEffect, RowsEffect, ContainersEffect, Past, SlotStatuses, Terminal, Deciding, Starting
  <2>4. CASE pc[v] \in Stopping
    BY <2>1, <2>4 DEF HoldsTask, HoldsTaskOf, WorkerEffect, MemoryEffect, RowsEffect, ContainersEffect, Stopping, Auditing, Starting
  <2> QED BY <1>2, <2>1, <2>2, <2>3, <2>4 DEF TypeOK, WorkerTypeOK
<1>3. ASSUME NEW v \in Workers \ {w}, pc[v] \in {"stop", "mark"}
      PROVE  /\ Target(v)' = Target(v) /\ Target(v) \in TaskIds
             /\ status'[Target(v)] \in Past /\ IsStart(Target(v))
  BY <1>3 DEF HoldsTarget, HoldsTargetOf, WorkerEffect, MemoryEffect, RowsEffect, ContainersEffect, Target
<1> QED BY <1>1, <1>2, <1>3

LEMMA EffectOwn ==
  ASSUME OwnInv, NEW w \in Workers, WorkerEffect(w), CopiesKnown,
         HoldsTaskOf(w)', HoldsTargetOf(w)', HasNoContainer(w)'
  PROVE  ExclusiveClaim' /\ HoldsTask' /\ HoldsTarget' /\ CopiesSettled' /\ ContainersFresh'
<1>1. ASSUME NEW v \in Workers \ {w}
      PROVE  /\ pc'[v] = pc[v] /\ cur'[v] = cur[v] /\ seenRef'[v] = seenRef[v]
             /\ HoldsTaskOf(v) /\ HoldsTargetOf(v) /\ HasNoContainer(v)
  BY DEF WorkerEffect, MemoryEffect, RowsEffect, ContainersEffect, OwnInv, HoldsTask, HoldsTarget, ContainersFresh
<1>2. HoldsTask'
  <2>1. ASSUME NEW v \in Workers \ {w} PROVE HoldsTaskOf(v)'
    <3>1. CASE pc[v] = "idle"
      BY <1>1, <3>1 DEF HoldsTaskOf, Deciding, Starting, Stopping, Auditing
    <3>2. CASE pc[v] # "idle"
      <4>1. /\ cur[v] \in TaskIds
            /\ pc[v] \notin Starting => status'[cur[v]] = status[cur[v]]
            /\ pc[v] \in Starting => status'[cur[v]] \in Past
            /\ req' = req
        BY <3>2, EffectOthers DEF WorkerEffect, MemoryEffect, RowsEffect, ContainersEffect
      <4> QED BY <1>1, <3>2, <4>1 DEF HoldsTaskOf, IsStart, Deciding, Starting, Stopping, Auditing
    <3> QED BY <3>1, <3>2
  <2> QED BY <2>1 DEF HoldsTask
<1>3. HoldsTarget'
  <2>1. ASSUME NEW v \in Workers \ {w} PROVE HoldsTargetOf(v)'
    <3>1. CASE pc[v] \in {"stop", "mark"}
      <4>1. /\ Target(v)' = Target(v) /\ Target(v) \in TaskIds
            /\ status'[Target(v)] \in Past /\ IsStart(Target(v))'
        BY <3>1, EffectOthers DEF WorkerEffect, MemoryEffect, RowsEffect, ContainersEffect, IsStart
      <4>2. pc[v] = "stop" /\ seenRef[v] => Settled(Target(v))'
        BY <1>1, <4>1, EffectSettled DEF HoldsTargetOf, Settled
      <4> QED BY <1>1, <3>1, <4>1, <4>2 DEF HoldsTargetOf
    <3>2. CASE pc[v] \notin {"stop", "mark"}
      BY <1>1, <3>2 DEF HoldsTargetOf
    <3> QED BY <3>1, <3>2
  <2> QED BY <2>1 DEF HoldsTarget
<1>4. CopiesSettled'
  <2>1. ASSUME NEW t \in TaskIds, runtimeRef'[t] PROVE Settled(t)'
    <3>1. CASE runtimeRef[t]
      BY <3>1, EffectSettled DEF OwnInv, CopiesSettled
    <3>2. CASE t = cur[w] /\ pc[w] = "record" /\ pc'[w] = "idle" /\ status'[t] \in Past
      <4>1. IsStart(t)'
        BY <3>2 DEF OwnInv, HoldsTask, HoldsTaskOf, Starting, WorkerEffect, MemoryEffect, RowsEffect, ContainersEffect, IsStart
      <4>2. ASSUME NEW v \in Workers, cur'[v] = t, pc'[v] \in Starting PROVE FALSE
        <5>1. v # w
          BY <3>2, <4>2 DEF Starting
        <5>2. cur[v] = cur[w] /\ cur[v] # NoTask
          BY <1>1, <3>2, <4>2, <5>1, TaskAssumption DEF NoTask
        <5> QED BY <5>1, <5>2 DEF OwnInv, ExclusiveClaim
      <4> QED BY <3>2, <4>1, <4>2 DEF Settled
    <3> QED BY <2>1, <3>1, <3>2 DEF WorkerEffect, MemoryEffect, RowsEffect, ContainersEffect
  <2>2. ASSUME NEW v \in Processes
        PROVE  /\ \A t \in overdue'[v] \cup listed'[v] : Settled(t)'
               /\ sweepPc'[v] # "stop" =>
                    sweepItem'[v] \in TaskIds /\ Settled(sweepItem[v])'
               /\ verdict'[v] # NoVerdict => Settled(verdict[v].task)'
               /\ \A t \in TaskIds : reap'[v][t] # "none" => Finished(t)'
    BY EffectSettled DEF CopiesKnown, Settled
  <2> QED BY <2>1, <2>2 DEF CopiesSettled
<1>5. ContainersFresh'
  <2>1. ASSUME NEW t \in TaskIds, container'[t] # "none" PROVE status'[t] \in Past
    <3>1. status[t] \in Past
      BY <2>1 DEF WorkerEffect, MemoryEffect, RowsEffect, ContainersEffect, OwnInv, ContainersFresh, Settled, HoldsTask, HoldsTaskOf,
         Starting
    <3> QED BY <3>1 DEF WorkerEffect, MemoryEffect, RowsEffect, ContainersEffect
  <2>2. ASSUME NEW v \in Workers \ {w} PROVE HasNoContainer(v)'
    <3>1. SUFFICES ASSUME pc[v] \in {"check", "create"} PROVE container'[cur[v]] = "none"
      BY <1>1 DEF HasNoContainer
    <3>2. cur[v] \in TaskIds \ {cur[w]} /\ ~Settled(cur[v])
      BY <3>1, EffectOthers DEF Settled, Starting
    <3> QED BY <1>1, <3>1, <3>2 DEF HasNoContainer, WorkerEffect, MemoryEffect, RowsEffect, ContainersEffect
  <2> QED BY <2>1, <2>2 DEF ContainersFresh
<1> QED BY <1>2, <1>3, <1>4, <1>5, EffectOthers

\* The four things EffectOwn asks of a step of w.
StepOwn(w) == WorkerEffect(w) /\ HoldsTaskOf(w)' /\ HoldsTargetOf(w)' /\ HasNoContainer(w)'

\* What OwnInv says of w and the row it holds.
LEMMA WorkerNow ==
  ASSUME OwnInv, NEW w \in Workers
  PROVE  /\ HoldsTaskOf(w) /\ HoldsTargetOf(w) /\ HasNoContainer(w)
         /\ DOMAIN pc = Workers /\ DOMAIN cur = Workers /\ DOMAIN seenRef = Workers
         /\ DOMAIN status = TaskIds /\ DOMAIN runtimeRef = TaskIds
         /\ DOMAIN container = TaskIds
         /\ NoTask \notin TaskIds
         /\ cur[w] \in TaskIds \cup {NoTask}
         /\ pc[w] # "idle" => cur[w] \in TaskIds
         /\ \A t \in TaskIds : status[t] \in Status
BY TaskAssumption
DEF OwnInv, HoldsTask, HoldsTaskOf, HoldsTarget, ContainersFresh, TypeOK, TableTypeOK,
    WorkerTypeOK, RuntimeTypeOK, NoTask

\* A step that changes neither rows nor containers.
LEMMA NoRowsEffect ==
  ASSUME NEW w \in Workers, UNCHANGED <<tableVars, container>>
  PROVE  RowsEffect(w) /\ ContainersEffect(w)
BY DEF RowsEffect, ContainersEffect, tableVars, Finished

\* It ends in a step the row of w is fit for.
LEMMA ReadOnlyOwn ==
  ASSUME OwnInv, NEW w \in Workers, NEW step, Goto(w, step), UNCHANGED <<cur, seenRef>>,
         UNCHANGED <<tableVars, container>>,
         \/ pc[w] \in Deciding /\ step \in Deciding
         \/ pc[w] \in Starting /\ step \in Starting \ {"check", "create"}
         \/ pc[w] = "check" /\ step = "create"
         \/ pc[w] \in Stopping \ Auditing /\ step \in {"failstop", "auditfail"}
  PROVE  StepOwn(w)
<1>1. MemoryEffect(w)
  BY WorkerNow DEF Goto, MemoryEffect, Deciding, Starting, Stopping, Auditing
<1>2. HoldsTaskOf(w)'
  BY WorkerNow DEF Goto, tableVars, HoldsTaskOf, IsStart, Deciding, Starting, Stopping, Auditing
<1>3. HoldsTargetOf(w)' /\ HasNoContainer(w)'
  BY WorkerNow DEF Goto, HoldsTargetOf, HasNoContainer, Deciding, Starting, Stopping, Auditing
<1> QED BY <1>1, <1>2, <1>3, NoRowsEffect DEF StepOwn, WorkerEffect

LEMMA ReturnMemory ==
  ASSUME OwnInv, NEW w \in Workers, Return(w)
  PROVE  /\ MemoryEffect(w) /\ pc'[w] = "idle"
         /\ HoldsTaskOf(w)' /\ HoldsTargetOf(w)' /\ HasNoContainer(w)'
BY WorkerNow
DEF Return, Goto, MemoryEffect, HoldsTaskOf, HoldsTargetOf, HasNoContainer, Deciding,
    Starting, Stopping, Auditing

LEMMA ReturnOwn ==
  ASSUME OwnInv, NEW w \in Workers, Return(w), UNCHANGED <<tableVars, container>>
  PROVE  StepOwn(w)
BY ReturnMemory, NoRowsEffect DEF StepOwn, WorkerEffect

\* A statement on the row w holds, and a provider call for it.
LEMMA HeldRowEffect ==
  ASSUME OwnInv, NEW w \in Workers, pc[w] # "idle"
  PROVE  /\ \A s : /\ UpdateStatus(cur[w], s) /\ UNCHANGED container
                   /\ status[cur[w]] \in Past => s \in Past
                   /\ Finished(cur[w]) => s \in Terminal
                   => RowsEffect(w) /\ ContainersEffect(w)
         /\ \A s : /\ SetContainer(cur[w], s) /\ UNCHANGED tableVars
                   /\ pc[w] \in {"create", "start"}
                   => RowsEffect(w) /\ ContainersEffect(w)
<1>1. ASSUME NEW s, UpdateStatus(cur[w], s), UNCHANGED container,
             status[cur[w]] \in Past => s \in Past,
             Finished(cur[w]) => s \in Terminal
      PROVE  RowsEffect(w) /\ ContainersEffect(w)
  BY <1>1, WorkerNow DEF UpdateStatus, Finished, RowsEffect, ContainersEffect
<1>2. ASSUME NEW s, SetContainer(cur[w], s), UNCHANGED tableVars,
             pc[w] \in {"create", "start"}
      PROVE  RowsEffect(w) /\ ContainersEffect(w)
  <2>1. RowsEffect(w)
    BY <1>2 DEF RowsEffect, tableVars, Finished
  <2>2. ContainersEffect(w)
    BY <1>2, WorkerNow DEF SetContainer, ContainersEffect
  <2> QED BY <2>1, <2>2
<1> QED BY <1>1, <1>2

LEMMA ClaimOwn ==
  ASSUME OwnInv, NEW w \in Workers, ClaimLock(w) \/ ClaimCommit(w)
  PROVE  StepOwn(w)
<1>1. CASE ClaimLock(w)
  <2>1. PICK t \in TaskIds : /\ status[t] = "pending" /\ cur' = [cur EXCEPT ![w] = t]
                            /\ ~ \E v \in Workers : pc[v] = "claim" /\ cur[v] = t
    BY <1>1 DEF ClaimLock, Claimable
  <2>2. ASSUME NEW v \in Workers PROVE cur[v] # t
    BY <2>1, WorkerNow
    DEF HoldsTaskOf, OwnInv, TypeOK, WorkerTypeOK, Past, SlotStatuses, Terminal,
        Deciding, Starting, Stopping, Auditing
  <2>3. MemoryEffect(w)
    BY <1>1, <2>1, <2>2, WorkerNow DEF ClaimLock, Goto, MemoryEffect, Starting
  <2>4. HoldsTaskOf(w)' /\ HoldsTargetOf(w)' /\ HasNoContainer(w)'
    BY <1>1, <2>1, WorkerNow
    DEF ClaimLock, Goto, tableVars, HoldsTaskOf, HoldsTargetOf, HasNoContainer,
        Deciding, Starting, Stopping, Auditing
  <2> QED BY <1>1, <2>3, <2>4, NoRowsEffect DEF ClaimLock, StepOwn, WorkerEffect
<1>2. CASE ClaimCommit(w)
  <2>1. RowsEffect(w) /\ ContainersEffect(w)
    BY <1>2, HeldRowEffect
    DEF ClaimCommit, TrySetStatus, Finished, Past, SlotStatuses, Terminal
  <2>2. MemoryEffect(w)
    BY <1>2, WorkerNow DEF ClaimCommit, Goto, Keep, MemoryEffect, Starting
  <2>3. HoldsTaskOf(w)' /\ HoldsTargetOf(w)' /\ HasNoContainer(w)'
    BY <1>2, WorkerNow
    DEF ClaimCommit, TrySetStatus, UpdateStatus, Goto, Keep, IsStart, HoldsTaskOf,
        HoldsTargetOf, HasNoContainer, Deciding, Starting, Stopping, Auditing
  <2> QED BY <2>1, <2>2, <2>3 DEF StepOwn, WorkerEffect
<1> QED BY <1>1, <1>2

LEMMA DecideOwn ==
  ASSUME OwnInv, NEW w \in Workers,
         \/ CountTotal(w) \/ ApplyPolicy(w) \/ CheckGPU(w) \/ CommitAdmission(w)
         \/ ResetToPending(w)
  PROVE  StepOwn(w)
<1>1. CASE CountTotal(w) \/ ApplyPolicy(w) \/ CheckGPU(w)
  BY <1>1, ReadOnlyOwn DEF CountTotal, ApplyPolicy, CheckGPU, Keep, Deciding
<1>2. CASE CommitAdmission(w)
  <2>1. RowsEffect(w) /\ ContainersEffect(w)
    BY <1>2, HeldRowEffect
    DEF CommitAdmission, TrySetStatus, Finished, Past, SlotStatuses, Terminal
  <2>2. MemoryEffect(w)
    BY <1>2, WorkerNow
    DEF CommitAdmission, TrySetStatus, Goto, Keep, MemoryEffect, Past, SlotStatuses, Terminal
  <2>3. container[cur[w]] = "none"
    BY <1>2, WorkerNow
    DEF CommitAdmission, TrySetStatus, OwnInv, ContainersFresh, Past, SlotStatuses, Terminal
  <2>4. HoldsTaskOf(w)' /\ HoldsTargetOf(w)' /\ HasNoContainer(w)'
    BY <1>2, <2>3, WorkerNow
    DEF CommitAdmission, TrySetStatus, UpdateStatus, Goto, Keep, IsStart, HoldsTaskOf,
        HoldsTargetOf, HasNoContainer, Past, SlotStatuses, Deciding, Starting, Stopping, Auditing
  <2> QED BY <2>1, <2>2, <2>4 DEF StepOwn, WorkerEffect
<1>3. CASE ResetToPending(w)
  <2>1. RowsEffect(w) /\ ContainersEffect(w)
    BY <1>3, HeldRowEffect
    DEF ResetToPending, TrySetStatus, Finished, Past, SlotStatuses, Terminal
  <2> QED BY <1>3, <2>1, ReturnMemory DEF ResetToPending, StepOwn, WorkerEffect
<1> QED BY <1>1, <1>2, <1>3

LEMMA LaunchOwn ==
  ASSUME OwnInv, NEW w \in Workers,
         \/ ResourceCheck(w) \/ CreateContainer(w) \/ StartContainer(w)
         \/ RecordRunning(w) \/ FailStart(w)
  PROVE  StepOwn(w)
<1>1. ASSUME NEW s, NEW step \in {"start", "record", "fail"}, pc[w] \in {"create", "start"},
             SetContainer(cur[w], s), UNCHANGED tableVars, Goto(w, step), Keep(w)
      PROVE  StepOwn(w)
  <2>1. RowsEffect(w) /\ ContainersEffect(w)
    BY <1>1, HeldRowEffect
  <2>2. MemoryEffect(w)
    BY <1>1, WorkerNow DEF Goto, Keep, MemoryEffect, Starting
  <2>3. HoldsTaskOf(w)' /\ HoldsTargetOf(w)' /\ HasNoContainer(w)'
    BY <1>1, WorkerNow
    DEF Goto, Keep, tableVars, IsStart, HoldsTaskOf, HoldsTargetOf, HasNoContainer,
        Deciding, Starting, Stopping, Auditing
  <2> QED BY <2>1, <2>2, <2>3 DEF StepOwn, WorkerEffect
<1>2. CASE ResourceCheck(w)
  BY <1>2, ReadOnlyOwn DEF ResourceCheck, Keep, Starting
<1>3. CASE CreateContainer(w)
  <2>1. CASE SetContainer(cur[w], "created") /\ (Goto(w, "start") \/ Goto(w, "fail"))
    BY <1>1, <1>3, <2>1 DEF CreateContainer
  <2>2. CASE UNCHANGED container /\ (Goto(w, "record") \/ Goto(w, "fail"))
    BY <1>3, <2>2, ReadOnlyOwn DEF CreateContainer, Keep, Starting
  <2> QED BY <1>3, <2>1, <2>2 DEF CreateContainer
<1>4. CASE StartContainer(w)
  BY <1>1, <1>4 DEF StartContainer
<1>5. CASE RecordRunning(w)
  <2>1. pc[w] = "record" /\ pc'[w] = "idle"
    BY <1>5, ReturnMemory DEF RecordRunning
  <2>2. cur[w] \in TaskIds /\ status[cur[w]] \in Past /\ ~Finished(cur[w])
    BY <2>1, WorkerNow DEF HoldsTaskOf, Starting, Finished, Settled
  <2>3. RowsEffect(w) /\ ContainersEffect(w)
    BY <1>5, <2>1, <2>2, WorkerNow
    DEF RecordRunning, UpdateRuntime, RowsEffect, ContainersEffect, Past, SlotStatuses,
        Finished
  <2> QED BY <1>5, <2>3, ReturnMemory DEF RecordRunning, StepOwn, WorkerEffect
<1>6. CASE FailStart(w)
  <2>1. RowsEffect(w) /\ ContainersEffect(w)
    BY <1>6, HeldRowEffect DEF FailStart, Past, Terminal
  <2> QED BY <1>6, <2>1, ReturnMemory DEF FailStart, StepOwn, WorkerEffect
<1> QED BY <1>2, <1>3, <1>4, <1>5, <1>6

LEMMA StopOwn ==
  ASSUME OwnInv, NEW w \in Workers,
         \/ ReadTarget(w) \/ StopTarget(w) \/ MarkStopped(w) \/ FinishStop(w)
         \/ FailStop(w) \/ WriteStopRecord(w)
  PROVE  StepOwn(w)
<1>1. CASE ReadTarget(w)
  <2>1. CASE Stoppable(w)
    <3>1. MemoryEffect(w)
      BY <1>1, <2>1, WorkerNow DEF ReadTarget, Goto, MemoryEffect, Starting
    <3>2. Target(w) \in TaskIds /\ status[Target(w)] \in Past /\ IsStart(Target(w))
      BY <2>1 DEF Stoppable, SlotRows, Past
    <3>3. runtimeRef[Target(w)] => Settled(Target(w))
      BY <3>2 DEF OwnInv, CopiesSettled
    <3>4. /\ pc' = [pc EXCEPT ![w] = "stop"] /\ pc[w] = "target"
          /\ seenRef'[w] = runtimeRef[Target(w)]
          /\ cur' = cur /\ status' = status /\ req' = req
      BY <1>1, <2>1, WorkerNow DEF ReadTarget, Goto, tableVars
    <3>5. HoldsTaskOf(w)' /\ HasNoContainer(w)'
      BY <3>4, WorkerNow
      DEF IsStart, HoldsTaskOf, HasNoContainer, Deciding, Starting, Stopping, Auditing
    <3>6. Settled(Target(w)) => Settled(Target(w))'
      BY <3>4, WorkerNow DEF Settled, Target, IsStart, Starting
    <3>7. HoldsTargetOf(w)'
      BY <3>2, <3>3, <3>4, <3>6, WorkerNow DEF HoldsTargetOf, Target, IsStart
    <3> QED BY <1>1, <3>1, <3>5, <3>7, NoRowsEffect DEF ReadTarget, StepOwn, WorkerEffect
  <2>2. CASE ~Stoppable(w)
    BY <1>1, <2>2, ReadOnlyOwn DEF ReadTarget, Stopping, Auditing
  <2> QED BY <2>1, <2>2
<1>2. CASE StopTarget(w)
  <2>1. pc[w] = "stop" /\ Target(w) \in TaskIds /\ (seenRef[w] => Settled(Target(w)))
    BY <1>2, WorkerNow DEF StopTarget, HoldsTargetOf
  <2>2. RowsEffect(w)
    BY <1>2 DEF StopTarget, RowsEffect, tableVars, Finished
  <2>3. ContainersEffect(w)
    BY <1>2, <2>1, WorkerNow DEF StopTarget, StopOK, StopError, SetContainer, ContainersEffect
  <2>4. MemoryEffect(w)
    BY <1>2, WorkerNow DEF StopTarget, Goto, Keep, MemoryEffect, Starting
  <2>5. HoldsTaskOf(w)' /\ HoldsTargetOf(w)' /\ HasNoContainer(w)'
    BY <1>2, <2>1, WorkerNow
    DEF StopTarget, Goto, Keep, tableVars, IsStart, Target, HoldsTaskOf, HoldsTargetOf,
        HasNoContainer, Deciding, Starting, Stopping, Auditing
  <2> QED BY <2>2, <2>3, <2>4, <2>5 DEF StepOwn, WorkerEffect
<1>3. CASE MarkStopped(w)
  <2>1. /\ Target(w) \in TaskIds /\ status[Target(w)] \in Past /\ IsStart(Target(w))
        /\ ~IsStart(cur[w])
    BY <1>3, WorkerNow DEF MarkStopped, HoldsTaskOf, HoldsTargetOf, Stopping, Auditing
  <2>2. RowsEffect(w) /\ ContainersEffect(w)
    BY <1>3, <2>1, WorkerNow
    DEF MarkStopped, UpdateStatus, RowsEffect, ContainersEffect, Past, Terminal, Finished
  <2>3. MemoryEffect(w)
    BY <1>3, WorkerNow DEF MarkStopped, Goto, Keep, MemoryEffect, Starting
  <2>4. HoldsTaskOf(w)' /\ HoldsTargetOf(w)' /\ HasNoContainer(w)'
    BY <1>3, <2>1, WorkerNow
    DEF MarkStopped, UpdateStatus, Goto, Keep, IsStart, HoldsTaskOf, HoldsTargetOf,
        HasNoContainer, Deciding, Starting, Stopping, Auditing
  <2> QED BY <2>2, <2>3, <2>4 DEF StepOwn, WorkerEffect
<1>4. CASE FinishStop(w) \/ FailStop(w)
  <2>1. PICK s \in {"succeeded", "failed"} :
          /\ pc[w] \in {"finish", "failstop"} /\ UpdateStatus(cur[w], s)
          /\ Goto(w, IF s = "succeeded" THEN "audit" ELSE "auditfail")
          /\ Keep(w) /\ UNCHANGED container
    BY <1>4 DEF FinishStop, FailStop
  <2>2. RowsEffect(w) /\ ContainersEffect(w)
    BY <2>1, HeldRowEffect DEF Past, Terminal
  <2>3. MemoryEffect(w)
    BY <2>1, WorkerNow DEF Goto, Keep, MemoryEffect, Starting
  <2>4. HoldsTaskOf(w)' /\ HoldsTargetOf(w)' /\ HasNoContainer(w)'
    BY <2>1, WorkerNow
    DEF UpdateStatus, Goto, Keep, IsStart, HoldsTaskOf, HoldsTargetOf, HasNoContainer,
        Deciding, Starting, Stopping, Auditing
  <2> QED BY <2>2, <2>3, <2>4 DEF StepOwn, WorkerEffect
<1>5. CASE WriteStopRecord(w)
  <2>1. RowsEffect(w) /\ ContainersEffect(w)
    BY <1>5 DEF WriteStopRecord, CreateStopRecord, RowsEffect, ContainersEffect, Finished
  <2> QED BY <1>5, <2>1, ReturnMemory DEF WriteStopRecord, StepOwn, WorkerEffect
<1> QED BY <1>1, <1>2, <1>3, <1>4, <1>5

LEMMA FaultOwn ==
  ASSUME OwnInv, NEW w \in Workers, DbError(w) \/ CrashWorker(w)
  PROVE  StepOwn(w)
<1>1. CASE Return(w) /\ ~AnswerLost(w)
  BY <1>1, ReturnOwn DEF DbError, StatementFails, CrashWorker
<1>2. CASE ~Return(w) /\ ~AnswerLost(w)
  <2>1. \/ pc[w] \in {"target", "mark"} /\ Goto(w, "failstop")
        \/ pc[w] = "failstop" /\ Goto(w, "auditfail")
    BY <1>2 DEF DbError, StatementFails, CrashWorker
  <2> QED BY <1>2, <2>1, ReadOnlyOwn
          DEF DbError, StatementFails, CrashWorker, Keep, Stopping, Auditing
<1>3. CASE AnswerLost(w) /\ pc[w] # "mark"
  <2>1. PICK s \in {"processing", "admitted", "succeeded"} :
          /\ UpdateStatus(cur[w], s) /\ UNCHANGED container
          /\ status[cur[w]] \in {"pending", "processing"}
    BY <1>3, WorkerNow DEF AnswerLost, TrySetStatus, HoldsTaskOf, Stopping, Auditing
  <2>2. RowsEffect(w) /\ ContainersEffect(w)
    BY <1>3, <2>1, HeldRowEffect
    DEF AnswerLost, Finished, Past, SlotStatuses, Terminal
  <2> QED BY <1>3, <2>2, ReturnMemory DEF AnswerLost, StepOwn, WorkerEffect
<1>4. CASE AnswerLost(w) /\ pc[w] = "mark"
  <2>1. /\ Target(w) \in TaskIds /\ status[Target(w)] \in Past /\ IsStart(Target(w))
        /\ ~IsStart(cur[w])
    BY <1>4, WorkerNow DEF HoldsTaskOf, HoldsTargetOf, Stopping, Auditing
  <2>2. RowsEffect(w) /\ ContainersEffect(w)
    BY <1>4, <2>1, WorkerNow
    DEF AnswerLost, UpdateStatus, RowsEffect, ContainersEffect, Past, Terminal, Finished
  <2>3. MemoryEffect(w)
    BY <1>4, WorkerNow DEF AnswerLost, Goto, Keep, MemoryEffect, Starting
  <2>4. HoldsTaskOf(w)' /\ HoldsTargetOf(w)' /\ HasNoContainer(w)'
    BY <1>4, <2>1, WorkerNow
    DEF AnswerLost, UpdateStatus, Goto, Keep, IsStart, HoldsTaskOf, HoldsTargetOf,
        HasNoContainer, Deciding, Starting, Stopping, Auditing
  <2> QED BY <2>2, <2>3, <2>4 DEF StepOwn, WorkerEffect
<1> QED BY <1>1, <1>2, <1>3, <1>4

----------------------------------------------------------------------------
(* The invariant. *)

LEMMA OwnInit == Init => OwnInv
<1> SUFFICES ASSUME Init PROVE OwnInv
  OBVIOUS
<1>1. TypeOK /\ RestartsKnown
  BY TypeInit
<1>2. ExclusiveClaim /\ HoldsTask /\ HoldsTarget
  BY DEF Init, WorkerInit, ExclusiveClaim, HoldsTask, HoldsTaskOf, HoldsTarget,
     HoldsTargetOf, Deciding, Starting, Stopping, Auditing
<1>3. CopiesSettled
  BY DEF Init, TableInit, SweeperInit, ReconcilerInit, CopiesSettled
<1>4. ContainersFresh
  BY DEF Init, RuntimeInit, WorkerInit, ContainersFresh, HasNoContainer
<1> QED BY <1>1, <1>2, <1>3, <1>4 DEF OwnInv

LEMMA StepsOwn ==
  ASSUME OwnInv, NEW w \in Workers, WorkerStep(w) \/ DbError(w) \/ CrashWorker(w)
  PROVE  StepOwn(w)
BY ClaimOwn, DecideOwn, LaunchOwn, StopOwn, FaultOwn DEF WorkerStep

\* A step of a worker leaves the background loops' memory alone, or empty.
LEMMA WorkOwn ==
  ASSUME OwnInv, NEW w \in Workers, Work(w) \/ DbFault(w) \/ Crash(w)
  PROVE  StepOwn(w) /\ CopiesKnown
<1>1. StepOwn(w)
  BY StepsOwn DEF Work, DbFault, Crash
<1>2. CASE UNCHANGED <<sweeperVars, reconcilerVars>>
  BY <1>1, <1>2, CopiesNow DEF sweeperVars, reconcilerVars, CopiesKnown
<1>3. CASE w \in Processes /\ ForgetSweep(w) /\ ForgetTick(w)
  BY <1>1, <1>3, CopiesNow
  DEF ForgetSweep, ForgetTick, CopiesKnown, OwnInv, TypeOK, SweeperTypeOK, ReconcilerTypeOK
<1> QED BY <1>1, <1>2, <1>3 DEF Work, DbFault, Crash

\* Every step but a worker's.
LEMMA BackgroundOwn ==
  ASSUME OwnInv,
         \/ Control
         \/ \E w \in Processes : \/ Sweep(w) \/ Reconcile(w)
                                 \/ \E t \in TaskIds : ReapOrphan(w, t)
         \/ SweepAdmitted
         \/ \E t \in TaskIds : Exit(t)
  PROVE  RowsAdvance /\ CopiesKnown /\ UNCHANGED workerVars
<1>1. UNCHANGED workerVars
  BY DEF Control, Sweep, Reconcile, ReapOrphan, SweepAdmitted, Exit
<1> QED BY <1>1, ControlOwn, SweepOwn, ReconcileOwn, ReapOwn, SweepAdmittedOwn, ExitOwn

LEMMA StutterOwn ==
  ASSUME OwnInv, UNCHANGED vars
  PROVE  RowsAdvance /\ CopiesKnown /\ UNCHANGED workerVars
<1>1. UNCHANGED <<tableVars, container>> /\ UNCHANGED workerVars
  BY DEF vars
<1>2. CopiesKnown
  BY CopiesNow DEF vars, sweeperVars, reconcilerVars, CopiesKnown
<1> QED BY <1>1, <1>2, SettledWrites

LEMMA OwnStep == OwnInv /\ [Next]_vars => OwnInv'
<1> SUFFICES ASSUME OwnInv, [Next]_vars PROVE OwnInv'
  OBVIOUS
<1>1. TypeOK' /\ RestartsKnown'
  BY TypeStep DEF OwnInv
<1>2. CASE \E w \in Workers : Work(w) \/ DbFault(w) \/ Crash(w)
  BY <1>1, <1>2, WorkOwn, EffectOwn DEF StepOwn, OwnInv
<1>3. CASE RowsAdvance /\ CopiesKnown /\ UNCHANGED workerVars
  BY <1>1, <1>3, AdvanceHolds, AdvanceCopies DEF OwnInv
<1> QED BY <1>2, <1>3, BackgroundOwn, StutterOwn DEF Next

THEOREM Ownership == Spec => []OwnInv
<1> QED BY OwnInit, OwnStep, PTL DEF Spec

----------------------------------------------------------------------------
(* What follows. *)

\* Two workers never hold the same task, whatever crashes and whatever the sweepers,
\* the reconciler and stop requests write.
THEOREM ClaimsAreExclusive == Spec => []ExclusiveClaim
<1>1. OwnInv => ExclusiveClaim
  BY DEF OwnInv
<1> QED BY <1>1, Ownership, PTL

\* Run always starts from nothing: no task's container is created a second time.
THEOREM LaunchesAreFresh == Spec => []LaunchFresh
<1>1. OwnInv => LaunchFresh
  BY DEF OwnInv, ContainersFresh, HasNoContainer, LaunchFresh
<1> QED BY <1>1, Ownership, PTL

\* A row that was admitted never goes back to the queue, although every writer may
\* work from an old copy of the row.
THEOREM NothingIsRequeued == Spec => NoRequeue
<1>1. ASSUME OwnInv, [Next]_vars, NEW t \in TaskIds, status[t] \in SlotStatuses \cup Terminal
      PROVE  status'[t] \notin {"none", "pending", "processing"}
  <2>1. status[t] \in Past
    BY <1>1 DEF Past
  <2>2. CASE \E w \in Workers : Work(w) \/ DbFault(w) \/ Crash(w)
    BY <1>1, <2>1, <2>2, WorkOwn
    DEF StepOwn, WorkerEffect, RowsEffect, Past, SlotStatuses, Terminal
  <2>3. CASE RowsAdvance
    BY <2>1, <2>3 DEF RowsAdvance, Past, SlotStatuses, Terminal
  <2> QED BY <1>1, <2>2, <2>3, BackgroundOwn, StutterOwn DEF Next
<1>2. OwnInv /\ [Next]_vars =>
        [\A t \in TaskIds :
           status[t] \in SlotStatuses \cup Terminal
             => status'[t] \notin {"none", "pending", "processing"}]_vars
  BY <1>1
<1> QED BY <1>2, Ownership, PTL DEF Spec, NoRequeue

\* When the reaper stops a container the row is final, although the reaper read its
\* status only when it listed the row.
THEOREM ReaperSparesLive == Spec => ReaperSpares
<1>1. OwnInv /\ [Next]_vars =>
        [\A w \in Processes, t \in TaskIds :
           reap[w][t] = "stop" /\ reap'[w][t] = "clear" => status[t] \in Terminal]_vars
  BY CopiesNow DEF Finished
<1> QED BY <1>1, Ownership, PTL DEF Spec, ReaperSpares
=============================================================================
