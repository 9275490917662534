----------------------------- MODULE AuditProofs ----------------------------
(***************************************************************************)
(* The audit trail agrees with the stop requests, whatever fails; no task  *)
(* is lost while processes and database work (HeldInv); and what one       *)
(* worker keeps while nothing fails: every live container is accounted     *)
(* for, a stop leaves none behind, and a restart does not start the clone  *)
(* beside the task it replaces (SoloInv).  The three invariants are        *)
(* inductive, each relative to those before it.                            *)
(***************************************************************************)
EXTENDS OwnershipProofs

----------------------------------------------------------------------------
(* The audit trail. *)

LEMMA RecordsWritten ==
  ASSUME NEW w \in Workers, WorkerStep(w) \/ DbError(w) \/ CrashWorker(w)
  PROVE  UNCHANGED stopRecord \/ WriteStopRecord(w)
BY DEF WorkerStep, DbError, StatementFails, AnswerLost, CrashWorker, ClaimLock, ClaimCommit, CountTotal, ApplyPolicy,
   CheckGPU, CommitAdmission, ResetToPending, ResourceCheck, CreateContainer,
   StartContainer, RecordRunning, FailStart, ReadTarget, StopTarget, MarkStopped,
   FinishStop, FailStop, TrySetStatus, UpdateStatus, UpdateRuntime, tableVars

LEMMA BackgroundRecords ==
  ASSUME \/ Control
         \/ \E w \in Processes : \/ Sweep(w) \/ Reconcile(w)
                                 \/ \E t \in TaskIds : ReapOrphan(w, t)
         \/ SweepAdmitted
         \/ \E t \in TaskIds : Exit(t)
  PROVE  UNCHANGED stopRecord
<1> USE DEF tableVars
<1>1. CASE Control \/ SweepAdmitted \/ \E t \in TaskIds : Exit(t)
  BY <1>1
  DEF Control, ControllerStep, Enqueue, EnqueueStopForTarget, RestartFinished, RestartLive,
      RestartSubmit, RestartAbandon, Create, SweepAdmitted, AdmittedSweep,
      RevertAdmittedStuck, Exit
<1>2. ASSUME NEW w \in Processes, Sweep(w) \/ Reconcile(w) PROVE UNCHANGED stopRecord
  BY <1>2
  DEF Sweep, SweeperStep, ListOverdue, SweepStop, SweepClear, SweepFail, Reconcile, Tick,
      TickList, TickInspect, TickUpdate, ReapList, UpdateStatus, ClearRuntimeRef
<1>3. ASSUME NEW w \in Processes, NEW t \in TaskIds, ReapOrphan(w, t)
      PROVE  UNCHANGED stopRecord
  BY <1>3 DEF ReapOrphan, Reap, ReapLook, ReapStop, ReapClear, ClearRuntimeRef
<1> QED BY <1>1, <1>2, <1>3

\* A recorded request was pending once, so nobody takes it up again.
LEMMA WorkRecorded ==
  ASSUME OwnInv, NEW w \in Workers, WorkerStep(w) \/ DbError(w) \/ CrashWorker(w),
         NEW s \in TaskIds, stopRecord[s] # "none", Recorded(s)
  PROVE  Recorded(s)' \/ stopRecord'[s] # stopRecord[s]
<1>1. req' = req /\ status'[s] = status[s]
  BY StepsOwn DEF StepOwn, WorkerEffect, RowsEffect, Recorded
<1>2. status[s] # "pending" /\ s # NoTask
  BY TaskAssumption DEF Recorded, OwnInv, TypeOK, TableTypeOK, NoTask
<1>3. UNCHANGED cur \/ Return(w) \/ ClaimLock(w)
  BY DEF WorkerStep, DbError, StatementFails, AnswerLost, CrashWorker, ClaimCommit, CountTotal, ApplyPolicy,
     CheckGPU, CommitAdmission, ResetToPending, ResourceCheck, CreateContainer,
     StartContainer, RecordRunning, FailStart, ReadTarget, StopTarget, MarkStopped,
     FinishStop, FailStop, WriteStopRecord, Keep
<1>4. ASSUME NEW v \in Workers PROVE cur'[v] # s
  BY <1>2, <1>3 DEF Return, ClaimLock, Claimable, Recorded, OwnInv, TypeOK, WorkerTypeOK
<1> QED BY <1>1, <1>4 DEF Recorded, IsStart

LEMMA WriteRecorded ==
  ASSUME OwnInv, NEW w \in Workers, WriteStopRecord(w), NEW s \in TaskIds
  PROVE  IF s = cur[w] THEN Recorded(s)' ELSE stopRecord'[s] = stopRecord[s]
<1>1. /\ cur[w] \in TaskIds /\ ~IsStart(cur[w])
      /\ pc[w] = "audit" => status[cur[w]] = "succeeded"
      /\ pc[w] # "audit" => status[cur[w]] \in {"processing", "failed"}
  BY WorkerNow DEF WriteStopRecord, HoldsTaskOf, Stopping, Auditing
<1>2. /\ UNCHANGED <<status, req>>
      /\ (s # cur[w] => stopRecord'[s] = stopRecord[s])
      /\ stopRecord'[cur[w]] = IF pc[w] = "audit" THEN "ok" ELSE "failed"
  BY <1>1 DEF WriteStopRecord, CreateStopRecord, OwnInv, TypeOK, TableTypeOK
<1>3. \A v \in Workers : cur'[v] # cur[w]
  BY <1>1, TaskAssumption
  DEF WriteStopRecord, Return, OwnInv, ExclusiveClaim, TypeOK, WorkerTypeOK, NoTask
<1> QED BY <1>1, <1>2, <1>3 DEF Recorded, IsStart

LEMMA BackgroundRecorded ==
  ASSUME OwnInv, AuditInv, RowsAdvance, UNCHANGED <<workerVars, stopRecord>>
  PROVE  AuditInv'
<1>1. ASSUME NEW s \in TaskIds, stopRecord[s] # "none" PROVE Recorded(s)'
  <2>1. Recorded(s) /\ status[s] \in {"processing", "succeeded", "failed"}
    BY <1>1 DEF AuditInv, Recorded, OwnInv, TypeOK, TableTypeOK
  <2>2. status'[s] = status[s] /\ req'[s] = req[s] /\ cur' = cur
    BY <2>1 DEF RowsAdvance, Recorded, workerVars
  <2> QED BY <2>1, <2>2 DEF Recorded, IsStart
<1> QED BY <1>1 DEF AuditInv

LEMMA AuditStep == OwnInv /\ AuditInv /\ [Next]_vars => AuditInv'
<1> SUFFICES ASSUME OwnInv, AuditInv, [Next]_vars PROVE AuditInv'
  OBVIOUS
<1>1. ASSUME NEW w \in Workers, WorkerStep(w) \/ DbError(w) \/ CrashWorker(w)
      PROVE  AuditInv'
  <2>1. CASE UNCHANGED stopRecord
    BY <1>1, <2>1, WorkRecorded DEF AuditInv
  <2>2. CASE WriteStopRecord(w)
    <3>1. ASSUME NEW s \in TaskIds, stopRecord'[s] # "none" PROVE Recorded(s)'
      BY <1>1, <2>2, <3>1, WorkRecorded, WriteRecorded DEF AuditInv
    <3> QED BY <3>1 DEF AuditInv
  <2> QED BY <1>1, <2>1, <2>2, RecordsWritten
<1>2. CASE RowsAdvance /\ UNCHANGED <<workerVars, stopRecord>>
  BY <1>2, BackgroundRecorded
<1> QED BY <1>1, <1>2, BackgroundOwn, BackgroundRecords, StutterOwn
        DEF Next, Work, DbFault, Crash, vars, tableVars

LEMMA AuditInvariance == Spec => []AuditInv
<1>1. Init => AuditInv
  BY DEF Init, TableInit, AuditInv
<1> QED BY <1>1, AuditStep, Ownership, PTL DEF Spec

\* The audit trail agrees with the stop requests, whatever fails and whoever else
\* writes rows: only the worker that has carried a request out writes its row and its
\* record, and a request that has a record is never taken up again.
THEOREM AuditTrailAgrees == Spec => []AuditAgrees
<1>1. AuditInv => AuditAgrees
  <2> SUFFICES ASSUME AuditInv, NEW s \in TaskIds
               PROVE  /\ stopRecord[s] = "ok" => status[s] = "succeeded"
                      /\ stopRecord[s] = "failed" => status[s] \in {"failed", "processing"}
    BY DEF AuditAgrees
  <2> QED BY DEF AuditInv, Recorded
<1> QED BY <1>1, AuditInvariance, PTL

----------------------------------------------------------------------------
(* Nothing is lost while the processes and the database work. *)

\* Who lets go of a row has written it.
LEMMA HolderWrites ==
  ASSUME OwnInv, HeldInv, NEW w \in Workers, WorkerStep(w), NEW t \in TaskIds, cur[w] = t
  PROVE  /\ status'[t] = "processing" => HeldBy(w, t)'
         /\ pc'[w] \in Auditing => cur'[w] = t /\ status'[t] # "processing"
<1>0. /\ w \in DOMAIN pc /\ cur[w] \in DOMAIN status
      /\ HoldsTaskOf(w) /\ (pc[w] \in Auditing => status[cur[w]] # "processing")
  BY WorkerNow DEF OwnInv, TypeOK, WorkerTypeOK, TableTypeOK, HeldInv
<1>1. CASE ClaimLock(w)
  BY <1>0, <1>1, TaskAssumption DEF ClaimLock, HoldsTaskOf, NoTask, Auditing
<1>2. CASE ClaimCommit(w) \/ CountTotal(w) \/ ApplyPolicy(w) \/ CheckGPU(w)
  BY <1>0, <1>2
  DEF ClaimCommit, CountTotal, ApplyPolicy, CheckGPU, Goto, Keep, HeldBy, Deciding, Stopping, Auditing
<1>3. CASE CommitAdmission(w) \/ ResetToPending(w) \/ RecordRunning(w) \/ FailStart(w)
           \/ FinishStop(w) \/ FailStop(w)
  BY <1>0, <1>3
  DEF CommitAdmission, ResetToPending, RecordRunning, FailStart, FinishStop, FailStop,
      TrySetStatus, UpdateStatus, UpdateRuntime, Goto, Keep, Return, Auditing
<1>4. CASE ResourceCheck(w) \/ CreateContainer(w) \/ StartContainer(w)
  <2>1. status' = status /\ status[cur[w]] # "processing" /\ pc'[w] \notin Auditing
    BY <1>0, <1>4
    DEF Auditing, ResourceCheck, CreateContainer, StartContainer, tableVars, Goto, HoldsTaskOf,
        Starting, Past, SlotStatuses, Terminal
  <2> QED BY <2>1
<1>5. CASE ReadTarget(w) \/ StopTarget(w)
  BY <1>0, <1>5 DEF ReadTarget, StopTarget, Goto, Keep, HeldBy, Stopping, Auditing
<1>6. CASE MarkStopped(w)
  BY <1>0, <1>6 DEF MarkStopped, Goto, Keep, HeldBy, Stopping, Auditing
<1>7. CASE WriteStopRecord(w)
  BY <1>0, <1>7 DEF WriteStopRecord, CreateStopRecord, Return, Goto, Auditing
<1> QED BY <1>1, <1>2, <1>3, <1>4, <1>5, <1>6, <1>7 DEF WorkerStep

LEMMA WorkHeld ==
  ASSUME OwnInv, HeldInv, NEW w \in Workers, WorkerStep(w)
  PROVE  HeldInv'
<1>0. /\ \A v \in Workers \ {w} : pc'[v] = pc[v] /\ cur'[v] = cur[v]
      /\ cur[w] \notin TaskIds => pc'[w] = "claim"
  <2>1. cur[w] \notin TaskIds => ClaimLock(w)
    BY WorkerNow
    DEF HoldsTaskOf, WorkerStep, ClaimCommit, CountTotal, ApplyPolicy, CheckGPU,
        CommitAdmission, ResetToPending, ResourceCheck, CreateContainer, StartContainer,
        RecordRunning, FailStart, ReadTarget, StopTarget, MarkStopped, FinishStop,
        FailStop, WriteStopRecord, Auditing
  <2> QED BY <2>1, StepsOwn, WorkerNow DEF StepOwn, WorkerEffect, MemoryEffect, ClaimLock, Goto
<1>1. ASSUME NEW t \in TaskIds, t # cur[w], status'[t] = "processing"
      PROVE  \E v \in Workers : HeldBy(v, t)'
  <2>1. status[t] = "processing"
    BY <1>1, StepsOwn DEF StepOwn, WorkerEffect, RowsEffect, Past, SlotStatuses, Terminal
  <2>2. PICK v \in Workers : HeldBy(v, t)
    BY <2>1 DEF HeldInv
  <2>3. v # w
    BY <1>1, <2>2 DEF HeldBy
  <2> QED BY <1>0, <2>2, <2>3 DEF HeldBy
<1>2. ASSUME NEW v \in Workers \ {w}, pc'[v] \in Auditing
      PROVE  status'[cur'[v]] # "processing"
  <2>1. pc[v] \in Auditing /\ cur[v] \in TaskIds /\ ~IsStart(cur[v])
        /\ status[cur[v]] # "processing" /\ cur[v] # cur[w]
    BY <1>0, <1>2, WorkerNow DEF HoldsTaskOf, Stopping, Auditing, HeldInv, OwnInv, ExclusiveClaim
  <2>2. status'[cur[v]] = status[cur[v]]
    BY <2>1, StepsOwn DEF StepOwn, WorkerEffect, RowsEffect
  <2> QED BY <1>0, <2>1, <2>2
<1>3. pc'[w] \in Auditing => status'[cur'[w]] # "processing"
  BY <1>0, HolderWrites DEF Auditing
<1> QED BY <1>0, <1>1, <1>2, <1>3, HolderWrites DEF HeldInv

LEMMA BackgroundHeld ==
  ASSUME OwnInv, HeldInv, RowsAdvance, UNCHANGED workerVars
  PROVE  HeldInv'
<1>0. pc' = pc /\ cur' = cur
  BY DEF workerVars
<1>1. ASSUME NEW t \in TaskIds, status'[t] = "processing" PROVE status[t] = "processing"
  BY <1>1 DEF RowsAdvance, OwnInv, TypeOK, TableTypeOK, Status, Past, SlotStatuses, Terminal
<1>2. \A w \in Workers : pc[w] \in Auditing => cur[w] \in TaskIds
  BY WorkerNow DEF Auditing
<1> QED BY <1>0, <1>1, <1>2 DEF HeldInv, HeldBy

LEMMA HeldInvariance ==
  ASSUME Faults \cap {"crash", "db"} = {}
  PROVE  Spec => []HeldInv
<1>1. Init => HeldInv
  BY DEF Init, TableInit, WorkerInit, HeldInv, Auditing
<1>2. OwnInv /\ HeldInv /\ [Next]_vars => HeldInv'
  <2> SUFFICES ASSUME OwnInv, HeldInv, [Next]_vars PROVE HeldInv'
    OBVIOUS
  <2>1. ASSUME NEW w \in Workers PROVE ~DbFault(w) /\ ~Crash(w)
    BY DEF DbFault, DbError, Crash, CrashWorker
  <2>2. ASSUME NEW w \in Workers, Work(w) PROVE HeldInv'
    BY <2>2, WorkHeld DEF Work
  <2>3. CASE RowsAdvance /\ UNCHANGED workerVars
    BY <2>3, BackgroundHeld
  <2> QED BY <2>1, <2>2, <2>3, BackgroundOwn, StutterOwn DEF Next
<1> QED BY <1>1, <1>2, Ownership, PTL DEF Spec

\* While no process dies and no statement fails, every row in processing is in the
\* hands of a worker that will write it: no refusal, error of the engine, or race
\* between the loops loses a task.
THEOREM NothingIsLost ==
  ASSUME Faults \cap {"crash", "db"} = {}
  PROVE  Spec => []ProcessingHeld
<1>1. HeldInv => ProcessingHeld
  BY DEF HeldInv, HeldBy, ProcessingHeld
<1> QED BY <1>1, HeldInvariance, PTL

----------------------------------------------------------------------------
(* One worker, no faults. *)

Alone == Faults = {} /\ \A v, w \in Workers : v = w

\* What is known of the scheduler by other theorems.
SoloKnown == OwnInv /\ AuditInv /\ HeldInv

----------------------------------------------------------------------------
(* Dead tasks stay dead. *)

\* Which containers a step of w touches, and how.
LEMMA WorkContainers ==
  ASSUME OwnInv, SoloInv, Alone, NEW w \in Workers, WorkerStep(w), NEW t \in TaskIds
  PROVE  \/ container'[t] = container[t]
         \/ pc[w] \in {"create", "start"} /\ t = cur[w] /\ ~Stubbed(t)
         \/ pc[w] = "stop" /\ t = Target(w) /\ ~Stubbed(t) /\ ~Alive(t)'
<1>0. container \in [TaskIds -> ContainerState]
  BY DEF OwnInv, TypeOK, RuntimeTypeOK
<1>1. CASE CreateContainer(w) \/ StartContainer(w)
  BY <1>0, <1>1
  DEF CreateContainer, StartContainer, SetContainer, Alone, SoloInv, ContainersKnown
<1>2. CASE StopTarget(w)
  BY <1>0, <1>2 DEF StopTarget, StopOK, StopError, SetContainer, Alive, Alone
<1>3. CASE UNCHANGED container
  BY <1>3
<1> QED BY <1>1, <1>2, <1>3
        DEF WorkerStep, ClaimLock, ClaimCommit, CountTotal, ApplyPolicy, CheckGPU,
            CommitAdmission, ResetToPending, ResourceCheck, RecordRunning, FailStart,
            ReadTarget, MarkStopped, FinishStop, FailStop, WriteStopRecord

LEMMA WorkDead ==
  ASSUME OwnInv, SoloInv, Alone, NEW w \in Workers, WorkerStep(w)
  PROVE  /\ \A t \in TaskIds : Settled(t) /\ ~Alive(t) => ~Alive(t)'
         /\ \A t \in TaskIds : Dead(t) => Dead(t)'
<1>1. ASSUME NEW t \in TaskIds, Settled(t), ~Alive(t) PROVE ~Alive(t)'
  <2>1. ~(t = cur[w] /\ pc[w] \in {"create", "start"})
    BY <1>1 DEF Settled, Starting
  <2> QED BY <1>1, <2>1, WorkContainers DEF Alive
<1>2. \A t \in TaskIds : Settled(t) => Settled(t)'
  BY EffectSettled, StepsOwn DEF StepOwn
<1> QED BY <1>1, <1>2 DEF Dead

\* What a step of the others does to rows and containers that are not dead.
SoloAdvance ==
  \A t \in TaskIds :
    /\ container'[t] # container[t] => ~Stubbed(t) /\ ~Alive(t)'
    /\ status'[t] # status[t] =>
         \/ status'[t] = "pending"
         \/ status'[t] \in Terminal /\ (status[t] = "admitted" \/ ~Alive(t))
    /\ runtimeRef[t] /\ ~runtimeRef'[t] => ~Alive(t)

LEMMA AdvanceDead ==
  ASSUME OwnInv, RowsAdvance, SoloAdvance, UNCHANGED workerVars
  PROVE  /\ \A t \in TaskIds : Alive(t)' => Alive(t)
         /\ \A t \in TaskIds : Dead(t) => Dead(t)'
<1>1. \A t \in TaskIds : Alive(t)' => Alive(t)
  BY DEF SoloAdvance, Alive
<1> QED BY <1>1, AdvanceSettled DEF Dead
----------------------------------------------------------------------------
(* The steps of background loops, workloads and controllers. *)

\* The calls and statements the loops make for a row they hold a copy of.
LEMMA LoopWrites ==
  ASSUME OwnInv, SoloInv, Alone
  PROVE  /\ \A t : Settled(t) /\ t \in TaskIds /\ (StopOK(t, TRUE) \/ StopError(t, TRUE))
               /\ UNCHANGED tableVars => SoloAdvance /\ ~Alive(t)'
         /\ \A t \in TaskIds : ~Alive(t) /\ ClearRuntimeRef(t) /\ UNCHANGED container
               => SoloAdvance
         /\ \A t \in TaskIds, s \in Terminal :
               ~Alive(t) /\ UpdateStatus(t, s) /\ UNCHANGED container => SoloAdvance
         /\ UNCHANGED <<tableVars, container>> => SoloAdvance
<1> USE DEF SoloAdvance
<1>0. /\ container \in [TaskIds -> ContainerState] /\ status \in [TaskIds -> Status]
      /\ runtimeRef \in [TaskIds -> BOOLEAN]
  BY DEF OwnInv, TypeOK, TableTypeOK, RuntimeTypeOK
<1>1. ASSUME NEW t \in TaskIds, StopOK(t, TRUE) \/ StopError(t, TRUE), UNCHANGED tableVars
      PROVE  SoloAdvance /\ ~Alive(t)'
  <2>1. StopOK(t, TRUE)
    BY <1>1 DEF StopError, Alone
  <2>2. CASE Stubbed(t)
    <3>1. container' = container /\ container[t] = "none"
      BY <2>1, <2>2 DEF StopOK, SoloInv, ContainersKnown
    <3> QED BY <1>1, <3>1 DEF Alive, tableVars
  <2>3. CASE ~Stubbed(t)
    <3>1. container' = [container EXCEPT ![t] = "removed"]
      BY <2>1, <2>3 DEF StopOK, SetContainer
    <3> QED BY <1>0, <1>1, <2>3, <3>1 DEF Alive, tableVars
  <2> QED BY <2>2, <2>3
<1>2. ASSUME NEW t \in TaskIds, ~Alive(t), ClearRuntimeRef(t), UNCHANGED container
      PROVE  SoloAdvance
  BY <1>0, <1>2 DEF ClearRuntimeRef
<1>3. ASSUME NEW t \in TaskIds, NEW s \in Terminal, ~Alive(t), UpdateStatus(t, s),
             UNCHANGED container
      PROVE  SoloAdvance
  BY <1>0, <1>3 DEF UpdateStatus
<1>4. ASSUME UNCHANGED <<tableVars, container>> PROVE SoloAdvance
  BY <1>4 DEF tableVars
<1> QED BY <1>1, <1>2, <1>3, <1>4

\* A step that leaves the memory of the loops alone.
LEMMA SeenKept ==
  ASSUME OwnInv, SoloInv, UNCHANGED <<sweeperVars, reconcilerVars>>,
         \A t \in TaskIds : Settled(t) /\ ~Alive(t) => ~Alive(t)'
  PROVE  LoopsSawEnd'
<1>1. ASSUME NEW w \in Processes, sweepPc[w] # "stop" PROVE ~Alive(sweepItem[w])'
  <2>1. sweepItem[w] \in TaskIds /\ Settled(sweepItem[w]) /\ ~Alive(sweepItem[w])
    BY <1>1, CopiesNow DEF SoloInv, LoopsSawEnd
  <2> QED BY <2>1 DEF Alive, sweeperVars
<1>2. ASSUME NEW w \in Processes, verdict[w] # NoVerdict PROVE ~Alive(verdict[w].task)'
  <2>1. /\ verdict[w].task \in TaskIds /\ Settled(verdict[w].task)
        /\ ~Alive(verdict[w].task)
    BY <1>2, CopiesNow DEF SoloInv, LoopsSawEnd
  <2> QED BY <2>1 DEF Alive, reconcilerVars
<1>3. ASSUME NEW w \in Processes, NEW t \in TaskIds, reap[w][t] = "clear" PROVE ~Alive(t)'
  <2>1. Settled(t) /\ ~Alive(t)
    BY <1>3, CopiesNow DEF SoloInv, LoopsSawEnd, Finished
  <2> QED BY <2>1
<1> QED BY <1>1, <1>2, <1>3 DEF LoopsSawEnd, sweeperVars, reconcilerVars

LEMMA SweepSeen ==
  ASSUME OwnInv, SoloInv, Alone, NEW w \in Processes, Sweep(w)
  PROVE  SoloAdvance /\ LoopsSawEnd'
<1>0. /\ sweepPc \in [Processes -> {"stop", "clear", "fail"}]
      /\ DOMAIN sweepItem = Processes
      /\ UNCHANGED <<verdict, reap>> /\ UNCHANGED workerVars
  BY DEF OwnInv, TypeOK, SweeperTypeOK, Sweep, reconcilerVars
<1>1. ASSUME SoloAdvance,
             \A v \in Processes :
               sweepPc'[v] # "stop" => sweepItem'[v] \in TaskIds /\ ~Alive(sweepItem[v])'
      PROVE  LoopsSawEnd'
  <2>1. \A t \in TaskIds : ~Alive(t) => ~Alive(t)'
    BY <1>0, <1>1, AdvanceDead, SweepOwn
  <2>2. ASSUME NEW v \in Processes, verdict'[v] # NoVerdict PROVE ~Alive(verdict[v].task)'
    <3>1. verdict[v].task \in TaskIds /\ ~Alive(verdict[v].task)
      BY <1>0, <2>2, CopiesNow DEF SoloInv, LoopsSawEnd
    <3> QED BY <1>0, <2>1, <3>1 DEF Alive
  <2>3. ASSUME NEW v \in Processes, NEW t \in TaskIds, reap'[v][t] = "clear" PROVE ~Alive(t)'
    BY <1>0, <2>1, <2>3 DEF SoloInv, LoopsSawEnd
  <2> QED BY <1>1, <2>2, <2>3 DEF LoopsSawEnd
<1>2. ASSUME SoloAdvance, UNCHANGED sweepItem,
             \A v \in Processes : sweepPc'[v] # "stop" => sweepPc[v] # "stop"
      PROVE  LoopsSawEnd'
  <2>1. ASSUME NEW v \in Processes, sweepPc'[v] # "stop"
        PROVE  sweepItem'[v] \in TaskIds /\ ~Alive(sweepItem[v])'
    <3>1. sweepItem[v] \in TaskIds /\ ~Alive(sweepItem[v])
      BY <1>2, <2>1, CopiesNow DEF SoloInv, LoopsSawEnd
    <3> QED BY <1>0, <1>2, <3>1, AdvanceDead, SweepOwn DEF Alive
  <2> QED BY <1>1, <1>2, <2>1
<1>3. CASE ListOverdue(w)
  BY <1>2, <1>3, LoopWrites DEF ListOverdue
<1>4. CASE SweepStop(w)
  <2>1. PICK t \in overdue[w] :
          /\ StopOK(t, TRUE) \/ StopError(t, TRUE)
          /\ sweepItem' = [sweepItem EXCEPT ![w] = t]
    BY <1>4 DEF SweepStop
  <2>2. t \in TaskIds /\ SoloAdvance /\ ~Alive(t)'
    BY <1>4, <2>1, CopiesNow, LoopWrites DEF SweepStop
  <2>3. \A v \in Processes : v = w
    BY ProcessAssumption DEF Alone
  <2> QED BY <1>0, <1>1, <2>1, <2>2, <2>3 DEF Alive
<1>5. CASE SweepClear(w)
  <2>1. sweepItem[w] \in TaskIds /\ ~Alive(sweepItem[w])
    BY <1>5, CopiesNow DEF SweepClear, SoloInv, LoopsSawEnd
  <2>2. SoloAdvance
    BY <1>5, <2>1, LoopWrites DEF SweepClear
  <2>3. \A v \in Processes : v = w
    BY ProcessAssumption DEF Alone
  <2> QED BY <1>2, <1>5, <2>2, <2>3 DEF SweepClear
<1>6. CASE SweepFail(w)
  <2>1. sweepItem[w] \in TaskIds /\ ~Alive(sweepItem[w]) /\ "failed" \in Terminal
    BY <1>6, CopiesNow DEF SweepFail, SoloInv, LoopsSawEnd, Terminal
  <2>2. SoloAdvance
    BY <1>6, <2>1, LoopWrites DEF SweepFail
  <2>3. \A v \in Processes : sweepPc'[v] = "stop"
    <3>1. \A v \in Processes : v = w
      BY ProcessAssumption DEF Alone
    <3> QED BY <1>0, <1>6, <3>1 DEF SweepFail
  <2> QED BY <1>1, <2>2, <2>3
<1> QED BY <1>3, <1>4, <1>5, <1>6 DEF Sweep, SweeperStep

LEMMA TickSeen ==
  ASSUME OwnInv, SoloInv, Alone, NEW w \in Processes, Reconcile(w)
  PROVE  SoloAdvance /\ LoopsSawEnd'
<1>0. /\ DOMAIN verdict = Processes /\ reap \in [Processes -> [TaskIds -> {"none", "look", "watch", "stop", "clear"}]]
      /\ UNCHANGED <<sweepPc, sweepItem>> /\ UNCHANGED workerVars
      /\ \A v \in Processes : v = w
  BY ProcessAssumption
  DEF OwnInv, TypeOK, ReconcilerTypeOK, Reconcile, sweeperVars, Alone
<1>1. ASSUME SoloAdvance,
             verdict'[w] # NoVerdict =>
               verdict'[w].task \in TaskIds /\ ~Alive(verdict'[w].task),
             \A t \in TaskIds : reap'[w][t] = "clear" => reap[w][t] = "clear"
      PROVE  LoopsSawEnd'
  <2>1. \A t \in TaskIds : ~Alive(t) => ~Alive(t)'
    BY <1>0, <1>1, AdvanceDead, ReconcileOwn
  <2>2. ASSUME sweepPc'[w] # "stop" PROVE ~Alive(sweepItem[w])'
    <3>1. sweepItem[w] \in TaskIds /\ ~Alive(sweepItem[w])
      BY <1>0, <2>2, CopiesNow DEF SoloInv, LoopsSawEnd
    <3> QED BY <1>0, <2>1, <3>1 DEF Alive
  <2>3. verdict'[w] # NoVerdict => ~Alive(verdict[w].task)'
    BY <1>1, <2>1 DEF Alive
  <2>4. ASSUME NEW t \in TaskIds, reap'[w][t] = "clear" PROVE ~Alive(t)'
    BY <1>1, <2>1, <2>4 DEF SoloInv, LoopsSawEnd
  <2> QED BY <1>0, <2>2, <2>3, <2>4 DEF LoopsSawEnd
<1>2. /\ verdict[w] # NoVerdict =>
           /\ verdict[w].task \in TaskIds /\ ~Alive(verdict[w].task)
           /\ verdict[w].phase \in Terminal
  BY CopiesNow DEF SoloInv, LoopsSawEnd, Terminal
<1>3. CASE TickList(w)
  <2>1. SoloAdvance
    BY <1>3, LoopWrites DEF TickList
  <2> QED BY <1>1, <1>2, <1>3, <2>1 DEF TickList, Alive
<1>4. CASE TickInspect(w)
  <2>1. SoloAdvance
    BY <1>4, LoopWrites DEF TickInspect
  <2>2. PICK t \in listed[w] :
          \/ /\ Phase(t, TRUE) \in {"succeeded", "failed"}
             /\ verdict' = [verdict EXCEPT ![w] = [task |-> t, phase |-> Phase(t, TRUE)]]
          \/ UNCHANGED verdict
    BY <1>4 DEF TickInspect
  <2>3. verdict' = verdict \/ (verdict'[w].task = t /\ ~Alive(t))
    BY <1>0, <2>2 DEF Phase
  <2>4. t \in TaskIds /\ reap' = reap
    BY <1>4, CopiesNow DEF TickInspect
  <2> QED BY <1>1, <1>2, <2>1, <2>3, <2>4 DEF Alive
<1>5. CASE TickUpdate(w)
  <2>1. SoloAdvance
    BY <1>2, <1>5, LoopWrites DEF TickUpdate
  <2> QED BY <1>0, <1>1, <1>5, <2>1 DEF TickUpdate
<1>6. CASE ReapList(w)
  <2>1. SoloAdvance
    BY <1>6, LoopWrites DEF ReapList
  <2>2. \A t \in TaskIds : reap'[w][t] = "clear" => reap[w][t] = "clear"
    BY <1>0, <1>6 DEF ReapList
  <2>3. verdict' = verdict
    BY <1>6 DEF ReapList
  <2> QED BY <1>1, <1>2, <2>1, <2>2, <2>3 DEF Alive
<1> QED BY <1>3, <1>4, <1>5, <1>6 DEF Reconcile, Tick

LEMMA ReapSeen ==
  ASSUME OwnInv, SoloInv, Alone, NEW w \in Processes, NEW t \in TaskIds, ReapOrphan(w, t)
  PROVE  SoloAdvance /\ LoopsSawEnd'
<1>0. /\ reap \in [Processes -> [TaskIds -> {"none", "look", "watch", "stop", "clear"}]]
      /\ UNCHANGED <<sweepPc, sweepItem, verdict>> /\ UNCHANGED workerVars
      /\ \A v \in Processes : v = w
  BY ProcessAssumption
  DEF OwnInv, TypeOK, ReconcilerTypeOK, ReapOrphan, Reap, ReapLook, ReapStop, ReapClear,
      sweeperVars, Alone
<1>1. Settled(t)
  BY CopiesNow DEF ReapOrphan, Reap, ReapLook, ReapStop, ReapClear, Finished
<1>2. PICK step : GotoReap(w, t, step) /\ SoloAdvance /\ (step = "clear" => ~Alive(t)')
  <2>1. CASE ReapLook(w, t)
    <3>1. SoloAdvance /\ container' = container
      BY <2>1, LoopWrites DEF ReapLook
    <3>2. Phase(t, runtimeRef[t]) \in {"succeeded", "failed"} => ~Alive(t)
      BY DEF Phase
    <3> QED BY <2>1, <3>1, <3>2 DEF ReapLook, Alive
  <2>2. CASE ReapStop(w, t)
    <3>1. StopOK(t, runtimeRef[t]) /\ GotoReap(w, t, "clear") /\ UNCHANGED tableVars
      BY <2>2 DEF ReapStop, StopError, Alone
    <3>2. CASE runtimeRef[t]
      BY <1>1, <3>1, <3>2, LoopWrites
    <3>3. CASE ~runtimeRef[t]
      <4>1. ~Alive(t)
        BY <1>1, <3>3 DEF SoloInv, ContainersKnown, Starts, Settled
      <4>2. container' = container
        BY <3>1, <3>3 DEF StopOK
      <4> QED BY <3>1, <4>1, <4>2, LoopWrites DEF Alive
    <3> QED BY <3>2, <3>3 DEF OwnInv, TypeOK, TableTypeOK
  <2>3. CASE ReapClear(w, t)
    <3>1. ~Alive(t)
      BY <2>3 DEF ReapClear, SoloInv, LoopsSawEnd
    <3>2. SoloAdvance
      BY <2>3, <3>1, LoopWrites DEF ReapClear
    <3> QED BY <2>3, <3>2 DEF ReapClear
  <2> QED BY <2>1, <2>2, <2>3 DEF ReapOrphan, Reap
<1>3. \A u \in TaskIds : ~Alive(u) => ~Alive(u)'
  BY <1>0, <1>2, AdvanceDead, ReapOwn
<1>4. ASSUME sweepPc'[w] # "stop" PROVE ~Alive(sweepItem[w])'
  <2>1. sweepItem[w] \in TaskIds /\ ~Alive(sweepItem[w])
    BY <1>0, <1>4, CopiesNow DEF SoloInv, LoopsSawEnd
  <2> QED BY <1>0, <1>3, <2>1 DEF Alive
<1>5. ASSUME verdict'[w] # NoVerdict PROVE ~Alive(verdict[w].task)'
  <2>1. verdict[w].task \in TaskIds /\ ~Alive(verdict[w].task)
    BY <1>0, <1>5, CopiesNow DEF SoloInv, LoopsSawEnd
  <2> QED BY <1>0, <1>3, <2>1 DEF Alive
<1>6. ASSUME NEW u \in TaskIds, reap'[w][u] = "clear" PROVE ~Alive(u)'
  <2>1. CASE u = t
    BY <1>0, <1>2, <1>6, <2>1 DEF GotoReap
  <2>2. CASE u # t
    <3>1. reap[w][u] = "clear"
      BY <1>0, <1>2, <1>6, <2>2 DEF GotoReap
    <3> QED BY <1>3, <3>1 DEF SoloInv, LoopsSawEnd
  <2> QED BY <2>1, <2>2
<1> QED BY <1>0, <1>2, <1>4, <1>5, <1>6 DEF LoopsSawEnd

----------------------------------------------------------------------------
(* What such a step leaves of the rest of SoloInv. *)

LEMMA AdvanceContainers ==
  ASSUME OwnInv, OwnInv', SoloInv, RowsAdvance, SoloAdvance, UNCHANGED workerVars
  PROVE  ContainersKnown'
<1>0. pc' = pc /\ cur' = cur /\ \A t \in TaskIds : Starts(t)' = Starts(t)
  BY DEF workerVars, Starts
<1>1. ASSUME NEW t \in TaskIds, container'[t] # "none" PROVE ~Stubbed(t)'
  <2>1. container[t] # "none" \/ Settled(t)
    BY <1>1 DEF RowsAdvance
  <2>2. status[t] # "none"
    BY <2>1 DEF OwnInv, ContainersFresh, Settled, Past, SlotStatuses, Terminal
  <2>3. req'[t] = req[t]
    BY <2>2 DEF RowsAdvance
  <2> QED BY <1>1, <2>3 DEF Stubbed, SoloAdvance, SoloInv, ContainersKnown
<1>2. ASSUME NEW t \in TaskIds, status'[t] = "admitted" PROVE Starts(t)'
  BY <1>0, <1>2 DEF SoloAdvance, SoloInv, ContainersKnown, Terminal
<1>3. ASSUME NEW t \in TaskIds, Alive(t)', ~Starts(t)
      PROVE  runtimeRef'[t] /\ t \in SlotRows'
  <2>1. Alive(t)
    BY <1>3, AdvanceDead
  <2>2. runtimeRef[t] /\ t \in SlotRows
    BY <1>3, <2>1 DEF SoloInv, ContainersKnown
  <2>3. runtimeRef'[t]
    BY <2>1, <2>2 DEF SoloAdvance, OwnInv, TypeOK, TableTypeOK
  <2>4. status[t] \in SlotStatuses /\ req'[t] = req[t]
    BY <2>2 DEF SlotRows, RowsAdvance, SlotStatuses
  <2>5. status'[t] = status[t]
    BY <1>3, <2>1, <2>4 DEF SoloAdvance, RowsAdvance, SoloInv, ContainersKnown, Past,
       SlotStatuses, Terminal
  <2> QED BY <2>2, <2>3, <2>4, <2>5 DEF SlotRows, IsStart
<1>4. ASSUME NEW w \in Workers, pc[w] = "start" PROVE ~Stubbed(cur[w])'
  <2>1. cur[w] \in TaskIds /\ status[cur[w]] \in Past
    BY <1>4, WorkerNow DEF HoldsTaskOf, Starting
  <2>2. req'[cur[w]] = req[cur[w]]
    BY <2>1 DEF RowsAdvance, Past, SlotStatuses, Terminal
  <2> QED BY <1>0, <1>4, <2>2 DEF SoloInv, ContainersKnown, Stubbed
<1> QED BY <1>0, <1>1, <1>2, <1>3, <1>4 DEF ContainersKnown

LEMMA AdvanceSeen ==
  ASSUME OwnInv, SoloInv, RowsAdvance, SoloAdvance, UNCHANGED workerVars
  PROVE  WorkerSawEnd'
<1>0. pc' = pc /\ cur' = cur /\ seenRef' = seenRef
  BY DEF workerVars
<1>1. ASSUME NEW w \in Workers, pc[w] \in Stopping
      PROVE  Target(w)' = Target(w) /\ (Dead(Target(w)) => Dead(Target(w))')
  <2>1. cur[w] \in TaskIds /\ status[cur[w]] # "none"
    BY <1>1, WorkerNow DEF HoldsTaskOf, Stopping, Auditing
  <2>2. Target(w)' = Target(w)
    BY <1>0, <2>1 DEF RowsAdvance, Target
  <2> QED BY <2>2, AdvanceDead DEF Dead, Settled, Alive, IsStart
<1>2. ASSUME NEW w \in Workers, pc[w] = "fail" PROVE ~Alive(cur[w])'
  <2>1. cur[w] \in TaskIds /\ ~Alive(cur[w])
    BY <1>2, WorkerNow DEF SoloInv, WorkerSawEnd
  <2> QED BY <1>0, <2>1, AdvanceDead DEF Alive
<1> QED BY <1>0, <1>1, <1>2 DEF SoloInv, WorkerSawEnd, Stopping, Auditing

LEMMA AdvanceStops ==
  ASSUME OwnInv, AuditInv, SoloInv, UNCHANGED stopRecord,
         \A t \in TaskIds : status[t] # "none" => req'[t] = req[t],
         \A t \in TaskIds : Dead(t) => Dead(t)'
  PROVE  StopsDone'
<1>1. ASSUME NEW s \in TaskIds, stopRecord[s] = "ok" PROVE Dead(req[s].target)'
  <2>1. status[s] # "none" /\ Dead(req[s].target) /\ req[s].target \in TaskIds
    BY <1>1 DEF AuditInv, Recorded, SoloInv, StopsDone, Dead
  <2> QED BY <2>1 DEF Dead, Settled, Alive, IsStart
<1> QED BY <1>1 DEF StopsDone

LEMMA AdvanceRestart ==
  ASSUME OwnInv, SoloInv, RowsAdvance, SoloAdvance, UNCHANGED workerVars,
         NEW r \in restarts
  PROVE  RestartInOrder(r)'
<1> DEFINE target == req[r.stop].target
<1>0. pc' = pc /\ cur' = cur
  BY DEF workerVars
<1>1. /\ r.stop \in TaskIds /\ r.clone \in TaskIds \cup {NoTask}
      /\ status[r.stop] # "none" /\ target \in TaskIds /\ RestartInOrder(r)
  BY DEF OwnInv, TypeOK, ControllerTypeOK, RestartsKnown, SoloInv
<1>2. /\ req'[r.stop] = req[r.stop] /\ req'[target] = req[target]
      /\ status'[target] \in Past
  BY <1>1 DEF RowsAdvance, RestartInOrder, Past, SlotStatuses, Terminal
<1>3. Dead(target) => Dead(target)'
  BY <1>1, <1>2, AdvanceDead DEF Dead, Settled, Alive, IsStart
<1>4. \A t \in TaskIds : status'[t] \in Past => status[t] \in Past
  BY DEF RowsAdvance, OwnInv, TypeOK, TableTypeOK, Status, Past, SlotStatuses, Terminal
<1>5. ASSUME r.clone # NoTask
      PROVE  /\ req'[r.clone] = req[r.clone] /\ status'[r.clone] # "none"
             /\ status'[r.clone] # "pending" => status[r.clone] # "pending"
  BY <1>1, <1>5 DEF RowsAdvance, RestartInOrder, OwnInv, TypeOK, TableTypeOK, Status, Past,
     SlotStatuses, Terminal
<1>6. status[r.stop] \in Past => status'[r.stop] \in Past
  BY <1>1 DEF RowsAdvance
<1> QED BY <1>0, <1>1, <1>2, <1>3, <1>4, <1>5, <1>6 DEF RestartInOrder, IsStart

\* A client's call changes rows that did not exist, and may begin or continue a
\* restart.
LEMMA ControlSeen ==
  ASSUME OwnInv, OwnInv', SoloInv, Alone, Control
  PROVE  SoloAdvance /\ LoopsSawEnd' /\ \A r \in restarts' : RestartInOrder(r)'
<1>0. /\ status \in [TaskIds -> Status] /\ req \in [TaskIds -> Request] /\ NoTask \notin TaskIds
      /\ restarts \in SUBSET [stop : TaskIds, clone : TaskIds \cup {NoTask}]
      /\ restarts' \in SUBSET [stop : TaskIds, clone : TaskIds \cup {NoTask}]
  BY TaskAssumption DEF OwnInv, TypeOK, TableTypeOK, ControllerTypeOK, NoTask
<1>1. SoloAdvance
  <2>1. ASSUME NEW t, NEW r, Create(t, r), UNCHANGED container PROVE SoloAdvance
    BY <1>0, <2>1 DEF Create, SoloAdvance
  <2> QED BY <2>1, LoopWrites
          DEF Control, ControllerStep, Enqueue, EnqueueStopForTarget, RestartFinished,
              RestartLive, RestartSubmit, RestartAbandon
<1>2. RowsAdvance /\ UNCHANGED workerVars
  BY ControlOwn DEF Control
<1>3. LoopsSawEnd'
  <2>1. \A t \in TaskIds : ~Alive(t) => ~Alive(t)'
    BY <1>1, <1>2, AdvanceDead
  <2> QED BY <2>1, SeenKept DEF Control
<1>4. \A r \in restarts : RestartInOrder(r)'
  BY <1>1, <1>2, AdvanceRestart
<1>5. ASSUME NEW t \in TaskIds, NEW u \in TaskIds, RestartLive(t, u)
      PROVE  RestartInOrder([stop |-> t, clone |-> NoTask])'
  <2>1. /\ status[u] \in Past /\ IsStart(u) /\ status[t] = "none" /\ t # u
        /\ status' = [status EXCEPT ![t] = "pending"]
        /\ req' = [req EXCEPT ![t] = StopRequestFor(u)]
    BY <1>5 DEF RestartLive, Create, Past, SlotStatuses, Terminal
  <2>2. /\ req'[t].op = "stop" /\ req'[t].target = u /\ req'[t].provider = req[u].provider
        /\ req'[u] = req[u] /\ status'[u] = status[u] /\ status'[t] = "pending"
    BY <1>0, <2>1 DEF StopRequestFor
  <2>3. \A w \in Workers : ~(cur'[w] = t /\ pc'[w] = "failstop")
    BY <1>2, <2>1, WorkerNow DEF workerVars, HoldsTaskOf, Stopping, Auditing
  <2> QED BY <2>1, <2>2, <2>3 DEF RestartInOrder, IsStart, Past, SlotStatuses, Terminal
<1>6. ASSUME NEW t \in TaskIds, NEW s \in TaskIds, RestartSubmit(t, s)
      PROVE  RestartInOrder([stop |-> s, clone |-> t])'
  <2> DEFINE old == [stop |-> s, clone |-> NoTask]
             u == req[s].target
  <2>1. /\ old \in restarts /\ t > s /\ status[t] = "none"
        /\ status' = [status EXCEPT ![t] = "pending"]
        /\ req' = [req EXCEPT ![t] = CloneOf(u)]
    BY <1>6 DEF RestartSubmit, Create
  <2>2. RestartInOrder(old) /\ status[s] # "none" /\ u \in TaskIds /\ RestartInOrder(old)'
    BY <1>4, <2>1 DEF SoloInv, OwnInv, RestartsKnown
  <2>3. t # s /\ t # u
    BY <2>1, <2>2 DEF RestartInOrder, Past, SlotStatuses, Terminal
  <2>4. CloneOf(u).provider = req[u].provider
    BY <1>0, <2>2 DEF CloneOf, Request
  <2>6. /\ req'[s] = req[s] /\ req'[u] = req[u] /\ req'[t].provider = req[u].provider
        /\ status'[t] = "pending"
    <3> HIDE DEF u
    <3> QED BY <1>0, <2>1, <2>2, <2>3, <2>4
  <2>5. \A w \in Workers : cur'[w] # t
    BY <1>2, <2>1, WorkerNow
    DEF workerVars, HoldsTaskOf, Deciding, Starting, Stopping, Auditing, Past, SlotStatuses, Terminal,
        OwnInv, TypeOK, WorkerTypeOK
  <2> QED BY <2>1, <2>2, <2>5, <2>6 DEF RestartInOrder
<1> QED BY <1>1, <1>3, <1>4, <1>5, <1>6
        DEF Control, ControllerStep, Enqueue, EnqueueStopForTarget, RestartFinished,
            RestartLive, RestartSubmit, RestartAbandon

----------------------------------------------------------------------------
(* The steps of the worker. *)

\* Whose target the worker gives up to stop is dead already: the row is final, and
\* nobody is starting it.
LEMMA GivenUp ==
  ASSUME OwnInv, SoloInv, Alone, NEW w \in Workers, WorkerStep(w), pc'[w] = "failstop",
         Target(w) \in TaskIds, status[Target(w)] \in Past, IsStart(Target(w)),
         req[Target(w)].provider = req[cur[w]].provider
  PROVE  Dead(Target(w))
<1>1. pc[w] = "target" /\ ~Stoppable(w)
  BY WorkerNow
  DEF Goto, Return, WorkerStep, ClaimLock, ClaimCommit, CountTotal, ApplyPolicy, CheckGPU,
      CommitAdmission, ResetToPending, ResourceCheck, CreateContainer, StartContainer,
      RecordRunning, FailStart, ReadTarget, StopTarget, StopError, MarkStopped, FinishStop,
      FailStop, WriteStopRecord, Alone
<1>2. status[Target(w)] \in Terminal
  BY <1>1 DEF Stoppable, SlotRows, Past
<1>3. \A v \in Workers : pc[v] \notin Starting
  BY <1>1 DEF Alone, Starting
<1>4. Settled(Target(w)) /\ ~Starts(Target(w)) /\ Target(w) \notin SlotRows
  BY <1>2, <1>3 DEF Settled, Starts, SlotRows, SlotStatuses, Terminal
<1> QED BY <1>4 DEF Dead, SoloInv, ContainersKnown

\* The worker ends the stop request of a restart.
LEMMA StopEnds ==
  ASSUME OwnInv, SoloInv, Alone, NEW w \in Workers, WorkerStep(w), NEW r \in restarts,
         RestartInOrder(r), r.stop \in TaskIds, status[r.stop] \notin Past,
         status'[r.stop] \in Past
  PROVE  Dead(req[r.stop].target)
<1>1. cur[w] = r.stop /\ ~IsStart(cur[w])
  BY StepsOwn DEF StepOwn, WorkerEffect, RowsEffect, RestartInOrder
<1>2. pc[w] \in {"idle", "claim"} \cup Stopping /\ r.stop \in DOMAIN status /\ NoTask \notin TaskIds
  BY <1>1, WorkerNow DEF HoldsTaskOf, OwnInv, TypeOK, WorkerTypeOK
<1>3. pc[w] \in Stopping
  BY <1>1, <1>2, WorkerNow
  DEF HoldsTaskOf, WorkerStep, ClaimLock, ClaimCommit, CountTotal, ApplyPolicy, CheckGPU,
      CommitAdmission, ResetToPending, ResourceCheck, CreateContainer, StartContainer,
      RecordRunning, FailStart, ReadTarget, StopTarget, MarkStopped, FinishStop, FailStop,
      WriteStopRecord, Auditing, TrySetStatus, UpdateStatus, tableVars, Past, SlotStatuses,
      Terminal
<1>4. ReadTarget(w) \/ StopTarget(w) \/ MarkStopped(w) \/ FinishStop(w) \/ FailStop(w)
      \/ WriteStopRecord(w)
  BY <1>3
  DEF WorkerStep, ClaimLock, ClaimCommit, CountTotal, ApplyPolicy, CheckGPU,
      CommitAdmission, ResetToPending, ResourceCheck, CreateContainer, StartContainer,
      RecordRunning, FailStart, Stopping, Auditing
<1>5. CASE ReadTarget(w) \/ StopTarget(w) \/ WriteStopRecord(w)
  BY <1>5 DEF ReadTarget, StopTarget, WriteStopRecord, CreateStopRecord, tableVars
<1>6. CASE MarkStopped(w)
  <2>1. Target(w) # cur[w]
    BY <1>1, <1>6, WorkerNow DEF MarkStopped, HoldsTargetOf
  <2> QED BY <1>1, <1>2, <1>6, <2>1 DEF MarkStopped, UpdateStatus
<1>7. CASE FinishStop(w)
  BY <1>1, <1>7 DEF FinishStop, SoloInv, WorkerSawEnd, Target
<1>8. CASE FailStop(w)
  BY <1>1, <1>8 DEF FailStop, RestartInOrder
<1> QED BY <1>4, <1>5, <1>6, <1>7, <1>8

\* When it takes the clone, the stop request is done.
LEMMA CloneTaken ==
  ASSUME SoloKnown, SoloInv, Alone, NEW w \in Workers, ClaimLock(w), NEW r \in restarts,
         RestartInOrder(r), r.stop \in TaskIds, status[r.stop] # "none",
         r.clone # NoTask, cur'[w] = r.clone
  PROVE  status[r.stop] \in Past
<1>0. OwnInv /\ pc[w] = "idle" /\ cur[w] = NoTask /\ NoTask \notin TaskIds
      /\ \A v \in Workers : v = w
  BY WorkerNow DEF SoloKnown, ClaimLock, HoldsTaskOf, Alone
<1>1. r.clone \in Claimable(w) /\ \A u \in Claimable(w) : r.clone <= u
  BY <1>0, WorkerNow DEF ClaimLock
<1>2. r.clone \in Int /\ r.stop \in Int /\ r.clone > r.stop
  <2>1. r.clone \in TaskIds /\ r.clone > r.stop
    BY <1>1 DEF RestartInOrder, Claimable
  <2>2. \A t \in TaskIds : t \in Int
    BY TaskAssumption
  <2> QED BY <2>1, <2>2
<1>3. r.stop \notin Claimable(w)
  BY <1>1, <1>2
<1>4. status[r.stop] # "pending"
  BY <1>0, <1>1, <1>3 DEF Claimable, RestartInOrder
<1>5. status[r.stop] # "processing"
  BY <1>0 DEF SoloKnown, HeldInv, HeldBy
<1> QED BY <1>0, <1>4, <1>5 DEF OwnInv, TypeOK, TableTypeOK, Status, Past

LEMMA WorkRestart ==
  ASSUME SoloKnown, SoloInv, Alone, NEW w \in Workers, WorkerStep(w), NEW r \in restarts
  PROVE  RestartInOrder(r)'
<1> DEFINE target == req[r.stop].target
<1>0. OwnInv /\ req' = req /\ \A v \in Workers : v = w
  BY StepsOwn DEF SoloKnown, StepOwn, WorkerEffect, RowsEffect, Alone
<1>1. /\ r.stop \in TaskIds /\ r.clone \in TaskIds \cup {NoTask}
      /\ status[r.stop] # "none" /\ target \in TaskIds /\ RestartInOrder(r)
  BY <1>0 DEF OwnInv, TypeOK, ControllerTypeOK, RestartsKnown, SoloInv
<1>2. /\ \A t \in TaskIds : status[t] \in Past => status'[t] \in Past
      /\ Dead(target) => Dead(target)'
  BY <1>0, <1>1, WorkDead, StepsOwn
  DEF StepOwn, WorkerEffect, RowsEffect, Dead, Settled, Alive, IsStart
<1>3. ASSUME NEW v \in Workers, cur'[v] = r.stop, pc'[v] = "failstop" PROVE Dead(target)
  <2>1. ~ClaimLock(w)
    BY <1>0, <1>3, WorkerNow DEF ClaimLock, Goto
  <2>2. cur[w] = r.stop
    BY <1>0, <1>1, <1>3, <2>1, WorkerNow, TaskAssumption
    DEF Return, WorkerStep, ClaimCommit, CountTotal, ApplyPolicy, CheckGPU,
        CommitAdmission, ResetToPending, ResourceCheck, CreateContainer, StartContainer,
        RecordRunning, FailStart, ReadTarget, StopTarget, MarkStopped, FinishStop,
        FailStop, WriteStopRecord, Keep
  <2> QED BY <1>0, <1>1, <1>3, <2>2, GivenUp DEF Target, RestartInOrder
<1>4. status'[r.stop] \in Past => Dead(target)
  BY <1>0, <1>1, StopEnds DEF RestartInOrder
<1>5. ASSUME r.clone # NoTask
      PROVE  /\ status'[r.clone] # "none"
             /\ status'[r.clone] # "pending" \/ (\E v \in Workers : cur'[v] = r.clone)
                  => status'[r.stop] \in Past
  <2>1. CASE status[r.clone] # "pending" \/ cur[w] = r.clone
    <3>1. status[r.stop] \in Past
      BY <1>5, <1>1, <2>1 DEF RestartInOrder
    <3>2. status[r.clone] # "none" /\ r.clone \in TaskIds
      BY <1>1, <1>5 DEF RestartInOrder
    <3>3. status'[r.clone] # "none"
      BY <1>0, <3>2, WorkerNow, OwnStep, StepsOwn
      DEF WorkerStep, ClaimLock, ClaimCommit, CountTotal, ApplyPolicy,
          CheckGPU, CommitAdmission, ResetToPending, ResourceCheck, CreateContainer,
          StartContainer, RecordRunning, FailStart, ReadTarget, StopTarget, MarkStopped,
          FinishStop, FailStop, WriteStopRecord, TrySetStatus, UpdateStatus, UpdateRuntime,
          CreateStopRecord, tableVars
    <3> QED BY <1>1, <1>2, <3>1, <3>3
  <2>2. CASE status[r.clone] = "pending" /\ cur[w] # r.clone
    <3>1. status'[r.clone] = "pending"
      BY <1>0, <1>1, <1>5, <2>2, StepsOwn
      DEF StepOwn, WorkerEffect, RowsEffect, Past, SlotStatuses, Terminal
    <3>2. ASSUME cur'[w] = r.clone PROVE ClaimLock(w)
      BY <1>0, <1>1, <1>5, <2>2, <3>2, WorkerNow
      DEF Return, WorkerStep, ClaimCommit, CountTotal, ApplyPolicy, CheckGPU,
          CommitAdmission, ResetToPending, ResourceCheck, CreateContainer, StartContainer,
          RecordRunning, FailStart, ReadTarget, StopTarget, MarkStopped, FinishStop,
          FailStop, WriteStopRecord, Keep
    <3>3. cur'[w] = r.clone => status[r.stop] \in Past
      BY <1>1, <1>5, <3>2, CloneTaken
    <3> QED BY <1>0, <1>1, <1>2, <3>1, <3>3
  <2> QED BY <2>1, <2>2
<1>6. /\ status'[target] \in Past /\ (Dead(target) => Dead(target)')
      /\ target' = target
  BY <1>0, <1>1, <1>2 DEF RestartInOrder
<1> QED BY <1>0, <1>1, <1>2, <1>3, <1>4, <1>5, <1>6 DEF RestartInOrder, IsStart

\* A step of a worker that starts nothing, before and after.
LEMMA NoStartSeen ==
  ASSUME OwnInv, SoloInv, Alone, NEW w \in Workers, req' = req, runtimeRef' = runtimeRef,
         pc[w] \notin Starting, pc'[w] \notin Starting,
         \A t \in TaskIds : status'[t] # status[t] => ~Alive(t)' /\ status'[t] # "admitted",
         \A t \in TaskIds : container'[t] # container[t] => ~Stubbed(t) /\ ~Alive(t)'
  PROVE  ContainersKnown'
<1>1. \A t \in TaskIds : ~Starts(t)
  BY DEF Starts, Alone
<1>2. \A v \in Workers : pc'[v] # "start"
  BY DEF Alone, Starting
<1>3. ASSUME NEW t \in TaskIds
      PROVE  /\ container'[t] # "none" => ~Stubbed(t)'
             /\ status'[t] # "admitted"
             /\ Alive(t)' => runtimeRef'[t] /\ t \in SlotRows'
  BY <1>1 DEF SoloInv, ContainersKnown, Alive, Stubbed, SlotRows, IsStart
<1> QED BY <1>2, <1>3 DEF ContainersKnown

LEMMA DecideSeen ==
  ASSUME OwnInv, SoloInv, Alone, NEW w \in Workers,
         \/ ClaimLock(w) \/ ClaimCommit(w) \/ CountTotal(w) \/ ApplyPolicy(w) \/ CheckGPU(w)
         \/ CommitAdmission(w) \/ ResetToPending(w)
  PROVE  ContainersKnown' /\ WorkerSawEnd'
<1>0. \A v \in Workers : v = w
  BY DEF Alone
<1>1. /\ pc[w] \notin Starting /\ w \in DOMAIN pc
      /\ container' = container /\ runtimeRef' = runtimeRef /\ req' = req
  BY WorkerNow
  DEF ClaimLock, ClaimCommit, CountTotal, ApplyPolicy, CheckGPU, CommitAdmission,
      ResetToPending, TrySetStatus, UpdateStatus, tableVars, Starting
<1>2. pc'[w] \in {"idle", "claim", "target"} \cup Deciding \cup {"check"}
  BY <1>1
  DEF ClaimLock, ClaimCommit, CountTotal, ApplyPolicy, CheckGPU, CommitAdmission,
      ResetToPending, Goto, Return, Deciding
<1>3. WorkerSawEnd'
  BY <1>0, <1>2 DEF WorkerSawEnd, Deciding
<1>5. ASSUME NEW t \in TaskIds, status'[t] # status[t]
      PROVE  t = cur[w] /\ container[t] = "none"
  <2>1. t = cur[w] /\ status[t] \in {"pending", "processing"}
    BY <1>5, WorkerNow
    DEF ClaimLock, ClaimCommit, CountTotal, ApplyPolicy, CheckGPU, CommitAdmission,
        ResetToPending, TrySetStatus, UpdateStatus, tableVars
  <2> QED BY <2>1 DEF OwnInv, ContainersFresh, Past, SlotStatuses, Terminal
<1>6. CASE ~CommitAdmission(w)
  <2>1. pc'[w] \notin Starting
    BY <1>1, <1>6
    DEF ClaimLock, ClaimCommit, CountTotal, ApplyPolicy, CheckGPU, ResetToPending, Goto,
        Return, Starting
  <2>2. \A t \in TaskIds : status'[t] # status[t] => status'[t] # "admitted"
    BY <1>6, WorkerNow
    DEF ClaimLock, ClaimCommit, CountTotal, ApplyPolicy, CheckGPU, ResetToPending,
        TrySetStatus, UpdateStatus, tableVars
  <2>3. ContainersKnown'
    BY <1>1, <1>5, <2>1, <2>2, NoStartSeen DEF Alive
  <2> QED BY <1>3, <2>3
<1>7. CASE CommitAdmission(w)
  <2>1. /\ pc' = [pc EXCEPT ![w] = "check"] /\ cur' = cur
        /\ status' = [status EXCEPT ![cur[w]] = "admitted"]
    BY <1>7 DEF CommitAdmission, TrySetStatus, UpdateStatus, Goto, Keep
  <2>2. /\ \A t \in TaskIds : ~Starts(t)
        /\ \A v \in Workers : pc'[v] # "start"
    BY <1>0, <1>1, <2>1 DEF Starts
  <2>3. ASSUME NEW t \in TaskIds, t # cur[w]
        PROVE  /\ container'[t] # "none" => ~Stubbed(t)'
               /\ status'[t] # "admitted"
               /\ Alive(t)' => runtimeRef'[t] /\ t \in SlotRows'
    <3>1. status'[t] = status[t]
      BY <2>1, <2>3, WorkerNow
    <3> QED BY <1>1, <2>2, <3>1
            DEF SoloInv, ContainersKnown, Alive, Stubbed, SlotRows, IsStart
  <2>4. ASSUME NEW t \in TaskIds, t = cur[w] PROVE Starts(t)' /\ container'[t] = "none"
    <3>1. container[cur[w]] = "none"
      BY <1>7, WorkerNow
      DEF CommitAdmission, TrySetStatus, OwnInv, ContainersFresh, Past, SlotStatuses, Terminal
    <3> QED BY <1>1, <2>1, <2>4, <3>1 DEF Starts, Starting
  <2> QED BY <1>3, <2>2, <2>3, <2>4 DEF ContainersKnown, Alive
<1> QED BY <1>6, <1>7

LEMMA LaunchSeen ==
  ASSUME OwnInv, SoloInv, Alone, NEW w \in Workers,
         \/ ResourceCheck(w) \/ CreateContainer(w) \/ StartContainer(w)
         \/ RecordRunning(w) \/ FailStart(w)
  PROVE  ContainersKnown' /\ WorkerSawEnd'
<1>0. /\ \A v \in Workers : v = w
      /\ container \in [TaskIds -> ContainerState]
  BY DEF Alone, OwnInv, TypeOK, RuntimeTypeOK
<1>1. /\ pc[w] \in Starting /\ w \in DOMAIN pc /\ req' = req /\ cur[w] \in TaskIds
      /\ NoTask \notin TaskIds /\ status[cur[w]] \in Past /\ IsStart(cur[w])
  BY WorkerNow
  DEF ResourceCheck, CreateContainer, StartContainer, RecordRunning, FailStart,
      UpdateStatus, UpdateRuntime, tableVars, Starting, HoldsTaskOf
<1>2. \A t \in TaskIds : Starts(t) <=> t = cur[w]
  BY <1>0, <1>1 DEF Starts
<1>3. ASSUME NEW step \in {"create", "start", "record", "fail"},
             Goto(w, step), Keep(w), UNCHANGED tableVars,
             step = "start" => ~Stubbed(cur[w]),
             container'[cur[w]] # "none" => ~Stubbed(cur[w]),
             step = "fail" => container'[cur[w]] \notin {"created", "running"},
             \A t \in TaskIds : t # cur[w] => container'[t] = container[t]
      PROVE  ContainersKnown' /\ WorkerSawEnd'
  <2>1. pc' = [pc EXCEPT ![w] = step] /\ cur' = cur
    BY <1>3 DEF Goto, Keep
  <2>2. \A t \in TaskIds : Starts(t)' <=> t = cur[w]
    BY <1>0, <1>1, <2>1 DEF Starts, Starting
  <2>3. WorkerSawEnd'
    BY <1>0, <1>1, <1>3, <2>1 DEF WorkerSawEnd, Alive
  <2>4. ASSUME NEW t \in TaskIds, t # cur[w]
        PROVE  /\ container'[t] # "none" => ~Stubbed(t)'
               /\ status'[t] # "admitted"
               /\ Alive(t)' => runtimeRef'[t] /\ t \in SlotRows'
    BY <1>2, <1>3, <2>4
    DEF SoloInv, ContainersKnown, Alive, Stubbed, SlotRows, IsStart, tableVars
  <2>5. \A t \in TaskIds : t = cur[w] => (container'[t] # "none" => ~Stubbed(t)')
    BY <1>1, <1>3 DEF Stubbed
  <2>6. \A v \in Workers : pc'[v] = "start" => ~Stubbed(cur[v])'
    BY <1>0, <1>1, <1>3, <2>1 DEF Stubbed
  <2> QED BY <2>2, <2>3, <2>4, <2>5, <2>6 DEF ContainersKnown
<1>4. CASE ResourceCheck(w)
  <2>1. container[cur[w]] = "none" /\ container' = container
    BY <1>4, WorkerNow DEF ResourceCheck, HasNoContainer
  <2> QED BY <1>3, <1>4, <2>1 DEF ResourceCheck
<1>5. CASE CreateContainer(w)
  <2>1. container[cur[w]] = "none"
    BY <1>5, WorkerNow DEF CreateContainer, HasNoContainer
  <2> QED BY <1>0, <1>1, <1>3, <1>5, <2>1 DEF CreateContainer, SetContainer, Alone
<1>6. CASE StartContainer(w)
  <2>1. ~Stubbed(cur[w])
    BY <1>6 DEF StartContainer, SoloInv, ContainersKnown
  <2>2. container' = [container EXCEPT ![cur[w]] = "running"] /\ Goto(w, "record")
    BY <1>6 DEF StartContainer, SetContainer, Alone
  <2> QED BY <1>0, <1>1, <1>3, <1>6, <2>1, <2>2 DEF StartContainer
<1>7. ASSUME Return(w), container' = container,
             \A t \in TaskIds : t # cur[w] => status'[t] = status[t] /\ runtimeRef'[t] = runtimeRef[t],
             \/ status'[cur[w]] = "running" /\ runtimeRef'[cur[w]]
             \/ status'[cur[w]] = "failed" /\ ~Alive(cur[w])
      PROVE  ContainersKnown' /\ WorkerSawEnd'
  <2>1. pc'[w] = "idle"
    BY <1>7, ReturnMemory
  <2>2. WorkerSawEnd' /\ \A v \in Workers : pc'[v] # "start"
    BY <1>0, <2>1 DEF WorkerSawEnd
  <2>3. ASSUME NEW t \in TaskIds
        PROVE  /\ container'[t] # "none" => ~Stubbed(t)'
               /\ status'[t] # "admitted"
               /\ Alive(t)' => runtimeRef'[t] /\ t \in SlotRows'
    <3>1. container'[t] # "none" => ~Stubbed(t)'
      BY <1>1, <1>7 DEF SoloInv, ContainersKnown, Stubbed
    <3>2. CASE t # cur[w]
      BY <1>1, <1>2, <1>7, <3>1, <3>2
      DEF SoloInv, ContainersKnown, Alive, SlotRows, IsStart
    <3>3. CASE t = cur[w]
      BY <1>1, <1>7, <3>1, <3>3 DEF Alive, SlotRows, SlotStatuses, IsStart
    <3> QED BY <3>2, <3>3
  <2> QED BY <2>2, <2>3 DEF ContainersKnown
<1>8. CASE RecordRunning(w)
  BY <1>1, <1>7, <1>8, WorkerNow DEF RecordRunning, UpdateRuntime
<1>9. CASE FailStart(w)
  BY <1>1, <1>7, <1>9, WorkerNow DEF FailStart, UpdateStatus, SoloInv, WorkerSawEnd
<1> QED BY <1>4, <1>5, <1>6, <1>8, <1>9

LEMMA StopSeen ==
  ASSUME OwnInv, SoloInv, Alone, NEW w \in Workers, WorkerStep(w),
         \/ ReadTarget(w) \/ StopTarget(w) \/ MarkStopped(w) \/ FinishStop(w)
         \/ FailStop(w) \/ WriteStopRecord(w)
  PROVE  ContainersKnown' /\ WorkerSawEnd'
<1>0. /\ \A v \in Workers : v = w
      /\ container \in [TaskIds -> ContainerState]
  BY DEF Alone, OwnInv, TypeOK, RuntimeTypeOK
<1>1. /\ pc[w] \in Stopping /\ w \in DOMAIN pc /\ w \in DOMAIN seenRef
      /\ req' = req /\ runtimeRef' = runtimeRef
      /\ pc[w] \in Auditing \/ cur' = cur
      /\ cur[w] \in TaskIds /\ ~IsStart(cur[w]) /\ \A t \in TaskIds : ~Starts(t)
  BY <1>0, WorkerNow
  DEF ReadTarget, StopTarget, MarkStopped, FinishStop, FailStop, WriteStopRecord,
      UpdateStatus, CreateStopRecord, tableVars, Keep, Stopping, Auditing, Starting, Starts, HoldsTaskOf
<1>2. pc'[w] \in {"idle"} \cup Stopping
  BY <1>1
  DEF ReadTarget, StopTarget, MarkStopped, FinishStop, FailStop, WriteStopRecord, Goto,
      Return, Stopping, Auditing
<1>3. ~Alive(cur[w])
  BY <1>1 DEF SoloInv, ContainersKnown, SlotRows
<1>4. ASSUME NEW t \in TaskIds, status'[t] # status[t]
      PROVE  ~Alive(t)' /\ status'[t] # "admitted"
  <2>1. CASE MarkStopped(w)
    <3>1. Dead(Target(w)) /\ container' = container
      BY <2>1 DEF MarkStopped, SoloInv, WorkerSawEnd
    <3>2. t = Target(w) /\ status'[t] = "stopped"
      BY <1>4, <2>1, <3>1, WorkerNow DEF MarkStopped, UpdateStatus, Dead
    <3> QED BY <3>1, <3>2 DEF Dead, Alive
  <2>2. CASE FinishStop(w) \/ FailStop(w)
    <3>1. t = cur[w] /\ container' = container /\ status'[t] \in Terminal
      BY <1>1, <1>4, <2>2, WorkerNow DEF FinishStop, FailStop, UpdateStatus, Terminal
    <3> QED BY <1>3, <3>1 DEF Alive, Terminal
  <2>3. CASE ReadTarget(w) \/ StopTarget(w) \/ WriteStopRecord(w)
    BY <1>4, <2>3 DEF ReadTarget, StopTarget, WriteStopRecord, CreateStopRecord, tableVars
  <2> QED BY <2>1, <2>2, <2>3
<1>5. \A t \in TaskIds : container'[t] # container[t] => ~Stubbed(t) /\ ~Alive(t)'
  BY <1>1, WorkContainers DEF Stopping, Auditing
<1>6. ContainersKnown'
  BY <1>1, <1>2, <1>4, <1>5, NoStartSeen DEF Stopping, Auditing, Starting
<1>7. \A t \in TaskIds : Dead(t) => Dead(t)'
  BY WorkDead
<1>8. ASSUME cur' = cur, Dead(Target(w)) PROVE Dead(Target(w))'
  <2>1. Target(w)' = Target(w) /\ Target(w) \in TaskIds
    BY <1>1, <1>8 DEF Target, Dead
  <2> QED BY <1>7, <1>8, <2>1 DEF Dead, Settled, Alive, IsStart
<1>9. ASSUME \/ pc'[w] = "idle" \/ pc'[w] = "failstop"
             \/ pc'[w] = "auditfail"
             \/ (pc'[w] = "stop" /\ seenRef'[w])
             \/ Dead(Target(w))'
      PROVE  ContainersKnown' /\ WorkerSawEnd'
  BY <1>0, <1>2, <1>6, <1>9 DEF WorkerSawEnd, Stopping, Auditing
<1>10. CASE ReadTarget(w)
  <2>1. CASE Stoppable(w) /\ ~runtimeRef[Target(w)]
    <3>1. /\ Target(w) \in TaskIds /\ Settled(Target(w)) /\ ~Alive(Target(w))
      BY <1>0, <1>1, <2>1
      DEF Stoppable, SlotRows, Settled, Past, Starts, SoloInv, ContainersKnown
    <3> QED BY <1>8, <1>9, <1>10, <3>1 DEF ReadTarget, Dead
  <2>2. CASE Stoppable(w) /\ runtimeRef[Target(w)]
    BY <1>1, <1>9, <1>10, <2>2 DEF ReadTarget, Goto
  <2>3. CASE ~Stoppable(w)
    BY <1>1, <1>9, <1>10, <2>3 DEF ReadTarget, Goto
  <2> QED BY <2>1, <2>2, <2>3
<1>11. CASE StopTarget(w)
  <2>1. StopOK(Target(w), seenRef[w]) /\ cur' = cur
    BY <1>11 DEF StopTarget, StopError, Alone, Keep
  <2>2. CASE ~seenRef[w]
    BY <1>8, <1>9, <1>11, <2>1, <2>2 DEF StopTarget, SoloInv, WorkerSawEnd
  <2>3. CASE seenRef[w]
    <3>1. Settled(Target(w)) /\ Target(w) \in TaskIds
      BY <1>11, <2>3, WorkerNow DEF StopTarget, HoldsTargetOf
    <3>2. CASE Stubbed(Target(w))
      <4>1. Dead(Target(w))
        BY <3>1, <3>2 DEF SoloInv, ContainersKnown, Dead, Alive
      <4> QED BY <1>8, <1>9, <2>1, <4>1
    <3>3. CASE ~Stubbed(Target(w))
      <4>1. container'[Target(w)] = "removed"
        BY <1>0, <2>1, <2>3, <3>1, <3>3 DEF StopOK, SetContainer
      <4>2. PICK t \in TaskIds : t = Target(w)
        BY <3>1
      <4>3. Settled(t)'
        BY <3>1, <4>2, EffectSettled, StepsOwn DEF StepOwn
      <4>4. Target(w)' = t
        BY <1>1, <2>1, <4>2 DEF Target
      <4> QED BY <1>9, <4>1, <4>2, <4>3, <4>4 DEF Dead, Settled, Alive, IsStart
    <3> QED BY <3>2, <3>3
  <2> QED BY <1>1, <2>2, <2>3 DEF OwnInv, TypeOK, WorkerTypeOK
<1>12. CASE MarkStopped(w)
  BY <1>8, <1>9, <1>12 DEF MarkStopped, Keep, SoloInv, WorkerSawEnd
<1>13. CASE FinishStop(w)
  BY <1>8, <1>9, <1>13 DEF FinishStop, Keep, SoloInv, WorkerSawEnd
<1>14. CASE FailStop(w)
  BY <1>1, <1>9, <1>14 DEF FailStop, Goto
<1>15. CASE WriteStopRecord(w)
  BY <1>1, <1>9, <1>15 DEF WriteStopRecord, Return, Goto
<1> QED BY <1>10, <1>11, <1>12, <1>13, <1>14, <1>15

LEMMA WorkSolo ==
  ASSUME SoloKnown, SoloInv, Alone, NEW w \in Workers, Work(w)
  PROVE  SoloInv'
<1>0. OwnInv /\ AuditInv /\ WorkerStep(w) /\ UNCHANGED <<restarts, sweeperVars, reconcilerVars>>
  BY DEF SoloKnown, Work
<1>1. ContainersKnown' /\ WorkerSawEnd'
  BY <1>0, DecideSeen, LaunchSeen, StopSeen DEF WorkerStep
<1>2. LoopsSawEnd'
  BY <1>0, WorkDead, SeenKept
<1>3. \A r \in restarts' : RestartInOrder(r)'
  BY <1>0, WorkRestart
<1>4. StopsDone'
  <2>1. req' = req /\ \A t \in TaskIds : Dead(t) => Dead(t)'
    BY <1>0, WorkDead, StepsOwn DEF StepOwn, WorkerEffect, RowsEffect
  <2>2. CASE UNCHANGED stopRecord
    BY <1>0, <2>1, <2>2, AdvanceStops
  <2>3. CASE WriteStopRecord(w)
    <3>1. ASSUME NEW s \in TaskIds, stopRecord'[s] = "ok" PROVE Dead(req[s].target)
      <4>1. CASE s = cur[w]
        BY <1>0, <2>3, <3>1, <4>1
        DEF WriteStopRecord, CreateStopRecord, SoloInv, WorkerSawEnd, Target, OwnInv, TypeOK,
            TableTypeOK
      <4>2. CASE s # cur[w]
        BY <1>0, <2>3, <3>1, <4>2
        DEF WriteStopRecord, CreateStopRecord, SoloInv, StopsDone, OwnInv, TypeOK, TableTypeOK
      <4> QED BY <4>1, <4>2
    <3> QED BY <2>1, <3>1 DEF StopsDone, Dead, Settled, Alive, IsStart
  <2> QED BY <1>0, <2>2, <2>3, RecordsWritten
<1> QED BY <1>1, <1>2, <1>3, <1>4 DEF SoloInv

LEMMA BackgroundSolo ==
  ASSUME SoloKnown, OwnInv', SoloInv, Alone, RowsAdvance, SoloAdvance, LoopsSawEnd',
         UNCHANGED <<workerVars, stopRecord>>, \A r \in restarts' : RestartInOrder(r)'
  PROVE  SoloInv'
<1>1. ContainersKnown' /\ WorkerSawEnd'
  BY AdvanceContainers, AdvanceSeen DEF SoloKnown
<1>2. StopsDone'
  BY AdvanceStops, AdvanceDead DEF SoloKnown, RowsAdvance
<1> QED BY <1>1, <1>2 DEF SoloInv

LEMMA SoloStep ==
  ASSUME Alone
  PROVE  SoloKnown /\ SoloKnown' /\ SoloInv /\ [Next]_vars => SoloInv'
<1> SUFFICES ASSUME SoloKnown, OwnInv', SoloInv, [Next]_vars PROVE SoloInv'
  BY DEF SoloKnown
<1>0. OwnInv
  BY DEF SoloKnown
<1>1. ASSUME NEW w \in Workers, Work(w) \/ DbFault(w) \/ Crash(w) PROVE SoloInv'
  BY <1>1, WorkSolo DEF DbFault, DbError, Crash, CrashWorker, Alone
<1>2. ASSUME SoloAdvance, LoopsSawEnd', UNCHANGED restarts,
             RowsAdvance /\ UNCHANGED workerVars, UNCHANGED stopRecord
      PROVE  SoloInv'
  BY <1>0, <1>2, AdvanceRestart, BackgroundSolo
<1>3. CASE Control
  BY <1>0, <1>3, BackgroundOwn, BackgroundRecords, BackgroundSolo, ControlSeen
<1>4. ASSUME NEW w \in Processes,
             Sweep(w) \/ Reconcile(w) \/ \E t \in TaskIds : ReapOrphan(w, t)
      PROVE  SoloInv'
  BY <1>0, <1>2, <1>4, BackgroundOwn, BackgroundRecords, SweepSeen, TickSeen, ReapSeen
  DEF Sweep, Reconcile, ReapOrphan
<1>5. CASE SweepAdmitted
  <2>1. SoloAdvance
    BY <1>0, <1>5
    DEF SweepAdmitted, AdmittedSweep, RevertAdmittedStuck, SoloAdvance, Terminal
  <2>2. RowsAdvance /\ UNCHANGED workerVars
    BY <1>0, <1>5, BackgroundOwn
  <2>3. LoopsSawEnd'
    BY <1>0, <1>5, <2>1, <2>2, AdvanceDead, SeenKept DEF SweepAdmitted, AdmittedSweep
  <2> QED BY <1>0, <1>2, <1>5, <2>1, <2>2, <2>3, BackgroundRecords DEF SweepAdmitted
<1>6. ASSUME NEW t \in TaskIds, Exit(t) PROVE SoloInv'
  <2>1. SoloAdvance
    BY <1>0, <1>6
    DEF Exit, ContainerExit, SetContainer, SoloAdvance, Alive, SoloInv, ContainersKnown,
        tableVars, OwnInv, TypeOK, RuntimeTypeOK
  <2>2. RowsAdvance /\ UNCHANGED workerVars
    BY <1>0, <1>6, BackgroundOwn
  <2>3. LoopsSawEnd'
    BY <1>0, <1>6, <2>1, <2>2, AdvanceDead, SeenKept DEF Exit
  <2> QED BY <1>0, <1>2, <1>6, <2>1, <2>2, <2>3, BackgroundRecords DEF Exit
<1>7. CASE UNCHANGED vars
  <2>1. SoloAdvance
    BY <1>0, <1>7, LoopWrites DEF vars
  <2>2. RowsAdvance /\ UNCHANGED workerVars
    BY <1>0, <1>7, StutterOwn
  <2>3. LoopsSawEnd'
    BY <1>0, <1>7, <2>1, <2>2, AdvanceDead, SeenKept DEF vars
  <2> QED BY <1>0, <1>2, <1>7, <2>1, <2>2, <2>3 DEF vars, tableVars
<1> QED BY <1>1, <1>3, <1>4, <1>5, <1>6, <1>7 DEF Next

LEMMA SoloInit == Init => SoloInv
<1> SUFFICES ASSUME Init PROVE SoloInv
  OBVIOUS
<1>1. ContainersKnown
  BY DEF Init, RuntimeInit, TableInit, WorkerInit, ContainersKnown, Alive
<1>2. LoopsSawEnd
  BY DEF Init, SweeperInit, ReconcilerInit, LoopsSawEnd
<1>3. WorkerSawEnd
  BY DEF Init, WorkerInit, WorkerSawEnd
<1>4. StopsDone /\ restarts = {}
  BY DEF Init, TableInit, ControllerInit, StopsDone
<1> QED BY <1>1, <1>2, <1>3, <1>4 DEF SoloInv

LEMMA SoloInvariance ==
  ASSUME Faults = {}, Cardinality(Workers) = 1
  PROVE  Spec => [](OwnInv /\ SoloInv)
<1>1. Alone
  <2>1. PICK w : Workers = {w}
    BY WorkerAssumption, FS_Singleton
  <2> QED BY <2>1 DEF Alone
<1>2. SoloKnown /\ SoloKnown' /\ SoloInv /\ [Next]_vars => SoloInv'
  BY <1>1, SoloStep
<1>3. Spec => []HeldInv
  BY HeldInvariance
<1>4. Spec => []SoloKnown
  BY <1>3, Ownership, AuditInvariance, PTL DEF SoloKnown
<1> QED BY <1>2, <1>4, SoloInit, Ownership, PTL DEF Spec

----------------------------------------------------------------------------
(* What follows. *)

\* With one worker and no faults, every live container is accounted for, by a row that
\* occupies a slot or by the worker that is starting it.
THEOREM ContainersAreAccounted ==
  ASSUME Faults = {}, Cardinality(Workers) = 1
  PROVE  Spec => []ContainersAccounted
<1>1. OwnInv /\ SoloInv => ContainersAccounted
  BY DEF SoloInv, ContainersKnown, ContainersAccounted, Starts
<1>2. Spec => [](OwnInv /\ SoloInv)
  BY SoloInvariance
<1> QED BY <1>1, <1>2, PTL

\* With one worker and no faults, a stop request recorded as ok leaves no container
\* behind, whoever else writes the row of its target meanwhile.
THEOREM StopsAreEffective ==
  ASSUME Faults = {}, Cardinality(Workers) = 1
  PROVE  Spec => []StopEffective
<1>1. OwnInv /\ SoloInv => StopEffective
  BY DEF SoloInv, StopsDone, StopEffective, Dead
<1>2. Spec => [](OwnInv /\ SoloInv)
  BY SoloInvariance
<1> QED BY <1>1, <1>2, PTL

\* With one worker and no faults, the container a restart replaces is gone when its
\* clone's is there: the stop request is the older row, and nobody overtakes it.
THEOREM RestartsReplace ==
  ASSUME Faults = {}, Cardinality(Workers) = 1
  PROVE  Spec => []RestartReplaces
<1>1. OwnInv /\ SoloInv => RestartReplaces
  <2> SUFFICES ASSUME OwnInv, SoloInv, NEW r \in restarts, r.clone # NoTask, Alive(r.clone)
               PROVE  ~Alive(req[r.stop].target)
    BY DEF RestartReplaces
  <2>1. r.clone \in TaskIds
    BY DEF OwnInv, TypeOK, ControllerTypeOK
  <2>2. status[r.clone] # "pending"
    BY <2>1 DEF OwnInv, ContainersFresh, Alive, Past, SlotStatuses, Terminal
  <2> QED BY <2>2 DEF SoloInv, RestartInOrder, Dead
<1>2. Spec => [](OwnInv /\ SoloInv)
  BY SoloInvariance
<1> QED BY <1>1, <1>2, PTL
=============================================================================
