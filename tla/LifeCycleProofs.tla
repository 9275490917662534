--------------------------- MODULE LifeCycleProofs -------------------------
(***************************************************************************)
(* Scheduler implements LifeCycle.  A step either leaves the containers    *)
(* alone, and then moves a row along its stages (RowMove), or it changes   *)
(* one container and no row (ContainerMove).                               *)
(***************************************************************************)
EXTENDS OwnershipProofs, Implementation

\* The stage of a row after a step, given what it was.
RowMove(t) ==
  \/ status[t] = "none" /\ status'[t] \in {"none", "pending"} /\ ~Launching(t)'
  \/ /\ status[t] \in {"pending", "processing"}
     /\ IsStart(t)' = IsStart(t)
     /\ \/ status'[t] \in {"pending", "processing"}
        \/ status'[t] \in SlotStatuses /\ IsStart(t)
        \/ status'[t] \in Terminal /\ ~IsStart(t) /\ ~Launching(t)'
  \/ /\ status[t] \in Past /\ status'[t] \in Past
     /\ IsStart(t)' = IsStart(t)
     /\ ~Launching(t) =>
          ~Launching(t)' /\ (status[t] \in Terminal => status'[t] \in Terminal)

\* What may happen to the container of row t, by whom.
Creates(t) ==
  /\ Launching(t) /\ status[t] \in Past
  /\ container[t] = "none" /\ container'[t] = "created"
StartsRun(t) ==
  /\ \E w \in Workers : cur[w] = t /\ pc[w] = "start" /\ pc'[w] # "start"
  /\ container[t] = "created" /\ status[t] \in Past
  /\ container'[t] \in {"created", "running", "removed"}
Ends(t) ==
  /\ Settled(t) \/ container[t] = "running"
  /\ status[t] \in Past
  /\ container'[t] \in ContainerState \ {"none", "created", "running"}

ContainerMove ==
  /\ UNCHANGED tableVars
  /\ \A t \in TaskIds : Launching(t)' = Launching(t)
  /\ \A t \in TaskIds : \/ container'[t] = container[t]
                        \/ Creates(t) \/ StartsRun(t) \/ Ends(t)

RowsMove == UNCHANGED container /\ \A t \in TaskIds : RowMove(t)

----------------------------------------------------------------------------
(* Both are steps of LifeCycle. *)

LEMMA StatusNow ==
  ASSUME OwnInv, NEW t \in TaskIds
  PROVE  \/ status[t] = "none" \/ status[t] \in {"pending", "processing"}
         \/ status[t] \in SlotStatuses \/ status[t] \in Terminal
BY DEF OwnInv, TypeOK, TableTypeOK, Status

LEMMA RowMoveLives ==
  ASSUME OwnInv, UNCHANGED container, NEW t \in TaskIds, RowMove(t)
  PROVE  [Life(t)!Next]_(Life(t)!vars)
<1>1. VmOf(t)' = VmOf(t)
  BY DEF VmOf, Alive
<1>2. CASE status[t] = "none"
  BY <1>1, <1>2
  DEF RowMove, Past, SlotStatuses, Terminal, KindOf, StageOf, Life!Next, Life!Submit,
      Life!Enter, Life!vars
<1>3. CASE status[t] \in {"pending", "processing"}
  <2>1. StageOf(t) = "queued" /\ KindOf(t)' = KindOf(t)
    BY <1>3 DEF RowMove, KindOf, StageOf, Past, SlotStatuses, Terminal
  <2>2. \/ StageOf(t)' = "queued"
        \/ StageOf(t)' \in {"launching", "live"} /\ KindOf(t) = "start"
        \/ StageOf(t)' = "over" /\ KindOf(t) = "stop"
    BY <1>3 DEF RowMove, KindOf, StageOf, Past, SlotStatuses, Terminal
  <2> QED BY <1>1, <2>1, <2>2 DEF Life!Next, Life!Admit, Life!Answer, Life!Enter, Life!vars
<1>4. CASE status[t] \in Past
  <2>1. KindOf(t)' = KindOf(t)
    BY <1>4 DEF RowMove, KindOf, Past, SlotStatuses, Terminal
  <2>2. \/ StageOf(t)' = StageOf(t)
        \/ StageOf(t) = "launching" /\ StageOf(t)' \in {"live", "over"}
        \/ StageOf(t) = "live" /\ StageOf(t)' = "over"
    BY <1>4 DEF RowMove, StageOf, Past, SlotStatuses, Terminal
  <2> QED BY <1>1, <2>1, <2>2 DEF Life!Next, Life!LetGo, Life!End, Life!Enter, Life!vars
<1> QED BY <1>2, <1>3, <1>4, StatusNow DEF Past

LEMMA ContainerMoveLives ==
  ASSUME OwnInv, ContainerMove, NEW t \in TaskIds
  PROVE  [Life(t)!Next]_(Life(t)!vars)
<1>1. KindOf(t)' = KindOf(t) /\ StageOf(t)' = StageOf(t)
  BY DEF ContainerMove, tableVars, KindOf, StageOf, IsStart
<1>2. CASE container'[t] = container[t]
  BY <1>1, <1>2 DEF VmOf, Alive, Life!vars
<1>3. CASE Creates(t)
  <2>1. StageOf(t) = "launching"
    BY <1>3 DEF Creates, StageOf, Past, SlotStatuses, Terminal
  <2>2. VmOf(t) = "none" /\ VmOf(t)' = "up"
    BY <1>3 DEF Creates, VmOf, Alive
  <2> QED BY <1>1, <2>1, <2>2 DEF Life!Next, Life!Launch
<1>4. CASE StartsRun(t)
  <2>1. StageOf(t) \in {"launching", "live", "over"}
    BY <1>4 DEF StartsRun, StageOf, Past, SlotStatuses, Terminal
  <2>2. VmOf(t) = "up" /\ VmOf(t)' \in {"up", "gone"}
    BY <1>4 DEF StartsRun, VmOf, Alive
  <2> QED BY <1>1, <2>1, <2>2 DEF Life!Next, Life!Vanish, Life!vars
<1>5. CASE Ends(t)
  <2>1. StageOf(t) \in {"launching", "live", "over"}
    BY <1>5 DEF Ends, StageOf, Past, SlotStatuses, Terminal
  <2>2. VmOf(t)' = "gone"
    BY <1>5 DEF Ends, VmOf, Alive
  <2> QED BY <1>1, <2>1, <2>2 DEF Life!Next, Life!Vanish
<1> QED BY <1>2, <1>3, <1>4, <1>5 DEF ContainerMove

----------------------------------------------------------------------------
(* The steps of controllers, background loops and workloads. *)

LEMMA AdvanceMoves ==
  ASSUME OwnInv, RowsAdvance, UNCHANGED workerVars, UNCHANGED container
  PROVE  RowsMove
<1> SUFFICES ASSUME NEW t \in TaskIds PROVE RowMove(t)
  BY DEF RowsMove
<1>1. Launching(t)' = Launching(t)
  BY DEF workerVars, Launching
<1>2. CASE status[t] = "none"
  <2>1. ~Launching(t)
    BY <1>2, WorkerNow
    DEF Launching, HoldsTaskOf, Starting, Past, SlotStatuses, Terminal
  <2> QED BY <1>1, <1>2, <2>1 DEF RowsAdvance, RowMove
<1>3. CASE status[t] # "none"
  BY <1>1, <1>3, StatusNow DEF RowsAdvance, RowMove, IsStart, Past
<1> QED BY <1>2, <1>3

LEMMA StopMoves ==
  ASSUME OwnInv, NEW t \in TaskIds, Settled(t), NEW ref, StopOK(t, ref) \/ StopError(t, ref),
         UNCHANGED tableVars, \A u \in TaskIds : Launching(u)' = Launching(u)
  PROVE  ContainerMove
<1>1. UNCHANGED container \/ \E s \in {"exitedN", "removed"} : SetContainer(t, s)
  BY DEF StopOK, StopError
<1>2. status[t] \in Past /\ DOMAIN container = TaskIds
  BY DEF Settled, OwnInv, TypeOK, RuntimeTypeOK
<1>3. CASE UNCHANGED container
  BY <1>3 DEF ContainerMove
<1>4. ASSUME NEW s \in {"exitedN", "removed"}, SetContainer(t, s) PROVE ContainerMove
  <2>1. ASSUME NEW u \in TaskIds PROVE container'[u] = container[u] \/ Ends(u)
    BY <1>2, <1>4 DEF SetContainer, Ends, ContainerState
  <2> QED BY <2>1 DEF ContainerMove
<1> QED BY <1>1, <1>3, <1>4

LEMMA LaunchingKept ==
  UNCHANGED workerVars => \A u \in TaskIds : Launching(u)' = Launching(u)
BY DEF workerVars, Launching

LEMMA ExitMoves ==
  ASSUME OwnInv, NEW t \in TaskIds, Exit(t)
  PROVE  ContainerMove
<1>1. UNCHANGED tableVars /\ UNCHANGED workerVars
  BY DEF Exit
<1>2. PICK s \in {"exited0", "exitedN", "removed"} :
        container[t] = "running" /\ SetContainer(t, s)
  BY DEF Exit, ContainerExit
<1>3. status[t] \in Past /\ DOMAIN container = TaskIds
  BY <1>2 DEF OwnInv, ContainersFresh, TypeOK, RuntimeTypeOK
<1>4. ASSUME NEW u \in TaskIds PROVE container'[u] = container[u] \/ Ends(u)
  BY <1>2, <1>3 DEF SetContainer, Ends, ContainerState
<1> QED BY <1>1, <1>4, LaunchingKept DEF ContainerMove

LEMMA BackgroundMoves ==
  ASSUME OwnInv,
         \/ Control
         \/ \E w \in Processes : \/ Sweep(w) \/ Reconcile(w)
                                 \/ \E t \in TaskIds : ReapOrphan(w, t)
         \/ SweepAdmitted
         \/ \E t \in TaskIds : Exit(t)
  PROVE  RowsMove \/ ContainerMove
<1>1. RowsAdvance /\ UNCHANGED workerVars
  BY BackgroundOwn
<1>2. CASE UNCHANGED container
  BY <1>1, <1>2, AdvanceMoves
<1>3. ASSUME NEW w \in Processes, SweepStop(w) PROVE ContainerMove
  <2>1. PICK t \in overdue[w] : StopOK(t, TRUE) \/ StopError(t, TRUE)
    BY <1>3 DEF SweepStop
  <2> QED BY <1>1, <1>3, <2>1, CopiesNow, StopMoves, LaunchingKept DEF SweepStop
<1>4. ASSUME NEW w \in Processes, NEW t \in TaskIds, ReapStop(w, t)
      PROVE  UNCHANGED container \/ ContainerMove
  <2>1. Settled(t)
    BY <1>4, CopiesNow DEF ReapStop, Finished
  <2> QED BY <1>1, <1>4, <2>1, StopMoves, LaunchingKept DEF ReapStop
<1>5. ASSUME NEW w \in Processes, Sweep(w), ~SweepStop(w) PROVE UNCHANGED container
  BY <1>5 DEF Sweep, SweeperStep, ListOverdue, SweepClear, SweepFail
<1>6. ASSUME NEW w \in Processes, NEW t \in TaskIds, ReapOrphan(w, t), ~ReapStop(w, t)
      PROVE  UNCHANGED container
  BY <1>6 DEF ReapOrphan, Reap, ReapLook, ReapClear
<1>7. ASSUME NEW w \in Processes, Reconcile(w) PROVE UNCHANGED container
  BY <1>7 DEF Reconcile, Tick, TickList, TickInspect, TickUpdate, ReapList
<1>8. Control \/ SweepAdmitted => UNCHANGED container
  BY DEF Control, SweepAdmitted, AdmittedSweep
<1> QED BY <1>2, <1>3, <1>4, <1>5, <1>6, <1>7, <1>8, ExitMoves

----------------------------------------------------------------------------
(* The steps of a worker. *)

\* What a step of w does to the row it holds while that is queued.
LEMMA QueuedMoves ==
  ASSUME OwnInv, NEW w \in Workers, WorkerStep(w) \/ DbError(w) \/ CrashWorker(w),
         cur[w] \in TaskIds, status[cur[w]] \notin Past
  PROVE  \/ status'[cur[w]] \in {"pending", "processing"}
         \/ status'[cur[w]] \in SlotStatuses /\ IsStart(cur[w])
         \/ /\ status'[cur[w]] \in Terminal /\ ~IsStart(cur[w])
            /\ pc'[w] \notin Starting
<1>1. /\ status[cur[w]] \in {"pending", "processing"} /\ pc[w] \notin Starting
      /\ pc[w] = "claim" => status[cur[w]] = "pending"
  BY WorkerNow, TaskAssumption
  DEF HoldsTaskOf, Deciding, Stopping, Auditing, OwnInv, TypeOK, WorkerTypeOK, NoTask, Past,
      SlotStatuses, Terminal
<1>2. CASE status'[cur[w]] = status[cur[w]]
  BY <1>1, <1>2
<1>3. CASE ClaimCommit(w) \/ ResetToPending(w)
  BY <1>3, WorkerNow DEF ClaimCommit, ResetToPending, TrySetStatus, UpdateStatus
<1>4. CASE CommitAdmission(w)
  BY <1>4, WorkerNow
  DEF CommitAdmission, TrySetStatus, UpdateStatus, Goto, Keep, HoldsTaskOf, SlotStatuses,
      Starting, Deciding
<1>5. CASE FinishStop(w) \/ FailStop(w)
  BY <1>5, WorkerNow
  DEF FinishStop, FailStop, UpdateStatus, Goto, HoldsTaskOf, Terminal, Starting, Stopping, Auditing
<1>6. CASE RecordRunning(w) \/ FailStart(w)
  BY <1>1, <1>6 DEF RecordRunning, FailStart, Starting
<1>7. CASE MarkStopped(w)
  BY <1>2, <1>7, WorkerNow
  DEF MarkStopped, UpdateStatus, HoldsTaskOf, HoldsTargetOf, Stopping, Auditing
<1>8. CASE UNCHANGED tableVars \/ WriteStopRecord(w)
  BY <1>2, <1>8 DEF tableVars, WriteStopRecord, CreateStopRecord
<1>9. CASE AnswerLost(w)
  <2>1. CASE pc[w] = "mark"
    BY <1>2, <1>9, <2>1, WorkerNow
    DEF AnswerLost, UpdateStatus, HoldsTaskOf, HoldsTargetOf, Stopping, Auditing
  <2>2. CASE pc[w] # "mark"
    BY <1>9, <2>2, WorkerNow
    DEF AnswerLost, TrySetStatus, UpdateStatus, Return, Goto, HoldsTaskOf, SlotStatuses,
        Terminal, Starting, Deciding, Stopping, Auditing
  <2> QED BY <2>1, <2>2
<1> QED BY <1>3, <1>4, <1>5, <1>6, <1>7, <1>8, <1>9
        DEF WorkerStep, DbError, StatementFails, CrashWorker, ClaimLock, CountTotal, ApplyPolicy, CheckGPU,
            ResourceCheck, CreateContainer, StartContainer, ReadTarget, StopTarget

LEMMA WorkRows ==
  ASSUME OwnInv, NEW w \in Workers, WorkerStep(w) \/ DbError(w) \/ CrashWorker(w),
         UNCHANGED container
  PROVE  RowsMove
<1> SUFFICES ASSUME NEW t \in TaskIds PROVE RowMove(t)
  BY DEF RowsMove
<1>1. WorkerEffect(w)
  BY StepsOwn DEF StepOwn
<1>2. IsStart(t)' = IsStart(t)
  BY <1>1 DEF WorkerEffect, RowsEffect, IsStart
<1>3. ASSUME NEW v \in Workers, cur'[v] = t, pc'[v] \in Starting
      PROVE  \/ cur[v] = t /\ pc[v] \in Starting
             \/ cur[w] = t /\ status[t] \notin Past
  BY <1>1, <1>3 DEF WorkerEffect, MemoryEffect
<1>4. ASSUME NEW v \in Workers, cur[v] = t, pc[v] \in Starting
      PROVE  status[t] \in Past /\ IsStart(t)
  BY <1>4, WorkerNow DEF HoldsTaskOf
<1>5. CASE status[t] \in Past
  <2>1. status'[t] \in Past
    BY <1>1, <1>5 DEF WorkerEffect, RowsEffect
  <2>2. ~Launching(t) => ~Launching(t)'
    BY <1>3, <1>5 DEF Launching
  <2>3. ASSUME ~Launching(t), status[t] \in Terminal PROVE status'[t] \in Terminal
    <3>1. CASE IsStart(t)
      BY <1>1, <1>5, <2>3, <3>1 DEF WorkerEffect, RowsEffect, Finished, Settled, Launching
    <3>2. CASE ~IsStart(t) /\ t # cur[w]
      BY <1>1, <2>3, <3>2 DEF WorkerEffect, RowsEffect
    <3>3. CASE ~IsStart(t) /\ t = cur[w]
      <4>1. pc[w] \in Auditing
        BY <1>5, <3>3, WorkerNow, TaskAssumption
        DEF HoldsTaskOf, Deciding, Starting, Stopping, Auditing, OwnInv, TypeOK, WorkerTypeOK,
            NoTask, Past, SlotStatuses, Terminal
      <4>2. status' = status
        BY <4>1
        DEF Auditing, WorkerStep, DbError, StatementFails, AnswerLost, CrashWorker, ClaimLock, ClaimCommit, CountTotal,
            ApplyPolicy, CheckGPU, CommitAdmission, ResetToPending, ResourceCheck,
            CreateContainer, StartContainer, RecordRunning, FailStart, ReadTarget,
            StopTarget, MarkStopped, FinishStop, FailStop, WriteStopRecord,
            CreateStopRecord, tableVars
      <4> QED BY <2>3, <4>2
    <3> QED BY <3>1, <3>2, <3>3
  <2> QED BY <1>2, <1>5, <2>1, <2>2, <2>3 DEF RowMove
<1>6. CASE status[t] \notin Past /\ t # cur[w]
  <2>1. status'[t] = status[t]
    BY <1>1, <1>6 DEF WorkerEffect, RowsEffect
  <2>2. ~Launching(t)'
    BY <1>3, <1>4, <1>6 DEF Launching
  <2> QED BY <1>2, <1>6, <2>1, <2>2, StatusNow DEF RowMove, Past
<1>7. CASE status[t] \notin Past /\ t = cur[w]
  <2>1. status[t] \in {"pending", "processing"}
    BY <1>7, WorkerNow, TaskAssumption
    DEF HoldsTaskOf, Deciding, Starting, Stopping, Auditing, OwnInv, TypeOK, WorkerTypeOK, NoTask,
        Past, SlotStatuses, Terminal
  <2>2. pc'[w] \notin Starting => ~Launching(t)'
    BY <1>3, <1>4, <1>1, <1>7 DEF Launching, WorkerEffect, MemoryEffect
  <2>3. pc'[w] \in Starting /\ cur'[w] = cur[w] => Launching(t)'
    BY <1>7 DEF Launching
  <2> QED BY <1>2, <1>7, <2>1, <2>2, <2>3, QueuedMoves DEF RowMove
<1> QED BY <1>5, <1>6, <1>7

LEMMA LaunchMoves ==
  ASSUME LifeInv, NEW w \in Workers, CreateContainer(w) \/ StartContainer(w)
  PROVE  UNCHANGED container \/ ContainerMove
<1>0. /\ OwnInv /\ cur[w] \in TaskIds /\ cur' = cur /\ UNCHANGED tableVars
      /\ status[cur[w]] \in Past
      /\ DOMAIN container = TaskIds /\ DOMAIN pc = Workers
  BY WorkerNow
  DEF LifeInv, CreateContainer, StartContainer, Keep, HoldsTaskOf, Starting
<1>1. PICK step \in {"start", "record", "fail"} : Goto(w, step)
  BY DEF CreateContainer, StartContainer
<1>2. pc[w] \in Starting /\ pc'[w] \in Starting \ {"create"}
      /\ \A v \in Workers : v # w => pc'[v] = pc[v]
  BY <1>0, <1>1 DEF Goto, CreateContainer, StartContainer, Starting
<1>3. \A t \in TaskIds : Launching(t)' = Launching(t)
  BY <1>0, <1>2 DEF Launching
<1>4. ASSUME NEW s, SetContainer(cur[w], s), \/ CreateContainer(w) /\ s = "created"
                                           \/ StartContainer(w)
      PROVE  ContainerMove
  <2>1. CASE CreateContainer(w) /\ s = "created"
    <3>1. Creates(cur[w])
      BY <1>0, <1>2, <1>4, <2>1, WorkerNow
      DEF CreateContainer, HasNoContainer, SetContainer, Creates, Launching
    <3> QED BY <1>0, <1>3, <1>4, <3>1 DEF ContainerMove, SetContainer
  <2>2. CASE StartContainer(w)
    <3>1. container[cur[w]] = "created" /\ pc[w] = "start" /\ pc'[w] # "start"
      BY <1>0, <2>2 DEF LifeInv, StartsCreated, StartContainer, Goto
    <3>2. container'[cur[w]] \in {"created", "running", "removed"}
      BY <1>0, <2>2 DEF StartContainer, SetContainer
    <3>3. StartsRun(cur[w])
      BY <1>0, <3>1, <3>2 DEF StartsRun
    <3> QED BY <1>0, <1>3, <1>4, <3>3 DEF ContainerMove, SetContainer
  <2> QED BY <1>4, <2>1, <2>2
<1> QED BY <1>4 DEF CreateContainer, StartContainer

LEMMA WorkMoves ==
  ASSUME LifeInv, NEW w \in Workers, WorkerStep(w) \/ DbError(w) \/ CrashWorker(w)
  PROVE  RowsMove \/ ContainerMove
<1>0. OwnInv
  BY DEF LifeInv
<1>1. CASE UNCHANGED container
  BY <1>0, <1>1, WorkRows
<1>2. CASE CreateContainer(w) \/ StartContainer(w)
  BY <1>1, <1>2, LaunchMoves
<1>3. CASE StopTarget(w)
  <2>1. /\ Target(w) \in TaskIds /\ (seenRef[w] => Settled(Target(w)))
        /\ pc[w] = "stop" /\ cur' = cur
    BY <1>0, <1>3, WorkerNow DEF StopTarget, HoldsTargetOf, Keep
  <2>2. \A t \in TaskIds : Launching(t)' = Launching(t)
    BY <1>0, <1>3, <2>1, WorkerNow DEF StopTarget, Goto, Launching, Starting
  <2>3. UNCHANGED tableVars /\ (seenRef[w] \/ UNCHANGED container)
    BY <1>3 DEF StopTarget, StopOK, StopError
  <2> QED BY <1>0, <1>1, <1>3, <2>1, <2>2, <2>3, StopMoves DEF StopTarget
<1> QED BY <1>1, <1>2, <1>3
        DEF WorkerStep, DbError, StatementFails, AnswerLost, CrashWorker, ClaimLock, ClaimCommit, CountTotal,
            ApplyPolicy, CheckGPU, CommitAdmission, ResetToPending, ResourceCheck,
            RecordRunning, FailStart, ReadTarget, MarkStopped, FinishStop, FailStop,
            WriteStopRecord

LEMMA NextMoves ==
  ASSUME LifeInv, [Next]_vars
  PROVE  RowsMove \/ ContainerMove
<1>0. OwnInv
  BY DEF LifeInv
<1>1. CASE UNCHANGED vars
  BY <1>0, <1>1, StutterOwn, AdvanceMoves DEF vars
<1>2. ASSUME NEW w \in Workers, Work(w) \/ DbFault(w) \/ Crash(w)
      PROVE  RowsMove \/ ContainerMove
  BY <1>2, WorkMoves DEF Work, DbFault, Crash
<1> QED BY <1>0, <1>1, <1>2, BackgroundMoves DEF Next

----------------------------------------------------------------------------
(* StartsCreated is inductive. *)

LEMMA StartStep ==
  ASSUME LifeInv, [Next]_vars, NEW v \in Workers, pc'[v] = "start"
  PROVE  container'[cur'[v]] = "created"
<1>0. OwnInv
  BY DEF LifeInv
<1>1. CASE CreateContainer(v)
  BY <1>0, <1>1, WorkerNow DEF CreateContainer, Goto, SetContainer, Keep
<1>2. CASE ~CreateContainer(v)
  <2>1. pc[v] = "start" /\ cur'[v] = cur[v]
    <3>1. ASSUME NEW w \in Workers, Work(w) \/ DbFault(w) \/ Crash(w)
          PROVE  pc[v] = "start" /\ cur'[v] = cur[v]
      <4>1. CASE v # w
        BY <1>0, <3>1, <4>1, WorkOwn DEF StepOwn, WorkerEffect, MemoryEffect
      <4>2. CASE v = w
        <5>1. Return(w) \/ \E step : step # "start" /\ Goto(w, step)
          BY <1>2, <3>1, <4>2
          DEF Work, DbFault, Crash, WorkerStep, DbError, StatementFails, AnswerLost, CrashWorker, ClaimLock,
              ClaimCommit, CountTotal, ApplyPolicy, CheckGPU, CommitAdmission,
              ResetToPending, ResourceCheck, CreateContainer, StartContainer,
              RecordRunning, FailStart, ReadTarget, StopTarget, MarkStopped, FinishStop,
              FailStop, WriteStopRecord
        <5>2. pc'[w] # "start"
          BY <1>0, <5>1, WorkerNow DEF Return, Goto
        <5> QED BY <4>2, <5>2
      <4> QED BY <4>1, <4>2
    <3>2. CASE UNCHANGED workerVars
      BY <3>2 DEF workerVars
    <3> QED BY <1>0, <3>1, <3>2, BackgroundOwn, StutterOwn DEF Next
  <2>2. container[cur[v]] = "created" /\ cur[v] \in TaskIds /\ ~Settled(cur[v])
    BY <1>0, <2>1, WorkerNow DEF LifeInv, StartsCreated, Settled, Starting
  <2>3. ~Creates(cur[v]) /\ ~Ends(cur[v])
    BY <2>2 DEF Creates, Ends
  <2>4. ~StartsRun(cur[v])
    BY <1>0, <2>1, <2>2, TaskAssumption DEF StartsRun, OwnInv, ExclusiveClaim, NoTask
  <2>5. container'[cur[v]] = container[cur[v]]
    BY <2>2, <2>3, <2>4, NextMoves DEF RowsMove, ContainerMove
  <2> QED BY <2>1, <2>2, <2>5
<1> QED BY <1>1, <1>2

LEMMA LifeInit == Init => LifeInv
BY OwnInit DEF Init, WorkerInit, LifeInv, StartsCreated

THEOREM LifeInvariance == Spec => []LifeInv
<1>1. LifeInv /\ [Next]_vars => LifeInv'
  BY OwnStep, StartStep DEF LifeInv, StartsCreated
<1> QED BY <1>1, LifeInit, PTL DEF Spec

----------------------------------------------------------------------------
(* The refinement. *)

LEMMA LifeStarts ==
  ASSUME Init, NEW t \in TaskIds
  PROVE  Life(t)!Init
<1>1. status[t] = "none" /\ container[t] = "none"
  BY DEF Init, TableInit, RuntimeInit
<1> QED BY <1>1 DEF Life!Init, KindOf, StageOf, VmOf, Past, SlotStatuses, Terminal

LEMMA LifeSteps ==
  ASSUME LifeInv, [Next]_vars, NEW t \in TaskIds
  PROVE  [Life(t)!Next]_(Life(t)!vars)
BY NextMoves, RowMoveLives, ContainerMoveLives DEF LifeInv, RowsMove

\* Each task lives the life that LifeCycle describes, for any number of workers and
\* tasks, and whatever fails.
THEOREM TaskImplementsLife ==
  ASSUME NEW t \in TaskIds
  PROVE  Spec => Life(t)!Spec
<1>1. Init => Life(t)!Init
  BY LifeStarts
<1>2. LifeInv /\ [Next]_vars => [Life(t)!Next]_(Life(t)!vars)
  BY LifeSteps
<1> QED BY <1>1, <1>2, LifeInvariance, PTL DEF Spec, Life!Spec

\* The same of all tasks together, in the form TLC checks.
THEOREM SchedulerImplementsLives == Spec => LivesAsPromised
<1>1. Init => \A t \in TaskIds : Life(t)!Init
  BY LifeStarts
<1>2. LifeInv /\ [Next]_vars =>
        [\A t \in TaskIds : [Life(t)!Next]_(Life(t)!vars)]_vars
  BY LifeSteps
<1> QED BY <1>1, <1>2, LifeInvariance, PTL DEF Spec, LivesAsPromised
=============================================================================
