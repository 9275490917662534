------------------------ MODULE LogCollectionProofs ------------------------
(***************************************************************************)
(* The end of a log is in the table by the time its row says succeeded,    *)
(* for any number of workers and processes (EndInv), and one process       *)
(* skips no line by what it asks for (GapInv).  Both rest on this: a task  *)
(* whose container has been seen to end is Dead, and stays so; its         *)
(* container writes nothing more.                                          *)
(***************************************************************************)
EXTENDS LogCollection, OwnershipProofs

LogTypeOK ==
  /\ written \in [TaskIds -> Nat]
  /\ stored \in [TaskIds -> SUBSET Nat] /\ lost \in [TaskIds -> SUBSET Nat]
  /\ since \in [Processes -> [TaskIds -> Int]]
  /\ look \in [Processes -> [now : [TaskIds -> Nat] \cup {<<>>},
                             todo : SUBSET TaskIds, batch : SUBSET (TaskIds \X Nat)]]
  /\ \A w \in Processes : look[w].todo # {} => look[w].now \in [TaskIds -> Nat]
  /\ owed \in [Flushers -> TaskIds \cup {NoTask}]

\* Only docker tasks have containers, and a sweeper that is not at a row has forgotten
\* the last one.
DockerOnly ==
  /\ \A t \in TaskIds : container[t] # "none" => IsStart(t) /\ ~Stubbed(t)
  /\ \A w \in Workers : pc[w] = "start" => ~Stubbed(cur[w])
  /\ \A w \in Processes : sweepPc[w] = "stop" => sweepItem[w] = NoTask

\* The last lines of t are in the table, if there still are any.
EndKept(t) == Readable(t) => Scan(t, LastLines(t, FlushTail)) \subseteq stored[t]

\* Whoever owes the last lines of a task owes those of a dead one; where no
\* last fetch fails, a reconciler that is about to write an end has collected them, or
\* owes them.
EndInv ==
  /\ \A s \in Flushers : owed[s] # NoTask => Dead(owed[s])
  /\ \A w \in Processes : verdict[w] # NoVerdict =>
       /\ Dead(verdict[w].task)
       /\ \/ owed[<<w, "tick">>] = verdict[w].task
          \/ "flush" \notin Losses => EndKept(verdict[w].task)
  /\ \A t \in TaskIds :
       status[t] = "succeeded" /\ IsStart(t) =>
         Dead(t) /\ ("flush" \notin Losses => EndKept(t))

\* What NothingSkipped speaks of: the lines that were asked for.  Before a container has
\* an entry in sinceByID, those can only be its last lines, and then it is dead.
WasAsked(w, t) ==
  stored[t] \cup lost[t] \cup {n \in 1 .. MaxLines : <<t, n>> \in look[w].batch}

GapInvOf(w, t) ==
  /\ written[t] <= MaxLines
  /\ WasAsked(w, t) \subseteq 1 .. written[t]
  /\ since[w][t] \in -1 .. written[t]
  /\ look[w].todo # {} => look[w].now[t] <= written[t]
  /\ since[w][t] = -1 =>
       \A m \in WasAsked(w, t) : Dead(t) /\ m .. written[t] \subseteq WasAsked(w, t)
  /\ \A m \in WasAsked(w, t) : m + 1 .. since[w][t] \subseteq WasAsked(w, t)

GapInv == \A w \in Processes, t \in TaskIds : GapInvOf(w, t)

----------------------------------------------------------------------------
(* Logs add to the scheduler's behaviour, and change nothing of it. *)

LEMMA LogSteps == [LogNext]_<<vars, logVars>> => [Next]_vars
BY DEF LogNext, Next, WorkAndLog, ReconcileAndLog, SweepAndLog, ReapAndLog, LogLoop, LookBegin,
   LookFetch, LookInsert, WriteLine, FinalFlush

LEMMA LogKnown == LogSpec => []OwnInv
<1>1. LogInit => Init
  BY DEF LogInit
<1>2. LogSpec => Spec
  BY <1>1, LogSteps, PTL DEF LogSpec, Spec
<1> QED BY <1>2, Ownership, PTL

----------------------------------------------------------------------------
(* Containers. *)

\* No statement changes the request of a row that exists.
LEMMA RequestsKept ==
  ASSUME OwnInv, [Next]_vars
  PROVE  /\ \A t \in TaskIds : status[t] # "none" => req'[t] = req[t]
         /\ \A t \in TaskIds : Settled(t) => Settled(t)'
<1>1. CASE \E w \in Workers : Work(w) \/ DbFault(w) \/ Crash(w)
  BY <1>1, WorkOwn, EffectSettled DEF StepOwn, WorkerEffect, RowsEffect
<1>2. CASE RowsAdvance /\ UNCHANGED workerVars
  BY <1>2, AdvanceSettled DEF RowsAdvance
<1> QED BY <1>1, <1>2, BackgroundOwn, StutterOwn DEF Next

\* A step that changes the container of t: its Run, or one after which it does not
\* live.
ContainerFate(t) ==
  \/ container'[t] = container[t]
  \/ \E w \in Workers : cur[w] = t /\ pc[w] \in Starting /\ ~Stubbed(t)
  \/ /\ status[t] \in Past /\ IsStart(t) /\ ~Stubbed(t)
     /\ ~Alive(t)'
     /\ Readable(t)' => Alive(t)

LEMMA StopFate ==
  ASSUME OwnInv, DockerOnly, NEW u \in TaskIds, Settled(u), NEW ref \in BOOLEAN,
         StopOK(u, ref) \/ StopError(u, ref)
  PROVE  /\ \A t \in TaskIds : ContainerFate(t)
         /\ ref => ~Alive(u)'
<1>1. StopOK(u, ref) /\ container \in [TaskIds -> ContainerState]
  BY LogAssumption DEF StopError, OwnInv, TypeOK, RuntimeTypeOK
<1>2. status[u] \in Past /\ IsStart(u)
  BY DEF Settled
<1>3. CASE ref /\ ~Stubbed(u)
  <2>1. container' = [container EXCEPT ![u] = "removed"]
    BY <1>1, <1>3 DEF StopOK, SetContainer
  <2> QED BY <1>1, <1>2, <1>3, <2>1 DEF ContainerFate, Alive, Readable
<1>4. CASE ~(ref /\ ~Stubbed(u))
  <2>1. container' = container
    BY <1>1, <1>4 DEF StopOK
  <2>2. ref => container[u] = "none"
    BY <1>4 DEF DockerOnly
  <2> QED BY <2>1, <2>2 DEF ContainerFate, Alive
<1> QED BY <1>3, <1>4

LEMMA ContainerFates ==
  ASSUME OwnInv, DockerOnly, [Next]_vars, NEW t \in TaskIds
  PROVE  ContainerFate(t)
<1>0. container \in [TaskIds -> ContainerState]
  BY DEF OwnInv, TypeOK, RuntimeTypeOK
<1>1. CASE UNCHANGED container
  BY <1>1 DEF ContainerFate
<1>2. ASSUME NEW w \in Workers, Work(w) PROVE ContainerFate(t)
  <2>1. CASE CreateContainer(w) \/ StartContainer(w)
    <3>1. cur[w] \in TaskIds /\ pc[w] \in Starting
      BY <2>1, WorkerNow DEF CreateContainer, StartContainer, Starting
    <3>2. container'[t] = container[t] \/ (t = cur[w] /\ ~Stubbed(t))
      BY <1>0, <2>1, <3>1 DEF CreateContainer, StartContainer, SetContainer, DockerOnly
    <3> QED BY <3>1, <3>2 DEF ContainerFate
  <2>2. CASE StopTarget(w)
    <3>1. Target(w) \in TaskIds /\ seenRef[w] \in BOOLEAN
      BY <2>2, WorkerNow DEF StopTarget, HoldsTargetOf, OwnInv, TypeOK, WorkerTypeOK
    <3>2. CASE seenRef[w]
      <4>1. Settled(Target(w))
        BY <2>2, <3>2, WorkerNow DEF StopTarget, HoldsTargetOf
      <4> QED BY <2>2, <3>1, <4>1, StopFate DEF StopTarget
    <3>3. CASE ~seenRef[w]
      BY <1>1, <2>2, <3>3 DEF StopTarget, StopOK, StopError
    <3> QED BY <3>2, <3>3
  <2>3. CASE ~(CreateContainer(w) \/ StartContainer(w) \/ StopTarget(w))
    BY <1>1, <1>2, <2>3
    DEF Work, WorkerStep, ClaimLock, ClaimCommit, CountTotal, ApplyPolicy, CheckGPU,
        CommitAdmission, ResetToPending, ResourceCheck, RecordRunning, FailStart,
        ReadTarget, MarkStopped, FinishStop, FailStop, WriteStopRecord
  <2> QED BY <2>1, <2>2, <2>3
<1>3. ASSUME NEW w \in Workers, DbFault(w) \/ Crash(w) PROVE ContainerFate(t)
  BY <1>1, <1>3 DEF DbFault, Crash, DbError, StatementFails, AnswerLost, CrashWorker
<1>4. ASSUME NEW w \in Processes, Sweep(w) PROVE ContainerFate(t)
  <2>1. ASSUME NEW u \in overdue[w], StopOK(u, TRUE) \/ StopError(u, TRUE)
        PROVE  ContainerFate(t)
    BY <2>1, CopiesNow, StopFate
  <2> QED BY <1>1, <1>4, <2>1
          DEF Sweep, SweeperStep, ListOverdue, SweepStop, SweepClear, SweepFail
<1>5. ASSUME NEW w \in Processes, NEW u \in TaskIds, ReapOrphan(w, u) PROVE ContainerFate(t)
  <2>1. CASE ReapStop(w, u) /\ ~UNCHANGED container
    <3>1. Settled(u)
      BY <2>1, CopiesNow DEF ReapStop, Finished
    <3>2. runtimeRef[u] \in BOOLEAN
      BY DEF OwnInv, TypeOK, TableTypeOK
    <3> QED BY <2>1, <3>1, <3>2, StopFate DEF ReapStop
  <2> QED BY <1>1, <1>5, <2>1 DEF ReapOrphan, Reap, ReapLook, ReapClear
<1>6. ASSUME NEW u \in TaskIds, Exit(u) PROVE ContainerFate(t)
  <2>1. container[u] = "running" /\ status[u] \in Past /\ IsStart(u) /\ ~Stubbed(u)
    BY <1>6 DEF Exit, ContainerExit, DockerOnly, OwnInv, ContainersFresh
  <2> QED BY <1>0, <1>6, <2>1
          DEF Exit, ContainerExit, SetContainer, ContainerFate, Alive, Readable
<1>7. CASE Control \/ SweepAdmitted \/ \E w \in Processes : Reconcile(w)
  BY <1>1, <1>7
  DEF Control, SweepAdmitted, AdmittedSweep, Reconcile, Tick, TickList, TickInspect,
      TickUpdate, ReapList
<1>8. CASE UNCHANGED vars
  BY <1>1, <1>8 DEF vars
<1> QED BY <1>2, <1>3, <1>4, <1>5, <1>6, <1>7, <1>8 DEF Next

\* Dead tasks stay dead, and what they have left can only be removed.
LEMMA DeadKept ==
  ASSUME OwnInv, DockerOnly, [Next]_vars, NEW t \in TaskIds, Dead(t)
  PROVE  Dead(t)' /\ (Readable(t)' => Readable(t))
<1>1. ContainerFate(t) /\ Settled(t)' /\ Settled(t) /\ ~Alive(t)
  BY ContainerFates, RequestsKept DEF Dead
<1>2. ~Alive(t)' /\ (Readable(t)' => Readable(t))
  BY <1>1 DEF ContainerFate, Settled, Alive, Readable
<1> QED BY <1>1, <1>2 DEF Dead

LEMMA DockerOnlyStep ==
  ASSUME OwnInv, DockerOnly, [Next]_vars
  PROVE  DockerOnly'
<1>1. ASSUME NEW t \in TaskIds, container'[t] # "none" PROVE IsStart(t)' /\ ~Stubbed(t)'
  <2>1. status[t] \in Past /\ IsStart(t) /\ ~Stubbed(t)
    <3>1. CASE container'[t] = container[t]
      BY <1>1, <3>1 DEF DockerOnly, OwnInv, ContainersFresh
    <3>2. ASSUME NEW w \in Workers, cur[w] = t, pc[w] \in Starting, ~Stubbed(t)
          PROVE  status[t] \in Past /\ IsStart(t) /\ ~Stubbed(t)
      BY <3>2, WorkerNow DEF HoldsTaskOf
    <3> QED BY <3>1, <3>2, ContainerFates DEF ContainerFate
  <2>2. req'[t] = req[t]
    BY <2>1, RequestsKept DEF Past, SlotStatuses, Terminal
  <2> QED BY <2>1, <2>2 DEF IsStart, Stubbed
<1>2. ASSUME NEW v \in Workers, pc'[v] = "start" PROVE ~Stubbed(cur[v])'
  <2>1. cur[v] \in TaskIds /\ cur'[v] = cur[v] /\ ~Stubbed(cur[v]) /\ status[cur[v]] \in Past
    <3>1. CASE pc[v] = "start" /\ cur'[v] = cur[v]
      BY <3>1, WorkerNow DEF DockerOnly, HoldsTaskOf, Starting
    <3>2. CASE CreateContainer(v) /\ Keep(v)
      BY <1>2, <3>2, WorkerNow DEF CreateContainer, Goto, Keep, HoldsTaskOf, Starting
    <3>3. CASE UNCHANGED workerVars
      BY <1>2, <3>1, <3>3 DEF workerVars
    <3>4. ASSUME NEW w \in Workers, Work(w) \/ DbFault(w) \/ Crash(w)
          PROVE  (pc[v] = "start" /\ cur'[v] = cur[v]) \/ (CreateContainer(v) /\ Keep(v))
      <4>1. CASE v # w
        BY <1>2, <3>4, <4>1, WorkOwn DEF StepOwn, WorkerEffect, MemoryEffect
      <4>2. CASE v = w
        <5>1. pc'[w] # "start" \/ CreateContainer(w)
          <6>1. CASE Return(w) \/ \E step : step # "start" /\ Goto(w, step)
            BY <6>1, WorkerNow DEF Return, Goto
          <6> QED BY <3>4, <6>1
                  DEF Work, DbFault, Crash, WorkerStep, DbError, StatementFails, AnswerLost, CrashWorker, ClaimLock,
                      ClaimCommit, CountTotal, ApplyPolicy, CheckGPU, CommitAdmission,
                      ResetToPending, ResourceCheck, StartContainer, RecordRunning,
                      FailStart, ReadTarget, StopTarget, MarkStopped, FinishStop, FailStop,
                      WriteStopRecord
        <5> QED BY <1>2, <4>2, <5>1 DEF CreateContainer
      <4> QED BY <4>1, <4>2
    <3> QED BY <3>1, <3>2, <3>3, <3>4, BackgroundOwn, StutterOwn DEF Next
  <2>2. req'[cur[v]] = req[cur[v]]
    BY <2>1, RequestsKept DEF Past, SlotStatuses, Terminal
  <2> QED BY <2>1, <2>2 DEF Stubbed
<1>3. ASSUME NEW v \in Processes, sweepPc'[v] = "stop" PROVE sweepItem'[v] = NoTask
  <2>0. DOMAIN sweepPc = Processes /\ DOMAIN sweepItem = Processes
    BY DEF OwnInv, TypeOK, SweeperTypeOK
  <2>1. \/ UNCHANGED sweeperVars
        \/ \E w \in Processes : SweeperStep(w) \/ ForgetSweep(w)
    BY DEF Next, Control, Work, DbFault, Crash, Sweep, Reconcile, ReapOrphan, SweepAdmitted,
       AdmittedSweep, Exit, vars
  <2> QED BY <1>3, <2>0, <2>1
          DEF sweeperVars, SweeperStep, ListOverdue, SweepStop, SweepClear, SweepFail,
              ForgetSweep, DockerOnly
<1> QED BY <1>1, <1>2, <1>3 DEF DockerOnly

----------------------------------------------------------------------------
(* Types. *)

LEMMA FlushersAre ==
  /\ \A w \in Workers : <<w, "claim">> \in Flushers
  /\ \A w \in Processes : <<w, "tick">> \in Flushers /\ <<w, "sweep">> \in Flushers
  /\ \A w \in Processes, t \in TaskIds : <<w, t, "reap">> \in Flushers
BY DEF Flushers

\* A step that leaves the lines alone, and after which s owes the last lines of t.
LEMMA OwesStep ==
  ASSUME LogTypeOK, NEW s \in Flushers, NEW t, Owes(s, t)
  PROVE  /\ UNCHANGED <<written, stored, lost, since, look>>
         /\ owed[s] = NoTask /\ owed'[s] = t
         /\ \A r \in Flushers : owed'[r] = owed[r] \/ (r = s /\ owed'[r] = t)
         /\ \A r \in Flushers : owed[r] # NoTask => owed'[r] = owed[r]
BY DEF Owes, LogTypeOK

\* Whose last lines a step of the scheduler makes somebody owe: those of a task it has
\* seen the end of.
OwesDead ==
  \E s \in Flushers, t \in TaskIds \cup {NoTask} :
    Owes(s, t) /\ (t # NoTask => Dead(t)')

LEMMA WorkOwes ==
  ASSUME OwnInv, DockerOnly, NEW w \in Workers, WorkAndLog(w)
  PROVE  OwesDead
<1>1. Work(w) /\ [Next]_vars
  BY DEF WorkAndLog, Next
<1>2. CASE pc[w] = "stop" /\ pc'[w] = "mark" /\ seenRef[w]
  <2>1. Target(w) \in TaskIds /\ Settled(Target(w)) /\ DOMAIN pc = Workers
    BY <1>2, WorkerNow DEF HoldsTargetOf
  <2>2. StopTarget(w)
    BY <1>1, <1>2
    DEF Work, WorkerStep, ClaimLock, ClaimCommit, CountTotal, ApplyPolicy, CheckGPU,
        CommitAdmission, ResetToPending, ResourceCheck, CreateContainer, StartContainer,
        RecordRunning, FailStart, ReadTarget, MarkStopped, FinishStop, FailStop,
        WriteStopRecord, Auditing
  <2> PICK u \in TaskIds : u = Target(w)
    BY <2>1
  <2>3. StopOK(u, TRUE) \/ StopError(u, TRUE)
    <3>1. seenRef[w] = TRUE
      BY <1>2 DEF OwnInv, TypeOK, WorkerTypeOK
    <3> QED BY <2>2, <3>1 DEF StopTarget
  <2>4. Owes(<<w, "claim">>, u)
    BY <1>2 DEF WorkAndLog
  <2>5. u \in TaskIds /\ Settled(u)
    BY <2>1
  <2>6. Dead(u)'
    <3>1. ~Alive(u)' /\ Settled(u)'
      BY <1>1, <2>3, <2>5, StopFate, RequestsKept
    <3> QED BY <2>5, <3>1 DEF Dead
  <2> QED BY <2>4, <2>5, <2>6, FlushersAre DEF OwesDead
<1>3. CASE ~(pc[w] = "stop" /\ pc'[w] = "mark" /\ seenRef[w])
  <2>1. Owes(<<w, "claim">>, NoTask)
    BY <1>3 DEF WorkAndLog
  <2> QED BY <2>1, FlushersAre DEF OwesDead
<1> QED BY <1>2, <1>3

LEMMA SweepOwes ==
  ASSUME OwnInv, DockerOnly, NEW w \in Processes, SweepAndLog(w)
  PROVE  OwesDead
<1>1. Sweep(w) /\ [Next]_vars
  BY DEF SweepAndLog, Next
<1>2. DOMAIN sweepItem = Processes /\ DOMAIN sweepPc = Processes
  BY DEF OwnInv, TypeOK, SweeperTypeOK
<1>3. CASE SweepStop(w)
  <2>1. PICK u \in overdue[w] :
          /\ StopOK(u, TRUE) \/ StopError(u, TRUE)
          /\ sweepItem' = [sweepItem EXCEPT ![w] = u]
    BY <1>3 DEF SweepStop
  <2>2. u \in TaskIds /\ Settled(u)
    BY CopiesNow
  <2>3. ~Alive(u)' /\ Settled(u)'
    BY <1>1, <2>1, <2>2, StopFate, RequestsKept
  <2>4. Owes(<<w, "sweep">>, u)
    BY <1>2, <1>3, <2>1 DEF SweepAndLog, SweepStop
  <2> QED BY <2>2, <2>3, <2>4, FlushersAre DEF OwesDead, Dead
<1>4. CASE ~SweepStop(w)
  <2>1. sweepPc[w] = "stop" => sweepItem'[w] = NoTask
    BY <1>1, <1>4 DEF Sweep, SweeperStep, ListOverdue, SweepClear, SweepFail, DockerOnly
  <2>2. Owes(<<w, "sweep">>, NoTask)
    BY <2>1 DEF SweepAndLog
  <2> QED BY <2>2, FlushersAre DEF OwesDead
<1> QED BY <1>3, <1>4

\* The reconciler, besides: a verdict is on what was collected, or is owed now.
LEMMA TickOwes ==
  ASSUME OwnInv, DockerOnly, NEW w \in Processes, ReconcileAndLog(w)
  PROVE  /\ OwesDead
         /\ verdict'[w] # NoVerdict =>
              \E u \in TaskIds :
                verdict'[w].task = u /\ Dead(u)' /\ Owes(<<w, "tick">>, u)
         /\ \A v \in Processes \ {w} : verdict'[v] = verdict[v]
         /\ \A t \in TaskIds : status'[t] # status[t] =>
              verdict[w] # NoVerdict /\ t = verdict[w].task
<1>0. /\ DOMAIN verdict = Processes /\ DOMAIN status = TaskIds
      /\ verdict[w] \in Verdict \cup {NoVerdict}
      /\ Reconcile(w) /\ [Next]_vars
  BY DEF ReconcileAndLog, Next, OwnInv, TypeOK, TableTypeOK, ReconcilerTypeOK
<1>1. CASE TickInspect(w) /\ verdict'[w] # NoVerdict
  <2>1. verdict[w] = NoVerdict
    BY <1>1 DEF TickInspect
  <2>2. PICK u \in listed[w] :
          /\ Phase(u, TRUE) \in {"succeeded", "failed"}
          /\ verdict' = [verdict EXCEPT ![w] = [task |-> u, phase |-> Phase(u, TRUE)]]
    BY <1>0, <1>1, <2>1 DEF TickInspect
  <2>3. u \in TaskIds /\ Settled(u)
    BY CopiesNow
  <2>4. ~Alive(u)' /\ Settled(u)'
    <3>1. ~Alive(u) /\ container' = container
      BY <1>1, <2>2 DEF Phase, TickInspect
    <3> QED BY <1>0, <2>3, <3>1, RequestsKept DEF Alive
  <2>5. verdict'[w].task = u
    BY <1>0, <2>2
  <2>6. Owes(<<w, "tick">>, u)
    BY <2>1, <2>5 DEF ReconcileAndLog
  <2>7. Dead(u)'
    BY <2>3, <2>4 DEF Dead
  <2>8. UNCHANGED status
    BY <1>1 DEF TickInspect, tableVars
  <2> QED BY <1>0, <2>2, <2>3, <2>5, <2>6, <2>7, <2>8, FlushersAre DEF OwesDead
<1>2. CASE ~(TickInspect(w) /\ verdict'[w] # NoVerdict)
  <2>1. verdict'[w] = NoVerdict
    BY <1>0, <1>2
    DEF Reconcile, Tick, TickList, TickInspect, TickUpdate, ReapList
  <2>2. Owes(<<w, "tick">>, NoTask)
    BY <2>1 DEF ReconcileAndLog, NoVerdict
  <2>3. \A v \in Processes \ {w} : verdict'[v] = verdict[v]
    BY <1>0 DEF Reconcile, Tick, TickList, TickInspect, TickUpdate, ReapList
  <2>4. \A t \in TaskIds : status'[t] # status[t] =>
          verdict[w] # NoVerdict /\ t = verdict[w].task
    BY <1>0
    DEF Reconcile, Tick, TickList, TickInspect, TickUpdate, ReapList, UpdateStatus, tableVars
  <2> QED BY <2>1, <2>2, <2>3, <2>4, FlushersAre DEF OwesDead
<1> QED BY <1>1, <1>2

LEMMA ReapOwes ==
  ASSUME OwnInv, DockerOnly, NEW w \in Processes, NEW t \in TaskIds, ReapAndLog(w, t)
  PROVE  OwesDead
<1>1. ReapOrphan(w, t) /\ [Next]_vars
  BY DEF ReapAndLog, Next
<1>2. CASE reap[w][t] = "stop" /\ runtimeRef[t]
  <2>1. Settled(t)
    BY <1>2, CopiesNow DEF Finished
  <2>2. StopOK(t, TRUE) \/ StopError(t, TRUE)
    <3>1. runtimeRef[t] = TRUE
      BY <1>2 DEF OwnInv, TypeOK, TableTypeOK
    <3>2. ReapStop(w, t)
      BY <1>1, <1>2 DEF ReapOrphan, Reap, ReapLook, ReapClear
    <3> QED BY <3>1, <3>2, LogAssumption DEF ReapStop
  <2>3. ~Alive(t)' /\ Settled(t)'
    BY <1>1, <2>1, <2>2, StopFate, RequestsKept
  <2>4. Owes(<<w, t, "reap">>, t)
    BY <1>2 DEF ReapAndLog
  <2> QED BY <2>3, <2>4, FlushersAre DEF OwesDead, Dead
<1>3. CASE ~(reap[w][t] = "stop" /\ runtimeRef[t])
  <2>1. Owes(<<w, t, "reap">>, NoTask)
    BY <1>3 DEF ReapAndLog
  <2> QED BY <2>1, FlushersAre DEF OwesDead
<1> QED BY <1>2, <1>3

\* A step of the scheduler, as far as lines are concerned.
LEMMA SchedulerLogs ==
  ASSUME OwnInv, DockerOnly, LogNext
  PROVE  \/ OwesDead
         \/ UNCHANGED logVars
         \/ UNCHANGED vars /\ \/ \E t \in TaskIds : WriteLine(t)
                              \/ \E w \in Processes : LogLoop(w)
                              \/ \E s \in Flushers : FinalFlush(s)
<1>1. \A t \in TaskIds : WriteLine(t) => UNCHANGED vars
  BY DEF WriteLine
<1>2. \A w \in Processes : LogLoop(w) => UNCHANGED vars
  BY DEF LogLoop, LookBegin, LookFetch, LookInsert
<1>3. \A s \in Flushers : FinalFlush(s) => UNCHANGED vars
  BY DEF FinalFlush
<1> QED BY <1>1, <1>2, <1>3, WorkOwes, SweepOwes, TickOwes, ReapOwes DEF LogNext

\* What is scanned of an answer was asked for.
LEMMA ScanAsked ==
  ASSUME NEW t, NEW asked, NEW loss, NEW read \in Reads(asked, loss)
  PROVE  Scan(t, read) \subseteq asked
BY DEF Reads, Scan

\* A fetch: of the lines of t that are asked for, K arrive.
FetchOf(w, t, K) ==
  /\ Readable(t)
  /\ K \subseteq Asked(w, t)
  /\ look' = [look EXCEPT ![w] = [now |-> look[w].now, todo |-> look[w].todo \ {t},
                                  batch |-> look[w].batch \cup ({t} \X K)]]
  /\ lost' = [lost EXCEPT ![t] = lost[t] \cup (Asked(w, t) \ K)]
  /\ since' = [since EXCEPT ![w] = [since[w] EXCEPT ![t] = look[w].now[t]]]

FetchNone(w, t) ==
  /\ look' = [look EXCEPT ![w] = [now |-> look[w].now, todo |-> look[w].todo \ {t},
                                  batch |-> look[w].batch]]
  /\ UNCHANGED <<lost, since>>

LEMMA AskedIs ==
  ASSUME NEW w, NEW t
  PROVE  Asked(w, t) \subseteq 1 .. written[t]
BY DEF Asked, LinesSince, LastLines

LEMMA FetchStep ==
  ASSUME LogTypeOK, NEW w \in Processes, LookFetch(w)
  PROVE  \E t \in look[w].todo :
           /\ t \in TaskIds
           /\ look[w].now[t] \in Nat
           /\ FetchNone(w, t) \/ \E K \in SUBSET Asked(w, t) : FetchOf(w, t, K)
<1>1. PICK t \in look[w].todo :
        \/ \E read \in Reads(Asked(w, t), "read") :
             /\ Readable(t)
             /\ look' = [look EXCEPT ![w].todo = @ \ {t},
                                     ![w].batch = @ \cup ({t} \X Scan(t, read))]
             /\ lost' = [lost EXCEPT ![t] = @ \cup (Asked(w, t) \ Scan(t, read))]
             /\ since' = [since EXCEPT ![w][t] = look[w].now[t]]
        \/ /\ look' = [look EXCEPT ![w].todo = @ \ {t}]
           /\ UNCHANGED <<lost, since>>
  BY DEF LookFetch
<1>2. t \in TaskIds /\ look[w].now[t] \in Nat
  BY DEF LogTypeOK
<1>3. /\ look[w] \in [now : [TaskIds -> Nat] \cup {<<>>}, todo : SUBSET TaskIds,
                      batch : SUBSET (TaskIds \X Nat)]
      /\ DOMAIN look = Processes
      /\ look[w].todo \ {t} \in SUBSET TaskIds
  BY DEF LogTypeOK
<1> DEFINE r == look[w]  x == r.todo \ {t}
<1>4. [r EXCEPT !.todo = x] = [now |-> r.now, todo |-> x, batch |-> r.batch]
  <2> r \in [now : [TaskIds -> Nat] \cup {<<>>}, todo : SUBSET TaskIds,
             batch : SUBSET (TaskIds \X Nat)] /\ x \in SUBSET TaskIds
    BY <1>3
  <2> HIDE DEF r, x
  <2> QED OBVIOUS
<1>5. ASSUME NEW K, K \subseteq Asked(w, t), Readable(t),
             look' = [look EXCEPT ![w].todo = @ \ {t}, ![w].batch = @ \cup ({t} \X K)],
             lost' = [lost EXCEPT ![t] = @ \cup (Asked(w, t) \ K)],
             since' = [since EXCEPT ![w][t] = look[w].now[t]]
      PROVE  FetchOf(w, t, K)
  <2> DEFINE y == r.batch \cup ({t} \X K)
  <2>1. [r EXCEPT !.todo = x, !.batch = y] = [now |-> r.now, todo |-> x, batch |-> y]
    <3>1. [r EXCEPT !.todo = x, !.batch = y] = [[r EXCEPT !.todo = x] EXCEPT !.batch = y]
      OBVIOUS
    <3>2. [[now |-> r.now, todo |-> x, batch |-> r.batch] EXCEPT !.batch = y]
            = [now |-> r.now, todo |-> x, batch |-> y]
      OBVIOUS
    <3> QED BY <1>4, <3>1, <3>2
  <2>2. look' = [look EXCEPT ![w] = [r EXCEPT !.todo = x, !.batch = y]]
    BY <1>3, <1>5
  <2>3. since' = [since EXCEPT ![w] = [since[w] EXCEPT ![t] = look[w].now[t]]]
    BY <1>5
  <2>4. lost' = [lost EXCEPT ![t] = lost[t] \cup (Asked(w, t) \ K)]
    BY <1>5
  <2> QED BY <1>5, <2>1, <2>2, <2>3, <2>4 DEF FetchOf
<1>6. CASE \E read \in Reads(Asked(w, t), "read") :
             /\ Readable(t)
             /\ look' = [look EXCEPT ![w].todo = @ \ {t},
                                     ![w].batch = @ \cup ({t} \X Scan(t, read))]
             /\ lost' = [lost EXCEPT ![t] = @ \cup (Asked(w, t) \ Scan(t, read))]
             /\ since' = [since EXCEPT ![w][t] = look[w].now[t]]
  <2> PICK read \in Reads(Asked(w, t), "read") :
             /\ Readable(t)
             /\ look' = [look EXCEPT ![w].todo = @ \ {t},
                                     ![w].batch = @ \cup ({t} \X Scan(t, read))]
             /\ lost' = [lost EXCEPT ![t] = @ \cup (Asked(w, t) \ Scan(t, read))]
             /\ since' = [since EXCEPT ![w][t] = look[w].now[t]]
    BY <1>6
  <2>1. Scan(t, read) \subseteq Asked(w, t)
    BY ScanAsked
  <2>2. FetchOf(w, t, Scan(t, read))
    BY <1>5, <2>1
  <2> QED BY <1>2, <2>1, <2>2
<1>7. CASE look' = [look EXCEPT ![w].todo = @ \ {t}] /\ UNCHANGED <<lost, since>>
  <2>1. look' = [look EXCEPT ![w] = [r EXCEPT !.todo = x]]
    BY <1>3, <1>7
  <2>2. FetchNone(w, t)
    BY <1>4, <1>7, <2>1 DEF FetchNone
  <2> QED BY <1>2, <2>2
<1> QED BY <1>1, <1>6, <1>7

\* A last fetch: of the last lines of the task, K arrive.
FlushOf(t, K) ==
  /\ K \subseteq LastLines(t, FlushTail)
  /\ stored' = [stored EXCEPT ![t] = stored[t] \cup K]
  /\ lost' = [lost EXCEPT ![t] = lost[t] \cup (LastLines(t, FlushTail) \ K)]

LEMMA FlushStep ==
  ASSUME LogTypeOK, NEW s \in Flushers, FinalFlush(s)
  PROVE  \E t \in TaskIds :
           /\ t = owed[s]
           /\ \/ UNCHANGED <<stored, lost>>
              \/ \E K \in SUBSET LastLines(t, FlushTail) : FlushOf(t, K)
           /\ Readable(t) /\ req[t].provider = "docker" /\ "flush" \notin Losses =>
                FlushOf(t, Scan(t, LastLines(t, FlushTail)))
<1> PICK t \in TaskIds :
      /\ t = owed[s]
      /\ IF Readable(t) /\ req[t].provider = "docker"
         THEN \E read \in Reads(LastLines(t, FlushTail), "flush") :
                /\ stored' = [stored EXCEPT ![t] = @ \cup Scan(t, read)]
                /\ lost' = [lost EXCEPT ![t] = @ \cup (LastLines(t, FlushTail) \ Scan(t, read))]
         ELSE UNCHANGED <<stored, lost>>
  BY DEF FinalFlush
<1>1. CASE Readable(t) /\ req[t].provider = "docker"
  <2> PICK read \in Reads(LastLines(t, FlushTail), "flush") :
        /\ stored' = [stored EXCEPT ![t] = @ \cup Scan(t, read)]
        /\ lost' = [lost EXCEPT ![t] = @ \cup (LastLines(t, FlushTail) \ Scan(t, read))]
    BY <1>1
  <2>1. Scan(t, read) \subseteq LastLines(t, FlushTail)
    BY ScanAsked
  <2>2. FlushOf(t, Scan(t, read))
    BY <2>1 DEF FlushOf
  <2>3. "flush" \notin Losses => read = LastLines(t, FlushTail)
    BY DEF Reads
  <2> QED BY <2>1, <2>2, <2>3
<1> QED BY <1>1

LEMMA LogTypes ==
  ASSUME OwnInv, DockerOnly, LogTypeOK, LogNext
  PROVE  LogTypeOK'
<1>1. CASE OwesDead
  <2>1. PICK s \in Flushers, t \in TaskIds \cup {NoTask} : Owes(s, t)
    BY <1>1 DEF OwesDead
  <2> QED BY <2>1 DEF Owes, LogTypeOK
<1>2. CASE UNCHANGED logVars
  BY <1>2 DEF logVars, LogTypeOK
<1>3. ASSUME NEW t \in TaskIds, WriteLine(t) PROVE LogTypeOK'
  BY <1>3 DEF WriteLine, LogTypeOK
<1>4. ASSUME NEW w \in Processes, LookBegin(w) PROVE LogTypeOK'
  <2>1. ListDockerRunning \subseteq TaskIds
    BY DEF ListDockerRunning, RunningRowsWithRef
  <2>2. look'[w] = [now |-> written, todo |-> ListDockerRunning, batch |-> {}]
    BY <1>4 DEF LookBegin, LogTypeOK
  <2>3. \A v \in Processes \ {w} : look'[v] = look[v]
    BY <1>4 DEF LookBegin, LogTypeOK
  <2> QED BY <1>4, <2>1 DEF LookBegin, LogTypeOK
<1>5. ASSUME NEW w \in Processes, LookFetch(w) PROVE LogTypeOK'
  <2>1. PICK t \in look[w].todo :
          /\ t \in TaskIds
          /\ look[w].now[t] \in Nat
          /\ FetchNone(w, t) \/ \E K \in SUBSET Asked(w, t) : FetchOf(w, t, K)
    BY <1>5, FetchStep
  <2>2. CASE FetchNone(w, t)
    BY <1>5, <2>1, <2>2 DEF FetchNone, LookFetch, LogTypeOK
  <2>3. ASSUME NEW K \in SUBSET Asked(w, t), FetchOf(w, t, K) PROVE LogTypeOK'
    <3>0. Asked(w, t) \in SUBSET Nat
      BY AskedIs
    <3>1. since' \in [Processes -> [TaskIds -> Int]]
      BY <2>1, <2>3 DEF FetchOf, LogTypeOK
    <3>2. look[w].batch \cup ({t} \X K) \subseteq TaskIds \X Nat
      <4>1. K \in SUBSET Nat /\ look[w].batch \in SUBSET (TaskIds \X Nat)
        BY <3>0 DEF LogTypeOK
      <4> QED BY <2>1, <4>1
    <3>3. look[w].todo \ {t} \subseteq look[w].todo
      OBVIOUS
    <3>4. lost' \in [TaskIds -> SUBSET Nat]
      <4>1. lost \in [TaskIds -> SUBSET Nat] /\ lost[t] \cup (Asked(w, t) \ K) \in SUBSET Nat
        BY <2>1, <3>0 DEF LogTypeOK
      <4> QED BY <2>3, <4>1 DEF FetchOf
    <3> QED BY <1>5, <2>3, <3>1, <3>2, <3>3, <3>4 DEF FetchOf, LookFetch, LogTypeOK
  <2> QED BY <2>1, <2>2, <2>3
<1>6. ASSUME NEW w \in Processes, LookInsert(w) PROVE LogTypeOK'
  <2> DEFINE added(old) ==
        [t \in TaskIds |-> old[t] \cup {n \in 1 .. MaxLines : <<t, n>> \in look[w].batch}]
  <2>1. \A old \in [TaskIds -> SUBSET Nat] : added(old) \in [TaskIds -> SUBSET Nat]
    BY LogAssumption
  <2>2. stored' \in [TaskIds -> SUBSET Nat] /\ lost' \in [TaskIds -> SUBSET Nat]
    BY <1>6, <2>1 DEF LookInsert, LogTypeOK
  <2>3. NoLook \in [now : [TaskIds -> Nat] \cup {<<>>}, todo : SUBSET TaskIds,
                    batch : SUBSET (TaskIds \X Nat)] /\ NoLook.todo = {}
    BY DEF NoLook
  <2>4. look' = [look EXCEPT ![w] = NoLook]
    BY <1>6 DEF LookInsert
  <2> HIDE DEF added
  <2> QED BY <1>6, <2>2, <2>3, <2>4 DEF LookInsert, LogTypeOK
<1>7. ASSUME NEW s \in Flushers, FinalFlush(s) PROVE LogTypeOK'
  <2>1. PICK t \in TaskIds :
          \/ UNCHANGED <<stored, lost>>
          \/ \E K \in SUBSET LastLines(t, FlushTail) : FlushOf(t, K)
    BY <1>7, FlushStep
  <2>2. LastLines(t, FlushTail) \in SUBSET Nat
    BY DEF LastLines
  <2>3. stored' \in [TaskIds -> SUBSET Nat] /\ lost' \in [TaskIds -> SUBSET Nat]
    <3>1. stored \in [TaskIds -> SUBSET Nat] /\ lost \in [TaskIds -> SUBSET Nat]
      BY DEF LogTypeOK
    <3>2. ASSUME NEW K \in SUBSET LastLines(t, FlushTail), FlushOf(t, K)
          PROVE  stored' \in [TaskIds -> SUBSET Nat] /\ lost' \in [TaskIds -> SUBSET Nat]
      <4>1. /\ stored[t] \cup K \in SUBSET Nat
            /\ lost[t] \cup (LastLines(t, FlushTail) \ K) \in SUBSET Nat
        BY <2>2, <3>1
      <4> QED BY <3>1, <3>2, <4>1 DEF FlushOf
    <3> QED BY <2>1, <3>1, <3>2
  <2> QED BY <1>7, <2>3 DEF FinalFlush, LogTypeOK
<1> QED BY <1>1, <1>2, <1>3, <1>4, <1>5, <1>6, <1>7, SchedulerLogs DEF LogLoop

----------------------------------------------------------------------------
(* The end of a log. *)

\* Lines in the table stay there, and a dead task has written its last.
LEMMA LinesKept ==
  ASSUME OwnInv, DockerOnly, LogTypeOK, LogNext, NEW t \in TaskIds
  PROVE  stored[t] \subseteq stored'[t] /\ (Dead(t) => written'[t] = written[t])
<1>1. CASE OwesDead \/ UNCHANGED logVars
  BY <1>1 DEF OwesDead, Owes, logVars
<1>2. ASSUME NEW u \in TaskIds, WriteLine(u) PROVE written'[u] = written[u] + 1 /\ ~Dead(u)
  BY <1>2 DEF WriteLine, LogTypeOK, Dead, Alive
<1>3. ASSUME NEW u \in TaskIds, WriteLine(u)
      PROVE  stored' = stored /\ (t # u => written'[t] = written[t])
  BY <1>3 DEF WriteLine, LogTypeOK
<1>4. ASSUME NEW w \in Processes, LogLoop(w)
      PROVE  stored[t] \subseteq stored'[t] /\ written' = written
  BY <1>4 DEF LogLoop, LookBegin, LookFetch, LookInsert
<1>5. ASSUME NEW s \in Flushers, FinalFlush(s)
      PROVE  stored[t] \subseteq stored'[t] /\ written' = written
  <2>1. PICK u \in TaskIds :
          UNCHANGED <<stored, lost>> \/ \E K \in SUBSET LastLines(u, FlushTail) : FlushOf(u, K)
    BY <1>5, FlushStep
  <2>2. stored[t] \subseteq stored'[t]
    <3>1. CASE stored' = stored
      BY <3>1
    <3>2. ASSUME NEW K \in SUBSET LastLines(u, FlushTail), FlushOf(u, K)
          PROVE  stored[t] \subseteq stored'[t]
      <4>1. stored' = [stored EXCEPT ![u] = stored[u] \cup K] /\ DOMAIN stored = TaskIds
        BY <3>2 DEF FlushOf, LogTypeOK
      <4> QED BY <4>1
    <3> QED BY <2>1, <3>1, <3>2
  <2> QED BY <1>5, <2>2 DEF FinalFlush
<1> QED BY <1>1, <1>2, <1>3, <1>4, <1>5, SchedulerLogs

LEMMA EndStaysKept ==
  ASSUME OwnInv, DockerOnly, LogTypeOK, LogNext, NEW t \in TaskIds, Dead(t), EndKept(t)
  PROVE  Dead(t)' /\ EndKept(t)'
<1>1. Dead(t)' /\ (Readable(t)' => Readable(t))
  BY LogSteps, DeadKept
<1>2. stored[t] \subseteq stored'[t] /\ written'[t] = written[t]
  BY LinesKept
<1>3. Scan(t, LastLines(t, FlushTail))' = Scan(t, LastLines(t, FlushTail))
  BY <1>2 DEF Scan, LastLines, FlushTail, DefaultFlushLines, MaxFlushLines
<1> QED BY <1>1, <1>2, <1>3 DEF EndKept

\* The status of a start row becomes succeeded by Tick.
LEMMA SucceededByTick ==
  ASSUME OwnInv, LogNext, NEW t \in TaskIds,
         status'[t] = "succeeded", status[t] # "succeeded", IsStart(t)'
  PROVE  \E w \in Processes : ReconcileAndLog(w)
<1>0. DOMAIN status = TaskIds /\ DOMAIN req = TaskIds
  BY DEF OwnInv, TypeOK, TableTypeOK
<1>1. ~(Control \/ SweepAdmitted \/ \E u \in TaskIds : Exit(u))
  BY <1>0
  DEF Control, SweepAdmitted, AdmittedSweep, RevertAdmittedStuck, Exit, ContainerExit,
      ControllerStep, Enqueue, EnqueueStopForTarget, RestartFinished, RestartLive,
      RestartSubmit, RestartAbandon, Create, tableVars
<1>2. ASSUME NEW w \in Workers, Work(w) PROVE FALSE
  <2>1. FinishStop(w) /\ t = cur[w]
    BY <1>0, <1>2
    DEF Work, WorkerStep, ClaimLock, ClaimCommit, CountTotal, ApplyPolicy, CheckGPU,
        CommitAdmission, ResetToPending, ResourceCheck, CreateContainer, StartContainer,
        RecordRunning, FailStart, ReadTarget, StopTarget, MarkStopped, FinishStop, FailStop,
        WriteStopRecord, UpdateStatus, TrySetStatus, UpdateRuntime, CreateStopRecord, tableVars
  <2>2. ~IsStart(t)
    BY <2>1, WorkerNow DEF FinishStop, HoldsTaskOf, Stopping, Auditing
  <2> QED BY <2>1, <2>2 DEF FinishStop, UpdateStatus, IsStart
<1>3. ASSUME NEW w \in Processes, Sweep(w) \/ \E u \in TaskIds : ReapOrphan(w, u) PROVE FALSE
  BY <1>0, <1>3
  DEF Sweep, SweeperStep, ListOverdue, SweepStop, SweepClear, SweepFail, ReapOrphan, Reap,
      ReapLook, ReapStop, ReapClear, UpdateStatus, TrySetStatus, ClearRuntimeRef, tableVars
<1>4. ~UNCHANGED vars
  BY DEF vars, tableVars
<1> QED BY <1>1, <1>2, <1>3, <1>4
        DEF LogNext, WorkAndLog, SweepAndLog, ReapAndLog, LogLoop, LookBegin, LookFetch,
            LookInsert, WriteLine, FinalFlush

\* What the reconciler is about to write, after a step.
VerdictEnd(w) ==
  verdict[w] # NoVerdict =>
    /\ Dead(verdict[w].task)
    /\ \/ owed[<<w, "tick">>] = verdict[w].task
       \/ "flush" \notin Losses => EndKept(verdict[w].task)

LEMMA VerdictStep ==
  ASSUME OwnInv, DockerOnly, LogTypeOK, EndInv, LogNext, NEW w \in Processes
  PROVE  VerdictEnd(w)'
<1>1. CASE verdict'[w] = verdict[w]
  <2> SUFFICES ASSUME verdict[w] # NoVerdict
               PROVE  VerdictEnd(w)'
    BY <1>1 DEF VerdictEnd
  <2> PICK u \in TaskIds : verdict[w].task = u
    BY CopiesNow
  <2>1. Dead(u) /\ (owed[<<w, "tick">>] = u \/ ("flush" \notin Losses => EndKept(u)))
    BY DEF EndInv
  <2>2. Dead(u)'
    BY <2>1, LogSteps, DeadKept
  <2>3. (owed[<<w, "tick">>] = u)' \/ ("flush" \notin Losses => EndKept(u)')
    <3>1. CASE "flush" \notin Losses => EndKept(u)
      BY <2>1, <3>1, EndStaysKept
    <3>2. CASE owed[<<w, "tick">>] = u /\ owed'[<<w, "tick">>] # u
      <4>0. u # NoTask
        BY TaskAssumption DEF NoTask
      <4>1. FinalFlush(<<w, "tick">>)
        <5>1. ~OwesDead /\ ~UNCHANGED logVars
          BY <3>2, <4>0, OwesStep, FlushersAre DEF OwesDead, logVars
        <5>2. \A t \in TaskIds : ~WriteLine(t)
          BY <3>2 DEF WriteLine
        <5>3. \A v \in Processes : ~LogLoop(v)
          BY <3>2 DEF LogLoop, LookBegin, LookFetch, LookInsert
        <5>4. \A s \in Flushers : FinalFlush(s) => s = <<w, "tick">>
          BY <3>2, FlushersAre DEF FinalFlush, LogTypeOK
        <5> QED BY <5>1, <5>2, <5>3, <5>4, SchedulerLogs
      <4>2. Readable(u) /\ "flush" \notin Losses =>
              Scan(u, LastLines(u, FlushTail)) \subseteq stored'[u]
        <5>1. Readable(u) => req[u].provider = "docker"
          BY <2>1 DEF DockerOnly, Readable, Stubbed, OwnInv, TypeOK, TableTypeOK, Request
        <5>2. Readable(u) /\ "flush" \notin Losses =>
                FlushOf(u, Scan(u, LastLines(u, FlushTail)))
          BY <3>2, <4>1, <5>1, FlushStep, FlushersAre
        <5> QED BY <5>2 DEF FlushOf, LogTypeOK
      <4>3. written' = written /\ (Readable(u)' => Readable(u))
        BY <2>1, <4>1, LogSteps, DeadKept DEF FinalFlush
      <4>4. Scan(u, LastLines(u, FlushTail))' = Scan(u, LastLines(u, FlushTail))
        BY <4>3 DEF Scan, LastLines, FlushTail, DefaultFlushLines, MaxFlushLines
      <4> QED BY <4>2, <4>3, <4>4 DEF EndKept
    <3> QED BY <2>1, <3>1, <3>2
  <2> QED BY <1>1, <2>2, <2>3 DEF VerdictEnd
<1>2. CASE verdict'[w] # verdict[w] /\ verdict'[w] # NoVerdict
  <2>1. ReconcileAndLog(w)
    <3>1. \A v \in Processes : ReconcileAndLog(v) => v = w
      BY <1>2, TickOwes
    <3>2. ~UNCHANGED verdict
      BY <1>2
    <3>3. \A v \in Workers : ~Work(v)
      BY <3>2
      DEF Work, WorkerStep, ClaimLock, ClaimCommit, CountTotal, ApplyPolicy, CheckGPU,
        CommitAdmission, ResetToPending, ResourceCheck, CreateContainer, StartContainer,
        RecordRunning, FailStart, ReadTarget, StopTarget, MarkStopped, FinishStop, FailStop,
        WriteStopRecord, reconcilerVars
    <3>4. /\ ~(Control \/ SweepAdmitted \/ \E t \in TaskIds : Exit(t))
          /\ \A v \in Processes : ~Sweep(v)
      BY <3>2 DEF Control, SweepAdmitted, Exit, Sweep, reconcilerVars
    <3>5. \A v \in Processes, t \in TaskIds : ~ReapOrphan(v, t)
      BY <3>2 DEF ReapOrphan, Reap, ReapLook, ReapStop, ReapClear
    <3>6. ~UNCHANGED vars
      BY <3>2 DEF vars, reconcilerVars
    <3> QED BY <3>1, <3>3, <3>4, <3>5, <3>6
            DEF LogNext, WorkAndLog, SweepAndLog, ReapAndLog, LogLoop, LookBegin, LookFetch,
                LookInsert, WriteLine, FinalFlush
  <2>2. PICK u \in TaskIds \cup {NoTask} : verdict'[w].task = u /\ Dead(u)' /\ Owes(<<w, "tick">>, u)
    BY <1>2, <2>1, TickOwes
  <2>3. owed'[<<w, "tick">>] = u
    BY <2>2, OwesStep, FlushersAre
  <2> QED BY <2>2, <2>3 DEF VerdictEnd
<1> QED BY <1>1, <1>2 DEF VerdictEnd

OwedEnd(s) == owed[s] # NoTask => Dead(owed[s])

LEMMA EndStep ==
  ASSUME OwnInv, DockerOnly, LogTypeOK, EndInv, LogNext
  PROVE  EndInv'
<1>1. ASSUME NEW s \in Flushers, owed'[s] # NoTask PROVE OwedEnd(s)'
  <2>1. CASE owed'[s] = owed[s]
    <3> PICK u \in TaskIds : owed[s] = u
      BY <1>1, <2>1 DEF LogTypeOK
    <3>1. u # NoTask
      BY TaskAssumption DEF NoTask
    <3>2. Dead(u)
      BY <3>1 DEF EndInv
    <3>3. Dead(u)'
      BY <3>2, LogSteps, DeadKept
    <3> QED BY <2>1, <3>3 DEF OwedEnd, Dead, Settled, Alive
  <2>2. CASE OwesDead /\ owed'[s] # owed[s]
    <3>1. PICK r \in Flushers, u \in TaskIds \cup {NoTask} :
            Owes(r, u) /\ (u # NoTask => Dead(u)')
      BY <2>2 DEF OwesDead
    <3>2. owed'[s] = u
      BY <2>2, <3>1, OwesStep
    <3> QED BY <1>1, <3>1, <3>2 DEF OwedEnd, Dead, Settled, Alive
  <2>3. CASE owed'[s] # owed[s] /\ ~OwesDead
    <3>1. PICK r \in Flushers : FinalFlush(r)
      BY <2>3, SchedulerLogs
      DEF WriteLine, LogLoop, LookBegin, LookFetch, LookInsert, logVars
    <3> QED BY <1>1, <2>3, <3>1 DEF FinalFlush, LogTypeOK
  <2> QED BY <2>1, <2>2, <2>3
<1>2. \A w \in Processes : VerdictEnd(w)'
  BY VerdictStep
<1>3. ASSUME NEW t \in TaskIds, status'[t] = "succeeded", IsStart(t)'
      PROVE  Dead(t)' /\ ("flush" \notin Losses => EndKept(t)')
  <2>1. CASE status[t] = "succeeded"
    <3>1. IsStart(t)
      BY <1>3, <2>1, LogSteps, RequestsKept DEF IsStart
    <3>2. Dead(t) /\ ("flush" \notin Losses => EndKept(t))
      BY <2>1, <3>1 DEF EndInv
    <3> QED BY <3>2, LogSteps, DeadKept, EndStaysKept
  <2>2. CASE status[t] # "succeeded"
    <3>1. PICK w \in Processes : ReconcileAndLog(w)
      BY <1>3, <2>2, SucceededByTick
    <3>2. verdict[w] # NoVerdict /\ verdict[w].task = t
      BY <1>3, <2>2, <3>1, TickOwes
    <3>3. owed[<<w, "tick">>] = NoTask
      BY <3>1 DEF ReconcileAndLog, Owes
    <3>4. t # NoTask
      BY TaskAssumption DEF NoTask
    <3>5. Dead(t) /\ ("flush" \notin Losses => EndKept(t))
      BY <3>2, <3>3, <3>4 DEF EndInv
    <3> QED BY <3>5, LogSteps, DeadKept, EndStaysKept
  <2> QED BY <2>1, <2>2
<1>4. \A s \in Flushers : OwedEnd(s)'
  BY <1>1 DEF OwedEnd
<1> QED BY <1>2, <1>3, <1>4 DEF EndInv, VerdictEnd, OwedEnd

LEMMA LogBegins == LogInit => DockerOnly /\ LogTypeOK /\ EndInv
<1> SUFFICES ASSUME LogInit PROVE DockerOnly /\ LogTypeOK /\ EndInv
  OBVIOUS
<1>1. /\ status = [t \in TaskIds |-> "none"] /\ container = [t \in TaskIds |-> "none"]
      /\ pc = [w \in Workers |-> "idle"]
      /\ sweepPc = [w \in Processes |-> "stop"] /\ sweepItem = [w \in Processes |-> NoTask]
      /\ verdict = [w \in Processes |-> NoVerdict]
  BY DEF LogInit, Init, TableInit, RuntimeInit, WorkerInit, SweeperInit, ReconcilerInit
<1>2. DockerOnly
  BY <1>1 DEF DockerOnly
<1>3. LogTypeOK
  <2>1. NoLook \in [now : [TaskIds -> Nat] \cup {<<>>}, todo : SUBSET TaskIds,
                    batch : SUBSET (TaskIds \X Nat)] /\ NoLook.todo = {}
    BY DEF NoLook
  <2> QED BY <2>1 DEF LogInit, LogTypeOK
<1>4. EndInv
  BY <1>1 DEF LogInit, EndInv
<1> QED BY <1>2, <1>3, <1>4

LEMMA LogTruths == LogSpec => [](OwnInv /\ DockerOnly /\ LogTypeOK /\ EndInv)
<1> DEFINE Inv == DockerOnly /\ LogTypeOK /\ EndInv
<1>1. OwnInv /\ Inv /\ [LogNext]_<<vars, logVars>> => Inv'
  <2> SUFFICES ASSUME OwnInv, Inv, [LogNext]_<<vars, logVars>> PROVE Inv'
    OBVIOUS
  <2>1. CASE LogNext
    BY <2>1, LogSteps, DockerOnlyStep, LogTypes, EndStep
  <2>2. CASE UNCHANGED <<vars, logVars>>
    <3>1. DockerOnly'
      BY <2>2, DockerOnlyStep
    <3>2. UNCHANGED <<written, stored, owed, status, req, container, runtimeRef, verdict, since, lost, look, pc, cur>>
      BY <2>2 DEF vars, logVars, tableVars, workerVars, reconcilerVars
    <3>3. LogTypeOK'
      BY <3>2 DEF LogTypeOK
    <3>4. EndInv'
      BY <3>2 DEF EndInv, Dead, Settled, Alive, EndKept, Readable, Scan, LastLines, IsStart
    <3> QED BY <3>1, <3>3, <3>4
  <2> QED BY <2>1, <2>2
<1>2. LogInit => Inv
  BY LogBegins
<1> HIDE DEF Inv
<1>3. LogSpec => []Inv
  BY <1>1, <1>2, LogKnown, PTL DEF LogSpec
<1> QED BY <1>3, LogKnown, PTL DEF Inv

\* The end of a log is not missed, by any number of workers and processes: what Tick
\* takes for an end is one, nothing is written after it, and the last lines are
\* fetched before the status is written (EndInv), where no last fetch fails.
THEOREM EndsAreKept ==
  ASSUME "flush" \notin Losses
  PROVE  LogSpec => []EndOfLogKept
<1>1. OwnInv /\ DockerOnly /\ EndInv => EndOfLogKept
  <2> SUFFICES ASSUME OwnInv, DockerOnly, EndInv, NEW t \in TaskIds,
                      status[t] = "succeeded", Readable(t)
               PROVE  Scan(t, LastLines(t, FlushTail)) \subseteq stored[t]
    BY DEF EndOfLogKept
  <2>1. IsStart(t)
    BY DEF DockerOnly, Readable
  <2> QED BY <2>1 DEF EndInv, EndKept
<1> QED BY <1>1, LogTruths, PTL

----------------------------------------------------------------------------
(* What is asked for. *)

\* MaxLines bounds the lines of a task: they are among all the lines written.
LEMMA LinesBounded ==
  ASSUME LogTypeOK, NEW t \in TaskIds, WriteLine(t), written[t] <= MaxLines
  PROVE  written[t] + 1 <= MaxLines
<1> DEFINE lines == {t} \X (1 .. written[t])
<1>1. IsFiniteSet(TaskIds \X (1 .. MaxLines))
  <2>1. IsFiniteSet(1 .. MaxLines)
    BY FS_Interval, LogAssumption
  <2> QED BY <2>1, FS_Product, TaskAssumption
<1>2. IsFiniteSet(Written)
  <2>1. Written \subseteq TaskIds \X (1 .. MaxLines)
    BY DEF Written
  <2> QED BY <1>1, <2>1, FS_Subset
<1>3. lines \subseteq Written
  <2> SUFFICES ASSUME NEW i \in 1 .. written[t] PROVE <<t, i>> \in Written
    OBVIOUS
  <2>1. written[t] \in Nat /\ i \in 1 .. MaxLines
    BY LogAssumption DEF LogTypeOK
  <2> QED BY <2>1 DEF Written
<1>4. Cardinality(lines) = written[t]
  <2>1. written[t] \in Nat
    BY DEF LogTypeOK
  <2>2. IsFiniteSet(1 .. written[t]) /\ Cardinality(1 .. written[t]) = written[t]
    BY <2>1, FS_Interval
  <2>3. IsFiniteSet({t}) /\ Cardinality({t}) = 1
    BY FS_Singleton
  <2>4. Cardinality(lines) = Cardinality({t}) * Cardinality(1 .. written[t])
    BY <2>2, <2>3, FS_Product
  <2> QED BY <2>1, <2>2, <2>3, <2>4
<1>5. Cardinality(lines) <= Cardinality(Written)
  BY <1>2, <1>3, FS_Subset
<1>6. Cardinality(Written) \in Nat
  BY <1>2, FS_CardinalityType
<1> QED BY <1>4, <1>5, <1>6, LogAssumption DEF WriteLine, LogTypeOK

\* A step that moves no line of t.
LEMMA GapStill ==
  ASSUME OwnInv, DockerOnly, LogTypeOK, LogNext, NEW w \in Processes, NEW t \in TaskIds,
         GapInvOf(w, t), written'[t] = written[t], stored'[t] = stored[t],
         lost'[t] = lost[t], since'[w][t] = since[w][t],
         {n \in 1 .. MaxLines : <<t, n>> \in look'[w].batch}
           = {n \in 1 .. MaxLines : <<t, n>> \in look[w].batch},
         look'[w].todo # {} => look'[w].now[t] <= written[t]
  PROVE  GapInvOf(w, t)'
<1>1. WasAsked(w, t)' = WasAsked(w, t)
  BY DEF WasAsked
<1>2. Dead(t) => Dead(t)'
  BY LogSteps, DeadKept
<1> QED BY <1>1, <1>2 DEF GapInvOf

\* A step that fetches a last part of the lines of t, from where the entry in sinceByID
\* says or, without one, when t is dead or gets one.
LEMMA GapSuffix ==
  ASSUME OwnInv, DockerOnly, LogTypeOK, LogNext, NEW w \in Processes, NEW t \in TaskIds,
         GapInvOf(w, t), written'[t] = written[t],
         NEW from \in Int, NEW F, F = {i \in 1 .. written[t] : i > from},
         WasAsked(w, t)' = WasAsked(w, t) \cup F,
         \/ since'[w][t] = since[w][t] /\ Dead(t)
         \/ /\ since'[w][t] \in 0 .. written[t]
            /\ since[w][t] = -1 \/ from = since[w][t],
         look'[w].todo # {} => look'[w].now[t] <= written[t]
  PROVE  GapInvOf(w, t)'
<1>0. /\ written[t] \in Nat /\ WasAsked(w, t) \subseteq 1 .. written[t]
      /\ since[w][t] \in -1 .. written[t]
  BY DEF GapInvOf, LogTypeOK
<1>1. WasAsked(w, t)' \subseteq 1 .. written'[t]
  BY <1>0
<1>2. since'[w][t] \in -1 .. written'[t]
  BY <1>0
<1>3. ASSUME since'[w][t] = -1, NEW m \in WasAsked(w, t)'
      PROVE  Dead(t)' /\ m .. written'[t] \subseteq WasAsked(w, t)'
  <2>1. since[w][t] = -1 /\ Dead(t)
    BY <1>0, <1>3
  <2>2. Dead(t)'
    BY <2>1, LogSteps, DeadKept
  <2>3. CASE m \in WasAsked(w, t)
    BY <2>1, <2>2, <2>3 DEF GapInvOf
  <2>4. CASE m \in F
    BY <1>0, <2>2, <2>4
  <2> QED BY <1>3, <2>3, <2>4
<1>4. ASSUME NEW m \in WasAsked(w, t)', NEW k \in m + 1 .. since'[w][t]
      PROVE  k \in WasAsked(w, t)'
  <2>1. m \in 1 .. written[t] /\ k \in 1 .. written[t] /\ k > m
    BY <1>0, <1>1, <1>2
  <2>2. CASE m \in F
    BY <2>1, <2>2
  <2>3. CASE m \in WasAsked(w, t) /\ since[w][t] = -1
    BY <2>1, <2>3 DEF GapInvOf
  <2>4. CASE m \in WasAsked(w, t) /\ since[w][t] # -1
    <3>1. k <= since[w][t] => k \in WasAsked(w, t)
      BY <1>0, <2>1, <2>4 DEF GapInvOf
    <3>2. k > since[w][t] => k \in F
      BY <1>0, <1>4, <2>1, <2>4
    <3> QED BY <1>0, <2>1, <3>1, <3>2
  <2> QED BY <1>4, <2>2, <2>3, <2>4
<1> QED BY <1>1, <1>2, <1>3, <1>4 DEF GapInvOf

LEMMA GapByFetch ==
  ASSUME OwnInv, DockerOnly, LogTypeOK, LogNext, GapInv,
         NEW w \in Processes, LookFetch(w), NEW t \in TaskIds
  PROVE  GapInvOf(w, t)'
<1>1. PICK u \in look[w].todo :
        /\ u \in TaskIds
        /\ look[w].now[u] \in Nat
        /\ FetchNone(w, u) \/ \E K \in SUBSET Asked(w, u) : FetchOf(w, u, K)
  BY FetchStep
<1>2. /\ GapInvOf(w, t) /\ GapInvOf(w, u) /\ UNCHANGED <<written, stored>>
      /\ DOMAIN look = Processes /\ DOMAIN since = Processes /\ DOMAIN since[w] = TaskIds
      /\ DOMAIN lost = TaskIds
  BY <1>1 DEF GapInv, LookFetch, LogTypeOK
<1>3. CASE FetchNone(w, u)
  <2>1. look'[w] = [now |-> look[w].now, todo |-> look[w].todo \ {u}, batch |-> look[w].batch]
        /\ since' = since /\ lost' = lost
    BY <1>2, <1>3 DEF FetchNone
  <2>2. look'[w].todo # {} => look'[w].now[t] <= written[t]
    BY <1>1, <1>2, <2>1 DEF GapInvOf
  <2> QED BY <1>2, <2>1, <2>2, GapStill
<1>4. ASSUME NEW K \in SUBSET Asked(w, u), FetchOf(w, u, K) PROVE GapInvOf(w, t)'
  <2>1. /\ look'[w].now = look[w].now /\ look'[w].todo = look[w].todo \ {u}
        /\ look'[w].batch = look[w].batch \cup ({u} \X K)
        /\ lost' = [lost EXCEPT ![u] = lost[u] \cup (Asked(w, u) \ K)]
        /\ since'[w] = [since[w] EXCEPT ![u] = look[w].now[u]]
    BY <1>2, <1>4 DEF FetchOf
  <2>2. look'[w].todo # {} => look'[w].now[t] <= written[t]
    BY <1>1, <1>2, <2>1 DEF GapInvOf
  <2>3. CASE t # u
    <3>1. \A n : <<t, n>> \in look'[w].batch <=> <<t, n>> \in look[w].batch
      BY <2>1, <2>3
    <3>2. since'[w][t] = since[w][t] /\ lost'[t] = lost[t]
      BY <1>1, <1>2, <2>1, <2>3
    <3> QED BY <1>2, <2>2, <3>1, <3>2, GapStill
  <2>4. CASE t = u
    <3>1. since'[w][t] = look[w].now[t] /\ look[w].now[t] \in 0 .. written[t]
      BY <1>1, <1>2, <2>1, <2>4 DEF GapInvOf, LogTypeOK
    <3> DEFINE from == IF since[w][t] >= 0 THEN since[w][t] ELSE written[t] - FirstTail
    <3>2. from \in Int /\ (since[w][t] = -1 \/ from = since[w][t])
      BY <1>2, LogAssumption DEF GapInvOf, LogTypeOK, FirstTail
    <3>3. Asked(w, t) = {i \in 1 .. written[t] : i > from}
      BY DEF Asked, LinesSince, LastLines
    <3>4. WasAsked(w, t)' = WasAsked(w, t) \cup Asked(w, t)
      <4>0. lost'[t] = lost[t] \cup (Asked(w, t) \ K) /\ K \subseteq Asked(w, t)
        BY <1>2, <2>1, <2>4
      <4>1. Asked(w, t) \subseteq 1 .. MaxLines
        BY <1>2, <2>4, AskedIs, LogAssumption DEF GapInvOf, LogTypeOK
      <4>2. \A n : <<t, n>> \in look'[w].batch <=> <<t, n>> \in look[w].batch \/ n \in K
        BY <2>1, <2>4
      <4>3. WasAsked(w, t)' = stored[t] \cup lost'[t]
                               \cup {n \in 1 .. MaxLines : <<t, n>> \in look'[w].batch}
        BY <1>2 DEF WasAsked
      <4> QED BY <4>0, <4>1, <4>2, <4>3 DEF WasAsked
    <3> HIDE DEF from
    <3> QED BY <1>2, <2>2, <3>1, <3>2, <3>3, <3>4, GapSuffix
  <2> QED BY <2>3, <2>4
<1> QED BY <1>1, <1>3, <1>4

LEMMA GapByFlush ==
  ASSUME OwnInv, DockerOnly, LogTypeOK, LogNext, EndInv, GapInv,
         NEW s \in Flushers, FinalFlush(s), NEW w \in Processes, NEW t \in TaskIds
  PROVE  GapInvOf(w, t)'
<1>1. GapInvOf(w, t) /\ UNCHANGED <<written, since, look>>
  BY DEF GapInv, FinalFlush
<1>2. look'[w].todo # {} => look'[w].now[t] <= written[t]
  BY <1>1 DEF GapInvOf
<1>3. PICK u \in TaskIds :
        /\ u = owed[s]
        /\ UNCHANGED <<stored, lost>> \/ \E K \in SUBSET LastLines(u, FlushTail) : FlushOf(u, K)
  BY FlushStep
<1>4. CASE stored'[t] = stored[t] /\ lost'[t] = lost[t]
  BY <1>1, <1>2, <1>4, GapStill
<1>5. ASSUME NEW K \in SUBSET LastLines(u, FlushTail), FlushOf(u, K), t = u
      PROVE  GapInvOf(w, t)'
  <2>1. /\ stored'[t] = stored[t] \cup K
        /\ lost'[t] = lost[t] \cup (LastLines(t, FlushTail) \ K)
    BY <1>5 DEF FlushOf, LogTypeOK
  <2>2. Dead(t)
    BY <1>3, <1>5 DEF EndInv, FinalFlush
  <2> DEFINE from == written[t] - FlushTail
  <2>3. from \in Int
    BY LogAssumption DEF LogTypeOK, FlushTail, DefaultFlushLines, MaxFlushLines
  <2>4. LastLines(t, FlushTail) = {i \in 1 .. written[t] : i > from}
    BY DEF LastLines
  <2>5. WasAsked(w, t)' = WasAsked(w, t) \cup LastLines(t, FlushTail)
    BY <1>1, <1>5, <2>1 DEF WasAsked
  <2> HIDE DEF from
  <2> QED BY <1>1, <1>2, <2>2, <2>3, <2>4, <2>5, GapSuffix
<1>6. ASSUME NEW K \in SUBSET LastLines(u, FlushTail), FlushOf(u, K), t # u
      PROVE  stored'[t] = stored[t] /\ lost'[t] = lost[t]
  BY <1>6 DEF FlushOf, LogTypeOK
<1> QED BY <1>3, <1>4, <1>5, <1>6

LEMMA GapByInsert ==
  ASSUME OwnInv, DockerOnly, LogTypeOK, LogNext, GapInv,
         NEW w \in Processes, LookInsert(w), NEW t \in TaskIds
  PROVE  GapInvOf(w, t)'
<1> DEFINE added(old) ==
      [u \in TaskIds |-> old[u] \cup {n \in 1 .. MaxLines : <<u, n>> \in look[w].batch}]
<1>1. /\ GapInvOf(w, t) /\ UNCHANGED <<written, since>>
      /\ look'[w] = NoLook
      /\ \/ stored' = added(stored) /\ lost' = lost
         \/ lost' = added(lost) /\ stored' = stored
  BY DEF GapInv, LookInsert, LogTypeOK
<1>2. look'[w].batch = {} /\ look'[w].todo = {}
  BY <1>1 DEF NoLook
<1>3. WasAsked(w, t)' = WasAsked(w, t)
  <2>1. added(stored)[t] = stored[t] \cup {n \in 1 .. MaxLines : <<t, n>> \in look[w].batch}
    OBVIOUS
  <2>2. added(lost)[t] = lost[t] \cup {n \in 1 .. MaxLines : <<t, n>> \in look[w].batch}
    OBVIOUS
  <2>3. {n \in 1 .. MaxLines : <<t, n>> \in look'[w].batch} = {}
    BY <1>2
  <2>4. WasAsked(w, t)' = stored'[t] \cup lost'[t]
    BY <2>3 DEF WasAsked
  <2> HIDE DEF added
  <2> QED BY <1>1, <2>1, <2>2, <2>4 DEF WasAsked
<1>4. Dead(t) => Dead(t)'
  BY LogSteps, DeadKept
<1> QED BY <1>1, <1>2, <1>3, <1>4 DEF GapInvOf

LEMMA GapByWrite ==
  ASSUME OwnInv, DockerOnly, LogTypeOK, LogNext, GapInv,
         NEW u \in TaskIds, WriteLine(u), NEW w \in Processes, NEW t \in TaskIds
  PROVE  GapInvOf(w, t)'
<1>1. GapInvOf(w, t) /\ GapInvOf(w, u) /\ UNCHANGED <<stored, lost, since, look>>
  BY DEF GapInv, WriteLine
<1>2. CASE t # u
  <2>1. written'[t] = written[t]
    BY <1>2 DEF WriteLine, LogTypeOK
  <2> QED BY <1>1, <2>1, GapStill DEF GapInvOf
<1>3. CASE t = u
  <2>1. written'[t] = written[t] + 1 /\ written[t] \in Nat /\ ~Dead(t)
    BY <1>3 DEF WriteLine, LogTypeOK, Dead, Alive
  <2>2. written[t] + 1 <= MaxLines
    BY <1>1, <1>3, LinesBounded DEF GapInvOf
  <2>3. WasAsked(w, t)' = WasAsked(w, t) /\ since'[w][t] = since[w][t] /\ look' = look
    BY <1>1 DEF WasAsked
  <2>4. look[w].todo # {} => look[w].now[t] \in Nat
    BY DEF LogTypeOK
  <2> QED BY <1>1, <2>1, <2>2, <2>3, <2>4 DEF GapInvOf
<1> QED BY <1>2, <1>3

LEMMA GapStep ==
  ASSUME \A v, w \in Processes : v = w,
         OwnInv, DockerOnly, LogTypeOK, EndInv, GapInv, LogNext
  PROVE  GapInv'
<1> SUFFICES ASSUME NEW w \in Processes, NEW t \in TaskIds PROVE GapInvOf(w, t)'
  BY DEF GapInv
<1>0. GapInvOf(w, t) /\ (look[w].todo # {} => look[w].now[t] <= written[t])
  BY DEF GapInv, GapInvOf
<1>1. CASE OwesDead \/ UNCHANGED logVars
  <2>1. UNCHANGED <<written, stored, lost, since, look>>
    BY <1>1 DEF OwesDead, Owes, logVars
  <2> QED BY <1>0, <2>1, GapStill
<1>2. ASSUME NEW u \in TaskIds, WriteLine(u) PROVE GapInvOf(w, t)'
  BY <1>2, GapByWrite
<1>3. CASE LookBegin(w)
  <2>1. /\ UNCHANGED <<written, stored, lost, since>>
        /\ look[w].batch = {} /\ look'[w].batch = {} /\ look'[w].now = written
    BY <1>3 DEF LookBegin, LogTypeOK, NoLook
  <2>2. written[t] \in Nat
    BY DEF LogTypeOK
  <2> QED BY <1>0, <2>1, <2>2, GapStill
<1>4. CASE LookFetch(w) \/ LookInsert(w)
  BY <1>4, GapByFetch, GapByInsert
<1>5. ASSUME NEW s \in Flushers, FinalFlush(s) PROVE GapInvOf(w, t)'
  BY <1>5, GapByFlush
<1> QED BY <1>1, <1>2, <1>3, <1>4, <1>5, SchedulerLogs DEF LogLoop

\* The invariant of one process's log loop.
LEMMA GapsAre ==
  ASSUME \A v, w \in Processes : v = w
  PROVE  LogSpec => []GapInv
<1>1. OwnInv /\ DockerOnly /\ LogTypeOK /\ EndInv /\ GapInv /\ [LogNext]_<<vars, logVars>>
        => GapInv'
  <2> SUFFICES ASSUME OwnInv, DockerOnly, LogTypeOK, EndInv, GapInv,
                      UNCHANGED <<vars, logVars>>
               PROVE  GapInv'
    BY GapStep
  <2>1. UNCHANGED <<status, req, container, runtimeRef, pc, cur, written, stored, lost,
                    since, look>>
    BY DEF vars, logVars, tableVars, workerVars
  <2> QED BY <2>1 DEF GapInv, GapInvOf, WasAsked, Dead, Settled, Alive, IsStart
<1>2. LogInit => GapInv
  BY LogAssumption DEF LogInit, GapInv, GapInvOf, WasAsked, NoLook
<1> QED BY <1>1, <1>2, LogTruths, PTL DEF LogSpec

\* With one process the log loop and the last fetches skip no line by what they ask
\* for, whatever is lost on the way and however small the tails are.
THEOREM OneProcessSkipsNothing ==
  ASSUME \A v, w \in Processes : v = w
  PROVE  LogSpec => []NothingSkipped
<1>1. GapInv => NothingSkipped
  BY DEF GapInv, GapInvOf, NothingSkipped, WasAsked
<1> QED BY <1>1, GapsAre, PTL

\* Where nothing fails and no line is too long, what is asked for arrives.
NothingLost == \A t \in TaskIds : lost[t] = {}

LEMMA NothingLostStep ==
  ASSUME Losses = {}, LongLines = {}, OwnInv, DockerOnly, LogTypeOK, NothingLost, LogNext
  PROVE  NothingLost'
<1>0. ASSUME NEW t, NEW asked, NEW loss, NEW read \in Reads(asked, loss)
      PROVE  asked \ Scan(t, read) = {}
  BY DEF Reads, Scan
<1>1. CASE OwesDead \/ UNCHANGED logVars
  BY <1>1 DEF OwesDead, Owes, logVars, NothingLost
<1>2. ASSUME NEW t \in TaskIds, WriteLine(t) PROVE NothingLost'
  BY <1>2 DEF WriteLine, NothingLost
<1>3. ASSUME NEW w \in Processes, LogLoop(w) PROVE lost' = lost
  <2>1. CASE LookFetch(w)
    <3>1. ASSUME NEW t \in look[w].todo, NEW read \in Reads(Asked(w, t), "read"),
                 lost' = [lost EXCEPT ![t] = @ \cup (Asked(w, t) \ Scan(t, read))]
          PROVE  lost' = lost
      <4>1. Asked(w, t) \ Scan(t, read) = {}
        BY <1>0
      <4> QED BY <3>1, <4>1 DEF LogTypeOK
    <3> QED BY <2>1, <3>1 DEF LookFetch
  <2> QED BY <1>3, <2>1 DEF LogLoop, LookBegin, LookInsert
<1>4. ASSUME NEW s \in Flushers, FinalFlush(s) PROVE lost' = lost
  <2>1. ASSUME NEW t \in TaskIds, NEW read \in Reads(LastLines(t, FlushTail), "flush"),
               lost' = [lost EXCEPT ![t] = @ \cup (LastLines(t, FlushTail) \ Scan(t, read))]
        PROVE  lost' = lost
    <3>1. LastLines(t, FlushTail) \ Scan(t, read) = {}
      BY <1>0
    <3> QED BY <2>1, <3>1 DEF LogTypeOK
  <2> QED BY <1>4, <2>1 DEF FinalFlush
<1> QED BY <1>1, <1>2, <1>3, <1>4, SchedulerLogs DEF NothingLost

\* Behind a line that was fetched, every line up to the time of the next round was.
NoGap ==
  \A w \in Processes, t \in TaskIds :
    LET fetched == stored[t] \cup {n \in 1 .. MaxLines : <<t, n>> \in look[w].batch}
    IN  \A m \in fetched : m + 1 .. since[w][t] \subseteq fetched

\* With one process the log loop and the last fetches leave no gap, if nothing fails and
\* no line is too long: the gaps of the code all come from these.
THEOREM WithoutLossesNoGap ==
  ASSUME \A v, w \in Processes : v = w, Losses = {}, LongLines = {}
  PROVE  LogSpec => []NoGap
<1>1. OwnInv /\ DockerOnly /\ LogTypeOK /\ NothingLost /\ [LogNext]_<<vars, logVars>>
        => NothingLost'
  BY NothingLostStep DEF logVars, NothingLost
<1>2. LogInit => NothingLost
  BY DEF LogInit, NothingLost
<1>3. LogSpec => []NothingLost
  BY <1>1, <1>2, LogTruths, PTL DEF LogSpec
<1>4. NothingSkipped /\ NothingLost => NoGap
  BY DEF NothingSkipped, NothingLost, NoGap
<1> QED BY <1>3, <1>4, OneProcessSkipsNothing, PTL
=============================================================================
