------------------------------ MODULE SlotProofs ----------------------------
(***************************************************************************)
(* How far the limits can be oversubscribed: the slots, the slow cap, the  *)
(* reserve for fast tasks and the GPU slots.  A set of tasks is committed  *)
(* to each limit: the rows that count against it and the tasks whose       *)
(* worker has been told there was room.  Only the step that looks for room *)
(* can add to it; when it finds room there are fewer rows than the limit,  *)
(* and each worker brings at most one task.                                *)
(*                                                                         *)
(* The limits differ in which step that is.  The slots are counted by      *)
(* CountTotal; the slow cap is compared with the slow rows of the moment   *)
(* by ApplyPolicy, the reserve with the rows of the count before; the GPU  *)
(* slots are looked at by CheckGPU.                                        *)
(***************************************************************************)
EXTENDS AuditProofs, GpuProofs, Claims

LEMMA LimitType == MaxTotal \in Nat /\ MaxTotal >= 1
BY PolicyAssumption DEF MaxTotal

LEMMA FiniteCommitted == TypeOK => IsFiniteSet(SlotRows) /\ IsFiniteSet(Committed)
<1> SUFFICES ASSUME TypeOK PROVE IsFiniteSet(SlotRows) /\ IsFiniteSet(Committed)
  OBVIOUS
<1>1. {cur[w] : w \in Granted} \subseteq TaskIds \cup {NoTask}
  BY DEF TypeOK, WorkerTypeOK, Granted
<1>2. Committed \subseteq TaskIds \cup {NoTask} /\ SlotRows \subseteq TaskIds
  BY <1>1 DEF Committed, SlotRows
<1>3. IsFiniteSet(TaskIds \cup {NoTask})
  BY TaskAssumption, FS_AddElement
<1> QED BY <1>2, <1>3, TaskAssumption, FS_Subset

LEMMA FiniteCommittedNext == (TypeOK => IsFiniteSet(SlotRows) /\ IsFiniteSet(Committed))'
BY FiniteCommitted, PTL

LEMMA ShrunkCommitted ==
  ASSUME TypeOK, TypeOK', SlotInv, Committed' \subseteq Committed
  PROVE  SlotInv'
<1>1. Cardinality(Committed') <= Cardinality(Committed)
  BY FiniteCommitted, FS_Subset
<1>2. /\ Cardinality(Committed') \in Nat /\ Cardinality(Committed) \in Nat
      /\ Cardinality(Workers) \in Nat
  BY FiniteCommitted, FiniteCommittedNext, WorkerAssumption, FS_CardinalityType
<1> QED BY <1>1, <1>2, LimitType DEF SlotInv, MaxTotal

\* Nothing but a worker's step makes a row occupy a slot.
LEMMA BackgroundCommitted ==
  ASSUME OwnInv, RowsAdvance, UNCHANGED workerVars
  PROVE  Committed' \subseteq Committed
<1>1. SlotRows' \subseteq SlotRows
  <2>1. ASSUME NEW t \in TaskIds, status'[t] \in SlotStatuses, IsStart(t)'
        PROVE  status[t] \in SlotStatuses /\ IsStart(t)
    BY <2>1
    DEF RowsAdvance, IsStart, OwnInv, TypeOK, TableTypeOK, Status, SlotStatuses, Terminal, Past
  <2> QED BY <2>1 DEF SlotRows
<1>2. Granted' = Granted /\ cur' = cur
  BY DEF workerVars, Granted
<1> QED BY <1>1, <1>2 DEF Committed

\* A status that does not occupy a slot.
LEMMA LeavingSlots ==
  ASSUME TypeOK
  PROVE  /\ \A t, s : UpdateStatus(t, s) /\ s \notin SlotStatuses => SlotRows' \subseteq SlotRows
         /\ UNCHANGED tableVars => SlotRows' = SlotRows
         /\ \A t, ok : CreateStopRecord(t, ok) => SlotRows' = SlotRows
<1> USE DEF TypeOK, TableTypeOK, SlotRows, IsStart
<1>1. ASSUME NEW t, NEW s, UpdateStatus(t, s), s \notin SlotStatuses
      PROVE  SlotRows' \subseteq SlotRows
  BY <1>1 DEF UpdateStatus
<1>2. UNCHANGED tableVars => SlotRows' = SlotRows
  BY DEF tableVars
<1>3. \A t, ok : CreateStopRecord(t, ok) => SlotRows' = SlotRows
  BY DEF CreateStopRecord
<1> QED BY <1>1, <1>2, <1>3

\* The statements that let the row of w occupy a slot.
TakesSlot(w) ==
  \/ pc[w] = "cas" /\ TrySetStatus(cur[w], "processing", "admitted")
  \/ RecordRunning(w)

\* A step after the count moves w on only if it was granted a slot, and only a
\* task that was granted one takes it.
LEMMA WorkCommitted ==
  ASSUME OwnInv, NEW w \in Workers, WorkerStep(w) \/ DbError(w) \/ CrashWorker(w),
         ~CountTotal(w)
  PROVE  Committed' \subseteq Committed
<1>0. TypeOK /\ pc \in [Workers -> {"idle", "claim"} \cup Deciding \cup Starting \cup Stopping]
      /\ DOMAIN cur = Workers /\ DOMAIN total = Workers
  BY DEF OwnInv, TypeOK, WorkerTypeOK
<1>1. SlotRows' \subseteq SlotRows \/ (SlotRows' \subseteq SlotRows \cup {cur[w]} /\ w \in Granted)
  <2>1. CASE TakesSlot(w)
    <3>1. w \in Granted
      BY <2>1 DEF TakesSlot, RecordRunning, Granted, Starting
    <3>2. SlotRows' \subseteq SlotRows \cup {cur[w]}
      BY <1>0, <2>1
      DEF TakesSlot, RecordRunning, TrySetStatus, UpdateStatus, UpdateRuntime,
          SlotRows, IsStart, TypeOK, TableTypeOK
    <3> QED BY <3>1, <3>2
  <2>2. CASE ~TakesSlot(w)
    <3>1. \/ UNCHANGED tableVars
          \/ \E t, ok : CreateStopRecord(t, ok)
          \/ \E t : \E s \in {"pending", "processing"} \cup Terminal : UpdateStatus(t, s)
      BY <2>2
      DEF WorkerStep, DbError, StatementFails, AnswerLost, CrashWorker, ClaimLock,
          ClaimCommit, CountTotal, ApplyPolicy, CheckGPU, CommitAdmission, TakesSlot,
          ResetToPending, ResourceCheck, CreateContainer, StartContainer,
          FailStart, ReadTarget, StopTarget, MarkStopped, FinishStop, FailStop,
          WriteStopRecord, TrySetStatus, Terminal
    <3>2. ({"pending", "processing"} \cup Terminal) \cap SlotStatuses = {}
      BY DEF Terminal, SlotStatuses
    <3> QED BY <1>0, <3>1, <3>2, LeavingSlots
  <2> QED BY <2>1, <2>2
<1>2. ASSUME NEW v \in Granted' PROVE v \in Granted /\ cur'[v] = cur[v]
  <2>0. v \in Workers
    BY DEF Granted
  <2>1. CASE v # w
    <3>1. total'[v] = total[v]
      <4>1. UNCHANGED total \/ Return(w)
        BY DEF WorkerStep, DbError, StatementFails, AnswerLost, CrashWorker, ClaimLock, ClaimCommit, ApplyPolicy,
           CheckGPU, CommitAdmission, ResetToPending, ResourceCheck, CreateContainer,
           StartContainer, RecordRunning, FailStart, ReadTarget, StopTarget, MarkStopped,
           FinishStop, FailStop, WriteStopRecord, Keep
      <4> QED BY <1>0, <2>0, <2>1, <4>1 DEF Return
    <3>2. pc'[v] = pc[v] /\ cur'[v] = cur[v]
      BY <2>0, <2>1, StepsOwn DEF StepOwn, WorkerEffect, MemoryEffect
    <3> QED BY <1>2, <3>1, <3>2 DEF Granted
  <2>2. CASE v = w
    <3>1. CASE ApplyPolicy(w)
      <4>1. pc[w] = "policy" /\ cur' = cur /\ IsStart(cur[w])
        BY <3>1, WorkerNow DEF ApplyPolicy, Keep, HoldsTaskOf, Deciding
      <4>2. pc'[w] \in {"gpu", "cas"} => total[w] < MaxTotal
        BY <1>0, <3>1, <4>1 DEF ApplyPolicy, Goto, Admit, IsStart
      <4>3. pc'[w] \in {"gpu", "cas", "reject"}
        BY <1>0, <3>1 DEF ApplyPolicy, Goto
      <4> QED BY <1>2, <2>2, <4>1, <4>2, <4>3 DEF Granted, Starting
    <3>2. CASE CheckGPU(w) \/ CommitAdmission(w) \/ ResourceCheck(w) \/ CreateContainer(w)
               \/ StartContainer(w)
      <4>1. \/ pc[w] \in {"gpu", "cas", "check", "create", "start"} /\ cur' = cur
        BY <3>2 DEF CheckGPU, CommitAdmission, ResourceCheck, CreateContainer,
           StartContainer, Keep
      <4> QED BY <2>2, <2>0, <4>1 DEF Granted, Starting
    <3>3. CASE ~(ApplyPolicy(w) \/ CheckGPU(w) \/ CommitAdmission(w) \/ ResourceCheck(w)
                 \/ CreateContainer(w) \/ StartContainer(w))
      <4>1. Return(w) \/ \E step \in {"claim", "count"} \cup Stopping : Goto(w, step)
        BY <3>3 DEF WorkerStep, DbError, StatementFails, AnswerLost, CrashWorker, ClaimLock, ClaimCommit, ResetToPending,
           RecordRunning, FailStart, ReadTarget, StopTarget, MarkStopped, FinishStop,
           FailStop, WriteStopRecord, Stopping, Auditing
      <4>2. pc'[w] \in {"idle", "claim", "count"} \cup Stopping
        BY <1>0, <4>1 DEF Return, Goto
      <4> QED BY <1>2, <2>2, <4>2 DEF Granted, Starting, Stopping, Auditing
    <3> QED BY <3>1, <3>2, <3>3
  <2> QED BY <2>1, <2>2
<1> QED BY <1>1, <1>2 DEF Committed

\* A count that finds room.
LEMMA CountCommitted ==
  ASSUME OwnInv, SlotInv, NEW w \in Workers, CountTotal(w), TypeOK'
  PROVE  SlotInv'
<1>0. /\ TypeOK /\ IsFiniteSet(SlotRows) /\ IsFiniteSet(Committed)
      /\ IsFiniteSet(SlotRows') /\ IsFiniteSet(Committed')
  BY FiniteCommitted, FiniteCommittedNext DEF OwnInv
<1>1. SlotRows' = SlotRows /\ cur' = cur
  BY <1>0, LeavingSlots DEF CountTotal
<1>2. CASE Cardinality(SlotRows) < MaxTotal
  <2> DEFINE Held == {cur[v] : v \in Granted'}
             f == [v \in Granted' |-> cur[v]]
  <2>1. IsFiniteSet(Granted') /\ Cardinality(Granted') <= Cardinality(Workers)
    BY WorkerAssumption, FS_Subset DEF Granted
  <2>2. f \in Surjection(Granted', Held)
    BY DEF Surjection
  <2>3. IsFiniteSet(Held) /\ Cardinality(Held) <= Cardinality(Granted')
    BY <2>1, <2>2, FS_Surjection
  <2>4. Committed' = SlotRows \cup Held
    BY <1>1 DEF Committed
  <2>5. Cardinality(Committed') =
          Cardinality(SlotRows) + Cardinality(Held) - Cardinality(SlotRows \cap Held)
    BY <1>0, <2>3, <2>4, FS_Union
  <2>6. IsFiniteSet(SlotRows \cap Held)
    BY <1>0, FS_Subset
  <2>7. /\ Cardinality(SlotRows) \in Nat /\ Cardinality(Held) \in Nat
        /\ Cardinality(Granted') \in Nat /\ Cardinality(Workers) \in Nat
        /\ Cardinality(SlotRows \cap Held) \in Nat
    BY <1>0, <2>1, <2>3, <2>6, WorkerAssumption, FS_CardinalityType
  <2> HIDE DEF Held
  <2>8. Cardinality(Committed') <= MaxTotal + Cardinality(Workers) - 1
    BY <1>2, <2>1, <2>3, <2>5, <2>7, LimitType
  <2> QED BY <2>8 DEF SlotInv, MaxTotal
<1>3. CASE ~(Cardinality(SlotRows) < MaxTotal)
  <2>1. Granted' \subseteq Granted
    BY <1>0, <1>3 DEF CountTotal, Goto, Granted, TypeOK, WorkerTypeOK, Starting
  <2>2. Committed' \subseteq Committed
    BY <1>1, <2>1 DEF Committed
  <2> QED BY <1>0, <2>2, ShrunkCommitted
<1> QED BY <1>2, <1>3

----------------------------------------------------------------------------
LEMMA SlotInit == Init => SlotInv
<1> SUFFICES ASSUME Init PROVE SlotInv
  OBVIOUS
<1>1. Committed = {}
  BY DEF Init, TableInit, WorkerInit, Committed, SlotRows, SlotStatuses, Granted, Starting
<1>2. Cardinality(Workers) \in Nat
  BY WorkerAssumption, FS_CardinalityType
<1> QED BY <1>1, <1>2, LimitType, FS_EmptySet DEF SlotInv

LEMMA SlotStep == OwnInv /\ SlotInv /\ [Next]_vars => SlotInv'
<1> SUFFICES ASSUME OwnInv, SlotInv, [Next]_vars PROVE SlotInv'
  OBVIOUS
<1>1. TypeOK /\ TypeOK'
  BY OwnStep DEF OwnInv
<1>2. CASE Committed' \subseteq Committed
  BY <1>1, <1>2, ShrunkCommitted
<1>3. ASSUME NEW w \in Workers, Work(w) \/ DbFault(w) \/ Crash(w) PROVE SlotInv'
  BY <1>1, <1>2, <1>3, CountCommitted, WorkCommitted DEF Work, DbFault, Crash
<1>4. CASE RowsAdvance /\ UNCHANGED workerVars
  BY <1>2, <1>4, BackgroundCommitted
<1> QED BY <1>3, <1>4, BackgroundOwn, StutterOwn DEF Next

\* The slots that are taken or promised never exceed the cap by more than the other
\* workers.
THEOREM SlotsCommitted == Spec => []SlotInv
<1> QED BY SlotInit, SlotStep, Ownership, PTL DEF Spec

\* The slots are oversubscribed at most once per additional worker, for any number
\* of workers and tasks, any limits, and whatever fails.
THEOREM SlotsBounded == Spec => []SlotBound
<1>1. OwnInv /\ SlotInv => SlotBound
  <2> SUFFICES ASSUME OwnInv, SlotInv PROVE SlotBound
    OBVIOUS
  <2>1. IsFiniteSet(Committed) /\ SlotRows \subseteq Committed
    BY FiniteCommitted DEF OwnInv, Committed
  <2>2. /\ Cardinality(SlotRows) <= Cardinality(Committed) /\ Cardinality(SlotRows) \in Nat
        /\ Cardinality(Committed) \in Nat /\ Cardinality(Workers) \in Nat
    BY <2>1, WorkerAssumption, FS_Subset, FS_CardinalityType
  <2> QED BY <2>2, LimitType DEF SlotInv, SlotBound
<1> QED BY <1>1, SlotsCommitted, Ownership, PTL

\* One worker keeps the cap exactly, which is what the comment of Admit promises of
\* the whole system.
THEOREM OneWorkerKeepsCap ==
  ASSUME Cardinality(Workers) = 1
  PROVE  Spec => []GlobalCap
<1>1. SlotBound => GlobalCap
  BY LimitType DEF SlotBound, GlobalCap
<1> QED BY <1>1, SlotsBounded, PTL

----------------------------------------------------------------------------
(* Slow tasks. *)

LEMMA LimitTypes ==
  /\ MaxTotal \in Int /\ MaxSlow \in Nat /\ MinFree \in Nat /\ SlowLimit \in Int
BY PolicyAssumption DEF MaxTotal, MaxSlow, MinFree, SlowLimit

\* Rows that leave room, and at most one task per worker.
LEMMA OneMoreEach ==
  ASSUME NEW R, IsFiniteSet(R), NEW L \in Nat, Cardinality(R) < L,
         NEW f, NEW G \in SUBSET Workers
  PROVE  /\ IsFiniteSet(R \cup {f[v] : v \in G})
         /\ Cardinality(R \cup {f[v] : v \in G}) <= L + Cardinality(Workers) - 1
<1> DEFINE Held == {f[v] : v \in G}
           g == [v \in G |-> f[v]]
<1>1. IsFiniteSet(G) /\ Cardinality(G) <= Cardinality(Workers)
  BY WorkerAssumption, FS_Subset
<1>2. g \in Surjection(G, Held)
  BY DEF Surjection
<1>3. IsFiniteSet(Held) /\ Cardinality(Held) <= Cardinality(G)
  BY <1>1, <1>2, FS_Surjection
<1> HIDE DEF Held
<1>4. /\ IsFiniteSet(R \cup Held) /\ IsFiniteSet(R \cap Held)
      /\ Cardinality(R \cup Held) =
           Cardinality(R) + Cardinality(Held) - Cardinality(R \cap Held)
  BY <1>3, FS_Union, FS_Subset
<1>5. /\ Cardinality(R) \in Nat /\ Cardinality(Held) \in Nat /\ Cardinality(G) \in Nat
      /\ Cardinality(Workers) \in Nat /\ Cardinality(R \cap Held) \in Nat
  BY <1>1, <1>3, <1>4, WorkerAssumption, FS_CardinalityType
<1>6. Cardinality(R \cup Held) <= L + Cardinality(Workers) - 1
  BY <1>1, <1>3, <1>4, <1>5
<1> QED BY <1>4, <1>6 DEF Held

LEMMA FiniteSlow ==
  TypeOK => /\ IsFiniteSet(SlowRows) /\ IsFiniteSet(SlowCommitted)
            /\ IsFiniteSet(FastCommitted)
<1> SUFFICES ASSUME TypeOK
             PROVE  /\ IsFiniteSet(SlowRows) /\ IsFiniteSet(SlowCommitted)
                    /\ IsFiniteSet(FastCommitted)
  OBVIOUS
<1>1. /\ {cur[w] : w \in SlowPromised} \subseteq TaskIds \cup {NoTask}
      /\ {cur[w] : w \in FastGranted} \subseteq TaskIds \cup {NoTask}
  BY DEF TypeOK, WorkerTypeOK, SlowPromised, FastGranted, Promised
<1>2. SlowRows \subseteq TaskIds \cup {NoTask}
  BY DEF SlowRows, SlotRows
<1>3. IsFiniteSet(TaskIds \cup {NoTask})
  BY TaskAssumption, FS_AddElement
<1>4. /\ SlowCommitted \subseteq TaskIds \cup {NoTask}
      /\ FastCommitted \subseteq TaskIds \cup {NoTask}
  BY <1>1, <1>2 DEF SlowCommitted, FastCommitted
<1> QED BY <1>2, <1>3, <1>4, FS_Subset

LEMMA Shrunk ==
  ASSUME NEW S, NEW T, IsFiniteSet(S), T \subseteq S, NEW n \in Int, Cardinality(S) <= n
  PROVE  Cardinality(T) <= n
<1>1. IsFiniteSet(T) /\ Cardinality(T) <= Cardinality(S)
  BY FS_Subset
<1>2. Cardinality(T) \in Nat /\ Cardinality(S) \in Nat
  BY <1>1, FS_CardinalityType
<1> QED BY <1>1, <1>2

LEMMA ShrunkSlow ==
  ASSUME TypeOK, SlowInv, SlowCommitted' \subseteq SlowCommitted
  PROVE  SlowInv'
<1>1. IsFiniteSet(SlowCommitted) /\ Cardinality(Workers) \in Nat /\ MaxSlow \in Nat
  BY FiniteSlow, WorkerAssumption, FS_CardinalityType, LimitTypes
<1>2. MaxSlow + Cardinality(Workers) - 1 \in Int
  BY <1>1
<1>3. CASE MaxSlow = 0
  BY <1>3 DEF SlowInv, MaxSlow
<1>4. CASE MaxSlow # 0
  <2>1. Cardinality(SlowCommitted') <= MaxSlow + Cardinality(Workers) - 1
    BY <1>1, <1>2, <1>4, Shrunk DEF SlowInv
  <2> QED BY <1>4, <2>1 DEF SlowInv, MaxSlow
<1> QED BY <1>3, <1>4

LEMMA ShrunkFast ==
  ASSUME TypeOK, FastInv, FastCommitted' \subseteq FastCommitted
  PROVE  FastInv'
<1>0. SlowLimit' = SlowLimit
  BY DEF SlowLimit, MaxTotal, MinFree
<1>1. IsFiniteSet(FastCommitted) /\ Cardinality(Workers) \in Nat /\ SlowLimit \in Int
  BY FiniteSlow, WorkerAssumption, FS_CardinalityType, LimitTypes
<1>2. SlowLimit + Cardinality(Workers) - 1 \in Int
  BY <1>1
<1>3. CASE SlowLimit <= 0
  BY <1>0, <1>3 DEF FastInv
<1>4. CASE ~(SlowLimit <= 0)
  <2>1. Cardinality(FastCommitted') <= SlowLimit + Cardinality(Workers) - 1
    BY <1>1, <1>2, <1>4, Shrunk DEF FastInv
  <2> QED BY <1>0, <1>4, <2>1 DEF FastInv
<1> QED BY <1>3, <1>4

----------------------------------------------------------------------------
(* Which steps can add. *)

\* Who is promised a slot keeps its task, and was promised it before, or has just
\* had the policy applied.
LEMMA PromisesKept ==
  ASSUME OwnInv, NEW w \in Workers, WorkerStep(w) \/ DbError(w) \/ CrashWorker(w),
         NEW v \in Promised'
  PROVE  /\ v \in Workers /\ cur'[v] = cur[v] /\ cur[v] \in TaskIds
         /\ \/ v \in Promised
            \/ /\ v = w /\ ApplyPolicy(w) /\ pc[w] = "policy"
               /\ Admit(req[cur[w]], total[w], Cardinality(SlowRows)) /\ IsStart(cur[w])
<1>0. /\ v \in Workers /\ DOMAIN pc = Workers /\ DOMAIN cur = Workers
      /\ v \in Promised => cur[v] \in TaskIds
  BY WorkerNow DEF Promised, Starting
<1>1. CASE v # w
  <2>1. pc'[v] = pc[v] /\ cur'[v] = cur[v]
    BY <1>0, <1>1, StepsOwn DEF StepOwn, WorkerEffect, MemoryEffect
  <2> QED BY <1>0, <2>1 DEF Promised
<1>2. CASE v = w /\ ApplyPolicy(w)
  <2>1. pc[w] = "policy" /\ cur' = cur /\ IsStart(cur[w]) /\ cur[w] \in TaskIds
    BY <1>2, WorkerNow DEF ApplyPolicy, Keep, HoldsTaskOf, Deciding
  <2>2. pc'[w] # "reject"
    BY <1>2 DEF Promised, Starting
  <2> QED BY <1>0, <1>2, <2>1, <2>2 DEF ApplyPolicy, Goto
<1>3. CASE v = w /\ (CheckGPU(w) \/ CommitAdmission(w) \/ ResourceCheck(w)
                     \/ CreateContainer(w) \/ StartContainer(w))
  <2>1. pc[w] \in {"gpu", "cas", "check", "create", "start"} /\ cur' = cur
    BY <1>3 DEF CheckGPU, CommitAdmission, ResourceCheck, CreateContainer, StartContainer,
       Keep
  <2> QED BY <1>0, <1>3, <2>1 DEF Promised, Starting
<1>4. CASE v = w /\ ~(ApplyPolicy(w) \/ CheckGPU(w) \/ CommitAdmission(w)
                      \/ ResourceCheck(w) \/ CreateContainer(w) \/ StartContainer(w))
  <2>1. Return(w) \/ \E step \in {"claim", "count", "policy"} \cup Stopping : Goto(w, step)
    BY <1>4 DEF WorkerStep, DbError, StatementFails, AnswerLost, CrashWorker, ClaimLock, ClaimCommit, CountTotal,
       ResetToPending, RecordRunning, FailStart, ReadTarget, StopTarget, MarkStopped,
       FinishStop, FailStop, WriteStopRecord, Stopping, Auditing
  <2>2. pc'[w] \in {"idle", "claim", "count", "policy"} \cup Stopping
    BY <1>0, <2>1 DEF Return, Goto
  <2> QED BY <1>4, <2>2 DEF Promised, Starting, Stopping, Auditing
<1> QED BY <1>1, <1>2, <1>3, <1>4

\* Only a task that was promised a slot takes one.
LEMMA SlowRowsKept ==
  ASSUME OwnInv, NEW w \in Workers, WorkerStep(w) \/ DbError(w) \/ CrashWorker(w)
  PROVE  /\ req' = req
         /\ SlowRows' \subseteq SlowRows \cup {cur[v] : v \in SlowPromised}
<1>1. req' = req /\ TypeOK
  BY StepsOwn DEF StepOwn, WorkerEffect, RowsEffect, OwnInv
<1>2. CASE TakesSlot(w)
  <2>1. w \in Promised
    BY <1>2 DEF TakesSlot, RecordRunning, Promised, Starting
  <2>2. SlotRows' \subseteq SlotRows \cup {cur[w]}
    BY <1>1, <1>2
    DEF TakesSlot, RecordRunning, TrySetStatus, UpdateStatus, UpdateRuntime,
        SlotRows, IsStart, TypeOK, TableTypeOK
  <2> QED BY <1>1, <2>1, <2>2 DEF SlowRows, SlowPromised, IsSlow
<1>3. CASE ~TakesSlot(w)
  <2>1. \/ UNCHANGED tableVars
        \/ \E t, ok : CreateStopRecord(t, ok)
        \/ \E t : \E s \in {"pending", "processing"} \cup Terminal : UpdateStatus(t, s)
    BY <1>3
    DEF WorkerStep, DbError, StatementFails, AnswerLost, CrashWorker, ClaimLock,
        ClaimCommit, CountTotal, ApplyPolicy, CheckGPU, CommitAdmission, TakesSlot,
        ResetToPending, ResourceCheck, CreateContainer, StartContainer,
        FailStart, ReadTarget, StopTarget, MarkStopped, FinishStop, FailStop,
        WriteStopRecord, TrySetStatus, Terminal
  <2>2. ({"pending", "processing"} \cup Terminal) \cap SlotStatuses = {}
    BY DEF Terminal, SlotStatuses
  <2>3. SlotRows' \subseteq SlotRows
    BY <1>1, <2>1, <2>2, LeavingSlots
  <2> QED BY <1>1, <2>3 DEF SlowRows
<1> QED BY <1>1, <1>2, <1>3

LEMMA BackgroundSlow ==
  ASSUME OwnInv, RowsAdvance, UNCHANGED workerVars
  PROVE  SlowCommitted' \subseteq SlowCommitted /\ FastCommitted' \subseteq FastCommitted
<1>1. SlowRows' \subseteq SlowRows
  <2>1. ASSUME NEW t \in TaskIds, status'[t] \in SlotStatuses, IsStart(t)'
        PROVE  status[t] \in SlotStatuses /\ IsStart(t) /\ req'[t] = req[t]
    BY <2>1
    DEF RowsAdvance, IsStart, OwnInv, TypeOK, TableTypeOK, Status, SlotStatuses, Terminal, Past
  <2> QED BY <2>1 DEF SlowRows, SlotRows
<1>2. ASSUME NEW v \in Workers, pc[v] \in {"policy", "gpu", "cas"} \cup Starting
      PROVE  req'[cur[v]] = req[cur[v]]
  <2>1. cur[v] \in TaskIds /\ status[cur[v]] # "none"
    BY <1>2, WorkerNow DEF HoldsTaskOf, Deciding, Starting, Past, SlotStatuses, Terminal
  <2> QED BY <2>1 DEF RowsAdvance
<1>3. pc' = pc /\ cur' = cur /\ total' = total /\ SlowLimit' = SlowLimit
  BY DEF workerVars, SlowLimit, MaxTotal, MinFree
<1>4. SlowPromised' = SlowPromised /\ FastGranted' = FastGranted
  BY <1>2, <1>3 DEF SlowPromised, FastGranted, Promised, IsSlow
<1> QED BY <1>1, <1>3, <1>4 DEF SlowCommitted, FastCommitted

LEMMA WorkSlow ==
  ASSUME OwnInv, SlowInv, NEW w \in Workers, WorkerStep(w) \/ DbError(w) \/ CrashWorker(w)
  PROVE  SlowInv'
<1>0. TypeOK /\ MaxSlow \in Nat
  BY LimitTypes DEF OwnInv
<1>1. CASE SlowPromised' \subseteq SlowPromised
  <2>1. {cur'[v] : v \in SlowPromised'} \subseteq {cur[v] : v \in SlowPromised}
    BY <1>1, PromisesKept DEF SlowPromised
  <2>2. SlowCommitted' \subseteq SlowCommitted
    BY <2>1, SlowRowsKept DEF SlowCommitted
  <2> QED BY <1>0, <2>2, ShrunkSlow
<1>2. ASSUME NEW v \in SlowPromised', v \notin SlowPromised
      PROVE  SlowInv'
  <2>1. req' = req
    BY SlowRowsKept
  <2>2. /\ v = w /\ ApplyPolicy(w)
        /\ Admit(req[cur[w]], total[w], Cardinality(SlowRows)) /\ IsStart(cur[w])
        /\ IsSlow(cur[w])
    BY <1>2, <2>1, PromisesKept DEF SlowPromised, IsSlow
  <2>3. Cardinality(SlowRows) < MaxSlow
    BY <2>2 DEF Admit, SlowFits, IsStart, IsSlow
  <2>4. SlowRows' = SlowRows /\ cur' = cur
    BY <1>0, <2>2, LeavingSlots DEF ApplyPolicy, Keep, tableVars, SlowRows
  <2>5. SlowPromised' \in SUBSET Workers
    BY DEF SlowPromised, Promised
  <2>6. Cardinality(SlowRows \cup {cur[u] : u \in SlowPromised'})
          <= MaxSlow + Cardinality(Workers) - 1
    BY <1>0, <2>3, <2>5, FiniteSlow, OneMoreEach
  <2>7. SlowCommitted' = SlowRows \cup {cur[u] : u \in SlowPromised'}
    BY <2>4 DEF SlowCommitted
  <2>8. MaxSlow # 0
    BY <1>0, <2>3, FiniteSlow, FS_CardinalityType
  <2> QED BY <2>6, <2>7, <2>8 DEF SlowInv, MaxSlow
<1> QED BY <1>1, <1>2

\* A count, and what it is good for.
LEMMA GrantsKept ==
  ASSUME OwnInv, NEW w \in Workers, WorkerStep(w) \/ DbError(w) \/ CrashWorker(w),
         NEW v \in FastGranted'
  PROVE  /\ cur'[v] = cur[v]
         /\ \/ v \in FastGranted
            \/ CountTotal(w) /\ Cardinality(SlotRows) < SlowLimit
<1>0. /\ v \in Workers /\ req' = req /\ SlowLimit' = SlowLimit
      /\ DOMAIN pc = Workers /\ DOMAIN total = Workers
      /\ total \in [Workers -> Nat]
  BY SlowRowsKept, WorkerNow
  DEF FastGranted, SlowPromised, Promised, SlowLimit, MaxTotal, MinFree, OwnInv, TypeOK,
      WorkerTypeOK
<1>1. CASE v \in SlowPromised'
  <2>1. v \in Promised' /\ cur'[v] = cur[v] /\ IsSlow(cur[v])
    BY <1>0, <1>1, PromisesKept DEF SlowPromised, IsSlow
  <2>2. CASE v \in Promised
    BY <2>1, <2>2 DEF FastGranted, SlowPromised
  <2>3. CASE v \notin Promised
    <3>1. /\ v = w /\ pc[w] = "policy" /\ MaxTotal - (total[w] + 1) >= MinFree
      BY <2>1, <2>3, PromisesKept DEF Admit, SlowFits, IsStart, IsSlow
    <3>2. total[v] < SlowLimit
      BY <1>0, <3>1, LimitTypes DEF SlowLimit
    <3> QED BY <1>0, <2>1, <3>1, <3>2 DEF FastGranted
  <2> QED BY <2>1, <2>2, <2>3
<1>2. CASE v \notin SlowPromised'
  <2>0. pc'[v] = "policy" /\ IsSlow(cur[v])' /\ total'[v] < SlowLimit
    BY <1>0, <1>2 DEF FastGranted
  <2>1. CASE v # w
    <3>1. UNCHANGED total \/ Return(w) \/ CountTotal(w)
      BY DEF WorkerStep, DbError, StatementFails, AnswerLost, CrashWorker, ClaimLock, ClaimCommit, ApplyPolicy,
         CheckGPU, CommitAdmission, ResetToPending, ResourceCheck, CreateContainer,
         StartContainer, RecordRunning, FailStart, ReadTarget, StopTarget, MarkStopped,
         FinishStop, FailStop, WriteStopRecord, Keep
    <3>2. total'[v] = total[v]
      BY <1>0, <2>1, <3>1 DEF Return, CountTotal
    <3>3. pc'[v] = pc[v] /\ cur'[v] = cur[v]
      BY <1>0, <2>1, StepsOwn DEF StepOwn, WorkerEffect, MemoryEffect
    <3> QED BY <1>0, <2>0, <3>2, <3>3 DEF FastGranted, IsSlow
  <2>2. CASE v = w
    <3>1. CountTotal(w)
      <4>1. CASE Return(w) \/ \E step : step # "policy" /\ Goto(w, step)
        BY <1>0, <2>0, <2>2, <4>1 DEF Return, Goto
      <4> QED BY <4>1
              DEF WorkerStep, DbError, StatementFails, AnswerLost, CrashWorker, ClaimLock, ClaimCommit, ApplyPolicy,
                  CheckGPU, CommitAdmission, ResetToPending, ResourceCheck,
                  CreateContainer, StartContainer, RecordRunning, FailStart, ReadTarget,
                  StopTarget, MarkStopped, FinishStop, FailStop, WriteStopRecord
    <3>2. total'[w] = Cardinality(SlotRows) /\ cur' = cur
      BY <1>0, <3>1 DEF CountTotal
    <3> QED BY <2>0, <2>2, <3>1, <3>2
  <2> QED BY <2>1, <2>2
<1> QED BY <1>1, <1>2

LEMMA WorkFast ==
  ASSUME OwnInv, FastInv, NEW w \in Workers, WorkerStep(w) \/ DbError(w) \/ CrashWorker(w)
  PROVE  FastInv'
<1>0. TypeOK /\ SlowLimit \in Int /\ SlowLimit' = SlowLimit
  BY LimitTypes DEF OwnInv, SlowLimit, MaxTotal, MinFree
<1>1. CASE FastGranted' \subseteq FastGranted
  <2>1. {cur'[v] : v \in FastGranted'} \subseteq {cur[v] : v \in FastGranted}
    BY <1>1, GrantsKept
  <2>2. {cur[v] : v \in SlowPromised} \subseteq {cur[v] : v \in FastGranted}
    BY DEF FastGranted
  <2>3. FastCommitted' \subseteq FastCommitted
    BY <2>1, <2>2, SlowRowsKept DEF FastCommitted
  <2> QED BY <1>0, <2>3, ShrunkFast
<1>2. ASSUME NEW v \in FastGranted', v \notin FastGranted
      PROVE  FastInv'
  <2>1. CountTotal(w) /\ Cardinality(SlotRows) < SlowLimit
    BY <1>2, GrantsKept
  <2>2. SlowRows' = SlowRows /\ cur' = cur
    BY <1>0, <2>1, LeavingSlots DEF CountTotal, tableVars, SlowRows
  <2>3. /\ IsFiniteSet(SlotRows) /\ IsFiniteSet(SlowRows)
        /\ Cardinality(SlowRows) \in Nat /\ Cardinality(SlotRows) \in Nat
        /\ Cardinality(SlowRows) <= Cardinality(SlotRows)
    BY <1>0, FiniteCommitted, FiniteSlow, FS_Subset, FS_CardinalityType DEF SlowRows
  <2>4. Cardinality(SlowRows) < SlowLimit /\ SlowLimit \in Nat /\ SlowLimit > 0
    BY <1>0, <2>1, <2>3
  <2>5. FastGranted' \in SUBSET Workers
    BY DEF FastGranted, SlowPromised, Promised
  <2>6. Cardinality(SlowRows \cup {cur[u] : u \in FastGranted'})
          <= SlowLimit + Cardinality(Workers) - 1
    BY <2>3, <2>4, <2>5, OneMoreEach
  <2>7. FastCommitted' = SlowRows \cup {cur[u] : u \in FastGranted'}
    BY <2>2 DEF FastCommitted
  <2> QED BY <1>0, <2>4, <2>6, <2>7 DEF FastInv
<1> QED BY <1>1, <1>2

----------------------------------------------------------------------------
LEMMA SlowInit == Init => SlowInv /\ FastInv
<1> SUFFICES ASSUME Init PROVE SlowInv /\ FastInv
  OBVIOUS
<1>1. SlowCommitted = {} /\ FastCommitted = {}
  BY DEF Init, TableInit, WorkerInit, SlowCommitted, FastCommitted, SlowRows, SlotRows,
     SlotStatuses, SlowPromised, FastGranted, Promised, Starting
<1>2. Cardinality(Workers) \in Nat /\ Cardinality(Workers) >= 0
  BY WorkerAssumption, FS_CardinalityType
<1> QED BY <1>1, <1>2, LimitTypes, FS_EmptySet DEF SlowInv, FastInv

LEMMA SlowStep == OwnInv /\ SlowInv /\ FastInv /\ [Next]_vars => SlowInv' /\ FastInv'
<1> SUFFICES ASSUME OwnInv, SlowInv, FastInv, [Next]_vars PROVE SlowInv' /\ FastInv'
  OBVIOUS
<1>1. ASSUME NEW w \in Workers, Work(w) \/ DbFault(w) \/ Crash(w)
      PROVE  SlowInv' /\ FastInv'
  BY <1>1, WorkSlow, WorkFast DEF Work, DbFault, Crash
<1>2. CASE RowsAdvance /\ UNCHANGED workerVars
  BY <1>2, BackgroundSlow, ShrunkSlow, ShrunkFast DEF OwnInv
<1> QED BY <1>1, <1>2, BackgroundOwn, StutterOwn DEF Next

LEMMA SlowInvariance == Spec => [](SlowInv /\ FastInv)
<1>1. OwnInv /\ (SlowInv /\ FastInv) /\ [Next]_vars => (SlowInv /\ FastInv)'
  BY SlowStep
<1> QED BY <1>1, SlowInit, Ownership, PTL DEF Spec

\* The slow cap is exceeded by at most one task per additional worker; a cap of zero
\* is kept exactly.
THEOREM SlowTasksBounded == Spec => []SlowBound
<1>1. OwnInv /\ SlowInv => SlowBound
  <2> SUFFICES ASSUME OwnInv, SlowInv PROVE SlowBound
    OBVIOUS
  <2>1. IsFiniteSet(SlowCommitted) /\ SlowRows \subseteq SlowCommitted
    BY FiniteSlow DEF OwnInv, SlowCommitted
  <2>2. MaxSlow + Cardinality(Workers) - 1 \in Int
    BY WorkerAssumption, FS_CardinalityType, LimitTypes
  <2>3. CASE MaxSlow = 0
    BY <2>1, <2>3 DEF SlowInv, SlowBound
  <2>4. CASE MaxSlow # 0
    <3>1. Cardinality(SlowRows) <= MaxSlow + Cardinality(Workers) - 1
      BY <2>1, <2>2, <2>4, Shrunk DEF SlowInv
    <3> QED BY <2>4, <3>1 DEF SlowBound
  <2> QED BY <2>3, <2>4
<1> QED BY <1>1, SlowInvariance, Ownership, PTL

\* Slow tasks leave the reserve of the fast ones alone, but for one task per additional
\* worker, although the rows they are counted against change under way.
THEOREM FastKeepReserve == Spec => []FastReserve
<1>1. OwnInv /\ FastInv => FastReserve
  <2> SUFFICES ASSUME OwnInv, FastInv PROVE FastReserve
    OBVIOUS
  <2>0. SlowLimit = MaxTotal - MinFree /\ (MinFree >= MaxTotal <=> SlowLimit <= 0)
    BY LimitTypes DEF SlowLimit
  <2>1. IsFiniteSet(FastCommitted) /\ SlowRows \subseteq FastCommitted
    BY FiniteSlow DEF OwnInv, FastCommitted
  <2>2. SlowLimit + Cardinality(Workers) - 1 \in Int
    BY WorkerAssumption, FS_CardinalityType, LimitTypes
  <2>3. CASE SlowLimit <= 0
    BY <2>0, <2>1, <2>3 DEF FastInv, FastReserve
  <2>4. CASE ~(SlowLimit <= 0)
    <3>1. Cardinality(SlowRows) <= SlowLimit + Cardinality(Workers) - 1
      BY <2>1, <2>2, <2>4, Shrunk DEF FastInv
    <3> QED BY <2>0, <2>4, <3>1 DEF FastReserve
  <2> QED BY <2>3, <2>4
<1> QED BY <1>1, SlowInvariance, Ownership, PTL

----------------------------------------------------------------------------
(* GPU slots. *)

LEMMA FiniteGPU == TypeOK => IsFiniteSet(GPURows) /\ IsFiniteSet(GPUCommitted)
<1> SUFFICES ASSUME TypeOK PROVE IsFiniteSet(GPURows) /\ IsFiniteSet(GPUCommitted)
  OBVIOUS
<1>1. {cur[w] : w \in GPUPromised} \subseteq TaskIds \cup {NoTask}
  BY DEF TypeOK, WorkerTypeOK, GPUPromised
<1>2. GPURows \subseteq TaskIds \cup {NoTask}
  BY DEF GPURows, DockerOccupyingRows, SlotRows
<1>3. GPUCommitted \subseteq TaskIds \cup {NoTask}
  BY <1>1, <1>2 DEF GPUCommitted
<1>4. IsFiniteSet(TaskIds \cup {NoTask})
  BY TaskAssumption, FS_AddElement
<1> QED BY <1>2, <1>3, <1>4, FS_Subset

LEMMA HostCapacity ==
  ASSUME NEW w \in Workers
  PROVE  LET list == HostGPUIDs[w]
             cap  == HostGPUSlotCapacity(list)
         IN  /\ IsList(list)
             /\ DOMAIN cap = Devices(list)
             /\ \A d \in Devices(list) : cap[d] = Slots(list, d) /\ cap[d] \in Nat
<1> DEFINE list == HostGPUIDs[w]
           here(d) == {i \in DOMAIN list : list[i] = d}
<1>1. PICK n \in Nat : DOMAIN list = 1 .. n
  BY WorkerAssumption
<1>2. \A d : Cardinality(here(d)) \in Nat
  <2> TAKE d
  <2>1. here(d) \in SUBSET (1 .. n) /\ IsFiniteSet(1 .. n)
    BY <1>1, FS_Interval
  <2> HIDE DEF here
  <2>2. IsFiniteSet(here(d))
    BY <2>1, FS_Subset
  <2> QED BY <2>2, FS_CardinalityType
<1> QED BY <1>1, <1>2 DEF IsList, HostGPUSlotCapacity, Slots

LEMMA ShrunkGPU ==
  ASSUME TypeOK, GPUInv, GPUCommitted' \subseteq GPUCommitted
  PROVE  GPUInv'
<1> SUFFICES ASSUME GPUCommitted' # {} PROVE \E v \in Workers : RoomOn(v)'
  BY DEF GPUInv
<1>1. PICK v \in Workers : RoomOn(v)
  BY DEF GPUInv
<1> DEFINE cap == HostGPUSlotCapacity(HostGPUIDs[v])
<1>2. Cardinality(Workers) \in Nat /\ IsFiniteSet(GPUCommitted)
  BY WorkerAssumption, FS_CardinalityType, FiniteGPU
<1>3. \A d \in DOMAIN cap : cap[d] \in Nat
  BY HostCapacity
<1> HIDE DEF cap
<1>4. ASSUME NEW d \in DOMAIN cap
      PROVE  Cardinality(GPUCommitted') <= cap[d] + Cardinality(Workers) - 1
  <2>1. Cardinality(GPUCommitted) <= cap[d] + Cardinality(Workers) - 1
    BY <1>1 DEF RoomOn, cap
  <2>2. cap[d] + Cardinality(Workers) - 1 \in Int
    BY <1>2, <1>3
  <2> QED BY <1>2, <2>1, <2>2, Shrunk
<1>5. RoomOn(v)'
  BY <1>1, <1>4 DEF RoomOn, cap
<1> QED BY <1>5

\* Only a task whose worker has found room on its host takes a slot.
LEMMA GPURowsKept ==
  ASSUME OwnInv, NEW w \in Workers, WorkerStep(w) \/ DbError(w) \/ CrashWorker(w)
  PROVE  /\ req' = req
         /\ GPURows' \subseteq GPURows \cup {cur[v] : v \in GPUPromised}
<1>1. req' = req /\ TypeOK
  BY StepsOwn DEF StepOwn, WorkerEffect, RowsEffect, OwnInv
<1>2. CASE TakesSlot(w)
  <2>1. pc[w] \in {"cas"} \cup (Starting \ {"fail"})
    BY <1>2 DEF TakesSlot, RecordRunning, Starting
  <2>2. SlotRows' \subseteq SlotRows \cup {cur[w]}
    BY <1>1, <1>2
    DEF TakesSlot, RecordRunning, TrySetStatus, UpdateStatus, UpdateRuntime,
        SlotRows, IsStart, TypeOK, TableTypeOK
  <2> QED BY <1>1, <2>1, <2>2 DEF GPURows, DockerOccupyingRows, GPUPromised
<1>3. CASE ~TakesSlot(w)
  <2>1. \/ UNCHANGED tableVars
        \/ \E t, ok : CreateStopRecord(t, ok)
        \/ \E t : \E s \in {"pending", "processing"} \cup Terminal : UpdateStatus(t, s)
    BY <1>3
    DEF WorkerStep, DbError, StatementFails, AnswerLost, CrashWorker, ClaimLock,
        ClaimCommit, CountTotal, ApplyPolicy, CheckGPU, CommitAdmission, TakesSlot,
        ResetToPending, ResourceCheck, CreateContainer, StartContainer,
        FailStart, ReadTarget, StopTarget, MarkStopped, FinishStop, FailStop,
        WriteStopRecord, TrySetStatus, Terminal
  <2>2. ({"pending", "processing"} \cup Terminal) \cap SlotStatuses = {}
    BY DEF Terminal, SlotStatuses
  <2>3. SlotRows' \subseteq SlotRows
    BY <1>1, <2>1, <2>2, LeavingSlots
  <2> QED BY <1>1, <2>3 DEF GPURows, DockerOccupyingRows
<1> QED BY <1>1, <1>2, <1>3

\* Who has found room on its host keeps its task, and found it before or just now.
LEMMA GPUPromisesKept ==
  ASSUME OwnInv, NEW w \in Workers, WorkerStep(w) \/ DbError(w) \/ CrashWorker(w),
         NEW v \in GPUPromised'
  PROVE  /\ cur'[v] = cur[v]
         /\ \/ v \in GPUPromised
            \/ /\ v = w /\ CheckGPU(w)
               /\ cur[w] \in TaskIds /\ status[cur[w]] = "processing"
               /\ GPUOccupancyOK(GPURows \cup {cur[w]}, HostGPUIDs[w])
<1>0. req' = req /\ v \in Workers /\ DOMAIN pc = Workers
  BY GPURowsKept, WorkerNow DEF GPUPromised
<1>1. v \in Promised'
  BY DEF GPUPromised, Promised
<1>2. /\ cur'[v] = cur[v] /\ cur[v] \in TaskIds
      /\ v \in Promised \/ (v = w /\ ApplyPolicy(w) /\ pc[w] = "policy")
  BY <1>1, PromisesKept
<1>3. /\ pc'[v] \in {"cas"} \cup (Starting \ {"fail"})
      /\ req[cur[v]].provider = "docker" /\ req[cur[v]].gpu
  BY <1>0, <1>2 DEF GPUPromised
<1>4. ~(v = w /\ ApplyPolicy(w))
  BY <1>0, <1>3 DEF ApplyPolicy, Goto, Starting
<1>5. CASE pc[v] # "gpu"
  BY <1>0, <1>2, <1>3, <1>4, <1>5 DEF Promised, GPUPromised
<1>6. CASE pc[v] = "gpu"
  <2>1. pc'[v] # "gpu"
    BY <1>3 DEF Starting
  <2>2. v = w
    BY <1>0, <1>6, <2>1, StepsOwn DEF StepOwn, WorkerEffect, MemoryEffect
  <2>3. CheckGPU(w)
    <3>1. CASE Return(w)
      BY <1>0, <1>3, <2>2, <3>1 DEF Return, Goto, Starting
    <3> QED BY <1>6, <2>2, <3>1
            DEF WorkerStep, DbError, StatementFails, AnswerLost, CrashWorker, ClaimLock, ClaimCommit, CountTotal,
                ApplyPolicy, CommitAdmission, ResetToPending, ResourceCheck,
                CreateContainer, StartContainer, RecordRunning, FailStart, ReadTarget,
                StopTarget, MarkStopped, FinishStop, FailStop, WriteStopRecord
  <2>4. {t \in DockerOccupyingRows \cup {cur[w]} : req[t].gpu} = GPURows \cup {cur[w]}
    BY <1>3, <2>2 DEF GPURows
  <2>5. pc'[w] # "reject"
    BY <1>3, <2>2 DEF Starting
  <2>6. GPUOccupancyOK(GPURows \cup {cur[w]}, HostGPUIDs[w])
    BY <1>0, <2>2, <2>3, <2>4, <2>5 DEF CheckGPU, Goto
  <2>7. status[cur[w]] = "processing"
    BY <1>6, <2>2, WorkerNow DEF HoldsTaskOf, Deciding
  <2> QED BY <1>2, <2>2, <2>3, <2>6, <2>7
<1> QED BY <1>5, <1>6

LEMMA WorkGPU ==
  ASSUME OwnInv, GPUInv, NEW w \in Workers, WorkerStep(w) \/ DbError(w) \/ CrashWorker(w)
  PROVE  GPUInv'
<1>0. TypeOK
  BY DEF OwnInv
<1>1. CASE GPUPromised' \subseteq GPUPromised
  <2>1. {cur'[v] : v \in GPUPromised'} \subseteq {cur[v] : v \in GPUPromised}
    BY <1>1, GPUPromisesKept
  <2>2. GPUCommitted' \subseteq GPUCommitted
    BY <2>1, GPURowsKept DEF GPUCommitted
  <2> QED BY <1>0, <2>2, ShrunkGPU
<1>2. ASSUME NEW v \in GPUPromised', v \notin GPUPromised
      PROVE  GPUInv'
  <2> DEFINE list  == HostGPUIDs[w]
             wants == GPURows \cup {cur[w]}
  <2>1. /\ CheckGPU(w) /\ cur[w] \in TaskIds /\ status[cur[w]] = "processing"
        /\ GPUOccupancyOK(wants, list)
    BY <1>2, GPUPromisesKept
  <2>2. GPURows' = GPURows /\ cur' = cur
    BY <1>0, <2>1, LeavingSlots
    DEF CheckGPU, Keep, tableVars, GPURows, DockerOccupyingRows
  <2>3. cur[w] \notin GPURows
    BY <2>1 DEF GPURows, DockerOccupyingRows, SlotRows, SlotStatuses
  <2>4. /\ IsFiniteSet(GPURows) /\ IsFiniteSet(wants) /\ wants # {}
        /\ Cardinality(wants) = Cardinality(GPURows) + 1 /\ Cardinality(GPURows) \in Nat
    BY <1>0, <2>3, FiniteGPU, FS_AddElement, FS_CardinalityType
  <2>5. /\ IsList(list)
        /\ DOMAIN HostGPUSlotCapacity(list) = Devices(list)
        /\ \A d \in Devices(list) : /\ HostGPUSlotCapacity(list)[d] = Slots(list, d)
                                    /\ Slots(list, d) \in Nat
    BY HostCapacity
  <2> HIDE DEF list, wants
  <2>6. /\ Devices(list) # {}
        /\ \A d \in Devices(list) : Cardinality(wants) <= Slots(list, d)
    BY <2>1, <2>4, <2>5, GPUCountEach
  <2>7. GPUPromised' \in SUBSET Workers
    BY DEF GPUPromised
  <2>8. GPUCommitted' = GPURows \cup {cur[u] : u \in GPUPromised'}
    BY <2>2 DEF GPUCommitted
  <2>9. ASSUME NEW d \in Devices(list)
        PROVE  Cardinality(GPUCommitted') <= Slots(list, d) + Cardinality(Workers) - 1
    <3>1. Slots(list, d) \in Nat /\ Cardinality(GPURows) < Slots(list, d)
      BY <2>4, <2>5, <2>6
    <3>2. Cardinality(GPURows \cup {cur[u] : u \in GPUPromised'})
            <= Slots(list, d) + Cardinality(Workers) - 1
      BY <2>4, <2>7, <3>1, OneMoreEach
    <3> QED BY <2>8, <3>2
  <2>10. RoomOn(w)'
    BY <2>5, <2>6, <2>9 DEF RoomOn, list
  <2> QED BY <2>10 DEF GPUInv
<1> QED BY <1>1, <1>2

LEMMA BackgroundGPU ==
  ASSUME OwnInv, RowsAdvance, UNCHANGED workerVars
  PROVE  GPUCommitted' \subseteq GPUCommitted
<1>1. GPURows' \subseteq GPURows
  <2>1. ASSUME NEW t \in TaskIds, status'[t] \in SlotStatuses, IsStart(t)'
        PROVE  status[t] \in SlotStatuses /\ IsStart(t) /\ req'[t] = req[t]
    BY <2>1
    DEF RowsAdvance, IsStart, OwnInv, TypeOK, TableTypeOK, Status, SlotStatuses, Terminal, Past
  <2> QED BY <2>1 DEF GPURows, DockerOccupyingRows, SlotRows
<1>2. ASSUME NEW v \in Workers, pc[v] \in {"cas"} \cup Starting
      PROVE  req'[cur[v]] = req[cur[v]]
  <2>1. cur[v] \in TaskIds /\ status[cur[v]] # "none"
    BY <1>2, WorkerNow DEF HoldsTaskOf, Deciding, Starting, Past, SlotStatuses, Terminal
  <2> QED BY <2>1 DEF RowsAdvance
<1>3. pc' = pc /\ cur' = cur
  BY DEF workerVars
<1>4. GPUPromised' = GPUPromised
  BY <1>2, <1>3 DEF GPUPromised
<1> QED BY <1>1, <1>3, <1>4 DEF GPUCommitted

LEMMA GPUInit == Init => GPUInv
<1>1. Init => GPUCommitted = {}
  BY DEF Init, TableInit, WorkerInit, GPUCommitted, GPURows, DockerOccupyingRows, SlotRows,
     SlotStatuses, GPUPromised, Starting
<1> QED BY <1>1 DEF GPUInv

LEMMA GPUStep == OwnInv /\ GPUInv /\ [Next]_vars => GPUInv'
<1> SUFFICES ASSUME OwnInv, GPUInv, [Next]_vars PROVE GPUInv'
  OBVIOUS
<1>1. ASSUME NEW w \in Workers, Work(w) \/ DbFault(w) \/ Crash(w) PROVE GPUInv'
  BY <1>1, WorkGPU DEF Work, DbFault, Crash
<1>2. CASE RowsAdvance /\ UNCHANGED workerVars
  BY <1>2, BackgroundGPU, ShrunkGPU DEF OwnInv
<1> QED BY <1>1, <1>2, BackgroundOwn, StutterOwn DEF Next

LEMMA GPUInvariance == Spec => []GPUInv
<1>1. OwnInv /\ GPUInv /\ [Next]_vars => GPUInv'
  BY GPUStep
<1> QED BY <1>1, GPUInit, Ownership, PTL DEF Spec

\* The GPU tasks of the docker provider never exceed the slots of any device of some
\* worker's host, the last one to have checked, by more than the other workers,
\* whatever lists the hosts have and whatever fails.
THEOREM GPUSlotsBounded == Spec => []GpuBound
<1>1. OwnInv /\ GPUInv => GpuBound
  <2> SUFFICES ASSUME OwnInv, GPUInv, GPURows # {} PROVE GpuBound
    BY DEF GpuBound
  <2>1. IsFiniteSet(GPUCommitted) /\ GPURows \subseteq GPUCommitted
    BY FiniteGPU DEF OwnInv, GPUCommitted
  <2>2. PICK w \in Workers : RoomOn(w)
    BY <2>1 DEF GPUInv
  <2> DEFINE cap == HostGPUSlotCapacity(HostGPUIDs[w])
  <2>3. Cardinality(Workers) \in Nat /\ \A d \in DOMAIN cap : cap[d] \in Nat
    BY WorkerAssumption, FS_CardinalityType, HostCapacity
  <2> HIDE DEF cap
  <2>4. ASSUME NEW d \in DOMAIN cap
        PROVE  Cardinality(GPURows) <= cap[d] + Cardinality(Workers) - 1
    <3>1. Cardinality(GPUCommitted) <= cap[d] + Cardinality(Workers) - 1
      BY <2>2 DEF RoomOn, cap
    <3>2. cap[d] + Cardinality(Workers) - 1 \in Int
      BY <2>3
    <3> QED BY <2>1, <3>1, <3>2, Shrunk
  <2>5. DOMAIN cap # {}
    BY <2>2 DEF RoomOn, cap
  <2> QED BY <2>4, <2>5 DEF GpuBound, cap
<1> QED BY <1>1, GPUInvariance, Ownership, PTL

----------------------------------------------------------------------------
\* With one worker and no faults, a device listed n times carries at most n running
\* containers: each of them has a row that occupies a slot or is being started, and the
\* rows are what CheckGPU counts.
THEOREM OneWorkerKeepsDevices ==
  ASSUME Faults = {}, Cardinality(Workers) = 1
  PROVE  Spec => []DeviceCap
<1>1. ASSUME OwnInv, SoloInv, GPUInv, NEW w \in Workers,
             NEW d \in DOMAIN HostGPUSlotCapacity(HostGPUIDs[w])
      PROVE  Cardinality({t \in TaskIds : container[t] = "running" /\ req[t].gpu})
               <= HostGPUSlotCapacity(HostGPUIDs[w])[d]
  <2> DEFINE live == {t \in TaskIds : container[t] = "running" /\ req[t].gpu}
             cap == HostGPUSlotCapacity(HostGPUIDs[w])
  <2>1. live \subseteq GPUCommitted
    <3> SUFFICES ASSUME NEW t \in live PROVE t \in GPUCommitted
      OBVIOUS
    <3>1. /\ t \in TaskIds /\ Alive(t) /\ req[t].gpu
          /\ req[t].provider = "docker"
      BY <1>1 DEF Alive, SoloInv, ContainersKnown, Stubbed, OwnInv, TypeOK, TableTypeOK, Request
    <3>2. CASE t \in SlotRows
      BY <3>1, <3>2 DEF GPUCommitted, GPURows, DockerOccupyingRows
    <3>3. ASSUME NEW v \in Workers, cur[v] = t, pc[v] \in Starting PROVE t \in GPUCommitted
      <4>1. pc[v] # "fail"
        BY <1>1, <3>1, <3>3 DEF SoloInv, WorkerSawEnd
      <4> QED BY <3>1, <3>3, <4>1 DEF GPUCommitted, GPUPromised
    <3> QED BY <1>1, <3>1, <3>2, <3>3 DEF SoloInv, ContainersKnown, Starts
  <2>2. IsFiniteSet(GPUCommitted)
    BY <1>1, FiniteGPU DEF OwnInv, GPUCommitted
  <2>3. cap[d] \in Nat
    BY HostCapacity
  <2>4. CASE GPUCommitted = {}
    BY <2>1, <2>3, <2>4, FS_EmptySet
  <2>5. CASE GPUCommitted # {}
    <3>1. PICK v \in Workers : RoomOn(v)
      BY <1>1, <2>5 DEF GPUInv
    <3>2. v = w
      <4>1. PICK u : Workers = {u}
        BY WorkerAssumption, FS_Singleton
      <4> QED BY <4>1
    <3>3. Cardinality(GPUCommitted) <= cap[d] + Cardinality(Workers) - 1
      BY <3>1, <3>2 DEF RoomOn
    <3>4. Cardinality(GPUCommitted) <= cap[d]
      BY <2>3, <3>3
    <3> HIDE DEF live, cap
    <3> QED BY <2>1, <2>2, <2>3, <3>4, Shrunk DEF live, cap
  <2> QED BY <2>4, <2>5
<1>2. OwnInv /\ SoloInv /\ GPUInv => DeviceCap
  BY <1>1 DEF DeviceCap
<1>3. Spec => [](OwnInv /\ SoloInv)
  BY SoloInvariance
<1> QED BY <1>2, <1>3, GPUInvariance, PTL

----------------------------------------------------------------------------
\* With one worker, whatever fails, the GPU check refuses only tasks that ask for a GPU:
\* the tasks that occupy a slot never take more than its host has.
THEOREM OneWorkerRefusesOnlyGpu ==
  ASSUME Cardinality(Workers) = 1
  PROVE  Spec => OnlyGpuRefused
<1>1. ASSUME OwnInv, GPUInv, [Next]_vars, NEW w \in Workers, pc[w] = "gpu", pc'[w] = "reject",
             ~req[cur[w]].gpu
      PROVE  FALSE
  <2>1. CheckGPU(w)
    <3>1. CASE Return(w)
      BY <1>1, <3>1, WorkerNow DEF Return, Goto
    <3>2. WorkerStep(w) \/ DbError(w) \/ CrashWorker(w)
      <4>1. \A v \in Workers : v = w
        BY FS_Singleton, WorkerAssumption
      <4>2. ~UNCHANGED workerVars
        BY <1>1 DEF workerVars
      <4> QED BY <1>1, <4>1, <4>2, BackgroundOwn, StutterOwn DEF Next, Work, DbFault, Crash
    <3> QED BY <1>1, <3>1, <3>2
            DEF WorkerStep, DbError, StatementFails, AnswerLost, CrashWorker, ClaimLock, ClaimCommit, CountTotal,
                ApplyPolicy, CommitAdmission, ResetToPending, ResourceCheck,
                CreateContainer, StartContainer, RecordRunning, FailStart, ReadTarget,
                StopTarget, MarkStopped, FinishStop, FailStop, WriteStopRecord
  <2>2. {t \in DockerOccupyingRows \cup {cur[w]} : req[t].gpu} = GPURows
    BY <1>1 DEF GPURows
  <2> DEFINE list == HostGPUIDs[w]
  <2>3. ~GPUOccupancyOK(GPURows, list)
    BY <1>1, <2>1, <2>2, WorkerNow DEF CheckGPU, Goto
  <2>4. /\ IsList(list)
        /\ DOMAIN HostGPUSlotCapacity(list) = Devices(list)
        /\ \A d \in Devices(list) : /\ HostGPUSlotCapacity(list)[d] = Slots(list, d)
                                    /\ Slots(list, d) \in Nat
    BY HostCapacity
  <2>5. IsFiniteSet(GPURows) /\ IsFiniteSet(GPUCommitted) /\ GPURows \subseteq GPUCommitted
    BY <1>1, FiniteGPU DEF OwnInv, GPUCommitted
  <2>6. GPURows # {} => RoomOn(w)
    <3>1. \A v \in Workers : v = w
      BY FS_Singleton, WorkerAssumption
    <3> QED BY <1>1, <2>5, <3>1 DEF GPUInv
  <2>7. GPURows # {} => /\ Devices(list) # {}
                        /\ \A d \in Devices(list) : Cardinality(GPURows) <= Slots(list, d)
    <3> SUFFICES ASSUME RoomOn(w)
                 PROVE  /\ Devices(list) # {}
                        /\ \A d \in Devices(list) : Cardinality(GPURows) <= Slots(list, d)
      BY <2>6
    <3>1. Devices(list) # {}
      BY <2>4 DEF RoomOn
    <3>2. ASSUME NEW d \in Devices(list) PROVE Cardinality(GPURows) <= Slots(list, d)
      <4>1. Cardinality(GPUCommitted) <= Slots(list, d)
        BY <2>4 DEF RoomOn
      <4> HIDE DEF list
      <4> QED BY <2>4, <2>5, <4>1, Shrunk
    <3> QED BY <3>1, <3>2
  <2> HIDE DEF list
  <2> QED BY <2>3, <2>4, <2>5, <2>7, GPUCountEach
<1>2. OwnInv /\ GPUInv /\ [Next]_vars =>
        [\A w \in Workers : pc[w] = "gpu" /\ pc'[w] = "reject" => req[cur[w]].gpu]_vars
  BY <1>1
<1> QED BY <1>2, GPUInvariance, Ownership, PTL DEF Spec, OnlyGpuRefused
=============================================================================
