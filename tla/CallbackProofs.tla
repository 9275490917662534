--------------------------- MODULE CallbackProofs ---------------------------
(***************************************************************************)
(* The application hears how its tasks end, and how its stop requests are  *)
(* answered, for any number of workers and processes: AnswerInv is         *)
(* inductive.                                                              *)
(***************************************************************************)
EXTENDS Callbacks, AuditProofs

----------------------------------------------------------------------------
(* Callbacks add to the scheduler's behaviour, and change nothing of it. *)

Background ==
  \/ Control
  \/ \E w \in Processes : \/ Sweep(w) \/ Reconcile(w)
                          \/ \E t \in TaskIds : ReapOrphan(w, t)
  \/ \E t \in TaskIds : Exit(t)

LEMMA ToldSteps == [ToldNext]_toldVars => [Next]_vars
BY DEF ToldNext, toldVars, Next, SubmitQuietly, WorkAndTell, ReconcileAndTell,
   SweepAndTell, ReapQuietly, ExitQuietly, Send, ReadBody, Deliver

\* What is known of the scheduler, from its own theorems.
Known == OwnInv /\ AuditInv /\ ProcessingHeld

LEMMA ToldKnown == ToldSpec => []Known
<1>1. Faults \cap {"crash", "db"} = {}
  BY CallbackAssumption
<1>2. ToldInit => Init
  BY DEF ToldInit
<1>3. ToldSpec => Spec
  BY <1>2, ToldSteps, PTL DEF ToldSpec, Spec
<1>4. Spec => []ProcessingHeld
  BY <1>1, NothingIsLost
<1> QED BY <1>3, <1>4, Ownership, AuditInvariance, PTL DEF Known

----------------------------------------------------------------------------
(* Who writes an end, and what becomes of a marked target. *)

LEMMA WorkEnds ==
  ASSUME OwnInv, NEW w \in Workers, Work(w), NEW t \in TaskIds,
         status'[t] \in Terminal, status'[t] # status[t]
  PROVE  \/ pc[w] = "fail" /\ t = cur[w]
         \/ Marked(w)' /\ t = Target(w)'
         \/ pc'[w] \in Auditing /\ t = cur'[w]
<1>0. DOMAIN pc = Workers /\ DOMAIN status = TaskIds
  BY WorkerNow
<1> USE <1>0 DEF Terminal
<1>1. CASE ClaimLock(w) \/ CountTotal(w) \/ ApplyPolicy(w) \/ CheckGPU(w) \/ ResourceCheck(w)
           \/ CreateContainer(w) \/ StartContainer(w) \/ ReadTarget(w) \/ StopTarget(w)
  BY <1>1
  DEF ClaimLock, CountTotal, ApplyPolicy, CheckGPU, ResourceCheck, CreateContainer,
      StartContainer, ReadTarget, StopTarget, tableVars
<1>2. CASE ClaimCommit(w) \/ CommitAdmission(w) \/ ResetToPending(w) \/ RecordRunning(w)
  BY <1>2
  DEF ClaimCommit, CommitAdmission, ResetToPending, RecordRunning, TrySetStatus, UpdateStatus,
      UpdateRuntime
<1>3. CASE FailStart(w)
  BY <1>3 DEF FailStart, UpdateStatus
<1>4. CASE MarkStopped(w)
  BY <1>4 DEF MarkStopped, UpdateStatus, Goto, Keep, Marked, Target
<1>5. CASE FinishStop(w) \/ FailStop(w)
  BY <1>5 DEF FinishStop, FailStop, UpdateStatus, Goto, Keep, Auditing
<1>6. CASE WriteStopRecord(w)
  BY <1>6 DEF WriteStopRecord, CreateStopRecord
<1> QED BY <1>1, <1>2, <1>3, <1>4, <1>5, <1>6 DEF Work, WorkerStep

LEMMA TickEnds ==
  ASSUME NEW w \in Processes, Reconcile(w), NEW t \in TaskIds, status'[t] # status[t], OwnInv
  PROVE  verdict[w] # NoVerdict /\ t = verdict[w].task
BY DEF Reconcile, Tick, TickList, TickInspect, TickUpdate, ReapList, UpdateStatus, tableVars,
   OwnInv, TypeOK, TableTypeOK

LEMMA SweepEnds ==
  ASSUME NEW w \in Processes, Sweep(w), NEW t \in TaskIds, status'[t] # status[t], OwnInv
  PROVE  sweepPc[w] = "fail" /\ t = sweepItem[w]
BY DEF Sweep, SweeperStep, ListOverdue, SweepStop, SweepClear, SweepFail, UpdateStatus,
   ClearRuntimeRef, tableVars, OwnInv, TypeOK, TableTypeOK

LEMMA OthersEnd ==
  ASSUME OwnInv, NEW t \in TaskIds, status'[t] \in Terminal,
         \/ Control \/ \E u \in TaskIds : Exit(u)
         \/ \E w \in Processes, u \in TaskIds : ReapOrphan(w, u)
  PROVE  status'[t] = status[t]
<1>0. DOMAIN status = TaskIds
  BY DEF OwnInv, TypeOK, TableTypeOK
<1> USE <1>0
<1>1. CASE Control
  BY <1>1
  DEF Control, ControllerStep, Enqueue, EnqueueStopForTarget, RestartFinished, RestartLive,
      RestartSubmit, RestartAbandon, Create, Terminal, tableVars
<1>2. CASE \E u \in TaskIds : Exit(u)
  BY <1>2 DEF Exit, tableVars
<1>3. CASE \E w \in Processes, u \in TaskIds : ReapOrphan(w, u)
  BY <1>3 DEF ReapOrphan, Reap, ReapLook, ReapStop, ReapClear, ClearRuntimeRef, tableVars
<1> QED BY <1>1, <1>2, <1>3

\* The last two steps of a stop request.
LEMMA WorkMarked ==
  ASSUME OwnInv, NEW w \in Workers, Work(w)
  PROVE  /\ pc[w] = "finish" => Marked(w)'
         /\ pc[w] \in Auditing => WriteStopRecord(w)
         /\ Marked(w)' => pc[w] \in {"mark", "finish"}
         /\ pc[w] = "finish" \/ Marked(w)' => Target(w)' = Target(w)
<1>0. DOMAIN pc = Workers /\ DOMAIN status = TaskIds /\ (pc[w] # "idle" => cur[w] \in TaskIds)
      /\ HoldsTaskOf(w)
  BY WorkerNow
<1> USE <1>0
<1>1. CASE pc[w] \in {"finish", "mark", "failstop"} \cup Auditing
  <2>1. FinishStop(w) \/ MarkStopped(w) \/ WriteStopRecord(w) \/ FailStop(w)
    BY <1>1
    DEF Work, WorkerStep, ClaimLock, ClaimCommit, CountTotal, ApplyPolicy, CheckGPU,
        CommitAdmission, ResetToPending, ResourceCheck, CreateContainer, StartContainer,
        RecordRunning, FailStart, ReadTarget, StopTarget, Auditing
  <2> QED BY <2>1
      DEF FinishStop, MarkStopped, WriteStopRecord, FailStop, UpdateStatus, Goto, Keep, Return,
          Marked, Target, Auditing
<1>2. CASE pc[w] \notin {"finish", "mark", "failstop"} \cup Auditing
  <2>1. pc'[w] \notin {"finish", "audit"}
    BY <1>2
    DEF Work, WorkerStep, ClaimLock, ClaimCommit, CountTotal, ApplyPolicy, CheckGPU,
        CommitAdmission, ResetToPending, ResourceCheck, CreateContainer, StartContainer,
        RecordRunning, FailStart, ReadTarget, StopTarget, MarkStopped, FinishStop, FailStop,
        WriteStopRecord, Goto, Return
  <2> QED BY <1>2, <2>1 DEF Marked
<1> QED BY <1>1, <1>2

----------------------------------------------------------------------------
(* Rows and records as far as answers speak of them. *)

\* e is sound in the next state.
SoundNext(t, e) ==
  e.event \in {"succeeded", "failed"} =>
    /\ status'[t] # "none"
    /\ req'[t].op = "stop" =>
         /\ stopRecord'[t] = IF e.event = "succeeded" THEN "ok" ELSE "failed"
         /\ e.body \in {Unread, e.event}

LEMMA SoundKept ==
  ASSUME Known, ToldNext, NEW t \in TaskIds, NEW e, Sound(t, e)
  PROVE  SoundNext(t, e)
<1> USE DEF Known
<1> SUFFICES ASSUME status[t] # "none"
             PROVE  /\ status'[t] # "none" /\ req'[t] = req[t]
                    /\ stopRecord[t] # "none" => stopRecord'[t] = stopRecord[t]
  BY DEF Sound, SoundNext, IsStart
<1>1. CASE Background
  BY <1>1, BackgroundOwn, BackgroundRecords DEF Background, RowsAdvance, Past, SlotStatuses,
     Terminal, OwnInv, TypeOK, TableTypeOK, Status
<1>2. ASSUME NEW w \in Workers, Work(w)
      PROVE  /\ status'[t] # "none" /\ req'[t] = req[t]
             /\ stopRecord[t] # "none" => stopRecord'[t] = stopRecord[t]
  <2>0. WorkerStep(w) /\ DOMAIN status = TaskIds
    BY <1>2, WorkerNow DEF Work
  <2>1. req' = req
    BY <2>0, StepsOwn DEF StepOwn, WorkerEffect, RowsEffect
  <2>2. status'[t] # "none"
    BY <2>0
    DEF WorkerStep, ClaimLock, ClaimCommit, CountTotal, ApplyPolicy, CheckGPU, CommitAdmission,
        ResetToPending, ResourceCheck, CreateContainer, StartContainer, RecordRunning,
        FailStart, ReadTarget, StopTarget, MarkStopped, FinishStop, FailStop,
        WriteStopRecord, TrySetStatus, UpdateStatus, UpdateRuntime, CreateStopRecord, tableVars
  <2>3. stopRecord[t] # "none" => stopRecord'[t] = stopRecord[t]
    BY <2>0, RecordsWritten, WriteRecorded DEF AuditInv, Recorded
  <2> QED BY <2>1, <2>2, <2>3
<1>3. CASE \E s \in Senders : Send(s)
  BY <1>3 DEF Send, ReadBody, Deliver, vars, tableVars
<1> QED BY <1>1, <1>2, <1>3
        DEF ToldNext, Background, SubmitQuietly, WorkAndTell, ReconcileAndTell, SweepAndTell,
            ReapQuietly, ExitQuietly

\* What a loop has to send is an answer to a row it knows.
Sendable(events) ==
  /\ events \in Seq(Events)
  /\ \A n \in DOMAIN events : SoundNext(events[n].task, events[n])

LEMMA FireType ==
  ASSUME NEW t \in TaskIds, NEW e \in {"succeeded", "failed", "stopped", "timeout"}
  PROVE  Fire(t, e) \in Events /\ Fire(t, e).task = t /\ Fire(t, e).event = e
         /\ Fire(t, e).body = Unread
BY DEF Fire, Event, Events, Unread

LEMMA FireSound ==
  ASSUME NEW t, NEW e, status'[t] # "none",
         e \in {"succeeded", "failed"} /\ req'[t].op = "stop"
           => stopRecord'[t] = IF e = "succeeded" THEN "ok" ELSE "failed"
  PROVE  SoundNext(t, Fire(t, e))
BY DEF SoundNext, Fire, Event

LEMMA NothingToSend == Sendable(<<>>)
BY DEF Sendable

LEMMA WorkSendable ==
  ASSUME Known, AnswerInv, NEW w \in Workers, Work(w)
  PROVE  Sendable(WorkEvents(w))
<1> USE DEF Known
<1>0. /\ HoldsTaskOf(w) /\ DOMAIN status = TaskIds /\ (pc[w] # "idle" => cur[w] \in TaskIds)
      /\ \A t \in TaskIds : status[t] \in Status
  BY WorkerNow
<1>1. CASE pc[w] = "fail"
  <2>1. FailStart(w)
    BY <1>1
    DEF Work, WorkerStep, ClaimLock, ClaimCommit, CountTotal, ApplyPolicy, CheckGPU,
        CommitAdmission, ResetToPending, ResourceCheck, CreateContainer, StartContainer,
        RecordRunning, ReadTarget, StopTarget, MarkStopped, FinishStop, FailStop,
        WriteStopRecord, Auditing
  <2>2. status'[cur[w]] # "none" /\ req'[cur[w]].op # "stop"
    BY <1>0, <1>1, <2>1 DEF FailStart, UpdateStatus, HoldsTaskOf, Starting, IsStart
  <2>3. WorkEvents(w) = <<Fire(cur[w], "failed")>>
    BY <1>1 DEF WorkEvents
  <2>4. SoundNext(cur[w], Fire(cur[w], "failed"))
    BY <2>2, FireSound
  <2> QED BY <1>0, <1>1, <2>3, <2>4, FireType DEF Sendable
<1>2. CASE pc[w] \in Auditing
  <2>1. /\ UNCHANGED <<status, req>> /\ ~IsStart(cur[w]) /\ cur[w] \in TaskIds
        /\ stopRecord'[cur[w]] = IF pc[w] = "audit" THEN "ok" ELSE "failed"
        /\ status[cur[w]] # "none" /\ (pc[w] = "audit" => status[cur[w]] = "succeeded")
    BY <1>0, <1>2, WorkMarked
    DEF WriteStopRecord, CreateStopRecord, HoldsTaskOf, Stopping, Auditing, OwnInv, TypeOK, TableTypeOK
  <2>2. CASE pc[w] = "audit"
    <3>1. WorkEvents(w) = <<Fire(Target(w), "stopped"), Fire(cur[w], "succeeded")>>
      BY <1>2, <2>2 DEF WorkEvents
    <3>2. Target(w) \in TaskIds
      BY <1>2, <2>2 DEF AnswerInv, Marked
    <3>3. SoundNext(Target(w), Fire(Target(w), "stopped"))
      BY DEF SoundNext, Fire, Event
    <3>4. SoundNext(cur[w], Fire(cur[w], "succeeded"))
      BY <2>1, <2>2, FireSound
    <3> QED BY <2>1, <3>1, <3>2, <3>3, <3>4, FireType DEF Sendable
  <2>3. CASE pc[w] = "auditfail"
    <3>1. WorkEvents(w) = <<Fire(cur[w], "failed")>>
      BY <2>3 DEF WorkEvents
    <3>2. SoundNext(cur[w], Fire(cur[w], "failed"))
      BY <2>1, <2>3, FireSound
    <3> QED BY <2>1, <3>1, <3>2, FireType DEF Sendable
  <2> QED BY <1>2, <2>2, <2>3 DEF Auditing
<1>3. CASE pc[w] \notin {"fail"} \cup Auditing
  BY <1>3, NothingToSend DEF WorkEvents, Auditing
<1> QED BY <1>1, <1>2, <1>3

LEMMA TickSendable ==
  ASSUME Known, NEW w \in Processes, Reconcile(w)
  PROVE  Sendable(TickEvents(w))
<1>1. CASE verdict[w] = NoVerdict
  BY <1>1, NothingToSend DEF TickEvents
<1>2. CASE verdict[w] # NoVerdict
  <2>1. /\ verdict[w].task \in TaskIds /\ verdict[w].phase \in {"succeeded", "failed"}
        /\ Settled(verdict[w].task)
    BY <1>2 DEF Known, OwnInv, CopiesSettled, TypeOK, ReconcilerTypeOK, Verdict
  <2>2. status'[verdict[w].task] # "none" /\ req'[verdict[w].task].op # "stop"
    BY <2>1, BackgroundOwn
    DEF Known, RowsAdvance, Settled, Past, SlotStatuses, Terminal, IsStart
  <2>3. SoundNext(verdict[w].task, Fire(verdict[w].task, verdict[w].phase))
    BY <2>2, FireSound
  <2> QED BY <1>2, <2>1, <2>3, FireType DEF TickEvents, Sendable
<1> QED BY <1>1, <1>2

LEMMA SweepSendable ==
  ASSUME Known, NEW w \in Processes
  PROVE  Sendable(SweepEvents(w))
<1>1. CASE sweepPc[w] # "fail"
  BY <1>1, NothingToSend DEF SweepEvents
<1>2. CASE sweepPc[w] = "fail"
  <2>1. sweepItem[w] \in TaskIds
    BY <1>2 DEF Known, OwnInv, CopiesSettled
  <2>2. SoundNext(sweepItem[w], Fire(sweepItem[w], "timeout"))
    BY DEF SoundNext, Fire, Event
  <2> QED BY <1>2, <2>1, <2>2, FireType DEF SweepEvents, Sendable
<1> QED BY <1>1, <1>2

----------------------------------------------------------------------------
(* Events stay well typed and sound. *)

TellType == due \in [Senders -> Seq(Events)] /\ told \in [TaskIds -> SUBSET Heard]

LEMMA SendsSound ==
  ASSUME Known, ToldNext, AnswerInv, NEW s \in Senders, NEW events, Sendable(events),
         Sends(s, events)
  PROVE  TellType' /\ AnswersSound'
<1>1. TellType'
  BY DEF Sends, Sendable, AnswerInv, TellType
<1>2. ASSUME NEW r \in Senders, NEW n \in DOMAIN due'[r]
      PROVE  SoundNext(due'[r][n].task, due'[r][n])
  <2>1. CASE r = s
    <3>1. due'[r] = events
      BY <2>1 DEF Sends, AnswerInv
    <3>2. SoundNext(events[n].task, events[n])
      BY <1>2, <3>1 DEF Sendable
    <3> QED BY <3>1, <3>2
  <2>2. CASE r # s
    <3>1. due'[r] = due[r]
      BY <2>2 DEF Sends, AnswerInv
    <3>2. due[r] \in Seq(Events) /\ n \in DOMAIN due[r]
      BY <1>2, <3>1 DEF AnswerInv
    <3>3. due[r][n] \in Events
      BY <3>2
    <3>4. due[r][n].task \in TaskIds
      BY <3>3 DEF Events
    <3>5. Sound(due[r][n].task, due[r][n])
      BY <3>2 DEF AnswerInv, AnswersSound
    <3> QED BY <3>1, <3>4, <3>5, SoundKept
  <2> QED BY <2>1, <2>2
<1>3. ASSUME NEW t \in TaskIds, NEW heard \in told'[t] PROVE SoundNext(t, heard)
  BY <1>3, SoundKept DEF Sends, AnswerInv, AnswersSound
<1> QED BY <1>1, <1>2, <1>3 DEF AnswersSound, Sound, SoundNext, IsStart

\* The status that is sent with an answer to a stop request is its own.
LEMMA BodyRead ==
  ASSUME Known, NEW t \in TaskIds, NEW e, Sound(t, e), e.event \in {"succeeded", "failed"},
         ~IsStart(t)
  PROVE  status[t] = e.event
<1>1. stopRecord[t] = IF e.event = "succeeded" THEN "ok" ELSE "failed"
  BY DEF Sound
<1>2. Recorded(t)
  BY <1>1 DEF Known, AuditInv
<1>3. status[t] # "processing"
  BY <1>2 DEF Recorded, Known, ProcessingHeld
<1> QED BY <1>1, <1>2, <1>3 DEF Recorded

LEMMA SendSound ==
  ASSUME Known, AnswerInv, NEW s \in Senders, Send(s)
  PROVE  TellType' /\ AnswersSound'
<1> DEFINE e == due[s][1]
<1>1. /\ due[s] \in Seq(Events) /\ Len(due[s]) >= 1 /\ e \in Events /\ e.task \in TaskIds
      /\ Sound(e.task, e) /\ Head(due[s]) = e
      /\ UNCHANGED <<status, req, stopRecord>>
      /\ \A t \in TaskIds : status[t] \in Status
  <2>1. due[s] \in Seq(Events) /\ due[s] # <<>>
    BY DEF Send, ReadBody, Deliver, AnswerInv
  <2>2. Len(due[s]) >= 1 /\ 1 \in DOMAIN due[s] /\ e \in Events /\ Head(due[s]) = e
    BY <2>1
  <2>3. e.task \in TaskIds /\ Sound(e.task, e)
    BY <2>2 DEF Events, AnswerInv, AnswersSound
  <2> QED BY <2>1, <2>2, <2>3, WorkerAssumption
          DEF Send, ReadBody, Deliver, vars, tableVars, Known, OwnInv, TypeOK, TableTypeOK
<1> HIDE DEF e
<1>2. CASE ReadBody(s)
  <2> DEFINE f == Event(e.task, e.event, status[e.task])
  <2>1. f \in Events /\ f.task = e.task
    BY <1>1 DEF Event, Events
  <2>2. Sound(f.task, f)
    BY <1>1, BodyRead DEF Sound, Event
  <2> HIDE DEF f
  <2>3. due' = [due EXCEPT ![s] = [due[s] EXCEPT ![1] = f]] /\ told' = told
    BY <1>2 DEF ReadBody, f, e
  <2>4. TellType'
    BY <1>1, <2>1, <2>3 DEF AnswerInv, TellType
  <2>5. ASSUME NEW r \in Senders, NEW n \in DOMAIN due'[r]
        PROVE  Sound(due'[r][n].task, due'[r][n])
    <3>1. CASE r = s /\ n = 1
      BY <1>1, <2>2, <2>3, <3>1 DEF AnswerInv
    <3>2. CASE ~(r = s /\ n = 1)
      <4>1. due[r] \in Seq(Events) /\ n \in DOMAIN due[r] /\ due'[r][n] = due[r][n]
        BY <1>1, <2>3, <2>5, <3>2 DEF AnswerInv
      <4> QED BY <4>1 DEF AnswerInv, AnswersSound
    <3> QED BY <3>1, <3>2
  <2> QED BY <1>1, <2>3, <2>4, <2>5 DEF AnswerInv, AnswersSound, Sound, IsStart
<1>3. CASE Deliver(s)
  <2>1. /\ due' = [due EXCEPT ![s] = Tail(due[s])]
        /\ told' = [told EXCEPT ![e.task] = @ \cup {[event |-> e.event, body |-> e.body]}]
        /\ e.body # Unread
    BY <1>1, <1>3 DEF Deliver
  <2>2. [event |-> e.event, body |-> e.body] \in Heard
    BY <1>1, <2>1 DEF Events, Heard
  <2>3. TellType'
    BY <1>1, <2>1, <2>2 DEF AnswerInv, TellType
  <2>4. ASSUME NEW r \in Senders, NEW n \in DOMAIN due'[r]
        PROVE  Sound(due'[r][n].task, due'[r][n])
    <3>1. CASE r = s
      <4>1. n + 1 \in DOMAIN due[s] /\ due'[s][n] = due[s][n + 1]
        BY <1>1, <2>1, <2>4, <3>1 DEF AnswerInv
      <4> QED BY <3>1, <4>1 DEF AnswerInv, AnswersSound
    <3>2. CASE r # s
      BY <2>1, <2>4, <3>2 DEF AnswerInv, AnswersSound
    <3> QED BY <3>1, <3>2
  <2>5. ASSUME NEW t \in TaskIds, NEW heard \in told'[t] PROVE Sound(t, heard)
    <3>1. CASE heard \in told[t]
      BY <3>1 DEF AnswerInv, AnswersSound
    <3>2. CASE t = e.task /\ heard = [event |-> e.event, body |-> e.body]
      BY <1>1, <3>2 DEF Sound
    <3> QED BY <1>1, <2>1, <2>5, <3>1, <3>2 DEF AnswerInv
  <2> QED BY <1>1, <2>3, <2>4, <2>5 DEF AnswersSound, Sound, IsStart
<1> QED BY <1>2, <1>3 DEF Send

----------------------------------------------------------------------------
(* An end that has been heard, is on its way or is about to be said stays  *)
(* so, until somebody writes the row again.                                *)

LEMMA SendKeeps ==
  ASSUME Known, AnswerInv, NEW s \in Senders, Send(s), NEW t \in TaskIds, OnItsWay(t)
  PROVE  OnItsWay(t)'
<1> DEFINE e == due[s][1]
<1>0. /\ due[s] \in Seq(Events) /\ due[s] # <<>> /\ Head(due[s]) = e /\ Len(due[s]) >= 1
      /\ status' = status
  BY DEF Send, ReadBody, Deliver, AnswerInv, vars, tableVars
<1>1. CASE \E heard \in told[t] : heard.body = status[t]
  <2>1. told[t] \subseteq told'[t]
    BY DEF Send, ReadBody, Deliver, AnswerInv
  <2> QED BY <1>0, <1>1, <2>1 DEF OnItsWay
<1>2. ASSUME NEW r \in Senders, NEW n \in DOMAIN due[r],
             due[r][n].task = t, due[r][n].body \in {Unread, status[t]}
      PROVE  OnItsWay(t)'
  <2>1. due[r] \in Seq(Events) /\ n \in 1 .. Len(due[r])
    BY <1>2 DEF AnswerInv
  <2>2. CASE r # s
    <3>1. due'[r] = due[r]
      BY <2>2 DEF Send, ReadBody, Deliver, AnswerInv
    <3> QED BY <1>0, <1>2, <3>1 DEF OnItsWay
  <2>3. CASE r = s /\ ReadBody(s)
    <3>1. due'[s] = [due[s] EXCEPT ![1] = Event(e.task, e.event, status[e.task])]
      BY <1>0, <2>3 DEF ReadBody, AnswerInv
    <3>2. DOMAIN due'[s] = DOMAIN due[s]
      BY <3>1
    <3>3. CASE n = 1
      <4>1. due'[s][1] = Event(t, e.event, status[t])
        BY <1>0, <1>2, <2>3, <3>1, <3>3
      <4>2. due'[s][1].task = t /\ due'[s][1].body = status'[t]
        BY <1>0, <4>1 DEF Event
      <4> QED BY <1>2, <2>3, <3>2, <3>3, <4>2 DEF OnItsWay
    <3>4. CASE n # 1
      <4>1. due'[s][n] = due[s][n]
        BY <1>2, <2>1, <2>3, <3>1, <3>4
      <4> QED BY <1>0, <1>2, <2>3, <3>2, <4>1 DEF OnItsWay
    <3> QED BY <3>3, <3>4
  <2>4. CASE r = s /\ Deliver(s)
    <3>1. due'[s] = Tail(due[s]) /\ e.body # Unread
          /\ told' = [told EXCEPT ![e.task] = @ \cup {[event |-> e.event, body |-> e.body]}]
      BY <1>0, <2>4 DEF Deliver, AnswerInv
    <3>2. CASE n = 1
      <4>1. e.task = t /\ e.body = status[t]
        BY <1>2, <2>4, <3>1, <3>2
      <4>2. [event |-> e.event, body |-> e.body] \in told'[t]
        BY <3>1, <4>1 DEF AnswerInv
      <4> QED BY <1>0, <4>1, <4>2 DEF OnItsWay
    <3>3. CASE n # 1
      <4>1. n - 1 \in DOMAIN due'[s] /\ due'[s][n - 1] = due[s][n]
        BY <1>0, <2>1, <2>4, <3>1, <3>3
      <4> QED BY <1>0, <1>2, <2>4, <4>1 DEF OnItsWay
    <3> QED BY <3>2, <3>3
  <2> QED BY <2>2, <2>3, <2>4 DEF Send
<1> QED BY <1>1, <1>2 DEF OnItsWay

\* Who takes his next step had nothing more to send.
LEMMA SendsKeeps ==
  ASSUME AnswerInv, NEW s \in Senders, NEW events, Sends(s, events),
         NEW t \in TaskIds, status'[t] = status[t], OnItsWay(t)
  PROVE  OnItsWay(t)'
<1>1. \A r \in Senders : due[r] # <<>> => due'[r] = due[r]
  BY DEF Sends, AnswerInv
<1>2. \A r \in Senders : DOMAIN due[r] # {} => due[r] # <<>>
  OBVIOUS
<1> QED BY <1>1, <1>2 DEF OnItsWay, Sends

LEMMA SentIsOnItsWay ==
  ASSUME AnswerInv, NEW s \in Senders, NEW events, Sends(s, events),
         NEW t \in TaskIds, NEW n \in DOMAIN events, NEW e, events[n] = Fire(t, e)
  PROVE  OnItsWay(t)'
<1>1. due'[s] = events
  BY DEF Sends, AnswerInv
<1>2. events[n].task = t /\ events[n].body = Unread
  BY DEF Fire, Event
<1>3. due'[s][n].task = t /\ due'[s][n].body = Unread /\ n \in DOMAIN due'[s]
  BY <1>1, <1>2
<1> QED BY <1>3 DEF OnItsWay

\* A stop request that is nearly done is not disturbed by others.
LEMMA OthersKeepMarks ==
  ASSUME OwnInv, NEW w \in Workers, pc[w] \in {"finish"} \cup Auditing,
         \/ Background
         \/ UNCHANGED vars
         \/ \E v \in Workers \ {w} : Work(v)
  PROVE  /\ pc'[w] = pc[w] /\ cur'[w] = cur[w] /\ Target(w)' = Target(w)
         /\ Marked(w) => Marked(w)'
         /\ Marked(w)' => Marked(w)
<1>0. HoldsTaskOf(w) /\ cur[w] \in TaskIds
  BY WorkerNow DEF Auditing
<1>1. /\ ~IsStart(cur[w])
      /\ pc[w] \in Auditing => status[cur[w]] \in {"processing", "succeeded", "failed"}
      /\ pc[w] = "finish" => status[cur[w]] = "processing"
  BY <1>0 DEF HoldsTaskOf, Stopping, Auditing
<1>2. /\ pc'[w] = pc[w] /\ cur'[w] = cur[w] /\ req'[cur[w]] = req[cur[w]]
      /\ status'[cur[w]] = status[cur[w]]
  <2>1. CASE Background
    BY <1>0, <1>1, <2>1, BackgroundOwn DEF Background, RowsAdvance, workerVars
  <2>2. CASE UNCHANGED vars
    BY <2>2 DEF vars, tableVars, workerVars
  <2>3. ASSUME NEW v \in Workers \ {w}, Work(v)
        PROVE  /\ pc'[w] = pc[w] /\ cur'[w] = cur[w] /\ req'[cur[w]] = req[cur[w]]
               /\ status'[cur[w]] = status[cur[w]]
    <3>1. WorkerEffect(v)
      BY <2>3, WorkOwn DEF StepOwn
    <3>2. cur[w] # cur[v]
      BY <1>0, <2>3, TaskAssumption DEF OwnInv, ExclusiveClaim, NoTask
    <3> QED BY <1>0, <1>1, <2>3, <3>1, <3>2 DEF WorkerEffect, MemoryEffect, RowsEffect
  <2> QED BY <2>1, <2>2, <2>3
<1> QED BY <1>0, <1>2 DEF Target, Marked

\* The others mark nothing for w.
LEMMA OthersMarkNothing ==
  ASSUME OwnInv, NEW w \in Workers, Marked(w)',
         \/ Background
         \/ UNCHANGED vars
         \/ \E v \in Workers \ {w} : Work(v)
  PROVE  Marked(w) /\ Target(w)' = Target(w)
<1>1. pc'[w] = pc[w]
  <2>1. CASE Background \/ UNCHANGED vars
    BY <2>1, BackgroundOwn DEF Background, vars, workerVars
  <2>2. ASSUME NEW v \in Workers \ {w}, Work(v) PROVE pc'[w] = pc[w]
    BY <2>2, WorkOwn DEF StepOwn, WorkerEffect, MemoryEffect
  <2> QED BY <2>1, <2>2
<1>2. pc[w] \in {"finish"} \cup Auditing
  BY <1>1 DEF Marked, Auditing
<1> QED BY <1>2, OthersKeepMarks

----------------------------------------------------------------------------
(* The invariant. *)

Covered(t) == OnItsWay(t) \/ ToBeSaid(t)

LEMMA OthersStillSay ==
  ASSUME OwnInv, NEW w \in Workers, NEW t \in TaskIds,
         (Marked(w) /\ t = Target(w)) \/ (pc[w] \in Auditing /\ t = cur[w]),
         \/ Background
         \/ UNCHANGED vars
         \/ \E v \in Workers \ {w} : Work(v)
  PROVE  ToBeSaid(t)'
<1>1. pc[w] \in {"finish"} \cup Auditing
  BY DEF Marked, Auditing
<1>2. \/ Marked(w)' /\ t = Target(w)'
      \/ pc'[w] \in Auditing /\ t = cur'[w]
  BY <1>1, OthersKeepMarks
<1> QED BY <1>2 DEF ToBeSaid

\* A worker that is about to say it says it, or comes closer to it.
LEMMA SaysIt ==
  ASSUME OwnInv, AnswerInv, NEW w \in Workers, WorkAndTell(w), NEW t \in TaskIds,
         (Marked(w) /\ t = Target(w)) \/ (pc[w] \in Auditing /\ t = cur[w])
  PROVE  Covered(t)'
<1>0. Work(w) /\ Sends(<<w, "claim">>, WorkEvents(w)) /\ <<w, "claim">> \in Senders
  BY DEF WorkAndTell, Senders
<1>1. CASE pc[w] = "finish"
  <2>1. Marked(w)' /\ t = Target(w)'
    BY <1>0, <1>1, WorkMarked DEF Auditing
  <2> QED BY <2>1 DEF Covered, ToBeSaid
<1>2. CASE pc[w] = "audit"
  <2>1. WorkEvents(w) = <<Fire(Target(w), "stopped"), Fire(cur[w], "succeeded")>>
    BY <1>2 DEF WorkEvents
  <2>2. \E n \in DOMAIN WorkEvents(w) : \E e \in {"stopped", "succeeded"} :
          WorkEvents(w)[n] = Fire(t, e)
    <3>1. CASE t = Target(w)
      BY <2>1, <3>1
    <3>2. CASE t = cur[w]
      BY <2>1, <3>2
    <3> QED BY <3>1, <3>2
  <2> QED BY <1>0, <2>2, SentIsOnItsWay DEF Covered
<1>3. CASE pc[w] = "auditfail"
  <2>1. WorkEvents(w) = <<Fire(cur[w], "failed")>> /\ t = cur[w]
    BY <1>3 DEF WorkEvents, Marked
  <2>2. \E n \in DOMAIN WorkEvents(w) : WorkEvents(w)[n] = Fire(t, "failed")
    BY <2>1
  <2> QED BY <1>0, <2>2, SentIsOnItsWay DEF Covered
<1> QED BY <1>1, <1>2, <1>3 DEF Marked, Auditing

LEMMA WorkCovers ==
  ASSUME OwnInv, AnswerInv, NEW w \in Workers, WorkAndTell(w),
         NEW t \in TaskIds, status'[t] \in Terminal
  PROVE  Covered(t)'
<1>0. Work(w) /\ Sends(<<w, "claim">>, WorkEvents(w)) /\ <<w, "claim">> \in Senders
  BY DEF WorkAndTell, Senders
<1>1. CASE status'[t] = status[t]
  <2>1. OnItsWay(t) \/ ToBeSaid(t)
    BY <1>1 DEF AnswerInv
  <2>2. CASE OnItsWay(t)
    BY <1>0, <1>1, <2>2, SendsKeeps DEF Covered
  <2>3. ASSUME NEW v \in Workers,
               (Marked(v) /\ t = Target(v)) \/ (pc[v] \in Auditing /\ t = cur[v])
        PROVE  Covered(t)'
    <3>1. CASE v = w
      BY <2>3, <3>1, SaysIt
    <3>2. CASE v # w
      BY <1>0, <2>3, <3>2, OthersStillSay DEF Covered
    <3> QED BY <3>1, <3>2
  <2> QED BY <2>1, <2>2, <2>3 DEF ToBeSaid
<1>2. CASE status'[t] # status[t]
  <2>1. CASE pc[w] = "fail" /\ t = cur[w]
    <3>1. WorkEvents(w) = <<Fire(t, "failed")>>
      BY <2>1 DEF WorkEvents
    <3>2. \E n \in DOMAIN WorkEvents(w) : WorkEvents(w)[n] = Fire(t, "failed")
      BY <3>1
    <3> QED BY <1>0, <3>2, SentIsOnItsWay DEF Covered
  <2>2. CASE \/ Marked(w)' /\ t = Target(w)'
             \/ pc'[w] \in Auditing /\ t = cur'[w]
    BY <2>2 DEF Covered, ToBeSaid
  <2> QED BY <1>0, <1>2, <2>1, <2>2, WorkEnds
<1> QED BY <1>1, <1>2

\* The steps of the other loops, which leave the marks of all workers alone.
LEMMA BackgroundCovers ==
  ASSUME OwnInv, AnswerInv, NEW t \in TaskIds, status'[t] \in Terminal,
         \/ \E w \in Processes : ReconcileAndTell(w) \/ SweepAndTell(w)
         \/ SubmitQuietly
         \/ \E w \in Processes, u \in TaskIds : ReapQuietly(w, u)
         \/ \E u \in TaskIds : ExitQuietly(u)
  PROVE  Covered(t)'
<1>0. Background
  BY DEF Background, ReconcileAndTell, SweepAndTell, SubmitQuietly, ReapQuietly, ExitQuietly
<1>1. ASSUME status'[t] = status[t], ToBeSaid(t) PROVE Covered(t)'
  BY <1>0, <1>1, OthersStillSay DEF ToBeSaid, Covered
<1>2. ASSUME status'[t] = status[t] PROVE OnItsWay(t) \/ ToBeSaid(t)
  BY <1>2 DEF AnswerInv
<1>3. ASSUME NEW w \in Processes, ReconcileAndTell(w) PROVE Covered(t)'
  <2>0. Reconcile(w) /\ Sends(<<w, "tick">>, TickEvents(w)) /\ <<w, "tick">> \in Senders
    BY <1>3 DEF ReconcileAndTell, Senders
  <2>1. CASE status'[t] = status[t]
    BY <1>1, <1>2, <2>0, <2>1, SendsKeeps DEF Covered
  <2>2. CASE status'[t] # status[t]
    <3>1. TickEvents(w) = <<Fire(t, verdict[w].phase)>>
      BY <2>0, <2>2, TickEnds DEF TickEvents
    <3>2. \E n \in DOMAIN TickEvents(w) : TickEvents(w)[n] = Fire(t, verdict[w].phase)
      BY <3>1
    <3> QED BY <2>0, <3>2, SentIsOnItsWay DEF Covered
  <2> QED BY <2>1, <2>2
<1>4. ASSUME NEW w \in Processes, SweepAndTell(w) PROVE Covered(t)'
  <2>0. Sweep(w) /\ Sends(<<w, "sweep">>, SweepEvents(w)) /\ <<w, "sweep">> \in Senders
    BY <1>4 DEF SweepAndTell, Senders
  <2>1. CASE status'[t] = status[t]
    BY <1>1, <1>2, <2>0, <2>1, SendsKeeps DEF Covered
  <2>2. CASE status'[t] # status[t]
    <3>1. SweepEvents(w) = <<Fire(t, "timeout")>>
      BY <2>0, <2>2, SweepEnds DEF SweepEvents
    <3>2. \E n \in DOMAIN SweepEvents(w) : SweepEvents(w)[n] = Fire(t, "timeout")
      BY <3>1
    <3> QED BY <2>0, <3>2, SentIsOnItsWay DEF Covered
  <2> QED BY <2>1, <2>2
<1>5. CASE SubmitQuietly \/ (\E w \in Processes, u \in TaskIds : ReapQuietly(w, u))
           \/ \E u \in TaskIds : ExitQuietly(u)
  <2>1. /\ UNCHANGED tellVars
        /\ Control \/ (\E u \in TaskIds : Exit(u)) \/ \E w \in Processes, u \in TaskIds : ReapOrphan(w, u)
    BY <1>5 DEF SubmitQuietly, ReapQuietly, ExitQuietly
  <2>2. status'[t] = status[t]
    BY <2>1, OthersEnd
  <2>3. OnItsWay(t) => OnItsWay(t)'
    BY <2>1, <2>2 DEF OnItsWay, tellVars
  <2> QED BY <1>1, <1>2, <2>2, <2>3 DEF Covered
<1> QED BY <1>3, <1>4, <1>5

LEMMA MarkedStep ==
  ASSUME Known, AnswerInv, [ToldNext]_toldVars
  PROVE  \A w \in Workers : Marked(w)' => Target(w)' \in TaskIds
<1> SUFFICES ASSUME NEW w \in Workers, Marked(w)' PROVE Target(w)' \in TaskIds
  OBVIOUS
<1>0. OwnInv
  BY DEF Known
<1>1. CASE Work(w)
  <2>1. pc[w] \in {"mark", "finish"} /\ Target(w)' = Target(w)
    BY <1>0, <1>1, WorkMarked
  <2>2. Target(w) \in TaskIds
    BY <1>0, <2>1, WorkerNow DEF HoldsTargetOf, AnswerInv, Marked
  <2> QED BY <2>1, <2>2
<1>2. CASE Background \/ UNCHANGED vars \/ \E v \in Workers \ {w} : Work(v)
  BY <1>0, <1>2, OthersMarkNothing DEF AnswerInv
<1> QED BY <1>1, <1>2
        DEF ToldNext, toldVars, Background, SubmitQuietly, WorkAndTell, ReconcileAndTell,
            SweepAndTell, ReapQuietly, ExitQuietly, Send, ReadBody, Deliver

LEMMA AnswerTypes ==
  ASSUME Known, AnswerInv, ToldNext
  PROVE  TellType' /\ AnswersSound'
<1>1. ASSUME NEW w \in Workers, WorkAndTell(w) PROVE TellType' /\ AnswersSound'
  <2>1. <<w, "claim">> \in Senders
    BY DEF Senders
  <2> QED BY <1>1, <2>1, WorkSendable, SendsSound DEF WorkAndTell
<1>2. ASSUME NEW w \in Processes, ReconcileAndTell(w) PROVE TellType' /\ AnswersSound'
  <2>1. <<w, "tick">> \in Senders
    BY DEF Senders
  <2> QED BY <1>2, <2>1, TickSendable, SendsSound DEF ReconcileAndTell
<1>3. ASSUME NEW w \in Processes, SweepAndTell(w) PROVE TellType' /\ AnswersSound'
  <2>1. <<w, "sweep">> \in Senders
    BY DEF Senders
  <2> QED BY <1>3, <2>1, SweepSendable, SendsSound DEF SweepAndTell
<1>4. CASE UNCHANGED tellVars
  <2>1. ASSUME NEW s \in Senders, NEW n \in DOMAIN due[s]
        PROVE  SoundNext(due[s][n].task, due[s][n])
    <3>1. due[s] \in Seq(Events)
      BY DEF AnswerInv
    <3>2. due[s][n] \in Events
      BY <3>1
    <3>3. due[s][n].task \in TaskIds
      BY <3>2 DEF Events
    <3>4. Sound(due[s][n].task, due[s][n])
      BY DEF AnswerInv, AnswersSound
    <3> QED BY <3>3, <3>4, SoundKept
  <2>2. ASSUME NEW t \in TaskIds, NEW heard \in told[t] PROVE SoundNext(t, heard)
    BY SoundKept DEF AnswerInv, AnswersSound
  <2>3. TellType'
    BY <1>4 DEF AnswerInv, TellType, tellVars
  <2> QED BY <1>4, <2>1, <2>2, <2>3 DEF tellVars, AnswersSound, Sound, SoundNext, IsStart
<1> QED BY <1>1, <1>2, <1>3, <1>4, SendSound
        DEF ToldNext, SubmitQuietly, ReapQuietly, ExitQuietly

LEMMA AnswerStep == Known /\ AnswerInv /\ [ToldNext]_toldVars => AnswerInv'
<1> SUFFICES ASSUME Known, AnswerInv, [ToldNext]_toldVars PROVE AnswerInv'
  OBVIOUS
<1>0. OwnInv
  BY DEF Known
<1>1. TellType' /\ AnswersSound'
  <2>1. CASE UNCHANGED toldVars
    BY <2>1
    DEF toldVars, tellVars, vars, tableVars, AnswerInv, TellType, AnswersSound, Sound, IsStart
  <2> QED BY <2>1, AnswerTypes
<1>2. ASSUME NEW t \in TaskIds, status'[t] \in Terminal PROVE Covered(t)'
  <2>1. CASE \E s \in Senders : Send(s)
    <3>1. UNCHANGED vars /\ status'[t] = status[t]
      BY <2>1 DEF Send, ReadBody, Deliver, vars, tableVars
    <3>2. OnItsWay(t) \/ ToBeSaid(t)
      BY <1>2, <3>1 DEF AnswerInv
    <3>3. OnItsWay(t) => OnItsWay(t)'
      BY <2>1, SendKeeps
    <3>4. ToBeSaid(t) => ToBeSaid(t)'
      BY <1>0, <3>1, OthersStillSay DEF ToBeSaid
    <3> QED BY <3>2, <3>3, <3>4 DEF Covered
  <2>2. CASE UNCHANGED toldVars
    <3>1. status[t] \in Terminal /\ UNCHANGED <<vars, due, told, status>>
      BY <1>2, <2>2 DEF toldVars, tellVars, vars, tableVars
    <3>2. OnItsWay(t) \/ ToBeSaid(t)
      BY <3>1 DEF AnswerInv
    <3>3. OnItsWay(t) => OnItsWay(t)'
      BY <3>1 DEF OnItsWay
    <3>4. ToBeSaid(t) => ToBeSaid(t)'
      BY <1>0, <3>1, OthersStillSay DEF ToBeSaid
    <3> QED BY <3>2, <3>3, <3>4 DEF Covered
  <2> QED BY <1>0, <1>2, <2>1, <2>2, WorkCovers, BackgroundCovers DEF ToldNext
<1> QED BY <1>1, <1>2, MarkedStep DEF AnswerInv, TellType, Covered

LEMMA AnswerInit == ToldInit => AnswerInv
<1> SUFFICES ASSUME ToldInit PROVE AnswerInv
  OBVIOUS
<1>1. TellType /\ AnswersSound
  BY DEF ToldInit, TellType, AnswersSound
<1>2. \A w \in Workers : ~Marked(w)
  BY DEF ToldInit, Init, WorkerInit, Marked
<1>3. \A t \in TaskIds : status[t] \notin Terminal
  BY DEF ToldInit, Init, TableInit, Terminal
<1> QED BY <1>1, <1>2, <1>3 DEF AnswerInv, TellType

LEMMA AnswerInvariance == ToldSpec => []AnswerInv
BY AnswerInit, AnswerStep, ToldKnown, PTL DEF ToldSpec

----------------------------------------------------------------------------
\* When the dust has settled, the application has heard of a task the end its row tells
\* of, whoever wrote it and in whatever order the calls arrived.
THEOREM EndsAreTold == ToldSpec => []FinalTold
<1>1. AnswerInv => FinalTold
  <2> SUFFICES ASSUME AnswerInv, NEW t \in TaskIds, status[t] \in Terminal, ~Unsettled(t)
               PROVE  \E heard \in told[t] : heard.body = status[t]
    BY DEF FinalTold
  <2>1. OnItsWay(t) \/ ToBeSaid(t)
    BY DEF AnswerInv
  <2>2. ToBeSaid(t) => Unsettled(t)
    BY DEF ToBeSaid, Marked, Unsettled, Stopping, Auditing
  <2> QED BY <2>1, <2>2 DEF OnItsWay, Unsettled
<1> QED BY <1>1, AnswerInvariance, PTL

\* The answer to a stop request agrees with its row and its audit row.
THEOREM StopAnswersAreSound == ToldSpec => []StopAnswersAgree
<1>1. AnswerInv => StopAnswersAgree
  <2> SUFFICES ASSUME AnswerInv, NEW s \in TaskIds, ~IsStart(s), NEW heard \in told[s]
               PROVE  /\ heard.event = "succeeded" => heard.body = "succeeded" /\ stopRecord[s] = "ok"
                      /\ heard.event = "failed" => heard.body = "failed" /\ stopRecord[s] = "failed"
    BY DEF StopAnswersAgree
  <2>1. Sound(s, heard)
    BY DEF AnswerInv, AnswersSound
  <2>2. heard.body \in Status
    BY DEF AnswerInv, Heard
  <2>3. heard.body # Unread
    BY <2>2 DEF Status, SlotStatuses, Terminal, Unread
  <2> QED BY <2>1, <2>3 DEF Sound
<1> QED BY <1>1, AnswerInvariance, PTL
=============================================================================
