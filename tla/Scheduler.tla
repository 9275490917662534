----------------------------- MODULE Scheduler -----------------------------
(***************************************************************************)
(* The whole scheduler: controllers, the claim loops of the mp-worker      *)
(* processes (cmd/mp-worker/main.go), their background loops, and the      *)
(* containers, over one table.                                             *)
(***************************************************************************)
EXTENDS Controller, Worker, Reconciler

ASSUME ProcessAssumption == Processes \subseteq Workers

vars == <<tableVars, restarts, container, workerVars, sweeperVars, reconcilerVars>>

Init ==
  /\ TableInit
  /\ ControllerInit
  /\ RuntimeInit
  /\ WorkerInit
  /\ SweeperInit
  /\ ReconcilerInit

----------------------------------------------------------------------------
Control ==
  /\ ControllerStep
  /\ UNCHANGED <<container, workerVars, sweeperVars, reconcilerVars>>

Work(w) ==
  /\ WorkerStep(w)
  /\ UNCHANGED <<restarts, sweeperVars, reconcilerVars>>

Sweep(w) ==
  /\ SweeperStep(w)
  /\ UNCHANGED <<restarts, workerVars, reconcilerVars>>

SweepAdmitted ==
  /\ AdmittedSweep
  /\ UNCHANGED <<restarts, workerVars, reconcilerVars>>

Reconcile(w) ==
  /\ Tick(w)
  /\ UNCHANGED <<restarts, workerVars, sweeperVars>>

ReapOrphan(w, t) ==
  /\ Reap(w, t)
  /\ UNCHANGED <<restarts, workerVars, sweeperVars>>

Exit(t) ==
  /\ ContainerExit(t)
  /\ UNCHANGED <<tableVars, restarts, workerVars, sweeperVars, reconcilerVars>>

DbFault(w) ==
  /\ DbError(w)
  /\ UNCHANGED <<restarts, sweeperVars, reconcilerVars>>

\* A process takes its background loops along when it dies.
Crash(w) ==
  /\ CrashWorker(w)
  /\ IF w \in Processes THEN ForgetSweep(w) /\ ForgetTick(w)
                        ELSE UNCHANGED <<sweeperVars, reconcilerVars>>
  /\ UNCHANGED restarts

Next ==
  \/ Control
  \/ \E w \in Workers : Work(w) \/ DbFault(w) \/ Crash(w)
  \/ \E w \in Processes : Sweep(w) \/ Reconcile(w) \/ \E t \in TaskIds : ReapOrphan(w, t)
  \/ SweepAdmitted
  \/ \E t \in TaskIds : Exit(t)

Spec == Init /\ [][Next]_vars

----------------------------------------------------------------------------
TypeOK ==
  /\ TableTypeOK
  /\ ControllerTypeOK
  /\ RuntimeTypeOK
  /\ WorkerTypeOK
  /\ SweeperTypeOK
  /\ ReconcilerTypeOK

----------------------------------------------------------------------------
(* Safety, whatever fails *)

\* The slots are oversubscribed at most once per additional worker.  The policy
\* caps the count each admission transaction READS (executeStart); under READ
\* COMMITTED every other worker may be past its own count at that moment, and
\* a row a sweeper has failed meanwhile comes back when its Run returns
\* (UpdateRuntime).  With one worker the cap is exact.
SlotBound == Cardinality(SlotRows) <= MaxTotal + Cardinality(Workers) - 1

\* The same of the slow cap, except that a cap of zero admits no slow task.
SlowBound ==
  IF MaxSlow = 0 THEN SlowRows = {}
  ELSE Cardinality(SlowRows) <= MaxSlow + Cardinality(Workers) - 1

\* Slow tasks leave MinFreeSlotsForFast slots alone, however many fast tasks come
\* and go between their admissions.
FastReserve ==
  IF MinFree >= MaxTotal THEN SlowRows = {}
  ELSE Cardinality(SlowRows) <= MaxTotal - MinFree + Cardinality(Workers) - 1

\* The GPU slots, too: each device of the host of SOME worker (the last one to
\* check) carries at most one task per slot, and one more per other worker.
GPURows == {t \in DockerOccupyingRows : req[t].gpu}

GpuBound ==
  GPURows # {} =>
    \E w \in Workers :
      LET cap == HostGPUSlotCapacity(HostGPUIDs[w])
      IN  /\ DOMAIN cap # {}
          /\ \A d \in DOMAIN cap :
               Cardinality(GPURows) <= cap[d] + Cardinality(Workers) - 1

\* With one worker: a task that wants no GPU is not refused for want of GPUs.
\* CheckDockerGPUOccupancy would refuse it, too, if the tasks that occupy a slot took
\* more than the host has; so does a host without gpu_ids whose neighbour has some.
OnlyGpuRefused ==
  [][\A w \in Workers : pc[w] = "gpu" /\ pc'[w] = "reject" => req[cur[w]].gpu]_vars

\* Two workers never hold the same task (ClaimNext with SKIP LOCKED, and no path
\* that puts a row back which somebody still works on).
ExclusiveClaim ==
  \A v, w \in Workers : v # w /\ cur[v] # NoTask => cur[v] # cur[w]

\* A task's container is created at most once, and never before the row was
\* admitted: Run always starts from nothing, whatever crashed or was retried.
LaunchFresh ==
  \A w \in Workers : pc[w] = "create" => container[cur[w]] = "none"

\* The audit trail agrees with the requests: a stop recorded as ok has
\* succeeded, one recorded as failed has not, and no sweeper, reconciler or
\* other stop ever rewrites the row of a stop request.
AuditAgrees ==
  \A s \in TaskIds :
    /\ stopRecord[s] = "ok" => status[s] = "succeeded"
    /\ stopRecord[s] = "failed" => status[s] \in {"failed", "processing"}

\* The reaper stops only containers of finished tasks.  It reads a row's status
\* once, when it lists it, and acts minutes later; that is sound because a row
\* with a ref that is final stays final.
ReaperSpares ==
  [][\A w \in Processes, t \in TaskIds :
       reap[w][t] = "stop" /\ reap'[w][t] = "clear" => status[t] \in Terminal]_vars

\* A row that was admitted is never queued again: every writer that works from
\* an old copy of the row writes a status at or after running.
NoRequeue ==
  [][\A t \in TaskIds :
       status[t] \in SlotStatuses \cup Terminal
         => status'[t] \notin {"none", "pending", "processing"}]_vars

----------------------------------------------------------------------------
(* Safety without faults *)

\* A row in processing is in the hands of a worker that decides on it.
ProcessingHeld ==
  \A t \in TaskIds : status[t] = "processing" =>
    \E w \in Workers : cur[w] = t /\ pc[w] \in Deciding \cup Stopping

\* With one worker: a container that is alive is accounted for, by a row that
\* occupies a slot or by the worker that is starting it.
ContainersAccounted ==
  \A t \in TaskIds : Alive(t) =>
    t \in SlotRows \/ \E w \in Workers : cur[w] = t /\ pc[w] \in Starting

\* With one worker: a stop request recorded as ok leaves no container behind.
StopEffective ==
  \A s \in TaskIds : stopRecord[s] = "ok" => ~Alive(req[s].target)

\* With one worker: when the clone a restart has queued behind its stop request
\* is started, the container of the task it replaces is gone.  The comment of
\* RestartStartWorkload warns of several workers.
RestartReplaces ==
  \A r \in restarts :
    r.clone # NoTask /\ Alive(r.clone) => ~Alive(req[r.stop].target)

----------------------------------------------------------------------------
(* Progress, without faults *)

\* No orphan lives on: with the reaper running, a container whose task is final
\* and still has its ref is removed, whatever races left it behind.
OrphansReaped ==
  \A t \in TaskIds :
    status[t] \in Terminal /\ runtimeRef[t] /\ Alive(t) ~> ~Alive(t)
=============================================================================
