------------------------------- MODULE Worker ------------------------------
(***************************************************************************)
(* The claim loop of an mp-worker process (internal/worker/runner.go) and  *)
(* the pipeline it drives (internal/pipeline/pipeline.go): claim the       *)
(* oldest pending row, then start the workload or carry out the stop       *)
(* request.  A process runs one claim loop, any number of processes share  *)
(* the table.                                                              *)
(*                                                                         *)
(* pc[w] names the statement or provider call process w makes next; what w *)
(* has read and not used yet is in total[w] and seenRef[w].  Statements    *)
(* that only re-read columns nobody else can have changed are merged with  *)
(* the step before them (see README).                                      *)
(***************************************************************************)
EXTENDS Admission, Runtime, GpuSlots

CONSTANTS
  Workers,            \* the mp-worker processes
  AllowedProviders,   \* worker.allowed_providers of each process; {} means all
  HostGPUIDs          \* docker.host_resources.gpu_ids of each process

ASSUME WorkerAssumption ==
  /\ IsFiniteSet(Workers) /\ Workers # {}
  /\ AllowedProviders \in [Workers -> SUBSET {"docker", "k8s"}]
  /\ DOMAIN HostGPUIDs = Workers
  /\ \A w \in Workers : /\ Len(HostGPUIDs[w]) \in Nat
                        /\ DOMAIN HostGPUIDs[w] = 1 .. Len(HostGPUIDs[w])

VARIABLES
  pc,         \* pc[w]: the next step of w
  cur,        \* cur[w]: the task w holds
  total,      \* total[w]: the slot count w read in its admission transaction
  seenRef     \* seenRef[w]: had w's copy of the stop target a runtime_ref?

workerVars == <<pc, cur, total, seenRef>>

----------------------------------------------------------------------------
\* The steps of a start between the claim and the end of the admission
\* transaction; those after it; those of a stop request.
Deciding == {"count", "policy", "gpu", "cas", "reject"}
Starting == {"check", "create", "start", "record", "fail"}
Auditing == {"audit", "auditfail"}
Stopping == {"target", "stop", "mark", "finish", "failstop"} \cup Auditing

WorkerInit ==
  /\ pc = [w \in Workers |-> "idle"]
  /\ cur = [w \in Workers |-> NoTask]
  /\ total = [w \in Workers |-> 0]
  /\ seenRef = [w \in Workers |-> FALSE]

WorkerTypeOK ==
  /\ pc \in [Workers -> {"idle", "claim"} \cup Deciding \cup Starting \cup Stopping]
  /\ cur \in [Workers -> TaskIds \cup {NoTask}]
  /\ total \in [Workers -> Nat]
  /\ seenRef \in [Workers -> BOOLEAN]

Goto(w, step) == pc' = [pc EXCEPT ![w] = step]

\* Dispatch returns: w forgets what it read.
Return(w) ==
  /\ Goto(w, "idle")
  /\ cur' = [cur EXCEPT ![w] = NoTask]
  /\ total' = [total EXCEPT ![w] = 0]
  /\ seenRef' = [seenRef EXCEPT ![w] = FALSE]

Keep(w) == UNCHANGED <<cur, total, seenRef>>

----------------------------------------------------------------------------
(* ClaimNext: lock the oldest pending row no other transaction has locked, *)
(* then mark it processing and commit.                                     *)

\* Mutant: the lock of another transaction is not skipped.
ClaimableLocked(w) ==
  {t \in TaskIds :
     /\ status[t] = "pending"
     /\ AllowedProviders[w] = {} \/ req[t].provider \in AllowedProviders[w]}

Claimable(w) ==
  {t \in TaskIds :
     /\ status[t] = "pending"
     /\ AllowedProviders[w] = {} \/ req[t].provider \in AllowedProviders[w]
     /\ ~ \E v \in Workers : pc[v] = "claim" /\ cur[v] = t}

\* Mutant: the youngest row first.
ClaimYoungest(w) ==
  /\ pc[w] = "idle"
  /\ \E t \in Claimable(w) :
       /\ \A u \in Claimable(w) : t >= u
       /\ cur' = [cur EXCEPT ![w] = t]
  /\ Goto(w, "claim")
  /\ UNCHANGED <<total, seenRef, tableVars, container>>

ClaimLock(w) ==
  /\ pc[w] = "idle"
  /\ \E t \in Claimable(w) :
       /\ \A u \in Claimable(w) : t <= u
       /\ cur' = [cur EXCEPT ![w] = t]
  /\ Goto(w, "claim")
  /\ UNCHANGED <<total, seenRef, tableVars, container>>

ClaimCommit(w) ==
  /\ pc[w] = "claim"
  /\ TrySetStatus(cur[w], "pending", "processing")
  /\ Goto(w, IF IsStart(cur[w]) THEN "count" ELSE "target")
  /\ Keep(w)
  /\ UNCHANGED container

----------------------------------------------------------------------------
(* executeStart: the admission transaction.  Each query sees what is       *)
(* committed when it runs.                                                 *)

\* Mutant: admitted rows, whose Run is under way, are not counted.
CountRunning(w) ==
  /\ pc[w] = "count"
  /\ total' = [total EXCEPT ![w] = Cardinality({t \in SlotRows : status[t] = "running"})]
  /\ Goto(w, "policy")
  /\ UNCHANGED <<cur, seenRef, tableVars, container>>

CountTotal(w) ==
  /\ pc[w] = "count"
  /\ total' = [total EXCEPT ![w] = Cardinality(SlotRows)]
  /\ Goto(w, "policy")
  /\ UNCHANGED <<cur, seenRef, tableVars, container>>

ApplyPolicy(w) ==
  /\ pc[w] = "policy"
  /\ Goto(w, IF Admit(req[cur[w]], total[w], Cardinality(SlowRows))
             THEN IF req[cur[w]].provider = "docker" THEN "gpu" ELSE "cas"
             ELSE "reject")
  /\ Keep(w)
  /\ UNCHANGED <<tableVars, container>>

\* Mutant: the candidate itself is left out.
CheckGPUOfOthers(w) ==
  /\ pc[w] = "gpu"
  /\ LET wants == {t \in DockerOccupyingRows : req[t].gpu}
     IN  Goto(w, IF GPUOccupancyOK(wants, HostGPUIDs[w]) THEN "cas" ELSE "reject")
  /\ Keep(w)
  /\ UNCHANGED <<tableVars, container>>

\* Mutant: the candidate is counted whatever it asks for.
CheckGPUOfAny(w) ==
  /\ pc[w] = "gpu"
  /\ LET wants == {t \in DockerOccupyingRows : req[t].gpu} \cup {cur[w]}
     IN  Goto(w, IF GPUOccupancyOK(wants, HostGPUIDs[w]) THEN "cas" ELSE "reject")
  /\ Keep(w)
  /\ UNCHANGED <<tableVars, container>>

CheckGPU(w) ==
  /\ pc[w] = "gpu"
  /\ LET wants == {t \in DockerOccupyingRows \cup {cur[w]} : req[t].gpu}
     IN  Goto(w, IF GPUOccupancyOK(wants, HostGPUIDs[w]) THEN "cas" ELSE "reject")
  /\ Keep(w)
  /\ UNCHANGED <<tableVars, container>>

CommitAdmission(w) ==
  /\ pc[w] = "cas"
  /\ TrySetStatus(cur[w], "processing", "admitted")
  /\ Goto(w, "check")
  /\ Keep(w)
  /\ UNCHANGED container

\* Mutant: a refused row is not put back.
ForgetRefused(w) ==
  /\ pc[w] = "reject"
  /\ Return(w)
  /\ UNCHANGED <<tableVars, container>>

\* ErrNotAdmitted: the row goes back to the queue, at its old place.
ResetToPending(w) ==
  /\ pc[w] = "reject"
  /\ TrySetStatus(cur[w], "processing", "pending")
  /\ Return(w)
  /\ UNCHANGED container

----------------------------------------------------------------------------
(* executeStart: after the transaction.  The row may be written by others  *)
(* from here on.                                                           *)

\* The provider finds the task runnable on this host, or refuses it.
ResourceCheck(w) ==
  /\ pc[w] = "check"
  /\ \/ Goto(w, "create")
     \/ Refusable(cur[w]) /\ Goto(w, "fail")
  /\ Keep(w)
  /\ UNCHANGED <<tableVars, container>>

\* Run, first half.  A create that reports an error may have had its effect.
CreateContainer(w) ==
  /\ pc[w] = "create"
  /\ \/ Stubbed(cur[w]) /\ Goto(w, "record") /\ UNCHANGED container
     \/ ~Stubbed(cur[w]) /\ Goto(w, "start") /\ SetContainer(cur[w], "created")
     \/ Unbuildable(cur[w]) /\ Goto(w, "fail") /\ UNCHANGED container
     \/ /\ "engine" \in Faults /\ ~Stubbed(cur[w])
        /\ Goto(w, "fail")
        /\ UNCHANGED container \/ SetContainer(cur[w], "created")
  /\ Keep(w)
  /\ UNCHANGED tableVars

\* Run, second half.  When the start reports an error the container is removed,
\* but an error of the removal is ignored: what is left may not have started,
\* or may run (the call was cancelled after the engine had acted on it).
StartContainer(w) ==
  /\ pc[w] = "start"
  /\ \/ /\ SetContainer(cur[w], "running")
        /\ Goto(w, "record")
     \/ /\ "engine" \in Faults
        /\ \E left \in {"removed", "created", "running"} : SetContainer(cur[w], left)
        /\ Goto(w, "fail")
  /\ Keep(w)
  /\ UNCHANGED tableVars

RecordRunning(w) ==
  /\ pc[w] = "record"
  /\ UpdateRuntime(cur[w])
  /\ Return(w)
  /\ UNCHANGED container

FailStart(w) ==
  /\ pc[w] = "fail"
  /\ UpdateStatus(cur[w], "failed")
  /\ Return(w)
  /\ UNCHANGED container

----------------------------------------------------------------------------
(* executeStop.  Target is the row as it was when it was read; the step    *)
(* that stops it and the one that marks it come later, and neither looks   *)
(* at the row again.                                                       *)

Target(w) == req[cur[w]].target

\* Mutant: the status of the target is not looked at.
StoppableAnyStatus(w) ==
  /\ Target(w) \in Rows /\ IsStart(Target(w))
  /\ req[Target(w)].provider = req[cur[w]].provider

\* The request names an existing start task of the same provider that is
\* admitted or running; otherwise it fails.
Stoppable(w) ==
  Target(w) \in SlotRows /\ req[Target(w)].provider = req[cur[w]].provider

\* Mutant: the runtime_ref of the target is not read.
ReadTargetWithoutRef(w) ==
  /\ pc[w] = "target"
  /\ Goto(w, IF Stoppable(w) THEN "stop" ELSE "failstop")
  /\ UNCHANGED <<cur, total, seenRef, tableVars, container>>

ReadTarget(w) ==
  /\ pc[w] = "target"
  /\ \/ /\ Stoppable(w)
        /\ seenRef' = [seenRef EXCEPT ![w] = runtimeRef[Target(w)]]
        /\ Goto(w, "stop")
     \/ /\ ~Stoppable(w)
        /\ Goto(w, "failstop")
        /\ UNCHANGED seenRef
  /\ UNCHANGED <<cur, total, tableVars, container>>

\* Stop, then the last lines of the container's log are collected, which
\* changes no state kept here but takes its time.
StopTarget(w) ==
  /\ pc[w] = "stop"
  /\ \/ StopOK(Target(w), seenRef[w]) /\ Goto(w, "mark")
     \/ StopError(Target(w), seenRef[w]) /\ Goto(w, "failstop")
  /\ Keep(w)
  /\ UNCHANGED tableVars

MarkStopped(w) ==
  /\ pc[w] = "mark"
  /\ UpdateStatus(Target(w), "stopped")
  /\ Goto(w, "finish")
  /\ Keep(w)
  /\ UNCHANGED container

FinishStop(w) ==
  /\ pc[w] = "finish"
  /\ UpdateStatus(cur[w], "succeeded")
  /\ Goto(w, "audit")
  /\ Keep(w)
  /\ UNCHANGED container

FailStop(w) ==
  /\ pc[w] = "failstop"
  /\ UpdateStatus(cur[w], "failed")
  /\ Goto(w, "auditfail")
  /\ Keep(w)
  /\ UNCHANGED container

\* Mutant: a stop whose failure could not be written counts as ok.
WriteLenientRecord(w) ==
  /\ pc[w] \in Auditing
  /\ CreateStopRecord(cur[w], pc[w] = "audit" \/ status[cur[w]] # "failed")
  /\ Return(w)
  /\ UNCHANGED container

\* writeStopRec: ok is a literal of the path taken, whatever the row says.
WriteStopRecord(w) ==
  /\ pc[w] \in Auditing
  /\ CreateStopRecord(cur[w], pc[w] = "audit")
  /\ Return(w)
  /\ UNCHANGED container

----------------------------------------------------------------------------
(* What goes wrong. *)

\* A statement of w fails.  Up to the end of the admission transaction, and on
\* ResetToPending, the loop merely logs: the row stays as it is.  The errors of the
\* writes of a final status are ignored.  For a stop request, the read of its own
\* row counts to the first kind, that of its target does not.
StatementFails(w) ==
  /\ pc[w] \notin {"idle", "create", "start", "stop"}
  /\ \/ pc[w] \notin {"mark", "failstop"} /\ Return(w)
     \/ pc[w] \in {"target", "mark"} /\ Goto(w, "failstop") /\ Keep(w)
     \/ pc[w] = "failstop" /\ Goto(w, "auditfail") /\ Keep(w)
  /\ UNCHANGED <<tableVars, container>>

\* A write of w is done and reported as failed (its answer is lost).  The other writes
\* go on the same way whatever is reported: those are steps of WorkerStep.
AnswerLost(w) ==
  /\ \/ pc[w] = "claim" /\ TrySetStatus(cur[w], "pending", "processing") /\ Return(w)
     \/ pc[w] = "cas" /\ TrySetStatus(cur[w], "processing", "admitted") /\ Return(w)
     \/ pc[w] = "finish" /\ UpdateStatus(cur[w], "succeeded") /\ Return(w)
     \/ /\ pc[w] = "mark"
        /\ UpdateStatus(Target(w), "stopped")
        /\ Goto(w, "failstop") /\ Keep(w)
  /\ UNCHANGED container

DbError(w) == "db" \in Faults /\ (StatementFails(w) \/ AnswerLost(w))

\* The process dies between two steps, and is started again.  Nothing recovers
\* the row it held; a claim that was not committed is rolled back.
CrashWorker(w) ==
  /\ "crash" \in Faults
  /\ Return(w)
  /\ UNCHANGED <<tableVars, container>>

----------------------------------------------------------------------------
WorkerStep(w) ==
  \/ ClaimLock(w)     \/ ClaimCommit(w)
  \/ CountTotal(w)    \/ ApplyPolicy(w)      \/ CheckGPU(w)
  \/ CommitAdmission(w)                      \/ ResetToPending(w)
  \/ ResourceCheck(w) \/ CreateContainer(w)  \/ StartContainer(w)
  \/ RecordRunning(w) \/ FailStart(w)
  \/ ReadTarget(w)    \/ StopTarget(w)       \/ MarkStopped(w)
  \/ FinishStop(w)    \/ FailStop(w)         \/ WriteStopRecord(w)
=============================================================================
