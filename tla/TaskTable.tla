----------------------------- MODULE TaskTable -----------------------------
(***************************************************************************)
(* The database the two kinds of process share (internal/taskrepo,         *)
(* internal/model, internal/recordrepo): the rows of table tasks and, per  *)
(* stop request, what table stop_records says of it.  Nothing else links   *)
(* the processes.  Each operator below is one SQL statement; PostgreSQL    *)
(* runs a statement atomically and, under READ COMMITTED, lets each        *)
(* statement of a transaction see the rows committed so far.               *)
(*                                                                         *)
(* A task id stands for the key (created_at, task_id) rows are ordered by, *)
(* so the smallest id is the oldest row.  Ids are taken in any order: two  *)
(* requests may commit in another order than they read the clock.          *)
(***************************************************************************)
EXTENDS Integers, FiniteSets

CONSTANT TaskIds          \* the rows that may ever be inserted

ASSUME TaskAssumption == IsFiniteSet(TaskIds) /\ TaskIds \subseteq Nat \ {0}

VARIABLES
  status,       \* status[t], "none" while the row does not exist
  req,          \* req[t]: the columns no statement changes after the insert
  runtimeRef,   \* runtimeRef[t]: is runtime_ref non-empty?
  stopRecord    \* stopRecord[t]: the audit row of stop request t

tableVars == <<status, req, runtimeRef, stopRecord>>

----------------------------------------------------------------------------
NoTask == 0

\* A target_task_id that names no row, now or later: ids are random UUIDs.
UnknownTask == -1

SlotStatuses == {"admitted", "running"}
Terminal     == {"succeeded", "failed", "stopped"}
Status       == {"none", "pending", "processing"} \cup SlotStatuses \cup Terminal

\* op, task_class, provider, res_gpu and target_task_id of a row.  Any class
\* other than "slow" is treated alike, and "" is the class of no class.
Request == [op : {"start", "stop"}, class : {"fast", "slow", ""},
            provider : {"docker", "k8s"}, gpu : BOOLEAN,
            target : TaskIds \cup {NoTask, UnknownTask}]

\* The value req[t] has while row t does not exist; nobody reads it.
Absent == [op |-> "start", class |-> "", provider |-> "docker",
           gpu |-> FALSE, target |-> NoTask]

TableInit ==
  /\ status = [t \in TaskIds |-> "none"]
  /\ req = [t \in TaskIds |-> Absent]
  /\ runtimeRef = [t \in TaskIds |-> FALSE]
  /\ stopRecord = [t \in TaskIds |-> "none"]

TableTypeOK ==
  /\ status \in [TaskIds -> Status]
  /\ req \in [TaskIds -> Request]
  /\ runtimeRef \in [TaskIds -> BOOLEAN]
  /\ stopRecord \in [TaskIds -> {"none", "ok", "failed"}]

----------------------------------------------------------------------------
(* Queries *)

Rows == {t \in TaskIds : status[t] # "none"}

IsStart(t) == req[t].op # "stop"

\* The rows that occupy a slot, and those the slow cap and the GPU check count.
SlotRows == {t \in TaskIds : status[t] \in SlotStatuses /\ IsStart(t)}
SlowRows == {t \in SlotRows : req[t].class = "slow"}
DockerOccupyingRows == {t \in SlotRows : req[t].provider = "docker"}

\* Rows the runtime sweeper may time out.
RunningRowsWithRef ==
  {t \in TaskIds : status[t] = "running" /\ IsStart(t) /\ runtimeRef[t]}

\* Mutants: the status is not looked at; a status is forgotten.
OrphansOfAnyStatus ==
  {t \in TaskIds : IsStart(t) /\ req[t].provider = "docker" /\ runtimeRef[t]}
OrphansNotStopped ==
  {t \in OrphansOfAnyStatus : status[t] \in Terminal \ {"stopped"}}

\* Rows the orphan reaper looks at.
TerminalDockerRowsWithRef ==
  {t \in TaskIds : /\ status[t] \in Terminal
                   /\ IsStart(t)
                   /\ req[t].provider = "docker"
                   /\ runtimeRef[t]}

----------------------------------------------------------------------------
(* Statements *)

Create(t, r) ==
  /\ status[t] = "none"
  /\ status' = [status EXCEPT ![t] = "pending"]
  /\ req' = [req EXCEPT ![t] = r]
  /\ UNCHANGED <<runtimeRef, stopRecord>>

\* Whatever the row says, it now says s.
UpdateStatus(t, s) ==
  /\ status' = [status EXCEPT ![t] = s]
  /\ UNCHANGED <<req, runtimeRef, stopRecord>>

\* UPDATE ... WHERE status = from.
TrySetStatus(t, from, to) ==
  /\ status[t] = from
  /\ UpdateStatus(t, to)

UpdateRuntime(t) ==
  /\ status' = [status EXCEPT ![t] = "running"]
  /\ runtimeRef' = [runtimeRef EXCEPT ![t] = TRUE]
  /\ UNCHANGED <<req, stopRecord>>

ClearRuntimeRef(t) ==
  /\ runtimeRef' = [runtimeRef EXCEPT ![t] = FALSE]
  /\ UNCHANGED <<status, req, stopRecord>>

\* Mutant: a stuck row is queued again instead of failed.
RequeueAdmittedStuck(stuck) ==
  /\ stuck # {}
  /\ \A t \in stuck : status[t] = "admitted"
  /\ status' = [t \in TaskIds |-> IF t \in stuck THEN "pending" ELSE status[t]]
  /\ UNCHANGED <<req, runtimeRef, stopRecord>>

\* One UPDATE over every admitted row that is older than the cut; the rows'
\* ages are not part of the model, so any of them may be.
RevertAdmittedStuck(stuck) ==
  /\ stuck # {}
  /\ \A t \in stuck : status[t] = "admitted"
  /\ status' = [t \in TaskIds |-> IF t \in stuck THEN "failed" ELSE status[t]]
  /\ UNCHANGED <<req, runtimeRef, stopRecord>>

CreateStopRecord(t, ok) ==
  /\ stopRecord' = [stopRecord EXCEPT ![t] = IF ok THEN "ok" ELSE "failed"]
  /\ UNCHANGED <<status, req, runtimeRef>>
=============================================================================
