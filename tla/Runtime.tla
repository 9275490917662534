------------------------------ MODULE Runtime ------------------------------
(***************************************************************************)
(* What the providers do (internal/provider): the containers the Docker    *)
(* engine keeps for docker tasks, and the k8s stub, which keeps nothing.   *)
(* A container is named mp-sched-<task_id>, so a task has at most one; the *)
(* workers, the reconciler and the sweepers reach it only through the      *)
(* runtime_ref of some copy of the task's row, possibly an old copy.       *)
(***************************************************************************)
EXTENDS TaskTable

CONSTANTS
  AutoRemove,   \* may a task ask for business.auto_remove: the engine deletes its
                \* container when that ends
  Faults        \* which of "crash", "db" and "engine" can happen

ASSUME RuntimeAssumption ==
  /\ AutoRemove \in BOOLEAN
  /\ Faults \subseteq {"crash", "db", "engine"}

VARIABLE container    \* container[t]: the container of task t

ContainerState ==
  {"none", "created", "running", "exited0", "exitedN", "removed"}

RuntimeInit == container = [t \in TaskIds |-> "none"]

RuntimeTypeOK == container \in [TaskIds -> ContainerState]

SetContainer(t, s) == container' = [container EXCEPT ![t] = s]

Alive(t) == container[t] \in {"created", "running"}

----------------------------------------------------------------------------
\* The k8s provider is a stub: its checks pass, Run makes up a ref, Status knows
\* nothing of any task and Stop does nothing.
Stubbed(t) == req[t].provider = "k8s"

\* May ResourceCheck refuse the task?  The docker provider may: the engine does not
\* answer, the business payload is not sound, the task asks for more than the host
\* has.  Which of it is the case is open.
Refusable(t) == ~Stubbed(t)

\* May Run find no container to create?  The image cannot be pulled, the config
\* file not be fetched.
Unbuildable(t) == ~Stubbed(t)

\* Status, for a copy of row t whose runtime_ref is non-empty (ref) or not.
\* A container the engine no longer has counts as failed, whatever it exited with.
Phase(t, ref) ==
  IF ~ref \/ Stubbed(t) THEN "unknown"
  ELSE IF Alive(t) THEN "running"
  ELSE IF container[t] = "exited0" THEN "succeeded"
  ELSE "failed"

\* Stop(copy) answers nil: without a ref, or on k8s, nothing is done;
\* otherwise the container is gone.
StopOK(t, ref) ==
  IF ref /\ ~Stubbed(t)
  THEN SetContainer(t, "removed")
  ELSE UNCHANGED container

\* Stop(copy) answers an error, that of the removal; one of the stop before it is
\* swallowed.  Either call may have had its effect all the same.
StopError(t, ref) ==
  /\ "engine" \in Faults
  /\ ref /\ ~Stubbed(t)
  /\ \/ UNCHANGED container
     \/ Alive(t) /\ SetContainer(t, "exitedN")
     \/ SetContainer(t, "removed")

\* The workload of task t ends by itself.
ContainerExit(t) ==
  /\ container[t] = "running"
  /\ \E s \in {"exited0", "exitedN"} \cup IF AutoRemove THEN {"removed"} ELSE {} :
       SetContainer(t, s)
=============================================================================
