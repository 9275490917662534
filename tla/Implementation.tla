--------------------------- MODULE Implementation --------------------------
(***************************************************************************)
(* Module Scheduler implements module LifeCycle, for every task at once:   *)
(* the refinement mapping.                                                 *)
(***************************************************************************)
EXTENDS SchedulerInvariants

Launching(t) == \E w \in Workers : cur[w] = t /\ pc[w] \in Starting

KindOf(t) ==
  IF status[t] = "none" THEN "none" ELSE IF IsStart(t) THEN "start" ELSE "stop"

StageOf(t) ==
  CASE status[t] = "none"                      -> "absent"
    [] status[t] \in {"pending", "processing"} -> "queued"
    [] status[t] \in Past /\ Launching(t)      -> "launching"
    [] status[t] \in SlotStatuses /\ ~Launching(t) -> "live"
    [] status[t] \in Terminal /\ ~Launching(t) -> "over"

VmOf(t) ==
  IF container[t] = "none" THEN "none" ELSE IF Alive(t) THEN "up" ELSE "gone"

Life(t) == INSTANCE LifeCycle WITH
  kind <- KindOf(t), stage <- StageOf(t), vm <- VmOf(t)

\* Every row lives the life LifeCycle promises, whatever the claim loops, sweepers,
\* reconcilers, reapers and stop requests do to it from old copies of it, and
\* whatever fails: Life(t)!Spec for every t.  In particular an end that is written
\* once nobody starts the task any more is final, and no task is launched twice.
LivesAsPromised ==
  /\ \A t \in TaskIds : Life(t)!Init
  /\ [][\A t \in TaskIds : [Life(t)!Next]_(Life(t)!vars)]_vars

\* What the proof needs besides OwnInv: a worker starts the container it has created,
\* which nobody has touched in between.
StartsCreated == \A w \in Workers : pc[w] = "start" => container[cur[w]] = "created"

LifeInv == OwnInv /\ StartsCreated
=============================================================================
