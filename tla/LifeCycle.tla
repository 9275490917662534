----------------------------- MODULE LifeCycle -----------------------------
(***************************************************************************)
(* What a client of the scheduler may rely on, of one request: the life of *)
(* a row, without workers, sweepers, copies and statements.                *)
(*                                                                         *)
(* A stop request is queued, then over.  A start request is queued, then   *)
(* launching: admitted, and in the hands of the worker that runs it.  Once *)
(* that worker has let go of it, it is live, or over for good.  Between    *)
(* launching and over the row may say admitted, running, failed or stopped *)
(* and any of them again; the stages never go back.  A request gets a      *)
(* container only while it is launching, and never a second one.           *)
(***************************************************************************)
VARIABLES
  kind,     \* "none", "start" or "stop"
  stage,    \* "absent", "queued", "launching", "live" or "over"
  vm        \* its container: "none", "up" or "gone"

vars == <<kind, stage, vm>>

Init == kind = "none" /\ stage = "absent" /\ vm = "none"

Enter(from, to) == stage = from /\ stage' = to

\* The client's request is queued.
Submit == Enter("absent", "queued") /\ kind' \in {"start", "stop"} /\ UNCHANGED vm

\* A stop request has been answered.
Answer == kind = "stop" /\ Enter("queued", "over") /\ UNCHANGED <<kind, vm>>

\* A start request is granted a slot, and then let go of by its worker; at once, if the
\* worker does not learn of the grant.
Admit ==
  /\ kind = "start"
  /\ Enter("queued", "launching") \/ Enter("queued", "live")
  /\ UNCHANGED <<kind, vm>>
LetGo ==
  /\ Enter("launching", "live") \/ Enter("launching", "over")
  /\ UNCHANGED <<kind, vm>>

\* Somebody has seen, or brought about, the end of a live workload.
End == Enter("live", "over") /\ UNCHANGED <<kind, vm>>

Launch == stage = "launching" /\ vm = "none" /\ vm' = "up" /\ UNCHANGED <<kind, stage>>

\* The container ends or is removed, whatever the row says of it.
Vanish ==
  /\ stage \in {"launching", "live", "over"}
  /\ vm' = "gone"
  /\ UNCHANGED <<kind, stage>>

Next == Submit \/ Answer \/ Admit \/ LetGo \/ End \/ Launch \/ Vanish

Spec == Init /\ [][Next]_vars
=============================================================================
