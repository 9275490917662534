----------------------------- MODULE Admission -----------------------------
(***************************************************************************)
(* The admission policy (internal/scheduler/admit.go): may one more task   *)
(* occupy a slot, given how many slots are occupied now?  The policy only  *)
(* reads counts; who counts, and what changes between the count and the    *)
(* write that uses it, is the business of module Worker.                   *)
(***************************************************************************)
EXTENDS Integers

CONSTANTS
  MaxConcurrentRunning,   \* scheduler.max_concurrent_running
  MaxConcurrentSlow,      \* scheduler.max_concurrent_slow
  MinFreeSlotsForFast     \* scheduler.min_free_slots_for_fast

ASSUME PolicyAssumption ==
  /\ MaxConcurrentRunning \in Int
  /\ MaxConcurrentSlow \in Int
  /\ MinFreeSlotsForFast \in Int

----------------------------------------------------------------------------
\* The limits the policy really applies: a non-positive cap becomes one slot,
\* the other two limits never go below zero.
MaxTotal == IF MaxConcurrentRunning <= 0 THEN 1 ELSE MaxConcurrentRunning
MaxSlow  == IF MaxConcurrentSlow < 0 THEN 0 ELSE MaxConcurrentSlow
MinFree  == IF MinFreeSlotsForFast < 0 THEN 0 ELSE MinFreeSlotsForFast

\* Mutants: one slow task too many; the reserve counted before the task's own slot.
SlowFitsAtCap(total, slow) == slow <= MaxSlow /\ MaxTotal - (total + 1) >= MinFree
SlowFitsOnReserve(total, slow) == slow < MaxSlow /\ MaxTotal - total >= MinFree

\* A slow task also fits under the slow cap, and the slots left once it has
\* taken its own are still enough for the fast tasks.
SlowFits(total, slow) ==
  /\ slow < MaxSlow
  /\ MaxTotal - (total + 1) >= MinFree

\* Mutants: one task too many; the last slot never given away.
AdmitAtCap(request, total, slow) ==
  \/ request.op = "stop"
  \/ total <= MaxTotal /\ (request.class = "slow" => SlowFits(total, slow))
AdmitBelowCap(request, total, slow) ==
  \/ request.op = "stop"
  \/ total + 1 < MaxTotal /\ (request.class = "slow" => SlowFits(total, slow))

\* A stop request occupies no slot and always passes.
Admit(request, total, slow) ==
  \/ request.op = "stop"
  \/ /\ total < MaxTotal
     /\ request.class = "slow" => SlowFits(total, slow)
=============================================================================
