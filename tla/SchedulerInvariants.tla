------------------------- MODULE SchedulerInvariants -----------------------
(***************************************************************************)
(* The inductive strengthenings behind the theorems of OwnershipProofs,    *)
(* SlotProofs, AuditProofs, CallbackProofs and LogCollectionProofs.        *)
(***************************************************************************)
EXTENDS Scheduler

----------------------------------------------------------------------------
(* Who may still write what.  A row goes through the queue once: from      *)
(* pending and processing, which only its claimant writes, to Past.        *)

Past == SlotStatuses \cup Terminal

\* Row t is past the queue and nobody is starting it: from here on it can only
\* become final.  Every copy of a row that has a runtime_ref is of such a row.
Settled(t) ==
  /\ status[t] \in Past
  /\ IsStart(t)
  /\ \A w \in Workers : ~(cur[w] = t /\ pc[w] \in Starting)

\* Final and Settled rows stay both.
Finished(t) == Settled(t) /\ status[t] \in Terminal

RestartsKnown ==
  \A r \in restarts : status[r.stop] # "none" /\ req[r.stop].target \in TaskIds

\* A worker's step tells the state of the row it holds.
HoldsTaskOf(w) ==
  /\ pc[w] = "idle" <=> cur[w] = NoTask
  /\ pc[w] = "claim" => status[cur[w]] = "pending"
  /\ pc[w] \in Deciding => status[cur[w]] = "processing" /\ IsStart(cur[w])
  /\ pc[w] \in Starting => status[cur[w]] \in Past /\ IsStart(cur[w])
  /\ pc[w] \in Stopping => ~IsStart(cur[w])
  /\ pc[w] \in Stopping \ Auditing => status[cur[w]] = "processing"
  /\ pc[w] = "audit" => status[cur[w]] = "succeeded"
  /\ pc[w] = "auditfail" => status[cur[w]] \in {"processing", "failed"}

HoldsTask == \A w \in Workers : HoldsTaskOf(w)

\* What a stop has read of its target, and what the background loops have
\* listed, is about rows past the queue; with a ref, about settled ones.
HoldsTargetOf(w) ==
  /\ pc[w] \in {"stop", "mark"} =>
       /\ Target(w) \in TaskIds
       /\ status[Target(w)] \in Past
       /\ IsStart(Target(w))
  /\ pc[w] = "stop" /\ seenRef[w] => Settled(Target(w))

HoldsTarget == \A w \in Workers : HoldsTargetOf(w)

CopiesSettled ==
  /\ \A t \in TaskIds : runtimeRef[t] => Settled(t)
  /\ \A w \in Processes :
       /\ \A t \in overdue[w] \cup listed[w] : Settled(t)
       /\ sweepPc[w] # "stop" => sweepItem[w] \in TaskIds /\ Settled(sweepItem[w])
       /\ verdict[w] # NoVerdict => Settled(verdict[w].task)
       /\ \A t \in TaskIds : reap[w][t] # "none" => Finished(t)

\* Containers belong to rows past the queue, and Run has not begun before create.
HasNoContainer(w) == pc[w] \in {"check", "create"} => container[cur[w]] = "none"

ContainersFresh ==
  /\ \A t \in TaskIds : container[t] # "none" => status[t] \in Past
  /\ \A w \in Workers : HasNoContainer(w)

OwnInv ==
  /\ TypeOK
  /\ RestartsKnown
  /\ ExclusiveClaim
  /\ HoldsTask
  /\ HoldsTarget
  /\ CopiesSettled
  /\ ContainersFresh

----------------------------------------------------------------------------
(* The slots that are taken or promised: a worker that has counted fewer   *)
(* rows than the cap may still turn its task into a row that occupies one, *)
(* up to the moment its Run is over.                                       *)

Granted ==
  {w \in Workers : \/ pc[w] = "policy" /\ total[w] < MaxTotal
                   \/ pc[w] \in {"gpu", "cas"} \cup (Starting \ {"fail"})}

Committed == SlotRows \cup {cur[w] : w \in Granted}

SlotInv == Cardinality(Committed) <= MaxTotal + Cardinality(Workers) - 1

----------------------------------------------------------------------------
(* The same of slow tasks.  The slow cap is compared with the slow rows    *)
(* there are when the policy is applied; the reserve for fast tasks with   *)
(* all rows there were at the count before.                                *)

IsSlow(t) == req[t].class = "slow"

Promised == {w \in Workers : pc[w] \in {"gpu", "cas"} \cup (Starting \ {"fail"})}

SlowPromised == {w \in Promised : IsSlow(cur[w])}

SlowLimit == MaxTotal - MinFree

FastGranted ==
  SlowPromised \cup {w \in Workers : pc[w] = "policy" /\ IsSlow(cur[w]) /\ total[w] < SlowLimit}

SlowCommitted == SlowRows \cup {cur[w] : w \in SlowPromised}
FastCommitted == SlowRows \cup {cur[w] : w \in FastGranted}

SlowInv ==
  IF MaxSlow = 0 THEN SlowCommitted = {}
  ELSE Cardinality(SlowCommitted) <= MaxSlow + Cardinality(Workers) - 1

FastInv ==
  IF SlowLimit <= 0 THEN FastCommitted = {}
  ELSE Cardinality(FastCommitted) <= SlowLimit + Cardinality(Workers) - 1

----------------------------------------------------------------------------
(* The same of the GPU slots of a host.  The last worker to have found     *)
(* room on its host is a witness for all that has been promised so far.    *)

GPUPromised ==
  {w \in Workers : /\ pc[w] \in {"cas"} \cup (Starting \ {"fail"})
                  /\ req[cur[w]].provider = "docker"
                  /\ req[cur[w]].gpu}

GPUCommitted == GPURows \cup {cur[w] : w \in GPUPromised}

RoomOn(w) ==
  LET cap == HostGPUSlotCapacity(HostGPUIDs[w])
  IN  /\ DOMAIN cap # {}
      /\ \A d \in DOMAIN cap :
           Cardinality(GPUCommitted) <= cap[d] + Cardinality(Workers) - 1

GPUInv == GPUCommitted # {} => \E w \in Workers : RoomOn(w)

----------------------------------------------------------------------------
\* The audit trail: only stop requests have a record, it agrees with the row, and by
\* the time it is there nobody works on the request any more.
Recorded(s) ==
  /\ ~IsStart(s)
  /\ \A w \in Workers : cur[w] # s
  /\ stopRecord[s] = "ok" => status[s] = "succeeded"
  /\ stopRecord[s] = "failed" => status[s] \in {"failed", "processing"}

AuditInv == \A s \in TaskIds : stopRecord[s] # "none" => Recorded(s)
----------------------------------------------------------------------------
(* Without crashes and database errors. *)

\* A row in processing is in the hands of a worker that has yet to write it.
HeldBy(w, t) == cur[w] = t /\ pc[w] \in Deciding \cup (Stopping \ Auditing)

HeldInv ==
  /\ \A t \in TaskIds : status[t] = "processing" => \E w \in Workers : HeldBy(w, t)
  /\ \A w \in Workers : pc[w] \in Auditing => status[cur[w]] # "processing"
----------------------------------------------------------------------------
(* With one worker and without faults: who has a container in hand, and    *)
(* who has seen that it is gone.                                           *)

Starts(t) == \E w \in Workers : cur[w] = t /\ pc[w] \in Starting

\* No step makes such a container live again.
Dead(t) == t \in TaskIds /\ Settled(t) /\ ~Alive(t)

ContainersKnown ==
  /\ \A w \in Workers : pc[w] = "start" => ~Stubbed(cur[w])
  /\ \A t \in TaskIds :
       /\ container[t] # "none" => ~Stubbed(t)
       /\ status[t] = "admitted" => Starts(t)
       /\ Alive(t) => runtimeRef[t] \/ Starts(t)
       /\ Alive(t) => t \in SlotRows \/ Starts(t)

LoopsSawEnd ==
  \A w \in Processes :
    /\ sweepPc[w] # "stop" => ~Alive(sweepItem[w])
    /\ verdict[w] # NoVerdict => ~Alive(verdict[w].task)
    /\ \A t \in TaskIds : reap[w][t] = "clear" => ~Alive(t)

WorkerSawEnd ==
  \A w \in Workers :
    /\ pc[w] = "fail" => ~Alive(cur[w])
    /\ pc[w] = "stop" /\ ~seenRef[w] => Dead(Target(w))
    /\ pc[w] \in {"mark", "finish", "audit"} => Dead(Target(w))

StopsDone == \A s \in TaskIds : stopRecord[s] = "ok" => Dead(req[s].target)

\* The stop request of a restart is older than the clone, and the only worker takes
\* the oldest row it may take: it is done with the stop before it takes the clone.
RestartInOrder(r) ==
  LET target == req[r.stop].target
  IN  /\ ~IsStart(r.stop) /\ IsStart(target) /\ status[target] \in Past
      /\ req[target].provider = req[r.stop].provider
      /\ \A w \in Workers : cur[w] = r.stop /\ pc[w] = "failstop" => Dead(target)
      /\ status[r.stop] \in Past => Dead(target)
      /\ r.clone # NoTask =>
           /\ r.clone > r.stop
           /\ status[r.clone] # "none"
           /\ req[r.clone].provider = req[r.stop].provider
           /\ status[r.clone] # "pending" \/ (\E w \in Workers : cur[w] = r.clone)
                => status[r.stop] \in Past

SoloInv ==
  /\ ContainersKnown
  /\ LoopsSawEnd
  /\ WorkerSawEnd
  /\ StopsDone
  /\ \A r \in restarts : RestartInOrder(r)
=============================================================================
