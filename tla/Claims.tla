------------------------------- MODULE Claims ------------------------------
(***************************************************************************)
(* What comments, documents and tests of the repository say of the         *)
(* scheduler and the code does not keep in general.  Each is refuted by a  *)
(* run of its own; README tells each counterexample.  With one worker and  *)
(* without faults, all three hold (SlotProofs, AuditProofs).               *)
(***************************************************************************)
EXTENDS Scheduler

\* admit.go:21: the rows that occupy a slot never exceed MaxConcurrentRunning.
\* Refuted with two workers: both count before either admits.
GlobalCap == Cardinality(SlotRows) <= MaxTotal

\* ARCHITECTURE.md:97: a stop request stops the workload it names (what StopEffective
\* says, of any number of workers).  Refuted with two workers: the target is admitted,
\* its runtime_ref is not written yet, so Stop does nothing and succeeds; then the
\* other worker's Run goes on.
StopRequestStops ==
  \A s \in TaskIds : stopRecord[s] = "ok" => ~Alive(req[s].target)

\* CONFIG.md:125: a device listed n times carries at most n concurrent tasks.
\* Refuted with one worker: its process dies after the start of a container and
\* before UpdateRuntime; the admitted sweeper fails the row, which has no ref by
\* which anybody would find the container, and its slot is given away.
DeviceCap ==
  \A w \in Workers :
    LET cap  == HostGPUSlotCapacity(HostGPUIDs[w])
        live == {t \in TaskIds : container[t] = "running" /\ req[t].gpu}
    IN  \A d \in DOMAIN cap : Cardinality(live) <= cap[d]
=============================================================================
