------------------------------- MODULE GpuHost ------------------------------
(***************************************************************************)
(* GPU accounting against what it stands for.  A host lists its device     *)
(* ids; tasks that want a GPU come, are let in by the check of the         *)
(* admission transaction, and leave.  One host, one worker: what a race of *)
(* two admissions does is the business of Scheduler.                       *)
(***************************************************************************)
EXTENDS GpuSlots

CONSTANTS
  Ids,         \* the ids an operator may write, Blank among them
  MaxEntries,  \* bound: the longest gpu_ids
  GpuTasks     \* bound: the tasks that want a GPU

ASSUME GpuHostAssumption == MaxEntries \in Nat /\ IsFiniteSet(GpuTasks)

VARIABLES
  ids,     \* docker.host_resources.gpu_ids
  held     \* the tasks that occupy a slot

HostInit ==
  /\ ids \in UNION {[1 .. n -> Ids] : n \in 0 .. MaxEntries}
  /\ held = {}

Enter(t) ==
  /\ t \notin held
  /\ GPUOccupancyOK(held \cup {t}, ids)
  /\ held' = held \cup {t}
  /\ UNCHANGED ids

Leave(t) ==
  /\ t \in held
  /\ held' = held \ {t}
  /\ UNCHANGED ids

HostNext == \E t \in GpuTasks : Enter(t) \/ Leave(t)

HostSpec == HostInit /\ [][HostNext]_<<ids, held>>

----------------------------------------------------------------------------
\* Can each of the tasks be given, of every device, an entry of gpu_ids of its own?
Placeable(tasks) ==
  /\ Devices(ids) # {}
  /\ \A d \in Devices(ids) :
       LET entries == {i \in DOMAIN ids : ids[i] = d}
       IN  \E place \in [tasks -> entries] :
             \A s, t \in tasks : place[s] = place[t] => s = t

\* The per-device counting of CheckDockerGPUOccupancyWithCandidate lets a task in
\* exactly when it and the tasks already there can be placed on separate entries.
LetsInWhatFits ==
  \A t \in GpuTasks \ held : GPUOccupancyOK(held \cup {t}, ids) <=> Placeable(held \cup {t})

\* ResolveNVIDIADeviceIDsForAttach gives a container every device of the host, no
\* device twice and no blank id, in the order of their first entries: as CONFIG.md:125
\* and ARCHITECTURE.md:138 have it, while ARCHITECTURE.md:145 still says that the ids
\* sent to Docker may contain repetitions.
AttachesEachDeviceOnce ==
  LET attach == ResolveNVIDIADeviceIDsForAttach(ids)
      First(d) == CHOOSE i \in DOMAIN ids : ids[i] = d /\ \A j \in 1 .. i - 1 : ids[j] # d
  IN  /\ {attach[n] : n \in DOMAIN attach} = Devices(ids)
      /\ \A m, n \in DOMAIN attach : m < n => First(attach[m]) < First(attach[n])

\* RemainingGPUSlots shows a slot left on every device exactly when one more task
\* is let in: what is reported and what is decided do not drift apart.
RemainingPredictsEntry ==
  LET left == RemainingGPUSlots(HostGPUSlotCapacity(ids), SumTaskGPUNeeds(held, ids))
  IN  \A t \in GpuTasks \ held :
        GPUOccupancyOK(held \cup {t}, ids)
          <=> DOMAIN left # {} /\ \A d \in DOMAIN left : left[d] > 0
=============================================================================
