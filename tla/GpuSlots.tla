----------------------------- MODULE GpuSlots ------------------------------
(***************************************************************************)
(* GPU slot accounting of the docker provider                              *)
(* (internal/provider/docker/gpuslots.go).  host_resources.gpu_ids is a    *)
(* list in which a device id stands once per slot it offers.  A task that  *)
(* wants a GPU takes one slot of EVERY distinct device of the host that    *)
(* checks it, so accounting is per device and per checking host.           *)
(*                                                                         *)
(* Ids are abstract values; Blank stands for an id that is empty or all    *)
(* white space.  A map of counts is a function on device ids.              *)
(***************************************************************************)
EXTENDS Integers, Sequences, FiniteSets

CONSTANT Blank

\* The entries of s at the positions I, in their order.
Picked(s, I) ==
  LET Rank(i) == Cardinality({j \in I : j <= i})
  IN  [n \in 1 .. Cardinality(I) |-> s[CHOOSE i \in I : Rank(i) = n]]

\* Mutant: blank ids are kept.
KeepGPUIDList(ids) == ids

TrimGPUIDList(ids) == Picked(ids, {i \in DOMAIN ids : ids[i] # Blank})

Devices(ids) == {ids[i] : i \in DOMAIN ids} \ {Blank}

\* How many slots each device offers: the times its id is listed.
HostGPUSlotCapacity(ids) ==
  [d \in Devices(ids) |-> Cardinality({i \in DOMAIN ids : ids[i] = d})]

\* The device list a GPU container is given: each id once, in the order of
\* its first occurrence.
ResolveNVIDIADeviceIDsForAttach(ids) ==
  LET list == TrimGPUIDList(ids)
  IN  Picked(list, {i \in DOMAIN list : \A j \in 1 .. i - 1 : list[j] # list[i]})

\* Mutant: a task takes every slot of a device, not one.
TaskGPUSlotNeedAll(wantsGPU, ids) ==
  IF wantsGPU THEN HostGPUSlotCapacity(ids) ELSE << >>

\* What one task takes: nothing, or a slot of a device for every time the device
\* stands in the list it would be given.
TaskGPUSlotNeed(wantsGPU, ids) ==
  LET attach == IF wantsGPU THEN ResolveNVIDIADeviceIDsForAttach(ids) ELSE << >>
  IN  [d \in {attach[n] : n \in DOMAIN attach} |->
         Cardinality({n \in DOMAIN attach : attach[n] = d})]

\* What tasks take together, per device.  wants is the set of the tasks that ask
\* for a GPU; they all take the same.
SumTaskGPUNeeds(wants, ids) ==
  LET need == TaskGPUSlotNeed(wants # {}, ids)
  IN  [d \in DOMAIN need |-> Cardinality(wants) * need[d]]

\* Mutant: the last slot of a device is never used.
BelowCapacity(cap, used) ==
  \A d \in DOMAIN used : d \in DOMAIN cap /\ used[d] < cap[d]

WithinCapacity(cap, used) ==
  \A d \in DOMAIN used : d \in DOMAIN cap /\ used[d] <= cap[d]

\* The check of the admission transaction: wants is the set of tasks, the
\* candidate included, that ask for a GPU.  A host without devices refuses as
\* soon as ANY of them asks, even when the candidate itself does not.
GPUOccupancyOK(wants, ids) ==
  IF Devices(ids) = {} THEN wants = {}
  ELSE WithinCapacity(HostGPUSlotCapacity(ids), SumTaskGPUNeeds(wants, ids))

RemainingGPUSlots(cap, used) ==
  [d \in DOMAIN cap |->
     LET u == IF d \in DOMAIN used THEN used[d] ELSE 0
     IN  IF cap[d] > u THEN cap[d] - u ELSE 0]
=============================================================================
