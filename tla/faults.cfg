SPECIFICATION Spec
CONSTANTS
  w1 = w1
  w2 = w2
  g1 = g1
  Blank = Blank
  Workers = {w1, w2}
  Processes = {}
  TaskIds <- ThreeTasks
  Requests <- StopMix
  Calls = {}
  AllowedProviders <- AnyProvider
  HostGPUIDs <- OneDevice
  MaxConcurrentRunning = 1
  MaxConcurrentSlow = 1
  MinFreeSlotsForFast = 0
  AutoRemove = TRUE
  Faults = {"crash", "db", "engine"}
  AdmittedSweepEnable = TRUE
  RuntimeSweepEnable = TRUE
  ReconcilerEnable = TRUE
  OrphanReapEnable = FALSE
SYMMETRY SymmetricWorkers
INVARIANTS SlotBound ExclusiveClaim LaunchFresh SlotInv
CHECK_DEADLOCK FALSE
