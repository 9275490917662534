SPECIFICATION Spec
CONSTANTS
  w1 = w1
  w2 = w2
  g1 = g1
  Blank = Blank
  Workers = {w1, w2}
  Processes = {}
  TaskIds <- ThreeTasks
  Requests <- StartMix
  Calls = {}
  AllowedProviders <- AnyProvider
  HostGPUIDs <- OneDevice
  MaxConcurrentRunning = 3
  MaxConcurrentSlow = 1
  MinFreeSlotsForFast = 0
  AutoRemove = FALSE
  Faults = {}
  AdmittedSweepEnable = TRUE
  RuntimeSweepEnable = FALSE
  ReconcilerEnable = FALSE
  OrphanReapEnable = FALSE
SYMMETRY SymmetricWorkers
INVARIANTS SlowBound GpuBound
CHECK_DEADLOCK FALSE
