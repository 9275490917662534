SPECIFICATION Spec
CONSTANTS
  w1 = w1
  w2 = w2
  g1 = g1
  Blank = Blank
  Workers = {w1, w2}
  Processes = {}
  TaskIds <- ThreeTasks
  Requests <- SlowFast
  Calls = {}
  AllowedProviders <- AnyProvider
  HostGPUIDs <- OneDevice
  MaxConcurrentRunning = 1
  MaxConcurrentSlow = 2
  MinFreeSlotsForFast = 0
  AutoRemove = FALSE
  Faults = {}
  AdmittedSweepEnable = TRUE
  RuntimeSweepEnable = TRUE
  ReconcilerEnable = TRUE
  OrphanReapEnable = FALSE
INVARIANT GlobalCap
CHECK_DEADLOCK FALSE
