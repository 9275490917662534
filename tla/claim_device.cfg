SPECIFICATION Spec
CONSTANTS
  w1 = w1
  w2 = w2
  g1 = g1
  Blank = Blank
  Workers = {w1}
  Processes = {w1}
  TaskIds <- ThreeTasks
  Requests <- GpuOnly
  Calls = {}
  AllowedProviders <- AnyProvider
  HostGPUIDs <- OneDevice
  MaxConcurrentRunning = 2
  MaxConcurrentSlow = 2
  MinFreeSlotsForFast = 1
  AutoRemove = FALSE
  Faults = {"crash"}
  AdmittedSweepEnable = TRUE
  RuntimeSweepEnable = TRUE
  ReconcilerEnable = TRUE
  OrphanReapEnable = FALSE
INVARIANT DeviceCap
CHECK_DEADLOCK FALSE
