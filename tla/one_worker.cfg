SPECIFICATION Spec
CONSTANTS
  w1 = w1
  w2 = w2
  g1 = g1
  Blank = Blank
  Workers = {w1}
  Processes = {w1}
  TaskIds <- ThreeTasks
  Requests <- SlowGpu
  Calls = {"stop", "restart"}
  AllowedProviders <- AnyProvider
  HostGPUIDs <- OneDevice
  MaxConcurrentRunning = 3
  MaxConcurrentSlow = 3
  MinFreeSlotsForFast = 1
  AutoRemove = FALSE
  Faults = {}
  AdmittedSweepEnable = TRUE
  RuntimeSweepEnable = TRUE
  ReconcilerEnable = TRUE
  OrphanReapEnable = FALSE
INVARIANTS FastReserve ProcessingHeld ContainersAccounted StopEffective RestartReplaces
PROPERTY OnlyGpuRefused
CHECK_DEADLOCK FALSE
