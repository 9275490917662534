SPECIFICATION Spec
CONSTANTS
  w1 = w1
  w2 = w2
  g1 = g1
  Blank = Blank
  Workers = {w1, w2}
  Processes = {w1}
  TaskIds <- TwoTasks
  Requests <- StopMix
  Calls = {}
  AllowedProviders <- AnyProvider
  HostGPUIDs <- OneDevice
  MaxConcurrentRunning = 1
  MaxConcurrentSlow = 1
  MinFreeSlotsForFast = 0
  AutoRemove = TRUE
  Faults = {"crash", "db", "engine"}
  AdmittedSweepEnable = TRUE
  RuntimeSweepEnable = TRUE
  ReconcilerEnable = TRUE
  OrphanReapEnable = TRUE
INVARIANTS TypeOK AuditAgrees OwnInv
PROPERTIES ReaperSpares NoRequeue LivesAsPromised
CHECK_DEADLOCK FALSE
