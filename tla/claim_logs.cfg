SPECIFICATION LogSpec
CONSTANTS
  TailLines = 1
  FlushLines = 0
  Losses = {}
  LongLines = {}
  StderrLines = {}
  MaxLines = 2
  w1 = w1
  w2 = w2
  g1 = g1
  Blank = Blank
  Workers = {w1}
  Processes = {w1}
  TaskIds <- TwoTasks
  Requests <- FastOnly
  Calls = {"stop"}
  AllowedProviders <- AnyProvider
  HostGPUIDs <- OneDevice
  MaxConcurrentRunning = 1
  MaxConcurrentSlow = 1
  MinFreeSlotsForFast = 0
  AutoRemove = FALSE
  Faults = {}
  AdmittedSweepEnable = TRUE
  RuntimeSweepEnable = TRUE
  ReconcilerEnable = TRUE
  OrphanReapEnable = TRUE
INVARIANT StopKeepsLog
CHECK_DEADLOCK FALSE
