SPECIFICATION ToldSpec
CONSTANTS
  w1 = w1
  w2 = w2
  g1 = g1
  Blank = Blank
  Workers = {w1, w2}
  Processes = {w1}
  TaskIds <- TwoTasks
  Requests <- FastOnly
  Calls = {"stop"}
  AllowedProviders <- AnyProvider
  HostGPUIDs <- OneDevice
  MaxConcurrentRunning = 1
  MaxConcurrentSlow = 1
  MinFreeSlotsForFast = 0
  AutoRemove = FALSE
  Faults = {}
  AdmittedSweepEnable = FALSE
  RuntimeSweepEnable = TRUE
  ReconcilerEnable = TRUE
  OrphanReapEnable = TRUE
INVARIANTS FinalTold StopAnswersAgree
PROPERTIES EveryRequestAnswered OrphansReaped
CHECK_DEADLOCK FALSE
