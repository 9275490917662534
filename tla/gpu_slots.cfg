SPECIFICATION HostSpec
CONSTANTS
  Blank = Blank
  Ids = {g1, g2, Blank}
  MaxEntries = 5
  GpuTasks = {1, 2, 3, 4}
INVARIANTS LetsInWhatFits AttachesEachDeviceOnce RemainingPredictsEntry
CHECK_DEADLOCK FALSE
