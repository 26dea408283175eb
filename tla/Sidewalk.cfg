\* Three objects, room for two events, fair goroutines.
SPECIFICATION FairSpec
CONSTANTS
  Objs = {o1, o2, o3}
  Cap = 2
  Timeout = 1
  MaxGen = 2
INVARIANTS ReportedOnce
PROPERTIES ReturnsUnlessWedged ExpiredIsReported
CHECK_DEADLOCK FALSE
