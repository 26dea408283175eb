\* All handlers, channels and pools smaller than a burst, fair goroutines;
\* two tasks with an instance of the library each.
SPECIFICATION MCSpec
CONSTANTS
  Handlers = {"vehicle", "waimai", "construction"}
  Cap <- MCCap
  Room = 1
  Tasks = {t1, t2}
  PoolSize = 1
  VehicleKinds = 2
  RedLights = 1
  EventTypes = 2
  ConstructionKinds = 2
  SaveCap = 1
  Due = 2
  Limit = 1
INVARIANTS UsesLiveContext
PROPERTIES FrameIsHandled ReturnsUnlessStuck HangsForGood ReleasedThreadEnds
CHECK_DEADLOCK FALSE
