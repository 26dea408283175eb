\* Two objects, room for one value, one saver, fair goroutines.
SPECIFICATION FairSpec
CONSTANTS
  Objs = {o1, o2}
  Kinds = {k1}
  Cap = 1
  PoolSize = 1
  Timeout = 0
  MaxGen <- MCMaxGen
  Once = {o2}
INVARIANTS InsertedOnce
PROPERTIES RecordedIsSaved ReturnsUnlessStuck
CHECK_DEADLOCK FALSE
