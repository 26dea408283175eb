\* One process whose workers get the same job twice, any delays, fair goroutines.
SPECIFICATION FairSpec
CONSTANTS
  Jobs = {j1}
  Procs = {p1}
  Pooling = {p1}
  Workers <- MCWorkers
  Owner <- MCOwner
  NoJob = NoJob
  NoWorker = NoWorker
  Timeout = 1
  Timely = FALSE
  BeatGap = 1
  HandGap = 1
  Grace = 1
INVARIANTS TypeOK EntryIsHandled
PROPERTIES JobGetsResult
