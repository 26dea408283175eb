\* One process: what a heartbeat does to a Finish.
SPECIFICATION Spec
CONSTANTS
  Jobs = {j1}
  Procs = {p1}
  Pooling = {}
  Workers <- MCWorkers
  Owner <- MCOwner
  NoJob = NoJob
  NoWorker = NoWorker
  Timeout = 1
  Timely = FALSE
  BeatGap = 1
  HandGap = 1
  Grace = 1
PROPERTIES FinishFinishes
