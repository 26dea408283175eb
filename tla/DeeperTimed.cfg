\* Two processes, one with two workers, delays within their bounds.
SPECIFICATION Spec
CONSTANTS
  Jobs = {j1}
  Procs = {p1, p2}
  Pooling = {p1}
  Workers <- MCWorkers
  Owner <- MCOwner
  NoJob = NoJob
  NoWorker = NoWorker
  Timeout = 6
  Timely = TRUE
  BeatGap = 1
  HandGap = 1
  Grace = 1
INVARIANTS NoDoubleHandling HandledIsRenewed
