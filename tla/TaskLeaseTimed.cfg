\* Two processes, one task, delays within their bounds.
SPECIFICATION Spec
CONSTANTS
  Tasks = {t1}
  Procs = {p1, p2}
  Lingering = {}
  Leases <- MCLeases
  Owner <- MCOwner
  Configs = {c1, c2}
  Quota = 1
  Due = 2
  MaxVer = 3
  Timely = TRUE
  TouchGap = 1
  StopGap = 1
  GainGap = 1
INVARIANTS NoDoubleProcessing
PROPERTIES RenewalKeepsEdit
