\* One process and one edit: what Gain's late Touch does to it.
SPECIFICATION Spec
CONSTANTS
  Tasks = {t1}
  Procs = {p1}
  Lingering = {}
  Leases <- MCLeases
  Owner <- MCOwner
  Configs = {c1, c2}
  Quota = 1
  Due = 2
  MaxVer = 3
  Timely = TRUE
  TouchGap = 1
  StopGap = 1
  GainGap = 1
PROPERTIES EditSurvives
