\* Two processes, one of which can have an old KeepAlive beside a new lease; any delays.
SPECIFICATION Spec
CONSTANTS
  Tasks = {t1}
  Procs = {p1, p2}
  Lingering = {p1}
  Leases <- MCLeases
  Owner <- MCOwner
  Configs = {c1}
  Quota = 1
  Due = 1
  MaxVer = 2
  Timely = FALSE
  TouchGap = 1
  StopGap = 1
  GainGap = 1
INVARIANTS TypeOK AtMostOneCurrent QuotaKept
PROPERTIES TakeoverOnlyWhenDue ImplementsOwnership
