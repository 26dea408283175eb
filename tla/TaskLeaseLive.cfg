\* Two processes, two configurations, fair goroutines.
SPECIFICATION FairSpec
CONSTANTS
  Tasks = {t1}
  Procs = {p1, p2}
  Lingering = {}
  Leases <- MCLeases
  Owner <- MCOwner
  Configs = {c1, c2}
  Quota = 1
  Due = 0
  MaxVer = 2
  Timely = FALSE
  TouchGap = 1
  StopGap = 1
  GainGap = 1
PROPERTIES AbandonedIsRegained DashboardObeyed
