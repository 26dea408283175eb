\* Two vehicles on a grid, of which one stays; one vehicle and two plates; one bicycle; a
\* construction site over a month of two days.
SPECIFICATION MCSpec
CONSTANTS
  Ids = {v1, v2}
  Parked = {v1}
  ParkingSec = 5
  Timeout = 5
  vIds = {v1, v2}
  vPlates = {p1, p2}
  vTimeout = 2
  rIds = {b1}
  rShots <- Shots
  rTimeout = 3
  cConfigs <- Times
  cHours = 3
  cMonthDays = 2
  cMaxHour = 14
  cEndHour = 4
INVARIANTS MCTypeOK EvidenceHoldsTogether AlarmedOncePerHour
PROPERTIES ReportIsProven ReportedOncePerStay ParkedIsReported
CHECK_DEADLOCK FALSE
