\* Two requests for two events; two exports in two seconds; three events on pages of one
\* or two; two events in two and a half days; two workers and two requests over a few
\* expiries of their logins.
SPECIFICATION MCSpec
CONSTANTS
  e1 = e1
  e2 = e2
  e3 = e3
  qEvents = {e1, e2}
  qRequests = {q1, q2}
  qIdLists <- IdLists
  xExports = {x1, x2}
  xEvents = {e1, e2}
  xLastSecond = 1
  pEvents = {e1, e2, e3}
  pDates = {1, 2, 3}
  pQueries <- Queries
  pPageSizes = {0, 1}
  pPerPage = 2
  pWrites = 2
  sEvents = {s1, s2}
  sCameras = {"c1", "c2"}
  sKinds <- Kinds
  sClasses = {2}
  sStarts = {0, 4}
  sRequests <- Asked
  sHours = 2
  sLastTick = 4
  fWorkers = {w1, w2}
  fEvents <- Pictures
  fMaxFaces = 2
  fExpire = 2
  fDelay = 1
  fLastTick = 4
  mCallers = {r1, r2}
  mExpire = 1
  mDelay = 1
  mLastTick = 3
SYMMETRY Symmetry
INVARIANTS MarksAreAnswered ExportIsOwn NothingLeftBehind PagesMissOnlyWhatMoved HoursAndDaysAgree FacesMatchSnapshots FailsOnlyOnFault
PROPERTIES  OneLoginPerExpiry
CHECK_DEADLOCK FALSE
