SPECIFICATION FairSpec
CONSTANTS
  Pods = {p1}
  Instrumented = {p1}
  Handlers = {h1}
  Args = {a1, a2}
  NoArgs = NoArgs
  NoPod = NoPod
  APIMayFail = FALSE
  CRIMayFail = FALSE
  WatchMayFail = TRUE
  MayTerminate = FALSE
  MayLag = FALSE
  StopChanCap = 2
CHECK_DEADLOCK FALSE
PROPERTIES
  EndedIsPruned
  GoneIsReleased
  RunningEntryIsStarted
