SPECIFICATION Spec
CONSTANTS
  Pods = {p1}
  Instrumented = {p1}
  Handlers = {h1}
  Args = {a1, a2}
  NoArgs = NoArgs
  NoPod = NoPod
  APIMayFail = TRUE
  CRIMayFail = TRUE
  WatchMayFail = TRUE
  MayTerminate = TRUE
  MayLag = FALSE
  StopChanCap = 2
VIEW View
CHECK_DEADLOCK FALSE
INVARIANTS
  LiveProcessCanFinish
  ClosedAfterProcess
  PromptSenderSafe
