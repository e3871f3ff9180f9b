SPECIFICATION Spec
CONSTANTS
  Pods = {p1}
  Instrumented = {p1}
  Handlers = {h1, h2}
  Args = {a1, a2}
  NoArgs = NoArgs
  NoPod = NoPod
  APIMayFail = FALSE
  CRIMayFail = FALSE
  WatchMayFail = FALSE
  MayTerminate = FALSE
  MayLag = FALSE
  StopChanCap = 2
SYMMETRY HandlerSymmetry
VIEW View
CHECK_DEADLOCK FALSE
INVARIANTS
  TypeOK
  LiveIsMapped
  NoDuplicateCapture
  RunningPodNotStopped
