SPECIFICATION FairSpec
CONSTANTS
  q1 = q1
  r1 = r1
  q2 = q2
  k1 = k1
  Messages = {q1, r1, q2}
  Conns = {c1}
  PairKeys = {k1}
  key <- OneKey
  reportBuffers = 2
  BatchSize = 2
  None = None
  MayExpire = TRUE
  MayDrop = TRUE
CHECK_DEADLOCK FALSE
INVARIANTS
  TypeOK
  ReportedRedacted
  ReportedExactlyOnce
PROPERTIES
  UploadStable
  CloseReturns
