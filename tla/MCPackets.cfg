SPECIFICATION MCSpec
CONSTANTS
  MaxLength = 5
  MaxMessages = 2
  Streams <- AllStreams
  Conns = {c1}
  Timeout = 2
  MaxInfos = 4
  MaxHellos = 2
  MaxTime = 7
  Collectors = {i1, i2}
  Keys = {k1}
  WitnessesPerEpoch = 2
  Epoch = 3
  MaxDuration = 4
  LastTime = 9
  Numeric = {"7", "42"}
  Misread <- MCMisread
  Cut <- MCCut
  Exchanges <- MCExchanges
  Configs <- MCConfigs
  InitialConfigs <- MCInitialConfigs
  Excluded <- MCExcluded
  sendWitnessPayloads = TRUE
  SensitiveKeys = {"password"}
  SensitiveValues = {"PMAK"}
  Matches <- MCMatches
  AlwaysCapture <- MCAlwaysCapture
  InternalTeams = {"internal"}
  MaxEdits = 1
VIEW View
SYMMETRY Symmetry
CHECK_DEADLOCK FALSE
INVARIANTS
  Types
  EndAccounted
  ReportedRight
  IdleIsFlushed
  EpochBudget
  Remembered
  SamplingResumes
  BodyKept
  NothingSensitive
PROPERTIES
  Implements
  BusyIsKept
