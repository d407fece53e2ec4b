SPECIFICATION Spec
CONSTANTS
  Window = 6
  MissingDivisor = 2
  RawValues <- SomeDecimals
  Windows <- SomeWindows
  Digest <- SomeDigest
  Horizon = 5
  Threshold = 5
  Direction = "ABOVE"
INVARIANTS TypeOK OrderDoesNotMatter HistoryIsCanonical CrossingsBoundRisk DirectionsMirror
CHECK_DEADLOCK FALSE
