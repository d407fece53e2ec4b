SPECIFICATION Safety
CONSTANTS
  Slots = {0, 1, 2}
  Workers = {w1, w2}
  Names = {w1, w2}
  NameOf <- OwnNames
  Digests = {d1}
  LeaseDuration = 1
  SlotDuration = 1
  MaxAttempts = 2
  ClockLag = 0
  Horizon = 4
  None = None
INVARIANT RiskEvidence
PROPERTIES NewestRoundWins ImplementsRounds
SYMMETRY AlikeWorkers
CHECK_DEADLOCK FALSE
