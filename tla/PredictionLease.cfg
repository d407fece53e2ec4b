SPECIFICATION Spec
CONSTANTS
  Slots = {0}
  Workers = {w1, w2}
  Names = {w1, w2}
  NameOf <- OwnNames
  Digests = {d1, d2}
  LeaseDuration = 2
  SlotDuration = 3
  MaxAttempts = 3
  ClockLag = 1
  Horizon = 9
  None = None
INVARIANTS TypeOK LeaseFencing OneRequestPerRun
PROPERTIES RunningIsReleased FinalIsFinal PinIsPermanent NoResurrection
CHECK_DEADLOCK FALSE
