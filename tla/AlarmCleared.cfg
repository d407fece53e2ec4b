SPECIFICATION Safety
CONSTANTS
  Alerts <- OneEpisode
  AlarmIds <- TwoAlarms
  MaxVersion = 2
  MaxAttempts = 1
  Owners = {w1}
  Clerks = {}
  News = {}
  LateWrites = FALSE
  UserClears = FALSE
  None = None
INVARIANT ClearedIsAcceptable
CHECK_DEADLOCK FALSE
