SPECIFICATION Safety
CONSTANTS
  Alerts <- OneEpisode
  AlarmIds <- TwoAlarms
  MaxVersion = 2
  MaxAttempts = 2
  Owners = {w1}
  Clerks = {}
  News = {}
  LateWrites = TRUE
  UserClears = FALSE
  None = None
INVARIANT OneAlarmPerAlert
CHECK_DEADLOCK FALSE
