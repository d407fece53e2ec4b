SPECIFICATION Spec
CONSTANTS
  Alerts <- OneEpisode
  AlarmIds <- TwoAlarms
  MaxVersion = 2
  MaxAttempts = 2
  Owners = {w1, w2}
  Clerks = {}
  News = {}
  LateWrites = TRUE
  UserClears = TRUE
  None = None
PROPERTIES EventsSettle IdentityStays
CHECK_DEADLOCK FALSE
