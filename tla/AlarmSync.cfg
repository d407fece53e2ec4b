SPECIFICATION Safety
CONSTANTS
  Alerts <- TwoEpisodes
  AlarmIds <- TwoAlarms
  MaxVersion = 4
  MaxAttempts = 2
  Owners = {w1}
  Clerks = {k1}
  News <- OrderStates
  LateWrites = FALSE
  UserClears = FALSE
  None = None
INVARIANTS TypeOK IntentsTellTheTruth NewestIntentSurvives OneAlarmPerAlert DeliveredMeansShown
CHECK_DEADLOCK FALSE
