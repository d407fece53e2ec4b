SPECIFICATION Safety
CONSTANTS
  Alerts <- OneEpisode
  AlarmIds <- OneAlarm
  MaxVersion = 4
  MaxAttempts = 2
  Owners = {s1, s2, p1, p2}
  Senders = {s1, s2}
  Pollers = {p1, p2}
  Tabs = {t1}
  CmmsStatuses = {"OPEN", "COMPLETE", "CANCELLED"}
  MaxCmmsVersion = 2
  None = None
INVARIANT RecordedFromCmms
PROPERTIES FeedbackMovesForward OrderNewsKeepsRisk ImplementsBook
SYMMETRY Interchangeable
CHECK_DEADLOCK FALSE
