SPECIFICATION AcceptSpec
CONSTANTS
  Alerts <- OneEpisode
  AlarmIds <- OneAlarm
  MaxVersion = 4
  MaxAttempts = 1
  Owners = {s1, p1}
  Senders = {s1}
  Pollers = {p1}
  Tabs = {t1}
  CmmsStatuses = {"OPEN", "IN_PROGRESS", "COMPLETE"}
  MaxCmmsVersion = 2
  None = None
INVARIANTS VerifierTypeOK AcceptedWasTrue
CHECK_DEADLOCK FALSE
