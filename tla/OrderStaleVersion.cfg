SPECIFICATION Safety
CONSTANTS
  Alerts <- OneEpisode
  AlarmIds <- OneAlarm
  MaxVersion = 5
  MaxAttempts = 1
  Owners = {s1}
  Senders = {s1}
  Pollers = {}
  Tabs = {t1}
  CmmsStatuses = {"OPEN"}
  MaxCmmsVersion = 1
  None = None
PROPERTY StaleVersionIsRefused
CHECK_DEADLOCK FALSE
