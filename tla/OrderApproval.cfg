SPECIFICATION Safety
CONSTANTS
  Alerts <- TwoEpisodes
  AlarmIds <- OneAlarm
  MaxVersion = 5
  MaxAttempts = 2
  Owners = {s1}
  Senders = {s1}
  Pollers = {}
  Tabs = {t1, t2}
  CmmsStatuses = {"OPEN", "COMPLETE"}
  MaxCmmsVersion = 2
  None = None
INVARIANTS TypeOK SingleActiveOrder LocallyConsistent
PROPERTY ApprovalIsCurrent
SYMMETRY Interchangeable
CHECK_DEADLOCK FALSE
