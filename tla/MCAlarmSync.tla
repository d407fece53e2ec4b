---------------------------- MODULE MCAlarmSync -----------------------------
(* Instances of AlarmSync for model checking.                               *)
EXTENDS AlarmSync

OneEpisode == 1..1
TwoEpisodes == 1..2
TwoAlarms == 1..2
OrderStates == {"WORK_ORDER_OPEN"}
=============================================================================
