---------------------------- MODULE MCAcceptance ----------------------------
(* Instances of Acceptance for model checking: one episode, one alarm.      *)
EXTENDS Acceptance

OneEpisode == 1..1
OneAlarm == {1}
=============================================================================
