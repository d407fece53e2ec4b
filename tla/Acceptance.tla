----------------------------- MODULE Acceptance -----------------------------
(***************************************************************************)
(* closed-loop-acceptance-verify (services/closed_loop_acceptance.py) beside*)
(* a running system: it reads the rows of the current episode, one query    *)
(* after the other and without locks, compares them with the alarm in       *)
(* ThingsBoard and the work order in the CMMS, reads the rows again, and    *)
(* accepts if nothing changed.                                              *)
(*                                                                         *)
(* WorkOrders is extended by the alarms as ThingsBoard has them.  Tenant,   *)
(* mapping and binding are constant and left out, and so are the fields of  *)
(* the request body, which nothing changes after the order is created.  The *)
(* streak of healthy rounds is left out: a change of it between the reads   *)
(* makes the verifier refuse more, and so does its bound of two for CLEARED.*)
(***************************************************************************)
EXTENDS WorkOrders

\* The outbox is counted.
ASSUME FiniteAssumption == IsFiniteSet(Alerts)

VARIABLES tb,       \* the alarms in ThingsBoard
          verifier  \* the process that verifies

acceptVars == <<vars, tb, verifier>>

-----------------------------------------------------------------------------
Stages == {"CONSISTENT", "ACTIVE", "IN_PROGRESS", "COMPLETE", "CLEARED"}
NoStage == "NONE"

TbAlarms == [exists : BOOLEAN, cleared : BOOLEAN, details : AlertRows]
NoAlarm == [exists |-> FALSE, cleared |-> FALSE, details |-> NoAlert]

\* How many events of the tenant have the status.
Outbox(status) == Cardinality({v \in Versions : event[v].status = status})
                    + Cardinality({a \in Alerts : command[a].status = status})
CountedStatuses == EventStatuses \ {"ABSENT"}

\* The columns of the work order that the snapshot has.
OrderOf(row) == [state |-> row.state, version |-> row.version]

\* ClosedLoopAcceptanceSnapshot
NoSnapshot == [risk |-> [active |-> FALSE, alert |-> None, version |-> 0],
               alert |-> NoAlert, projection |-> NoProjection,
               order |-> OrderOf(NoOrder),
               outbox |-> [s \in CountedStatuses |-> 0]]

\* pass: which of the two reads; first: the rows of the first; rows: what is
\* read so far.  moment is the stages that somebody who sees everything at
\* once would accept as the alarm is read; no action depends on it.
NotStarted == [pc |-> "risk", pass |-> 1, first |-> NoSnapshot, rows |-> NoSnapshot,
           cleared |-> FALSE, moment |-> {}, verdict |-> NoStage]

VerifierTypeOK ==
  /\ tb \in [AlarmIds -> TbAlarms]
  /\ verifier.pc \in {"risk", "alert", "projection", "order", "outbox", "alarm",
                      "cmms", "conclude", "accepted"}
  /\ verifier.pass \in 1..2
  /\ verifier.moment \subseteq Stages
  /\ verifier.verdict \in Stages \cup {NoStage}

AcceptInit == /\ Init
              /\ tb = [i \in AlarmIds |-> NoAlarm]
              /\ verifier = NotStarted

-----------------------------------------------------------------------------
(* ThingsBoard.                                                            *)

\* DeliverAlarm, and what becomes of the alarm: an upsert writes the details,
\* a clear does not.  The alarm of the projection has to be active.
Deliver(i) ==
  /\ DeliverAlarm(i)
  /\ IF projection.alarm = None THEN projection.desired => ~tb[i].exists
     ELSE i = projection.alarm /\ ~tb[i].cleared
  /\ tb' = IF projection.desired
           THEN [tb EXCEPT ![i] = [exists |-> TRUE, cleared |-> FALSE,
                                   details |-> projection.details]]
           ELSE IF projection.alarm = None THEN tb
           ELSE [tb EXCEPT ![i].cleared = TRUE]
  /\ UNCHANGED verifier

\* A user of ThingsBoard clears the alarm.
UserClear(i) == /\ tb[i].exists /\ ~tb[i].cleared
                /\ tb' = [tb EXCEPT ![i].cleared = TRUE]
                /\ UNCHANGED <<vars, verifier>>

-----------------------------------------------------------------------------
(* What is compared.  s is a snapshot.                                     *)

\* _validate_local_identity
LocallyValid(s) ==
  /\ s.projection.version = s.risk.version
  /\ s.projection.desired = (s.alert.risk = "ACTIVE")
  /\ s.risk.active = s.projection.desired
  /\ s.order.state = s.alert.care
  /\ s.order.state \in {CareOf[c] : c \in KnownStatuses}

\* _require_settled_outbox
Settled(s) == \A c \in {"PENDING", "IN_FLIGHT", "RETRY_WAIT", "DEAD_LETTER"} :
                s.outbox[c] = 0

\* _validate_alarm
AlarmValid(s, alarm) == /\ alarm.details = s.projection.details
                        /\ alarm.details.version = s.alert.version
                        /\ alarm.cleared # s.projection.desired

\* _validate_work_order
OrderValid(s, reply) == /\ reply.version = s.order.version
                        /\ reply.status \in KnownStatuses
                        /\ CareOf[reply.status] = s.order.state

StageOf == [WORK_ORDER_OPEN |-> "ACTIVE", WORK_ORDER_IN_PROGRESS |-> "IN_PROGRESS",
            WORK_ORDER_COMPLETE |-> "COMPLETE"]

\* The expected stages that _observed_stage and _validate_expected_stage let
\* pass.
PassingStages(s, cleared) ==
  {"CONSISTENT"}
    \cup {StageOf[c] : c \in IF s.alert.risk = "ACTIVE" /\ ~cleared
                             THEN {s.order.state} \cap DOMAIN StageOf ELSE {}}
    \cup (IF /\ s.alert.risk = "CLEARED" /\ cleared
             /\ s.order.state = "WORK_ORDER_COMPLETE"
          THEN {"CLEARED"} ELSE {})

-----------------------------------------------------------------------------
(* ClosedLoopAcceptanceStore.read, a query at a time.                      *)

CurrentProjection(a) == projection.alert = a /\ projection.alarm # None

\* What a look at all rows, the alarm and the work order at once would accept.
AtOnce ==
  LET a == risk.alert
      now == [risk |-> risk, alert |-> alert[a], projection |-> projection,
              order |-> OrderOf(order[a]), outbox |-> [s \in CountedStatuses |-> Outbox(s)]]
  IN IF /\ a # None /\ CurrentProjection(a) /\ order[a].version > 0
        /\ LocallyValid(now) /\ Settled(now)
        /\ AlarmValid(now, tb[projection.alarm]) /\ OrderValid(now, cmms[a])
     THEN PassingStages(now, tb[projection.alarm].cleared)
     ELSE {}

\* Mutant: a read that finds no row counts as one.
ReadCounted(column, found, value, pc) ==
  /\ verifier.pc = column
  /\ verifier' = IF found THEN [verifier EXCEPT !.rows[column] = value, !.pc = pc]
                 ELSE [NotStarted EXCEPT !.pass = verifier.pass + 1]
  /\ UNCHANGED <<vars, tb>>

\* Without a row the answer is CLOSED_LOOP_ACCEPTANCE_NOT_READY.
Read(column, found, value, pc) ==
  /\ verifier.pc = column
  /\ verifier' = IF found THEN [verifier EXCEPT !.rows[column] = value, !.pc = pc]
                 ELSE NotStarted
  /\ UNCHANGED <<vars, tb>>

Seen == verifier.rows.risk.alert

ReadRisk == Read("risk", risk.alert # None, risk, "alert")
ReadAlert == Read("alert", TRUE, alert[Seen], "projection")
ReadProjection == Read("projection", CurrentProjection(Seen), projection, "order")
ReadWorkOrder == Read("order", order[Seen].version > 0, OrderOf(order[Seen]), "outbox")

\* The last query, and what verify does with the snapshot.
ReadOutbox ==
  LET s == [verifier.rows EXCEPT !.outbox = [c \in CountedStatuses |-> Outbox(c)]]
  IN /\ verifier.pc = "outbox"
     /\ verifier' =
          IF verifier.pass = 1 /\ LocallyValid(s) /\ Settled(s)
          THEN [verifier EXCEPT !.first = s, !.rows = s, !.pc = "alarm"]
          ELSE IF verifier.pass = 2 /\ s = verifier.first
          THEN [verifier EXCEPT !.pc = "conclude"]
          ELSE NotStarted
     /\ UNCHANGED <<vars, tb>>

-----------------------------------------------------------------------------
(* ClosedLoopAcceptanceVerifier.verify.                                    *)

ReadAlarm ==
  LET alarm == tb[verifier.first.projection.alarm]
  IN /\ verifier.pc = "alarm"
     /\ verifier' = IF AlarmValid(verifier.first, alarm)
                    THEN [verifier EXCEPT !.cleared = alarm.cleared, !.pc = "cmms",
                                          !.moment = AtOnce]
                    ELSE NotStarted
     /\ UNCHANGED <<vars, tb>>

\* Mutant: the rows are not read again.
ReadCmmsAndConclude ==
  /\ verifier.pc = "cmms"
  /\ verifier' = IF OrderValid(verifier.first, cmms[verifier.first.risk.alert])
                 THEN [verifier EXCEPT !.pc = "conclude"] ELSE NotStarted
  /\ UNCHANGED <<vars, tb>>

ReadCmms ==
  /\ verifier.pc = "cmms"
  /\ verifier' = IF OrderValid(verifier.first, cmms[verifier.first.risk.alert])
                 THEN [verifier EXCEPT !.pc = "risk", !.pass = 2] ELSE NotStarted
  /\ UNCHANGED <<vars, tb>>

\* The stage the operator expects is accepted, which ends the process, or is
\* not the one observed.  After a refusal it is started again.
Conclude(expected) ==
  /\ verifier.pc = "conclude"
  /\ verifier' = IF expected \in PassingStages(verifier.first, verifier.cleared)
                 THEN [NotStarted EXCEPT !.pc = "accepted", !.verdict = expected,
                                         !.moment = verifier.moment]
                 ELSE NotStarted
  /\ UNCHANGED <<vars, tb>>

Verify == \/ ReadRisk \/ ReadAlert \/ ReadProjection \/ ReadWorkOrder \/ ReadOutbox
          \/ ReadAlarm \/ ReadCmms \/ \E stage \in Stages : Conclude(stage)

AcceptNext == \/ OrderSide /\ UNCHANGED <<tb, verifier>>
              \/ \E i \in AlarmIds : Deliver(i) \/ UserClear(i)
              \/ Verify

AcceptSpec == AcceptInit /\ [][AcceptNext]_acceptVars

-----------------------------------------------------------------------------
\* What verify accepts was true at one moment: when it read the alarm, rows,
\* alarm and work order were together as the accepted stage wants them, though
\* rounds, workers and users went on while it read (verify, read).
AcceptedWasTrue == verifier.verdict # NoStage => verifier.verdict \in verifier.moment
=============================================================================
