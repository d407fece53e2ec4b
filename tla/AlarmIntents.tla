---------------------------- MODULE AlarmIntents ----------------------------
(***************************************************************************)
(* The durable alarm intents of one risk key (services/closed_loop.py): the *)
(* alerts of its episodes, the projection that says what ThingsBoard should *)
(* show, and the TB_ALARM_SYNC events of the outbox.  A prediction round    *)
(* and an action of the approver write all of them in one transaction,      *)
(* serialised by the lock on the risk row.                                  *)
(*                                                                         *)
(* An episode number stands for the alert_id of its alert, and an event is  *)
(* named by its aggregate_version, which is unique for the risk key.  The   *)
(* equipment is the pilot one, the only one that work orders are allowed for.*)
(***************************************************************************)
EXTENDS Integers, FiniteSets

CONSTANTS Alerts,       \* the episodes, 1..n
          MaxVersion,   \* bound on alarm_aggregate_version
          MaxAttempts,  \* MAX_ATTEMPTS of a delivery
          Owners,       \* values of lease_owner
          AlarmIds,     \* identities ThingsBoard gives to alarms, 1..n
          None          \* SQL NULL

ASSUME EpisodesAssumption == /\ \A a \in Alerts : a \in Nat \ {0}
                             /\ \A a \in Alerts : \A b \in 1..a : b \in Alerts
ASSUME AlarmIdsAssumption == AlarmIds \subseteq Nat \ {0}
ASSUME BoundsAssumption == MaxVersion \in Nat /\ MaxAttempts \in Nat \ {0}
ASSUME NullAssumption == None \notin Alerts \cup AlarmIds \cup Owners

VARIABLES risk,        \* the closed-loop part of risk_evaluation_states
          alert,       \* maintenance_alert, by episode
          projection,  \* the alarm_projection row of the risk key
          event        \* the TB_ALARM_SYNC rows of outbox_event

intents == <<risk, alert, projection, event>>

-----------------------------------------------------------------------------
Versions == 1..MaxVersion

ActiveOrderStates == {"WORK_ORDER_CREATING", "WORK_ORDER_OPEN",
                      "WORK_ORDER_IN_PROGRESS", "WORK_ORDER_ON_HOLD"}
CareStates == {"PENDING_APPROVAL", "SUPPRESSED_ACTIVE_WORK_ORDER",
               "WORK_ORDER_COMPLETE"} \cup ActiveOrderStates

\* care: maintenance_state; allowed: work_order_action_allowed; run: the
\* prediction run the forecast_summary is of, named by the aggregate version of
\* its intent.
AlertRows == [risk : {"ABSENT", "ACTIVE", "CLEARED", "MANUALLY_CLOSED"},
              care : CareStates, allowed : BOOLEAN, version : 0..MaxVersion,
              run : 0..MaxVersion]

NoAlert == [risk |-> "ABSENT", care |-> "PENDING_APPROVAL",
            allowed |-> FALSE, version |-> 0, run |-> 0]

\* details: the alert as it was when the row was written; alarm: tb_alarm_id.
Projections == [alert : Alerts \cup {None}, desired : BOOLEAN,
                version : 0..MaxVersion, details : AlertRows,
                alarm : AlarmIds \cup {None}]

NoProjection == [alert |-> None, desired |-> FALSE, version |-> 0,
                 details |-> NoAlert, alarm |-> None]

Waiting == {"PENDING", "RETRY_WAIT"}
EventStatuses == {"ABSENT", "IN_FLIGHT", "DELIVERED", "SUPERSEDED",
                  "DEAD_LETTER"} \cup Waiting

Events == [status : EventStatuses, alert : Alerts \cup {None},
           attempt : 0..MaxAttempts, owner : Owners \cup {None}]

NoEvent == [status |-> "ABSENT", alert |-> None, attempt |-> 0, owner |-> None]

IntentsTypeOK == /\ risk \in [active : BOOLEAN, alert : Alerts \cup {None},
                              version : 0..MaxVersion]
                 /\ alert \in [Alerts -> AlertRows]
                 /\ projection \in Projections
                 /\ event \in [Versions -> Events]

\* A risk may be active already when the closed loop is switched on: it has
\* no alert then.
IntentsInit == /\ risk \in [active : BOOLEAN, alert : {None}, version : {0}]
               /\ alert = [a \in Alerts |-> NoAlert]
               /\ projection = NoProjection
               /\ event = [v \in Versions |-> NoEvent]

-----------------------------------------------------------------------------
(* Writing an intent.                                                      *)

\* Mutant: the new event is written before the waiting ones are superseded.
EnqueueFirst(a, S) ==
  /\ risk.version < MaxVersion
  /\ event' = [v \in Versions |->
                 IF v = risk.version + 1
                 THEN [NoEvent EXCEPT !.status = "SUPERSEDED", !.alert = a]
                 ELSE IF event[v].alert \in S /\ event[v].status \in Waiting
                 THEN [event[v] EXCEPT !.status = "SUPERSEDED", !.owner = None]
                 ELSE event[v]]

\* The waiting events of the alerts S give way to a new one for alert a, with
\* the next aggregate version.
Enqueue(a, S) ==
  /\ risk.version < MaxVersion
  /\ event' = [v \in Versions |->
                 IF v = risk.version + 1
                 THEN [NoEvent EXCEPT !.status = "PENDING", !.alert = a]
                 ELSE IF event[v].alert \in S /\ event[v].status \in Waiting
                 THEN [event[v] EXCEPT !.status = "SUPERSEDED", !.owner = None]
                 ELSE event[v]]

\* _replace_projection, after the alert became row: the projection of an
\* earlier episode is deleted, and its waiting events are superseded.
ReplaceProjection(a, row, desired) ==
  /\ projection' = [IF projection.alert = a THEN projection
                    ELSE [NoProjection EXCEPT !.alert = a]
                      EXCEPT !.desired = desired,
                             !.version = risk.version + 1,
                             !.details = row]
  /\ Enqueue(a, {a, projection.alert} \ {None})

\* _queue_alarm_refresh and _queue_alarm_details: the projection of the alert
\* has to be there.
RefreshProjection(a, row, desired) ==
  /\ projection.alert = a
  /\ projection' = [projection EXCEPT !.desired = desired,
                                      !.version = risk.version + 1,
                                      !.details = row]
  /\ Enqueue(a, {a})

-----------------------------------------------------------------------------
(* The risk transitions: ClosedLoopTransitionService.apply at the end of a *)
(* prediction round.                                                       *)

NextEpisode(a) == alert[a].risk = "ABSENT" /\ \A b \in Alerts : alert[b].risk = "ABSENT" => a <= b

\* The second risky round in a row opens an episode.  busy: a work order of an
\* earlier episode is not complete.
Raise(a, busy) ==
  LET row == [risk |-> "ACTIVE",
              care |-> IF busy THEN "SUPPRESSED_ACTIVE_WORK_ORDER"
                               ELSE "PENDING_APPROVAL",
              allowed |-> ~busy,
              version |-> 1,
              run |-> risk.version + 1]
  IN /\ ~risk.active
     /\ NextEpisode(a)
     /\ risk' = [active |-> TRUE, alert |-> a, version |-> risk.version + 1]
     /\ alert' = [alert EXCEPT ![a] = row]
     /\ ReplaceProjection(a, row, TRUE)

\* A round that leaves an active risk active.  Without an alert nothing is
\* written.
Continue(a) ==
  LET row == [alert[a] EXCEPT !.version = @ + 1, !.run = risk.version + 1]
  IN /\ risk.active /\ risk.alert = a
     /\ risk' = [risk EXCEPT !.version = @ + 1]
     /\ alert' = [alert EXCEPT ![a] = row]
     /\ ReplaceProjection(a, row, TRUE)

\* The second healthy round in a row.
Clear(a) ==
  LET row == [alert[a] EXCEPT !.risk = "CLEARED", !.version = @ + 1,
                              !.run = risk.version + 1]
  IN /\ risk.active /\ risk.alert = a
     /\ risk' = [risk EXCEPT !.active = FALSE, !.version = @ + 1]
     /\ alert' = [alert EXCEPT ![a] = row]
     /\ ReplaceProjection(a, row, FALSE)

ClearUnalerted == /\ risk.active /\ risk.alert = None
                  /\ risk' = [risk EXCEPT !.active = FALSE]
                  /\ UNCHANGED <<alert, projection, event>>

-----------------------------------------------------------------------------
(* The transactions of CREATE_WORK_ORDER and CLOSE_RISK                     *)
(* (MaintenanceActionService._create_work_order and _close_risk).          *)

\* _require_actionable
Actionable(a) == /\ alert[a].risk = "ACTIVE"
                 /\ alert[a].care = "PENDING_APPROVAL"
                 /\ alert[a].allowed

\* A work order is accepted for the alert.
OrderAlert(a) ==
  LET row == [alert[a] EXCEPT !.care = "WORK_ORDER_CREATING", !.allowed = FALSE,
                              !.version = @ + 1]
  IN /\ Actionable(a)
     /\ risk' = [risk EXCEPT !.version = @ + 1]
     /\ alert' = [alert EXCEPT ![a] = row]
     /\ RefreshProjection(a, row, row.risk = "ACTIVE")

CloseAlert(a) ==
  LET row == [alert[a] EXCEPT !.risk = "MANUALLY_CLOSED", !.allowed = FALSE,
                              !.version = @ + 1]
  IN /\ alert[a].risk = "ACTIVE"
     /\ risk' = [risk EXCEPT !.active = FALSE, !.version = @ + 1]
     /\ alert' = [alert EXCEPT ![a] = row]
     /\ RefreshProjection(a, row, FALSE)

-----------------------------------------------------------------------------
(* News of its work order (save_created_work_order, apply_status).         *)

\* Mutant: the alert keeps its maintenance state.
TellVersion(a, seen, care) ==
  LET object == [seen EXCEPT !.version = @ + 1]
  IN /\ seen.version < MaxVersion
     /\ alert' = [alert EXCEPT ![a].version = object.version]
     /\ IF projection.alert = a
        THEN /\ risk' = [risk EXCEPT !.version = @ + 1]
             /\ RefreshProjection(a, object, projection.desired)
        ELSE UNCHANGED <<risk, projection, event>>

\* Mutant: an alert whose order is complete needs no alarm.
TellComplete(a, seen, care) ==
  LET object == [seen EXCEPT !.care = care, !.version = @ + 1]
  IN /\ seen.version < MaxVersion
     /\ alert' = [alert EXCEPT ![a].care = care, ![a].version = object.version]
     /\ IF projection.alert = a
        THEN /\ risk' = [risk EXCEPT !.version = @ + 1]
             /\ RefreshProjection(a, object, projection.desired /\ care # "WORK_ORDER_COMPLETE")
        ELSE UNCHANGED <<risk, projection, event>>

\* Mutant: the alarm is wanted if the alert seen is active, as in
\* _queue_alarm_refresh.
TellRefresh(a, seen, care) ==
  LET object == [seen EXCEPT !.care = care, !.version = @ + 1]
  IN /\ seen.version < MaxVersion
     /\ alert' = [alert EXCEPT ![a].care = care, ![a].version = object.version]
     /\ IF projection.alert = a
        THEN /\ risk' = [risk EXCEPT !.version = @ + 1]
             /\ RefreshProjection(a, object, object.risk = "ACTIVE")
        ELSE UNCHANGED <<risk, projection, event>>

\* What a status does to the alert.  seen: the alert as the transaction loaded
\* it before it had the lock; the later locking read finds the object in the
\* session and leaves its attributes as they are.  The new version and the
\* details are computed from that object, and only the columns assigned are
\* written.  An alert whose projection was replaced has nothing to show.
TellAlert(a, seen, care) ==
  LET object == [seen EXCEPT !.care = care, !.version = @ + 1]
  IN /\ seen.version < MaxVersion
     /\ alert' = [alert EXCEPT ![a].care = care, ![a].version = object.version]
     /\ IF projection.alert = a
        THEN /\ risk' = [risk EXCEPT !.version = @ + 1]
             /\ RefreshProjection(a, object, projection.desired)
        ELSE UNCHANGED <<risk, projection, event>>
=============================================================================
