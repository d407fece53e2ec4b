----------------------------- MODULE AlarmSync ------------------------------
(***************************************************************************)
(* The delivery of alarm intents to ThingsBoard: alarm workers that claim a *)
(* TB_ALARM_SYNC event under a lease, read the projection, look the alarm   *)
(* up by its risk identity, write it and record the outcome                 *)
(* (AlarmDeliveryWorker and ClosedLoopDeliveryStore in                      *)
(* services/closed_loop_delivery.py), against a ThingsBoard that may fail,  *)
(* answer too late, or have an alarm cleared by its user.                   *)
(*                                                                         *)
(* Each transaction and each HTTP request is one action, except that a      *)
(* transaction with news of a work order reads the alert before it locks    *)
(* anything and is two.  A worker's lease_owner is its own.                 *)
(***************************************************************************)
EXTENDS AlarmIntents

CONSTANTS Clerks,      \* work order workers and status pollers
          News,        \* maintenance states they may tell an alert
          LateWrites,  \* a write that timed out may still be served later
          UserClears   \* a ThingsBoard user may clear an alarm

ASSUME NewsAssumption == News \subseteq ActiveOrderStates \cup {"WORK_ORDER_COMPLETE"}
ASSUME SwitchAssumption == LateWrites \in BOOLEAN /\ UserClears \in BOOLEAN

VARIABLES clerk,    \* the transactions with news of a work order, begun
          tb,       \* the PDM_FORECAST_RISK alarms in ThingsBoard, by identity
          late,     \* the writes that timed out and are still under way
          courier   \* the alarm workers

vars == <<risk, alert, projection, event, clerk, tb, late, courier>>

-----------------------------------------------------------------------------
\* The alert loaded without a lock, if one is.
Briefs == [alert : Alerts \cup {None}, seen : AlertRows]
NoBrief == [alert |-> None, seen |-> NoAlert]

Alarms == [alert : Alerts \cup {None}, active : BOOLEAN, details : AlertRows]
NoAlarm == [alert |-> None, active |-> FALSE, details |-> NoAlert]

\* POST /api/alarm and POST /api/alarm/{id}/clear.  No target: a new alarm.
Writes == [desired : BOOLEAN, alert : Alerts, details : AlertRows,
           target : AlarmIds \cup {None}]

\* find: projection read; write: alarms listed; save: write answered; failed:
\* a ThingsBoardClientError was raised.
\* known: the tb_alarm_id read with the projection.
\* alarm: the alarm found, then the one written.
Couriers == [pc : {"idle", "read", "find", "write", "save", "failed"},
             event : Versions \cup {None}, desired : BOOLEAN,
             details : AlertRows, known : AlarmIds \cup {None},
             alarm : AlarmIds \cup {None}]

Idle == [pc |-> "idle", event |-> None, desired |-> FALSE,
         details |-> NoAlert, known |-> None, alarm |-> None]

TypeOK == /\ IntentsTypeOK
          /\ clerk \in [Clerks -> Briefs]
          /\ tb \in [AlarmIds -> Alarms]
          /\ late \subseteq Writes
          /\ courier \in [Owners -> Couriers]

Init == /\ IntentsInit
        /\ clerk = [k \in Clerks |-> NoBrief]
        /\ tb = [i \in AlarmIds |-> NoAlarm]
        /\ late = {}
        /\ courier = [w \in Owners |-> Idle]

-----------------------------------------------------------------------------
(* What the rest of the system does to the intents.                        *)

\* An order of the risk key is under way: its state is its alert's.
Busy == \E a \in Alerts : alert[a].care \in ActiveOrderStates

\* The approver acts on an alert once its alarm is known.
Approve(a) == /\ projection.alert = a /\ projection.alarm # None
              /\ OrderAlert(a) \/ CloseAlert(a)

\* The first statement of save_created_work_order and of apply_status.
SeeAlert(k, a) == /\ clerk[k].alert = None
                  /\ alert[a].care \in ActiveOrderStates
                  /\ clerk' = [clerk EXCEPT ![k] = [alert |-> a, seen |-> alert[a]]]
                  /\ UNCHANGED intents

Dismiss(k) == clerk' = [clerk EXCEPT ![k] = NoBrief]

\* The rest of the transaction.
TellNews(k, care) == /\ clerk[k].alert # None
                     /\ TellAlert(clerk[k].alert, clerk[k].seen, care)
                     /\ Dismiss(k)

\* Nothing is new, the lease is lost, or the process dies.
TellNothing(k) == /\ clerk[k].alert # None
                  /\ Dismiss(k)
                  /\ UNCHANGED intents

Intend == /\ \/ /\ \/ \E a \in Alerts : \/ Raise(a, Busy) \/ Continue(a) \/ Clear(a)
                                         \/ Approve(a)
                   \/ ClearUnalerted
                /\ UNCHANGED clerk
             \/ \E k \in Clerks : \/ \E a \in Alerts : SeeAlert(k, a)
                                  \/ \E care \in News : TellNews(k, care)
                                  \/ TellNothing(k)
          /\ UNCHANGED <<tb, late, courier>>

-----------------------------------------------------------------------------
(* ThingsBoard.                                                            *)

Unused(i) == tb[i].alert = None /\ \A j \in AlarmIds : tb[j].alert = None => i <= j

\* Write w is served, by the creation or an update of alarm i.  Whether the
\* update of an alarm cleared meanwhile revives it is left open.
Serve(w, i) ==
  /\ IF w.target = None THEN Unused(i) ELSE i = w.target
  /\ \E revive \in BOOLEAN :
       tb' = [tb EXCEPT ![i] =
                [alert |-> w.alert,
                 details |-> IF w.desired THEN w.details ELSE @.details,
                 active |-> w.desired /\ (w.target = None \/ @.active \/ revive)]]

ServeLate(w) == /\ \E i \in AlarmIds : Serve(w, i)
                /\ late' = late \ {w}
                /\ UNCHANGED <<risk, alert, clerk, projection, event, courier>>

UserClear(i) == /\ UserClears
                /\ tb[i].active
                /\ tb' = [tb EXCEPT ![i].active = FALSE]
                /\ UNCHANGED <<risk, alert, clerk, projection, event, late, courier>>

-----------------------------------------------------------------------------
(* The lease: claim_outbox and the finishers of an event.                  *)

\* Mutant: leases last.
ExpireNothing(S) == event

\* Leases of 30 seconds run out on the events S: those of dead workers, or of
\* workers whose three requests of up to 10 seconds took too long.
ExpireLeases(S) ==
  [v \in Versions |->
     IF v \in S THEN [event[v] EXCEPT !.status = "RETRY_WAIT", !.owner = None]
     ELSE event[v]]

\* Mutant: the attempts are not counted.
DueForever(rows) == {v \in Versions : rows[v].status \in Waiting}

\* The events claim_outbox may take.
Due(rows) == {v \in Versions : /\ rows[v].status \in Waiting
                               /\ rows[v].attempt < MaxAttempts}

InFlight == {v \in Versions : event[v].status = "IN_FLIGHT"}

\* claim_outbox: expired leases go back to waiting, and one event that has
\* attempts left is taken, if there is one.
ClaimSync(w) ==
  /\ courier[w].pc = "idle"
  /\ \E S \in SUBSET InFlight :
       LET freed == ExpireLeases(S)
       IN \/ /\ Due(freed) = {} /\ S # {}
             /\ event' = freed
             /\ UNCHANGED courier
          \/ \E v \in Due(freed) :
               /\ event' = [freed EXCEPT ![v].status = "IN_FLIGHT",
                                         ![v].owner = w,
                                         ![v].attempt = @ + 1]
               /\ courier' = [courier EXCEPT ![w] = [Idle EXCEPT !.pc = "read",
                                                                 !.event = v]]
  /\ UNCHANGED <<risk, alert, clerk, projection, tb, late>>

\* The guard of every finisher.
Mine(w) == LET v == courier[w].event
           IN event[v].status = "IN_FLIGHT" /\ event[v].owner = w

\* The event of w gets the status, if the lease is still its own.
FinishEvent(w, status) ==
  event' = IF Mine(w)
           THEN [event EXCEPT ![courier[w].event].status = status,
                              ![courier[w].event].owner = None]
           ELSE event

Rest(w) == courier' = [courier EXCEPT ![w] = Idle]

-----------------------------------------------------------------------------
(* AlarmDeliveryWorker.run_once.                                           *)

\* alarm_delivery: the projection as it is now, or none, and then the event
\* is superseded.
ReadProjection(w) ==
  /\ courier[w].pc = "read"
  /\ IF Mine(w) /\ projection.alert = event[courier[w].event].alert
     THEN /\ courier' = [courier EXCEPT ![w].pc = "find",
                                        ![w].desired = projection.desired,
                                        ![w].details = projection.details,
                                        ![w].known = projection.alarm]
          /\ UNCHANGED event
     ELSE FinishEvent(w, "SUPERSEDED") /\ Rest(w)
  /\ UNCHANGED <<risk, alert, clerk, projection, tb, late>>

\* A request failed; only the event is still of use.
Fails(w) == courier' = [courier EXCEPT ![w] = [Idle EXCEPT !.pc = "failed",
                                                       !.event = courier[w].event]]

\* The write is answered.
Answered(w, i) ==
  courier' = [courier EXCEPT ![w] = [Idle EXCEPT !.pc = "save", !.event = courier[w].event,
                                                 !.desired = courier[w].desired, !.alarm = i]]

Shown(a) == {i \in AlarmIds : tb[i].active /\ tb[i].alert = a}

\* Mutant: nothing is looked up.
FindNothing(w) == /\ courier[w].pc = "find"
                  /\ courier' = [courier EXCEPT ![w].pc = "write"]
                  /\ UNCHANGED <<risk, alert, clerk, projection, event, tb, late>>

\* find_pdm_alarm: two alarms of one identity are an error.
FindAlarm(w) ==
  LET found == Shown(event[courier[w].event].alert)
  IN /\ courier[w].pc = "find"
     /\ \/ found = {} /\ courier' = [courier EXCEPT ![w].pc = "write"]
        \/ \E i \in found : /\ found = {i}
                            /\ courier' = [courier EXCEPT ![w].pc = "write",
                                                          ![w].alarm = i]
        \/ /\ Cardinality(found) > 1
           /\ Fails(w)
     /\ UNCHANGED <<risk, alert, clerk, projection, event, tb, late>>

\* Mutant: only an alarm on record is cleared.
WriteOfKnown(w) ==
  LET c == courier[w]
  IN [desired |-> c.desired, alert |-> event[c.event].alert,
      details |-> c.details,
      target |-> IF c.desired THEN c.alarm ELSE c.known]

\* The write of w: an upsert, or the clearing of the alarm found or known.
WriteOf(w) ==
  LET c == courier[w]
  IN [desired |-> c.desired, alert |-> event[c.event].alert,
      details |-> c.details,
      target |-> IF c.alarm # None \/ c.desired THEN c.alarm ELSE c.known]

NothingToClear(w) == ~WriteOf(w).desired /\ WriteOf(w).target = None

\* The write is served; its answer arrives, or not.
WriteAlarm(w, answered) ==
  /\ courier[w].pc = "write" /\ ~NothingToClear(w)
  /\ \E i \in AlarmIds :
       /\ Serve(WriteOf(w), i)
       /\ IF answered THEN Answered(w, i) ELSE Fails(w)
  /\ UNCHANGED <<risk, alert, clerk, projection, event, late>>

SkipWrite(w) == /\ courier[w].pc = "write" /\ NothingToClear(w)
                /\ Answered(w, None)
                /\ UNCHANGED <<risk, alert, clerk, projection, event, tb, late>>

\* THINGSBOARD_WRITE_RESULT_UNKNOWN, and the write is still under way.
WriteTimesOut(w) == /\ LateWrites
                    /\ courier[w].pc = "write" /\ ~NothingToClear(w)
                    /\ late' = late \cup {WriteOf(w)}
                    /\ Fails(w)
                    /\ UNCHANGED <<risk, alert, clerk, projection, event, tb>>

\* A request fails without effect.
RequestFails(w) == /\ courier[w].pc \in {"find", "write"}
                   /\ Fails(w)
                   /\ UNCHANGED <<risk, alert, clerk, projection, event, tb, late>>

\* retry(): back to waiting, or a dead letter after the last attempt.
RetrySync(w) ==
  /\ courier[w].pc = "failed"
  /\ FinishEvent(w, IF event[courier[w].event].attempt >= MaxAttempts
                    THEN "DEAD_LETTER" ELSE "RETRY_WAIT")
  /\ Rest(w)
  /\ UNCHANGED <<risk, alert, clerk, projection, tb, late>>

\* Mutant: the identity on record is not compared.
SaveAnyAlarm(w) ==
  LET c == courier[w]
  IN /\ c.pc = "save" /\ c.desired
     /\ IF Mine(w) /\ projection.alert = event[c.event].alert
        THEN /\ projection' = [projection EXCEPT !.alarm = c.alarm]
             /\ FinishEvent(w, "DELIVERED")
        ELSE UNCHANGED <<projection, event>>
     /\ Rest(w)
     /\ UNCHANGED <<risk, alert, clerk, tb, late>>

\* save_alarm_id after an upsert.  Nothing happens when the projection or the
\* lease is gone; another identity than the one on record raises
\* THINGSBOARD_ALARM_IDENTITY_CONFLICT, which ends the process and leaves the
\* event to its lease.
SaveAlarm(w) ==
  LET c == courier[w]
  IN /\ c.pc = "save" /\ c.desired
     /\ IF /\ Mine(w)
           /\ projection.alert = event[c.event].alert
           /\ projection.alarm \in {None, c.alarm}
        THEN /\ projection' = [projection EXCEPT !.alarm = c.alarm]
             /\ FinishEvent(w, "DELIVERED")
        ELSE UNCHANGED <<projection, event>>
     /\ Rest(w)
     /\ UNCHANGED <<risk, alert, clerk, tb, late>>

\* delivered() after a clear.
SaveCleared(w) == /\ courier[w].pc = "save" /\ ~courier[w].desired
                  /\ FinishEvent(w, "DELIVERED")
                  /\ Rest(w)
                  /\ UNCHANGED <<risk, alert, clerk, projection, tb, late>>

\* The process dies, and is started again.
Crash(w) == /\ courier[w].pc # "idle"
            /\ Rest(w)
            /\ UNCHANGED <<risk, alert, clerk, projection, event, tb, late>>

-----------------------------------------------------------------------------
Deliver(w) == \/ ReadProjection(w) \/ FindAlarm(w)
              \/ \E answered \in BOOLEAN : WriteAlarm(w, answered)
              \/ SkipWrite(w) \/ WriteTimesOut(w) \/ RequestFails(w)
              \/ RetrySync(w) \/ SaveAlarm(w) \/ SaveCleared(w)

Next == \/ Intend
        \/ \E w \in Owners : ClaimSync(w) \/ Deliver(w) \/ Crash(w)
        \/ \E w \in late : ServeLate(w)
        \/ \E i \in AlarmIds : UserClear(i)

Safety == Init /\ [][Next]_vars

\* The loop of the command runs every five seconds, and requests time out.
Fairness == \A w \in Owners : WF_vars(ClaimSync(w) \/ Deliver(w))

Spec == Safety /\ Fairness

-----------------------------------------------------------------------------
(* What the synchronisation promises.                                      *)

\* The details are those of the alert as it is, except that the forecast may
\* be that of an earlier round.
Tells(details, row) == details.run <= row.run /\ [details EXCEPT !.run = row.run] = row

\* The alert that is active is the one the risk row points to.  The projection
\* is of that alert, or of the last one, wants an alarm exactly while it is
\* active, and then has its details, though order news written over a round in
\* between takes the forecast back to the round before.  Of an alert that is
\* over version and maintenance state are right (apply, the refreshes that
\* share a transaction with every change of an alert, _queue_alarm_details).
IntentsTellTheTruth ==
  /\ \A a \in Alerts : alert[a].risk = "ACTIVE" <=> risk.active /\ risk.alert = a
  /\ projection.alert = risk.alert
  /\ risk.alert # None =>
       LET row == alert[risk.alert]
       IN /\ projection.desired = risk.active
          /\ projection.version = risk.version
          /\ Tells(projection.details, IF risk.active THEN row
                                       ELSE [row EXCEPT !.risk = projection.details.risk])

\* Superseding never loses the newest intent: its event waits, is on its way,
\* was delivered or is a dead letter (supersede, _replace_projection).
NewestIntentSurvives ==
  projection.alert # None =>
    /\ event[projection.version].alert = projection.alert
    /\ event[projection.version].status \notin {"ABSENT", "SUPERSEDED"}

\* An unknown write result does not give an alert a second alarm
\* (find_pdm_alarm before every write).
OneAlarmPerAlert == \A a \in Alerts : Cardinality(Shown(a)) <= 1

EventsOf(a) == {v \in Versions : event[v].alert = a}

\* The outbox is settled for a, with the last word delivered.
Delivered(a) ==
  /\ \A v \in EventsOf(a) : event[v].status \notin Waiting \cup {"IN_FLIGHT"}
  /\ \E v \in EventsOf(a) : /\ event[v].status = "DELIVERED"
                            /\ \A u \in EventsOf(a) : u <= v

\* Once the last event of an alert is delivered, ThingsBoard shows the alert
\* under the identity on record, with the details of the projection, which are
\* the alert's but for a forecast that order news took back; and no alarm if it
\* is over; for all earlier deliveries, failures, crashes and unknown results.
DeliveredMeansShown ==
  \A a \in Alerts : Delivered(a) =>
    IF alert[a].risk = "ACTIVE"
    THEN /\ Shown(a) = {projection.alarm}
         /\ tb[projection.alarm].details = projection.details
         /\ Tells(projection.details, alert[a])
    ELSE Shown(a) = {}

\* An alert that was cleared can be accepted as such: once its last event is
\* delivered, the alarm on record carries the details of the projection, as
\* _validate_alarm demands of it (stage CLEARED of
\* closed-loop-acceptance-verify).
ClearedIsAcceptable ==
  \A a \in Alerts :
    /\ Delivered(a) /\ alert[a].risk = "CLEARED"
    /\ projection.alert = a /\ projection.alarm # None
    => tb[projection.alarm].details = projection.details

\* An identity on record stays on record for the episode: save_alarm_id
\* never exchanges it.
IdentityStays ==
  [][projection.alarm # None /\ projection'.alert = projection.alert
       => projection'.alarm = projection.alarm]_vars

\* However often it is disturbed, the outbox settles: every event ends as
\* delivered, superseded or a dead letter, or its last attempt was lost with
\* its worker, and nothing ever claims it again (claim_outbox asks for
\* attempt < MAX_ATTEMPTS).
EventsSettle ==
  []<>(\A v \in Versions :
         \/ event[v].status \in {"ABSENT", "DELIVERED", "SUPERSEDED", "DEAD_LETTER"}
         \/ event[v].status = "RETRY_WAIT" /\ event[v].attempt = MaxAttempts)
=============================================================================
