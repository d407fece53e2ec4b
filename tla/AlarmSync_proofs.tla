-------------------------- MODULE AlarmSync_proofs ---------------------------
(***************************************************************************)
(* Proofs about AlarmSync, for every number of workers, episodes, alarms    *)
(* and attempts, with late writes and clearing users or without.            *)
(***************************************************************************)
EXTENDS AlarmSync, AlarmIntents_proofs

\* The variables that AlarmSync adds have their types.
SyncTypes == /\ clerk \in [Clerks -> Briefs]
             /\ tb \in [AlarmIds -> Alarms]
             /\ late \subseteq Writes
             /\ courier \in [Owners -> Couriers]

\* A worker that is not idle has an event that was written.
Engaged == \A w \in Owners : courier[w].pc # "idle" =>
             courier[w].event \in Versions /\ courier[w].event <= risk.version

\* Only an alert without news of an order allows one, and its forecast is of a
\* round whose intent was written.
Sound == \A a \in Alerts :
           /\ alert[a].allowed => alert[a].care = "PENDING_APPROVAL"
           /\ alert[a].risk = "ABSENT" => alert[a].care = "PENDING_APPROVAL"
           /\ alert[a].run <= risk.version

\* Details d of the row: the forecast may be of an earlier round, and if the
\* alert is over, d may not know.
Shows(d, row) == /\ d.version = row.version /\ d.care = row.care
                 /\ d.allowed = row.allowed /\ d.run <= row.run
                 /\ row.risk = "ACTIVE" => d.risk = "ACTIVE"

\* The projection shows the alert of the risk row.
Detailed == risk.alert # None => Shows(projection.details, alert[risk.alert])

\* What a clerk saw of an alert is not newer than the alert.
Informed ==
  \A k \in Clerks : clerk[k].alert # None =>
    /\ alert[clerk[k].alert].risk # "ABSENT"
    /\ ~clerk[k].seen.allowed /\ ~alert[clerk[k].alert].allowed
    /\ alert[clerk[k].alert].risk = "ACTIVE" => clerk[k].seen.risk = "ACTIVE"
    /\ clerk[k].seen.run <= alert[clerk[k].alert].run
    /\ clerk[k].alert = risk.alert => clerk[k].seen.version <= risk.version

SyncInv == IntentsInv /\ SyncTypes /\ Engaged /\ Sound /\ Detailed /\ Informed

LEMMA SyncInitially == Init => SyncInv
<1> SUFFICES ASSUME Init PROVE SyncInv
  OBVIOUS
<1>1. IntentsInv
  BY IntentsInitially DEF Init
<1>2. SyncTypes
  <2>1. NoAlert \in AlertRows
    BY BoundsAssumption DEF NoAlert, AlertRows, CareStates
  <2>2. NoAlarm \in Alarms /\ Idle \in Couriers /\ NoBrief \in Briefs
    BY <2>1 DEF NoAlarm, Alarms, Idle, Couriers, NoBrief, Briefs
  <2>3. QED
    BY <2>2 DEF Init, SyncTypes
<1>3. Engaged /\ Detailed /\ Informed
  BY DEF Init, IntentsInit, Idle, NoBrief, Engaged, Detailed, Informed
<1>4. Sound
  BY DEF Init, IntentsInit, NoAlert, Sound
<1>5. QED
  BY <1>1, <1>2, <1>3, <1>4 DEF SyncInv

-----------------------------------------------------------------------------
(* The parts that steps are made of.                                       *)

LEMMA CourierTypes ==
  ASSUME SyncInv, NEW w \in Owners
  PROVE  /\ courier[w] \in Couriers
         /\ Idle \in Couriers
         /\ \A r \in Couriers : [courier EXCEPT ![w] = r] \in [Owners -> Couriers]
         /\ courier[w].pc # "idle" =>
              /\ courier[w].event \in Versions /\ courier[w].event \in Nat
              /\ risk.version \in Nat /\ courier[w].event <= risk.version
              /\ event[courier[w].event] \in Events
              /\ event[courier[w].event].alert \in Alerts
              /\ event[courier[w].event].status # "ABSENT"
<1> USE BoundsAssumption
<1>1. NoAlert \in AlertRows
  BY DEF NoAlert, AlertRows, CareStates
<1>2. Idle \in Couriers
  BY <1>1 DEF Idle, Couriers
<1>3. courier[w] \in Couriers
  BY DEF SyncInv, SyncTypes
<1>4. ASSUME courier[w].pc # "idle"
      PROVE  /\ courier[w].event \in Versions /\ courier[w].event \in Nat
             /\ risk.version \in Nat /\ courier[w].event <= risk.version
             /\ event[courier[w].event] \in Events
             /\ event[courier[w].event].alert \in Alerts
             /\ event[courier[w].event].status # "ABSENT"
  <2>1. courier[w].event \in Versions /\ courier[w].event <= risk.version
    BY <1>4 DEF SyncInv, Engaged
  <2>2. courier[w].event \in Nat /\ risk.version \in Nat
    BY <2>1, OneActive DEF SyncInv, Versions
  <2>3. event[courier[w].event] \in Events
    BY <2>1 DEF SyncInv, IntentsInv, IntentsTypeOK
  <2>4. ~(risk.version < courier[w].event)
    BY <2>1, <2>2
  <2>5. /\ event[courier[w].event].alert # None
        /\ event[courier[w].event].status # "ABSENT"
    BY <2>1, <2>4 DEF SyncInv, IntentsInv, Numbered
  <2>6. QED
    BY <2>1, <2>2, <2>3, <2>5 DEF Events
<1>5. QED
  BY <1>2, <1>3, <1>4 DEF SyncInv, SyncTypes

\* A worker whose record becomes r, and nothing else that the invariant
\* speaks of: the new record needs an event that was written.
LEMMA CourierKeeps ==
  ASSUME SyncInv, NEW w \in Owners, NEW r \in Couriers,
         courier' = [courier EXCEPT ![w] = r],
         r.pc = "idle" \/ (courier[w].pc # "idle" /\ r.event = courier[w].event),
         tb' \in [AlarmIds -> Alarms], late' \subseteq Writes,
         IntentsInv', UNCHANGED <<risk, alert, clerk>>,
         projection'.details = projection.details
  PROVE  SyncInv'
<1>1. SyncTypes'
  BY CourierTypes DEF SyncInv, SyncTypes
<1>2. Engaged'
  <2> SUFFICES ASSUME NEW u \in Owners, courier'[u].pc # "idle"
               PROVE  courier'[u].event \in Versions /\ courier'[u].event <= risk'.version
    BY DEF Engaged
  <2>1. CASE u = w
    <3>1. courier'[u] = r
      BY <2>1 DEF SyncInv, SyncTypes
    <3>2. QED
      BY <2>1, <3>1, CourierTypes
  <2>2. CASE u # w
    <3>1. courier'[u] = courier[u]
      BY <2>2 DEF SyncInv, SyncTypes
    <3>2. QED
      BY <3>1 DEF SyncInv, Engaged
  <2>3. QED
    BY <2>1, <2>2
<1>3. Sound' /\ Detailed' /\ Informed'
  BY DEF SyncInv, Sound, Detailed, Informed
<1>4. QED
  BY <1>1, <1>2, <1>3 DEF SyncInv

\* Nothing the intents speak of has changed.
LEMMA SameIntents ==
  ASSUME SyncInv, UNCHANGED <<risk, alert, projection, event>>
  PROVE  IntentsInv'
BY DEF SyncInv, IntentsInv, IntentsTypeOK, Truthful, Numbered, Newest

\* An event ends or goes back to waiting; when it is superseded, it is not the
\* newest.
LEMMA FinishKeeps ==
  ASSUME SyncInv, NEW w \in Owners, courier[w].pc # "idle",
         NEW status \in EventStatuses \ {"ABSENT"},
         FinishEvent(w, status), UNCHANGED <<risk, alert>>,
         status = "SUPERSEDED" /\ Mine(w) => projection.alert # event[courier[w].event].alert,
         projection' \in Projections, projection'.alert = projection.alert,
         projection'.desired = projection.desired,
         projection'.version = projection.version
  PROVE  IntentsInv'
<1> DEFINE v == courier[w].event
           e == [event[v] EXCEPT !.status = status, !.owner = None]
<1>1. v \in Versions /\ event[v] \in Events /\ event[v].status # "ABSENT"
  BY CourierTypes
<1>2. event \in [Versions -> Events]
  BY DEF SyncInv, IntentsInv, IntentsTypeOK
<1>3. e \in Events /\ e.alert = event[v].alert /\ e.status = status
  BY <1>1 DEF Events
<1>4. event' = IF Mine(w) THEN [event EXCEPT ![v] = e] ELSE event
  BY <1>2 DEF FinishEvent
<1> HIDE DEF e, v
<1>5. /\ event' \in [Versions -> Events]
      /\ \A u \in Versions :
           /\ event'[u].alert = event[u].alert
           /\ event'[u].status = "ABSENT" <=> event[u].status = "ABSENT"
           /\ event'[u].status = "SUPERSEDED" =>
                event[u].status = "SUPERSEDED" \/ event[u].alert # projection.alert
  <2>1. CASE Mine(w)
    <3>1. event' = [event EXCEPT ![v] = e]
      BY <1>4, <2>1
    <3>2. ASSUME NEW u \in Versions PROVE event'[u] = IF u = v THEN e ELSE event[u]
      BY <1>2, <3>1
    <3>3. status = "SUPERSEDED" => event[v].alert # projection.alert
      BY <2>1 DEF v
    <3>4. QED
      BY <1>1, <1>2, <1>3, <3>1, <3>2, <3>3
  <2>2. CASE ~Mine(w)
    BY <1>2, <1>4, <2>2
  <2>3. QED
    BY <2>1, <2>2
<1>6. QED
  BY <1>5, OutboxKeeps DEF SyncInv

\* A step of the intents.
LEMMA IntendKeeps ==
  ASSUME SyncInv, IntentsInv', UNCHANGED <<tb, late, courier>>, clerk' \in [Clerks -> Briefs],
         Sound', Detailed', Informed',
         risk'.version \in Nat, risk.version <= risk'.version
  PROVE  SyncInv'
<1>1. SyncTypes'
  BY DEF SyncInv, SyncTypes
<1>2. Engaged'
  <2> SUFFICES ASSUME NEW u \in Owners, courier[u].pc # "idle"
               PROVE  courier[u].event \in Versions /\ courier[u].event <= risk'.version
    BY DEF Engaged
  <2>1. QED
    BY CourierTypes
<1>3. QED
  BY <1>1, <1>2 DEF SyncInv

\* The numbers of the alerts and of what the clerks saw.
LEMMA Numbers ==
  ASSUME SyncInv
  PROVE  /\ risk.version \in Nat /\ alert \in [Alerts -> AlertRows]
         /\ \A a \in Alerts : alert[a].version \in Nat /\ alert[a].run \in Nat
         /\ clerk \in [Clerks -> Briefs]
         /\ \A k \in Clerks : /\ clerk[k].seen \in AlertRows
                              /\ clerk[k].alert \in Alerts \cup {None}
                              /\ clerk[k].seen.version \in Nat /\ clerk[k].seen.run \in Nat
BY OneActive, BoundsAssumption DEF SyncInv, SyncTypes, Briefs, AlertRows

\* A round opens an episode, goes on with it or ends it, or the approver acts:
\* the alert becomes r, and the projection shows it.
LEMMA RowKeeps ==
  ASSUME SyncInv, IntentsInv', UNCHANGED <<clerk, tb, late, courier>>,
         NEW a \in Alerts, NEW r \in AlertRows,
         alert' = [alert EXCEPT ![a] = r], projection'.details = r,
         risk'.alert = a, risk'.version = risk.version + 1,
         r.allowed => r.care = "PENDING_APPROVAL", r.risk # "ABSENT",
         r.run \in {risk.version + 1, alert[a].run},
         \/ alert[a].risk = "ABSENT"
         \/ risk.alert = a /\ alert[a].risk = "ACTIVE" /\ (r.allowed => alert[a].allowed)
  PROVE  SyncInv'
<1>1. /\ alert'[a] = r /\ \A b \in Alerts : b # a => alert'[b] = alert[b]
      /\ risk.version \in Nat /\ r.run \in Nat /\ r.run <= risk.version + 1
      /\ alert[a].run \in Nat /\ alert[a].run <= risk.version
  BY Numbers DEF SyncInv, Sound
<1>2. Sound'
  <2> SUFFICES ASSUME NEW b \in Alerts
               PROVE  /\ alert'[b].allowed => alert'[b].care = "PENDING_APPROVAL"
                      /\ alert'[b].risk = "ABSENT" => alert'[b].care = "PENDING_APPROVAL"
                      /\ alert'[b].run <= risk'.version
    BY DEF Sound
  <2>1. CASE b = a
    BY <1>1, <2>1
  <2>2. CASE b # a
    BY <1>1, <2>2, Numbers DEF SyncInv, Sound
  <2>3. QED
    BY <2>1, <2>2
<1>3. Detailed'
  BY <1>1 DEF Detailed, Shows
<1>4. Informed'
  <2> SUFFICES ASSUME NEW k \in Clerks, clerk[k].alert # None
               PROVE  /\ alert'[clerk[k].alert].risk # "ABSENT"
                      /\ ~clerk[k].seen.allowed /\ ~alert'[clerk[k].alert].allowed
                      /\ alert'[clerk[k].alert].risk = "ACTIVE" => clerk[k].seen.risk = "ACTIVE"
                      /\ clerk[k].seen.run <= alert'[clerk[k].alert].run
                      /\ clerk[k].alert = risk'.alert => clerk[k].seen.version <= risk'.version
    BY DEF Informed
  <2>1. CASE clerk[k].alert = a
    <3>1. /\ risk.alert = a /\ alert[a].risk = "ACTIVE" /\ (r.allowed => alert[a].allowed)
          /\ ~clerk[k].seen.allowed /\ ~alert[a].allowed /\ clerk[k].seen.risk = "ACTIVE"
          /\ clerk[k].seen.run <= alert[a].run /\ clerk[k].seen.version <= risk.version
      BY <2>1 DEF SyncInv, Informed
    <3>2. clerk[k].seen.run \in Nat /\ clerk[k].seen.version \in Nat
      BY Numbers
    <3>3. QED
      BY <1>1, <2>1, <3>1, <3>2
  <2>2. CASE clerk[k].alert # a
    <3>1. clerk[k].alert \in Alerts
      BY Numbers
    <3>2. QED
      BY <1>1, <2>2, <3>1 DEF SyncInv, Informed
  <2>3. QED
    BY <2>1, <2>2
<1>5. QED
  BY <1>1, <1>2, <1>3, <1>4, Numbers, IntendKeeps

\* What ThingsBoard holds after a write.
LEMMA ServeTypes ==
  ASSUME SyncInv, NEW w \in Writes, NEW i \in AlarmIds, Serve(w, i)
  PROVE  tb' \in [AlarmIds -> Alarms]
<1>1. tb[i] \in Alarms /\ w.alert \in Alerts /\ w.details \in AlertRows /\ w.desired \in BOOLEAN
  BY DEF SyncInv, SyncTypes, Writes
<1>2. PICK revive \in BOOLEAN :
        tb' = [tb EXCEPT ![i] =
                 [alert |-> w.alert,
                  details |-> IF w.desired THEN w.details ELSE tb[i].details,
                  active |-> w.desired /\ (w.target = None \/ tb[i].active \/ revive)]]
  BY DEF Serve
<1>3. [alert |-> w.alert,
       details |-> IF w.desired THEN w.details ELSE tb[i].details,
       active |-> w.desired /\ (w.target = None \/ tb[i].active \/ revive)] \in Alarms
  BY <1>1 DEF Alarms
<1>4. QED
  BY <1>2, <1>3 DEF SyncInv, SyncTypes

LEMMA WriteTypes ==
  ASSUME SyncInv, NEW w \in Owners, courier[w].pc # "idle"
  PROVE  WriteOf(w) \in Writes
<1>1. courier[w] \in Couriers /\ event[courier[w].event].alert \in Alerts
  BY CourierTypes
<1>2. QED
  BY <1>1 DEF WriteOf, Writes, Couriers

\* The records that Fails and Answered leave.
LEMMA AfterRequest ==
  ASSUME SyncInv, NEW w \in Owners, courier[w].pc # "idle",
         \/ Fails(w)
         \/ \E i \in AlarmIds \cup {None} : Answered(w, i)
  PROVE  \E r \in Couriers : courier' = [courier EXCEPT ![w] = r] /\ r.event = courier[w].event
<1>1. courier[w] \in Couriers /\ Idle \in Couriers
  BY CourierTypes
<1>2. CASE Fails(w)
  <2>1. [Idle EXCEPT !.pc = "failed", !.event = courier[w].event] \in Couriers
    BY <1>1 DEF Couriers
  <2>2. [Idle EXCEPT !.pc = "failed", !.event = courier[w].event].event = courier[w].event
    BY <1>1 DEF Couriers
  <2>3. QED
    BY <1>2, <2>1, <2>2 DEF Fails
<1>3. ASSUME NEW i \in AlarmIds \cup {None}, Answered(w, i)
      PROVE  \E r \in Couriers : courier' = [courier EXCEPT ![w] = r] /\ r.event = courier[w].event
  <2> DEFINE r == [Idle EXCEPT !.pc = "save", !.event = courier[w].event,
                               !.desired = courier[w].desired, !.alarm = i]
  <2>1. r \in Couriers /\ r.event = courier[w].event
    BY <1>1 DEF Couriers
  <2>2. courier' = [courier EXCEPT ![w] = r]
    BY <1>3 DEF Answered
  <2> HIDE DEF r
  <2>3. QED
    BY <2>1, <2>2
<1>4. QED
  BY <1>2, <1>3

-----------------------------------------------------------------------------
(* The steps.                                                              *)

\* A risk transition, or the approver's.
LEMMA TransitionStep ==
  ASSUME SyncInv, UNCHANGED <<clerk, tb, late, courier>>, NEW a \in Alerts,
         Raise(a, Busy) \/ Continue(a) \/ Clear(a) \/ OrderAlert(a) \/ CloseAlert(a)
  PROVE  SyncInv'
<1>0. /\ IntentsInv /\ IntentsTypeOK /\ risk.version \in Nat
      /\ alert \in [Alerts -> AlertRows] /\ alert[a] \in AlertRows
  BY Numbers DEF SyncInv, IntentsInv
<1>1. IntentsInv'
  <2>1. Busy \in BOOLEAN
    BY DEF Busy
  <2>2. QED
    BY <1>0, <2>1, RaiseKeeps, ContinueKeeps, ClearKeeps, OrderAlertKeeps, CloseAlertKeeps
<1>2. \A r : alert' = [alert EXCEPT ![a] = r] => r \in AlertRows
  BY <1>0, <1>1 DEF IntentsInv, IntentsTypeOK
<1>3. CASE Raise(a, Busy)
  <2> DEFINE row == [risk |-> "ACTIVE",
                     care |-> IF Busy THEN "SUPPRESSED_ACTIVE_WORK_ORDER"
                                      ELSE "PENDING_APPROVAL",
                     allowed |-> ~Busy, version |-> 1, run |-> risk.version + 1]
  <2>1. /\ risk' = [active |-> TRUE, alert |-> a, version |-> risk.version + 1]
        /\ alert' = [alert EXCEPT ![a] = row] /\ ReplaceProjection(a, row, TRUE)
        /\ alert[a].risk = "ABSENT"
    BY <1>3 DEF Raise, NextEpisode
  <2>2. /\ row.allowed => row.care = "PENDING_APPROVAL"
        /\ row.risk # "ABSENT" /\ row.run = risk.version + 1
    OBVIOUS
  <2>3. row \in AlertRows
    BY <1>2, <2>1
  <2> HIDE DEF row
  <2>4. projection'.details = row
    BY <1>0, <2>1, <2>3, Replacing
  <2>5. QED
    BY <1>1, <2>1, <2>2, <2>3, <2>4, RowKeeps
<1>4. CASE Continue(a)
  <2> DEFINE row == [alert[a] EXCEPT !.version = @ + 1, !.run = risk.version + 1]
  <2>1. /\ risk' = [risk EXCEPT !.version = @ + 1] /\ risk.alert = a /\ risk.active
        /\ alert' = [alert EXCEPT ![a] = row] /\ ReplaceProjection(a, row, TRUE)
    BY <1>4 DEF Continue
  <2>2. alert[a].risk = "ACTIVE"
    BY <1>0, <2>1 DEF IntentsInv, Truthful
  <2>3. /\ row.allowed = alert[a].allowed /\ row.care = alert[a].care
        /\ row.risk = alert[a].risk /\ row.run = risk.version + 1
    BY <1>0 DEF AlertRows
  <2>4. row \in AlertRows
    BY <1>2, <2>1
  <2> HIDE DEF row
  <2>5. projection'.details = row
    BY <1>0, <2>1, <2>4, Replacing
  <2>6. risk'.alert = a /\ risk'.version = risk.version + 1
    BY <1>0, <2>1, OneActive
  <2>7. row.allowed => row.care = "PENDING_APPROVAL"
    BY <2>3 DEF SyncInv, Sound
  <2>8. QED
    BY <1>1, <2>1, <2>2, <2>3, <2>4, <2>5, <2>6, <2>7, RowKeeps
<1>5. CASE Clear(a)
  <2> DEFINE row == [alert[a] EXCEPT !.risk = "CLEARED", !.version = @ + 1,
                                     !.run = risk.version + 1]
  <2>1. /\ risk' = [risk EXCEPT !.active = FALSE, !.version = @ + 1]
        /\ risk.alert = a /\ risk.active
        /\ alert' = [alert EXCEPT ![a] = row] /\ ReplaceProjection(a, row, FALSE)
    BY <1>5 DEF Clear
  <2>2. alert[a].risk = "ACTIVE"
    BY <1>0, <2>1 DEF IntentsInv, Truthful
  <2>3. /\ row.allowed = alert[a].allowed /\ row.care = alert[a].care
        /\ row.risk = "CLEARED" /\ row.run = risk.version + 1
    BY <1>0 DEF AlertRows
  <2>4. row \in AlertRows
    BY <1>2, <2>1
  <2> HIDE DEF row
  <2>5. projection'.details = row
    BY <1>0, <2>1, <2>4, Replacing
  <2>6. risk'.alert = a /\ risk'.version = risk.version + 1
    BY <1>0, <2>1, OneActive
  <2>7. row.allowed => row.care = "PENDING_APPROVAL"
    BY <2>3 DEF SyncInv, Sound
  <2>8. QED
    BY <1>1, <2>1, <2>2, <2>3, <2>4, <2>5, <2>6, <2>7, RowKeeps
<1>6. CASE OrderAlert(a)
  <2> DEFINE row == [alert[a] EXCEPT !.care = "WORK_ORDER_CREATING", !.allowed = FALSE,
                                     !.version = @ + 1]
  <2>1. /\ risk' = [active |-> TRUE, alert |-> a, version |-> risk.version + 1]
        /\ risk.alert = a /\ alert' = [alert EXCEPT ![a] = row]
        /\ projection'.details = alert'[a]
    BY <1>0, <1>6, OrderAlertKeeps
  <2>2. alert[a].risk = "ACTIVE"
    BY <1>6 DEF OrderAlert, Actionable
  <2>3. /\ row.allowed = FALSE /\ row.risk = alert[a].risk /\ row.run = alert[a].run
    BY <1>0 DEF AlertRows
  <2>4. row \in AlertRows
    BY <1>2, <2>1
  <2> HIDE DEF row
  <2>5. projection'.details = row
    BY <1>0, <2>1
  <2>6. QED
    BY <1>1, <2>1, <2>2, <2>3, <2>4, <2>5, RowKeeps
<1>7. CASE CloseAlert(a)
  <2> DEFINE row == [alert[a] EXCEPT !.risk = "MANUALLY_CLOSED", !.allowed = FALSE,
                                     !.version = @ + 1]
  <2>1. /\ risk' = [risk EXCEPT !.active = FALSE, !.version = @ + 1]
        /\ alert' = [alert EXCEPT ![a] = row] /\ RefreshProjection(a, row, FALSE)
        /\ alert[a].risk = "ACTIVE"
    BY <1>7 DEF CloseAlert
  <2>2. risk.alert = a
    BY <1>0, <2>1 DEF IntentsInv, Truthful
  <2>3. /\ row.allowed = FALSE /\ row.risk = "MANUALLY_CLOSED" /\ row.run = alert[a].run
    BY <1>0 DEF AlertRows
  <2>4. row \in AlertRows
    BY <1>2, <2>1
  <2> HIDE DEF row
  <2>5. projection'.details = row
    BY <1>0, <2>1, <2>4, Refreshing
  <2>6. risk'.alert = a /\ risk'.version = risk.version + 1
    BY <1>0, <2>1, <2>2, OneActive
  <2>7. QED
    BY <1>1, <2>1, <2>2, <2>3, <2>4, <2>5, <2>6, RowKeeps
<1>8. QED
  BY <1>3, <1>4, <1>5, <1>6, <1>7

\* A clerk sees an alert, or lets go of it.
LEMMA LookStep ==
  ASSUME SyncInv, UNCHANGED <<risk, alert, projection, event, tb, late, courier>>,
         NEW k \in Clerks, TellNothing(k) \/ \E a \in Alerts : SeeAlert(k, a)
  PROVE  SyncInv'
<1>1. IntentsInv'
  BY SameIntents
<1>2. PICK b \in Briefs :
        /\ clerk' = [clerk EXCEPT ![k] = b]
        /\ \/ b.alert = None
           \/ /\ b.alert \in Alerts /\ b.seen = alert[b.alert]
              /\ alert[b.alert].care \in ActiveOrderStates
  <2>1. CASE TellNothing(k)
    <3>1. NoBrief \in Briefs /\ NoBrief.alert = None
      BY BoundsAssumption DEF NoBrief, Briefs, NoAlert, AlertRows, CareStates
    <3>2. QED
      BY <2>1, <3>1 DEF TellNothing, Dismiss
  <2>2. ASSUME NEW a \in Alerts, SeeAlert(k, a)
        PROVE  \E b \in Briefs : /\ clerk' = [clerk EXCEPT ![k] = b]
                                 /\ b.alert \in Alerts /\ b.seen = alert[b.alert]
                                 /\ alert[b.alert].care \in ActiveOrderStates
    <3>1. [alert |-> a, seen |-> alert[a]] \in Briefs
      BY Numbers DEF Briefs
    <3>2. QED
      BY <2>2, <3>1 DEF SeeAlert
  <2>3. QED
    BY <2>1, <2>2
<1>3. clerk' \in [Clerks -> Briefs]
  BY <1>2, Numbers
<1>4. Sound' /\ Detailed'
  BY DEF SyncInv, Sound, Detailed
<1>5. Informed'
  <2> SUFFICES ASSUME NEW j \in Clerks, clerk'[j].alert # None
               PROVE  /\ alert[clerk'[j].alert].risk # "ABSENT"
                      /\ ~clerk'[j].seen.allowed /\ ~alert[clerk'[j].alert].allowed
                      /\ alert[clerk'[j].alert].risk = "ACTIVE" => clerk'[j].seen.risk = "ACTIVE"
                      /\ clerk'[j].seen.run <= alert[clerk'[j].alert].run
                      /\ clerk'[j].alert = risk.alert => clerk'[j].seen.version <= risk.version
    BY DEF Informed
  <2>1. CASE j = k
    <3>1. /\ clerk'[j] = b /\ b.alert \in Alerts /\ b.seen = alert[b.alert]
          /\ alert[b.alert].care # "PENDING_APPROVAL"
      BY <1>2, <2>1, Numbers DEF ActiveOrderStates
    <3>2. ~alert[b.alert].allowed /\ alert[b.alert].risk # "ABSENT"
      BY <3>1 DEF SyncInv, Sound
    <3>3. b.alert = risk.alert => alert[b.alert].version <= risk.version
      BY <3>1, NullAssumption DEF SyncInv, IntentsInv, Numbered
    <3>4. QED
      BY <3>1, <3>2, <3>3, Numbers
  <2>2. CASE j # k
    BY <1>2, <2>2, Numbers DEF SyncInv, Informed
  <2>3. QED
    BY <2>1, <2>2
<1>6. QED
  BY <1>1, <1>3, <1>4, <1>5, Numbers, IntendKeeps

\* A clerk tells the alert its news.
LEMMA NewsStep ==
  ASSUME SyncInv, UNCHANGED <<tb, late, courier>>,
         NEW k \in Clerks, NEW care \in News, TellNews(k, care)
  PROVE  SyncInv'
<1> DEFINE a == clerk[k].alert
           seen == clerk[k].seen
<1>1. /\ a \in Alerts /\ seen \in AlertRows /\ TellAlert(a, seen, care)
      /\ clerk' = [clerk EXCEPT ![k] = NoBrief]
      /\ clerk \in [Clerks -> Briefs] /\ alert \in [Alerts -> AlertRows]
      /\ alert[a] \in AlertRows
  BY Numbers DEF TellNews, Dismiss
<1>2. /\ care \in CareStates /\ care # "PENDING_APPROVAL"
  BY NewsAssumption DEF CareStates, ActiveOrderStates
<1>3. /\ alert[a].risk # "ABSENT" /\ ~seen.allowed /\ ~alert[a].allowed
      /\ alert[a].risk = "ACTIVE" => seen.risk = "ACTIVE"
      /\ seen.run <= alert[a].run
      /\ a = risk.alert => seen.version <= risk.version
  BY <1>1, NullAssumption DEF SyncInv, Informed
<1> HIDE DEF a, seen
<1>4. /\ IntentsInv'
      /\ risk'.alert = risk.alert /\ risk'.version \in Nat /\ risk.version <= risk'.version
      /\ projection.alert = a =>
           /\ projection'.details.version = seen.version + 1
           /\ projection'.details.care = care
           /\ projection'.details.risk = seen.risk
           /\ projection'.details.allowed = seen.allowed
           /\ projection'.details.run = seen.run
      /\ projection.alert # a => UNCHANGED <<risk, projection, event>>
      /\ alert'[a].risk = alert[a].risk /\ alert'[a].allowed = alert[a].allowed
      /\ alert'[a].run = alert[a].run /\ alert'[a].care = care
      /\ alert'[a].version = seen.version + 1
      /\ \A b \in Alerts : b # a => alert'[b] = alert[b]
  <2>1. IntentsInv
    BY DEF SyncInv
  <2>2. QED
    BY <1>1, <1>2, <1>3, <2>1, Telling
<1>5. clerk' \in [Clerks -> Briefs] /\ NoBrief.alert = None
  <2>1. NoBrief \in Briefs
    BY BoundsAssumption DEF NoBrief, Briefs, NoAlert, AlertRows, CareStates
  <2>2. QED
    BY <1>1, <2>1 DEF NoBrief
<1>6. Sound'
  <2> SUFFICES ASSUME NEW b \in Alerts
               PROVE  /\ alert'[b].allowed => alert'[b].care = "PENDING_APPROVAL"
                      /\ alert'[b].risk = "ABSENT" => alert'[b].care = "PENDING_APPROVAL"
                      /\ alert'[b].run <= risk'.version
    BY DEF Sound
  <2>1. alert[b].run <= risk.version /\ alert[b].run \in Nat /\ risk.version \in Nat
    BY Numbers DEF SyncInv, Sound
  <2>2. alert'[b].run <= risk'.version
    BY <1>4, <2>1
  <2>3. CASE b = a
    BY <1>3, <1>4, <2>2, <2>3
  <2>4. CASE b # a
    BY <1>4, <2>2, <2>4 DEF SyncInv, Sound
  <2>5. QED
    BY <2>3, <2>4
<1>7. Detailed'
  <2> SUFFICES ASSUME risk.alert # None
               PROVE  Shows(projection'.details, alert'[risk.alert])
    BY <1>4 DEF Detailed
  <2>1. projection.alert = risk.alert /\ risk.alert \in Alerts
    BY OneActive DEF SyncInv
  <2>2. CASE projection.alert = a
    <3>1. seen.allowed = FALSE /\ alert[a].allowed = FALSE
      BY <1>1, <1>3 DEF AlertRows
    <3>2. QED
      BY <1>3, <1>4, <2>1, <2>2, <3>1 DEF Shows
  <2>3. CASE projection.alert # a
    BY <1>4, <2>1, <2>3 DEF SyncInv, Detailed
  <2>4. QED
    BY <2>2, <2>3
<1>8. Informed'
  <2> SUFFICES ASSUME NEW j \in Clerks, clerk'[j].alert # None
               PROVE  /\ alert'[clerk'[j].alert].risk # "ABSENT"
                      /\ ~clerk'[j].seen.allowed /\ ~alert'[clerk'[j].alert].allowed
                      /\ alert'[clerk'[j].alert].risk = "ACTIVE" => clerk'[j].seen.risk = "ACTIVE"
                      /\ clerk'[j].seen.run <= alert'[clerk'[j].alert].run
                      /\ clerk'[j].alert = risk'.alert => clerk'[j].seen.version <= risk'.version
    BY DEF Informed
  <2>1. clerk'[j] = clerk[j] /\ clerk[j].alert \in Alerts
    BY <1>1, <1>5, Numbers
  <2>2. /\ alert[clerk[j].alert].risk # "ABSENT"
        /\ ~clerk[j].seen.allowed /\ ~alert[clerk[j].alert].allowed
        /\ alert[clerk[j].alert].risk = "ACTIVE" => clerk[j].seen.risk = "ACTIVE"
        /\ clerk[j].seen.run <= alert[clerk[j].alert].run
        /\ clerk[j].alert = risk.alert => clerk[j].seen.version <= risk.version
    BY <2>1, NullAssumption DEF SyncInv, Informed
  <2>3. /\ alert'[clerk[j].alert].risk = alert[clerk[j].alert].risk
        /\ alert'[clerk[j].alert].allowed = alert[clerk[j].alert].allowed
        /\ alert'[clerk[j].alert].run = alert[clerk[j].alert].run
    BY <1>4, <2>1
  <2>4. clerk[j].seen.version \in Nat /\ risk.version \in Nat
    BY Numbers
  <2>5. QED
    BY <1>4, <2>1, <2>2, <2>3, <2>4
<1>9. QED
  BY <1>4, <1>5, <1>6, <1>7, <1>8, IntendKeeps

LEMMA IntendStep == SyncInv /\ Intend => SyncInv'
<1> SUFFICES ASSUME SyncInv, Intend PROVE SyncInv'
  OBVIOUS
<1>0. UNCHANGED <<tb, late, courier>> /\ IntentsInv
  BY DEF Intend, SyncInv
<1>1. ASSUME NEW a \in Alerts, UNCHANGED clerk,
             Raise(a, Busy) \/ Continue(a) \/ Clear(a) \/ Approve(a)
      PROVE  SyncInv'
  BY <1>0, <1>1, TransitionStep DEF Approve
<1>2. CASE ClearUnalerted /\ UNCHANGED clerk
  <2>1. IntentsInv'
    BY <1>0, <1>2, ClearUnalertedKeeps
  <2>2. /\ risk'.version = risk.version /\ risk'.alert = risk.alert
        /\ UNCHANGED <<alert, projection>>
    BY <1>0, <1>2, OneActive DEF ClearUnalerted
  <2>3. Sound' /\ Detailed' /\ Informed'
    BY <1>2, <2>2 DEF SyncInv, Sound, Detailed, Informed
  <2>4. QED
    BY <1>0, <1>2, <2>1, <2>2, <2>3, Numbers, IntendKeeps
<1>3. ASSUME NEW k \in Clerks, TellNothing(k) \/ \E a \in Alerts : SeeAlert(k, a)
      PROVE  SyncInv'
  <2>1. UNCHANGED <<risk, alert, projection, event>>
    BY <1>3 DEF TellNothing, SeeAlert, intents
  <2>2. QED
    BY <1>0, <1>3, <2>1, LookStep
<1>4. ASSUME NEW k \in Clerks, NEW care \in News, TellNews(k, care) PROVE SyncInv'
  BY <1>0, <1>4, NewsStep
<1>5. QED
  BY <1>1, <1>2, <1>3, <1>4 DEF Intend

LEMMA ClaimStep == ASSUME SyncInv, NEW w \in Owners, ClaimSync(w) PROVE SyncInv'
<1>0. UNCHANGED <<risk, alert, clerk, projection, tb, late>>
  BY DEF ClaimSync
<1>1. PICK S \in SUBSET InFlight :
        LET freed == ExpireLeases(S)
        IN \/ /\ Due(freed) = {} /\ S # {}
              /\ event' = freed
              /\ UNCHANGED courier
           \/ \E v \in Due(freed) :
                /\ event' = [freed EXCEPT ![v].status = "IN_FLIGHT",
                                          ![v].owner = w,
                                          ![v].attempt = @ + 1]
                /\ courier' = [courier EXCEPT ![w] = [Idle EXCEPT !.pc = "read",
                                                                  !.event = v]]
  BY DEF ClaimSync
<1> DEFINE freed == ExpireLeases(S)
<1>2. event \in [Versions -> Events]
  BY DEF SyncInv, IntentsInv, IntentsTypeOK
<1>3. /\ freed \in [Versions -> Events]
      /\ \A v \in Versions : /\ freed[v].alert = event[v].alert
                             /\ freed[v].status = "ABSENT" <=> event[v].status = "ABSENT"
                             /\ freed[v].status = "SUPERSEDED" => event[v].status = "SUPERSEDED"
  <2> SUFFICES ASSUME NEW v \in Versions
               PROVE  /\ freed[v] \in Events /\ freed[v].alert = event[v].alert
                      /\ freed[v].status = "ABSENT" <=> event[v].status = "ABSENT"
                      /\ freed[v].status = "SUPERSEDED" => event[v].status = "SUPERSEDED"
    BY DEF ExpireLeases
  <2>1. event[v] \in Events
    BY <1>2
  <2>2. CASE v \in S
    <3>1. freed[v] = [event[v] EXCEPT !.status = "RETRY_WAIT", !.owner = None]
      BY <2>2 DEF ExpireLeases
    <3>2. event[v].status = "IN_FLIGHT"
      BY <2>2 DEF InFlight
    <3>3. QED
      BY <2>1, <3>1, <3>2 DEF Events, EventStatuses, Waiting
  <2>3. CASE v \notin S
    BY <2>1, <2>3 DEF ExpireLeases
  <2>4. QED
    BY <2>2, <2>3
<1> HIDE DEF freed
<1>4. CASE event' = freed /\ UNCHANGED courier
  <2>1. projection' \in Projections
    BY <1>0 DEF SyncInv, IntentsInv, IntentsTypeOK
  <2>2. IntentsInv'
    BY <1>0, <1>3, <1>4, <2>1, OutboxKeeps DEF SyncInv
  <2>3. QED
    BY <1>0, <1>4, <2>2 DEF SyncInv, SyncTypes, Engaged, Sound, Detailed, Informed
<1>5. ASSUME NEW v \in Due(freed),
             event' = [freed EXCEPT ![v].status = "IN_FLIGHT", ![v].owner = w,
                                    ![v].attempt = @ + 1],
             courier' = [courier EXCEPT ![w] = [Idle EXCEPT !.pc = "read", !.event = v]]
      PROVE  SyncInv'
  <2> DEFINE e == [freed[v] EXCEPT !.status = "IN_FLIGHT", !.owner = w, !.attempt = @ + 1]
             r == [Idle EXCEPT !.pc = "read", !.event = v]
  <2>1. v \in Versions /\ freed[v].status \in Waiting /\ freed[v].attempt < MaxAttempts
    BY DEF Due
  <2>2. freed[v] \in Events
    BY <1>3, <2>1
  <2>3. e \in Events /\ e.alert = event[v].alert /\ e.status = "IN_FLIGHT"
    <3>1. freed[v].attempt + 1 \in 0..MaxAttempts
      BY <2>1, <2>2, BoundsAssumption DEF Events
    <3>2. QED
      BY <1>3, <2>1, <2>2, <3>1 DEF Events, EventStatuses
  <2>4. event' = [freed EXCEPT ![v] = e]
    BY <1>3, <1>5, <2>1
  <2> HIDE DEF e
  <2>5. event' \in [Versions -> Events]
    BY <1>3, <2>3, <2>4
  <2>6. ASSUME NEW u \in Versions
        PROVE  /\ event'[u].alert = event[u].alert
               /\ event'[u].status = "ABSENT" <=> event[u].status = "ABSENT"
               /\ event'[u].status = "SUPERSEDED" => event[u].status = "SUPERSEDED"
    <3>1. CASE u = v
      BY <1>3, <2>1, <2>3, <2>4, <3>1 DEF Waiting
    <3>2. CASE u # v
      BY <1>3, <2>4, <3>2
    <3>3. QED
      BY <3>1, <3>2
  <2>7. projection' \in Projections
    BY <1>0 DEF SyncInv, IntentsInv, IntentsTypeOK
  <2>8. IntentsInv'
    BY <1>0, <2>5, <2>6, <2>7, OutboxKeeps DEF SyncInv
  <2>9. r \in Couriers /\ r.event = v
    BY <2>1, CourierTypes DEF Couriers
  <2> HIDE DEF r
  <2>10. courier' = [courier EXCEPT ![w] = r] /\ courier \in [Owners -> Couriers]
    BY <1>5 DEF r, SyncInv, SyncTypes
  <2>11. v <= risk.version
    <3>1. freed[v].status # "ABSENT"
      BY <2>1 DEF Waiting
    <3>2. ~(risk.version < v) /\ risk.version \in Nat /\ v \in Nat
      BY <1>3, <2>1, <3>1, OneActive DEF SyncInv, IntentsInv, Numbered, Versions
    <3>3. QED
      BY <3>2
  <2>12. SyncTypes'
    BY <1>0, <2>9, <2>10 DEF SyncInv, SyncTypes
  <2>13. Engaged'
    <3> SUFFICES ASSUME NEW u \in Owners, courier'[u].pc # "idle"
                 PROVE  courier'[u].event \in Versions /\ courier'[u].event <= risk'.version
      BY DEF Engaged
    <3>1. CASE u = w
      BY <1>0, <2>1, <2>9, <2>10, <2>11, <3>1
    <3>2. CASE u # w
      BY <1>0, <2>10, <3>2 DEF SyncInv, Engaged
    <3>3. QED
      BY <3>1, <3>2
  <2>14. Sound' /\ Detailed' /\ Informed'
    BY <1>0 DEF SyncInv, Sound, Detailed, Informed
  <2>15. QED
    BY <2>8, <2>12, <2>13, <2>14 DEF SyncInv
<1>6. QED
  BY <1>1, <1>4, <1>5 DEF freed

LEMMA DeliverStep ==
  ASSUME SyncInv, NEW w \in Owners, Deliver(w) \/ Crash(w) PROVE SyncInv'
<1> DEFINE c == courier[w]
<1>0. /\ c \in Couriers /\ Idle \in Couriers /\ Idle.pc = "idle"
      /\ tb \in [AlarmIds -> Alarms] /\ late \subseteq Writes
      /\ projection \in Projections
  BY CourierTypes DEF SyncInv, SyncTypes, Idle, IntentsInv, IntentsTypeOK
<1>1. CASE ReadProjection(w)
  <2>1. c.pc = "read" /\ UNCHANGED <<risk, alert, clerk, projection, tb, late>>
    BY <1>1 DEF ReadProjection
  <2>2. CASE Mine(w) /\ projection.alert = event[c.event].alert
    <3> DEFINE r == [c EXCEPT !.pc = "find", !.desired = projection.desired,
                              !.details = projection.details, !.known = projection.alarm]
    <3>1. courier' = [courier EXCEPT ![w] = r] /\ UNCHANGED event
      BY <1>1, <2>2 DEF ReadProjection, SyncInv, SyncTypes
    <3>2. r \in Couriers /\ r.event = c.event
      BY <1>0 DEF Couriers, Projections
    <3> HIDE DEF r
    <3>3. QED
      BY <1>0, <2>1, <3>1, <3>2, SameIntents, CourierKeeps
  <2>3. CASE ~(Mine(w) /\ projection.alert = event[c.event].alert)
    <3>1. FinishEvent(w, "SUPERSEDED") /\ courier' = [courier EXCEPT ![w] = Idle]
      BY <1>1, <2>3 DEF ReadProjection, Rest
    <3>2. "SUPERSEDED" \in EventStatuses \ {"ABSENT"}
      BY DEF EventStatuses
    <3>3. IntentsInv'
      BY <1>0, <2>1, <2>3, <3>1, <3>2, FinishKeeps
    <3>4. QED
      BY <1>0, <2>1, <3>1, <3>3, CourierKeeps
  <2>4. QED
    BY <2>2, <2>3
<1>2. CASE FindAlarm(w)
  <2>1. /\ c.pc = "find" /\ UNCHANGED <<risk, alert, clerk, projection, event, tb, late>>
    BY <1>2 DEF FindAlarm
  <2>2. CASE Fails(w)
    BY <1>0, <2>1, <2>2, AfterRequest, SameIntents, CourierKeeps
  <2>3. CASE courier' = [courier EXCEPT ![w].pc = "write"]
    <3>1. [c EXCEPT !.pc = "write"] \in Couriers /\ [c EXCEPT !.pc = "write"].event = c.event
      BY <1>0 DEF Couriers
    <3>2. courier' = [courier EXCEPT ![w] = [c EXCEPT !.pc = "write"]]
      BY <2>3 DEF SyncInv, SyncTypes
    <3>3. QED
      BY <1>0, <2>1, <3>1, <3>2, SameIntents, CourierKeeps
  <2>4. ASSUME NEW i \in AlarmIds,
               courier' = [courier EXCEPT ![w].pc = "write", ![w].alarm = i]
        PROVE  SyncInv'
    <3> DEFINE r == [c EXCEPT !.pc = "write", !.alarm = i]
    <3>1. r \in Couriers /\ r.event = c.event
      BY <1>0 DEF Couriers
    <3>2. courier' = [courier EXCEPT ![w] = r]
      BY <2>4 DEF SyncInv, SyncTypes
    <3> HIDE DEF r
    <3>3. QED
      BY <1>0, <2>1, <3>1, <3>2, SameIntents, CourierKeeps
  <2>5. QED
    BY <1>2, <2>2, <2>3, <2>4 DEF FindAlarm, Shown
<1>3. ASSUME NEW answered \in BOOLEAN, WriteAlarm(w, answered) PROVE SyncInv'
  <2>1. /\ c.pc = "write" /\ UNCHANGED <<risk, alert, clerk, projection, event, late>>
    BY <1>3 DEF WriteAlarm
  <2>2. PICK i \in AlarmIds : /\ Serve(WriteOf(w), i)
                              /\ IF answered THEN Answered(w, i) ELSE Fails(w)
    BY <1>3 DEF WriteAlarm
  <2>3. tb' \in [AlarmIds -> Alarms]
    BY <2>1, <2>2, WriteTypes, ServeTypes
  <2>4. QED
    BY <1>0, <2>1, <2>2, <2>3, AfterRequest, SameIntents, CourierKeeps
<1>4. CASE SkipWrite(w)
  <2>1. /\ c.pc = "write" /\ UNCHANGED <<risk, alert, clerk, projection, event, tb, late>>
        /\ Answered(w, None)
    BY <1>4 DEF SkipWrite
  <2>2. QED
    BY <1>0, <2>1, AfterRequest, SameIntents, CourierKeeps
<1>5. CASE WriteTimesOut(w)
  <2>1. /\ c.pc = "write" /\ UNCHANGED <<risk, alert, clerk, projection, event, tb>>
        /\ late' = late \cup {WriteOf(w)} /\ Fails(w)
    BY <1>5 DEF WriteTimesOut
  <2>2. late' \subseteq Writes
    BY <1>0, <2>1, WriteTypes
  <2>3. QED
    BY <1>0, <2>1, <2>2, AfterRequest, SameIntents, CourierKeeps
<1>6. CASE RequestFails(w)
  <2>1. /\ c.pc # "idle" /\ UNCHANGED <<risk, alert, clerk, projection, event, tb, late>>
        /\ Fails(w)
    BY <1>6 DEF RequestFails
  <2>2. QED
    BY <1>0, <2>1, AfterRequest, SameIntents, CourierKeeps
<1>7. CASE RetrySync(w)
  <2> DEFINE status == IF event[c.event].attempt >= MaxAttempts
                       THEN "DEAD_LETTER" ELSE "RETRY_WAIT"
  <2>1. /\ c.pc # "idle" /\ UNCHANGED <<risk, alert, clerk, projection, tb, late>>
        /\ FinishEvent(w, status) /\ courier' = [courier EXCEPT ![w] = Idle]
    BY <1>7 DEF RetrySync, Rest
  <2>2. status \in EventStatuses \ {"ABSENT"} /\ status # "SUPERSEDED"
    BY DEF EventStatuses, Waiting
  <2> HIDE DEF status
  <2>3. IntentsInv'
    BY <1>0, <2>1, <2>2, FinishKeeps
  <2>4. QED
    BY <1>0, <2>1, <2>3, CourierKeeps
<1>8. CASE SaveAlarm(w)
  <2>1. /\ c.pc # "idle" /\ UNCHANGED <<risk, alert, clerk, tb, late>>
        /\ courier' = [courier EXCEPT ![w] = Idle]
    BY <1>8 DEF SaveAlarm, Rest
  <2>2. CASE UNCHANGED <<projection, event>>
    BY <1>0, <2>1, <2>2, SameIntents, CourierKeeps
  <2>3. CASE projection' = [projection EXCEPT !.alarm = c.alarm] /\ FinishEvent(w, "DELIVERED")
    <3>1. /\ projection' \in Projections
          /\ projection'.alert = projection.alert /\ projection'.desired = projection.desired
          /\ projection'.version = projection.version
          /\ projection'.details = projection.details
      BY <1>0, <2>3 DEF Projections, Couriers
    <3>2. "DELIVERED" \in EventStatuses \ {"ABSENT"}
      BY DEF EventStatuses
    <3>3. IntentsInv'
      BY <1>0, <2>1, <2>3, <3>1, <3>2, FinishKeeps
    <3>4. QED
      BY <1>0, <2>1, <3>1, <3>3, CourierKeeps
  <2>4. QED
    BY <1>8, <2>2, <2>3 DEF SaveAlarm
<1>9. CASE SaveCleared(w)
  <2>1. /\ c.pc # "idle" /\ UNCHANGED <<risk, alert, clerk, projection, tb, late>>
        /\ FinishEvent(w, "DELIVERED") /\ courier' = [courier EXCEPT ![w] = Idle]
    BY <1>9 DEF SaveCleared, Rest
  <2>2. "DELIVERED" \in EventStatuses \ {"ABSENT"}
    BY DEF EventStatuses
  <2>3. IntentsInv'
    BY <1>0, <2>1, <2>2, FinishKeeps
  <2>4. QED
    BY <1>0, <2>1, <2>3, CourierKeeps
<1>10. CASE Crash(w)
  <2>1. /\ UNCHANGED <<risk, alert, clerk, projection, event, tb, late>>
        /\ courier' = [courier EXCEPT ![w] = Idle]
    BY <1>10 DEF Crash, Rest
  <2>2. QED
    BY <1>0, <2>1, SameIntents, CourierKeeps
<1>11. QED
  BY <1>1, <1>2, <1>3, <1>4, <1>5, <1>6, <1>7, <1>8, <1>9, <1>10 DEF Deliver

\* A step in ThingsBoard alone.
LEMMA BoardStep ==
  ASSUME SyncInv, UNCHANGED <<risk, alert, clerk, projection, event, courier>>,
         tb' \in [AlarmIds -> Alarms], late' \subseteq late
  PROVE  SyncInv'
<1>1. IntentsInv'
  BY SameIntents
<1>2. QED
  BY <1>1 DEF SyncInv, SyncTypes, Engaged, Sound, Detailed, Informed

LEMMA SyncStep == SyncInv /\ [Next]_vars => SyncInv'
<1> SUFFICES ASSUME SyncInv, [Next]_vars PROVE SyncInv'
  OBVIOUS
<1>1. CASE Intend
  BY <1>1, IntendStep
<1>2. ASSUME NEW w \in Owners, ClaimSync(w) PROVE SyncInv'
  BY <1>2, ClaimStep
<1>3. ASSUME NEW w \in Owners, Deliver(w) \/ Crash(w) PROVE SyncInv'
  BY <1>3, DeliverStep
<1>4. ASSUME NEW w \in late, ServeLate(w) PROVE SyncInv'
  <2>1. PICK i \in AlarmIds : Serve(w, i)
    BY <1>4 DEF ServeLate
  <2>2. w \in Writes
    BY DEF SyncInv, SyncTypes
  <2>3. tb' \in [AlarmIds -> Alarms]
    BY <2>1, <2>2, ServeTypes
  <2>4. QED
    BY <1>4, <2>3, BoardStep DEF ServeLate
<1>5. ASSUME NEW i \in AlarmIds, UserClear(i) PROVE SyncInv'
  <2>1. tb' \in [AlarmIds -> Alarms]
    <3>1. tb[i] \in Alarms
      BY DEF SyncInv, SyncTypes
    <3>2. [tb[i] EXCEPT !.active = FALSE] \in Alarms
      BY <3>1 DEF Alarms
    <3>3. QED
      BY <1>5, <3>2 DEF UserClear, SyncInv, SyncTypes
  <2>2. QED
    BY <1>5, <2>1, BoardStep DEF UserClear
<1>6. CASE UNCHANGED vars
  BY <1>6, BoardStep DEF vars, SyncInv, SyncTypes
<1>7. QED
  BY <1>1, <1>2, <1>3, <1>4, <1>5, <1>6 DEF Next

LEMMA SyncInvariance == Safety => []SyncInv
<1>1. Init => SyncInv
  BY SyncInitially
<1>2. SyncInv /\ [Next]_vars => SyncInv'
  BY SyncStep
<1>3. QED
  BY <1>1, <1>2, PTL DEF Safety

\* What the invariant says of the intents.
LEMMA Truth == ASSUME SyncInv PROVE IntentsTellTheTruth
<1>1. Truthful
  BY DEF SyncInv, IntentsInv
<1>2. ASSUME risk.alert # None
      PROVE  Tells(projection.details,
                   IF risk.active THEN alert[risk.alert]
                   ELSE [alert[risk.alert] EXCEPT !.risk = projection.details.risk])
  <2> DEFINE d == projection.details
             row == alert[risk.alert]
  <2>1. risk.alert \in Alerts /\ d \in AlertRows /\ row \in AlertRows
    BY <1>2 DEF SyncInv, IntentsInv, IntentsTypeOK, Projections
  <2>2. /\ d.version = row.version /\ d.care = row.care
        /\ d.allowed = row.allowed /\ d.run <= row.run
        /\ row.risk = "ACTIVE" => d.risk = "ACTIVE"
    BY <1>2 DEF SyncInv, Detailed, Shows
  <2>3. row.risk = "ACTIVE" <=> risk.active
    BY <1>1, <2>1 DEF Truthful
  <2> HIDE DEF d, row
  <2>4. CASE risk.active
    BY <2>1, <2>2, <2>3, <2>4 DEF Tells, AlertRows, d, row
  <2>5. CASE ~risk.active
    BY <2>1, <2>2, <2>5 DEF Tells, AlertRows, d, row
  <2>6. QED
    BY <2>4, <2>5
<1>3. QED
  BY <1>1, <1>2 DEF Truthful, IntentsTellTheTruth

-----------------------------------------------------------------------------
(* What holds of every behaviour.                                          *)

\* Every variable of AlarmSync keeps its type.
THEOREM SyncTypeCorrect == Safety => []TypeOK
<1>1. SyncInv => TypeOK
  BY DEF SyncInv, SyncTypes, IntentsInv, TypeOK
<1>2. QED
  BY <1>1, SyncInvariance, PTL

\* The risk row, the alerts and the projection agree after every transaction,
\* but the forecast in the projection may be that of an earlier round, when
\* news of a work order was computed from an alert read before a round (apply
\* and the refreshes of closed_loop.py, _queue_alarm_details).
THEOREM TrueIntents == Safety => []IntentsTellTheTruth
<1>1. SyncInv => IntentsTellTheTruth
  BY Truth
<1>2. QED
  BY <1>1, SyncInvariance, PTL

\* The newest intent is never lost to a worker, to a lease or to superseding
\* (supersede, _replace_projection).
THEOREM NewestSurvives == Safety => []NewestIntentSurvives
<1>1. SyncInv => NewestIntentSurvives
  <2> SUFFICES ASSUME SyncInv, projection.alert # None
               PROVE  /\ event[projection.version].alert = projection.alert
                      /\ event[projection.version].status \notin {"ABSENT", "SUPERSEDED"}
    BY DEF NewestIntentSurvives
  <2>1. /\ risk.alert = projection.alert /\ projection.version = risk.version
        /\ risk.version \in Versions
        /\ event[risk.version].alert = risk.alert
        /\ event[risk.version].status # "SUPERSEDED"
    BY DEF SyncInv, IntentsInv, Truthful, Newest
  <2>2. ~(risk.version < risk.version)
    BY OneActive DEF SyncInv
  <2>3. event[risk.version].status # "ABSENT"
    BY <2>1, <2>2 DEF SyncInv, IntentsInv, Numbered
  <2>4. QED
    BY <2>1, <2>3
<1>2. QED
  BY <1>1, SyncInvariance, PTL

\* An alarm identity on record stays for the episode (save_alarm_id).
THEOREM IdentityIsKept == Safety => IdentityStays
<1> DEFINE Stays == projection.alarm # None /\ projection'.alert = projection.alert
                      => projection'.alarm = projection.alarm
<1>1. ASSUME SyncInv, [Next]_vars PROVE [Stays]_vars
  <2>0. IntentsInv /\ IntentsTypeOK /\ IntentsInv'
    BY <1>1, SyncStep DEF SyncInv, IntentsInv
  <2>1. ASSUME NEW a \in Alerts, NEW row \in AlertRows, NEW desired \in BOOLEAN,
               \/ ReplaceProjection(a, row, desired)
               \/ RefreshProjection(a, row, desired)
        PROVE  Stays
    BY <2>0, <2>1, Replacing, Refreshing
  <2>2. CASE Intend
    <3>1. \A a \in Alerts : \A r : alert' = [alert EXCEPT ![a] = r] => r \in AlertRows
      BY <2>0 DEF IntentsInv, IntentsTypeOK
    <3>2. projection.desired \in BOOLEAN
      BY <2>0 DEF IntentsTypeOK, Projections
    <3>3. CASE ClearUnalerted
      BY <3>3 DEF ClearUnalerted
    <3>4. ASSUME NEW a \in Alerts, Raise(a, Busy) PROVE Stays
      BY <2>1, <3>1, <3>4 DEF Raise
    <3>5. ASSUME NEW a \in Alerts, Continue(a) \/ Clear(a) PROVE Stays
      BY <2>1, <3>1, <3>5 DEF Continue, Clear
    <3>6. ASSUME NEW a \in Alerts, Approve(a) PROVE Stays
      <4>1. CASE OrderAlert(a)
        BY <2>0, <4>1, OrderAlertKeeps
      <4>2. CASE CloseAlert(a)
        BY <2>1, <3>1, <4>2 DEF CloseAlert
      <4>3. QED
        BY <3>6, <4>1, <4>2 DEF Approve
    <3>7. ASSUME NEW k \in Clerks, NEW care \in News, TellNews(k, care) PROVE Stays
      <4>1. /\ clerk[k].alert \in Alerts /\ clerk[k].seen \in AlertRows
            /\ TellAlert(clerk[k].alert, clerk[k].seen, care)
        BY <1>1, <3>7, Numbers DEF TellNews
      <4>2. care \in CareStates
        BY NewsAssumption DEF CareStates
      <4>3. clerk[k].alert = risk.alert => clerk[k].seen.version <= risk.version
        BY <1>1, <4>1, NullAssumption DEF SyncInv, Informed
      <4>4. QED
        BY <2>0, <4>1, <4>2, <4>3, Telling
    <3>8. ASSUME NEW k \in Clerks, TellNothing(k) \/ \E a \in Alerts : SeeAlert(k, a)
          PROVE  Stays
      BY <3>8 DEF TellNothing, SeeAlert, intents
    <3>9. QED
      BY <2>2, <3>3, <3>4, <3>5, <3>6, <3>7, <3>8 DEF Intend
  <2>3. ASSUME NEW w \in Owners, SaveAlarm(w) PROVE Stays
    <3>1. CASE UNCHANGED projection
      BY <3>1
    <3>2. CASE /\ projection' = [projection EXCEPT !.alarm = courier[w].alarm]
               /\ projection.alarm \in {None, courier[w].alarm}
      BY <2>0, <3>2 DEF IntentsTypeOK, Projections
    <3>3. QED
      BY <2>3, <3>1, <3>2 DEF SaveAlarm
  <2>4. CASE UNCHANGED projection
    BY <2>4
  <2>5. ASSUME NEW w \in Owners, Deliver(w), ~SaveAlarm(w) PROVE UNCHANGED projection
    BY <2>5 DEF Deliver, ReadProjection, FindAlarm, WriteAlarm, SkipWrite, WriteTimesOut,
                RequestFails, RetrySync, SaveCleared
  <2>6. QED
    BY <1>1, <2>2, <2>3, <2>4, <2>5
       DEF Next, ClaimSync, Crash, ServeLate, UserClear, vars
<1>2. QED
  BY <1>1, SyncInvariance, PTL DEF Safety, IdentityStays
=============================================================================
