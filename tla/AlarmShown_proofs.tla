-------------------------- MODULE AlarmShown_proofs --------------------------
(***************************************************************************)
(* What ThingsBoard shows of an alert, for one alarm worker and writes that *)
(* are served before they time out: never two alarms, and, when no user     *)
(* clears alarms, the details of the projection once the last event of the  *)
(* alert is delivered.  Every number of episodes, alarms, clerks, versions  *)
(* and attempts.                                                           *)
(***************************************************************************)
EXTENDS AlarmSync_proofs, FiniteSetTheorems

\* The command runs one alarm worker, and no write outlives its request.
Alone == ~LateWrites /\ \A u, w \in Owners : u = w

AlertOf(w) == event[courier[w].event].alert

-----------------------------------------------------------------------------
(* One alarm for every alert.                                              *)

\* The identity on record is one of the alert's alarms.
Recorded == projection.alarm # None =>
              /\ projection.alert # None
              /\ tb[projection.alarm].alert = projection.alert

\* A worker with the record c, at work for alert a: the identity it read is
\* one of a's alarms; what it found is still all there is when it writes; what
\* it wrote is an alarm of a.
Knows(c, a) ==
  /\ c.pc \in {"find", "write"} /\ c.known # None => tb[c.known].alert = a
  /\ c.pc \in {"read", "find"} => c.alarm = None
  /\ c.pc = "write" /\ c.alarm = None => Shown(a) = {}
  /\ c.pc = "write" /\ c.alarm # None => /\ tb[c.alarm].alert = a
                                         /\ Shown(a) \subseteq {c.alarm}
                                         /\ UserClears \/ tb[c.alarm].active
  /\ c.pc = "save" /\ c.desired => c.alarm # None /\ tb[c.alarm].alert = a

Single == \A a \in Alerts : \A i, j \in Shown(a) : i = j

OneInv == /\ late = {} /\ Recorded /\ Single
          /\ \A w \in Owners : courier[w].pc # "idle" => Knows(courier[w], AlertOf(w))

-----------------------------------------------------------------------------
(* The steps, seen from an alert and from the outbox.                      *)

\* A transaction of the rest of the system writes at most one intent, for the
\* alert it changes.
LEMMA Intending ==
  ASSUME SyncInv, Intend
  PROVE  /\ UNCHANGED <<tb, late, courier>>
         /\ \/ /\ UNCHANGED <<projection, event>>
               /\ \A b \in Alerts : alert'[b].risk = alert[b].risk
            \/ \E a \in Alerts : \E S :
                 /\ Enqueue(a, S)
                 /\ \A b \in Alerts : b # a => alert'[b] = alert[b]
                 /\ projection'.alert = a
                 /\ projection'.alarm = IF projection.alert = a THEN projection.alarm ELSE None
<1>0. /\ UNCHANGED <<tb, late, courier>> /\ IntentsTypeOK /\ alert \in [Alerts -> AlertRows]
      /\ IntentsInv'
  BY IntendStep DEF Intend, SyncInv, IntentsInv, IntentsTypeOK
<1>1. \A a \in Alerts : \A r : alert' = [alert EXCEPT ![a] = r] => r \in AlertRows
  BY <1>0 DEF IntentsInv, IntentsTypeOK
<1>2. projection.desired \in BOOLEAN
  BY <1>0 DEF IntentsTypeOK, Projections
<1> DEFINE Goal == \E a \in Alerts : \E S :
                 /\ Enqueue(a, S)
                 /\ \A b \in Alerts : b # a => alert'[b] = alert[b]
                 /\ projection'.alert = a
                 /\ projection'.alarm = IF projection.alert = a THEN projection.alarm ELSE None
<1>3. ASSUME NEW a \in Alerts, NEW row, NEW desired \in BOOLEAN,
             alert' = [alert EXCEPT ![a] = row],
             ReplaceProjection(a, row, desired) \/ RefreshProjection(a, row, desired)
      PROVE  Goal
  <2>1. row \in AlertRows
    BY <1>1, <1>3
  <2>2. \A b \in Alerts : b # a => alert'[b] = alert[b]
    BY <1>0, <1>3
  <2>3. CASE ReplaceProjection(a, row, desired)
    BY <1>0, <2>1, <2>2, <2>3, Replacing
  <2>4. CASE RefreshProjection(a, row, desired)
    BY <1>0, <2>1, <2>2, <2>4, Refreshing
  <2>5. QED
    BY <1>3, <2>3, <2>4
<1> HIDE DEF Goal
<1>4. CASE ClearUnalerted
  BY <1>0, <1>4 DEF ClearUnalerted
<1>5. ASSUME NEW a \in Alerts, Raise(a, Busy) PROVE Goal
  BY <1>3, <1>5 DEF Raise
<1>6. ASSUME NEW a \in Alerts, Continue(a) \/ Clear(a) PROVE Goal
  BY <1>3, <1>6 DEF Continue, Clear
<1>7. ASSUME NEW a \in Alerts, Approve(a) PROVE Goal
  BY <1>3, <1>7 DEF Approve, OrderAlert, CloseAlert
<1>8. ASSUME NEW k \in Clerks, NEW care \in News, TellNews(k, care)
      PROVE  \/ Goal
             \/ UNCHANGED <<projection, event>> /\ \A b \in Alerts : alert'[b].risk = alert[b].risk
  <2> DEFINE a == clerk[k].alert
             seen == clerk[k].seen
             object == [seen EXCEPT !.care = care, !.version = @ + 1]
  <2>1. /\ a \in Alerts /\ seen \in AlertRows /\ TellAlert(a, seen, care)
    BY <1>8, Numbers DEF TellNews
  <2>2. care \in CareStates
    BY NewsAssumption DEF CareStates
  <2>3. a = risk.alert => seen.version <= risk.version
    BY <2>1, NullAssumption DEF SyncInv, Informed
  <2>4. IntentsInv
    BY DEF SyncInv
  <2> HIDE DEF a, seen
  <2>5. /\ \A b \in Alerts : b # a => alert'[b] = alert[b]
        /\ \A b \in Alerts : alert'[b].risk = alert[b].risk
    BY <2>1, <2>2, <2>3, <2>4, Telling
  <2>6. CASE projection.alert = a
    <3>1. RefreshProjection(a, object, projection.desired)
      BY <2>1, <2>6 DEF TellAlert
    <3>2. Enqueue(a, {a})
      BY <3>1 DEF RefreshProjection
    <3>3. projection'.alert = a /\ projection'.alarm = projection.alarm
      BY <1>0, <2>6, <3>1 DEF RefreshProjection, IntentsTypeOK, Projections
    <3>4. QED
      BY <2>1, <2>5, <2>6, <3>2, <3>3 DEF Goal
  <2>7. CASE projection.alert # a
    BY <2>1, <2>5, <2>7 DEF TellAlert
  <2>8. QED
    BY <2>6, <2>7
<1>9. ASSUME NEW k \in Clerks, TellNothing(k) \/ \E a \in Alerts : SeeAlert(k, a)
      PROVE  UNCHANGED <<projection, event>> /\ \A b \in Alerts : alert'[b].risk = alert[b].risk
  BY <1>9 DEF TellNothing, SeeAlert, intents
<1>10. QED
  BY <1>0, <1>4, <1>5, <1>6, <1>7, <1>8, <1>9 DEF Intend, Goal

\* Serving the worker's write for alert a changes one alarm, which is a's from
\* then on, and shows a under that alarm alone, or not at all.
LEMMA Serving ==
  ASSUME SyncInv, OneInv, NEW w \in Owners, courier[w].pc = "write", ~NothingToClear(w),
         NEW a \in Alerts, a = AlertOf(w), NEW i \in AlarmIds, Serve(WriteOf(w), i)
  PROVE  /\ tb[i].alert \in {None, a} /\ tb'[i].alert = a
         /\ \A j \in AlarmIds : j # i => tb'[j] = tb[j]
         /\ courier[w].desired => tb'[i].details = courier[w].details
         /\ courier[w].alarm # None => i = courier[w].alarm
         /\ Shown(a)' \subseteq {i}
         /\ ~courier[w].desired => Shown(a)' = {}
         /\ courier[w].desired /\ ~UserClears => Shown(a)' = {i}
         /\ \A b \in Alerts : b # a => Shown(b)' = Shown(b)
<1> DEFINE c == courier[w]
           target == IF c.alarm # None \/ c.desired THEN c.alarm ELSE c.known
<1>1. /\ c \in Couriers /\ tb \in [AlarmIds -> Alarms] /\ Knows(c, a)
      /\ WriteOf(w) = [desired |-> c.desired, alert |-> a, details |-> c.details,
                       target |-> target]
  BY CourierTypes DEF SyncInv, SyncTypes, OneInv, WriteOf, AlertOf
<1>2. a # None
  BY NullAssumption
<1>3. c.desired \/ target # None
  BY <1>1 DEF NothingToClear, Couriers
<1> DEFINE served(revive) == [alert |-> a, details |-> IF c.desired THEN c.details ELSE tb[i].details,
                              active |-> c.desired /\ (target = None \/ tb[i].active \/ revive)]
<1>4. /\ IF target = None THEN Unused(i) ELSE i = target
      /\ \E revive \in BOOLEAN : tb' = [tb EXCEPT ![i] = served(revive)]
  <2>1. /\ WriteOf(w).desired = c.desired /\ WriteOf(w).alert = a
        /\ WriteOf(w).details = c.details /\ WriteOf(w).target = target
    BY <1>1
  <2>2. /\ IF WriteOf(w).target = None THEN Unused(i) ELSE i = WriteOf(w).target
        /\ \E revive \in BOOLEAN :
             tb' = [tb EXCEPT ![i] =
               [alert |-> WriteOf(w).alert,
                details |-> IF WriteOf(w).desired THEN WriteOf(w).details ELSE tb[i].details,
                active |-> WriteOf(w).desired
                             /\ (WriteOf(w).target = None \/ tb[i].active \/ revive)]]
    BY DEF Serve
  <2> HIDE DEF target, c
  <2>3. QED
    BY <2>1, <2>2
<1>5. PICK revive \in BOOLEAN : tb' = [tb EXCEPT ![i] = served(revive)]
  BY <1>4
<1>6. /\ tb'[i].alert = a
      /\ tb'[i].active = (c.desired /\ (target = None \/ tb[i].active \/ revive))
      /\ c.desired => tb'[i].details = c.details
      /\ \A j \in AlarmIds : j # i => tb'[j] = tb[j]
  BY <1>1, <1>5
<1>7. tb[i].alert \in {None, a}
  <2>1. CASE target = None
    BY <1>4, <2>1 DEF Unused
  <2>2. CASE target # None
    BY <1>1, <1>4, <2>2 DEF Knows
  <2>3. QED
    BY <2>1, <2>2
<1>8. \A b \in Alerts : b # a => Shown(b)' = Shown(b)
  <2> SUFFICES ASSUME NEW b \in Alerts, b # a PROVE Shown(b)' = Shown(b)
    OBVIOUS
  <2>1. b # None
    BY NullAssumption
  <2>2. ASSUME NEW j \in AlarmIds
        PROVE  tb'[j].active /\ tb'[j].alert = b <=> tb[j].active /\ tb[j].alert = b
    BY <1>6, <1>7, <2>1
  <2>3. QED
    BY <2>2 DEF Shown
<1>9. Shown(a) \subseteq {i}
  <2>1. CASE c.alarm # None
    BY <1>1, <1>4, <2>1 DEF Knows
  <2>2. CASE c.alarm = None
    BY <1>1, <2>2 DEF Knows
  <2>3. QED
    BY <2>1, <2>2
<1>10. Shown(a)' \subseteq {i}
  BY <1>6, <1>9 DEF Shown
<1>11. ~c.desired => Shown(a)' = {}
  BY <1>6, <1>10 DEF Shown
<1>12. c.desired /\ ~UserClears => i \in Shown(a)'
  <2> SUFFICES ASSUME c.desired, ~UserClears PROVE i \in Shown(a)'
    OBVIOUS
  <2>1. target = None \/ tb[i].active
    BY <1>1, <1>4 DEF Knows
  <2>2. tb'[i].active
    BY <1>6, <2>1
  <2>3. QED
    BY <1>6, <2>2 DEF Shown
<1>13. c.alarm # None => i = c.alarm
  BY <1>4
<1>14. QED
  BY <1>6, <1>7, <1>8, <1>10, <1>11, <1>12, <1>13
-----------------------------------------------------------------------------
\* Nothing was written and no identity recorded: what counts is the worker's
\* new record.
LEMMA OneKeeps ==
  ASSUME Alone, SyncInv, OneInv, NEW w \in Owners,
         UNCHANGED <<tb, late>>, UNCHANGED projection,
         courier'[w].pc # "idle" => Knows(courier'[w], event'[courier'[w].event].alert)
  PROVE  OneInv'
<1>1. late' = {} /\ Recorded' /\ Single'
  BY DEF OneInv, Recorded, Single, Shown
<1>2. ASSUME NEW u \in Owners, courier'[u].pc # "idle"
      PROVE  Knows(courier[u], AlertOf(u))'
  <2>1. u = w
    BY DEF Alone
  <2>2. Knows(courier'[w], event'[courier'[w].event].alert)
    BY <1>2, <2>1
  <2>3. QED
    BY <2>1, <2>2 DEF Knows, Shown, AlertOf
<1>3. QED
  BY <1>1, <1>2 DEF OneInv

LEMMA OneIntends == ASSUME SyncInv, OneInv, Intend PROVE OneInv'
<1>1. UNCHANGED <<tb, late, courier>>
  BY Intending
<1>2. late' = {} /\ Single'
  BY <1>1 DEF OneInv, Single, Shown
<1>3. Recorded'
  <2>1. CASE UNCHANGED projection
    BY <1>1, <2>1 DEF OneInv, Recorded
  <2>2. ASSUME NEW a \in Alerts, projection'.alert = a,
               projection'.alarm = IF projection.alert = a THEN projection.alarm ELSE None
        PROVE  Recorded'
    BY <1>1, <2>2, NullAssumption DEF OneInv, Recorded
  <2>3. QED
    BY <2>1, <2>2, Intending
<1>4. ASSUME NEW u \in Owners, courier[u].pc # "idle"
      PROVE  AlertOf(u)' = AlertOf(u)
  <2>1. /\ courier[u].event \in Versions /\ courier[u].event \in Nat
        /\ risk.version \in Nat /\ courier[u].event <= risk.version
    BY <1>4, CourierTypes
  <2>2. CASE UNCHANGED event
    BY <1>1, <2>2 DEF AlertOf
  <2>3. ASSUME NEW a \in Alerts, NEW S, Enqueue(a, S)
        PROVE  event'[courier[u].event].alert = event[courier[u].event].alert
    <3>1. courier[u].event # risk.version + 1 /\ IntentsTypeOK
      BY <2>1 DEF SyncInv, IntentsInv
    <3>2. QED
      BY <2>1, <2>3, <3>1, Enqueueing
  <2>4. QED
    BY <1>1, <2>2, <2>3, Intending DEF AlertOf
<1>5. ASSUME NEW u \in Owners, courier[u].pc # "idle"
      PROVE  Knows(courier[u], AlertOf(u))'
  <2>1. Knows(courier[u], AlertOf(u))
    BY <1>5 DEF OneInv
  <2>2. QED
    BY <1>1, <1>4, <1>5, <2>1 DEF Knows, Shown
<1>6. QED
  BY <1>1, <1>2, <1>3, <1>5 DEF OneInv

LEMMA OneClaims ==
  ASSUME Alone, SyncInv, OneInv, NEW w \in Owners, ClaimSync(w) PROVE OneInv'
<1>1. courier[w].pc = "idle" /\ UNCHANGED <<projection, tb, late>>
  BY DEF ClaimSync
<1>2. courier'[w].pc # "idle" => courier'[w].pc = "read" /\ courier'[w].alarm = None
  <2>1. courier \in [Owners -> Couriers]
    BY DEF SyncInv, SyncTypes
  <2>2. CASE UNCHANGED courier
    BY <1>1, <2>2
  <2>3. ASSUME NEW v, courier' = [courier EXCEPT ![w] = [Idle EXCEPT !.pc = "read", !.event = v]]
        PROVE  courier'[w].pc = "read" /\ courier'[w].alarm = None
    <3>1. courier'[w] = [Idle EXCEPT !.pc = "read", !.event = v]
      BY <2>1, <2>3
    <3>2. QED
      BY <3>1 DEF Idle
  <2>4. QED
    BY <2>2, <2>3 DEF ClaimSync
<1>3. ASSUME courier'[w].pc # "idle"
      PROVE  Knows(courier'[w], event'[courier'[w].event].alert)
  BY <1>2, <1>3 DEF Knows
<1>4. QED
  BY <1>1, <1>3, OneKeeps

\* The worker's record is of no more use to it.
LEMMA OneRests ==
  ASSUME Alone, SyncInv, OneInv, NEW w \in Owners, UNCHANGED <<projection, tb, late>>,
         Rest(w) \/ Fails(w)
  PROVE  OneInv'
<1>1. courier \in [Owners -> Couriers]
  BY DEF SyncInv, SyncTypes
<1>2. courier'[w].pc \in {"idle", "failed"}
  <2>1. CASE Rest(w)
    BY <1>1, <2>1 DEF Rest, Idle
  <2>2. CASE Fails(w)
    BY <1>1, <2>2 DEF Fails, Idle
  <2>3. QED
    BY <2>1, <2>2
<1>3. courier'[w].pc # "idle" => Knows(courier'[w], event'[courier'[w].event].alert)
  BY <1>2 DEF Knows
<1>4. QED
  BY <1>3, OneKeeps

\* A write for alert a was served: what its worker knows afterwards.
LEMMA OneServes ==
  ASSUME Alone, SyncInv, OneInv, NEW w \in Owners, courier[w].pc = "write",
         ~NothingToClear(w), NEW a \in Alerts, a = AlertOf(w),
         NEW i \in AlarmIds, Serve(WriteOf(w), i), Answered(w, i) \/ Fails(w),
         UNCHANGED <<projection, event, late>>
  PROVE  OneInv'
<1>1. /\ tb[i].alert \in {None, a} /\ tb'[i].alert = a
      /\ \A j \in AlarmIds : j # i => tb'[j] = tb[j]
      /\ Shown(a)' \subseteq {i}
      /\ \A b \in Alerts : b # a => Shown(b)' = Shown(b)
  BY Serving
<1>2. Recorded'
  <2>1. projection.alarm # None => projection.alarm \in AlarmIds
    BY DEF SyncInv, IntentsInv, IntentsTypeOK, Projections
  <2>2. QED
    BY <1>1, <2>1 DEF OneInv, Recorded
<1>3. Single'
  <2> SUFFICES ASSUME NEW b \in Alerts, NEW k \in Shown(b)', NEW j \in Shown(b)' PROVE k = j
    BY DEF Single
  <2>1. CASE b = a
    BY <1>1, <2>1
  <2>2. CASE b # a
    BY <1>1, <2>2 DEF OneInv, Single
  <2>3. QED
    BY <2>1, <2>2
<1>4. courier \in [Owners -> Couriers]
  BY DEF SyncInv, SyncTypes
<1>5. ASSUME NEW u \in Owners, courier'[u].pc # "idle"
      PROVE  Knows(courier[u], AlertOf(u))'
  <2>1. u = w
    BY DEF Alone
  <2>2. CASE Fails(w)
    <3>1. courier'[w].pc = "failed"
      BY <1>4, <2>2 DEF Fails, Idle
    <3>2. QED
      BY <2>1, <3>1 DEF Knows
  <2>3. CASE Answered(w, i)
    <3>1. /\ courier'[w].pc = "save" /\ courier'[w].alarm = i
          /\ courier'[w].event = courier[w].event
      BY <1>4, <2>3 DEF Answered, Idle
    <3>2. AlertOf(w)' = a /\ i # None
      BY <3>1, NullAssumption DEF AlertOf
    <3>3. QED
      BY <1>1, <2>1, <3>1, <3>2 DEF Knows
  <2>4. QED
    BY <2>2, <2>3
<1>6. late' = {}
  BY DEF OneInv
<1>7. QED
  BY <1>2, <1>3, <1>5, <1>6 DEF OneInv

LEMMA OneDelivers ==
  ASSUME Alone, SyncInv, OneInv, NEW w \in Owners, Deliver(w) \/ Crash(w) PROVE OneInv'
<1> DEFINE c == courier[w]
<1>0. c \in Couriers /\ courier \in [Owners -> Couriers]
  BY CourierTypes DEF SyncInv, SyncTypes
<1>1. CASE ReadProjection(w)
  <2>1. c.pc = "read" /\ UNCHANGED <<projection, tb, late>>
    BY <1>1 DEF ReadProjection
  <2>2. CASE Mine(w) /\ projection.alert = event[c.event].alert
    <3>1. /\ courier' = [courier EXCEPT ![w].pc = "find", ![w].desired = projection.desired,
                                        ![w].details = projection.details,
                                        ![w].known = projection.alarm]
          /\ UNCHANGED event
      BY <1>1, <2>2 DEF ReadProjection
    <3>2. /\ courier'[w].pc = "find" /\ courier'[w].known = projection.alarm
          /\ courier'[w].event = c.event /\ courier'[w].alarm = c.alarm
      BY <1>0, <3>1 DEF Couriers
    <3>3. c.alarm = None
      BY <2>1 DEF OneInv, Knows
    <3>4. Knows(courier'[w], event'[courier'[w].event].alert)
      BY <2>2, <3>1, <3>2, <3>3 DEF Knows, OneInv, Recorded
    <3>5. QED
      BY <2>1, <3>4, OneKeeps
  <2>3. CASE Rest(w)
    BY <2>1, <2>3, OneRests
  <2>4. QED
    BY <1>1, <2>2, <2>3 DEF ReadProjection
<1>2. CASE FindAlarm(w)
  <2>1. c.pc = "find" /\ UNCHANGED <<projection, event, tb, late>>
    BY <1>2 DEF FindAlarm
  <2>2. CASE Fails(w)
    BY <2>1, <2>2, OneRests
  <2>3. CASE Shown(AlertOf(w)) = {} /\ courier' = [courier EXCEPT ![w].pc = "write"]
    <3>1. /\ courier'[w].pc = "write" /\ courier'[w].known = c.known
          /\ courier'[w].event = c.event /\ courier'[w].alarm = c.alarm
      BY <1>0, <2>3 DEF Couriers
    <3>2. Knows(courier'[w], event'[courier'[w].event].alert)
      BY <2>1, <2>3, <3>1 DEF Knows, OneInv, AlertOf
    <3>3. QED
      BY <2>1, <3>2, OneKeeps
  <2>4. ASSUME NEW i \in AlarmIds, Shown(AlertOf(w)) = {i},
               courier' = [courier EXCEPT ![w].pc = "write", ![w].alarm = i]
        PROVE  OneInv'
    <3>1. /\ courier'[w].pc = "write" /\ courier'[w].known = c.known
          /\ courier'[w].event = c.event /\ courier'[w].alarm = i
      BY <1>0, <2>4 DEF Couriers
    <3>2. tb[i].alert = AlertOf(w) /\ tb[i].active /\ i # None
      BY <2>4, NullAssumption DEF Shown
    <3>3. Knows(courier'[w], event'[courier'[w].event].alert)
      BY <2>1, <2>4, <3>1, <3>2 DEF Knows, OneInv, AlertOf
    <3>4. QED
      BY <2>1, <3>3, OneKeeps
  <2>5. QED
    BY <1>2, <2>2, <2>3, <2>4 DEF FindAlarm, Shown, AlertOf
<1>3. ASSUME NEW answered \in BOOLEAN, WriteAlarm(w, answered) PROVE OneInv'
  <2>1. c.pc = "write" /\ ~NothingToClear(w) /\ UNCHANGED <<projection, event, late>>
    BY <1>3 DEF WriteAlarm
  <2>2. PICK i \in AlarmIds : Serve(WriteOf(w), i) /\ (Answered(w, i) \/ Fails(w))
    BY <1>3 DEF WriteAlarm
  <2>3. PICK a \in Alerts : a = AlertOf(w)
    BY <2>1, CourierTypes DEF AlertOf
  <2>4. QED
    BY <2>1, <2>2, <2>3, OneServes
<1>4. CASE SkipWrite(w)
  <2>1. /\ c.pc = "write" /\ NothingToClear(w) /\ Answered(w, None)
        /\ UNCHANGED <<projection, event, tb, late>>
    BY <1>4 DEF SkipWrite
  <2>2. courier'[w].pc = "save" /\ courier'[w].desired = c.desired
    BY <1>0, <2>1 DEF Answered, Idle
  <2>3. ~c.desired
    BY <1>0, <2>1 DEF NothingToClear, WriteOf
  <2>4. Knows(courier'[w], event'[courier'[w].event].alert)
    BY <2>2, <2>3 DEF Knows
  <2>5. QED
    BY <2>1, <2>4, OneKeeps
<1>5. CASE SaveAlarm(w)
  <2>1. c.pc = "save" /\ c.desired /\ UNCHANGED <<tb, late>> /\ Rest(w)
    BY <1>5 DEF SaveAlarm
  <2>2. CASE UNCHANGED projection
    BY <2>1, <2>2, OneRests
  <2>3. CASE /\ projection' = [projection EXCEPT !.alarm = c.alarm]
             /\ projection.alert = event[c.event].alert
    <3>1. /\ projection'.alarm = c.alarm /\ projection'.alert = projection.alert
      BY <2>3 DEF SyncInv, IntentsInv, IntentsTypeOK, Projections
    <3>2. projection.alert # None /\ tb[c.alarm].alert = projection.alert
      BY <2>1, <2>3, CourierTypes, NullAssumption DEF OneInv, Knows, AlertOf
    <3>3. late' = {} /\ Single' /\ Recorded'
      BY <2>1, <3>1, <3>2 DEF OneInv, Single, Shown, Recorded
    <3>4. \A u \in Owners : courier'[u].pc = "idle"
      BY <1>0, <2>1 DEF Rest, Idle, Alone
    <3>5. QED
      BY <3>3, <3>4 DEF OneInv
  <2>4. QED
    BY <1>5, <2>2, <2>3 DEF SaveAlarm
<1>6. CASE RequestFails(w) \/ RetrySync(w) \/ SaveCleared(w) \/ Crash(w)
  BY <1>6, OneRests DEF RequestFails, RetrySync, SaveCleared, Crash
<1>7. ~WriteTimesOut(w)
  BY DEF Alone, WriteTimesOut
<1>8. QED
  BY <1>1, <1>2, <1>3, <1>4, <1>5, <1>6, <1>7 DEF Deliver

LEMMA OneStep == ASSUME Alone, SyncInv, OneInv, [Next]_vars PROVE OneInv'
<1>1. CASE Intend
  BY <1>1, OneIntends
<1>2. ASSUME NEW w \in Owners, ClaimSync(w) PROVE OneInv'
  BY <1>2, OneClaims
<1>3. ASSUME NEW w \in Owners, Deliver(w) \/ Crash(w) PROVE OneInv'
  BY <1>3, OneDelivers
<1>4. ASSUME NEW i \in AlarmIds, UserClear(i) PROVE OneInv'
  <2>1. /\ tb' = [tb EXCEPT ![i].active = FALSE] /\ UserClears
        /\ UNCHANGED <<projection, event, late, courier>>
    BY <1>4 DEF UserClear
  <2>2. \A j \in AlarmIds : tb'[j].alert = tb[j].alert /\ (tb'[j].active => tb[j].active)
    BY <2>1 DEF SyncInv, SyncTypes, Alarms
  <2>3. \A b : Shown(b)' \subseteq Shown(b)
    BY <2>2 DEF Shown
  <2>4. late' = {} /\ Single'
    BY <2>1, <2>3 DEF OneInv, Single
  <2>5. Recorded'
    <3>1. projection.alarm # None => projection.alarm \in AlarmIds
      BY DEF SyncInv, IntentsInv, IntentsTypeOK, Projections
    <3>2. QED
      BY <2>1, <2>2, <3>1 DEF OneInv, Recorded
  <2>6. ASSUME NEW u \in Owners, courier[u].pc # "idle" PROVE Knows(courier[u], AlertOf(u))'
    <3>1. Knows(courier[u], AlertOf(u)) /\ AlertOf(u)' = AlertOf(u) /\ courier[u] \in Couriers
      BY <2>1, <2>6 DEF OneInv, AlertOf, SyncInv, SyncTypes
    <3>2. /\ courier[u].alarm \in AlarmIds \cup {None} /\ courier[u].known \in AlarmIds \cup {None}
          /\ courier'[u] = courier[u]
      BY <2>1, <3>1 DEF Couriers
    <3>3. QED
      BY <2>1, <2>2, <2>3, <3>1, <3>2 DEF Knows
  <2>7. QED
    BY <2>1, <2>4, <2>5, <2>6 DEF OneInv
<1>5. late = {}
  BY DEF OneInv
<1>6. CASE UNCHANGED vars
  BY <1>6 DEF vars, OneInv, Recorded, Single, Shown, Knows, AlertOf
<1>7. QED
  BY <1>1, <1>2, <1>3, <1>4, <1>5, <1>6 DEF Next

LEMMA OneInvariance == ASSUME Alone PROVE Safety => []OneInv
<1>1. Init => OneInv
  <2> SUFFICES ASSUME Init PROVE OneInv
    OBVIOUS
  <2>1. \A i \in AlarmIds : tb[i] = NoAlarm
    BY DEF Init
  <2>2. Single
    BY <2>1 DEF Single, Shown, NoAlarm
  <2>3. late = {} /\ Recorded /\ \A w \in Owners : courier[w].pc = "idle"
    BY DEF Init, IntentsInit, NoProjection, Recorded, Idle
  <2>4. QED
    BY <2>2, <2>3 DEF OneInv
<1>2. SyncInv /\ OneInv /\ [Next]_vars => OneInv'
  BY OneStep
<1>3. QED
  BY <1>1, <1>2, SyncInvariance, PTL DEF Safety

\* With one worker, and writes that do not outlive their requests, an alert
\* never has two alarms, whatever answers are lost, however often the worker
\* dies and whatever users clear (find_pdm_alarm before every write).
THEOREM AlarmsAreSingle == ASSUME Alone PROVE Safety => []OneAlarmPerAlert
<1>1. OneInv => OneAlarmPerAlert
  <2> SUFFICES ASSUME OneInv, NEW a \in Alerts PROVE Cardinality(Shown(a)) <= 1
    BY DEF OneAlarmPerAlert
  <2>1. CASE Shown(a) = {}
    BY <2>1, FS_EmptySet
  <2>2. CASE Shown(a) # {}
    <3>1. PICK i : i \in Shown(a)
      BY <2>2
    <3>2. Shown(a) = {i}
      BY <3>1 DEF OneInv, Single
    <3>3. Cardinality({i}) = 1
      BY FS_Singleton
    <3>4. QED
      BY <3>2, <3>3
  <2>3. QED
    BY <2>1, <2>2
<1>2. QED
  BY <1>1, OneInvariance, PTL
-----------------------------------------------------------------------------
(* What is delivered is shown.                                             *)

LastWord(a, v) == event[v].alert = a /\ \A u \in Versions : event[u].alert = a => u <= v

\* The last event of alert a is delivered, whatever becomes of earlier ones.
Told(a) == \E v \in Versions : LastWord(a, v) /\ event[v].status = "DELIVERED"

\* ThingsBoard shows a, which is active, as the projection says, under the
\* identity i.
ShownAs(a, i) == IF alert[a].risk = "ACTIVE"
                 THEN Shown(a) = {i} /\ tb[i].details = projection.details
                 ELSE Shown(a) = {}

\* A worker with the record c, at work for alert a, for which nothing was
\* intended since: it knows what the projection says, and after its write so
\* does ThingsBoard.
UpToDate(c, a) ==
  c.pc \in {"find", "write", "save"} /\ (Told(a) \/ LastWord(a, c.event)) =>
    /\ c.desired <=> alert[a].risk = "ACTIVE"
    /\ c.pc # "save" /\ c.desired => c.details = projection.details
    /\ c.pc = "save" => ShownAs(a, c.alarm)

\* A worker keeps its lease, for nobody else is there to take it.
ShownInv ==
  /\ \A a \in Alerts : Told(a) => ShownAs(a, projection.alarm)
  /\ \A w \in Owners : courier[w].pc # "idle" => Mine(w) /\ UpToDate(courier[w], AlertOf(w))

\* A new intent silences the alert it is for, and no other.
LEMMA NewWord ==
  ASSUME SyncInv, NEW a \in Alerts, NEW S, Enqueue(a, S), NEW b \in Alerts
  PROVE  /\ Told(b)' => b # a /\ Told(b)
         /\ \A v \in Versions : v <= risk.version /\ LastWord(b, v)' => b # a /\ LastWord(b, v)
<1> DEFINE n == risk.version + 1
<1>1. /\ risk.version \in Nat /\ n \in Versions /\ event'[n].alert = a
      /\ event'[n].status = "PENDING"
      /\ \A v \in Versions : v # n =>
           /\ event'[v].alert = event[v].alert
           /\ event'[v] = event[v] \/ event'[v].status = "SUPERSEDED"
  BY Enqueueing DEF SyncInv, IntentsInv
<1>2. \A v \in Versions : v \in Nat /\ (event[v].alert = None <=> risk.version < v)
  BY DEF SyncInv, IntentsInv, Numbered, Versions
<1>3. a # None /\ b # None
  BY NullAssumption
<1>4. ASSUME NEW v \in Versions, v <= risk.version, LastWord(b, v)'
      PROVE  b # a /\ LastWord(b, v)
  <2>1. v # n /\ event'[v].alert = b /\ \A u \in Versions : event'[u].alert = b => u <= v
    BY <1>1, <1>2, <1>4 DEF LastWord
  <2>2. b # a
    BY <1>1, <1>2, <1>4, <2>1
  <2>3. \A u \in Versions : event[u].alert = b => u <= v
    BY <1>1, <1>2, <1>3, <2>1
  <2>4. QED
    BY <1>1, <2>1, <2>2, <2>3 DEF LastWord
<1>5. ASSUME Told(b)' PROVE b # a /\ Told(b)
  <2>1. PICK v \in Versions : LastWord(b, v)' /\ event'[v].status = "DELIVERED"
    BY <1>5 DEF Told
  <2>2. v # n /\ event'[v].alert = b
    BY <1>1, <2>1 DEF LastWord
  <2>3. event[v].alert = b /\ event[v].status = "DELIVERED"
    BY <1>1, <2>1, <2>2
  <2>4. v <= risk.version
    BY <1>1, <1>2, <1>3, <2>3
  <2>5. QED
    BY <1>4, <2>1, <2>3, <2>4 DEF Told
<1> HIDE DEF n
<1>6. QED
  BY <1>4, <1>5

LEMMA ShownIntends == ASSUME SyncInv, OneInv, ShownInv, Intend PROVE ShownInv'
<1>1. UNCHANGED <<tb, courier>> /\ SyncInv'
  BY Intending, IntendStep
<1>2. CASE UNCHANGED <<projection, event>> /\ \A b \in Alerts : alert'[b].risk = alert[b].risk
  <2>1. ASSUME NEW b \in Alerts, NEW i PROVE ShownAs(b, i)' <=> ShownAs(b, i)
    BY <1>1, <1>2 DEF ShownAs, Shown
  <2>2. ASSUME NEW b \in Alerts, Told(b)' PROVE ShownAs(b, projection.alarm)'
    BY <1>2, <2>1, <2>2 DEF ShownInv, Told, LastWord
  <2>3. ASSUME NEW w \in Owners, courier[w].pc # "idle"
        PROVE  (Mine(w) /\ UpToDate(courier[w], AlertOf(w)))'
    <3>1. Mine(w) /\ UpToDate(courier[w], AlertOf(w)) /\ AlertOf(w) \in Alerts
      BY <2>3, CourierTypes DEF ShownInv, AlertOf
    <3>2. Mine(w)' /\ AlertOf(w)' = AlertOf(w)
      BY <1>1, <1>2, <3>1 DEF Mine, AlertOf
    <3>3. PICK b \in Alerts : b = AlertOf(w)
      BY <3>1
    <3>4. PICK c : c = courier[w]
      OBVIOUS
    <3>5. UpToDate(c, b)'
      BY <1>2, <2>1, <3>1, <3>3, <3>4 DEF UpToDate, Told, LastWord
    <3>6. QED
      BY <1>1, <3>2, <3>3, <3>4, <3>5
  <2>4. QED
    BY <1>1, <2>2, <2>3 DEF ShownInv
<1>3. ASSUME NEW a \in Alerts, NEW S, Enqueue(a, S),
             \A b \in Alerts : b # a => alert'[b] = alert[b], projection'.alert = a
      PROVE  ShownInv'
  <2>1. ASSUME NEW b \in Alerts, b # a, NEW i, ShownAs(b, i)
        PROVE  ShownAs(b, i)' /\ alert[b].risk # "ACTIVE"
    <3>1. alert'[b].risk # "ACTIVE" /\ alert'[b] = alert[b]
      BY <1>1, <1>3, <2>1 DEF SyncInv, IntentsInv, Truthful
    <3>2. QED
      BY <1>1, <2>1, <3>1 DEF ShownAs, Shown
  <2>2. ASSUME NEW b \in Alerts, Told(b)' PROVE ShownAs(b, projection.alarm)'
    <3>1. b # a /\ ShownAs(b, projection.alarm)
      BY <1>3, <2>2, NewWord DEF ShownInv
    <3>2. alert'[b].risk # "ACTIVE"
      BY <1>1, <1>3, <3>1 DEF SyncInv, IntentsInv, Truthful
    <3>3. alert'[b] = alert[b]
      BY <1>3, <3>1
    <3>4. Shown(b)' = {}
      BY <1>1, <3>1, <3>2, <3>3 DEF ShownAs, Shown
    <3>5. QED
      BY <3>2, <3>4 DEF ShownAs
  <2>3. ASSUME NEW w \in Owners, courier[w].pc # "idle"
        PROVE  (Mine(w) /\ UpToDate(courier[w], AlertOf(w)))'
    <3> DEFINE v == courier[w].event
    <3>1. /\ v \in Versions /\ v \in Nat /\ risk.version \in Nat /\ v <= risk.version
          /\ v # risk.version + 1 /\ IntentsTypeOK
      BY <2>3, CourierTypes DEF SyncInv, IntentsInv
    <3>2. Mine(w) /\ UpToDate(courier[w], AlertOf(w)) /\ courier'[w] = courier[w]
      BY <1>1, <2>3 DEF ShownInv
    <3>3. event'[v].alert = event[v].alert /\ event'[v] = event[v]
      BY <1>3, <3>1, <3>2, Enqueueing DEF Mine, Waiting
    <3>4. PICK b \in Alerts : b = AlertOf(w)
      BY <2>3, CourierTypes DEF AlertOf
    <3>5. b = AlertOf(w)'
      BY <3>2, <3>3, <3>4 DEF AlertOf
    <3>6. Mine(w)'
      BY <3>2, <3>3 DEF Mine
    <3>7. PICK c : c = courier[w]
      OBVIOUS
    <3>8. UpToDate(c, b)'
      <4> SUFFICES ASSUME c.pc \in {"find", "write", "save"},
                          Told(b)' \/ LastWord(b, c.event)'
                   PROVE  /\ c.desired <=> alert'[b].risk = "ACTIVE"
                          /\ c.pc # "save" /\ c.desired => c.details = projection'.details
                          /\ c.pc = "save" => ShownAs(b, c.alarm)'
        BY DEF UpToDate
      <4>1. b # a /\ (Told(b) \/ LastWord(b, c.event))
        BY <1>3, <3>1, <3>7, NewWord
      <4>2. alert'[b] = alert[b]
        BY <1>3, <4>1
      <4>3. UpToDate(c, b)
        BY <3>2, <3>4, <3>7
      <4>4. alert'[b].risk # "ACTIVE"
        BY <1>1, <1>3, <4>1 DEF SyncInv, IntentsInv, Truthful
      <4>5. QED
        BY <2>1, <4>1, <4>2, <4>3, <4>4 DEF UpToDate
    <3>9. QED
      BY <3>2, <3>5, <3>6, <3>7, <3>8
  <2>4. QED
    BY <1>1, <2>2, <2>3 DEF ShownInv
<1>4. QED
  BY <1>2, <1>3, Intending
\* The outbox keeps the alerts of its events, and only the event v may be
\* delivered by the step.
LEMMA WordKeeps ==
  ASSUME NEW v, NEW b,
         \A u \in Versions : event'[u].alert = event[u].alert,
         \A u \in Versions : event'[u].status = "DELIVERED" => event[u].status = "DELIVERED" \/ u = v
  PROVE  /\ Told(b)' => Told(b) \/ (v \in Versions /\ LastWord(b, v))
         /\ \A u \in Versions : LastWord(b, u)' <=> LastWord(b, u)
<1>1. \A u \in Versions : LastWord(b, u)' <=> LastWord(b, u)
  BY DEF LastWord
<1>2. QED
  BY <1>1 DEF Told

LEMMA ShownClaims ==
  ASSUME Alone, SyncInv, ShownInv, NEW w \in Owners, ClaimSync(w) PROVE ShownInv'
<1>1. courier[w].pc = "idle" /\ UNCHANGED <<alert, projection, tb>>
  BY DEF ClaimSync
<1>2. /\ event \in [Versions -> Events] /\ courier \in [Owners -> Couriers]
  BY DEF SyncInv, SyncTypes, IntentsInv, IntentsTypeOK
<1>3. PICK S \in SUBSET InFlight :
        LET freed == ExpireLeases(S)
        IN \/ event' = freed /\ UNCHANGED courier
           \/ \E v \in Due(freed) :
                /\ event' = [freed EXCEPT ![v].status = "IN_FLIGHT",
                                          ![v].owner = w,
                                          ![v].attempt = @ + 1]
                /\ courier' = [courier EXCEPT ![w] = [Idle EXCEPT !.pc = "read",
                                                                  !.event = v]]
  BY DEF ClaimSync
<1> DEFINE freed == ExpireLeases(S)
<1>4. /\ DOMAIN freed = Versions
      /\ \A v \in Versions : /\ freed[v] \in Events /\ freed[v].alert = event[v].alert
                             /\ freed[v].status = "DELIVERED" => event[v].status = "DELIVERED"
  <2> SUFFICES ASSUME NEW v \in Versions
               PROVE  /\ freed[v] \in Events /\ freed[v].alert = event[v].alert
                      /\ freed[v].status = "DELIVERED" => event[v].status = "DELIVERED"
    BY DEF ExpireLeases
  <2>1. event[v] \in Events
    BY <1>2
  <2>2. CASE v \in S
    <3>1. freed[v] = [event[v] EXCEPT !.status = "RETRY_WAIT", !.owner = None]
      BY <2>2 DEF ExpireLeases
    <3>2. QED
      BY <2>1, <3>1 DEF Events, EventStatuses, Waiting
  <2>3. CASE v \notin S
    BY <2>1, <2>3 DEF ExpireLeases
  <2>4. QED
    BY <2>2, <2>3
<1> HIDE DEF freed
<1>5. /\ \A u \in Versions : event'[u].alert = event[u].alert
      /\ \A u \in Versions : event'[u].status = "DELIVERED" => event[u].status = "DELIVERED"
      /\ courier'[w].pc # "idle" => courier'[w].pc = "read" /\ Mine(w)'
  <2>1. CASE event' = freed /\ UNCHANGED courier
    BY <1>1, <1>4, <2>1
  <2>2. ASSUME NEW v \in Due(freed),
               event' = [freed EXCEPT ![v].status = "IN_FLIGHT", ![v].owner = w,
                                      ![v].attempt = @ + 1],
               courier' = [courier EXCEPT ![w] = [Idle EXCEPT !.pc = "read", !.event = v]]
        PROVE  /\ \A u \in Versions : event'[u].alert = event[u].alert
               /\ \A u \in Versions : event'[u].status = "DELIVERED" => event[u].status = "DELIVERED"
               /\ courier'[w].pc = "read" /\ Mine(w)'
    <3> DEFINE e == [freed[v] EXCEPT !.status = "IN_FLIGHT", !.owner = w, !.attempt = @ + 1]
    <3>1. v \in Versions /\ freed[v] \in Events
      BY <1>4 DEF Due
    <3>2. e.alert = event[v].alert /\ e.status = "IN_FLIGHT" /\ e.owner = w
      BY <1>4, <3>1 DEF Events
    <3>3. event' = [freed EXCEPT ![v] = e]
      BY <1>4, <2>2, <3>1
    <3> HIDE DEF e
    <3>4. \A u \in Versions : event'[u] = IF u = v THEN e ELSE freed[u]
      BY <1>4, <3>1, <3>3
    <3>5. courier'[w].pc = "read" /\ courier'[w].event = v
      BY <1>2, <2>2 DEF Idle
    <3>6. Mine(w)'
      BY <3>1, <3>2, <3>4, <3>5 DEF Mine
    <3>7. QED
      BY <1>4, <3>2, <3>4, <3>5, <3>6
  <2>3. QED
    BY <1>3, <2>1, <2>2 DEF freed
<1>6. ASSUME NEW b \in Alerts, Told(b)' PROVE ShownAs(b, projection.alarm)'
  <2>1. Told(b)
    BY <1>5, <1>6 DEF Told, LastWord
  <2>2. QED
    BY <1>1, <2>1 DEF ShownInv, ShownAs, Shown
<1>7. ASSUME NEW u \in Owners, courier'[u].pc # "idle"
      PROVE  (Mine(u) /\ UpToDate(courier[u], AlertOf(u)))'
  <2>1. u = w
    BY DEF Alone
  <2>2. QED
    BY <1>5, <1>7, <2>1 DEF UpToDate
<1>8. QED
  BY <1>6, <1>7 DEF ShownInv

\* A request or an answer, and the worker's new record r.
LEMMA ShownKeeps ==
  ASSUME Alone, SyncInv, ShownInv, NEW w \in Owners, courier[w].pc # "idle",
         NEW r, courier'[w] = r,
         UNCHANGED <<alert, projection, event>>, UNCHANGED tb,
         r.event = courier[w].event,
         NEW a \in Alerts, a = AlertOf(w), UpToDate(r, a)
  PROVE  ShownInv'
<1>1. ASSUME NEW b \in Alerts, Told(b)' PROVE ShownAs(b, projection.alarm)'
  BY <1>1 DEF ShownInv, ShownAs, Shown, Told, LastWord
<1>2. ASSUME NEW u \in Owners, courier'[u].pc # "idle"
      PROVE  (Mine(u) /\ UpToDate(courier[u], AlertOf(u)))'
  <2>1. u = w
    BY DEF Alone
  <2>2. Mine(w)'
    BY DEF ShownInv, Mine
  <2>3. UpToDate(r, a)'
    BY DEF UpToDate, ShownAs, Shown, Told, LastWord
  <2>4. AlertOf(w)' = a
    BY DEF AlertOf
  <2>5. QED
    BY <2>1, <2>2, <2>3, <2>4
<1>3. QED
  BY <1>1, <1>2 DEF ShownInv

\* A request failed.
LEMMA ShownFails ==
  ASSUME Alone, SyncInv, ShownInv, NEW w \in Owners, courier[w].pc # "idle",
         UNCHANGED <<alert, projection, event, tb>>, Fails(w)
  PROVE  ShownInv'
<1>1. courier \in [Owners -> Couriers]
  BY DEF SyncInv, SyncTypes
<1>2. PICK r : r = courier'[w]
  OBVIOUS
<1>3. r.pc = "failed" /\ r.event = courier[w].event
  BY <1>1, <1>2 DEF Fails, Idle
<1>4. PICK a \in Alerts : a = AlertOf(w)
  BY CourierTypes DEF AlertOf
<1>5. UpToDate(r, a)
  BY <1>3 DEF UpToDate
<1>6. QED
  BY <1>2, <1>3, <1>4, <1>5, ShownKeeps

\* The worker's event ends or goes back to waiting.  If it is delivered, the
\* worker's alert is shown under the identity that is on record then.
LEMMA ShownFinishes ==
  ASSUME Alone, SyncInv, ShownInv, NEW w \in Owners, courier[w].pc # "idle",
         NEW status \in EventStatuses, FinishEvent(w, status), Rest(w),
         UNCHANGED <<alert, tb>>,
         NEW a \in Alerts, a = AlertOf(w),
         status = "DELIVERED" =>
           (Told(a) \/ LastWord(a, courier[w].event) => ShownAs(a, projection'.alarm)),
         \A b \in Alerts : b # a /\ Told(b) => ShownAs(b, projection'.alarm),
         status # "DELIVERED" => UNCHANGED projection,
         projection'.details = projection.details
  PROVE  ShownInv'
<1> DEFINE v == courier[w].event
           e == [event[v] EXCEPT !.status = status, !.owner = None]
<1>1. v \in Versions /\ event[v] \in Events /\ Mine(w)
  BY CourierTypes DEF ShownInv
<1>2. event \in [Versions -> Events] /\ courier \in [Owners -> Couriers]
  BY DEF SyncInv, SyncTypes, IntentsInv, IntentsTypeOK
<1>3. e.alert = event[v].alert /\ e.status = status
  BY <1>1 DEF Events
<1>4. event' = [event EXCEPT ![v] = e]
  BY <1>1, <1>2 DEF FinishEvent
<1> HIDE DEF e
<1>5. \A u \in Versions : event'[u] = IF u = v THEN e ELSE event[u]
  BY <1>2, <1>4
<1>6. \A u \in Versions : event'[u].alert = event[u].alert
  BY <1>3, <1>5
<1>7. ASSUME NEW b \in Alerts, Told(b)' PROVE ShownAs(b, projection.alarm)'
  <2>1. \A i : ShownAs(b, i) => ShownAs(b, i)'
    BY DEF ShownAs, Shown
  <2>2. PICK i : i = projection'.alarm
    OBVIOUS
  <2>3. ShownAs(b, i)
    <3>1. CASE status = "DELIVERED"
      <4>1. \A u \in Versions : event'[u].status = "DELIVERED"
                                  => event[u].status = "DELIVERED" \/ u = v
        BY <1>5
      <4>2. Told(b) \/ LastWord(b, v)
        BY <1>6, <1>7, <4>1, WordKeeps
      <4>3. CASE b = a
        BY <2>2, <3>1, <4>2, <4>3
      <4>4. CASE b # a
        <5>1. ~LastWord(b, v)
          BY <4>4 DEF LastWord, AlertOf
        <5>2. QED
          BY <2>2, <4>2, <4>4, <5>1
      <4>5. QED
        BY <4>3, <4>4
    <3>2. CASE status # "DELIVERED"
      <4>1. \A u \in Versions : event'[u].status = "DELIVERED" => event[u].status = "DELIVERED"
        BY <1>3, <1>5, <3>2
      <4>2. Told(b)
        BY <1>6, <1>7, <4>1 DEF Told, LastWord
      <4>3. QED
        BY <2>2, <3>2, <4>2 DEF ShownInv
    <3>3. QED
      BY <3>1, <3>2
  <2>4. QED
    BY <2>1, <2>2, <2>3
<1>8. \A u \in Owners : courier'[u].pc = "idle"
  BY <1>2 DEF Rest, Idle, Alone
<1>9. QED
  BY <1>7, <1>8 DEF ShownInv
\* A served write shows the alert as the worker knows it.
LEMMA ShownServes ==
  ASSUME Alone, ~UserClears, SyncInv, OneInv, ShownInv, NEW w \in Owners,
         courier[w].pc = "write", ~NothingToClear(w), NEW a \in Alerts, a = AlertOf(w),
         NEW i \in AlarmIds, Serve(WriteOf(w), i), Answered(w, i) \/ Fails(w),
         UNCHANGED <<alert, projection, event>>
  PROVE  ShownInv'
<1> DEFINE c == courier[w]
<1>1. /\ tb[i].alert \in {None, a}
      /\ \A j \in AlarmIds : j # i => tb'[j] = tb[j]
      /\ c.desired => tb'[i].details = c.details
      /\ c.alarm # None => i = c.alarm
      /\ ~c.desired => Shown(a)' = {}
      /\ c.desired => Shown(a)' = {i}
      /\ \A b \in Alerts : b # a => Shown(b)' = Shown(b)
  BY Serving
<1>2. courier \in [Owners -> Couriers]
  BY DEF SyncInv, SyncTypes
<1>3. Mine(w) /\ UpToDate(c, a) /\ Knows(c, a) /\ event[c.event].alert = a
  BY DEF ShownInv, OneInv, AlertOf
<1>4. ASSUME Told(a) \/ LastWord(a, c.event)
      PROVE  /\ c.desired <=> alert[a].risk = "ACTIVE"
             /\ ShownAs(a, i)'
  <2>1. /\ c.desired <=> alert[a].risk = "ACTIVE"
        /\ c.desired => c.details = projection.details
    BY <1>3, <1>4 DEF UpToDate
  <2>2. QED
    BY <1>1, <2>1 DEF ShownAs
<1>5. ASSUME NEW b \in Alerts, Told(b)' PROVE ShownAs(b, projection.alarm)'
  <2>1. Told(b) /\ ShownAs(b, projection.alarm)
    BY <1>5 DEF ShownInv, Told, LastWord
  <2>2. CASE b = a
    <3>1. CASE c.desired
      <4>1. Shown(a) = {projection.alarm}
        BY <1>4, <2>1, <2>2, <3>1 DEF ShownAs
      <4>2. projection.alarm = i
        BY <1>1, <1>3, <4>1 DEF Knows
      <4>3. QED
        BY <1>4, <2>1, <2>2, <4>2
    <3>2. CASE ~c.desired
      BY <1>1, <1>4, <2>1, <2>2, <3>2 DEF ShownAs
    <3>3. QED
      BY <3>1, <3>2
  <2>3. CASE b # a
    <3>1. Shown(b)' = Shown(b) /\ alert'[b] = alert[b]
      BY <1>1, <2>3
    <3>2. CASE alert[b].risk = "ACTIVE"
      <4>1. projection.alarm \in Shown(b)
        BY <2>1, <3>2 DEF ShownAs
      <4>2. projection.alarm # i
        BY <1>1, <2>3, <4>1, NullAssumption DEF Shown
      <4>3. tb'[projection.alarm] = tb[projection.alarm]
        BY <1>1, <4>1, <4>2 DEF Shown
      <4>4. QED
        BY <2>1, <3>1, <3>2, <4>3 DEF ShownAs
    <3>3. CASE alert[b].risk # "ACTIVE"
      BY <2>1, <3>1, <3>3 DEF ShownAs
    <3>4. QED
      BY <3>2, <3>3
  <2>4. QED
    BY <2>2, <2>3
<1>6. ASSUME NEW u \in Owners, courier'[u].pc # "idle"
      PROVE  (Mine(u) /\ UpToDate(courier[u], AlertOf(u)))'
  <2>1. u = w
    BY DEF Alone
  <2>2. PICK r : r = courier'[w]
    OBVIOUS
  <2>3. r.event = c.event
    <3>1. CASE Answered(w, i)
      BY <1>2, <2>2, <3>1 DEF Answered, Idle
    <3>2. CASE Fails(w)
      BY <1>2, <2>2, <3>2 DEF Fails, Idle
    <3>3. QED
      BY <3>1, <3>2
  <2>4. Mine(w)' /\ AlertOf(w)' = a
    BY <1>3, <2>2, <2>3 DEF Mine, AlertOf
  <2>5. UpToDate(r, a)'
    <3>1. CASE Fails(w)
      <4>1. r.pc = "failed"
        BY <1>2, <2>2, <3>1 DEF Fails, Idle
      <4>2. QED
        BY <4>1 DEF UpToDate
    <3>2. CASE Answered(w, i)
      <4>1. r.pc = "save" /\ r.desired = c.desired /\ r.alarm = i
        BY <1>2, <2>2, <3>2 DEF Answered, Idle
      <4>2. Told(a)' \/ LastWord(a, r.event)' => Told(a) \/ LastWord(a, c.event)
        BY <2>3 DEF Told, LastWord
      <4>3. QED
        BY <1>4, <4>1, <4>2 DEF UpToDate
    <3>3. QED
      BY <3>1, <3>2
  <2>6. QED
    BY <2>1, <2>2, <2>4, <2>5
<1>7. QED
  BY <1>5, <1>6 DEF ShownInv

LEMMA ShownDelivers ==
  ASSUME Alone, ~UserClears, SyncInv, OneInv, ShownInv, NEW w \in Owners,
         Deliver(w) \/ Crash(w)
  PROVE  ShownInv'
<1> DEFINE c == courier[w]
<1>0. /\ c \in Couriers /\ courier \in [Owners -> Couriers] /\ projection \in Projections
  BY CourierTypes DEF SyncInv, SyncTypes, IntentsInv, IntentsTypeOK
<1>1. c.pc # "idle"
  BY DEF Deliver, ReadProjection, FindAlarm, WriteAlarm, SkipWrite, WriteTimesOut,
         RequestFails, RetrySync, SaveAlarm, SaveCleared, Crash
<1>2. PICK a \in Alerts : a = AlertOf(w)
  BY <1>1, CourierTypes DEF AlertOf
<1>3. /\ Mine(w) /\ UpToDate(c, a) /\ Knows(c, a) /\ event[c.event].alert = a /\ a # None
      /\ \A b \in Alerts : Told(b) => ShownAs(b, projection.alarm)
  BY <1>1, <1>2, NullAssumption DEF ShownInv, OneInv, AlertOf
<1>4. PICK r : r = courier'[w]
  OBVIOUS
<1>5. CASE ReadProjection(w)
  <2>1. c.pc = "read" /\ UNCHANGED <<alert, projection, tb>>
    BY <1>5 DEF ReadProjection
  <2>2. CASE projection.alert = a
    <3>1. /\ courier' = [courier EXCEPT ![w].pc = "find", ![w].desired = projection.desired,
                                        ![w].details = projection.details,
                                        ![w].known = projection.alarm]
          /\ UNCHANGED event
      BY <1>3, <1>5, <2>2 DEF ReadProjection
    <3>2. /\ r.pc = "find" /\ r.event = c.event
          /\ r.desired = projection.desired /\ r.details = projection.details
      BY <1>0, <1>4, <3>1 DEF Couriers
    <3>3. /\ risk.alert = a /\ projection.desired = risk.active
          /\ alert[a].risk = "ACTIVE" <=> risk.active
      BY <1>3, <2>2 DEF SyncInv, IntentsInv, Truthful
    <3>4. UpToDate(r, a)
      BY <3>2, <3>3 DEF UpToDate
    <3>5. QED
      BY <1>1, <1>2, <1>4, <2>1, <3>1, <3>2, <3>4, ShownKeeps
  <2>3. CASE projection.alert # a
    <3>1. FinishEvent(w, "SUPERSEDED") /\ Rest(w)
      BY <1>3, <1>5, <2>3 DEF ReadProjection
    <3>2. "SUPERSEDED" \in EventStatuses
      BY DEF EventStatuses
    <3>3. \A b \in Alerts : b # a /\ Told(b) => ShownAs(b, projection'.alarm)
      BY <1>3, <2>1
    <3>4. QED
      BY <1>1, <1>2, <2>1, <3>1, <3>2, <3>3, ShownFinishes
  <2>4. QED
    BY <2>2, <2>3
<1>6. CASE FindAlarm(w)
  <2>1. c.pc = "find" /\ UNCHANGED <<alert, projection, event, tb>>
    BY <1>6 DEF FindAlarm
  <2>2. CASE Fails(w)
    BY <1>1, <2>1, <2>2, ShownFails
  <2>3. ASSUME r.pc = "write", r.event = c.event, r.desired = c.desired, r.details = c.details
        PROVE  ShownInv'
    <3>1. UpToDate(r, a)
      BY <1>3, <2>1, <2>3 DEF UpToDate
    <3>2. QED
      BY <1>1, <1>2, <1>4, <2>1, <2>3, <3>1, ShownKeeps
  <2>4. CASE courier' = [courier EXCEPT ![w].pc = "write"]
    BY <1>0, <1>4, <2>3, <2>4 DEF Couriers
  <2>5. ASSUME NEW i, courier' = [courier EXCEPT ![w].pc = "write", ![w].alarm = i]
        PROVE  ShownInv'
    <3>1. r.pc = "write" /\ r.event = c.event /\ r.desired = c.desired /\ r.details = c.details
      BY <1>0, <1>4, <2>5 DEF Couriers
    <3>2. QED
      BY <2>3, <3>1
  <2>6. QED
    BY <1>6, <2>2, <2>4, <2>5 DEF FindAlarm
<1>7. ASSUME NEW answered \in BOOLEAN, WriteAlarm(w, answered) PROVE ShownInv'
  <2>1. c.pc = "write" /\ ~NothingToClear(w) /\ UNCHANGED <<alert, projection, event>>
    BY <1>7 DEF WriteAlarm
  <2>2. PICK i \in AlarmIds : Serve(WriteOf(w), i) /\ (Answered(w, i) \/ Fails(w))
    BY <1>7 DEF WriteAlarm
  <2>3. QED
    BY <1>2, <2>1, <2>2, ShownServes
<1>8. CASE SkipWrite(w)
  <2>1. /\ c.pc = "write" /\ NothingToClear(w) /\ Answered(w, None)
        /\ UNCHANGED <<alert, projection, event, tb>>
    BY <1>8 DEF SkipWrite
  <2>2. r.pc = "save" /\ r.desired = c.desired /\ r.event = c.event
    BY <1>0, <1>4, <2>1 DEF Answered, Idle
  <2>3. ~c.desired /\ c.alarm = None
    BY <1>0, <2>1 DEF NothingToClear, WriteOf
  <2>4. Shown(a) = {}
    BY <1>3, <2>1, <2>3 DEF Knows
  <2>5. UpToDate(r, a)
    BY <1>3, <2>1, <2>2, <2>3, <2>4 DEF UpToDate, ShownAs
  <2>6. QED
    BY <1>1, <1>2, <1>4, <2>1, <2>2, <2>5, ShownKeeps
<1>9. CASE RequestFails(w)
  BY <1>1, <1>9, ShownFails DEF RequestFails
<1>10. CASE RetrySync(w)
  <2> DEFINE status == IF event[c.event].attempt >= MaxAttempts
                       THEN "DEAD_LETTER" ELSE "RETRY_WAIT"
  <2>1. UNCHANGED <<alert, projection, tb>> /\ FinishEvent(w, status) /\ Rest(w)
    BY <1>10 DEF RetrySync
  <2>2. status \in EventStatuses /\ status # "DELIVERED"
    BY DEF EventStatuses, Waiting
  <2> HIDE DEF status
  <2>3. \A b \in Alerts : b # a /\ Told(b) => ShownAs(b, projection'.alarm)
    BY <1>3, <2>1
  <2>4. QED
    BY <1>1, <1>2, <2>1, <2>2, <2>3, ShownFinishes
<1>11. CASE SaveAlarm(w)
  <2>1. c.pc = "save" /\ c.desired /\ UNCHANGED <<alert, tb>> /\ Rest(w)
    BY <1>11 DEF SaveAlarm
  <2>2. CASE UNCHANGED <<projection, event>>
    <3>1. ASSUME NEW b \in Alerts, Told(b)' PROVE ShownAs(b, projection.alarm)'
      BY <1>3, <2>1, <2>2, <3>1 DEF Told, LastWord, ShownAs, Shown
    <3>2. \A u \in Owners : courier'[u].pc = "idle"
      BY <1>0, <2>1 DEF Rest, Idle, Alone
    <3>3. QED
      BY <3>1, <3>2 DEF ShownInv
  <2>3. CASE /\ projection' = [projection EXCEPT !.alarm = c.alarm]
             /\ FinishEvent(w, "DELIVERED") /\ projection.alert = a
    <3>1. projection'.alarm = c.alarm /\ projection'.details = projection.details
      BY <1>0, <2>3 DEF Projections
    <3>2. Told(a) \/ LastWord(a, c.event) => ShownAs(a, projection'.alarm)
      BY <1>3, <2>1, <3>1 DEF UpToDate
    <3>3. ASSUME NEW b \in Alerts, b # a, Told(b) PROVE ShownAs(b, projection'.alarm)
      <4>1. alert[b].risk # "ACTIVE"
        BY <2>3, <3>3 DEF SyncInv, IntentsInv, Truthful
      <4>2. QED
        BY <1>3, <3>3, <4>1 DEF ShownAs
    <3>4. "DELIVERED" \in EventStatuses
      BY DEF EventStatuses
    <3>5. QED
      BY <1>1, <1>2, <2>1, <2>3, <3>1, <3>2, <3>3, <3>4, ShownFinishes
  <2>4. QED
    BY <1>3, <1>11, <2>2, <2>3 DEF SaveAlarm
<1>12. CASE SaveCleared(w)
  <2>1. /\ c.pc = "save" /\ ~c.desired /\ UNCHANGED <<alert, projection, tb>>
        /\ FinishEvent(w, "DELIVERED") /\ Rest(w)
    BY <1>12 DEF SaveCleared
  <2>2. Told(a) \/ LastWord(a, c.event) => ShownAs(a, projection'.alarm)
    BY <1>3, <2>1 DEF UpToDate, ShownAs
  <2>3. \A b \in Alerts : b # a /\ Told(b) => ShownAs(b, projection'.alarm)
    BY <1>3, <2>1
  <2>4. "DELIVERED" \in EventStatuses
    BY DEF EventStatuses
  <2>5. QED
    BY <1>1, <1>2, <2>1, <2>2, <2>3, <2>4, ShownFinishes
<1>13. CASE Crash(w)
  <2>1. UNCHANGED <<alert, projection, event, tb>> /\ Rest(w)
    BY <1>13 DEF Crash
  <2>2. ASSUME NEW b \in Alerts, Told(b)' PROVE ShownAs(b, projection.alarm)'
    BY <1>3, <2>1, <2>2 DEF Told, LastWord, ShownAs, Shown
  <2>3. \A u \in Owners : courier'[u].pc = "idle"
    BY <1>0, <2>1 DEF Rest, Idle, Alone
  <2>4. QED
    BY <2>2, <2>3 DEF ShownInv
<1>14. ~WriteTimesOut(w)
  BY DEF Alone, WriteTimesOut
<1>15. QED
  BY <1>5, <1>6, <1>7, <1>8, <1>9, <1>10, <1>11, <1>12, <1>13, <1>14 DEF Deliver

LEMMA ShownStep ==
  ASSUME Alone, ~UserClears, SyncInv, OneInv, ShownInv, [Next]_vars PROVE ShownInv'
<1>1. CASE Intend
  BY <1>1, ShownIntends
<1>2. ASSUME NEW w \in Owners, ClaimSync(w) PROVE ShownInv'
  BY <1>2, ShownClaims
<1>3. ASSUME NEW w \in Owners, Deliver(w) \/ Crash(w) PROVE ShownInv'
  BY <1>3, ShownDelivers
<1>4. late = {} /\ \A i \in AlarmIds : ~UserClear(i)
  BY DEF OneInv, UserClear
<1>5. CASE UNCHANGED vars
  BY <1>5 DEF vars, ShownInv, Told, LastWord, ShownAs, Shown, UpToDate, Mine, AlertOf
<1>6. QED
  BY <1>1, <1>2, <1>3, <1>4, <1>5 DEF Next

\* With one worker, writes that do not outlive their requests and no user who
\* clears alarms, ThingsBoard shows every active alert once its last event is
\* delivered, under the identity on record, with the projection's details, the
\* alert's but for a forecast that order news may have taken back to an earlier
\* round, and nothing of an alert that is over; whatever was lost, repeated or
\* abandoned before (AlarmDeliveryWorker, _queue_alarm_details).
THEOREM DeliveriesAreShown ==
  ASSUME Alone, ~UserClears PROVE Safety => []DeliveredMeansShown
<1>1. Init => ShownInv
  <2> SUFFICES ASSUME Init PROVE ShownInv
    OBVIOUS
  <2>1. \A v \in Versions : event[v].status = "ABSENT"
    BY DEF Init, IntentsInit, NoEvent
  <2>2. \A w \in Owners : courier[w].pc = "idle"
    BY DEF Init, Idle
  <2>3. QED
    BY <2>1, <2>2 DEF ShownInv, Told
<1>2. SyncInv /\ OneInv /\ ShownInv /\ [Next]_vars => ShownInv'
  BY ShownStep
<1>3. SyncInv /\ ShownInv => DeliveredMeansShown
  <2> SUFFICES ASSUME SyncInv, ShownInv, NEW a \in Alerts, Delivered(a)
               PROVE  /\ ShownAs(a, projection.alarm)
                      /\ alert[a].risk = "ACTIVE" => Tells(projection.details, alert[a])
    BY DEF DeliveredMeansShown, ShownAs
  <2>1. Told(a)
    BY DEF Delivered, EventsOf, Told, LastWord
  <2>2. alert[a].risk = "ACTIVE" => Tells(projection.details, alert[a])
    BY Truth, NullAssumption DEF IntentsTellTheTruth
  <2>3. QED
    BY <2>1, <2>2 DEF ShownInv
<1>4. QED
  BY <1>1, <1>2, <1>3, SyncInvariance, OneInvariance, PTL DEF Safety
=============================================================================
