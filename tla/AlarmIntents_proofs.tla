------------------------- MODULE AlarmIntents_proofs -------------------------
(***************************************************************************)
(* What every transaction on the alarm intents keeps, whoever makes it: the *)
(* lemmas that AlarmSync_proofs and WorkOrders_proofs share.                *)
(***************************************************************************)
EXTENDS AlarmIntents, TLAPS

\* The alert that is active is that of the risk row; projection and risk row
\* agree.
Truthful ==
  /\ \A a \in Alerts : alert[a].risk = "ACTIVE" <=> risk.active /\ risk.alert = a
  /\ projection.alert = risk.alert
  /\ risk.alert # None => /\ projection.desired = risk.active
                          /\ projection.version = risk.version

\* The aggregate versions are given out one after the other.
Numbered ==
  /\ risk.alert # None => /\ alert[risk.alert].version <= risk.version
                          /\ alert[risk.alert].risk # "ABSENT"
  /\ \A v \in Versions : /\ event[v].status = "ABSENT" <=> risk.version < v
                         /\ event[v].alert = None <=> risk.version < v

\* The event of the newest intent is not superseded.
Newest ==
  risk.alert # None => /\ risk.version \in Versions
                       /\ event[risk.version].alert = risk.alert
                       /\ event[risk.version].status # "SUPERSEDED"

IntentsInv == IntentsTypeOK /\ Truthful /\ Numbered /\ Newest

-----------------------------------------------------------------------------
LEMMA IntentsInitially == IntentsInit => IntentsInv
<1> SUFFICES ASSUME IntentsInit PROVE IntentsInv
  OBVIOUS
<1> USE BoundsAssumption
<1>1. IntentsTypeOK
  <2>1. /\ NoAlert \in AlertRows /\ NoEvent \in Events
        /\ NoProjection \in Projections
    BY DEF NoAlert, AlertRows, NoEvent, Events, EventStatuses, CareStates, NoProjection,
           Projections
  <2>2. risk \in [active : BOOLEAN, alert : Alerts \cup {None}, version : 0..MaxVersion]
    BY DEF IntentsInit
  <2>3. QED
    BY <2>1, <2>2 DEF IntentsInit, IntentsTypeOK
<1>2. risk.alert = None /\ risk.version = 0
  BY DEF IntentsInit
<1>3. Truthful
  BY <1>2, NullAssumption DEF IntentsInit, Truthful, NoAlert, NoProjection
<1>4. Numbered /\ Newest
  BY <1>2 DEF IntentsInit, Numbered, Newest, NoEvent, Versions
<1>5. QED
  BY <1>1, <1>3, <1>4 DEF IntentsInv

\* What Enqueue does to the outbox.
LEMMA Enqueueing ==
  ASSUME IntentsTypeOK, NEW a \in Alerts, NEW S, Enqueue(a, S)
  PROVE  /\ risk.version \in Nat /\ risk.version + 1 \in Versions
         /\ event' \in [Versions -> Events]
         /\ event'[risk.version + 1].alert = a
         /\ event'[risk.version + 1].status = "PENDING"
         /\ \A v \in Versions : v # risk.version + 1 =>
              /\ event'[v].alert = event[v].alert
              /\ event'[v].status = "ABSENT" <=> event[v].status = "ABSENT"
              /\ \/ event'[v] = event[v]
                 \/ event[v].status \in Waiting /\ event'[v].status = "SUPERSEDED"
<1> USE BoundsAssumption
<1>1. risk.version \in Nat /\ risk.version + 1 \in Versions
  <2>1. risk.version \in 0..MaxVersion /\ risk.version < MaxVersion
    BY DEF IntentsTypeOK, Enqueue
  <2>2. QED
    BY <2>1 DEF Versions
<1> DEFINE New == [NoEvent EXCEPT !.status = "PENDING", !.alert = a]
           Old(v) == IF event[v].alert \in S /\ event[v].status \in Waiting
                     THEN [event[v] EXCEPT !.status = "SUPERSEDED", !.owner = None]
                     ELSE event[v]
<1>2. New \in Events /\ New.alert = a /\ New.status = "PENDING"
  <2>1. NoEvent \in Events
    BY DEF NoEvent, Events, EventStatuses
  <2>2. "PENDING" \in EventStatuses
    BY DEF EventStatuses, Waiting
  <2>3. QED
    BY <2>1, <2>2 DEF Events
<1>3. ASSUME NEW v \in Versions
      PROVE  /\ Old(v) \in Events
             /\ Old(v).alert = event[v].alert
             /\ Old(v).status = "ABSENT" <=> event[v].status = "ABSENT"
             /\ \/ Old(v) = event[v]
                \/ event[v].status \in Waiting /\ Old(v).status = "SUPERSEDED"
  <2>1. event[v] \in Events
    BY DEF IntentsTypeOK
  <2>2. QED
    BY <2>1 DEF Events, EventStatuses, Waiting
<1>4. event' = [v \in Versions |-> IF v = risk.version + 1 THEN New ELSE Old(v)]
  BY DEF Enqueue
<1> HIDE DEF New, Old
<1>5. QED
  BY <1>1, <1>2, <1>3, <1>4

\* What the two ways of writing the projection make of it.
LEMMA Replacing ==
  ASSUME IntentsTypeOK, NEW a \in Alerts, NEW row \in AlertRows, NEW desired \in BOOLEAN,
         ReplaceProjection(a, row, desired)
  PROVE  /\ projection' \in Projections
         /\ projection'.alert = a /\ projection'.desired = desired
         /\ projection'.version = risk.version + 1 /\ projection'.details = row
         /\ projection'.alarm = IF projection.alert = a THEN projection.alarm ELSE None
         /\ Enqueue(a, {a, projection.alert} \ {None})
<1> DEFINE p == IF projection.alert = a THEN projection ELSE [NoProjection EXCEPT !.alert = a]
<1>1. p \in Projections /\ p.alert = a
  <2>1. NoProjection \in Projections
    BY BoundsAssumption DEF NoProjection, NoAlert, Projections, AlertRows, CareStates
  <2>2. QED
    BY <2>1 DEF IntentsTypeOK, Projections
<1>2. projection' = [p EXCEPT !.desired = desired, !.version = risk.version + 1,
                              !.details = row]
  BY DEF ReplaceProjection
<1>3. Enqueue(a, {a, projection.alert} \ {None})
  BY DEF ReplaceProjection
<1>4. risk.version + 1 \in 0..MaxVersion
  BY <1>3, Enqueueing, BoundsAssumption DEF Versions
<1>5. p.alarm = IF projection.alert = a THEN projection.alarm ELSE None
  <2>1. CASE projection.alert = a
    BY <2>1
  <2>2. CASE projection.alert # a
    BY <2>2 DEF NoProjection
  <2>3. QED
    BY <2>1, <2>2
<1> HIDE DEF p
<1>6. QED
  BY <1>1, <1>2, <1>3, <1>4, <1>5 DEF Projections

LEMMA Refreshing ==
  ASSUME IntentsTypeOK, NEW a \in Alerts, NEW row \in AlertRows, NEW desired \in BOOLEAN,
         RefreshProjection(a, row, desired)
  PROVE  /\ projection' \in Projections
         /\ projection'.alert = a /\ projection'.desired = desired
         /\ projection'.version = risk.version + 1 /\ projection'.details = row
         /\ projection.alert = a /\ projection'.alarm = projection.alarm
         /\ Enqueue(a, {a})
<1>1. /\ projection' = [projection EXCEPT !.desired = desired, !.version = risk.version + 1,
                                          !.details = row]
      /\ Enqueue(a, {a}) /\ projection.alert = a
  BY DEF RefreshProjection
<1>2. risk.version + 1 \in 0..MaxVersion
  BY <1>1, Enqueueing, BoundsAssumption DEF Versions
<1>3. QED
  BY <1>1, <1>2 DEF IntentsTypeOK, Projections

-----------------------------------------------------------------------------
\* A transaction that gives alert a the row r and writes its intent, with the
\* details d, keeps the invariant if the risk row says the same as r.
LEMMA WritingKeeps ==
  ASSUME IntentsInv, NEW a \in Alerts, NEW r \in AlertRows, NEW d \in AlertRows,
         NEW active \in BOOLEAN, NEW S,
         Enqueue(a, S),
         projection' \in Projections,
         projection'.alert = a, projection'.desired = active,
         projection'.version = risk.version + 1,
         risk' = [active |-> active, alert |-> a, version |-> risk.version + 1],
         alert' = [alert EXCEPT ![a] = r],
         r.version <= risk.version + 1, r.risk # "ABSENT",
         r.risk = "ACTIVE" <=> active,
         \A b \in Alerts : alert[b].risk = "ACTIVE" => b = a
  PROVE  IntentsInv'
<1> USE BoundsAssumption
<1>1. /\ risk.version \in Nat /\ risk.version + 1 \in Versions
      /\ event' \in [Versions -> Events]
      /\ event'[risk.version + 1].alert = a
      /\ event'[risk.version + 1].status = "PENDING"
      /\ \A v \in Versions : v # risk.version + 1 =>
           /\ event'[v].alert = event[v].alert
           /\ event'[v].status = "ABSENT" <=> event[v].status = "ABSENT"
  BY Enqueueing DEF IntentsInv
<1>2. /\ alert \in [Alerts -> AlertRows] /\ alert'[a] = r
      /\ \A b \in Alerts : b # a => alert'[b] = alert[b]
  BY DEF IntentsInv, IntentsTypeOK
<1>3. risk'.active = active /\ risk'.alert = a /\ risk'.version = risk.version + 1
  OBVIOUS
<1>4. IntentsTypeOK'
  BY <1>1, <1>2 DEF IntentsTypeOK, Versions
<1>5. Truthful'
  BY <1>2, <1>3 DEF Truthful
<1>6. Numbered'
  <2>1. alert'[a].version <= risk.version + 1 /\ alert'[a].risk # "ABSENT"
    BY <1>2
  <2>2. ASSUME NEW v \in Versions
        PROVE  /\ event'[v].status = "ABSENT" <=> risk.version + 1 < v
               /\ event'[v].alert = None <=> risk.version + 1 < v
    <3>1. v \in Nat /\ (event[v].status = "ABSENT" <=> risk.version < v)
                    /\ (event[v].alert = None <=> risk.version < v)
      BY DEF IntentsInv, Numbered, Versions
    <3>2. a # None
      BY NullAssumption
    <3>3. CASE v = risk.version + 1
      BY <1>1, <3>2, <3>3
    <3>4. CASE v # risk.version + 1
      BY <1>1, <3>1, <3>4
    <3>5. QED
      BY <3>3, <3>4
  <2>3. QED
    BY <1>3, <2>1, <2>2 DEF Numbered
<1>7. Newest'
  BY <1>1, <1>3 DEF Newest
<1>8. QED
  BY <1>4, <1>5, <1>6, <1>7 DEF IntentsInv

\* Only the alert of the risk row is active.
LEMMA OneActive ==
  ASSUME IntentsInv
  PROVE  /\ \A b \in Alerts : alert[b].risk = "ACTIVE" => b = risk.alert
         /\ risk \in [active : BOOLEAN, alert : Alerts \cup {None}, version : 0..MaxVersion]
         /\ risk.version \in Nat
         /\ alert \in [Alerts -> AlertRows]
         /\ \A a \in Alerts : alert[a].version \in Nat
         /\ projection.alert = risk.alert
BY BoundsAssumption DEF IntentsInv, IntentsTypeOK, Truthful, AlertRows

\* A round opens an episode.
LEMMA RaiseKeeps ==
  ASSUME IntentsInv, NEW a \in Alerts, NEW busy \in BOOLEAN, Raise(a, busy)
  PROVE  IntentsInv'
<1> DEFINE row == [risk |-> "ACTIVE",
                   care |-> IF busy THEN "SUPPRESSED_ACTIVE_WORK_ORDER"
                                    ELSE "PENDING_APPROVAL",
                   allowed |-> ~busy, version |-> 1, run |-> risk.version + 1]
<1>1. /\ ~risk.active
      /\ risk' = [active |-> TRUE, alert |-> a, version |-> risk.version + 1]
      /\ alert' = [alert EXCEPT ![a] = row]
      /\ ReplaceProjection(a, row, TRUE)
  BY DEF Raise
<1>2. risk.version \in Nat /\ risk.version + 1 \in Versions
  BY <1>1, Enqueueing DEF ReplaceProjection, IntentsInv
<1>3. row \in AlertRows
  BY <1>2, BoundsAssumption DEF AlertRows, CareStates, Versions
<1>4. row.version <= risk.version + 1 /\ row.risk = "ACTIVE"
  BY <1>2
<1>5. \A b \in Alerts : alert[b].risk # "ACTIVE"
  BY <1>1 DEF IntentsInv, Truthful
<1> HIDE DEF row
<1>6. /\ projection' \in Projections
      /\ projection'.alert = a /\ projection'.desired = TRUE
      /\ projection'.version = risk.version + 1
      /\ Enqueue(a, {a, projection.alert} \ {None})
  BY <1>1, <1>3, Replacing DEF IntentsInv
<1>7. QED
  BY <1>1, <1>3, <1>4, <1>5, <1>6, WritingKeeps

\* A round that goes on with an episode.
LEMMA ContinueKeeps ==
  ASSUME IntentsInv, NEW a \in Alerts, Continue(a)
  PROVE  IntentsInv'
<1> DEFINE row == [alert[a] EXCEPT !.version = @ + 1, !.run = risk.version + 1]
<1>1. /\ risk.active /\ risk.alert = a
      /\ risk' = [risk EXCEPT !.version = @ + 1]
      /\ alert' = [alert EXCEPT ![a] = row]
      /\ ReplaceProjection(a, row, TRUE)
  BY DEF Continue
<1>2. risk.version \in Nat /\ risk.version + 1 \in Versions
  BY <1>1, Enqueueing DEF ReplaceProjection, IntentsInv
<1>3. alert[a] \in AlertRows /\ alert[a].version <= risk.version /\ alert[a].risk = "ACTIVE"
  BY <1>1, NullAssumption DEF IntentsInv, IntentsTypeOK, Truthful, Numbered
<1>4. row \in AlertRows /\ row.version <= risk.version + 1 /\ row.risk = "ACTIVE"
  <2> DEFINE n == alert[a].version + 1
             m == risk.version + 1
  <2>1. n \in 0..MaxVersion /\ m \in 0..MaxVersion /\ n <= m
    BY <1>2, <1>3, OneActive, BoundsAssumption DEF Versions
  <2>2. row = [alert[a] EXCEPT !.version = n, !.run = m]
    OBVIOUS
  <2> HIDE DEF n, m, row
  <2>3. row \in AlertRows /\ row.version = n /\ row.risk = "ACTIVE"
    BY <1>3, <2>1, <2>2 DEF AlertRows
  <2>4. QED
    BY <2>1, <2>3 DEF m
<1>5. risk' = [active |-> TRUE, alert |-> a, version |-> risk.version + 1]
  BY <1>1, OneActive
<1> HIDE DEF row
<1>6. /\ projection' \in Projections
      /\ projection'.alert = a /\ projection'.desired = TRUE
      /\ projection'.version = risk.version + 1
      /\ Enqueue(a, {a, projection.alert} \ {None})
  BY <1>1, <1>4, Replacing DEF IntentsInv
<1>7. QED
  BY <1>1, <1>4, <1>5, <1>6, OneActive, WritingKeeps

\* A round that ends it.
LEMMA ClearKeeps ==
  ASSUME IntentsInv, NEW a \in Alerts, Clear(a)
  PROVE  IntentsInv'
<1> DEFINE row == [alert[a] EXCEPT !.risk = "CLEARED", !.version = @ + 1,
                                   !.run = risk.version + 1]
<1>1. /\ risk.active /\ risk.alert = a
      /\ risk' = [risk EXCEPT !.active = FALSE, !.version = @ + 1]
      /\ alert' = [alert EXCEPT ![a] = row]
      /\ ReplaceProjection(a, row, FALSE)
  BY DEF Clear
<1>2. risk.version \in Nat /\ risk.version + 1 \in Versions
  BY <1>1, Enqueueing DEF ReplaceProjection, IntentsInv
<1>3. alert[a] \in AlertRows /\ alert[a].version <= risk.version
  BY <1>1, NullAssumption DEF IntentsInv, IntentsTypeOK, Numbered
<1>4. row \in AlertRows /\ row.version <= risk.version + 1 /\ row.risk = "CLEARED"
  <2> DEFINE n == alert[a].version + 1
             m == risk.version + 1
  <2>1. n \in 0..MaxVersion /\ m \in 0..MaxVersion /\ n <= m
    BY <1>2, <1>3, OneActive, BoundsAssumption DEF Versions
  <2>2. row = [alert[a] EXCEPT !.risk = "CLEARED", !.version = n, !.run = m]
    OBVIOUS
  <2> HIDE DEF n, m, row
  <2>3. row \in AlertRows /\ row.version = n /\ row.risk = "CLEARED"
    BY <1>3, <2>1, <2>2 DEF AlertRows
  <2>4. QED
    BY <2>1, <2>3 DEF m
<1>5. risk' = [active |-> FALSE, alert |-> a, version |-> risk.version + 1]
  BY <1>1, OneActive
<1> HIDE DEF row
<1>6. /\ projection' \in Projections
      /\ projection'.alert = a /\ projection'.desired = FALSE
      /\ projection'.version = risk.version + 1
      /\ Enqueue(a, {a, projection.alert} \ {None})
  BY <1>1, <1>4, Replacing DEF IntentsInv
<1>7. QED
  BY <1>1, <1>4, <1>5, <1>6, OneActive, WritingKeeps

\* A risk without an alert ends.
LEMMA ClearUnalertedKeeps ==
  ASSUME IntentsInv, ClearUnalerted
  PROVE  IntentsInv'
<1>1. /\ risk.active /\ risk.alert = None
      /\ risk' = [risk EXCEPT !.active = FALSE]
      /\ UNCHANGED <<alert, projection, event>>
  BY DEF ClearUnalerted
<1>2. risk'.alert = None /\ risk'.version = risk.version /\ risk'.active = FALSE
  BY <1>1, OneActive
<1>3. \A b \in Alerts : alert[b].risk # "ACTIVE"
  BY <1>1, NullAssumption DEF IntentsInv, Truthful
<1>4. IntentsTypeOK'
  BY <1>1 DEF IntentsInv, IntentsTypeOK
<1>5. Truthful' /\ Numbered' /\ Newest'
  BY <1>1, <1>2, <1>3 DEF IntentsInv, Truthful, Numbered, Newest
<1>6. QED
  BY <1>4, <1>5 DEF IntentsInv

\* The approver closes a risk.
LEMMA CloseAlertKeeps ==
  ASSUME IntentsInv, NEW a \in Alerts, CloseAlert(a)
  PROVE  IntentsInv'
<1> DEFINE row == [alert[a] EXCEPT !.risk = "MANUALLY_CLOSED", !.allowed = FALSE,
                                   !.version = @ + 1]
<1>1. /\ alert[a].risk = "ACTIVE"
      /\ risk' = [risk EXCEPT !.active = FALSE, !.version = @ + 1]
      /\ alert' = [alert EXCEPT ![a] = row]
      /\ RefreshProjection(a, row, FALSE)
  BY DEF CloseAlert
<1>2. risk.alert = a /\ risk.version \in Nat /\ risk.version + 1 \in Versions
  BY <1>1, Enqueueing, OneActive DEF RefreshProjection, IntentsInv
<1>3. alert[a] \in AlertRows /\ alert[a].version <= risk.version
  BY <1>2, NullAssumption DEF IntentsInv, IntentsTypeOK, Numbered
<1>4. row \in AlertRows /\ row.version <= risk.version + 1 /\ row.risk = "MANUALLY_CLOSED"
  <2>1. alert[a].version + 1 \in 0..MaxVersion /\ alert[a].version + 1 <= risk.version + 1
    BY <1>2, <1>3, OneActive, BoundsAssumption DEF Versions
  <2> DEFINE n == alert[a].version + 1
  <2>2. row = [alert[a] EXCEPT !.risk = "MANUALLY_CLOSED", !.allowed = FALSE, !.version = n]
    OBVIOUS
  <2> HIDE DEF n, row
  <2>3. row \in AlertRows /\ row.version = n /\ row.risk = "MANUALLY_CLOSED"
    BY <1>3, <2>1, <2>2 DEF AlertRows, n
  <2>4. QED
    BY <2>1, <2>3 DEF n
<1>5. risk' = [active |-> FALSE, alert |-> a, version |-> risk.version + 1]
  BY <1>1, <1>2, OneActive
<1> HIDE DEF row
<1>6. /\ projection' \in Projections
      /\ projection'.alert = a /\ projection'.desired = FALSE
      /\ projection'.version = risk.version + 1
      /\ Enqueue(a, {a})
  BY <1>1, <1>4, Refreshing DEF IntentsInv
<1>7. QED
  BY <1>1, <1>2, <1>4, <1>5, <1>6, OneActive, WritingKeeps

\* A work order is accepted for an alert.
LEMMA OrderAlertKeeps ==
  ASSUME IntentsInv, NEW a \in Alerts, OrderAlert(a)
  PROVE  /\ IntentsInv'
         /\ risk.active /\ risk.alert = a /\ projection.alert = a
         /\ risk' = [active |-> TRUE, alert |-> a, version |-> risk.version + 1]
         /\ risk.version \in Nat
         /\ projection'.details = alert'[a] /\ projection'.alarm = projection.alarm
         /\ alert' = [alert EXCEPT ![a] = [alert[a] EXCEPT !.care = "WORK_ORDER_CREATING",
                                             !.allowed = FALSE, !.version = @ + 1]]
<1> DEFINE row == [alert[a] EXCEPT !.care = "WORK_ORDER_CREATING", !.allowed = FALSE,
                                   !.version = @ + 1]
<1>1. /\ alert[a].risk = "ACTIVE"
      /\ risk' = [risk EXCEPT !.version = @ + 1]
      /\ alert' = [alert EXCEPT ![a] = row]
      /\ RefreshProjection(a, row, row.risk = "ACTIVE")
  BY DEF OrderAlert, Actionable
<1>2. /\ risk.alert = a /\ risk.active /\ risk.version \in Nat
      /\ risk.version + 1 \in Versions
  <2>1. risk.alert = a /\ risk.active
    BY <1>1 DEF IntentsInv, Truthful
  <2>2. QED
    BY <1>1, <2>1, Enqueueing DEF RefreshProjection, IntentsInv
<1>3. alert[a] \in AlertRows /\ alert[a].version <= risk.version
  BY <1>2, NullAssumption DEF IntentsInv, IntentsTypeOK, Numbered
<1>4. row \in AlertRows /\ row.version <= risk.version + 1 /\ row.risk = "ACTIVE"
  <2>1. alert[a].version + 1 \in 0..MaxVersion /\ alert[a].version + 1 <= risk.version + 1
    BY <1>2, <1>3, OneActive, BoundsAssumption DEF Versions
  <2> DEFINE n == alert[a].version + 1
  <2>2. row = [alert[a] EXCEPT !.care = "WORK_ORDER_CREATING", !.allowed = FALSE,
                               !.version = n]
    OBVIOUS
  <2> HIDE DEF n, row
  <2>3. row \in AlertRows /\ row.version = n /\ row.risk = "ACTIVE"
    BY <1>1, <1>3, <2>1, <2>2 DEF AlertRows, CareStates, ActiveOrderStates, n
  <2>4. QED
    BY <2>1, <2>3 DEF n
<1>5. risk' = [active |-> TRUE, alert |-> a, version |-> risk.version + 1]
  BY <1>1, <1>2, OneActive
<1>6. alert' = [alert EXCEPT ![a] = row] /\ alert'[a] = row
  BY <1>1, OneActive
<1> HIDE DEF row
<1>7. /\ projection' \in Projections
      /\ projection'.alert = a /\ projection'.desired = TRUE
      /\ projection'.version = risk.version + 1
      /\ projection'.details = row /\ projection'.alarm = projection.alarm
      /\ projection.alert = a
      /\ Enqueue(a, {a})
  BY <1>1, <1>4, Refreshing DEF IntentsInv
<1>8. IntentsInv'
  BY <1>1, <1>2, <1>4, <1>5, <1>7, OneActive, WritingKeeps
<1>9. QED
  BY <1>2, <1>5, <1>6, <1>7, <1>8 DEF row

\* News of a work order: row r for alert a, and details d.
LEMMA NewsKeeps ==
  ASSUME IntentsInv, NEW a \in Alerts, NEW r \in AlertRows, NEW d \in AlertRows,
         r.version <= risk.version + 1, r.risk = alert[a].risk,
         risk' = [risk EXCEPT !.version = @ + 1],
         alert' = [alert EXCEPT ![a] = r],
         RefreshProjection(a, d, projection.desired)
  PROVE  IntentsInv'
<1>1. projection.desired \in BOOLEAN
  BY DEF IntentsInv, IntentsTypeOK, Projections
<1>2. /\ projection' \in Projections
      /\ projection'.alert = a /\ projection'.desired = projection.desired
      /\ projection'.version = risk.version + 1
      /\ projection.alert = a
      /\ Enqueue(a, {a})
  BY <1>1, Refreshing DEF IntentsInv
<1>3. risk.alert = a /\ projection.desired = risk.active
  BY <1>2, NullAssumption DEF IntentsInv, Truthful
<1>4. risk' = [active |-> risk.active, alert |-> a, version |-> risk.version + 1]
  BY <1>3, OneActive
<1>5. r.risk # "ABSENT" /\ (r.risk = "ACTIVE" <=> risk.active)
  BY <1>3, NullAssumption DEF IntentsInv, Truthful, Numbered
<1>6. QED
  BY <1>1, <1>2, <1>3, <1>4, <1>5, OneActive, WritingKeeps

\* What TellAlert does to the alert, and that the intents agree afterwards.
LEMMA Telling ==
  ASSUME IntentsInv, NEW a \in Alerts, NEW seen \in AlertRows, NEW care \in CareStates,
         TellAlert(a, seen, care),
         a = risk.alert => seen.version <= risk.version
  PROVE  /\ IntentsInv'
         /\ alert'[a].risk = alert[a].risk /\ alert'[a].care = care
         /\ \A b \in Alerts : b # a => alert'[b] = alert[b]
         /\ \A b \in Alerts : alert'[b].risk = alert[b].risk
         /\ projection'.desired = projection.desired /\ risk'.active = risk.active
         /\ risk'.alert = risk.alert /\ risk'.version \in Nat /\ risk.version <= risk'.version
         /\ alert'[a].version = seen.version + 1
         /\ alert'[a].allowed = alert[a].allowed /\ alert'[a].run = alert[a].run
         /\ projection.alert = a =>
              /\ risk'.version = risk.version + 1
              /\ projection'.alert = a /\ projection'.alarm = projection.alarm
              /\ projection'.details.version = seen.version + 1
              /\ projection'.details.care = care
              /\ projection'.details.risk = seen.risk
              /\ projection'.details.allowed = seen.allowed
              /\ projection'.details.run = seen.run
         /\ projection.alert # a => UNCHANGED <<risk, projection, event>>
<1> DEFINE n == seen.version + 1
           row == [alert[a] EXCEPT !.care = care, !.version = n]
           object == [seen EXCEPT !.care = care, !.version = n]
<1>1. /\ alert[a] \in AlertRows /\ alert \in [Alerts -> AlertRows]
      /\ IntentsInv /\ IntentsTypeOK /\ risk.version \in Nat
  BY OneActive DEF IntentsInv
<1>2. n \in 0..MaxVersion /\ n \in Nat
  <2>1. seen.version < MaxVersion /\ seen.version \in 0..MaxVersion
    BY DEF TellAlert, AlertRows
  <2>2. QED
    BY <2>1, BoundsAssumption
<1>3. /\ alert' = [alert EXCEPT ![a] = row]
      /\ IF projection.alert = a
         THEN /\ risk' = [risk EXCEPT !.version = @ + 1]
              /\ RefreshProjection(a, object, projection.desired)
         ELSE UNCHANGED <<risk, projection, event>>
  <2>1. [seen EXCEPT !.care = care, !.version = @ + 1] = object
    OBVIOUS
  <2>2. object.version = n
    BY DEF AlertRows
  <2> HIDE DEF n, object
  <2>3. /\ alert' = [alert EXCEPT ![a].care = care, ![a].version = object.version]
        /\ IF projection.alert = a
           THEN /\ risk' = [risk EXCEPT !.version = @ + 1]
                /\ RefreshProjection(a, object, projection.desired)
           ELSE UNCHANGED <<risk, projection, event>>
    BY <2>1 DEF TellAlert
  <2>4. QED
    BY <1>1, <2>2, <2>3
<1>4. a = risk.alert => n <= risk.version + 1
  BY <1>1, BoundsAssumption DEF AlertRows
<1> HIDE DEF n
<1>5. /\ row \in AlertRows /\ object \in AlertRows /\ row.version = n
      /\ row.risk = alert[a].risk /\ row.care = care
      /\ row.allowed = alert[a].allowed /\ row.run = alert[a].run
      /\ object.version = n /\ object.care = care /\ object.risk = seen.risk
      /\ object.allowed = seen.allowed /\ object.run = seen.run
  BY <1>1, <1>2 DEF AlertRows
<1> HIDE DEF row, object
<1>6. /\ alert'[a] = row /\ \A b \in Alerts : b # a => alert'[b] = alert[b]
      /\ \A b \in Alerts : alert'[b].risk = alert[b].risk
  BY <1>1, <1>3, <1>5
<1>7. CASE projection.alert = a
  <2>1. risk.alert = a
    BY <1>1, <1>7 DEF IntentsInv, Truthful
  <2>2. /\ risk' = [risk EXCEPT !.version = @ + 1]
        /\ RefreshProjection(a, object, projection.desired)
    BY <1>3, <1>7
  <2>3. IntentsInv'
    BY <1>1, <1>3, <1>4, <1>5, <2>1, <2>2, NewsKeeps
  <2>4. projection.desired \in BOOLEAN
    BY <1>1 DEF IntentsTypeOK, Projections
  <2>5. /\ projection'.desired = projection.desired /\ projection'.alert = a
        /\ projection'.alarm = projection.alarm /\ projection'.details = object
    BY <1>1, <1>5, <2>2, <2>4, Refreshing
  <2>6. risk'.active = risk.active /\ risk'.alert = risk.alert /\ risk'.version = risk.version + 1
    BY <1>1, <2>2, OneActive
  <2>7. QED
    BY <1>1, <1>5, <1>6, <1>7, <2>3, <2>5, <2>6 DEF n
<1>8. CASE projection.alert # a
  <2>1. UNCHANGED <<risk, projection, event>>
    BY <1>3, <1>8
  <2>2. risk.alert # a
    BY <1>1, <1>8 DEF IntentsInv, Truthful
  <2>3. IntentsTypeOK'
    BY <1>1, <1>3, <1>5, <2>1 DEF IntentsTypeOK
  <2>4. Truthful' /\ Newest'
    BY <1>1, <1>6, <2>1 DEF IntentsInv, Truthful, Newest
  <2>5. Numbered'
    BY <1>1, <1>6, <2>1, <2>2, NullAssumption DEF IntentsInv, IntentsTypeOK, Numbered
  <2>6. QED
    BY <1>1, <1>5, <1>6, <1>8, <2>1, <2>3, <2>4, <2>5 DEF IntentsInv, n
<1>9. QED
  BY <1>7, <1>8

\* A step of the outbox that leaves the intents alone.
LEMMA OutboxKeeps ==
  ASSUME IntentsInv, UNCHANGED <<risk, alert>>,
         projection' \in Projections, projection'.alert = projection.alert,
         projection'.desired = projection.desired,
         projection'.version = projection.version,
         event' \in [Versions -> Events],
         \A v \in Versions :
           /\ event'[v].alert = event[v].alert
           /\ event'[v].status = "ABSENT" <=> event[v].status = "ABSENT"
           /\ event'[v].status = "SUPERSEDED" =>
                event[v].status = "SUPERSEDED" \/ event[v].alert # projection.alert
  PROVE  IntentsInv'
<1>1. IntentsTypeOK'
  BY DEF IntentsInv, IntentsTypeOK
<1>2. Truthful' /\ Numbered'
  BY DEF IntentsInv, Truthful, Numbered
<1>3. Newest'
  BY DEF IntentsInv, Newest, Truthful
<1>4. QED
  BY <1>1, <1>2, <1>3 DEF IntentsInv
=============================================================================
