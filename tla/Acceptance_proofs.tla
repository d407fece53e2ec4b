--------------------------- MODULE Acceptance_proofs ---------------------------
(***************************************************************************)
(* Proofs about Acceptance.  The verifier takes the aggregate version of    *)
(* the risk row, which it reads twice, as a witness that nothing it read in *)
(* between has changed: every transaction on the current episode raises it. *)
(***************************************************************************)
EXTENDS Acceptance, WorkOrders_proofs

-----------------------------------------------------------------------------
(* While the version of the risk row stays, so does the current episode.    *)

LEMMA IntentsStill ==
  ASSUME OrdersInv, [Next]_vars, risk.alert \in Alerts, risk'.version = risk.version
  PROVE  /\ risk' = risk
         /\ projection.alarm # None => projection' = projection
         /\ (\A v \in Versions : event[v].status # "PENDING") => event' = event
<1> DEFINE Same == /\ risk' = risk
                   /\ projection.alarm # None => projection' = projection
                   /\ (\A v \in Versions : event[v].status # "PENDING") => event' = event
<1>0. /\ IntentsInv /\ risk.version \in Nat /\ risk.alert # None
      /\ risk \in [active : BOOLEAN, alert : Alerts \cup {None}, version : 0..MaxVersion]
  BY OneActive, NullAssumption DEF OrdersInv
<1>0a. ~(risk' = [risk EXCEPT !.version = @ + 1])
  BY <1>0
<1>0b. ~(risk' = [risk EXCEPT !.active = FALSE, !.version = @ + 1])
  <2>1. SUFFICES ASSUME risk' = [risk EXCEPT !.active = FALSE, !.version = @ + 1] PROVE FALSE
    OBVIOUS
  <2>2. risk'.version = risk.version + 1
    BY <1>0, <2>1
  <2>3. QED
    BY <1>0, <2>2
<1>1. ASSUME UNCHANGED intents PROVE Same
  BY <1>1 DEF intents
<1>2. ASSUME Round PROVE Same
  <2>1. ASSUME NEW a \in Alerts, Raise(a, Busy) \/ Continue(a) \/ Clear(a) PROVE FALSE
    <3>1. ~(risk' = [active |-> TRUE, alert |-> a, version |-> risk.version + 1])
      BY <1>0
    <3>2. CASE Raise(a, Busy)
      BY <3>1, <3>2 DEF Raise
    <3>3. CASE Continue(a)
      BY <1>0a, <3>3 DEF Continue
    <3>4. CASE Clear(a)
      BY <1>0b, <3>4 DEF Clear
    <3>5. QED
      BY <2>1, <3>2, <3>3, <3>4
  <2>2. ~ClearUnalerted
    BY <1>0 DEF ClearUnalerted
  <2>3. QED
    BY <1>2, <2>1, <2>2 DEF Round
<1>3. ASSUME NEW i \in AlarmIds, DeliverAlarm(i) PROVE Same
  <2>1. projection.version \in Versions
    BY <1>0, <1>3 DEF DeliverAlarm, IntentsInv, Truthful, Newest
  <2>2. QED
    BY <1>3, <2>1 DEF DeliverAlarm
<1>4. ASSUME NEW t \in Tabs, NEW lost \in BOOLEAN, CreateOrder(t, lost) \/ CloseRisk(t, lost)
      PROVE  FALSE
  <2>2. CASE CreateOrder(t, lost)
    BY <1>0a, <2>2 DEF CreateOrder, OrderAlert
  <2>3. CASE CloseRisk(t, lost)
    BY <1>0b, <2>3 DEF CloseRisk, CloseAlert
  <2>4. QED
    BY <1>4, <2>2, <2>3
<1>5. ASSUME NEW b, NEW seen, NEW care, TellAlert(b, seen, care) PROVE Same
  <2>1. CASE projection.alert = b
    BY <1>0, <1>5, <2>1 DEF TellAlert
  <2>2. CASE projection.alert # b
    BY <1>5, <2>2 DEF TellAlert
  <2>3. QED
    BY <2>1, <2>2
<1>6. ASSUME NEW w \in Senders, SaveOrder(w) PROVE Same
  <2>1. \/ UNCHANGED intents
        \/ TellAlert(sender[w].alert, sender[w].seen, CareOf[sender[w].reply.status])
    BY <1>6 DEF SaveOrder
  <2>2. QED
    BY <1>1, <1>5, <2>1
<1>7. ASSUME NEW p \in Pollers, ApplyStatus(p) PROVE Same
  <2>1. \/ UNCHANGED intents
        \/ TellAlert(poller[p].alert, poller[p].seen, CareOf[poller[p].reply.status])
    BY <1>7 DEF ApplyStatus
  <2>2. QED
    BY <1>1, <1>5, <2>1
<1> HIDE DEF Same
<1>8. Same
  BY <1>1, <1>2, <1>3, <1>4, <1>6, <1>7, Writers
     DEF ClaimCommand, RejectIdentity, RetryCommand, ClaimPoll, FailPoll
<1>9. QED
  BY <1>8 DEF Same

LEMMA RowsStill ==
  ASSUME OrdersInv, [Next]_vars, risk.alert \in Alerts, risk'.version = risk.version
  PROVE  /\ alert'[risk.alert] = alert[risk.alert]
         /\ OrderOf(order[risk.alert])' = OrderOf(order[risk.alert])
<1> DEFINE a == risk.alert
<1>1. /\ risk.version \in Nat /\ projection.alert = a /\ alert[a].risk # "ABSENT"
  BY OneActive, NullAssumption DEF OrdersInv, IntentsInv, Numbered
<1>2. ~Opened(a) /\ ~Advanced(a) /\ ~Approved(a) /\ ~Created(a) /\ ~Polled(a)
  BY <1>1 DEF Opened, Advanced, Approved, Created, Polled, Told
<1>3. Untouched(a)
  BY <1>2, RowStep DEF RowMoves
<1>4. /\ alert'[a] = alert[a]
      /\ order'[a].state = order[a].state /\ order'[a].version = order[a].version
  BY <1>3 DEF Untouched
<1>5. a' = a
  BY IntentsStill
<1>6. QED
  BY <1>4, <1>5 DEF OrderOf

LEMMA CommandsStill ==
  ASSUME OrdersInv, [Next]_vars, risk.alert \in Alerts, risk'.version = risk.version,
         \A a \in Alerts : command[a].status \notin Undelivered
  PROVE  \A a \in Alerts : command'[a].status = command[a].status
<1> SUFFICES ASSUME NEW a \in Alerts PROVE command'[a].status = command[a].status
  OBVIOUS
<1>1. risk.version \in Nat
  BY OneActive DEF OrdersInv
<1>2. ~Approved(a)
  BY <1>1 DEF Approved
<1>3. ~Created(a)
  BY DEF Created, Told, Mine, Undelivered
<1>4. QED
  BY <1>2, <1>3, RowStep DEF RowMoves, Untouched, Opened, Advanced, Polled
-----------------------------------------------------------------------------
(* The invariant.                                                           *)

Snapshots == [risk : [active : BOOLEAN, alert : Alerts \cup {None}, version : 0..MaxVersion],
              alert : AlertRows, projection : Projections,
              order : [state : CareStates \cup {"NONE"}, version : 0..MaxCmmsVersion],
              outbox : [CountedStatuses -> Nat]]

Pcs == {"risk", "alert", "projection", "order", "outbox", "alarm", "cmms", "conclude",
        "accepted"}

Verifiers == [pc : Pcs, pass : 1..2, first : Snapshots, rows : Snapshots,
              cleared : BOOLEAN, moment : SUBSET Stages, verdict : Stages \cup {NoStage}]

\* Nothing waits or is on its way.
Quiet == /\ \A v \in Versions : event[v].status \notin Undelivered
         /\ \A a \in Alerts : command[a].status \notin Undelivered

\* Of a snapshot that is read as far as pc, while the version of its risk row
\* lasts: everything read is as it was.
Fresh(s, pc) ==
  /\ s.risk.alert \in Alerts
  /\ s.risk.version <= risk.version
  /\ pc \in {"order", "outbox", "alarm"} => s.projection.alarm # None
  /\ s.risk.version = risk.version =>
       /\ s.risk = risk
       /\ pc \in {"projection", "order", "outbox", "alarm"} => s.alert = alert[risk.alert]
       /\ pc \in {"order", "outbox", "alarm"} => s.projection = projection
       /\ pc \in {"outbox", "alarm"} => /\ s.order = OrderOf(order[risk.alert])
                                        /\ order[risk.alert].version > 0
       /\ pc = "alarm" => Quiet /\ s.outbox = [c \in CountedStatuses |-> Outbox(c)]

\* The first snapshot, when it has passed its checks.
Checked(s) == Fresh(s, "alarm") /\ LocallyValid(s) /\ Settled(s)

\* What passes for the first snapshot passed for all of the system when the
\* alarm was read.
Witnessed == verifier.moment = PassingStages(verifier.first, verifier.cleared)

Reading == {"alert", "projection", "order", "outbox"}

Tracked ==
  LET first == verifier.first
  IN /\ verifier.pass = 1 /\ verifier.pc \in Reading => Fresh(verifier.rows, verifier.pc)
     /\ verifier.pc \in {"alarm", "cmms"} => Checked(first)
     /\ /\ verifier.pc = "cmms"
        /\ first.risk.version = risk.version
        /\ OrderValid(first, cmms[first.risk.alert])
        => Witnessed
     /\ verifier.pass = 2 /\ verifier.pc = "risk" =>
          /\ first.risk.version <= risk.version
          /\ first.risk.version = risk.version => Witnessed
     /\ verifier.pass = 2 /\ verifier.pc \in Reading =>
          /\ verifier.rows.risk.alert \in Alerts
          /\ verifier.rows.risk = first.risk => Witnessed
     /\ verifier.pc = "conclude" => Witnessed
     /\ verifier.pc # "accepted" => verifier.verdict = NoStage
     /\ AcceptedWasTrue

AcceptInv == /\ OrdersInv
             /\ tb \in [AlarmIds -> TbAlarms]
             /\ verifier \in Verifiers
             /\ Tracked
-----------------------------------------------------------------------------
(* The outbox.                                                              *)

LEMMA OutboxCounts ==
  ASSUME OrdersInv, NEW c
  PROVE  /\ Outbox(c) \in Nat
         /\ Outbox(c) = 0 => /\ \A v \in Versions : event[v].status # c
                             /\ \A a \in Alerts : command[a].status # c
<1> DEFINE E == {v \in Versions : event[v].status = c}
           C == {a \in Alerts : command[a].status = c}
<1>1. IsFiniteSet(Versions)
  BY FS_Interval, BoundsAssumption DEF Versions
<1>2. IsFiniteSet(E) /\ IsFiniteSet(C)
  BY <1>1, FiniteAssumption, FS_Subset
<1>3. Cardinality(E) \in Nat /\ Cardinality(C) \in Nat
  BY <1>2, FS_CardinalityType
<1>4. Outbox(c) = Cardinality(E) + Cardinality(C)
  BY DEF Outbox
<1>5. Cardinality(E) = 0 => E = {}
  BY <1>2, FS_EmptySet
<1>6. Cardinality(C) = 0 => C = {}
  BY <1>2, FS_EmptySet
<1> HIDE DEF E, C
<1>7. Outbox(c) \in Nat /\ (Outbox(c) = 0 => E = {} /\ C = {})
  BY <1>3, <1>4, <1>5, <1>6
<1>8. QED
  BY <1>7 DEF E, C

LEMMA SettledIsQuiet ==
  ASSUME OrdersInv, \A c \in Undelivered : Outbox(c) = 0
  PROVE  Quiet
BY OutboxCounts DEF Quiet

LEMMA OutboxStill ==
  ASSUME event' = event, \A a \in Alerts : command'[a].status = command[a].status, NEW c
  PROVE  Outbox(c)' = Outbox(c)
<1>1. {v \in Versions : event'[v].status = c} = {v \in Versions : event[v].status = c}
  OBVIOUS
<1>2. {a \in Alerts : command'[a].status = c} = {a \in Alerts : command[a].status = c}
  OBVIOUS
<1>3. QED
  BY <1>1, <1>2 DEF Outbox

\* Whatever happens, a snapshot stays fresh for as long as the version lasts.
LEMMA FreshStill ==
  ASSUME OrdersInv, [Next]_vars, NEW s \in Snapshots, NEW pc, Fresh(s, pc)
  PROVE  Fresh(s, pc)'
<1>1. RiskMoves /\ s.risk.version \in Nat
  BY IntentsStep DEF Snapshots
<1>2. CASE risk'.version = risk.version /\ s.risk.version = risk.version
  <2>1. s.risk = risk /\ risk.alert \in Alerts
    BY <1>2 DEF Fresh
  <2>2. /\ risk' = risk
        /\ projection.alarm # None => projection' = projection
        /\ Quiet => event' = event
    BY <1>2, <2>1, IntentsStill DEF Quiet, Undelivered
  <2>3. /\ alert'[risk.alert] = alert[risk.alert]
        /\ OrderOf(order[risk.alert])' = OrderOf(order[risk.alert])
    BY <1>2, <2>1, RowsStill
  <2>4. Quiet => \A a \in Alerts : command'[a].status = command[a].status
    BY <1>2, <2>1, CommandsStill DEF Quiet
  <2>5. Quiet => Quiet'
    BY <2>2, <2>4 DEF Quiet
  <2>6. Quiet => [c \in CountedStatuses |-> Outbox(c)]' = [c \in CountedStatuses |-> Outbox(c)]
    BY <2>2, <2>4, OutboxStill
  <2>7. order'[risk.alert].version = order[risk.alert].version
    BY <2>2, <2>3 DEF OrderOf
  <2>8. QED
    BY <1>1, <1>2, <2>1, <2>2, <2>3, <2>5, <2>6, <2>7 DEF Fresh
<1>3. CASE ~(risk'.version = risk.version /\ s.risk.version = risk.version)
  <2>1. s.risk.version <= risk.version
    BY DEF Fresh
  <2>2. s.risk.version <= risk'.version /\ s.risk.version # risk'.version
    BY <1>1, <1>3, <2>1 DEF RiskMoves
  <2>3. QED
    BY <2>2 DEF Fresh
<1>4. QED
  BY <1>2, <1>3

\* If the CMMS answers the second time what the order on record wants, it would
\* have done so before.
LEMMA OrderWasValid ==
  ASSUME OrdersInv, [Next]_vars, NEW s \in Snapshots, Fresh(s, "alarm"),
         s.risk.version = risk'.version, OrderValid(s, cmms'[s.risk.alert])
  PROVE  s.risk.version = risk.version /\ OrderValid(s, cmms[s.risk.alert])
<1> DEFINE a == s.risk.alert
<1>1. s.risk.version = risk.version
  BY IntentsStep DEF Fresh, RiskMoves, Snapshots
<1>2. a \in Alerts /\ s.order = OrderOf(order[a])
  BY <1>1 DEF Fresh
<1>3. /\ order[a].version <= cmms[a].version
      /\ order[a].version \in Nat /\ cmms[a].version \in Nat
  BY <1>2, Fields DEF OrdersInv, Recorded
<1>4. cmms'[a].version = order[a].version
  BY <1>2 DEF OrderValid, OrderOf
<1>5. cmms'[a] = cmms[a]
  BY <1>2, <1>3, <1>4, CmmsStep DEF CmmsMoves
<1>6. QED
  BY <1>1, <1>5
-----------------------------------------------------------------------------
(* The steps.                                                               *)

\* The verifier waits while something else happens.
LEMMA OthersKeep ==
  ASSUME OrdersInv, [Next]_vars, verifier \in Verifiers, Tracked, verifier' = verifier
  PROVE  Tracked'
<1>1. PICK v \in Verifiers : verifier = v
  OBVIOUS
<1>2. v.first \in Snapshots /\ v.rows \in Snapshots /\ verifier' = v
  BY <1>1 DEF Verifiers
<1>3. v.pass = 1 /\ v.pc \in Reading => Fresh(v.rows, v.pc)'
  <2>1. SUFFICES ASSUME v.pass = 1, v.pc \in Reading PROVE Fresh(v.rows, v.pc)'
    OBVIOUS
  <2>2. Fresh(v.rows, v.pc)
    BY <1>1, <2>1 DEF Tracked
  <2>3. QED
    BY <1>2, <2>2, FreshStill
<1>4. v.pc \in {"alarm", "cmms"} => Checked(v.first)'
  <2>1. SUFFICES ASSUME v.pc \in {"alarm", "cmms"} PROVE Checked(v.first)'
    OBVIOUS
  <2>2. Checked(v.first)
    BY <1>1, <2>1 DEF Tracked
  <2>3. Fresh(v.first, "alarm")'
    BY <1>2, <2>2, FreshStill DEF Checked
  <2>4. QED
    BY <2>2, <2>3 DEF Checked
<1>5. v.pc = "cmms" /\ v.first.risk.version = risk'.version
        /\ OrderValid(v.first, cmms'[v.first.risk.alert])
      => Witnessed
  <2>1. SUFFICES ASSUME v.pc = "cmms", v.first.risk.version = risk'.version,
                        OrderValid(v.first, cmms'[v.first.risk.alert])
                 PROVE  Witnessed
    OBVIOUS
  <2>2. Fresh(v.first, "alarm")
    BY <1>1, <2>1 DEF Tracked, Checked
  <2>3. v.first.risk.version = risk.version /\ OrderValid(v.first, cmms[v.first.risk.alert])
    BY <1>2, <2>1, <2>2, OrderWasValid
  <2>4. QED
    BY <1>1, <2>1, <2>3 DEF Tracked
<1>6. v.pass = 2 /\ v.pc = "risk" => /\ v.first.risk.version <= risk'.version
                                     /\ v.first.risk.version = risk'.version => Witnessed
  <2>1. SUFFICES ASSUME v.pass = 2, v.pc = "risk"
                 PROVE  /\ v.first.risk.version <= risk'.version
                        /\ v.first.risk.version = risk'.version => Witnessed
    OBVIOUS
  <2>2. /\ v.first.risk.version <= risk.version
        /\ v.first.risk.version = risk.version => Witnessed
    BY <1>1, <2>1 DEF Tracked
  <2>3. v.first.risk.version \in Nat /\ RiskMoves
    BY <1>2, IntentsStep DEF Snapshots
  <2>4. QED
    BY <2>2, <2>3 DEF RiskMoves
<1>7. /\ v.pass = 2 /\ v.pc \in Reading => /\ v.rows.risk.alert \in Alerts
                                           /\ v.rows.risk = v.first.risk => Witnessed
      /\ v.pc = "conclude" => Witnessed
      /\ AcceptedWasTrue'
  BY <1>1, <1>2 DEF Tracked, AcceptedWasTrue
<1>8. Witnessed' <=> Witnessed
  BY <1>1, <1>2 DEF Witnessed
<1>9. QED
  BY <1>2, <1>3, <1>4, <1>5, <1>6, <1>7, <1>8 DEF Tracked

\* The verifier starts again.
LEMMA Restarted ==
  ASSUME verifier' = NotStarted
  PROVE  Tracked'
BY DEF NotStarted, Tracked, Reading, AcceptedWasTrue

LEMMA NewSnapshot == NoSnapshot \in Snapshots /\ NotStarted \in Verifiers
<1>1. /\ NoAlert \in AlertRows /\ NoProjection \in Projections
      /\ OrderOf(NoOrder) \in [state : CareStates \cup {"NONE"}, version : 0..MaxCmmsVersion]
  BY BoundsAssumption, CmmsAssumption
     DEF NoAlert, AlertRows, CareStates, NoProjection, Projections, OrderOf, NoOrder
<1>2. [active |-> FALSE, alert |-> None, version |-> 0]
        \in [active : BOOLEAN, alert : Alerts \cup {None}, version : 0..MaxVersion]
  BY BoundsAssumption
<1>3. NoSnapshot \in Snapshots
  BY <1>1, <1>2 DEF NoSnapshot, Snapshots
<1>4. QED
  BY <1>3 DEF NotStarted, Verifiers, Pcs, NoStage
\* A query of either read has found its row.
LEMMA RowRead ==
  ASSUME OrdersInv, UNCHANGED vars, verifier \in Verifiers, Tracked,
         verifier.pc # "accepted",
         NEW s \in Snapshots, NEW pc \in Reading,
         verifier' = [verifier EXCEPT !.rows = s, !.pc = pc],
         verifier.pass = 1 => Fresh(s, pc),
         verifier.pass = 2 => /\ s.risk.alert \in Alerts
                              /\ s.risk = verifier.first.risk => Witnessed
  PROVE  verifier' \in Verifiers /\ Tracked'
<1>1. /\ verifier'.pc = pc /\ verifier'.rows = s /\ verifier'.pass = verifier.pass
      /\ verifier'.first = verifier.first /\ verifier'.cleared = verifier.cleared
      /\ verifier'.moment = verifier.moment /\ verifier'.verdict = verifier.verdict
  BY DEF Verifiers
<1>2. verifier' \in Verifiers
  BY DEF Verifiers, Pcs, Reading
<1>3. Fresh(s, pc) => Fresh(s, pc)'
  BY FreshStill
<1>4. Witnessed' <=> Witnessed
  BY <1>1 DEF Witnessed
<1>5. verifier'.verdict = NoStage /\ AcceptedWasTrue'
  BY <1>1 DEF Tracked, AcceptedWasTrue
<1>6. pc \notin {"risk", "alarm", "cmms", "conclude"}
  BY DEF Reading
<1>7. verifier'.pass = 1 => Fresh(verifier.rows, verifier.pc)'
  BY <1>1, <1>3 DEF Fresh
<1>8. QED
  BY <1>1, <1>2, <1>4, <1>5, <1>6, <1>7 DEF Tracked

LEMMA RowTyped ==
  ASSUME OrdersInv, verifier \in Verifiers
  PROVE  /\ [verifier.rows EXCEPT !.risk = risk] \in Snapshots
         /\ \A a \in Alerts : [verifier.rows EXCEPT !.alert = alert[a]] \in Snapshots
         /\ [verifier.rows EXCEPT !.projection = projection] \in Snapshots
         /\ \A a \in Alerts : [verifier.rows EXCEPT !.order = OrderOf(order[a])] \in Snapshots
         /\ [verifier.rows EXCEPT !.outbox = [c \in CountedStatuses |-> Outbox(c)]] \in Snapshots
<1>1. verifier.rows \in Snapshots
  BY DEF Verifiers
<1>2. /\ risk \in [active : BOOLEAN, alert : Alerts \cup {None}, version : 0..MaxVersion]
      /\ projection \in Projections
  BY DEF OrdersInv, IntentsInv, IntentsTypeOK
<1>3. \A a \in Alerts :
        /\ alert[a] \in AlertRows
        /\ OrderOf(order[a]) \in [state : CareStates \cup {"NONE"}, version : 0..MaxCmmsVersion]
  BY Fields DEF OrderOf, OrderRows
<1>4. [c \in CountedStatuses |-> Outbox(c)] \in [CountedStatuses -> Nat]
  BY OutboxCounts
<1>5. QED
  BY <1>1, <1>2, <1>3, <1>4 DEF Snapshots

LEMMA RiskRead ==
  ASSUME OrdersInv, verifier \in Verifiers, Tracked, ReadRisk
  PROVE  verifier' \in Verifiers /\ Tracked'
<1> DEFINE s == [verifier.rows EXCEPT !.risk = risk]
<1>1. CASE risk.alert = None
  BY <1>1, Restarted, NewSnapshot DEF ReadRisk, Read
<1>2. CASE risk.alert # None
  <2>1. s \in Snapshots /\ verifier.rows \in Snapshots
    BY RowTyped DEF Verifiers
  <2>2. verifier' = [verifier EXCEPT !.rows = s, !.pc = "alert"]
    BY <1>2 DEF ReadRisk, Read, Verifiers
  <2>3. s.risk = risk
    BY <2>1 DEF Snapshots
  <2>4. risk.alert \in Alerts /\ risk.version \in Nat
    BY <1>2, OneActive DEF OrdersInv
  <2>5. verifier.pc = "risk" /\ UNCHANGED vars
    BY DEF ReadRisk, Read
  <2> HIDE DEF s
  <2>6. Fresh(s, "alert")
    BY <2>3, <2>4 DEF Fresh
  <2>7. verifier.pass = 2 => (s.risk = verifier.first.risk => Witnessed)
    BY <2>3, <2>5 DEF Tracked
  <2>8. QED
    BY <2>1, <2>2, <2>3, <2>4, <2>5, <2>6, <2>7, RowRead DEF Reading
<1>3. QED
  BY <1>1, <1>2

LEMMA AlertRead ==
  ASSUME OrdersInv, verifier \in Verifiers, Tracked, ReadAlert
  PROVE  verifier' \in Verifiers /\ Tracked'
<1> DEFINE s == [verifier.rows EXCEPT !.alert = alert[Seen]]
<1>1. verifier.pc = "alert" /\ UNCHANGED vars
  BY DEF ReadAlert, Read
<1>2. /\ verifier.pass = 1 => Fresh(verifier.rows, "alert")
      /\ verifier.pass = 2 => /\ Seen \in Alerts
                              /\ verifier.rows.risk = verifier.first.risk => Witnessed
  BY <1>1 DEF Tracked, Reading, Seen
<1>3. Seen \in Alerts
  BY <1>2 DEF Verifiers, Fresh, Seen
<1>4. s \in Snapshots /\ verifier.rows \in Snapshots
  BY <1>3, RowTyped DEF Verifiers
<1>5. verifier' = [verifier EXCEPT !.rows = s, !.pc = "projection"]
  BY DEF ReadAlert, Read, Verifiers
<1>6. s.risk = verifier.rows.risk /\ s.alert = alert[Seen]
  BY <1>4 DEF Snapshots
<1> HIDE DEF s
<1>7. Fresh(verifier.rows, "alert") => Fresh(s, "projection")
  BY <1>6 DEF Fresh, Seen
<1>8. QED
  BY <1>1, <1>2, <1>4, <1>5, <1>6, <1>7, RowRead DEF Reading, Seen

LEMMA ProjectionRead ==
  ASSUME OrdersInv, verifier \in Verifiers, Tracked, ReadProjection
  PROVE  verifier' \in Verifiers /\ Tracked'
<1> DEFINE s == [verifier.rows EXCEPT !.projection = projection]
<1>1. verifier.pc = "projection" /\ UNCHANGED vars
  BY DEF ReadProjection, Read
<1>2. /\ verifier.pass = 1 => Fresh(verifier.rows, "projection")
      /\ verifier.pass = 2 => /\ Seen \in Alerts
                              /\ verifier.rows.risk = verifier.first.risk => Witnessed
  BY <1>1 DEF Tracked, Reading, Seen
<1>3. CASE ~CurrentProjection(Seen)
  BY <1>3, Restarted, NewSnapshot DEF ReadProjection, Read
<1>4. CASE CurrentProjection(Seen)
  <2>1. s \in Snapshots /\ verifier.rows \in Snapshots
    BY RowTyped DEF Verifiers
  <2>2. verifier' = [verifier EXCEPT !.rows = s, !.pc = "order"]
    BY <1>4 DEF ReadProjection, Read, Verifiers
  <2>3. s.risk = verifier.rows.risk /\ s.alert = verifier.rows.alert /\ s.projection = projection
    BY <2>1 DEF Snapshots
  <2>4. projection.alarm # None
    BY <1>4 DEF CurrentProjection
  <2> HIDE DEF s
  <2>5. Fresh(verifier.rows, "projection") => Fresh(s, "order")
    BY <2>3, <2>4 DEF Fresh
  <2>6. QED
    BY <1>1, <1>2, <2>1, <2>2, <2>3, <2>5, RowRead DEF Reading, Seen
<1>5. QED
  BY <1>3, <1>4

LEMMA WorkOrderRead ==
  ASSUME OrdersInv, verifier \in Verifiers, Tracked, ReadWorkOrder
  PROVE  verifier' \in Verifiers /\ Tracked'
<1> DEFINE s == [verifier.rows EXCEPT !.order = OrderOf(order[Seen])]
<1>1. verifier.pc = "order" /\ UNCHANGED vars
  BY DEF ReadWorkOrder, Read
<1>2. /\ verifier.pass = 1 => Fresh(verifier.rows, "order")
      /\ verifier.pass = 2 => /\ Seen \in Alerts
                              /\ verifier.rows.risk = verifier.first.risk => Witnessed
  BY <1>1 DEF Tracked, Reading, Seen
<1>3. CASE ~(order[Seen].version > 0)
  BY <1>3, Restarted, NewSnapshot DEF ReadWorkOrder, Read
<1>4. CASE order[Seen].version > 0
  <2>1. Seen \in Alerts
    BY <1>2 DEF Verifiers, Fresh, Seen
  <2>2. s \in Snapshots /\ verifier.rows \in Snapshots
    BY <2>1, RowTyped DEF Verifiers
  <2>3. verifier' = [verifier EXCEPT !.rows = s, !.pc = "outbox"]
    BY <1>4 DEF ReadWorkOrder, Read, Verifiers
  <2>4. /\ s.risk = verifier.rows.risk /\ s.alert = verifier.rows.alert
        /\ s.projection = verifier.rows.projection /\ s.order = OrderOf(order[Seen])
    BY <2>2 DEF Snapshots
  <2> HIDE DEF s
  <2>5. Fresh(verifier.rows, "order") => Fresh(s, "outbox")
    BY <1>4, <2>4 DEF Fresh, Seen
  <2>6. QED
    BY <1>1, <1>2, <2>2, <2>3, <2>4, <2>5, RowRead DEF Reading, Seen
<1>5. QED
  BY <1>3, <1>4
LEMMA OutboxRead ==
  ASSUME OrdersInv, verifier \in Verifiers, Tracked, ReadOutbox
  PROVE  verifier' \in Verifiers /\ Tracked'
<1> DEFINE counts == [c \in CountedStatuses |-> Outbox(c)]
           s == [verifier.rows EXCEPT !.outbox = counts]
<1>1. verifier.pc = "outbox" /\ UNCHANGED vars
  BY DEF ReadOutbox
<1>2. s \in Snapshots /\ verifier.rows \in Snapshots
  BY RowTyped DEF Verifiers
<1>3. /\ s.risk = verifier.rows.risk /\ s.alert = verifier.rows.alert
      /\ s.projection = verifier.rows.projection /\ s.order = verifier.rows.order
      /\ s.outbox = counts
  BY <1>2 DEF Snapshots
<1>4. \/ /\ verifier.pass = 1 /\ LocallyValid(s) /\ Settled(s)
         /\ verifier' = [verifier EXCEPT !.first = s, !.rows = s, !.pc = "alarm"]
      \/ /\ verifier.pass = 2 /\ s = verifier.first
         /\ verifier' = [verifier EXCEPT !.pc = "conclude"]
      \/ verifier' = NotStarted
  BY DEF ReadOutbox
<1>5. \A c \in Undelivered : c \in CountedStatuses
  BY DEF Undelivered, CountedStatuses, EventStatuses, Waiting
<1> HIDE DEF s
<1>6. Settled(s) => Quiet
  <2>1. SUFFICES ASSUME Settled(s), NEW c \in Undelivered PROVE Outbox(c) = 0
    BY SettledIsQuiet
  <2>2. counts[c] = Outbox(c)
    BY <1>5
  <2> HIDE DEF counts
  <2>3. QED
    BY <1>3, <2>1, <2>2 DEF Settled, Undelivered
<1>7. CASE verifier' = NotStarted
  BY <1>7, Restarted, NewSnapshot
<1>8. CASE /\ verifier.pass = 1 /\ LocallyValid(s) /\ Settled(s)
           /\ verifier' = [verifier EXCEPT !.first = s, !.rows = s, !.pc = "alarm"]
  <2>1. Fresh(verifier.rows, "outbox")
    BY <1>1, <1>8 DEF Tracked, Reading
  <2>2. Fresh(s, "alarm")
    BY <1>3, <1>6, <1>8, <2>1 DEF Fresh
  <2>3. PICK r \in Snapshots : r = s
    BY <1>2
  <2>4. Fresh(r, "alarm")'
    BY <1>1, <2>2, <2>3, FreshStill
  <2>5. /\ verifier'.pc = "alarm" /\ verifier'.first = r /\ verifier'.pass = 1
        /\ verifier'.verdict = verifier.verdict /\ verifier'.moment = verifier.moment
    BY <1>8, <2>3 DEF Verifiers
  <2>6. Checked(verifier.first)'
    BY <1>8, <2>3, <2>4, <2>5 DEF Checked, Fresh
  <2>7. verifier' \in Verifiers
    BY <1>2, <1>8 DEF Verifiers, Pcs
  <2>8. verifier'.verdict = NoStage /\ AcceptedWasTrue'
    BY <1>1, <2>5 DEF Tracked, AcceptedWasTrue
  <2>9. QED
    BY <2>5, <2>6, <2>7, <2>8 DEF Tracked, Reading
<1>9. CASE /\ verifier.pass = 2 /\ s = verifier.first
           /\ verifier' = [verifier EXCEPT !.pc = "conclude"]
  <2>1. Witnessed
    BY <1>1, <1>3, <1>9 DEF Tracked, Reading
  <2>2. /\ verifier'.pc = "conclude" /\ verifier'.first = verifier.first
        /\ verifier'.cleared = verifier.cleared
        /\ verifier'.verdict = verifier.verdict /\ verifier'.moment = verifier.moment
    BY <1>9 DEF Verifiers
  <2>3. Witnessed' /\ AcceptedWasTrue' /\ verifier'.verdict = NoStage
    BY <1>1, <2>1, <2>2 DEF Witnessed, Tracked, AcceptedWasTrue
  <2>4. verifier' \in Verifiers
    BY <1>9 DEF Verifiers, Pcs
  <2>5. QED
    BY <2>2, <2>3, <2>4 DEF Tracked, Reading
<1>10. QED
  BY <1>4, <1>7, <1>8, <1>9

LEMMA StagesPass ==
  ASSUME NEW s, NEW cleared
  PROVE  PassingStages(s, cleared) \subseteq Stages
<1>1. \A c \in DOMAIN StageOf : StageOf[c] \in Stages
  BY DEF StageOf, Stages
<1>2. QED
  BY <1>1 DEF PassingStages, Stages

\* The snapshot is what anybody would see as the alarm is read, or the version
\* has changed.
LEMMA SeenAtOnce ==
  ASSUME OrdersInv, verifier \in Verifiers, NEW s \in Snapshots, Checked(s),
         s.risk.version = risk.version,
         AlarmValid(s, tb[s.projection.alarm]), OrderValid(s, cmms[s.risk.alert])
  PROVE  AtOnce = PassingStages(s, tb[s.projection.alarm].cleared)
<1> DEFINE now == [risk |-> risk, alert |-> alert[risk.alert], projection |-> projection,
                   order |-> OrderOf(order[risk.alert]),
                   outbox |-> [c \in CountedStatuses |-> Outbox(c)]]
<1>1. /\ s.risk = risk /\ s.alert = alert[risk.alert] /\ s.projection = projection
      /\ s.order = OrderOf(order[risk.alert]) /\ order[risk.alert].version > 0
      /\ s.outbox = [c \in CountedStatuses |-> Outbox(c)]
      /\ risk.alert \in Alerts /\ projection.alarm # None
  BY DEF Checked, Fresh
<1>2. s = now
  <2>1. s = [risk |-> s.risk, alert |-> s.alert, projection |-> s.projection,
             order |-> s.order, outbox |-> s.outbox]
    BY DEF Snapshots
  <2>2. QED
    BY <1>1, <2>1
<1>3. risk.alert # None /\ CurrentProjection(risk.alert)
  BY <1>1, NullAssumption, OneActive DEF OrdersInv, CurrentProjection
<1>4. LocallyValid(now) /\ Settled(now)
  BY <1>2 DEF Checked
<1>5. AlarmValid(now, tb[projection.alarm]) /\ OrderValid(now, cmms[risk.alert])
  BY <1>1, <1>2
<1>6. PassingStages(s, tb[s.projection.alarm].cleared)
        = PassingStages(now, tb[projection.alarm].cleared)
  BY <1>1, <1>2
<1> HIDE DEF now
<1>7. AtOnce = PassingStages(now, tb[projection.alarm].cleared)
  BY <1>1, <1>3, <1>4, <1>5 DEF AtOnce, now
<1>8. QED
  BY <1>6, <1>7

LEMMA AlarmRead ==
  ASSUME OrdersInv, tb \in [AlarmIds -> TbAlarms], verifier \in Verifiers, Tracked, ReadAlarm
  PROVE  verifier' \in Verifiers /\ Tracked'
<1>1. PICK v \in Verifiers : verifier = v
  OBVIOUS
<1> DEFINE alarm == tb[v.first.projection.alarm]
<1>2. v.first \in Snapshots /\ v.pc = "alarm" /\ UNCHANGED vars
  BY <1>1 DEF ReadAlarm, Verifiers
<1>3. CASE ~AlarmValid(v.first, alarm)
  BY <1>1, <1>3, Restarted, NewSnapshot DEF ReadAlarm
<1>4. CASE AlarmValid(v.first, alarm)
  <2>1. verifier' = [v EXCEPT !.cleared = alarm.cleared, !.pc = "cmms", !.moment = AtOnce]
    BY <1>1, <1>4 DEF ReadAlarm
  <2>2. Checked(v.first)
    BY <1>1, <1>2 DEF Tracked
  <2>3. alarm.cleared \in BOOLEAN
    <3>1. v.first.projection.alarm \in AlarmIds
      BY <1>2, <2>2 DEF Checked, Fresh, Snapshots, Projections
    <3>2. QED
      BY <3>1 DEF TbAlarms
  <2>4. AtOnce \subseteq Stages
    BY StagesPass DEF AtOnce
  <2> HIDE DEF alarm
  <2>5. /\ verifier'.pc = "cmms" /\ verifier'.first = v.first
        /\ verifier'.verdict = v.verdict /\ verifier'.cleared = alarm.cleared
        /\ verifier'.moment = AtOnce
    BY <2>1 DEF Verifiers
  <2>6. verifier' \in Verifiers
    BY <2>1, <2>3, <2>4 DEF Verifiers, Pcs
  <2>7. Fresh(v.first, "alarm")'
    BY <1>2, <2>2, FreshStill DEF Checked
  <2>8. Checked(verifier.first)'
    BY <2>2, <2>5, <2>7 DEF Checked, Fresh
  <2>9. v.first.risk.version = risk.version /\ OrderValid(v.first, cmms[v.first.risk.alert])
          => AtOnce = PassingStages(v.first, alarm.cleared)
    BY <1>2, <1>4, <2>2, SeenAtOnce DEF alarm
  <2>10. cmms' = cmms /\ risk' = risk
    BY <1>2 DEF vars
  <2>11. /\ verifier'.first.risk.version = risk'.version
         /\ OrderValid(verifier'.first, cmms'[verifier'.first.risk.alert])
         => Witnessed'
    BY <2>5, <2>9, <2>10 DEF Witnessed
  <2>12. v.verdict = NoStage
    BY <1>1, <1>2 DEF Tracked
  <2>13. QED
    BY <2>5, <2>6, <2>8, <2>11, <2>12 DEF Tracked, Reading, AcceptedWasTrue
<1>5. QED
  BY <1>3, <1>4
LEMMA CmmsRead ==
  ASSUME OrdersInv, verifier \in Verifiers, Tracked, ReadCmms
  PROVE  verifier' \in Verifiers /\ Tracked'
<1> DEFINE first == verifier.first
           valid == OrderValid(first, cmms[first.risk.alert])
<1>1. verifier.pc = "cmms" /\ UNCHANGED vars
  BY DEF ReadCmms
<1>2. CASE ~valid
  BY <1>2, Restarted, NewSnapshot DEF ReadCmms
<1>3. CASE valid
  <2>1. verifier' = [verifier EXCEPT !.pc = "risk", !.pass = 2]
    BY <1>3 DEF ReadCmms
  <2>2. /\ verifier'.pc = "risk" /\ verifier'.pass = 2 /\ verifier'.first = first
        /\ verifier'.cleared = verifier.cleared
        /\ verifier'.verdict = verifier.verdict /\ verifier'.moment = verifier.moment
    BY <2>1 DEF Verifiers
  <2>3. verifier' \in Verifiers
    <3>1. 2 \in 1..2 /\ "risk" \in Pcs
      BY DEF Pcs
    <3> HIDE DEF first, valid
    <3>2. QED
      BY <2>1, <3>1 DEF Verifiers
  <2>4. /\ first.risk.version <= risk.version
        /\ first.risk.version = risk.version => Witnessed
    <3>1. Checked(first) /\ (first.risk.version = risk.version => Witnessed)
      BY <1>1, <1>3 DEF Tracked
    <3>2. first.risk.version <= risk.version
      BY <3>1 DEF Checked, Fresh
    <3>3. QED
      BY <3>1, <3>2
  <2>5. verifier'.verdict = NoStage
    BY <1>1, <2>2 DEF Tracked
  <2>6. (Witnessed' <=> Witnessed) /\ risk' = risk
    BY <1>1, <2>2 DEF Witnessed, vars
  <2>7. QED
    BY <2>2, <2>3, <2>4, <2>5, <2>6 DEF Tracked, Reading, AcceptedWasTrue
<1>4. QED
  BY <1>2, <1>3

LEMMA Concluded ==
  ASSUME verifier \in Verifiers, Tracked, NEW expected \in Stages, Conclude(expected)
  PROVE  verifier' \in Verifiers /\ Tracked'
<1>1. verifier.pc = "conclude" /\ Witnessed
  BY DEF Conclude, Tracked
<1>2. CASE expected \notin PassingStages(verifier.first, verifier.cleared)
  BY <1>2, Restarted, NewSnapshot DEF Conclude
<1>3. CASE expected \in PassingStages(verifier.first, verifier.cleared)
  <2>1. verifier' = [NotStarted EXCEPT !.pc = "accepted", !.verdict = expected,
                                       !.moment = verifier.moment]
    BY <1>3 DEF Conclude
  <2>2. /\ verifier'.pc = "accepted" /\ verifier'.verdict = expected
        /\ verifier'.moment = verifier.moment
    BY <2>1, NewSnapshot DEF Verifiers
  <2>3. verifier' \in Verifiers
    BY <2>1, NewSnapshot DEF Verifiers, Pcs
  <2>4. AcceptedWasTrue'
    BY <1>1, <1>3, <2>2 DEF Witnessed, AcceptedWasTrue
  <2>5. QED
    BY <2>2, <2>3, <2>4 DEF Tracked, Reading
<1>4. QED
  BY <1>2, <1>3

LEMMA AcceptInitially == AcceptInit => AcceptInv
<1> SUFFICES ASSUME AcceptInit PROVE AcceptInv
  OBVIOUS
<1>1. OrdersInv /\ verifier \in Verifiers
  BY OrdersInitially, NewSnapshot DEF AcceptInit
<1>2. NoAlarm \in TbAlarms
  BY Constants DEF NoAlarm, TbAlarms
<1>3. Tracked
  BY DEF AcceptInit, NotStarted, Tracked, Reading, AcceptedWasTrue
<1>4. QED
  BY <1>1, <1>2, <1>3 DEF AcceptInit, AcceptInv

LEMMA AcceptStep == AcceptInv /\ [AcceptNext]_acceptVars => AcceptInv'
<1> SUFFICES ASSUME AcceptInv, [AcceptNext]_acceptVars PROVE AcceptInv'
  OBVIOUS
<1>0. OrdersInv /\ tb \in [AlarmIds -> TbAlarms] /\ verifier \in Verifiers /\ Tracked
  BY DEF AcceptInv
<1>1. [Next]_vars
  BY DEF AcceptNext, acceptVars, Next, Deliver, UserClear, Verify, ReadRisk, ReadAlert,
         ReadProjection, ReadWorkOrder, Read, ReadOutbox, ReadAlarm, ReadCmms, Conclude
<1>2. OrdersInv'
  BY <1>0, <1>1, OrdersStep
<1>3. tb' \in [AlarmIds -> TbAlarms]
  <2>1. ASSUME NEW i \in AlarmIds, Deliver(i) PROVE tb' \in [AlarmIds -> TbAlarms]
    <3>1. projection.details \in AlertRows
      BY <1>0 DEF OrdersInv, IntentsInv, IntentsTypeOK, Projections
    <3>2. [exists |-> TRUE, cleared |-> FALSE, details |-> projection.details] \in TbAlarms
      BY <3>1 DEF TbAlarms
    <3>3. [tb EXCEPT ![i].cleared = TRUE] \in [AlarmIds -> TbAlarms]
      BY <1>0 DEF TbAlarms
    <3>4. QED
      BY <1>0, <2>1, <3>2, <3>3 DEF Deliver
  <2>2. ASSUME NEW i \in AlarmIds, UserClear(i) PROVE tb' \in [AlarmIds -> TbAlarms]
    BY <1>0, <2>2 DEF UserClear, TbAlarms
  <2>3. \/ tb' = tb
        \/ \E i \in AlarmIds : Deliver(i) \/ UserClear(i)
    BY DEF AcceptNext, acceptVars, Verify, ReadRisk, ReadAlert, ReadProjection,
           ReadWorkOrder, Read, ReadOutbox, ReadAlarm, ReadCmms, Conclude
  <2>4. QED
    BY <1>0, <2>1, <2>2, <2>3
<1>4. verifier' \in Verifiers /\ Tracked'
  <2>1. CASE verifier' = verifier
    BY <1>0, <1>1, <2>1, OthersKeep
  <2>2. CASE Verify
    BY <1>0, <2>2, RiskRead, AlertRead, ProjectionRead, WorkOrderRead, OutboxRead,
       AlarmRead, CmmsRead, Concluded DEF Verify
  <2>3. QED
    BY <2>1, <2>2 DEF AcceptNext, acceptVars, Deliver, UserClear
<1>5. QED
  BY <1>2, <1>3, <1>4 DEF AcceptInv

LEMMA AcceptHolds == AcceptSpec => []AcceptInv
BY AcceptInitially, AcceptStep, PTL DEF AcceptSpec

-----------------------------------------------------------------------------
\* Every variable keeps its type, what the verifier has seen and judged
\* included (verify).
THEOREM AcceptTypeCorrect == AcceptSpec => []VerifierTypeOK
<1>1. AcceptInv => VerifierTypeOK
  BY DEF AcceptInv, Verifiers, Pcs, VerifierTypeOK
<1>2. QED
  BY <1>1, AcceptHolds, PTL

\* Whatever rounds, pages, workers and users do while the verifier reads, what
\* it accepts was true when it read the alarm: that the risk row is the same in
\* both reads is enough, since every transaction on the episode raises its
\* version (ClosedLoopAcceptanceVerifier.verify).
THEOREM AcceptedIsTrue == AcceptSpec => []AcceptedWasTrue
<1>1. AcceptInv => AcceptedWasTrue
  BY DEF AcceptInv, Tracked
<1>2. QED
  BY <1>1, AcceptHolds, PTL
=============================================================================
