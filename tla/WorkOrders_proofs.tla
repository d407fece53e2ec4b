-------------------------- MODULE WorkOrders_proofs --------------------------
(***************************************************************************)
(* Proofs about WorkOrders, for every number of workers, pages, episodes,   *)
(* attempts and versions, and every set of statuses the CMMS may report.    *)
(***************************************************************************)
EXTENDS WorkOrders, AlarmIntents_proofs, FiniteSetTheorems

\* The variables that WorkOrders adds have their types.
OrderTypes ==
  /\ order \in [Alerts -> OrderRows]
  /\ action \in [Alerts -> [create : 0..MaxVersion, close : 0..MaxVersion]]
  /\ command \in [Alerts -> Commands]
  /\ cmms \in [Alerts -> CmmsRows]
  /\ sender \in [Senders -> WorkerStates]
  /\ poller \in [Pollers -> WorkerStates]
  /\ tab \in [Tabs -> TabStates]

\* What the CMMS can make of an order.
ReportedStates == {"WORK_ORDER_OPEN", "WORK_ORDER_IN_PROGRESS", "WORK_ORDER_ON_HOLD",
                   "WORK_ORDER_COMPLETE"}

\* An order, its command and its alert belong together.
Matched(a) ==
  /\ order[a].state = "NONE" <=> command[a].status = "ABSENT"
  /\ order[a].version > 0 <=> command[a].status = "DELIVERED"
  /\ order[a].version = 0 => order[a].state \in {"NONE", "WORK_ORDER_CREATING"}
  /\ order[a].version > 0 => order[a].state \in ReportedStates
  /\ order[a].poller # None => Pollable(a)
  /\ order[a].state # "NONE" => /\ alert[a].care = order[a].state
                                /\ alert[a].risk # "ABSENT"

\* An alert waits for approval only while no order is under way.
Vacant == \A a \in Alerts :
            alert[a].risk = "ACTIVE" /\ alert[a].care = "PENDING_APPROVAL" => ~Busy

OneBusy == \A a, b \in Alerts :
             order[a].state \in ActiveOrderStates /\ order[b].state \in ActiveOrderStates
               => a = b

\* What an order records is what the CMMS said.
Recorded(a) ==
  /\ order[a].version <= cmms[a].version
  /\ order[a].version > 0 /\ order[a].version = cmms[a].version
       => order[a].state = CareOf[cmms[a].status]

\* What a worker with the record r has in hand.
Worker(r) ==
  /\ r.pc # "idle" => r.alert \in Alerts /\ order[r.alert].state # "NONE"
  /\ r.pc = "seen" /\ r.alert = risk.alert => r.seen.version <= risk.version
  /\ r.pc \in {"replied", "seen"} =>
       /\ r.reply.version <= cmms[r.alert].version
       /\ r.reply.version = cmms[r.alert].version => r.reply.status = cmms[r.alert].status

\* What a page with the record r shows.
Page(r) ==
  r.wants # "nothing" =>
    /\ r.alert \in Alerts /\ alert[r.alert].risk # "ABSENT"
    /\ order[r.alert].state = "NONE" =>
         /\ r.seen.version <= alert[r.alert].version
         /\ r.seen.version = alert[r.alert].version => r.seen = alert[r.alert]

OrdersInv ==
  /\ IntentsInv /\ OrderTypes
  /\ \A a \in Alerts : Matched(a) /\ Recorded(a)
  /\ Vacant /\ OneBusy
  /\ \A w \in Senders : /\ Worker(sender[w])
                        /\ sender[w].pc \in {"replied", "seen"} => sender[w].reply.version > 0
  /\ \A p \in Pollers : Worker(poller[p])
  /\ \A t \in Tabs : Page(tab[t])

-----------------------------------------------------------------------------
LEMMA CareRange ==
  ASSUME NEW s \in KnownStatuses
  PROVE  CareOf[s] \in ReportedStates
<1>1. KnownStatuses = {"OPEN", "IN_PROGRESS", "ON_HOLD", "COMPLETE"}
  BY DEF KnownStatuses, CareOf
<1>2. /\ CareOf["OPEN"] = "WORK_ORDER_OPEN" /\ CareOf["IN_PROGRESS"] = "WORK_ORDER_IN_PROGRESS"
      /\ CareOf["ON_HOLD"] = "WORK_ORDER_ON_HOLD" /\ CareOf["COMPLETE"] = "WORK_ORDER_COMPLETE"
  BY DEF CareOf
<1>3. QED
  BY <1>1, <1>2 DEF ReportedStates

LEMMA Constants ==
  /\ NoOrder \in OrderRows /\ NoCommand \in Commands /\ NotInCmms \in CmmsRows
  /\ Idle \in WorkerStates /\ Blank \in TabStates /\ NoAlert \in AlertRows
<1> USE BoundsAssumption, CmmsAssumption
<1>1. NoOrder \in OrderRows
  BY DEF NoOrder, OrderRows
<1>2. NoCommand \in Commands
  BY DEF NoCommand, Commands, EventStatuses
<1>3. NotInCmms \in CmmsRows
  BY DEF NotInCmms, CmmsRows
<1>4. NoAlert \in AlertRows
  BY DEF NoAlert, AlertRows, CareStates
<1>5. Idle \in WorkerStates
  BY <1>3, <1>4 DEF Idle, WorkerStates
<1>6. Blank \in TabStates
  BY <1>4 DEF Blank, TabStates
<1>7. QED
  BY <1>1, <1>2, <1>3, <1>4, <1>5, <1>6

LEMMA OrdersInitially == Init => OrdersInv
<1> SUFFICES ASSUME Init PROVE OrdersInv
  OBVIOUS
<1>1. IntentsInv
  BY IntentsInitially DEF Init
<1>2. OrderTypes
  BY Constants, BoundsAssumption DEF Init, OrderTypes
<1>3. /\ \A a \in Alerts : Matched(a) /\ Recorded(a)
      /\ Vacant /\ OneBusy
  <2>1. \A a \in Alerts : order[a] = NoOrder /\ command[a] = NoCommand /\ cmms[a] = NotInCmms
    BY DEF Init
  <2>2. \A a \in Alerts : Matched(a) /\ Recorded(a)
    BY <2>1 DEF Matched, Recorded, NoOrder, NoCommand, NotInCmms
  <2>3. \A a \in Alerts : order[a].state \notin ActiveOrderStates
    BY <2>1 DEF NoOrder, ActiveOrderStates
  <2>4. QED
    BY <2>2, <2>3 DEF Vacant, OneBusy, Busy
<1>4. /\ \A w \in Senders : sender[w].pc = "idle"
      /\ \A p \in Pollers : poller[p].pc = "idle"
      /\ \A t \in Tabs : tab[t].wants = "nothing"
  BY DEF Init, Idle, Blank
<1>5. QED
  BY <1>1, <1>2, <1>3, <1>4 DEF OrdersInv, Worker, Page

-----------------------------------------------------------------------------
(* What a step does to an alert, its order and its command.                *)

Undelivered == {"PENDING", "RETRY_WAIT", "IN_FLIGHT", "DEAD_LETTER"}

\* At most the leases change.
Untouched(a) ==
  /\ alert'[a] = alert[a]
  /\ order'[a].state = order[a].state /\ order'[a].version = order[a].version
  /\ order'[a].poller \in {order[a].poller, None} \/ Pollable(a)
  /\ \/ command'[a].status = command[a].status
     \/ command[a].status \in Undelivered /\ command'[a].status \in Undelivered

\* A round opens the episode.
Opened(a) ==
  /\ alert[a].risk = "ABSENT" /\ alert'[a].risk = "ACTIVE"
  /\ alert'[a].care = IF Busy THEN "SUPPRESSED_ACTIVE_WORK_ORDER" ELSE "PENDING_APPROVAL"
  /\ UNCHANGED <<order, command>>

\* A round or the approver goes on with the risk of the alert, or ends it.
Advanced(a) ==
  /\ alert[a].risk = "ACTIVE" /\ alert'[a].risk # "ABSENT"
  /\ alert'[a].care = alert[a].care
  /\ alert'[a].version = alert[a].version + 1
  /\ risk'.version = risk.version + 1
  /\ UNCHANGED <<order, command>>

\* The approver confirms a work order.
Approved(a) ==
  /\ Actionable(a) /\ projection.alert = a
  /\ risk'.version = risk.version + 1
  /\ alert'[a].risk = alert[a].risk /\ alert'[a].care = "WORK_ORDER_CREATING"
  /\ order'[a] = [NoOrder EXCEPT !.state = "WORK_ORDER_CREATING"]
  /\ command'[a].status = "PENDING"
  /\ \E t \in Tabs : /\ tab[t].wants = "CREATE_WORK_ORDER" /\ tab[t].alert = a
                     /\ tab[t].seen.version = alert[a].version

\* A reply r is recorded.
Told(a, r) ==
  /\ r.pc = "seen" /\ r.alert = a /\ r.reply.status \in KnownStatuses
  /\ alert'[a].risk = alert[a].risk /\ alert'[a].care = CareOf[r.reply.status]
  /\ order'[a].state = CareOf[r.reply.status] /\ order'[a].version = r.reply.version
  /\ projection'.desired = projection.desired /\ risk'.active = risk.active
  /\ projection.alert = a => risk'.version = risk.version + 1
  /\ \A b \in Alerts : alert'[b].risk = alert[b].risk
  /\ UNCHANGED cmms

Created(a) ==
  \E w \in Senders : /\ Told(a, sender[w]) /\ Mine(w)
                     /\ order'[a].poller = order[a].poller
                     /\ command'[a].status = "DELIVERED"

Polled(a) ==
  \E p \in Pollers : /\ Told(a, poller[p]) /\ Polls(p) /\ News(p)
                     /\ order'[a].poller = None
                     /\ UNCHANGED command

\* A version of the CMMS stands for one status.
CmmsMoves(a) == \/ cmms'[a] = cmms[a]
                \/ cmms'[a].version = cmms[a].version + 1

RowMoves(a) == \/ Untouched(a) \/ Opened(a) \/ Advanced(a) \/ Approved(a)
               \/ Created(a) \/ Polled(a)

\* The steps that change an intent, an order or a command.
LEMMA Writers ==
  ASSUME [Next]_vars
  PROVE  \/ UNCHANGED <<intents, orders>>
         \/ Round
         \/ \E i \in AlarmIds : DeliverAlarm(i)
         \/ \E t \in Tabs, lost \in BOOLEAN : CreateOrder(t, lost) \/ CloseRisk(t, lost)
         \/ \E w \in Senders : \/ ClaimCommand(w) \/ RejectIdentity(w) \/ RetryCommand(w)
                               \/ SaveOrder(w)
         \/ \E p \in Pollers : ClaimPoll(p) \/ FailPoll(p) \/ ApplyStatus(p)
BY DEF Next, OrderSide, Approve, Send, Poll, vars, intents, orders,
       CmmsProgress, Look, Refuse, ReadOrder, FindOrder, PostOrder, CmmsFails, SeeAlert,
       CrashSender, FetchStatus, SeePolled, CrashPoller

\* The rows, with the types of their fields.
LEMMA Fields ==
  ASSUME OrdersInv
  PROVE  /\ \A a \in Alerts :
              /\ alert[a] \in AlertRows /\ order[a] \in OrderRows /\ command[a] \in Commands
              /\ cmms[a] \in CmmsRows
              /\ alert[a].version \in Nat /\ order[a].version \in Nat /\ cmms[a].version \in Nat
         /\ alert \in [Alerts -> AlertRows] /\ order \in [Alerts -> OrderRows]
         /\ command \in [Alerts -> Commands] /\ cmms \in [Alerts -> CmmsRows]
         /\ \A w \in Senders :
              /\ sender[w] \in WorkerStates /\ sender[w].reply.version \in Nat
              /\ sender[w].seen.version \in Nat /\ Worker(sender[w])
              /\ sender[w].pc # "idle" => sender[w].alert \in Alerts
         /\ \A p \in Pollers :
              /\ poller[p] \in WorkerStates /\ poller[p].reply.version \in Nat
              /\ poller[p].seen.version \in Nat /\ Worker(poller[p])
              /\ poller[p].pc # "idle" => poller[p].alert \in Alerts
         /\ \A t \in Tabs :
              /\ tab[t] \in TabStates /\ tab[t].seen.version \in Nat /\ Page(tab[t])
              /\ tab[t].wants # "nothing" => tab[t].alert \in Alerts
<1> USE BoundsAssumption, CmmsAssumption
<1>1. IntentsTypeOK /\ OrderTypes
  BY DEF OrdersInv, IntentsInv
<1>2. ASSUME NEW a \in Alerts
      PROVE  /\ alert[a] \in AlertRows /\ order[a] \in OrderRows /\ command[a] \in Commands
             /\ cmms[a] \in CmmsRows
             /\ alert[a].version \in Nat /\ order[a].version \in Nat /\ cmms[a].version \in Nat
  <2>1. alert[a] \in AlertRows /\ order[a] \in OrderRows /\ command[a] \in Commands
        /\ cmms[a] \in CmmsRows
    BY <1>1 DEF IntentsTypeOK, OrderTypes
  <2>2. QED
    BY <2>1 DEF AlertRows, OrderRows, CmmsRows
<1>3. ASSUME NEW r \in WorkerStates PROVE r.reply.version \in Nat /\ r.seen.version \in Nat
  <2>1. r.reply \in CmmsRows /\ r.seen \in AlertRows
    BY <1>3 DEF WorkerStates
  <2>2. QED
    BY <2>1 DEF CmmsRows, AlertRows
<1>4. ASSUME NEW r \in TabStates PROVE r.seen.version \in Nat
  <2>1. r.seen \in AlertRows
    BY <1>4 DEF TabStates
  <2>2. QED
    BY <2>1 DEF AlertRows
<1>5. QED
  BY <1>1, <1>2, <1>3, <1>4 DEF OrderTypes, IntentsTypeOK, OrdersInv, Worker, Page

\* What a status does to the alert, and that the intents agree afterwards.
LEMMA Hearing ==
  ASSUME OrdersInv, NEW a \in Alerts, NEW seen \in AlertRows, NEW care \in ReportedStates,
         TellAlert(a, seen, care),
         a = risk.alert => seen.version <= risk.version
  PROVE  /\ IntentsInv'
         /\ alert'[a].risk = alert[a].risk /\ alert'[a].care = care
         /\ \A b \in Alerts : b # a => alert'[b] = alert[b]
         /\ \A b \in Alerts : alert'[b].risk = alert[b].risk
         /\ projection'.desired = projection.desired /\ risk'.active = risk.active
         /\ risk'.alert = risk.alert /\ risk'.version \in Nat /\ risk.version <= risk'.version
         /\ projection.alert = a => risk'.version = risk.version + 1
<1>1. care \in CareStates /\ IntentsInv
  BY DEF ReportedStates, CareStates, ActiveOrderStates, OrdersInv
<1>2. QED
  BY <1>1, Telling

\* What the rounds and the closing of a risk do to the alerts.
LEMMA Advancing ==
  ASSUME OrdersInv, NEW b \in Alerts, NEW a \in Alerts,
         UNCHANGED <<order, command>>,
         Raise(b, Busy) \/ Continue(b) \/ Clear(b) \/ CloseAlert(b)
  PROVE  alert'[a] = alert[a] \/ Opened(a) \/ Advanced(a)
<1>1. alert \in [Alerts -> AlertRows] /\ alert[b] \in AlertRows
  BY Fields
<1>2. CASE a # b
  BY <1>1, <1>2 DEF Raise, Continue, Clear, CloseAlert
<1>3. CASE a = b /\ Raise(b, Busy)
  BY <1>1, <1>3 DEF Raise, NextEpisode, Opened
<1>4. CASE a = b /\ (Continue(b) \/ Clear(b) \/ CloseAlert(b))
  <2>1. alert[b].risk = "ACTIVE"
    BY <1>4 DEF Continue, Clear, CloseAlert, OrdersInv, IntentsInv, Truthful
  <2>2. \/ alert'[b] = [alert[b] EXCEPT !.version = @ + 1, !.run = risk.version + 1]
        \/ alert'[b] = [alert[b] EXCEPT !.risk = "CLEARED", !.version = @ + 1,
                                        !.run = risk.version + 1]
        \/ alert'[b] = [alert[b] EXCEPT !.risk = "MANUALLY_CLOSED", !.allowed = FALSE,
                                        !.version = @ + 1]
    BY <1>1, <1>4 DEF Continue, Clear, CloseAlert
  <2>3. /\ alert'[b].risk # "ABSENT" /\ alert'[b].care = alert[b].care
        /\ alert'[b].version = alert[b].version + 1
    BY <1>1, <2>1, <2>2 DEF AlertRows
  <2>4. risk'.version = risk.version + 1
    BY <1>4, OneActive DEF Continue, Clear, CloseAlert, OrdersInv
  <2>5. QED
    BY <1>4, <2>1, <2>3, <2>4 DEF Advanced
<1>5. QED
  BY <1>2, <1>3, <1>4

LEMMA RowStep ==
  ASSUME OrdersInv, [Next]_vars, NEW a \in Alerts
  PROVE  RowMoves(a)
<1>0. /\ order \in [Alerts -> OrderRows] /\ command \in [Alerts -> Commands]
      /\ order[a] \in OrderRows /\ command[a] \in Commands
  BY Fields
<1>1. CASE UNCHANGED <<intents, orders>>
  BY <1>1 DEF intents, orders, RowMoves, Untouched
<1>2. CASE Round
  <2>1. UNCHANGED <<order, command>>
    BY <1>2 DEF Round, orders
  <2>2. CASE ClearUnalerted
    BY <2>1, <2>2 DEF ClearUnalerted, RowMoves, Untouched
  <2>3. QED
    BY <1>2, <2>1, <2>2, Advancing DEF Round, RowMoves, Untouched
<1>3. ASSUME NEW i \in AlarmIds, DeliverAlarm(i) PROVE RowMoves(a)
  BY <1>3 DEF DeliverAlarm, orders, RowMoves, Untouched
<1>4. ASSUME NEW t \in Tabs, NEW lost \in BOOLEAN, CreateOrder(t, lost) PROVE RowMoves(a)
  <2> DEFINE b == tab[t].alert
  <2>1. b \in Alerts /\ alert[b] \in AlertRows
    BY <1>4, Fields DEF CreateOrder, OrderAlert
  <2>2. /\ order' = [order EXCEPT ![b] = [NoOrder EXCEPT !.state = "WORK_ORDER_CREATING"]]
        /\ command' = [command EXCEPT ![b] = [NoCommand EXCEPT !.status = "PENDING"]]
        /\ alert' = [alert EXCEPT ![b] = [alert[b] EXCEPT !.care = "WORK_ORDER_CREATING",
                                                          !.allowed = FALSE,
                                                          !.version = @ + 1]]
        /\ Actionable(b) /\ projection.alert = b /\ tab[t].wants = "CREATE_WORK_ORDER"
        /\ tab[t].seen.version = alert[b].version
        /\ risk' = [risk EXCEPT !.version = @ + 1]
    BY <1>4 DEF CreateOrder, OrderAlert, Ready, Confirmed
  <2>3. CASE a # b
    BY <1>0, <2>1, <2>2, <2>3, Fields DEF RowMoves, Untouched
  <2>4. CASE a = b
    <3>1. /\ alert'[b].risk = alert[b].risk /\ alert'[b].care = "WORK_ORDER_CREATING"
      BY <2>1, <2>2, Fields DEF AlertRows
    <3>2. command'[b].status = "PENDING"
      BY <1>0, <2>1, <2>2, Constants DEF Commands
    <3>3. risk'.version = risk.version + 1
      BY <2>2, OneActive DEF OrdersInv
    <3>4. Approved(b)
      BY <1>0, <2>1, <2>2, <3>1, <3>2, <3>3 DEF Approved
    <3>5. QED
      BY <2>4, <3>4 DEF RowMoves
  <2>5. QED
    BY <2>3, <2>4
<1>5. ASSUME NEW t \in Tabs, NEW lost \in BOOLEAN, CloseRisk(t, lost) PROVE RowMoves(a)
  <2>1. tab[t].alert \in Alerts /\ CloseAlert(tab[t].alert) /\ UNCHANGED <<order, command>>
    BY <1>5, Fields DEF CloseRisk
  <2>2. QED
    BY <2>1, Advancing DEF RowMoves, Untouched
<1>6. ASSUME NEW w \in Senders, ClaimCommand(w) PROVE RowMoves(a)
  <2>1. alert' = alert /\ order' = order
    BY <1>6 DEF ClaimCommand, intents
  <2>2. PICK S \in SUBSET InFlight :
          LET freed == [c \in Alerts |->
                          IF c \in S THEN [command[c] EXCEPT !.status = "RETRY_WAIT",
                                                             !.owner = None]
                          ELSE command[c]]
          IN \/ command' = freed
             \/ \E b \in Due(freed) :
                  command' = [freed EXCEPT ![b] = [status |-> "IN_FLIGHT", owner |-> w,
                                                   attempt |-> @.attempt + 1]]
    BY <1>6 DEF ClaimCommand
  <2> DEFINE freed == [c \in Alerts |->
                         IF c \in S THEN [command[c] EXCEPT !.status = "RETRY_WAIT",
                                                            !.owner = None]
                         ELSE command[c]]
  <2>3. \/ freed[a].status = command[a].status
        \/ command[a].status = "IN_FLIGHT" /\ freed[a].status = "RETRY_WAIT"
    <3>1. CASE a \in S
      <4>1. freed[a] = [command[a] EXCEPT !.status = "RETRY_WAIT", !.owner = None]
        BY <3>1
      <4>2. command[a].status = "IN_FLIGHT"
        BY <3>1 DEF InFlight
      <4> HIDE DEF freed
      <4>3. QED
        BY <1>0, <4>1, <4>2 DEF Commands
    <3>2. CASE a \notin S
      BY <3>2
    <3>3. QED
      BY <3>1, <3>2
  <2>4. CASE command' = freed
    <3>1. \/ command'[a].status = command[a].status
          \/ command[a].status = "IN_FLIGHT" /\ command'[a].status = "RETRY_WAIT"
      BY <2>3, <2>4
    <3>2. QED
      BY <2>1, <3>1 DEF RowMoves, Untouched, Undelivered
  <2>5. ASSUME NEW b \in Due(freed),
               command' = [freed EXCEPT ![b] = [status |-> "IN_FLIGHT", owner |-> w,
                                                attempt |-> @.attempt + 1]]
        PROVE  RowMoves(a)
    <3>1. b \in Alerts /\ freed[b].status \in Waiting
      BY DEF Due
    <3>2. a # b => command'[a].status = freed[a].status
      BY <2>5
    <3>3. a = b => command'[a].status = "IN_FLIGHT"
      BY <2>5
    <3> HIDE DEF freed
    <3>4. \/ command'[a].status = command[a].status
          \/ command[a].status \in Undelivered /\ command'[a].status \in Undelivered
      BY <2>3, <3>1, <3>2, <3>3 DEF Waiting, Undelivered
    <3>5. QED
      BY <2>1, <3>4 DEF RowMoves, Untouched
  <2>6. QED
    BY <2>2, <2>4, <2>5
<1>7. ASSUME NEW w \in Senders, NEW status \in {"DEAD_LETTER", "RETRY_WAIT"},
             sender[w].pc # "idle", FinishCommand(w, status), UNCHANGED <<alert, order>>
      PROVE  RowMoves(a)
  <2> DEFINE b == sender[w].alert
  <2>1. b \in Alerts
    BY <1>7, Fields
  <2>2. CASE ~Mine(w)
    BY <1>7, <2>2 DEF FinishCommand, RowMoves, Untouched
  <2>3. CASE Mine(w)
    <3>1. command' = [command EXCEPT ![b].status = status, ![b].owner = None]
      BY <1>7, <2>3 DEF FinishCommand
    <3>2. command[b].status = "IN_FLIGHT" /\ command[b] \in Commands
      BY <1>0, <2>1, <2>3 DEF Mine
    <3>3. command'[b].status = status
      BY <1>0, <2>1, <3>1, <3>2 DEF Commands
    <3>4. a # b => command'[a] = command[a]
      BY <1>0, <2>1, <3>1
    <3>5. QED
      BY <1>7, <3>2, <3>3, <3>4 DEF RowMoves, Untouched, Undelivered
  <2>4. QED
    BY <2>2, <2>3
<1>8. ASSUME NEW w \in Senders, RejectIdentity(w) \/ RetryCommand(w) PROVE RowMoves(a)
  <2>1. sender[w].pc # "idle" /\ UNCHANGED <<alert, order>>
    BY <1>8 DEF RejectIdentity, RetryCommand, intents
  <2>2. \E status \in {"DEAD_LETTER", "RETRY_WAIT"} : FinishCommand(w, status)
    BY <1>8 DEF RejectIdentity, RetryCommand
  <2>3. QED
    BY <1>7, <2>1, <2>2
<1>9. ASSUME NEW w \in Senders, SaveOrder(w) PROVE RowMoves(a)
  <2> DEFINE b == sender[w].alert
             reply == sender[w].reply
  <2>1. sender[w].pc = "seen" /\ b \in Alerts
    BY <1>9, Fields DEF SaveOrder
  <2>2. CASE Mine(w) /\ reply.status \in KnownStatuses
    <3>1. /\ order' = [order EXCEPT ![b].state = CareOf[reply.status],
                                    ![b].version = reply.version]
          /\ TellAlert(b, sender[w].seen, CareOf[reply.status])
          /\ FinishCommand(w, "DELIVERED") /\ UNCHANGED cmms
      BY <1>9, <2>2 DEF SaveOrder
    <3>2. command' = [command EXCEPT ![b].status = "DELIVERED", ![b].owner = None]
      BY <2>2, <3>1 DEF FinishCommand
    <3>3. CareOf[reply.status] \in ReportedStates /\ sender[w].seen \in AlertRows
      BY <2>2, CareRange, Fields DEF WorkerStates
    <3>4. b = risk.alert => sender[w].seen.version <= risk.version
      BY <2>1, Fields DEF Worker
    <3>5. /\ alert'[b].risk = alert[b].risk /\ alert'[b].care = CareOf[reply.status]
          /\ \A c \in Alerts : c # b => alert'[c] = alert[c]
          /\ \A c \in Alerts : alert'[c].risk = alert[c].risk
          /\ projection'.desired = projection.desired /\ risk'.active = risk.active
          /\ projection.alert = b => risk'.version = risk.version + 1
      BY <2>1, <3>1, <3>3, <3>4, Hearing
    <3>6. order[b] \in OrderRows /\ command[b] \in Commands
      BY <2>1, Fields
    <3>7. /\ order'[b].state = CareOf[reply.status] /\ order'[b].version = reply.version
          /\ order'[b].poller = order[b].poller /\ command'[b].status = "DELIVERED"
      BY <1>0, <2>1, <3>1, <3>2, <3>6 DEF OrderRows, Commands
    <3>8. CASE a = b
      <4>1. Created(b)
        BY <2>1, <2>2, <3>1, <3>5, <3>7 DEF Created, Told
      <4>2. QED
        BY <3>8, <4>1 DEF RowMoves
    <3>9. CASE a # b
      BY <1>0, <2>1, <3>1, <3>2, <3>5, <3>9 DEF RowMoves, Untouched
    <3>10. QED
      BY <3>8, <3>9
  <2>3. CASE ~(Mine(w) /\ reply.status \in KnownStatuses)
    <3>1. FinishCommand(w, "DEAD_LETTER") /\ UNCHANGED <<alert, order>>
      BY <1>9, <2>3 DEF SaveOrder, intents
    <3>2. QED
      BY <1>7, <2>1, <3>1
  <2>4. QED
    BY <2>2, <2>3
<1>10. ASSUME NEW p \in Pollers, ClaimPoll(p) PROVE RowMoves(a)
  <2>1. alert' = alert /\ command' = command
    BY <1>10 DEF ClaimPoll, intents
  <2>2. PICK S \in SUBSET {c \in Alerts : order[c].poller # None} :
          LET freed == [c \in Alerts |-> IF c \in S THEN [order[c] EXCEPT !.poller = None]
                                         ELSE order[c]]
          IN \/ order' = freed
             \/ \E b \in Alerts : /\ Pollable(b)
                                  /\ order' = [freed EXCEPT ![b].poller = p]
    BY <1>10 DEF ClaimPoll
  <2> DEFINE freed == [c \in Alerts |-> IF c \in S THEN [order[c] EXCEPT !.poller = None]
                                        ELSE order[c]]
  <2>3. /\ freed[a] \in OrderRows /\ freed[a].state = order[a].state
        /\ freed[a].version = order[a].version
        /\ freed[a].poller \in {order[a].poller, None}
    <3>1. freed[a] = IF a \in S THEN [order[a] EXCEPT !.poller = None] ELSE order[a]
      OBVIOUS
    <3> HIDE DEF freed
    <3>2. QED
      BY <1>0, <3>1 DEF OrderRows
  <2>4. CASE order' = freed
    BY <2>1, <2>3, <2>4 DEF RowMoves, Untouched
  <2>5. ASSUME NEW b \in Alerts, Pollable(b), order' = [freed EXCEPT ![b].poller = p]
        PROVE  RowMoves(a)
    <3>1. order'[a] = IF a = b THEN [freed[a] EXCEPT !.poller = p] ELSE freed[a]
      BY <2>5
    <3> HIDE DEF freed
    <3>2. /\ order'[a].state = order[a].state /\ order'[a].version = order[a].version
          /\ a # b => order'[a].poller \in {order[a].poller, None}
      BY <2>3, <3>1 DEF OrderRows
    <3>3. QED
      BY <2>1, <2>5, <3>2 DEF RowMoves, Untouched
  <2>6. QED
    BY <2>2, <2>4, <2>5
<1>11. ASSUME NEW p \in Pollers, poller[p].pc # "idle", order' = Release(p),
              UNCHANGED <<alert, command>>
       PROVE  RowMoves(a)
  <2>1. poller[p].alert \in Alerts
    BY <1>11, Fields
  <2>2. order'[a] = IF a = poller[p].alert
                    THEN [order[a] EXCEPT !.poller = IF @ = p THEN None ELSE @]
                    ELSE order[a]
    BY <1>0, <1>11, <2>1 DEF Release
  <2>3. /\ order'[a].state = order[a].state /\ order'[a].version = order[a].version
        /\ order'[a].poller \in {order[a].poller, None}
    BY <1>0, <2>2 DEF OrderRows
  <2>4. QED
    BY <1>11, <2>3 DEF RowMoves, Untouched
<1>12. ASSUME NEW p \in Pollers, FailPoll(p) PROVE RowMoves(a)
  <2>1. poller[p].pc # "idle" /\ order' = Release(p) /\ UNCHANGED <<alert, command>>
    BY <1>12 DEF FailPoll, intents
  <2>2. QED
    BY <1>11, <2>1
<1>13. ASSUME NEW p \in Pollers, ApplyStatus(p) PROVE RowMoves(a)
  <2> DEFINE b == poller[p].alert
             reply == poller[p].reply
  <2>1. poller[p].pc = "seen" /\ b \in Alerts
    BY <1>13, Fields DEF ApplyStatus
  <2>2. CASE Polls(p) /\ News(p) /\ reply.status \in KnownStatuses
    <3>1. /\ order' = [order EXCEPT ![b] = [state |-> CareOf[reply.status],
                                            version |-> reply.version, poller |-> None]]
          /\ TellAlert(b, poller[p].seen, CareOf[reply.status])
          /\ UNCHANGED <<command, cmms>>
      BY <1>13, <2>2 DEF ApplyStatus
    <3>2. CareOf[reply.status] \in ReportedStates /\ poller[p].seen \in AlertRows
      BY <2>2, CareRange, Fields DEF WorkerStates
    <3>3. b = risk.alert => poller[p].seen.version <= risk.version
      BY <2>1, Fields DEF Worker
    <3>4. /\ alert'[b].risk = alert[b].risk /\ alert'[b].care = CareOf[reply.status]
          /\ \A c \in Alerts : c # b => alert'[c] = alert[c]
          /\ \A c \in Alerts : alert'[c].risk = alert[c].risk
          /\ projection'.desired = projection.desired /\ risk'.active = risk.active
          /\ projection.alert = b => risk'.version = risk.version + 1
      BY <2>1, <3>1, <3>2, <3>3, Hearing
    <3>5. CASE a = b
      <4>1. order'[b] = [state |-> CareOf[reply.status], version |-> reply.version,
                         poller |-> None]
        BY <1>0, <2>1, <3>1
      <4>2. Polled(b)
        BY <2>1, <2>2, <3>1, <3>4, <4>1 DEF Polled, Told
      <4>3. QED
        BY <3>5, <4>2 DEF RowMoves
    <3>6. CASE a # b
      BY <1>0, <2>1, <3>1, <3>4, <3>6 DEF RowMoves, Untouched
    <3>7. QED
      BY <3>5, <3>6
  <2>3. CASE ~(Polls(p) /\ News(p) /\ reply.status \in KnownStatuses)
    <3>1. order' = Release(p) /\ UNCHANGED <<alert, command>>
      BY <1>13, <2>3 DEF ApplyStatus, intents
    <3>2. QED
      BY <1>11, <2>1, <3>1
  <2>4. QED
    BY <2>2, <2>3
<1>14. QED
  BY <1>1, <1>2, <1>3, <1>4, <1>5, <1>6, <1>8, <1>9, <1>10, <1>12, <1>13, Writers

-----------------------------------------------------------------------------
(* The intents.                                                            *)

\* The aggregate version never falls, and a new alert was opened.
RiskMoves == /\ risk.version \in Nat /\ risk'.version \in Nat /\ risk.version <= risk'.version
             /\ \/ risk'.alert = risk.alert
                \/ \E a \in Alerts : risk'.alert = a /\ Opened(a)

LEMMA IntentsStep ==
  ASSUME OrdersInv, [Next]_vars
  PROVE  IntentsInv' /\ RiskMoves
<1>0. /\ IntentsInv /\ IntentsTypeOK /\ risk.version \in Nat
      /\ alert \in [Alerts -> AlertRows]
  BY OneActive DEF OrdersInv, IntentsInv
<1>1. CASE UNCHANGED intents
  BY <1>0, <1>1 DEF intents, IntentsInv, IntentsTypeOK, Truthful, Numbered, Newest, RiskMoves
<1>2. CASE Round
  <2>1. UNCHANGED <<order, command>>
    BY <1>2 DEF Round, orders
  <2>2. ASSUME NEW a \in Alerts, Raise(a, Busy) PROVE IntentsInv' /\ RiskMoves
    <3>1. Busy \in BOOLEAN
      BY DEF Busy
    <3>2. risk'.alert = a /\ risk'.version = risk.version + 1
      BY <2>2 DEF Raise
    <3>3. Opened(a)
      BY <1>0, <2>1, <2>2 DEF Raise, NextEpisode, Opened
    <3>4. QED
      BY <1>0, <2>2, <3>1, <3>2, <3>3, RaiseKeeps DEF RiskMoves
  <2>3. ASSUME NEW a \in Alerts, Continue(a) \/ Clear(a) PROVE IntentsInv' /\ RiskMoves
    <3>1. risk'.alert = risk.alert /\ risk'.version = risk.version + 1
      BY <1>0, <2>3, OneActive DEF Continue, Clear
    <3>2. QED
      BY <1>0, <2>3, <3>1, ContinueKeeps, ClearKeeps DEF RiskMoves
  <2>4. CASE ClearUnalerted
    <3>1. risk'.alert = risk.alert /\ risk'.version = risk.version
      BY <1>0, <2>4, OneActive DEF ClearUnalerted
    <3>2. QED
      BY <1>0, <2>4, <3>1, ClearUnalertedKeeps DEF RiskMoves
  <2>5. QED
    BY <1>2, <2>2, <2>3, <2>4 DEF Round
<1>3. ASSUME NEW i \in AlarmIds, DeliverAlarm(i) PROVE IntentsInv' /\ RiskMoves
  <2> DEFINE v == projection.version
  <2>1. /\ projection.alert # None /\ event[v].status = "PENDING"
        /\ event' = [event EXCEPT ![v].status = "DELIVERED"]
        /\ \/ projection' = [projection EXCEPT !.alarm = i]
           \/ projection' = projection
        /\ UNCHANGED <<risk, alert>>
    BY <1>3 DEF DeliverAlarm
  <2>2. v \in Versions
    BY <1>0, <2>1 DEF IntentsInv, Truthful, Newest
  <2>3. event \in [Versions -> Events] /\ event[v] \in Events
    BY <1>0, <2>2 DEF IntentsTypeOK
  <2>4. /\ projection' \in Projections /\ projection'.alert = projection.alert
        /\ projection'.desired = projection.desired
        /\ projection'.version = projection.version
    BY <1>0, <2>1 DEF IntentsTypeOK, Projections
  <2> DEFINE e == [event[v] EXCEPT !.status = "DELIVERED"]
  <2>5. e \in Events /\ e.alert = event[v].alert /\ e.status = "DELIVERED"
    BY <2>3 DEF Events, EventStatuses
  <2>6. event' = [event EXCEPT ![v] = e]
    BY <2>1, <2>3
  <2> HIDE DEF e, v
  <2>7. /\ event' \in [Versions -> Events]
        /\ \A u \in Versions :
             /\ event'[u].alert = event[u].alert
             /\ event'[u].status = "ABSENT" <=> event[u].status = "ABSENT"
             /\ event'[u].status = "SUPERSEDED" => event[u].status = "SUPERSEDED"
    BY <2>1, <2>2, <2>3, <2>5, <2>6
  <2>8. IntentsInv'
    BY <1>0, <2>1, <2>4, <2>7, OutboxKeeps
  <2>9. QED
    BY <1>0, <2>1, <2>8 DEF RiskMoves
<1>4. ASSUME NEW t \in Tabs, NEW lost \in BOOLEAN, CreateOrder(t, lost)
      PROVE  IntentsInv' /\ RiskMoves
  <2>1. tab[t].alert \in Alerts /\ OrderAlert(tab[t].alert)
    BY <1>4, Fields DEF CreateOrder
  <2>2. /\ IntentsInv' /\ risk.alert = tab[t].alert
        /\ risk' = [active |-> TRUE, alert |-> tab[t].alert, version |-> risk.version + 1]
    BY <1>0, <2>1, OrderAlertKeeps
  <2>3. QED
    BY <1>0, <2>2 DEF RiskMoves
<1>5. ASSUME NEW t \in Tabs, NEW lost \in BOOLEAN, CloseRisk(t, lost)
      PROVE  IntentsInv' /\ RiskMoves
  <2>1. tab[t].alert \in Alerts /\ CloseAlert(tab[t].alert)
    BY <1>5, Fields DEF CloseRisk
  <2>2. risk'.alert = risk.alert /\ risk'.version = risk.version + 1
    BY <1>0, <2>1, OneActive DEF CloseAlert
  <2>3. QED
    BY <1>0, <2>1, <2>2, CloseAlertKeeps DEF RiskMoves
<1>6. ASSUME NEW r \in WorkerStates, r.pc = "seen", Worker(r), r.reply.status \in KnownStatuses,
             TellAlert(r.alert, r.seen, CareOf[r.reply.status])
      PROVE  IntentsInv' /\ RiskMoves
  <2>1. /\ r.alert \in Alerts /\ r.seen \in AlertRows
        /\ CareOf[r.reply.status] \in ReportedStates
        /\ r.alert = risk.alert => r.seen.version <= risk.version
    BY <1>6, CareRange DEF WorkerStates, Worker
  <2>2. IntentsInv' /\ risk'.alert = risk.alert /\ risk'.version \in Nat
        /\ risk.version <= risk'.version
    BY <1>6, <2>1, Hearing
  <2>3. QED
    BY <1>0, <2>2 DEF RiskMoves
<1>7. ASSUME NEW w \in Senders, SaveOrder(w) PROVE IntentsInv' /\ RiskMoves
  <2>1. /\ sender[w] \in WorkerStates /\ Worker(sender[w]) /\ sender[w].pc = "seen"
    BY <1>7, Fields DEF SaveOrder
  <2>2. \/ UNCHANGED intents
        \/ /\ sender[w].reply.status \in KnownStatuses
           /\ TellAlert(sender[w].alert, sender[w].seen, CareOf[sender[w].reply.status])
    BY <1>7 DEF SaveOrder
  <2>3. QED
    BY <1>1, <1>6, <2>1, <2>2
<1>8. ASSUME NEW p \in Pollers, ApplyStatus(p) PROVE IntentsInv' /\ RiskMoves
  <2>1. /\ poller[p] \in WorkerStates /\ Worker(poller[p]) /\ poller[p].pc = "seen"
    BY <1>8, Fields DEF ApplyStatus
  <2>2. \/ UNCHANGED intents
        \/ /\ poller[p].reply.status \in KnownStatuses
           /\ TellAlert(poller[p].alert, poller[p].seen, CareOf[poller[p].reply.status])
    BY <1>8 DEF ApplyStatus
  <2>3. QED
    BY <1>1, <1>6, <2>1, <2>2
<1>9. QED
  BY <1>1, <1>2, <1>3, <1>4, <1>5, <1>7, <1>8, Writers
     DEF ClaimCommand, RejectIdentity, RetryCommand, ClaimPoll, FailPoll

-----------------------------------------------------------------------------
(* Orders and alerts.                                                      *)

\* What a reply that is recorded stands for.
LEMMA Tells ==
  ASSUME OrdersInv, NEW a \in Alerts, Created(a) \/ Polled(a)
  PROVE  /\ order[a].state \in ActiveOrderStates
         /\ order'[a].state \in ReportedStates
         /\ alert'[a].care = order'[a].state /\ alert'[a].risk = alert[a].risk
         /\ order[a].version < order'[a].version /\ order'[a].version \in Nat
         /\ command'[a].status = "DELIVERED"
         /\ order'[a].poller \in {order[a].poller, None}
         /\ order'[a].version <= cmms[a].version
         /\ order'[a].version = cmms[a].version =>
              cmms[a].status \in KnownStatuses /\ order'[a].state = CareOf[cmms[a].status]
         /\ \E s \in KnownStatuses : order'[a].state = CareOf[s]
         /\ command[a].status # "DEAD_LETTER" /\ UNCHANGED cmms
<1> USE DEF ReportedStates, ActiveOrderStates
<1>1. Matched(a)
  BY DEF OrdersInv
<1>2. ASSUME NEW w \in Senders, Told(a, sender[w]), Mine(w),
             order'[a].poller = order[a].poller, command'[a].status = "DELIVERED"
      PROVE  /\ order[a].state = "WORK_ORDER_CREATING"
             /\ order[a].version < order'[a].version /\ order'[a].version \in Nat
             /\ command[a].status = "IN_FLIGHT"
             /\ sender[w].reply.version <= cmms[a].version
             /\ sender[w].reply.version = cmms[a].version
                  => sender[w].reply.status = cmms[a].status
  <2>1. command[a].status = "IN_FLIGHT"
    BY <1>2 DEF Told, Mine
  <2>2. order[a].version = 0 /\ order[a].state = "WORK_ORDER_CREATING"
    BY <1>1, <2>1, Fields DEF Matched
  <2>3. /\ Worker(sender[w]) /\ sender[w].reply.version > 0
        /\ order'[a].version = sender[w].reply.version /\ order'[a].version \in Nat
    BY <1>2, Fields DEF OrdersInv, Told
  <2>4. QED
    BY <1>2, <2>1, <2>2, <2>3 DEF Worker, Told
<1>3. ASSUME NEW p \in Pollers, Told(a, poller[p]), Polls(p), News(p),
             order'[a].poller = None, UNCHANGED command
      PROVE  /\ order[a].state \in ReportedStates \ {"WORK_ORDER_COMPLETE"}
             /\ order[a].version < order'[a].version /\ order'[a].version \in Nat
             /\ command[a].status = "DELIVERED"
             /\ poller[p].reply.version <= cmms[a].version
             /\ poller[p].reply.version = cmms[a].version
                  => poller[p].reply.status = cmms[a].status
  <2>1. order[a].poller = p /\ p # None
    BY <1>3, WorkersAssumption, NullAssumption DEF Told, Polls
  <2>2. Pollable(a)
    BY <1>1, <2>1 DEF Matched
  <2>3. order[a].version < order'[a].version /\ order'[a].version \in Nat
    BY <1>3, Fields DEF Told, News
  <2>4. Worker(poller[p])
    BY DEF OrdersInv
  <2>5. QED
    BY <1>1, <1>3, <2>2, <2>3, <2>4 DEF Matched, Pollable, Worker, Told
<1>4. ASSUME NEW r, Told(a, r)
      PROVE  /\ order'[a].state \in ReportedStates
             /\ alert'[a].care = order'[a].state /\ alert'[a].risk = alert[a].risk
             /\ order'[a].version = r.reply.version
             /\ order'[a].state = CareOf[r.reply.status]
             /\ r.reply.status \in KnownStatuses /\ UNCHANGED cmms
  BY <1>4, CareRange DEF Told
<1>5. QED
  BY <1>2, <1>3, <1>4 DEF Created, Polled

LEMMA MatchedStep ==
  ASSUME OrdersInv, [Next]_vars, NEW a \in Alerts
  PROVE  Matched(a)'
<1>0. Matched(a) /\ order[a].version \in Nat
  BY Fields DEF OrdersInv
<1>1. CASE Untouched(a)
  BY <1>0, <1>1 DEF Untouched, Matched, Pollable, Undelivered
<1>2. CASE Opened(a)
  BY <1>0, <1>2 DEF Opened, Matched, Pollable
<1>3. CASE Advanced(a)
  BY <1>0, <1>3 DEF Advanced, Matched, Pollable
<1>4. CASE Approved(a)
  <2>1. /\ order'[a].state = "WORK_ORDER_CREATING" /\ order'[a].version = 0
        /\ order'[a].poller = None
    BY <1>4 DEF Approved, NoOrder
  <2>2. QED
    BY <1>4, <2>1 DEF Approved, Actionable, Matched
<1>5. CASE Created(a) \/ Polled(a)
  <2>1. order'[a].version > 0
    BY <1>0, <1>5, Tells
  <2>2. alert[a].risk # "ABSENT"
    BY <1>0, <1>5, Tells DEF Matched, ActiveOrderStates
  <2>3. order'[a].poller # None => /\ order'[a].poller = order[a].poller
                                   /\ order'[a].state # "WORK_ORDER_COMPLETE"
    <3>1. CASE Created(a)
      \* A command that is not delivered has an order that nobody polls.
      <4>1. order[a].version = 0
        <5>1. command[a].status = "IN_FLIGHT"
          BY <3>1 DEF Created, Told, Mine
        <5>2. QED
          BY <1>0, <5>1 DEF Matched
      <4>2. order[a].poller = None
        BY <1>0, <4>1 DEF Matched, Pollable
      <4>3. QED
        BY <3>1, <4>2 DEF Created
    <3>2. CASE Polled(a)
      BY <3>2 DEF Polled
    <3>3. QED
      BY <1>5, <3>1, <3>2
  <2>4. "NONE" \notin ReportedStates
    BY DEF ReportedStates
  <2>5. QED
    BY <1>5, <2>1, <2>2, <2>3, <2>4, Tells DEF Matched, Pollable
<1>6. QED
  BY <1>1, <1>2, <1>3, <1>4, <1>5, RowStep DEF RowMoves

LEMMA RecordedStep ==
  ASSUME OrdersInv, [Next]_vars, NEW a \in Alerts, CmmsMoves(a)
  PROVE  Recorded(a)'
<1>0. /\ Recorded(a) /\ order[a].version \in Nat /\ cmms[a].version \in Nat
  BY Fields DEF OrdersInv
<1>1. CASE Created(a) \/ Polled(a)
  BY <1>1, Tells DEF Recorded
<1>2. CASE order'[a].version = order[a].version /\ order'[a].state = order[a].state
  BY <1>0, <1>2 DEF CmmsMoves, Recorded
<1>3. CASE Approved(a)
  <2>1. order'[a].version = 0
    BY <1>3 DEF Approved, NoOrder
  <2>2. QED
    BY <1>0, <2>1 DEF CmmsMoves, Recorded
<1>4. QED
  BY <1>1, <1>2, <1>3, RowStep DEF RowMoves, Untouched, Opened, Advanced

\* Only an approval makes an order active.
LEMMA ActiveStep ==
  ASSUME OrdersInv, [Next]_vars, NEW a \in Alerts, order'[a].state \in ActiveOrderStates
  PROVE  order[a].state \in ActiveOrderStates \/ Approved(a)
BY RowStep, Tells DEF RowMoves, Untouched, Opened, Advanced

LEMMA ActionableIsCurrent ==
  ASSUME OrdersInv, NEW a \in Alerts, alert[a].risk = "ACTIVE"
  PROVE  risk.active /\ risk.alert = a
BY DEF OrdersInv, IntentsInv, Truthful

LEMMA BusyStep == ASSUME OrdersInv, [Next]_vars PROVE OneBusy' /\ Vacant'
<1>1. ASSUME NEW a \in Alerts, Approved(a)
      PROVE  /\ \A b \in Alerts : order[b].state \notin ActiveOrderStates
             /\ risk.alert = a
  BY <1>1, ActionableIsCurrent DEF Approved, Actionable, OrdersInv, Vacant, Busy
<1>2. OneBusy'
  <2> SUFFICES ASSUME NEW a \in Alerts, NEW b \in Alerts,
                      order'[a].state \in ActiveOrderStates,
                      order'[b].state \in ActiveOrderStates
               PROVE  a = b
    BY DEF OneBusy
  <2>1. CASE Approved(a) \/ Approved(b)
    BY <1>1, <2>1, ActiveStep
  <2>2. CASE ~Approved(a) /\ ~Approved(b)
    BY <2>2, ActiveStep DEF OrdersInv, OneBusy
  <2>3. QED
    BY <2>1, <2>2
<1>3. Vacant'
  <2> SUFFICES ASSUME NEW a \in Alerts, alert'[a].risk = "ACTIVE",
                      alert'[a].care = "PENDING_APPROVAL",
                      NEW b \in Alerts, order'[b].state \in ActiveOrderStates
               PROVE  FALSE
    BY DEF Vacant, Busy
  <2>1. CASE Untouched(a)
    <3>1. alert[a].risk = "ACTIVE" /\ alert[a].care = "PENDING_APPROVAL" /\ risk.alert = a
      BY <2>1, ActionableIsCurrent DEF Untouched
    <3>2. order[b].state \notin ActiveOrderStates
      BY <3>1 DEF OrdersInv, Vacant, Busy
    <3>3. Approved(b) /\ b = a
      BY <1>1, <3>1, <3>2, ActiveStep
    <3>4. QED
      BY <3>3 DEF Approved
  <2>2. CASE Opened(a)
    BY <2>2 DEF Opened, Busy
  <2>3. CASE Advanced(a)
    BY <2>3 DEF Advanced, OrdersInv, Vacant, Busy
  <2>4. CASE Approved(a)
    BY <2>4 DEF Approved
  <2>5. CASE Created(a) \/ Polled(a)
    BY <2>5, Tells DEF ReportedStates
  <2>6. QED
    BY <2>1, <2>2, <2>3, <2>4, <2>5, RowStep DEF RowMoves
<1>4. QED
  BY <1>2, <1>3

-----------------------------------------------------------------------------
(* Workers and pages.                                                      *)

\* An order stays an order.
LEMMA OrderStays ==
  ASSUME OrdersInv, [Next]_vars, NEW a \in Alerts, order[a].state # "NONE"
  PROVE  order'[a].state # "NONE" /\ ~Opened(a)
<1>1. ~Opened(a)
  BY DEF OrdersInv, Matched, Opened
<1>2. order'[a].state # "NONE"
  BY RowStep, Tells DEF RowMoves, Untouched, Opened, Advanced, Approved, NoOrder, ReportedStates
<1>3. QED
  BY <1>1, <1>2

\* A worker with the record r gets the record n.
WorkerMoves(r, n) ==
  \/ n = r \/ n.pc = "idle"
  \/ /\ n.pc \notin {"replied", "seen"}
     /\ n.alert \in Alerts /\ order[n.alert].state # "NONE"
  \/ /\ n.pc = "replied" /\ r.pc # "idle" /\ n.alert = r.alert
     /\ n.reply = cmms'[r.alert]
  \/ /\ n.pc = "seen" /\ r.pc = "replied" /\ n.alert = r.alert
     /\ n.reply = r.reply /\ n.seen = alert[r.alert]

LEMMA WorkerStep ==
  ASSUME OrdersInv, [Next]_vars, NEW r \in WorkerStates, Worker(r), r.reply.version \in Nat,
         NEW n, WorkerMoves(r, n), \A a \in Alerts : CmmsMoves(a)
  PROVE  Worker(n)'
<1>1. CASE n.pc = "idle"
  BY <1>1 DEF Worker
<1>2. ASSUME NEW a \in Alerts, order[a].state # "NONE", a = risk'.alert
      PROVE  /\ risk.alert = a /\ risk.version \in Nat /\ risk'.version \in Nat
             /\ risk.version <= risk'.version
  BY <1>2, IntentsStep, OrderStays DEF RiskMoves
<1>3. CASE n = r /\ r.pc # "idle"
  <2> DEFINE a == r.alert
  <2>1. a \in Alerts /\ order[a].state # "NONE" /\ order'[a].state # "NONE"
    BY <1>3, OrderStays DEF Worker
  <2>2. r.pc = "seen" /\ a = risk'.alert => r.seen.version <= risk'.version
    <3> SUFFICES ASSUME r.pc = "seen", a = risk'.alert PROVE r.seen.version <= risk'.version
      OBVIOUS
    <3>1. r.seen.version \in Nat
      <4>1. r.seen \in AlertRows
        BY DEF WorkerStates
      <4>2. QED
        BY <4>1, BoundsAssumption DEF AlertRows
    <3>2. r.seen.version <= risk.version
      BY <1>2, <2>1 DEF Worker
    <3>3. QED
      BY <1>2, <2>1, <3>1, <3>2
  <2>3. r.pc \in {"replied", "seen"} =>
          /\ r.reply.version <= cmms'[a].version
          /\ r.reply.version = cmms'[a].version => r.reply.status = cmms'[a].status
    BY <2>1, Fields DEF Worker, CmmsMoves
  <2>4. QED
    BY <1>3, <2>1, <2>2, <2>3 DEF Worker
<1>4. CASE /\ n.pc \notin {"replied", "seen"}
           /\ n.alert \in Alerts /\ order[n.alert].state # "NONE"
  BY <1>4, OrderStays DEF Worker
<1>5. CASE /\ n.pc = "replied" /\ r.pc # "idle" /\ n.alert = r.alert
           /\ n.reply = cmms'[r.alert]
  <2>1. r.alert \in Alerts /\ order'[r.alert].state # "NONE"
    BY <1>5, OrderStays DEF Worker
  <2>2. cmms'[r.alert].version <= cmms'[r.alert].version
    BY <2>1, Fields DEF CmmsMoves
  <2>3. QED
    BY <1>5, <2>1, <2>2 DEF Worker
<1>6. CASE /\ n.pc = "seen" /\ r.pc = "replied" /\ n.alert = r.alert
           /\ n.reply = r.reply /\ n.seen = alert[r.alert]
  <2> DEFINE a == r.alert
  <2>1. a \in Alerts /\ order[a].state # "NONE" /\ order'[a].state # "NONE"
    BY <1>6, OrderStays DEF Worker
  <2>2. a = risk'.alert => n.seen.version <= risk'.version
    <3> SUFFICES ASSUME a = risk'.alert PROVE alert[a].version <= risk'.version
      BY <1>6
    <3>1. alert[a].version <= risk.version
      BY <1>2, <2>1, NullAssumption DEF OrdersInv, IntentsInv, Numbered
    <3>2. QED
      BY <1>2, <2>1, <3>1, Fields
  <2>3. /\ r.reply.version <= cmms'[a].version
        /\ r.reply.version = cmms'[a].version => r.reply.status = cmms'[a].status
    BY <1>6, <2>1, Fields DEF Worker, CmmsMoves
  <2>4. QED
    BY <1>6, <2>1, <2>2, <2>3 DEF Worker
<1>7. QED
  BY <1>1, <1>3, <1>4, <1>5, <1>6 DEF WorkerMoves

\* A page with the record r gets the record n.
PageMoves(r, n) ==
  \/ n = r \/ n.wants = "nothing"
  \/ /\ n.alert \in Alerts /\ projection.alert = n.alert
     /\ n.seen = alert[n.alert] /\ UNCHANGED <<intents, orders>>

LEMMA PageStep ==
  ASSUME OrdersInv, [Next]_vars, NEW r \in TabStates, Page(r), NEW n, PageMoves(r, n)
  PROVE  Page(n)'
<1>1. CASE n.wants = "nothing"
  BY <1>1 DEF Page
<1>2. CASE n = r /\ r.wants # "nothing"
  <2> DEFINE a == r.alert
  <2>1. /\ a \in Alerts /\ alert[a].risk # "ABSENT"
        /\ order[a].state = "NONE" =>
             /\ r.seen.version <= alert[a].version
             /\ r.seen.version = alert[a].version => r.seen = alert[a]
    BY <1>2 DEF Page
  <2>2. r.seen.version \in Nat /\ alert[a].version \in Nat
    <3>1. r.seen \in AlertRows
      BY DEF TabStates
    <3>2. QED
      BY <2>1, <3>1, Fields, BoundsAssumption DEF AlertRows
  <2>3. CASE Untouched(a)
    BY <1>2, <2>1, <2>3 DEF Untouched, Page
  <2>4. CASE Advanced(a)
    BY <1>2, <2>1, <2>2, <2>4 DEF Advanced, Page
  <2>5. CASE Approved(a)
    <3>1. order'[a].state # "NONE" /\ alert'[a].risk # "ABSENT"
      BY <2>1, <2>5 DEF Approved, NoOrder
    <3>2. QED
      BY <1>2, <2>1, <3>1 DEF Page
  <2>6. CASE Created(a) \/ Polled(a)
    <3>1. order'[a].state # "NONE" /\ alert'[a].risk # "ABSENT"
      BY <2>1, <2>6, Tells DEF ReportedStates
    <3>2. QED
      BY <1>2, <2>1, <3>1 DEF Page
  <2>7. CASE Opened(a)
    BY <2>1, <2>7 DEF Opened
  <2>8. QED
    BY <2>1, <2>3, <2>4, <2>5, <2>6, <2>7, RowStep DEF RowMoves
<1>3. CASE /\ n.alert \in Alerts /\ projection.alert = n.alert
           /\ n.seen = alert[n.alert] /\ UNCHANGED <<intents, orders>>
  <2>1. risk.alert = n.alert /\ alert[n.alert].risk # "ABSENT"
    BY <1>3, NullAssumption DEF OrdersInv, IntentsInv, Truthful, Numbered
  <2>2. alert' = alert /\ order' = order
    BY <1>3 DEF intents, orders
  <2>3. QED
    BY <1>3, <2>1, <2>2, Fields DEF Page
<1>4. QED
  BY <1>1, <1>2, <1>3 DEF PageMoves

-----------------------------------------------------------------------------
(* Types, and the moves of workers and pages.                              *)

\* The CMMS: a version stands for one status.
LEMMA CmmsStep ==
  ASSUME OrdersInv, [Next]_vars
  PROVE  cmms' \in [Alerts -> CmmsRows] /\ \A a \in Alerts : CmmsMoves(a)
<1>0. cmms \in [Alerts -> CmmsRows] /\ \A a \in Alerts : cmms[a].version \in Nat
  BY Fields
<1>1. CASE UNCHANGED cmms
  BY <1>0, <1>1 DEF CmmsMoves
<1>2. ASSUME NEW a \in Alerts, NEW n \in 1..MaxCmmsVersion, NEW s \in CmmsStatuses,
             n = cmms[a].version + 1,
             cmms' = [cmms EXCEPT ![a] = [version |-> n, status |-> s]]
      PROVE  cmms' \in [Alerts -> CmmsRows] /\ \A b \in Alerts : CmmsMoves(b)
  <2>1. [version |-> n, status |-> s] \in CmmsRows
    BY CmmsAssumption DEF CmmsRows
  <2>2. \A b \in Alerts : cmms'[b] = IF b = a THEN [version |-> n, status |-> s] ELSE cmms[b]
    BY <1>0, <1>2
  <2>3. QED
    BY <1>0, <1>2, <2>1, <2>2 DEF CmmsMoves
<1>3. ASSUME NEW a \in Alerts, NEW s \in CmmsStatuses, CmmsProgress(a, s)
      PROVE  cmms' \in [Alerts -> CmmsRows] /\ \A b \in Alerts : CmmsMoves(b)
  <2> DEFINE n == cmms[a].version + 1
  <2>1. cmms' = [cmms EXCEPT ![a] = [version |-> n, status |-> s]]
    BY <1>3 DEF CmmsProgress
  <2>2. n \in 1..MaxCmmsVersion /\ n = cmms[a].version + 1
    <3>1. cmms[a].version \in 1..(MaxCmmsVersion - 1)
      BY <1>3 DEF CmmsProgress
    <3>2. QED
      BY <3>1, CmmsAssumption
  <2> HIDE DEF n
  <2>3. QED
    BY <1>2, <2>1, <2>2
<1>4. ASSUME NEW w \in Senders, NEW answered \in BOOLEAN, PostOrder(w, answered)
      PROVE  cmms' \in [Alerts -> CmmsRows] /\ \A b \in Alerts : CmmsMoves(b)
  <2> DEFINE a == sender[w].alert
  <2>1. a \in Alerts
    BY <1>4, Fields DEF PostOrder
  <2>2. CASE cmms[a].version = 0
    <3>1. cmms' = [cmms EXCEPT ![a] = [version |-> 1, status |-> "OPEN"]]
      BY <1>4, <2>2 DEF PostOrder
    <3>2. 1 \in 1..MaxCmmsVersion /\ 1 = cmms[a].version + 1 /\ "OPEN" \in CmmsStatuses
      BY <2>2, CmmsAssumption
    <3>3. QED
      BY <1>2, <2>1, <3>1, <3>2
  <2>3. CASE cmms[a].version # 0
    BY <1>1, <1>4, <2>3 DEF PostOrder
  <2>4. QED
    BY <2>2, <2>3
<1>5. \/ UNCHANGED cmms
      \/ \E a \in Alerts, s \in CmmsStatuses : CmmsProgress(a, s)
      \/ \E w \in Senders, answered \in BOOLEAN : PostOrder(w, answered)
  BY DEF Next, OrderSide, Round, Approve, Send, Poll, vars, DeliverAlarm, Look, CreateOrder,
         CloseRisk, Refuse, ClaimCommand, ReadOrder, FindOrder, CmmsFails, RejectIdentity,
         RetryCommand, SeeAlert, SaveOrder, CrashSender, ClaimPoll, FetchStatus, FailPoll,
         SeePolled, ApplyStatus, CrashPoller
<1>6. QED
  BY <1>1, <1>3, <1>4, <1>5

\* A reply of the CMMS about an order that a worker asked for.
Heard(n) == n.pc \in {"replied", "seen"} => n.reply.version > 0

LEMMA SenderStep ==
  ASSUME OrdersInv, [Next]_vars
  PROVE  \/ UNCHANGED sender
         \/ \E w \in Senders : \E n \in WorkerStates :
              /\ sender' = [sender EXCEPT ![w] = n]
              /\ WorkerMoves(sender[w], n) /\ Heard(n)
<1> DEFINE Moves(w, n) == /\ sender' = [sender EXCEPT ![w] = n]
                          /\ WorkerMoves(sender[w], n) /\ Heard(n)
<1>0. /\ cmms' \in [Alerts -> CmmsRows] /\ sender \in [Senders -> WorkerStates]
      /\ \A a \in Alerts : cmms[a].version \in Nat
  BY CmmsStep, Fields DEF OrdersInv, OrderTypes
<1>1. Idle \in WorkerStates /\ Idle.pc = "idle"
  BY Constants DEF Idle
<1>2. ASSUME NEW w \in Senders, Rest(w) PROVE \E n \in WorkerStates : Moves(w, n)
  BY <1>1, <1>2 DEF Rest, WorkerMoves, Heard
<1>3. ASSUME NEW w \in Senders, ClaimCommand(w)
      PROVE  UNCHANGED sender \/ \E n \in WorkerStates : Moves(w, n)
  <2>1. CASE UNCHANGED sender
    BY <2>1
  <2>2. ASSUME NEW a \in Alerts, command[a].status \in Waiting \cup {"IN_FLIGHT"},
               sender' = [sender EXCEPT ![w] = [Idle EXCEPT !.pc = "read", !.alert = a]]
        PROVE  \E n \in WorkerStates : Moves(w, n)
    <3> DEFINE n == [Idle EXCEPT !.pc = "read", !.alert = a]
    <3>1. n \in WorkerStates /\ n.pc = "read" /\ n.alert = a
      BY <1>1 DEF Idle, WorkerStates
    <3>2. order[a].state # "NONE"
      BY <2>2 DEF OrdersInv, Matched, Waiting
    <3> HIDE DEF n
    <3>3. QED
      BY <2>2, <3>1, <3>2 DEF WorkerMoves, Heard, n
  <2>3. PICK S \in SUBSET InFlight :
          LET freed == [a \in Alerts |->
                          IF a \in S THEN [command[a] EXCEPT !.status = "RETRY_WAIT",
                                                             !.owner = None]
                          ELSE command[a]]
          IN \/ UNCHANGED sender
             \/ \E a \in Due(freed) :
                  sender' = [sender EXCEPT ![w] = [Idle EXCEPT !.pc = "read", !.alert = a]]
    BY <1>3 DEF ClaimCommand
  <2> DEFINE freed == [a \in Alerts |->
                         IF a \in S THEN [command[a] EXCEPT !.status = "RETRY_WAIT",
                                                            !.owner = None]
                         ELSE command[a]]
  <2>4. ASSUME NEW a \in Due(freed) PROVE a \in Alerts /\ command[a].status \in Waiting \cup {"IN_FLIGHT"}
    <3>1. a \in Alerts /\ freed[a].status \in Waiting
      BY DEF Due
    <3>2. a \in S => command[a].status = "IN_FLIGHT"
      BY DEF InFlight
    <3>3. a \notin S => freed[a] = command[a]
      BY <3>1
    <3>4. QED
      BY <3>1, <3>2, <3>3
  <2>5. QED
    BY <2>1, <2>2, <2>3, <2>4
<1>4. ASSUME NEW w \in Senders, NEW pc \in {"find", "create", "failed"},
             sender[w].pc # "idle",
             sender' = [sender EXCEPT ![w] = [sender[w] EXCEPT !.pc = pc]]
      PROVE  \E n \in WorkerStates : Moves(w, n)
  <2> DEFINE n == [sender[w] EXCEPT !.pc = pc]
  <2>1. /\ n \in WorkerStates /\ n.pc = pc /\ n.alert = sender[w].alert
    BY <1>0, <1>4 DEF WorkerStates
  <2>2. n.alert \in Alerts /\ order[n.alert].state # "NONE"
    BY <1>4, <2>1, Fields DEF Worker
  <2> HIDE DEF n
  <2>3. QED
    BY <1>4, <2>1, <2>2 DEF WorkerMoves, Heard, n
<1>5. ASSUME NEW w \in Senders, sender[w].pc # "idle", Reply(w, sender[w].alert),
             cmms'[sender[w].alert].version > 0
      PROVE  \E n \in WorkerStates : Moves(w, n)
  <2> DEFINE row == cmms'[sender[w].alert]
             n == [sender[w] EXCEPT !.pc = "replied", !.reply = row]
  <2>1. sender' = [sender EXCEPT ![w] = n]
    BY <1>0, <1>5 DEF Reply
  <2>2. row \in CmmsRows /\ sender[w] \in WorkerStates
    BY <1>0, <1>5, Fields
  <2> HIDE DEF row
  <2>3. n \in WorkerStates /\ n.pc = "replied" /\ n.alert = sender[w].alert /\ n.reply = row
    BY <2>2 DEF WorkerStates
  <2> HIDE DEF n
  <2>4. WorkerMoves(sender[w], n) /\ Heard(n)
    BY <1>5, <2>3 DEF WorkerMoves, Heard, row
  <2>5. QED
    BY <2>1, <2>3, <2>4
<1>6. ASSUME NEW w \in Senders, ReadOrder(w) PROVE \E n \in WorkerStates : Moves(w, n)
  <2>1. CASE Mine(w)
    BY <1>0, <1>4, <1>6, <2>1 DEF ReadOrder
  <2>2. CASE ~Mine(w)
    BY <1>2, <1>6, <2>2 DEF ReadOrder, Rest
  <2>3. QED
    BY <2>1, <2>2
<1>7. ASSUME NEW w \in Senders, FindOrder(w) PROVE \E n \in WorkerStates : Moves(w, n)
  <2>1. CASE cmms[sender[w].alert].version > 0
    BY <1>5, <1>7, <2>1 DEF FindOrder
  <2>2. CASE ~(cmms[sender[w].alert].version > 0)
    <3>1. sender' = [sender EXCEPT ![w].pc = "create"] /\ sender[w].pc # "idle"
      BY <1>7, <2>2 DEF FindOrder
    <3>2. QED
      BY <1>0, <1>4, <3>1
  <2>3. QED
    BY <2>1, <2>2
<1>8. ASSUME NEW w \in Senders, NEW answered \in BOOLEAN, PostOrder(w, answered)
      PROVE  \E n \in WorkerStates : Moves(w, n)
  <2> DEFINE a == sender[w].alert
  <2>1. sender[w].pc # "idle" /\ a \in Alerts
    BY <1>8, Fields DEF PostOrder
  <2>2. CASE answered
    <3>1. cmms'[a].version > 0
      <4>1. CASE cmms[a].version = 0
        BY <1>8, <2>1, <4>1, Fields DEF PostOrder
      <4>2. CASE cmms[a].version # 0
        BY <1>0, <1>8, <2>1, <4>2 DEF PostOrder
      <4>3. QED
        BY <4>1, <4>2
    <3>2. QED
      BY <1>5, <1>8, <2>1, <2>2, <3>1 DEF PostOrder
  <2>3. CASE ~answered
    <3>1. sender' = [sender EXCEPT ![w].pc = "failed"]
      BY <1>8, <2>3 DEF PostOrder
    <3>2. QED
      BY <1>0, <1>4, <2>1, <3>1
  <2>4. QED
    BY <2>2, <2>3
<1>9. ASSUME NEW w \in Senders, CmmsFails(w) PROVE \E n \in WorkerStates : Moves(w, n)
  BY <1>0, <1>4, <1>9 DEF CmmsFails
<1>10. ASSUME NEW w \in Senders, SeeAlert(w) PROVE \E n \in WorkerStates : Moves(w, n)
  <2> DEFINE row == alert[sender[w].alert]
             n == [sender[w] EXCEPT !.pc = "seen", !.seen = row]
  <2>1. sender' = [sender EXCEPT ![w] = n] /\ sender[w].pc = "replied"
    BY <1>0, <1>10 DEF SeeAlert
  <2>2. row \in AlertRows /\ sender[w] \in WorkerStates
    BY <2>1, Fields
  <2> HIDE DEF row
  <2>3. /\ n \in WorkerStates /\ n.pc = "seen" /\ n.alert = sender[w].alert
        /\ n.reply = sender[w].reply /\ n.seen = row
    BY <2>2 DEF WorkerStates
  <2>4. sender[w].reply.version > 0
    BY <2>1 DEF OrdersInv
  <2> HIDE DEF n
  <2>5. WorkerMoves(sender[w], n) /\ Heard(n)
    BY <2>1, <2>3, <2>4 DEF WorkerMoves, Heard, row
  <2>6. QED
    BY <2>1, <2>3, <2>5
<1> HIDE DEF Moves
<1>11. \/ UNCHANGED sender
       \/ \E w \in Senders :
            \/ Rest(w) \/ ClaimCommand(w) \/ ReadOrder(w) \/ FindOrder(w)
            \/ \E answered \in BOOLEAN : PostOrder(w, answered)
            \/ CmmsFails(w) \/ SeeAlert(w)
  BY DEF Next, OrderSide, Round, CmmsProgress, workers, Approve, Send, Poll, vars, DeliverAlarm,
         Look, CreateOrder, CloseRisk, Refuse, RejectIdentity, RetryCommand, SaveOrder,
         CrashSender, ClaimPoll, FetchStatus, FailPoll, SeePolled, ApplyStatus, CrashPoller
<1>12. \/ UNCHANGED sender
       \/ \E w \in Senders : \E n \in WorkerStates : Moves(w, n)
  BY <1>2, <1>3, <1>6, <1>7, <1>8, <1>9, <1>10, <1>11
<1>13. QED
  BY <1>12 DEF Moves

LEMMA PollerStep ==
  ASSUME OrdersInv, [Next]_vars
  PROVE  \/ UNCHANGED poller
         \/ \E p \in Pollers : \E n \in WorkerStates :
              poller' = [poller EXCEPT ![p] = n] /\ WorkerMoves(poller[p], n)
<1> DEFINE Moves(p, n) == poller' = [poller EXCEPT ![p] = n] /\ WorkerMoves(poller[p], n)
<1>0. poller \in [Pollers -> WorkerStates]
  BY DEF OrdersInv, OrderTypes
<1>1. Idle \in WorkerStates /\ Idle.pc = "idle"
  BY Constants DEF Idle
<1>2. ASSUME NEW p \in Pollers, PollerRests(p) PROVE \E n \in WorkerStates : Moves(p, n)
  BY <1>1, <1>2 DEF PollerRests, WorkerMoves
<1>3. ASSUME NEW p \in Pollers, ClaimPoll(p)
      PROVE  UNCHANGED poller \/ \E n \in WorkerStates : Moves(p, n)
  <2>1. ASSUME NEW a \in Alerts, Pollable(a),
               poller' = [poller EXCEPT ![p] = [Idle EXCEPT !.pc = "poll", !.alert = a]]
        PROVE  \E n \in WorkerStates : Moves(p, n)
    <3> DEFINE n == [Idle EXCEPT !.pc = "poll", !.alert = a]
    <3>1. n \in WorkerStates /\ n.pc = "poll" /\ n.alert = a
      BY <1>1 DEF Idle, WorkerStates
    <3>2. order[a].state # "NONE"
      BY <2>1 DEF OrdersInv, Matched, Pollable, ReportedStates
    <3> HIDE DEF n
    <3>3. QED
      BY <2>1, <3>1, <3>2 DEF WorkerMoves, n
  <2>2. \/ UNCHANGED poller
        \/ \E a \in Alerts :
             /\ Pollable(a)
             /\ poller' = [poller EXCEPT ![p] = [Idle EXCEPT !.pc = "poll", !.alert = a]]
    BY <1>3 DEF ClaimPoll
  <2>3. QED
    BY <2>1, <2>2
<1>4. ASSUME NEW p \in Pollers, FetchStatus(p) PROVE \E n \in WorkerStates : Moves(p, n)
  <2> DEFINE row == cmms[poller[p].alert]
             n == [poller[p] EXCEPT !.pc = "replied", !.reply = row]
  <2>1. poller' = [poller EXCEPT ![p] = n] /\ poller[p].pc = "poll" /\ UNCHANGED cmms
    BY <1>0, <1>4 DEF FetchStatus
  <2>2. row \in CmmsRows /\ poller[p] \in WorkerStates
    BY <2>1, Fields
  <2>3. cmms'[poller[p].alert] = row
    BY <2>1
  <2> HIDE DEF row
  <2>4. n \in WorkerStates /\ n.pc = "replied" /\ n.alert = poller[p].alert /\ n.reply = row
    BY <2>2 DEF WorkerStates
  <2> HIDE DEF n
  <2>5. WorkerMoves(poller[p], n)
    BY <2>1, <2>3, <2>4 DEF WorkerMoves
  <2>6. QED
    BY <2>1, <2>4, <2>5
<1>5. ASSUME NEW p \in Pollers, SeePolled(p) PROVE \E n \in WorkerStates : Moves(p, n)
  <2> DEFINE row == alert[poller[p].alert]
             n == [poller[p] EXCEPT !.pc = "seen", !.seen = row]
  <2>1. poller' = [poller EXCEPT ![p] = n] /\ poller[p].pc = "replied"
    BY <1>0, <1>5 DEF SeePolled
  <2>2. row \in AlertRows /\ poller[p] \in WorkerStates
    BY <2>1, Fields
  <2> HIDE DEF row
  <2>3. /\ n \in WorkerStates /\ n.pc = "seen" /\ n.alert = poller[p].alert
        /\ n.reply = poller[p].reply /\ n.seen = row
    BY <2>2 DEF WorkerStates
  <2> HIDE DEF n
  <2>4. WorkerMoves(poller[p], n)
    BY <2>1, <2>3 DEF WorkerMoves, row
  <2>5. QED
    BY <2>1, <2>3, <2>4
<1> HIDE DEF Moves
<1>6. \/ UNCHANGED poller
      \/ \E p \in Pollers : PollerRests(p) \/ ClaimPoll(p) \/ FetchStatus(p) \/ SeePolled(p)
  BY DEF Next, OrderSide, Round, CmmsProgress, workers, Approve, Send, Poll, vars, DeliverAlarm,
         Look, CreateOrder, CloseRisk, Refuse, ClaimCommand, ReadOrder, FindOrder, PostOrder,
         CmmsFails, RejectIdentity, RetryCommand, SeeAlert, SaveOrder, CrashSender, FailPoll,
         ApplyStatus, CrashPoller
<1>7. \/ UNCHANGED poller
      \/ \E p \in Pollers : \E n \in WorkerStates : Moves(p, n)
  BY <1>2, <1>3, <1>4, <1>5, <1>6
<1>8. QED
  BY <1>7 DEF Moves

LEMMA TabStep ==
  ASSUME OrdersInv, [Next]_vars
  PROVE  \/ UNCHANGED tab
         \/ \E t \in Tabs : \E n \in TabStates :
              tab' = [tab EXCEPT ![t] = n] /\ PageMoves(tab[t], n)
<1> DEFINE Moves(t, n) == tab' = [tab EXCEPT ![t] = n] /\ PageMoves(tab[t], n)
<1>0. tab \in [Tabs -> TabStates]
  BY DEF OrdersInv, OrderTypes
<1>1. ASSUME NEW t \in Tabs, NEW lost \in BOOLEAN, Answer(t, lost)
      PROVE  \E n \in TabStates : Moves(t, n)
  <2>1. Blank \in TabStates /\ Blank.wants = "nothing"
    BY Constants DEF Blank
  <2>2. CASE lost
    BY <1>0, <1>1, <2>2 DEF Answer, PageMoves
  <2>3. CASE ~lost
    BY <1>1, <2>1, <2>3 DEF Answer, PageMoves
  <2>4. QED
    BY <2>2, <2>3
<1>2. ASSUME NEW t \in Tabs, NEW a \in Alerts, NEW wants \in {"CREATE_WORK_ORDER", "CLOSE_RISK"},
             Look(t, a, wants)
      PROVE  \E n \in TabStates : Moves(t, n)
  <2> DEFINE n == [wants |-> wants, alert |-> a, seen |-> alert[a]]
  <2>1. n \in TabStates
    BY Fields DEF TabStates
  <2>2. Moves(t, n)
    BY <1>2 DEF Look, Ready, PageMoves
  <2>3. QED
    BY <2>1, <2>2
<1> HIDE DEF Moves
<1>3. \/ UNCHANGED tab
      \/ \E t \in Tabs : \E lost \in BOOLEAN : Answer(t, lost)
      \/ \E t \in Tabs : \E a \in Alerts, wants \in {"CREATE_WORK_ORDER", "CLOSE_RISK"} :
           Look(t, a, wants)
  BY DEF Next, OrderSide, Round, CmmsProgress, workers, Approve, Send, Poll, vars, DeliverAlarm,
         CreateOrder, CloseRisk, Refuse, ClaimCommand, ReadOrder, FindOrder, PostOrder,
         CmmsFails, RejectIdentity, RetryCommand, SeeAlert, SaveOrder, CrashSender, ClaimPoll,
         FetchStatus, FailPoll, SeePolled, ApplyStatus, CrashPoller
<1>4. \/ UNCHANGED tab
      \/ \E t \in Tabs : \E n \in TabStates : Moves(t, n)
  BY <1>1, <1>2, <1>3
<1>5. QED
  BY <1>4 DEF Moves

\* Orders, commands and what was accepted keep their types.
LEMMA RowTypes ==
  ASSUME OrdersInv, [Next]_vars
  PROVE  /\ order' \in [Alerts -> OrderRows] /\ command' \in [Alerts -> Commands]
         /\ action' \in [Alerts -> [create : 0..MaxVersion, close : 0..MaxVersion]]
<1> DEFINE Accepted == [create : 0..MaxVersion, close : 0..MaxVersion]
           Typed == /\ order' \in [Alerts -> OrderRows] /\ command' \in [Alerts -> Commands]
                    /\ action' \in [Alerts -> Accepted]
<1>0. /\ order \in [Alerts -> OrderRows] /\ command \in [Alerts -> Commands]
      /\ action \in [Alerts -> Accepted]
  BY DEF OrdersInv, OrderTypes
<1>1. ASSUME UNCHANGED orders PROVE Typed
  BY <1>0, <1>1 DEF orders
<1>2. ASSUME NEW t \in Tabs, NEW lost \in BOOLEAN, CreateOrder(t, lost) PROVE Typed
  <2> DEFINE a == tab[t].alert
  <2>1. a \in Alerts /\ alert[a].version \in 0..MaxVersion
    BY <1>2, Fields DEF CreateOrder, OrderAlert, AlertRows
  <2>2. /\ [NoOrder EXCEPT !.state = "WORK_ORDER_CREATING"] \in OrderRows
        /\ [NoCommand EXCEPT !.status = "PENDING"] \in Commands
    BY Constants DEF OrderRows, Commands, CareStates, ActiveOrderStates, EventStatuses, Waiting
  <2>3. [action[a] EXCEPT !.create = alert[a].version] \in Accepted
    BY <1>0, <2>1
  <2>4. /\ action' = [action EXCEPT ![a] = [action[a] EXCEPT !.create = alert[a].version]]
        /\ order' = [order EXCEPT ![a] = [NoOrder EXCEPT !.state = "WORK_ORDER_CREATING"]]
        /\ command' = [command EXCEPT ![a] = [NoCommand EXCEPT !.status = "PENDING"]]
    BY <1>0, <1>2 DEF CreateOrder, OrderAlert
  <2> HIDE DEF Accepted
  <2>5. QED
    BY <1>0, <2>1, <2>2, <2>3, <2>4
<1>3. ASSUME NEW t \in Tabs, NEW lost \in BOOLEAN, CloseRisk(t, lost) PROVE Typed
  <2> DEFINE a == tab[t].alert
  <2>1. a \in Alerts /\ alert[a].version \in 0..MaxVersion
    BY <1>3, Fields DEF CloseRisk, AlertRows
  <2>2. [action[a] EXCEPT !.close = alert[a].version] \in Accepted
    BY <1>0, <2>1
  <2>3. /\ action' = [action EXCEPT ![a] = [action[a] EXCEPT !.close = alert[a].version]]
        /\ UNCHANGED <<order, command>>
    BY <1>0, <1>3 DEF CloseRisk
  <2> HIDE DEF Accepted
  <2>4. QED
    BY <1>0, <2>1, <2>2, <2>3
<1> HIDE DEF Accepted
<1>4. ASSUME NEW w \in Senders, NEW status \in {"DELIVERED", "DEAD_LETTER", "RETRY_WAIT"},
             sender[w].pc # "idle", FinishCommand(w, status)
      PROVE  command' \in [Alerts -> Commands]
  <2> DEFINE a == sender[w].alert
  <2>1. a \in Alerts
    BY <1>4, Fields
  <2>2. [command[a] EXCEPT !.status = status, !.owner = None] \in Commands
    BY <1>0, <2>1 DEF Commands, EventStatuses, Waiting
  <2>3. \/ command' = command
        \/ command' = [command EXCEPT ![a] = [command[a] EXCEPT !.status = status,
                                                                !.owner = None]]
    BY <1>0, <1>4, <2>1 DEF FinishCommand
  <2>4. QED
    BY <1>0, <2>1, <2>2, <2>3
<1>5. ASSUME NEW w \in Senders, ClaimCommand(w) PROVE Typed
  <2>1. PICK S \in SUBSET InFlight :
          LET freed == [c \in Alerts |->
                          IF c \in S THEN [command[c] EXCEPT !.status = "RETRY_WAIT",
                                                             !.owner = None]
                          ELSE command[c]]
          IN \/ command' = freed
             \/ \E b \in Due(freed) :
                  command' = [freed EXCEPT ![b] = [status |-> "IN_FLIGHT", owner |-> w,
                                                   attempt |-> @.attempt + 1]]
    BY <1>5 DEF ClaimCommand
  <2> DEFINE freed == [c \in Alerts |->
                         IF c \in S THEN [command[c] EXCEPT !.status = "RETRY_WAIT",
                                                            !.owner = None]
                         ELSE command[c]]
  <2>2. freed \in [Alerts -> Commands]
    <3>1. ASSUME NEW c \in Alerts
          PROVE  [command[c] EXCEPT !.status = "RETRY_WAIT", !.owner = None] \in Commands
      BY <1>0 DEF Commands, EventStatuses, Waiting
    <3>2. QED
      BY <1>0, <3>1
  <2>3. ASSUME NEW b \in Due(freed),
               command' = [freed EXCEPT ![b] = [status |-> "IN_FLIGHT", owner |-> w,
                                                attempt |-> @.attempt + 1]]
        PROVE  command' \in [Alerts -> Commands]
    <3> DEFINE n == freed[b].attempt + 1
    <3>1. b \in Alerts /\ freed[b].attempt < MaxAttempts
      BY DEF Due
    <3> HIDE DEF freed
    <3>2. n \in 0..MaxAttempts
      <4>1. freed[b].attempt \in 0..MaxAttempts
        BY <2>2, <3>1 DEF Commands
      <4>2. QED
        BY <3>1, <4>1, BoundsAssumption
    <3>3. command' = [freed EXCEPT ![b] = [status |-> "IN_FLIGHT", owner |-> w,
                                           attempt |-> n]]
      BY <2>3
    <3> HIDE DEF n
    <3>4. [status |-> "IN_FLIGHT", owner |-> w, attempt |-> n] \in Commands
      BY <3>2 DEF Commands, EventStatuses
    <3>5. QED
      BY <2>2, <3>1, <3>3, <3>4
  <2>4. command' \in [Alerts -> Commands]
    BY <2>1, <2>2, <2>3
  <2>5. QED
    BY <1>0, <1>5, <2>4 DEF ClaimCommand
<1>6. ASSUME NEW w \in Senders, RejectIdentity(w) \/ RetryCommand(w) PROVE Typed
  <2>1. sender[w].pc # "idle" /\ UNCHANGED <<order, action>>
    BY <1>6 DEF RejectIdentity, RetryCommand
  <2>2. \E status \in {"DEAD_LETTER", "RETRY_WAIT"} : FinishCommand(w, status)
    BY <1>6 DEF RejectIdentity, RetryCommand
  <2>3. QED
    BY <1>0, <1>4, <2>1, <2>2
<1>7. ASSUME NEW s \in KnownStatuses PROVE CareOf[s] \in CareStates \cup {"NONE"}
  BY <1>7, CareRange DEF ReportedStates, CareStates, ActiveOrderStates
<1>8. ASSUME NEW w \in Senders, SaveOrder(w) PROVE Typed
  <2> DEFINE a == sender[w].alert
             reply == sender[w].reply
  <2>1. sender[w].pc = "seen" /\ a \in Alerts /\ sender[w] \in WorkerStates
    BY <1>8, Fields DEF SaveOrder
  <2>2. reply \in CmmsRows
    BY <2>1 DEF WorkerStates
  <2>3. \E status \in {"DELIVERED", "DEAD_LETTER"} : FinishCommand(w, status)
    BY <1>8 DEF SaveOrder
  <2>4. command' \in [Alerts -> Commands]
    BY <1>4, <2>1, <2>3
  <2>5. CASE Mine(w) /\ reply.status \in KnownStatuses
    <3> DEFINE row == [order[a] EXCEPT !.state = CareOf[reply.status],
                                       !.version = reply.version]
    <3>1. order' = [order EXCEPT ![a] = row]
      BY <1>0, <1>8, <2>1, <2>5 DEF SaveOrder
    <3>2. /\ CareOf[reply.status] \in CareStates \cup {"NONE"}
          /\ reply.version \in 0..MaxCmmsVersion
      BY <1>7, <2>2, <2>5 DEF CmmsRows
    <3>3. row \in OrderRows
      BY <1>0, <2>1, <3>2 DEF OrderRows
    <3> HIDE DEF row
    <3>4. QED
      BY <1>0, <1>8, <2>1, <2>4, <3>1, <3>3 DEF SaveOrder
  <2>6. CASE ~(Mine(w) /\ reply.status \in KnownStatuses)
    BY <1>0, <1>8, <2>4, <2>6 DEF SaveOrder
  <2>7. QED
    BY <2>5, <2>6
<1>9. ASSUME NEW p \in Pollers, ClaimPoll(p) PROVE Typed
  <2>1. PICK S \in SUBSET {c \in Alerts : order[c].poller # None} :
          LET freed == [c \in Alerts |-> IF c \in S THEN [order[c] EXCEPT !.poller = None]
                                         ELSE order[c]]
          IN \/ order' = freed
             \/ \E b \in Alerts : order' = [freed EXCEPT ![b].poller = p]
    BY <1>9 DEF ClaimPoll
  <2> DEFINE freed == [c \in Alerts |-> IF c \in S THEN [order[c] EXCEPT !.poller = None]
                                        ELSE order[c]]
  <2>2. freed \in [Alerts -> OrderRows]
    <3>1. ASSUME NEW c \in Alerts PROVE [order[c] EXCEPT !.poller = None] \in OrderRows
      BY <1>0 DEF OrderRows
    <3>2. QED
      BY <1>0, <3>1
  <2>3. order' \in [Alerts -> OrderRows]
    <3> HIDE DEF freed
    <3>1. ASSUME NEW b \in Alerts PROVE [freed[b] EXCEPT !.poller = p] \in OrderRows
      BY <2>2 DEF OrderRows
    <3>2. ASSUME NEW b \in Alerts, order' = [freed EXCEPT ![b].poller = p]
          PROVE  order' \in [Alerts -> OrderRows]
      <4>1. order' = [freed EXCEPT ![b] = [freed[b] EXCEPT !.poller = p]]
        BY <2>2, <3>2
      <4>2. QED
        BY <2>2, <3>1, <4>1
    <3>3. order' = freed \/ \E b \in Alerts : order' = [freed EXCEPT ![b].poller = p]
      BY <2>1 DEF freed
    <3>4. QED
      BY <2>2, <3>2, <3>3
  <2>4. QED
    BY <1>0, <1>9, <2>3 DEF ClaimPoll
<1>10. ASSUME NEW p \in Pollers, poller[p].pc # "idle", order' = Release(p)
       PROVE  order' \in [Alerts -> OrderRows]
  <2> DEFINE a == poller[p].alert
             row == [order[a] EXCEPT !.poller = IF @ = p THEN None ELSE @]
  <2>1. a \in Alerts
    BY <1>10, Fields
  <2>2. order' = [order EXCEPT ![a] = row]
    BY <1>0, <1>10, <2>1 DEF Release
  <2>3. row \in OrderRows
    BY <1>0, <2>1 DEF OrderRows
  <2> HIDE DEF row
  <2>4. QED
    BY <1>0, <2>1, <2>2, <2>3
<1>11. ASSUME NEW p \in Pollers, FailPoll(p) PROVE Typed
  BY <1>0, <1>10, <1>11 DEF FailPoll
<1>12. ASSUME NEW p \in Pollers, ApplyStatus(p) PROVE Typed
  <2> DEFINE a == poller[p].alert
             reply == poller[p].reply
  <2>1. poller[p].pc = "seen" /\ a \in Alerts /\ poller[p] \in WorkerStates
    BY <1>12, Fields DEF ApplyStatus
  <2>2. reply \in CmmsRows
    BY <2>1 DEF WorkerStates
  <2>3. CASE Polls(p) /\ News(p) /\ reply.status \in KnownStatuses
    <3> DEFINE row == [state |-> CareOf[reply.status], version |-> reply.version,
                       poller |-> None]
    <3>1. order' = [order EXCEPT ![a] = row] /\ UNCHANGED <<command, action>>
      BY <1>12, <2>3 DEF ApplyStatus
    <3>2. row \in OrderRows
      BY <1>7, <2>2, <2>3 DEF CmmsRows, OrderRows
    <3> HIDE DEF row
    <3>3. QED
      BY <1>0, <2>1, <3>1, <3>2
  <2>4. CASE ~(Polls(p) /\ News(p) /\ reply.status \in KnownStatuses)
    BY <1>0, <1>10, <1>12, <2>1, <2>4 DEF ApplyStatus
  <2>5. QED
    BY <2>3, <2>4
<1> HIDE DEF Typed
<1>13. ASSUME \/ UNCHANGED <<intents, orders>> \/ Round
              \/ \E i \in AlarmIds : DeliverAlarm(i)
       PROVE  Typed
  BY <1>1, <1>13 DEF Round, DeliverAlarm
<1>14. Typed
  BY <1>2, <1>3, <1>5, <1>6, <1>8, <1>9, <1>11, <1>12, <1>13, Writers
<1>15. QED
  BY <1>14 DEF Typed, Accepted

-----------------------------------------------------------------------------
(* The invariant.                                                          *)

LEMMA OrdersStep == OrdersInv /\ [Next]_vars => OrdersInv'
<1> SUFFICES ASSUME OrdersInv, [Next]_vars PROVE OrdersInv'
  OBVIOUS
<1>0. /\ sender \in [Senders -> WorkerStates] /\ poller \in [Pollers -> WorkerStates]
      /\ tab \in [Tabs -> TabStates] /\ \A a \in Alerts : CmmsMoves(a)
  BY CmmsStep DEF OrdersInv, OrderTypes
<1>1. IntentsInv' /\ OneBusy' /\ Vacant'
  BY IntentsStep, BusyStep
<1>2. (\A a \in Alerts : Matched(a) /\ Recorded(a))'
  BY <1>0, MatchedStep, RecordedStep
<1>3. ASSUME NEW v \in Senders
      PROVE  Worker(sender[v])' /\ Heard(sender[v])'
  <2>1. /\ sender[v] \in WorkerStates /\ Worker(sender[v]) /\ Heard(sender[v])
        /\ sender[v].reply.version \in Nat
    BY Fields DEF OrdersInv, Heard
  <2>2. WorkerMoves(sender[v], sender[v])
    BY DEF WorkerMoves
  <2>3. PICK n \in WorkerStates : /\ sender'[v] = n /\ WorkerMoves(sender[v], n) /\ Heard(n)
    BY <1>0, <2>1, <2>2, SenderStep
  <2>4. Worker(n)'
    BY <1>0, <2>1, <2>3, WorkerStep
  <2>5. QED
    BY <2>3, <2>4 DEF Worker, Heard
<1>4. ASSUME NEW v \in Pollers PROVE Worker(poller[v])'
  <2>1. /\ poller[v] \in WorkerStates /\ Worker(poller[v])
        /\ poller[v].reply.version \in Nat
    BY Fields
  <2>2. WorkerMoves(poller[v], poller[v])
    BY DEF WorkerMoves
  <2>3. PICK n \in WorkerStates : poller'[v] = n /\ WorkerMoves(poller[v], n)
    BY <1>0, <2>1, <2>2, PollerStep
  <2>4. Worker(n)'
    BY <1>0, <2>1, <2>3, WorkerStep
  <2>5. QED
    BY <2>3, <2>4 DEF Worker
<1>5. ASSUME NEW v \in Tabs PROVE Page(tab[v])'
  <2>1. tab[v] \in TabStates /\ Page(tab[v])
    BY Fields
  <2>2. PageMoves(tab[v], tab[v])
    BY DEF PageMoves
  <2>3. PICK n \in TabStates : tab'[v] = n /\ PageMoves(tab[v], n)
    BY <1>0, <2>1, <2>2, TabStep
  <2>4. Page(n)'
    BY <2>1, <2>3, PageStep
  <2>5. QED
    BY <2>3, <2>4 DEF Page
<1>6. OrderTypes'
  <2>1. /\ sender' \in [Senders -> WorkerStates] /\ poller' \in [Pollers -> WorkerStates]
        /\ tab' \in [Tabs -> TabStates]
    BY <1>0, SenderStep, PollerStep, TabStep
  <2>2. QED
    BY <2>1, CmmsStep, RowTypes DEF OrderTypes
<1>7. QED
  BY <1>1, <1>2, <1>3, <1>4, <1>5, <1>6 DEF OrdersInv, Heard

LEMMA OrdersHold == Safety => []OrdersInv
BY OrdersInitially, OrdersStep, PTL DEF Safety

-----------------------------------------------------------------------------
\* Every variable keeps its type: the alert versions that workers and pages
\* carry, the attempts of the commands and the versions of the CMMS stay within
\* their bounds (services/maintenance_actions.py, services/closed_loop_delivery.py).
THEOREM OrdersTypeCorrect == Safety => []TypeOK
<1>1. OrdersInv => TypeOK
  BY DEF OrdersInv, IntentsInv, OrderTypes, TypeOK
<1>2. QED
  BY <1>1, OrdersHold, PTL

\* However many pages confirm and however requests, answers and rounds
\* interleave, at most one work order of the risk key is not complete
\* (_create_work_order, SUPPRESSED_ACTIVE_WORK_ORDER).
THEOREM OneOrderAtATime == Safety => []SingleActiveOrder
<1>1. OrdersInv => SingleActiveOrder
  <2> SUFFICES ASSUME OrdersInv PROVE SingleActiveOrder
    OBVIOUS
  <2> DEFINE S == {a \in Alerts : order[a].state \in ActiveOrderStates}
  <2>1. CASE S = {}
    BY <2>1, FS_EmptySet DEF SingleActiveOrder
  <2>2. CASE S # {}
    <3>1. PICK a \in S : S = {a}
      BY <2>2 DEF OrdersInv, OneBusy
    <3>2. Cardinality(S) = 1
      BY <3>1, FS_Singleton
    <3>3. QED
      BY <3>2 DEF SingleActiveOrder
  <2>3. QED
    BY <2>1, <2>2
<1>2. QED
  BY <1>1, OrdersHold, PTL

\* After every transaction the risk row, the alert, the projection and the work
\* order of an episode agree, whoever wrote last
\* (ClosedLoopAcceptanceVerifier, _validate_local_identity).
THEOREM RowsAgree == Safety => []LocallyConsistent
<1>1. OrdersInv => LocallyConsistent
  <2> SUFFICES ASSUME OrdersInv PROVE LocallyConsistent
    OBVIOUS
  <2>1. Truthful /\ risk.active \in BOOLEAN
    BY OneActive DEF OrdersInv, IntentsInv
  <2>2. risk.alert # None => risk.alert \in Alerts
    BY OneActive DEF OrdersInv
  <2>3. \A a \in Alerts : Matched(a)
    BY DEF OrdersInv
  <2>4. QED
    BY <2>1, <2>2, <2>3 DEF LocallyConsistent, Truthful, Matched
<1>2. QED
  BY <1>1, OrdersHold, PTL

\* What is recorded of an order the CMMS said of it, and an order has a version
\* exactly when its command is delivered (save_created_work_order, apply_status).
THEOREM OrdersAreReported == Safety => []RecordedFromCmms
<1>1. OrdersInv => RecordedFromCmms
  <2> SUFFICES ASSUME OrdersInv, NEW a \in Alerts
               PROVE  /\ order[a].version <= cmms[a].version
                      /\ order[a].version > 0 <=> command[a].status = "DELIVERED"
                      /\ order[a].version \in {cmms[a].version} \ {0}
                           => order[a].state = CareOf[cmms[a].status]
    BY DEF RecordedFromCmms
  <2>1. Matched(a) /\ Recorded(a) /\ order[a].version \in Nat
    BY Fields DEF OrdersInv
  <2>2. QED
    BY <2>1 DEF Matched, Recorded
<1>2. QED
  BY <1>1, OrdersHold, PTL

\* Status feedback never goes back: a late or repeated answer of the CMMS
\* changes nothing (apply_status, save_created_work_order).
THEOREM FeedbackIsMonotone == Safety => FeedbackMovesForward
<1>1. ASSUME OrdersInv, [Next]_vars, NEW a \in Alerts
      PROVE  /\ order[a].version <= order'[a].version
             /\ order[a].version > 0 /\ order'[a].state # order[a].state
                  => order[a].version < order'[a].version
  <2>1. Matched(a) /\ order[a].version \in Nat
    BY <1>1, Fields DEF OrdersInv
  <2>2. CASE Created(a) \/ Polled(a)
    BY <1>1, <2>1, <2>2, Tells
  <2>3. CASE Approved(a)
    <3>1. alert[a].care = "PENDING_APPROVAL"
      BY <2>3 DEF Approved, Actionable
    <3>2. order[a].version = 0
      BY <2>1, <3>1 DEF Matched, ReportedStates
    <3>3. order'[a].version = 0
      BY <2>3 DEF Approved, NoOrder
    <3>4. QED
      BY <3>2, <3>3
  <2>4. CASE order'[a].state = order[a].state /\ order'[a].version = order[a].version
    BY <2>1, <2>4
  <2>5. QED
    BY <1>1, <2>2, <2>3, <2>4, RowStep DEF RowMoves, Untouched, Opened, Advanced
<1>2. ASSUME OrdersInv, [Next]_vars PROVE [\A a \in Alerts :
         /\ order[a].version <= order'[a].version
         /\ order[a].version > 0 /\ order'[a].state # order[a].state
              => order[a].version < order'[a].version]_vars
  BY <1>1, <1>2
<1>3. QED
  BY <1>2, OrdersHold, PTL DEF Safety, FeedbackMovesForward

\* A work order is created only for the alert that the approver was shown, as
\* it still is, while the risk is active and no other order is under way
\* (_create_work_order: the expected_version, _require_actionable).
THEOREM ApprovedAsShown == Safety => ApprovalIsCurrent
<1>1. ASSUME OrdersInv, [Next]_vars, NEW a \in Alerts,
             order[a].state = "NONE", order'[a].state # "NONE"
      PROVE  /\ risk.active /\ risk.alert = a
             /\ ~Busy
             /\ \E t \in Tabs : tab[t].wants = "CREATE_WORK_ORDER" /\ tab[t].seen = alert[a]
  <2>1. Approved(a)
    BY <1>1, RowStep, Tells DEF RowMoves, Untouched, Opened, Advanced, ActiveOrderStates
  <2>2. alert[a].risk = "ACTIVE" /\ alert[a].care = "PENDING_APPROVAL"
    BY <2>1 DEF Approved, Actionable
  <2>3. risk.active /\ risk.alert = a /\ ~Busy
    BY <1>1, <2>2, ActionableIsCurrent DEF OrdersInv, Vacant
  <2>4. PICK t \in Tabs : /\ tab[t].wants = "CREATE_WORK_ORDER" /\ tab[t].alert = a
                          /\ tab[t].seen.version = alert[a].version
    BY <2>1 DEF Approved
  <2>5. tab[t].seen = alert[a]
    BY <1>1, <2>4 DEF OrdersInv, Page
  <2>6. QED
    BY <2>3, <2>4, <2>5
<1>2. ASSUME OrdersInv, [Next]_vars PROVE [\A a \in Alerts :
         order[a].state = "NONE" /\ order'[a].state # "NONE" =>
           /\ risk.active /\ risk.alert = a
           /\ ~Busy
           /\ \E t \in Tabs : tab[t].wants = "CREATE_WORK_ORDER" /\ tab[t].seen = alert[a]]_vars
  BY <1>1, <1>2
<1>3. QED
  BY <1>2, OrdersHold, PTL DEF Safety, ApprovalIsCurrent

\* An order gets another version only when a reply is recorded.
LEMMA NewsIsTold ==
  ASSUME OrdersInv, [Next]_vars, NEW a \in Alerts, order'[a].version # order[a].version
  PROVE  Created(a) \/ Polled(a)
<1>1. ~Approved(a)
  <2> SUFFICES ASSUME Approved(a) PROVE FALSE
    OBVIOUS
  <2>1. alert[a].care = "PENDING_APPROVAL" /\ order'[a].version = 0
    BY DEF Approved, Actionable, NoOrder
  <2>2. order[a].version = 0
    BY <2>1, Fields DEF OrdersInv, Matched, ReportedStates
  <2>3. QED
    BY <2>1, <2>2
<1>2. QED
  BY <1>1, RowStep DEF RowMoves, Untouched, Opened, Advanced

\* What the CMMS reports, completion included, leaves the risk and the alarm as
\* they are (TellAlert: save_created_work_order and apply_status).
THEOREM RiskIsTheRoundsAlone == Safety => OrderNewsKeepsRisk
<1>1. ASSUME OrdersInv, [Next]_vars, NEW a \in Alerts, order[a].version # order'[a].version
      PROVE  /\ risk'.active = risk.active
             /\ projection'.desired = projection.desired
             /\ \A b \in Alerts : alert'[b].risk = alert[b].risk
  <2>1. Created(a) \/ Polled(a)
    BY <1>1, NewsIsTold
  <2>2. QED
    BY <2>1 DEF Created, Polled, Told
<1>2. ASSUME OrdersInv, [Next]_vars PROVE [\A a \in Alerts :
         order[a].version # order'[a].version =>
           /\ risk'.active = risk.active
           /\ projection'.desired = projection.desired
           /\ \A b \in Alerts : alert'[b].risk = alert[b].risk]_vars
  BY <1>1, <1>2
<1>3. QED
  BY <1>2, OrdersHold, PTL DEF Safety, OrderNewsKeepsRisk
-----------------------------------------------------------------------------
(* The refinement of OrderBook.                                            *)

\* Without an order an alert waits for approval, or never gets one.
Unordered(a) == alert[a].risk # "ABSENT" /\ order[a].state = "NONE" =>
                  alert[a].care \in {"PENDING_APPROVAL", "SUPPRESSED_ACTIVE_WORK_ORDER"}

BookInv == OrdersInv /\ \A a \in Alerts : Unordered(a)

\* The variables of the book.
BookCurrent == IF risk.active THEN risk.alert ELSE None
BookCares == [a \in Alerts |-> BookCare(a)]
BookHeard == [a \in Alerts |-> order[a].version]

SameEntry(a) == BookCare(a)' = BookCare(a) /\ order'[a].version = order[a].version

LEMMA BookHolds == Safety => []BookInv
<1>1. Init => BookInv
  <2> SUFFICES ASSUME Init PROVE BookInv
    OBVIOUS
  <2>1. \A a \in Alerts : alert[a].risk = "ABSENT"
    BY DEF Init, IntentsInit, NoAlert
  <2>2. QED
    BY <2>1, OrdersInitially DEF BookInv, Unordered
<1>2. BookInv /\ [Next]_vars => BookInv'
  <2> SUFFICES ASSUME BookInv, [Next]_vars PROVE BookInv'
    OBVIOUS
  <2>1. OrdersInv /\ OrdersInv'
    BY OrdersStep DEF BookInv
  <2>2. ASSUME NEW a \in Alerts PROVE Unordered(a)'
    <3>1. RowMoves(a) /\ Matched(a) /\ Unordered(a)
      BY <2>1, RowStep DEF BookInv, OrdersInv
    <3>2. CASE Opened(a)
      BY <3>2 DEF Opened, Unordered
    <3>3. CASE Approved(a) \/ Created(a) \/ Polled(a)
      BY <2>1, <3>3, Tells DEF Approved, NoOrder, Unordered, ReportedStates
    <3>4. CASE Untouched(a) \/ Advanced(a)
      BY <3>1, <3>4 DEF Untouched, Advanced, Unordered
    <3>5. QED
      BY <3>1, <3>2, <3>3, <3>4 DEF RowMoves
  <2>3. QED
    BY <2>1, <2>2 DEF BookInv
<1>3. QED
  BY <1>1, <1>2, PTL DEF Safety

\* What stands in the book of an alert.
LEMMA BookEntries ==
  ASSUME BookInv, NEW a \in Alerts
  PROVE  /\ order[a].state # "NONE" =>
              BookCare(a) = IF command[a].status = "DEAD_LETTER" THEN "GIVEN_UP"
                            ELSE order[a].state
         /\ order[a].state = "NONE" =>
              BookCare(a) = IF alert[a].risk = "ABSENT" THEN "ABSENT" ELSE alert[a].care
         /\ BookCare(a) \notin {"ABSENT", "PENDING_APPROVAL", "SUPPRESSED_ACTIVE_WORK_ORDER"}
              <=> order[a].state # "NONE"
         /\ command[a].status # "DELIVERED" /\ order[a].state # "NONE" =>
              order[a].state = "WORK_ORDER_CREATING" /\ order[a].version = 0
         /\ order[a].state \in {"NONE", "WORK_ORDER_CREATING"} \cup ReportedStates
<1>1. Matched(a) /\ Unordered(a) /\ order[a].version \in Nat
  BY Fields DEF BookInv, OrdersInv
<1>2. QED
  BY <1>1 DEF Matched, Unordered, BookCare, ReportedStates

LEMMA UnderWayIsBusy == ASSUME BookInv PROVE Book!UnderWay <=> Busy
<1>1. ASSUME NEW a \in Alerts
      PROVE  /\ BookCares[a] = BookCare(a)
             /\ Book!Ordered(a) /\ BookCares[a] # "WORK_ORDER_COMPLETE"
                  <=> order[a].state \in ActiveOrderStates
  <2>1. BookCares[a] = BookCare(a)
    BY DEF BookCares
  <2>2. Book!Ordered(a) <=> order[a].state # "NONE"
    BY BookEntries DEF Book!Ordered
  <2>3. BookCare(a) = "WORK_ORDER_COMPLETE" /\ order[a].state # "NONE"
          <=> order[a].state = "WORK_ORDER_COMPLETE"
    BY BookEntries DEF ReportedStates
  <2>4. QED
    BY <2>1, <2>2, <2>3, BookEntries DEF ReportedStates, ActiveOrderStates
<1>2. QED
  BY <1>1 DEF Book!UnderWay, Busy, BookCares

LEMMA SameRow ==
  ASSUME NEW a \in Alerts,
         alert'[a].risk = "ABSENT" <=> alert[a].risk = "ABSENT",
         alert'[a].care = alert[a].care,
         command'[a].status = "DEAD_LETTER" <=> command[a].status = "DEAD_LETTER",
         order'[a].version = order[a].version
  PROVE  SameEntry(a)
BY DEF SameEntry, BookCare

LEMMA BookRests ==
  ASSUME \A a \in Alerts : SameEntry(a), UNCHANGED cmms, BookCurrent' = BookCurrent
  PROVE  UNCHANGED Book!book
BY DEF SameEntry, BookCurrent, Book!book

\* One entry of the book changes.
LEMMA OneEntry ==
  ASSUME NEW b \in Alerts, \A a \in Alerts \ {b} : SameEntry(a)
  PROVE  /\ BookCares' = [BookCares EXCEPT ![b] = BookCare(b)']
         /\ BookHeard' = [BookHeard EXCEPT ![b] = order'[b].version]
<1>1. \A a \in Alerts : BookCare(a)' = IF a = b THEN BookCare(b)' ELSE BookCare(a)
  BY DEF SameEntry
<1>2. \A a \in Alerts : order'[a].version = IF a = b THEN order'[b].version
                                                     ELSE order[a].version
  BY DEF SameEntry
<1>3. QED
  BY <1>1, <1>2 DEF BookCares, BookHeard
LEMMA RoundInBook ==
  ASSUME BookInv, NEW b \in Alerts, UNCHANGED <<order, command, cmms>>
  PROVE  /\ Raise(b, Busy) => Book!Begin(b)
         /\ Continue(b) => UNCHANGED Book!book
         /\ Clear(b) \/ CloseAlert(b) => Book!End
<1>1. /\ alert \in [Alerts -> AlertRows] /\ alert[b] \in AlertRows
      /\ risk \in [active : BOOLEAN, alert : Alerts \cup {None}, version : 0..MaxVersion]
      /\ b # None
  BY Fields, OneActive, NullAssumption DEF BookInv, OrdersInv
<1>2. ASSUME Raise(b, Busy) PROVE Book!Begin(b)
  <2>1. /\ alert[b].risk = "ABSENT" /\ BookCurrent = None /\ BookCurrent' = b
    BY <1>2 DEF Raise, NextEpisode, BookCurrent
  <2>2. /\ alert'[b].risk = "ACTIVE"
        /\ alert'[b].care = IF Busy THEN "SUPPRESSED_ACTIVE_WORK_ORDER" ELSE "PENDING_APPROVAL"
    BY <1>1, <1>2 DEF Raise
  <2>3. command[b].status = "ABSENT" /\ BookCare(b) = "ABSENT"
    BY <2>1, BookEntries DEF BookInv, OrdersInv, Matched, BookCare
  <2>4. BookCare(b)' = IF Book!UnderWay THEN "SUPPRESSED_ACTIVE_WORK_ORDER"
                                        ELSE "PENDING_APPROVAL"
    BY <2>2, <2>3, UnderWayIsBusy DEF BookCare
  <2>5. \A a \in Alerts \ {b} : SameEntry(a)
    BY <1>1, <1>2 DEF Raise, SameEntry, BookCare
  <2>6. /\ BookCares' = [BookCares EXCEPT ![b] = BookCare(b)']
        /\ BookHeard' = BookHeard /\ BookCares[b] = "ABSENT"
    BY <2>3, <2>5, OneEntry DEF BookCares, BookHeard
  <2>7. QED
    BY <2>1, <2>4, <2>6 DEF Book!Begin, BookCurrent, BookCares, BookHeard
<1>3. ASSUME Continue(b) \/ Clear(b) \/ CloseAlert(b)
      PROVE  alert[b].risk = "ACTIVE" /\ BookCurrent = b /\ \A a \in Alerts : SameEntry(a)
  <2>1. alert[b].risk = "ACTIVE" /\ risk.active /\ risk.alert = b
    BY <1>3 DEF Continue, Clear, CloseAlert, BookInv, OrdersInv, IntentsInv, Truthful
  <2>2. PICK r : /\ alert' = [alert EXCEPT ![b] = r]
                 /\ \/ r = [alert[b] EXCEPT !.version = @ + 1, !.run = risk.version + 1]
                    \/ r = [alert[b] EXCEPT !.risk = "CLEARED", !.version = @ + 1,
                                            !.run = risk.version + 1]
                    \/ r = [alert[b] EXCEPT !.risk = "MANUALLY_CLOSED", !.allowed = FALSE,
                                            !.version = @ + 1]
    BY <1>3 DEF Continue, Clear, CloseAlert
  <2>3. alert'[b].risk # "ABSENT" /\ alert'[b].care = alert[b].care
    <3>1. alert[b] \in AlertRows
      BY <1>1
    <3>2. CASE r = [alert[b] EXCEPT !.version = @ + 1, !.run = risk.version + 1]
      BY <1>1, <2>1, <2>2, <3>1, <3>2 DEF AlertRows
    <3>3. CASE r = [alert[b] EXCEPT !.risk = "CLEARED", !.version = @ + 1,
                                    !.run = risk.version + 1]
      BY <1>1, <2>1, <2>2, <3>1, <3>3 DEF AlertRows
    <3>4. CASE r = [alert[b] EXCEPT !.risk = "MANUALLY_CLOSED", !.allowed = FALSE,
                                    !.version = @ + 1]
      BY <1>1, <2>1, <2>2, <3>1, <3>4 DEF AlertRows
    <3>5. QED
      BY <2>2, <3>2, <3>3, <3>4
  <2>4. SameEntry(b)
    BY <2>1, <2>3, SameRow
  <2>5. \A a \in Alerts \ {b} : SameEntry(a)
    BY <1>1, <2>2 DEF SameEntry, BookCare
  <2>6. QED
    BY <2>1, <2>4, <2>5 DEF BookCurrent
<1>4. ASSUME Continue(b) PROVE UNCHANGED Book!book
  <2>1. risk'.active /\ risk'.alert = b
    BY <1>1, <1>4 DEF Continue
  <2>2. QED
    BY <1>3, <1>4, <2>1, BookRests DEF BookCurrent
<1>5. ASSUME Clear(b) \/ CloseAlert(b) PROVE Book!End
  <2>1. ~risk'.active
    BY <1>1, <1>5 DEF Clear, CloseAlert
  <2>2. BookCurrent = b /\ BookCurrent' = None
    BY <1>3, <1>5, <2>1 DEF BookCurrent
  <2>3. BookCares' = BookCares /\ BookHeard' = BookHeard
    BY <1>3, <1>5 DEF SameEntry, BookCares, BookHeard
  <2>4. QED
    BY <1>1, <2>2, <2>3 DEF Book!End, BookCurrent, BookCares, BookHeard
<1>6. QED
  BY <1>2, <1>4, <1>5

LEMMA ApprovalInBook ==
  ASSUME BookInv, NEW t \in Tabs, NEW lost \in BOOLEAN, CreateOrder(t, lost)
  PROVE  \E a \in Alerts : Book!Approve(a)
<1>0. PICK b \in Alerts : b = tab[t].alert
  BY Fields DEF CreateOrder, OrderAlert, BookInv
<1>1. /\ alert[b] \in AlertRows /\ alert \in [Alerts -> AlertRows]
      /\ order \in [Alerts -> OrderRows] /\ command \in [Alerts -> Commands]
      /\ risk \in [active : BOOLEAN, alert : Alerts \cup {None}, version : 0..MaxVersion]
  BY Fields, OneActive DEF BookInv, OrdersInv
<1>2. /\ order' = [order EXCEPT ![b] = [NoOrder EXCEPT !.state = "WORK_ORDER_CREATING"]]
      /\ command' = [command EXCEPT ![b] = [NoCommand EXCEPT !.status = "PENDING"]]
      /\ alert' = [alert EXCEPT ![b] = [alert[b] EXCEPT !.care = "WORK_ORDER_CREATING",
                                                        !.allowed = FALSE,
                                                        !.version = @ + 1]]
      /\ alert[b].risk = "ACTIVE" /\ alert[b].care = "PENDING_APPROVAL"
      /\ risk' = [risk EXCEPT !.version = @ + 1] /\ UNCHANGED cmms
  BY <1>0 DEF CreateOrder, OrderAlert, Actionable
<1>3. BookCurrent = b /\ BookCurrent' = b
  BY <1>1, <1>2, ActionableIsCurrent DEF BookInv, BookCurrent
<1>4. /\ alert'[b].risk = "ACTIVE" /\ alert'[b].care = "WORK_ORDER_CREATING"
      /\ command'[b].status = "PENDING" /\ order'[b].version = 0
  BY <1>1, <1>2, Constants DEF AlertRows, NoCommand, NoOrder
<1>5. \A a \in Alerts \ {b} : SameEntry(a)
  BY <1>1, <1>2 DEF SameEntry, BookCare
<1>6. order[b].state = "NONE" /\ order[b].version = 0
  BY <1>1, <1>2, Fields DEF BookInv, OrdersInv, Matched, ReportedStates
<1>7. BookCare(b) = "PENDING_APPROVAL" /\ BookCare(b)' = "WORK_ORDER_CREATING"
  <2>1. command[b].status = "ABSENT"
    BY <1>1, <1>6 DEF BookInv, OrdersInv, Matched
  <2>2. QED
    BY <1>2, <1>4, <2>1 DEF BookCare
<1>8. ~Book!UnderWay
  BY <1>1, <1>2, UnderWayIsBusy DEF BookInv, OrdersInv, Vacant
<1>9. /\ BookCares' = [BookCares EXCEPT ![b] = "WORK_ORDER_CREATING"]
      /\ BookCares[b] = "PENDING_APPROVAL"
  <2>1. BookCares' = [BookCares EXCEPT ![b] = BookCare(b)']
    BY <1>1, <1>5, OneEntry
  <2>2. BookCares[b] = BookCare(b)
    BY <1>1 DEF BookCares
  <2>3. QED
    BY <1>7, <2>1, <2>2
<1>10. BookHeard' = BookHeard
  BY <1>1, <1>4, <1>5, <1>6 DEF BookHeard, SameEntry
<1>11. Book!Approve(b)
  BY <1>2, <1>3, <1>8, <1>9, <1>10 DEF Book!Approve, BookCurrent, BookCares, BookHeard
<1>12. QED
  BY <1>11

\* A command that failed is tried again, or given up.
LEMMA FailureInBook ==
  ASSUME BookInv, NEW w \in Senders, NEW status \in {"DEAD_LETTER", "RETRY_WAIT"},
         sender[w].pc # "idle", FinishCommand(w, status), UNCHANGED <<intents, order, cmms>>
  PROVE  UNCHANGED Book!book \/ \E a \in Alerts : Book!GiveUp(a)
<1>0. PICK b \in Alerts : b = sender[w].alert
  BY Fields DEF BookInv
<1>1. /\ command \in [Alerts -> Commands]
      /\ BookCurrent' = BookCurrent /\ alert' = alert
  BY Fields DEF BookInv, intents, BookCurrent
<1>2. CASE command' = command
  BY <1>1, <1>2, BookRests DEF SameEntry, BookCare
<1>3. CASE Mine(w)
  <2>1. /\ command' = [command EXCEPT ![b].status = status, ![b].owner = None]
        /\ command[b].status = "IN_FLIGHT" /\ command[b] \in Commands
    BY <1>0, <1>1, <1>3 DEF FinishCommand, Mine
  <2>2. /\ command'[b].status = status
        /\ \A a \in Alerts \ {b} : command'[a] = command[a]
    BY <1>1, <2>1 DEF Commands
  <2>3. \A a \in Alerts \ {b} : SameEntry(a)
    BY <1>1, <2>2, SameRow
  <2>4. CASE status = "RETRY_WAIT"
    <3>1. SameEntry(b)
      BY <1>1, <2>1, <2>2, <2>4, SameRow
    <3>2. QED
      BY <1>1, <2>3, <3>1, BookRests
  <2>5. CASE status = "DEAD_LETTER"
    <3>1. order[b].state # "NONE" /\ alert[b].risk # "ABSENT"
      BY <1>1, <2>1 DEF BookInv, OrdersInv, Matched
    <3>2. BookCare(b) = "WORK_ORDER_CREATING"
      BY <1>1, <2>1, <3>1, BookEntries
    <3>3. BookCare(b)' = "GIVEN_UP"
      BY <1>1, <2>2, <2>5, <3>1 DEF BookCare
    <3>4. /\ BookCares' = [BookCares EXCEPT ![b] = "GIVEN_UP"]
          /\ BookCares[b] = "WORK_ORDER_CREATING" /\ BookHeard' = BookHeard
      <4>1. BookCares' = [BookCares EXCEPT ![b] = BookCare(b)']
        BY <1>1, <2>3, OneEntry
      <4>2. BookCares[b] = BookCare(b)
        BY <1>1 DEF BookCares
      <4>3. BookHeard' = BookHeard
        BY DEF BookHeard
      <4>4. QED
        BY <3>2, <3>3, <4>1, <4>2, <4>3
    <3>5. Book!GiveUp(b)
      BY <1>1, <3>4 DEF Book!GiveUp, BookCurrent, BookCares, BookHeard
    <3>6. QED
      BY <1>1, <3>5
  <2>6. QED
    BY <2>4, <2>5
<1>4. QED
  BY <1>2, <1>3 DEF FinishCommand

LEMMA RecordIsNext ==
  ASSUME NEW b \in Alerts, NEW v \in (BookHeard[b] + 1)..cmms[b].version,
         NEW s \in Book!Reported, Book!Record(b, v, s)
  PROVE  Book!BookNext
BY DEF Book!BookNext, BookHeard

\* A reply is recorded.
LEMMA ReplyInBook ==
  ASSUME BookInv, NEW b \in Alerts, Created(b) \/ Polled(b),
         \A a \in Alerts \ {b} : SameEntry(a), BookCurrent' = BookCurrent
  PROVE  Book!BookNext
<1>0. PICK version, state : version = order'[b].version /\ state = order'[b].state
  OBVIOUS
<1>1. /\ order[b].state \in ActiveOrderStates /\ command[b].status # "DEAD_LETTER"
      /\ order[b].version < version /\ version <= cmms[b].version /\ version \in Nat
      /\ version = cmms[b].version =>
           cmms[b].status \in KnownStatuses /\ state = CareOf[cmms[b].status]
      /\ \E s \in KnownStatuses : state = CareOf[s]
      /\ alert'[b].care = state /\ alert'[b].risk = alert[b].risk
      /\ command'[b].status = "DELIVERED" /\ UNCHANGED cmms
  BY <1>0, Tells DEF BookInv
<1>2. order[b].state # "NONE" /\ alert[b].risk # "ABSENT"
  BY <1>1 DEF BookInv, OrdersInv, Matched, ActiveOrderStates
<1>3. /\ BookCare(b) = order[b].state /\ BookCare(b)' = state
      /\ BookCare(b) \notin {"ABSENT", "PENDING_APPROVAL", "SUPPRESSED_ACTIVE_WORK_ORDER",
                             "GIVEN_UP", "WORK_ORDER_COMPLETE"}
  BY <1>1, <1>2, BookEntries DEF BookCare, ActiveOrderStates
<1>4. state \in Book!Reported
  BY <1>1 DEF Book!Reported, KnownStatuses
<1>5. /\ BookCares' = [BookCares EXCEPT ![b] = state]
      /\ BookHeard' = [BookHeard EXCEPT ![b] = version]
  BY <1>0, <1>3, OneEntry
<1>6. BookCares[b] = BookCare(b) /\ BookHeard[b] = order[b].version
  BY DEF BookCares, BookHeard
<1>7. Book!Ordered(b) /\ BookCares[b] \notin {"GIVEN_UP", "WORK_ORDER_COMPLETE"}
  BY <1>3, <1>6 DEF Book!Ordered, BookCares
<1>8. Book!Record(b, version, state)
  BY <1>1, <1>5, <1>6, <1>7
     DEF Book!Record, KnownStatuses, BookCurrent, BookCares, BookHeard
<1>9. version \in (BookHeard[b] + 1)..cmms[b].version
  BY <1>1, <1>6, Fields DEF BookInv
<1>10. QED
  BY <1>4, <1>8, <1>9, RecordIsNext
\* The steps that leave the book as it is: leases, reads, and what only the
\* alarm side sees.
LEMMA QuietInBook ==
  ASSUME BookInv, UNCHANGED cmms, UNCHANGED risk, UNCHANGED alert,
         \A a \in Alerts : /\ order'[a].version = order[a].version
                           /\ command'[a].status = "DEAD_LETTER"
                                <=> command[a].status = "DEAD_LETTER"
  PROVE  UNCHANGED Book!book
<1>1. \A a \in Alerts : SameEntry(a)
  BY SameRow
<1>2. QED
  BY <1>1, BookRests DEF BookCurrent

LEMMA ClaimInBook ==
  ASSUME BookInv, NEW w \in Senders, ClaimCommand(w)
  PROVE  UNCHANGED Book!book
<1>1. command \in [Alerts -> Commands]
  BY Fields DEF BookInv
<1>2. PICK S \in SUBSET InFlight :
        LET freed == [c \in Alerts |->
                        IF c \in S THEN [command[c] EXCEPT !.status = "RETRY_WAIT",
                                                           !.owner = None]
                        ELSE command[c]]
        IN \/ command' = freed
           \/ \E b \in Due(freed) :
                command' = [freed EXCEPT ![b] = [status |-> "IN_FLIGHT", owner |-> w,
                                                 attempt |-> @.attempt + 1]]
  BY DEF ClaimCommand
<1> DEFINE freed == [c \in Alerts |->
                       IF c \in S THEN [command[c] EXCEPT !.status = "RETRY_WAIT",
                                                          !.owner = None]
                       ELSE command[c]]
<1>3. ASSUME NEW a \in Alerts
      PROVE  freed[a].status = "DEAD_LETTER" <=> command[a].status = "DEAD_LETTER"
  <2>1. CASE a \in S
    <3>1. freed[a] = [command[a] EXCEPT !.status = "RETRY_WAIT", !.owner = None]
      BY <2>1
    <3>2. command[a].status = "IN_FLIGHT" /\ command[a] \in Commands
      BY <1>1, <2>1 DEF InFlight
    <3> HIDE DEF freed
    <3>3. QED
      BY <3>1, <3>2 DEF Commands
  <2>2. CASE a \notin S
    BY <2>2
  <2>3. QED
    BY <2>1, <2>2
<1>4. ASSUME NEW a \in Alerts
      PROVE  command'[a].status = "DEAD_LETTER" <=> command[a].status = "DEAD_LETTER"
  <2>1. CASE command' = freed
    BY <1>3, <2>1
  <2>2. ASSUME NEW b \in Due(freed),
               command' = [freed EXCEPT ![b] = [status |-> "IN_FLIGHT", owner |-> w,
                                                attempt |-> @.attempt + 1]]
        PROVE  command'[a].status = "DEAD_LETTER" <=> command[a].status = "DEAD_LETTER"
    <3>1. b \in Alerts /\ freed[b].status \in Waiting
      BY DEF Due
    <3>2. a # b => command'[a] = freed[a]
      BY <2>2
    <3>3. a = b => command'[a].status = "IN_FLIGHT"
      BY <2>2
    <3> HIDE DEF freed
    <3>4. QED
      BY <1>3, <3>1, <3>2, <3>3 DEF Waiting
  <2>3. QED
    BY <1>2, <2>1, <2>2
<1>5. order' = order /\ UNCHANGED cmms /\ UNCHANGED risk /\ UNCHANGED alert
  BY DEF ClaimCommand, intents
<1>6. QED
  BY <1>4, <1>5, QuietInBook

LEMMA LeaseInBook ==
  ASSUME BookInv, NEW p \in Pollers,
         \/ ClaimPoll(p)
         \/ /\ order' = Release(p) /\ poller[p].alert \in Alerts
            /\ UNCHANGED <<risk, alert, command, cmms>>
  PROVE  UNCHANGED Book!book
<1>1. order \in [Alerts -> OrderRows]
  BY Fields DEF BookInv
<1>2. UNCHANGED command /\ UNCHANGED cmms /\ UNCHANGED risk /\ UNCHANGED alert
  BY DEF ClaimPoll, intents
<1>3. CASE order' = Release(p) /\ poller[p].alert \in Alerts
  <2>1. \A a \in Alerts :
          order'[a] = IF a = poller[p].alert
                      THEN [order[a] EXCEPT !.poller = IF @ = p THEN None ELSE @]
                      ELSE order[a]
    BY <1>1, <1>3 DEF Release
  <2>2. \A a \in Alerts : order'[a].version = order[a].version
    BY <1>1, <2>1 DEF OrderRows
  <2>3. QED
    BY <1>2, <2>2, QuietInBook
<1>4. CASE ClaimPoll(p)
  <2>1. PICK S \in SUBSET {c \in Alerts : order[c].poller # None} :
          LET freed == [c \in Alerts |-> IF c \in S THEN [order[c] EXCEPT !.poller = None]
                                         ELSE order[c]]
          IN \/ order' = freed
             \/ \E b \in Alerts : order' = [freed EXCEPT ![b].poller = p]
    BY <1>4 DEF ClaimPoll
  <2> DEFINE freed == [c \in Alerts |-> IF c \in S THEN [order[c] EXCEPT !.poller = None]
                                        ELSE order[c]]
  <2>2. ASSUME NEW a \in Alerts
        PROVE  freed[a] \in OrderRows /\ freed[a].version = order[a].version
    <3>1. freed[a] = IF a \in S THEN [order[a] EXCEPT !.poller = None] ELSE order[a]
      OBVIOUS
    <3> HIDE DEF freed
    <3>2. QED
      BY <1>1, <3>1 DEF OrderRows
  <2>3. ASSUME NEW a \in Alerts PROVE order'[a].version = order[a].version
    <3>1. CASE order' = freed
      BY <2>2, <3>1
    <3>2. ASSUME NEW b \in Alerts, order' = [freed EXCEPT ![b].poller = p]
          PROVE  order'[a].version = order[a].version
      <4>1. order'[a] = IF a = b THEN [freed[a] EXCEPT !.poller = p] ELSE freed[a]
        BY <3>2
      <4> HIDE DEF freed
      <4>2. QED
        BY <2>2, <4>1 DEF OrderRows
    <3>3. QED
      BY <2>1, <3>1, <3>2
  <2>4. QED
    BY <1>2, <2>3, QuietInBook
<1>5. QED
  BY <1>3, <1>4
LEMMA SaveInBook ==
  ASSUME BookInv, [Next]_vars, NEW w \in Senders, SaveOrder(w)
  PROVE  [Book!BookNext]_(Book!book)
<1>0. PICK b \in Alerts : b = sender[w].alert
  BY Fields DEF BookInv, SaveOrder
<1>1. /\ order \in [Alerts -> OrderRows] /\ command \in [Alerts -> Commands]
      /\ order[b] \in OrderRows /\ sender[w].pc = "seen" /\ sender[w].reply.version \in Nat
      /\ sender[w].reply.version > 0
  BY Fields DEF BookInv, OrdersInv, SaveOrder
<1>2. CASE Mine(w) /\ sender[w].reply.status \in KnownStatuses
  <2>0. PICK seen \in AlertRows, care \in ReportedStates :
          seen = sender[w].seen /\ care = CareOf[sender[w].reply.status]
    BY <1>2, CareRange, Fields DEF BookInv, WorkerStates
  <2>1. /\ order' = [order EXCEPT ![b].state = care, ![b].version = sender[w].reply.version]
        /\ TellAlert(b, seen, care)
        /\ command' = [command EXCEPT ![b].status = "DELIVERED", ![b].owner = None]
        /\ command[b].status = "IN_FLIGHT"
    BY <1>0, <1>2, <2>0 DEF SaveOrder, FinishCommand, Mine
  <2>2. b = risk.alert => seen.version <= risk.version
    BY <1>0, <1>1, <2>0, Fields DEF BookInv, Worker
  <2>3. /\ \A a \in Alerts : a # b => alert'[a] = alert[a]
        /\ BookCurrent' = BookCurrent
    BY <2>1, <2>2, Hearing DEF BookInv, BookCurrent
  <2>4. \A a \in Alerts \ {b} : SameEntry(a)
    BY <1>1, <2>1, <2>3 DEF SameEntry, BookCare
  <2>5. order[b].version = 0 /\ order'[b].version > 0
    <3>1. order'[b].version = sender[w].reply.version
      BY <1>1, <2>1 DEF OrderRows
    <3>2. order[b].version = 0
      BY <2>1, Fields DEF BookInv, OrdersInv, Matched
    <3>3. QED
      BY <1>1, <3>1, <3>2
  <2>6. Created(b) \/ Polled(b)
    BY <2>5, NewsIsTold DEF BookInv
  <2>7. QED
    BY <2>3, <2>4, <2>6, ReplyInBook
<1>3. CASE ~(Mine(w) /\ sender[w].reply.status \in KnownStatuses)
  <2>1. FinishCommand(w, "DEAD_LETTER") /\ UNCHANGED <<intents, order, cmms>>
    BY <1>3 DEF SaveOrder
  <2>2. UNCHANGED Book!book \/ \E a \in Alerts : Book!GiveUp(a)
    BY <1>1, <2>1, FailureInBook
  <2>3. QED
    BY <2>2 DEF Book!BookNext
<1>4. QED
  BY <1>2, <1>3

LEMMA ApplyInBook ==
  ASSUME BookInv, [Next]_vars, NEW p \in Pollers, ApplyStatus(p)
  PROVE  [Book!BookNext]_(Book!book)
<1>0. PICK b \in Alerts : b = poller[p].alert
  BY Fields DEF BookInv, ApplyStatus
<1>1. /\ order \in [Alerts -> OrderRows]
      /\ order[b] \in OrderRows /\ poller[p].pc = "seen" /\ poller[p].reply.version \in Nat
      /\ UNCHANGED command /\ UNCHANGED cmms
  BY Fields DEF BookInv, ApplyStatus
<1>2. CASE Polls(p) /\ News(p) /\ poller[p].reply.status \in KnownStatuses
  <2>0. PICK seen \in AlertRows, care \in ReportedStates :
          seen = poller[p].seen /\ care = CareOf[poller[p].reply.status]
    BY <1>2, CareRange, Fields DEF BookInv, WorkerStates
  <2>1. /\ order' = [order EXCEPT ![b] = [state |-> care,
                                          version |-> poller[p].reply.version,
                                          poller |-> None]]
        /\ TellAlert(b, seen, care)
    BY <1>0, <1>2, <2>0 DEF ApplyStatus
  <2>2. b = risk.alert => seen.version <= risk.version
    BY <1>0, <1>1, <2>0, Fields DEF BookInv, Worker
  <2>3. /\ \A a \in Alerts : a # b => alert'[a] = alert[a]
        /\ BookCurrent' = BookCurrent
    BY <2>1, <2>2, Hearing DEF BookInv, BookCurrent
  <2>4. \A a \in Alerts \ {b} : SameEntry(a)
    BY <1>1, <2>1, <2>3 DEF SameEntry, BookCare
  <2>5. order'[b].version # order[b].version
    <3>1. order'[b].version = poller[p].reply.version
      BY <1>1, <2>1
    <3>2. order[b].version < poller[p].reply.version /\ order[b].version \in Nat
      BY <1>0, <1>2, Fields DEF BookInv, News
    <3>3. QED
      BY <1>1, <3>1, <3>2
  <2>6. Created(b) \/ Polled(b)
    BY <2>5, NewsIsTold DEF BookInv
  <2>7. QED
    BY <2>3, <2>4, <2>6, ReplyInBook
<1>3. CASE ~(Polls(p) /\ News(p) /\ poller[p].reply.status \in KnownStatuses)
  <2>1. order' = Release(p) /\ UNCHANGED <<risk, alert, command, cmms>>
    BY <1>1, <1>3 DEF ApplyStatus, intents
  <2>2. QED
    BY <1>0, <2>1, LeaseInBook
<1>4. QED
  BY <1>2, <1>3

LEMMA PostInBook ==
  ASSUME BookInv, NEW w \in Senders, NEW answered \in BOOLEAN, PostOrder(w, answered)
  PROVE  UNCHANGED Book!book \/ \E a \in Alerts : Book!Post(a)
<1>0. PICK b \in Alerts : b = sender[w].alert
  BY Fields DEF BookInv, PostOrder
<1>1. UNCHANGED <<risk, alert, order, command>>
  BY DEF PostOrder, intents, orders
<1>2. BookCurrent' = BookCurrent /\ BookCares' = BookCares /\ BookHeard' = BookHeard
  BY <1>1 DEF BookCurrent, BookCares, BookHeard, BookCare
<1>3. CASE cmms[b].version = 0
  <2>1. cmms' = [cmms EXCEPT ![b] = [version |-> 1, status |-> "OPEN"]]
    BY <1>0, <1>3 DEF PostOrder
  <2>2. order[b].state # "NONE"
    BY <1>0 DEF PostOrder, BookInv, OrdersInv, Worker
  <2>3. Book!Ordered(b)
    BY <2>2, BookEntries DEF Book!Ordered
  <2>4. Book!Post(b)
    BY <1>2, <1>3, <2>1, <2>3 DEF Book!Post, BookCurrent, BookCares, BookHeard
  <2>5. QED
    BY <2>4
<1>4. CASE cmms[b].version # 0
  <2>1. cmms' = cmms
    BY <1>0, <1>4 DEF PostOrder
  <2>2. QED
    BY <1>1, <2>1, QuietInBook
<1>5. QED
  BY <1>3, <1>4

LEMMA ProgressInBook ==
  ASSUME BookInv, NEW b \in Alerts, NEW status \in CmmsStatuses, CmmsProgress(b, status)
  PROVE  Book!Progress(b, status)
<1>1. UNCHANGED <<risk, alert, order, command>>
  BY DEF CmmsProgress, intents, orders
<1>2. BookCurrent' = BookCurrent /\ BookCares' = BookCares /\ BookHeard' = BookHeard
  BY <1>1 DEF BookCurrent, BookCares, BookHeard, BookCare
<1>3. /\ cmms[b].version > 0
      /\ cmms' = [cmms EXCEPT ![b] = [version |-> @.version + 1, status |-> status]]
  BY CmmsAssumption DEF CmmsProgress
<1>4. QED
  BY <1>2, <1>3 DEF Book!Progress, BookCurrent, BookCares, BookHeard

LEMMA BookStep == BookInv /\ [Next]_vars => [Book!BookNext]_(Book!book)
<1> SUFFICES ASSUME BookInv, [Next]_vars PROVE [Book!BookNext]_(Book!book)
  OBVIOUS
<1>1. CASE UNCHANGED <<risk, alert, order, command, cmms>>
  BY <1>1, QuietInBook
<1>2. CASE Round
  <2>1. UNCHANGED <<order, command, cmms>>
    BY <1>2 DEF Round, orders
  <2>2. CASE ClearUnalerted
    <3>1. risk' = [risk EXCEPT !.active = FALSE] /\ risk.alert = None /\ alert' = alert
      BY <2>2 DEF ClearUnalerted
    <3>2. risk'.alert = None
      BY <3>1, OneActive DEF BookInv, OrdersInv
    <3>3. BookCurrent' = BookCurrent
      BY <3>1, <3>2 DEF BookCurrent
    <3>4. QED
      BY <2>1, <3>1, <3>3, BookRests DEF SameEntry, BookCare
  <2>3. ASSUME NEW b \in Alerts, Raise(b, Busy) \/ Continue(b) \/ Clear(b)
        PROVE  [Book!BookNext]_(Book!book)
    BY <2>1, <2>3, RoundInBook DEF Book!BookNext
  <2>4. QED
    BY <1>2, <2>2, <2>3 DEF Round
<1>3. ASSUME NEW t \in Tabs, NEW lost \in BOOLEAN, CreateOrder(t, lost)
      PROVE  [Book!BookNext]_(Book!book)
  BY <1>3, ApprovalInBook DEF Book!BookNext
<1>4. ASSUME NEW t \in Tabs, NEW lost \in BOOLEAN, CloseRisk(t, lost)
      PROVE  [Book!BookNext]_(Book!book)
  <2>1. PICK b \in Alerts : b = tab[t].alert
    BY <1>4, Fields DEF BookInv, CloseRisk
  <2>2. CloseAlert(b) /\ UNCHANGED <<order, command, cmms>>
    BY <1>4, <2>1 DEF CloseRisk
  <2>3. Book!End
    BY <2>2, RoundInBook
  <2>4. QED
    BY <2>3 DEF Book!BookNext
<1>5. ASSUME NEW w \in Senders, ClaimCommand(w) PROVE [Book!BookNext]_(Book!book)
  BY <1>5, ClaimInBook
<1>6. ASSUME NEW w \in Senders, RejectIdentity(w) \/ RetryCommand(w)
      PROVE  [Book!BookNext]_(Book!book)
  <2>1. sender[w].pc # "idle" /\ UNCHANGED <<intents, order, cmms>>
    BY <1>6 DEF RejectIdentity, RetryCommand
  <2>2. \E status \in {"DEAD_LETTER", "RETRY_WAIT"} : FinishCommand(w, status)
    BY <1>6 DEF RejectIdentity, RetryCommand
  <2>3. QED
    BY <2>1, <2>2, FailureInBook DEF Book!BookNext
<1>7. ASSUME NEW w \in Senders, SaveOrder(w) PROVE [Book!BookNext]_(Book!book)
  BY <1>7, SaveInBook
<1>8. ASSUME NEW p \in Pollers, ClaimPoll(p) PROVE [Book!BookNext]_(Book!book)
  BY <1>8, LeaseInBook
<1>9. ASSUME NEW p \in Pollers, FailPoll(p) PROVE [Book!BookNext]_(Book!book)
  <2>1. /\ order' = Release(p) /\ UNCHANGED <<risk, alert, command, cmms>>
        /\ poller[p].pc # "idle"
    BY <1>9 DEF FailPoll, intents
  <2>2. poller[p].alert \in Alerts
    BY <2>1, Fields DEF BookInv
  <2>3. QED
    BY <2>1, <2>2, LeaseInBook
<1>10. ASSUME NEW p \in Pollers, ApplyStatus(p) PROVE [Book!BookNext]_(Book!book)
  BY <1>10, ApplyInBook
<1>11. ASSUME NEW w \in Senders, NEW answered \in BOOLEAN, PostOrder(w, answered)
       PROVE  [Book!BookNext]_(Book!book)
  BY <1>11, PostInBook DEF Book!BookNext
<1>12. ASSUME NEW b \in Alerts, NEW status \in CmmsStatuses, CmmsProgress(b, status)
       PROVE  [Book!BookNext]_(Book!book)
  BY <1>12, ProgressInBook DEF Book!BookNext
<1>13. QED
  BY <1>1, <1>2, <1>3, <1>4, <1>5, <1>6, <1>7, <1>8, <1>9, <1>10, <1>11, <1>12
     DEF Next, OrderSide, Approve, Send, Poll, vars, intents, orders, DeliverAlarm,
         Look, Refuse, ReadOrder, FindOrder, CmmsFails, SeeAlert, CrashSender, FetchStatus,
         SeePolled, CrashPoller

\* The work-order side implements OrderBook: the initial states are initial
\* states of the book, and every step of a page, a worker, a round or the CMMS is
\* a step of the book or leaves it as it is
\* (services/maintenance_actions.py, services/closed_loop_delivery.py).
THEOREM OrdersFollowTheBook == Safety => ImplementsBook
<1>1. Init => Book!BookInit
  <2> SUFFICES ASSUME Init PROVE Book!BookInit
    OBVIOUS
  <2>1. risk.alert = None
    BY DEF Init, IntentsInit
  <2>2. BookCurrent = None
    BY <2>1 DEF BookCurrent
  <2>3. \A a \in Alerts : BookCare(a) = "ABSENT" /\ order[a].version = 0
    BY DEF Init, IntentsInit, NoAlert, NoOrder, BookCare
  <2>4. cmms = [a \in Alerts |-> [version |-> 0, status |-> "OPEN"]]
    BY DEF Init, NotInCmms
  <2>5. QED
    BY <2>2, <2>3, <2>4 DEF Book!BookInit, BookCurrent
<1>2. QED
  BY <1>1, BookStep, BookHolds, PTL DEF Safety, ImplementsBook, Book!BookSpec
\* A creation that became a dead letter stays one, and no alert of the risk key
\* ever gets another work order: the order it stands for is under way for good,
\* whatever the CMMS has of it (_create_work_order, SUPPRESSED_ACTIVE_WORK_ORDER;
\* retry, save_created_work_order).
THEOREM DeadLettersBlock ==
  Safety => [][\A a, b \in Alerts :
                 command[a].status = "DEAD_LETTER" =>
                   /\ command'[a].status = "DEAD_LETTER"
                   /\ order[b].state = "NONE" => order'[b].state = "NONE"]_vars
<1>1. ASSUME BookInv, BookInv', [Next]_vars, NEW a \in Alerts, NEW b \in Alerts,
             command[a].status = "DEAD_LETTER"
      PROVE  /\ command'[a].status = "DEAD_LETTER"
             /\ order[b].state = "NONE" => order'[b].state = "NONE"
  <2>1. order[a].state = "WORK_ORDER_CREATING" /\ BookCare(a) = "GIVEN_UP"
    BY <1>1, BookEntries DEF BookInv, OrdersInv, Matched
  <2>2. BookCares[a] = "GIVEN_UP" /\ BookCares \in [Alerts -> {BookCare(c) : c \in Alerts}]
    BY <2>1 DEF BookCares
  <2>3. BookCares'[a] = "GIVEN_UP"
    <3>1. CASE UNCHANGED Book!book
      BY <2>2, <3>1 DEF Book!book, BookCares
    <3>2. CASE Book!BookNext
      BY <2>2, <3>2
         DEF Book!BookNext, Book!Begin, Book!End, Book!Approve, Book!Post, Book!Progress,
             Book!GiveUp, Book!Record, BookCares
    <3>3. QED
      BY <1>1, <3>1, <3>2, BookStep
  <2>4. command'[a].status = "DEAD_LETTER"
    <3>1. BookCare(a)' = "GIVEN_UP"
      BY <2>3 DEF BookCares
    <3>2. alert'[a].care \in CareStates
      BY <1>1 DEF BookInv, OrdersInv, IntentsInv, IntentsTypeOK, AlertRows
    <3>3. QED
      BY <3>1, <3>2 DEF BookCare, CareStates, ActiveOrderStates
  <2>5. ~Approved(b)
    BY <1>1, <2>1
       DEF Approved, Actionable, BookInv, OrdersInv, Vacant, Busy, ActiveOrderStates
  <2>6. order[b].state = "NONE" => order'[b].state = "NONE"
    BY <1>1, <2>5, RowStep, Tells
       DEF BookInv, RowMoves, Untouched, Opened, Advanced, ActiveOrderStates
  <2>7. QED
    BY <2>4, <2>6
<1>2. ASSUME BookInv, BookInv', [Next]_vars PROVE [\A a, b \in Alerts :
         command[a].status = "DEAD_LETTER" =>
           /\ command'[a].status = "DEAD_LETTER"
           /\ order[b].state = "NONE" => order'[b].state = "NONE"]_vars
  BY <1>1, <1>2
<1>3. QED
  BY <1>2, BookHolds, PTL DEF Safety
=============================================================================
