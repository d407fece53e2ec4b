----------------------------- MODULE WorkOrders -----------------------------
(***************************************************************************)
(* Work orders for the alerts of one risk key: the approver who previews an *)
(* alert and confirms a work order or closes the risk                       *)
(* (services/maintenance_actions.py), the worker that creates the work      *)
(* order in the CMMS, and the worker that polls its status                  *)
(* (services/closed_loop_delivery.py).  The delivery of alarms is one step  *)
(* here and is taken apart in AlarmSync.                                    *)
(*                                                                         *)
(* Each transaction and each HTTP request is one action, except that the    *)
(* two transactions that read the alert before they lock anything are two.  *)
(* A worker's lease_owner is its own.                                       *)
(***************************************************************************)
EXTENDS AlarmIntents

CONSTANTS Senders,         \* WorkOrderDeliveryWorker processes
          Pollers,         \* StatusPollWorker processes
          Tabs,            \* pages the approver has open
          CmmsStatuses,    \* statuses the CMMS may report
          MaxCmmsVersion   \* bound on the event_version of the CMMS

ASSUME WorkersAssumption == Senders \cup Pollers \subseteq Owners
ASSUME CmmsAssumption == MaxCmmsVersion \in Nat \ {0} /\ "OPEN" \in CmmsStatuses

VARIABLES order,    \* maintenance_work_order, by alert
          action,   \* alert_action: the expected_version of what was accepted
          command,  \* the CMMS_WORK_ORDER_CREATE rows of outbox_event
          cmms,     \* the work orders in the CMMS, by external_ref
          sender, poller, tab

orders == <<order, action, command>>
workers == <<sender, poller, tab>>
vars == <<risk, alert, projection, event, order, action, command, cmms,
          sender, poller, tab>>

-----------------------------------------------------------------------------
\* _maintenance_state: not every status of the CMMS is known to it.
CareOf == [OPEN |-> "WORK_ORDER_OPEN", IN_PROGRESS |-> "WORK_ORDER_IN_PROGRESS",
           ON_HOLD |-> "WORK_ORDER_ON_HOLD", COMPLETE |-> "WORK_ORDER_COMPLETE"]
KnownStatuses == DOMAIN CareOf

CmmsRows == [version : 0..MaxCmmsVersion, status : CmmsStatuses]
NotInCmms == [version |-> 0, status |-> "OPEN"]

\* version: cmms_event_version, 0 before the CMMS has answered;
\* poller: poll_lease_owner.
OrderRows == [state : CareStates \cup {"NONE"}, version : 0..MaxCmmsVersion,
              poller : Pollers \cup {None}]
NoOrder == [state |-> "NONE", version |-> 0, poller |-> None]

Commands == [status : EventStatuses, attempt : 0..MaxAttempts,
             owner : Senders \cup {None}]
NoCommand == [status |-> "ABSENT", attempt |-> 0, owner |-> None]

\* reply: the row the CMMS answered with; seen: the alert read before the lock.
WorkerStates == [pc : {"idle", "read", "find", "create", "poll", "replied",
                       "seen", "failed"},
                 alert : Alerts \cup {None}, reply : CmmsRows, seen : AlertRows]
Idle == [pc |-> "idle", alert |-> None, reply |-> NotInCmms, seen |-> NoAlert]

\* wants: the action the page is about to send; seen: the alert it was shown,
\* whose version is the expected_version it sends and part of its plan_hash.
TabStates == [wants : {"nothing", "CREATE_WORK_ORDER", "CLOSE_RISK"},
              alert : Alerts \cup {None}, seen : AlertRows]
Blank == [wants |-> "nothing", alert |-> None, seen |-> NoAlert]

TypeOK == /\ IntentsTypeOK
          /\ order \in [Alerts -> OrderRows]
          /\ action \in [Alerts -> [create : 0..MaxVersion, close : 0..MaxVersion]]
          /\ command \in [Alerts -> Commands]
          /\ cmms \in [Alerts -> CmmsRows]
          /\ sender \in [Senders -> WorkerStates]
          /\ poller \in [Pollers -> WorkerStates]
          /\ tab \in [Tabs -> TabStates]

Init == /\ IntentsInit
        /\ order = [a \in Alerts |-> NoOrder]
        /\ action = [a \in Alerts |-> [create |-> 0, close |-> 0]]
        /\ command = [a \in Alerts |-> NoCommand]
        /\ cmms = [a \in Alerts |-> NotInCmms]
        /\ sender = [w \in Senders |-> Idle]
        /\ poller = [p \in Pollers |-> Idle]
        /\ tab = [t \in Tabs |-> Blank]

-----------------------------------------------------------------------------
(* Prediction rounds, the alarm worker and the CMMS.                       *)

\* Mutant: an order under way is not looked for.
BusyNever == FALSE

Busy == \E a \in Alerts : order[a].state \in ActiveOrderStates

Round == /\ \/ \E a \in Alerts : Raise(a, Busy) \/ Continue(a) \/ Clear(a)
            \/ ClearUnalerted
         /\ UNCHANGED <<orders, cmms, workers>>

\* A delivery of the newest event, as AlarmSync brings it about.
DeliverAlarm(i) ==
  /\ projection.alert # None
  /\ event[projection.version].status = "PENDING"
  /\ event' = [event EXCEPT ![projection.version].status = "DELIVERED"]
  /\ projection' = IF projection.desired /\ projection.alarm = None
                   THEN [projection EXCEPT !.alarm = i]
                   ELSE projection
  /\ UNCHANGED <<risk, alert, orders, cmms, workers>>

\* Somebody works on the order.
CmmsProgress(a, status) ==
  /\ cmms[a].version \in 1..(MaxCmmsVersion - 1)
  /\ status # cmms[a].status
  /\ cmms' = [cmms EXCEPT ![a] = [version |-> @.version + 1, status |-> status]]
  /\ UNCHANGED <<intents, orders, workers>>

-----------------------------------------------------------------------------
(* The approver: MaintenanceActionService.                                 *)

\* _authorize, as far as the database goes.  What it requires of the alarm in
\* ThingsBoard may fail at any time: Refuse.
Ready(a) == projection.alert = a /\ projection.alarm # None

\* Mutant: the version confirmed is not compared.
ConfirmedAny(t) == TRUE

\* The alert is still the one the page was shown.
Confirmed(t) == tab[t].seen.version = alert[tab[t].alert].version

\* preview(), or a look at the alarm before a risk is closed.
Look(t, a, wants) ==
  /\ tab[t].wants = "nothing" /\ wants # "nothing"
  /\ Ready(a)
  /\ wants = "CREATE_WORK_ORDER" => Actionable(a)
  /\ tab' = [tab EXCEPT ![t] = [wants |-> wants, alert |-> a, seen |-> alert[a]]]
  /\ UNCHANGED <<intents, orders, cmms, sender, poller>>

\* The answer arrives, or it is lost and the page may send the same again.
Answer(t, lost) == tab' = [tab EXCEPT ![t] = IF lost THEN @ ELSE Blank]

\* _create_work_order: the alert is the one that was confirmed, and nothing
\* was accepted under this idempotency key before.
CreateOrder(t, lost) ==
  LET a == tab[t].alert
  IN /\ tab[t].wants = "CREATE_WORK_ORDER"
     /\ Ready(a)
     /\ action[a].create = 0
     /\ Confirmed(t)
     /\ action' = [action EXCEPT ![a].create = alert[a].version]
     /\ order' = [order EXCEPT ![a] = [NoOrder EXCEPT !.state = "WORK_ORDER_CREATING"]]
     /\ command' = [command EXCEPT ![a] = [NoCommand EXCEPT !.status = "PENDING"]]
     /\ OrderAlert(a)
     /\ Answer(t, lost)
     /\ UNCHANGED <<cmms, sender, poller>>

\* _close_risk
CloseRisk(t, lost) ==
  LET a == tab[t].alert
  IN /\ tab[t].wants = "CLOSE_RISK"
     /\ Ready(a)
     /\ action[a].close = 0
     /\ Confirmed(t)
     /\ action' = [action EXCEPT ![a].close = alert[a].version]
     /\ CloseAlert(a)
     /\ Answer(t, lost)
     /\ UNCHANGED <<order, command, cmms, sender, poller>>

\* The page is told so, or told what was accepted before, or closed.
Refuse(t) == /\ tab[t].wants # "nothing"
             /\ Answer(t, FALSE)
             /\ UNCHANGED <<intents, orders, cmms, sender, poller>>

-----------------------------------------------------------------------------
(* Creating the work order in the CMMS: WorkOrderDeliveryWorker.run_once.  *)

InFlight == {a \in Alerts : command[a].status = "IN_FLIGHT"}

\* Mutant: the attempts are not counted.
DueForever(rows) == {a \in Alerts : rows[a].status \in Waiting}

Due(rows) == {a \in Alerts : /\ rows[a].status \in Waiting
                             /\ rows[a].attempt < MaxAttempts}

\* claim_outbox
ClaimCommand(w) ==
  /\ sender[w].pc = "idle"
  /\ \E S \in SUBSET InFlight :
       LET freed == [a \in Alerts |->
                       IF a \in S THEN [command[a] EXCEPT !.status = "RETRY_WAIT",
                                                          !.owner = None]
                       ELSE command[a]]
       IN \/ Due(freed) = {} /\ S # {} /\ command' = freed /\ UNCHANGED sender
          \/ \E a \in Due(freed) :
               /\ command' = [freed EXCEPT ![a] = [status |-> "IN_FLIGHT", owner |-> w,
                                                   attempt |-> @.attempt + 1]]
               /\ sender' = [sender EXCEPT ![w] = [Idle EXCEPT !.pc = "read",
                                                               !.alert = a]]
  /\ UNCHANGED <<intents, order, action, cmms, poller, tab>>

\* Mutant: whoever answers last decides.
MineAlways(w) == TRUE

\* The guard of every finisher.
Mine(w) == LET a == sender[w].alert
           IN command[a].status = "IN_FLIGHT" /\ command[a].owner = w

FinishCommand(w, status) ==
  command' = IF Mine(w) THEN [command EXCEPT ![sender[w].alert].status = status,
                                             ![sender[w].alert].owner = None]
             ELSE command

\* The worker is done with its claim, or dies and is started again.
Rest(w) == sender' = [sender EXCEPT ![w] = Idle]

\* work_order_delivery; without the lease nothing is left to do.
ReadOrder(w) ==
  /\ sender[w].pc = "read"
  /\ sender' = [sender EXCEPT ![w] = IF Mine(w) THEN [@ EXCEPT !.pc = "find"] ELSE Idle]
  /\ UNCHANGED <<intents, orders, cmms, poller, tab>>

Reply(w, a) == sender' = [sender EXCEPT ![w].pc = "replied", ![w].reply = cmms'[a]]

\* find_work_order_by_external_ref
FindOrder(w) ==
  LET a == sender[w].alert
  IN /\ sender[w].pc = "find"
     /\ UNCHANGED cmms
     /\ IF cmms[a].version > 0 THEN Reply(w, a)
        ELSE sender' = [sender EXCEPT ![w].pc = "create"]
     /\ UNCHANGED <<intents, orders, poller, tab>>

\* create_work_order under the key of the alert: a second one is answered
\* with the first, or refused as a conflict.
PostOrder(w, answered) ==
  LET a == sender[w].alert
  IN /\ sender[w].pc = "create"
     /\ cmms' = IF cmms[a].version = 0
                THEN [cmms EXCEPT ![a] = [version |-> 1, status |-> "OPEN"]]
                ELSE cmms
     /\ IF answered THEN Reply(w, a)
        ELSE sender' = [sender EXCEPT ![w].pc = "failed"]
     /\ UNCHANGED <<intents, orders, poller, tab>>

CmmsFails(w) == /\ sender[w].pc \in {"find", "create"}
                /\ sender' = [sender EXCEPT ![w].pc = "failed"]
                /\ UNCHANGED <<intents, orders, cmms, poller, tab>>

\* Mutant: an order about something else will do.
AcceptIdentity(w) == /\ sender[w].pc \in {"find", "replied"}
                     /\ FinishCommand(w, "DELIVERED")
                     /\ Rest(w)
                     /\ UNCHANGED <<intents, order, action, cmms, poller, tab>>

\* Another company answers, or the order found is about something else.
RejectIdentity(w) == /\ sender[w].pc \in {"find", "replied"}
                     /\ FinishCommand(w, "DEAD_LETTER")
                     /\ Rest(w)
                     /\ UNCHANGED <<intents, order, action, cmms, poller, tab>>

\* retry()
RetryCommand(w) ==
  /\ sender[w].pc = "failed"
  /\ FinishCommand(w, IF command[sender[w].alert].attempt >= MaxAttempts
                      THEN "DEAD_LETTER" ELSE "RETRY_WAIT")
  /\ Rest(w)
  /\ UNCHANGED <<intents, order, action, cmms, poller, tab>>

\* The first statement of save_created_work_order loads the alert without a
\* lock.
SeeAlert(w) ==
  /\ sender[w].pc = "replied"
  /\ sender' = [sender EXCEPT ![w].pc = "seen", ![w].seen = alert[sender[w].alert]]
  /\ UNCHANGED <<intents, orders, cmms, poller, tab>>

\* save_created_work_order, after its first read.  A status without a
\* maintenance state rolls it back, and the command becomes a dead letter.
SaveOrder(w) ==
  LET a == sender[w].alert
      reply == sender[w].reply
  IN /\ sender[w].pc = "seen"
     /\ IF Mine(w) /\ reply.status \in KnownStatuses
        THEN /\ order' = [order EXCEPT ![a].state = CareOf[reply.status],
                                       ![a].version = reply.version]
             /\ TellAlert(a, sender[w].seen, CareOf[reply.status])
             /\ FinishCommand(w, "DELIVERED")
        ELSE FinishCommand(w, "DEAD_LETTER") /\ UNCHANGED <<intents, order>>
     /\ Rest(w)
     /\ UNCHANGED <<action, cmms, poller, tab>>

CrashSender(w) == /\ sender[w].pc # "idle"
                  /\ Rest(w)
                  /\ UNCHANGED <<intents, orders, cmms, poller, tab>>

-----------------------------------------------------------------------------
(* Polling the status: StatusPollWorker.run_once.                          *)

Pollable(a) == order[a].version > 0 /\ order[a].state # "WORK_ORDER_COMPLETE"

\* claim_status_poll: leases run out on the orders S, and an order that is due
\* and unowned is taken.
ClaimPoll(p) ==
  /\ poller[p].pc = "idle"
  /\ \E S \in SUBSET {a \in Alerts : order[a].poller # None} :
       LET freed == [a \in Alerts |-> IF a \in S THEN [order[a] EXCEPT !.poller = None]
                                      ELSE order[a]]
       IN \/ S # {} /\ order' = freed /\ UNCHANGED poller
          \/ \E a \in Alerts :
               /\ Pollable(a) /\ freed[a].poller = None
               /\ order' = [freed EXCEPT ![a].poller = p]
               /\ poller' = [poller EXCEPT ![p] = [Idle EXCEPT !.pc = "poll",
                                                               !.alert = a]]
  /\ UNCHANGED <<intents, action, command, cmms, sender, tab>>

Polls(p) == order[poller[p].alert].poller = p

Release(p) == [order EXCEPT ![poller[p].alert].poller = IF @ = p THEN None ELSE @]

PollerRests(p) == poller' = [poller EXCEPT ![p] = Idle]

FetchStatus(p) ==
  /\ poller[p].pc = "poll"
  /\ poller' = [poller EXCEPT ![p].pc = "replied", ![p].reply = cmms[poller[p].alert]]
  /\ UNCHANGED <<intents, orders, cmms, sender, tab>>

\* Three reads failed, or the answer is about something else.
FailPoll(p) == /\ poller[p].pc \in {"poll", "replied"}
               /\ order' = Release(p)
               /\ PollerRests(p)
               /\ UNCHANGED <<intents, action, command, cmms, sender, tab>>

\* The first statement of apply_status, as in SeeAlert.
SeePolled(p) ==
  /\ poller[p].pc = "replied"
  /\ poller' = [poller EXCEPT ![p].pc = "seen", ![p].seen = alert[poller[p].alert]]
  /\ UNCHANGED <<intents, orders, cmms, sender, tab>>

News(p) == poller[p].reply.version > order[poller[p].alert].version

\* apply_status, after its first read: only a newer version counts, and only
\* for the owner of the lease.  A status without a maintenance state is rolled
\* back and the poll fails.
ApplyStatus(p) ==
  LET a == poller[p].alert
      reply == poller[p].reply
  IN /\ poller[p].pc = "seen"
     /\ IF Polls(p) /\ News(p) /\ reply.status \in KnownStatuses
        THEN /\ order' = [order EXCEPT ![a] = [state |-> CareOf[reply.status],
                                               version |-> reply.version,
                                               poller |-> None]]
             /\ TellAlert(a, poller[p].seen, CareOf[reply.status])
        ELSE order' = Release(p) /\ UNCHANGED intents
     /\ PollerRests(p)
     /\ UNCHANGED <<action, command, cmms, sender, tab>>

CrashPoller(p) == /\ poller[p].pc # "idle"
                  /\ PollerRests(p)
                  /\ UNCHANGED <<intents, orders, cmms, sender, tab>>

-----------------------------------------------------------------------------
Send(w) == \/ ReadOrder(w) \/ FindOrder(w)
           \/ \E answered \in BOOLEAN : PostOrder(w, answered)
           \/ CmmsFails(w) \/ RejectIdentity(w) \/ RetryCommand(w)
           \/ SeeAlert(w) \/ SaveOrder(w)

Poll(p) == FetchStatus(p) \/ FailPoll(p) \/ SeePolled(p) \/ ApplyStatus(p)

Approve(t) == \/ \E a \in Alerts, wants \in {"CREATE_WORK_ORDER", "CLOSE_RISK"} :
                   Look(t, a, wants)
              \/ \E lost \in BOOLEAN : CreateOrder(t, lost) \/ CloseRisk(t, lost)
              \/ Refuse(t)

\* Everything but the delivery of alarms.
OrderSide == \/ Round
             \/ \E a \in Alerts, s \in CmmsStatuses : CmmsProgress(a, s)
             \/ \E t \in Tabs : Approve(t)
             \/ \E w \in Senders : ClaimCommand(w) \/ Send(w) \/ CrashSender(w)
             \/ \E p \in Pollers : ClaimPoll(p) \/ Poll(p) \/ CrashPoller(p)

Next == OrderSide \/ \E i \in AlarmIds : DeliverAlarm(i)

Safety == Init /\ [][Next]_vars

-----------------------------------------------------------------------------
(* What the work-order side promises.                                      *)

\* What the acceptance check demands of the rows of the current episode holds
\* after every transaction (ClosedLoopAcceptanceVerifier,
\* _validate_local_identity): the risk row, the alert, the projection and the
\* work order agree, whoever wrote last.
LocallyConsistent ==
  /\ projection.alert = risk.alert
  /\ risk.alert # None =>
       /\ projection.version = risk.version
       /\ projection.desired = risk.active
       /\ projection.desired = (alert[risk.alert].risk = "ACTIVE")
  /\ \A a \in Alerts : order[a].state # "NONE" => order[a].state = alert[a].care

\* At most one work order of the risk key is not complete: a new episode does
\* not get one while an earlier one is being worked on
\* (SUPPRESSED_ACTIVE_WORK_ORDER, test_maintenance_actions).
SingleActiveOrder ==
  Cardinality({a \in Alerts : order[a].state \in ActiveOrderStates}) <= 1

\* What is recorded of an order is something the CMMS said of it, and it is
\* recorded exactly when the command counts as delivered (response loss and
\* retries of create_work_order, save_created_work_order).
RecordedFromCmms ==
  \A a \in Alerts :
    /\ order[a].version <= cmms[a].version
    /\ order[a].version > 0 <=> command[a].status = "DELIVERED"
    /\ order[a].version \in {cmms[a].version} \ {0}
         => order[a].state = CareOf[cmms[a].status]

\* Status feedback never goes back: late and repeated answers change nothing
\* (apply_status: STALE_IGNORED, DUPLICATE).
FeedbackMovesForward ==
  [][\A a \in Alerts :
       /\ order[a].version <= order'[a].version
       /\ order[a].version > 0 /\ order'[a].state # order[a].state
            => order[a].version < order'[a].version]_vars

\* A work order is created for the alert the approver was shown, as it still
\* is, while the risk is active and no other order is under way; retries of
\* the request, other pages and rounds in between notwithstanding
\* (_create_work_order).
ApprovalIsCurrent ==
  [][\A a \in Alerts :
       order[a].state = "NONE" /\ order'[a].state # "NONE" =>
         /\ risk.active /\ risk.alert = a
         /\ ~Busy
         /\ \E t \in Tabs : tab[t].wants = "CREATE_WORK_ORDER" /\ tab[t].seen = alert[a]]_vars

\* The CMMS has no say in the risk: what it reports, completion included,
\* leaves the risk and the alarm as they are (README: a complete order does
\* not clear the risk).
OrderNewsKeepsRisk ==
  [][\A a \in Alerts :
       order[a].version # order'[a].version =>
         /\ risk'.active = risk.active
         /\ projection'.desired = projection.desired
         /\ \A b \in Alerts : alert'[b].risk = alert[b].risk]_vars

\* A risk is closed on the alert the approver was shown: an alert that has
\* changed since is refused as MAINTENANCE_ALERT_VERSION_STALE.
StaleVersionIsRefused ==
  [][\A a \in Alerts :
       action[a].close = 0 /\ action'[a].close # 0 =>
         \E t \in Tabs : tab[t].wants = "CLOSE_RISK" /\ tab[t].seen = alert[a]]_vars

\* The maintenance state of an alert, with its dead letter.
BookCare(a) == IF alert[a].risk = "ABSENT" THEN "ABSENT"
               ELSE IF command[a].status = "DEAD_LETTER" THEN "GIVEN_UP"
               ELSE alert[a].care

Book == INSTANCE OrderBook WITH
          Meaning <- CareOf,
          current <- IF risk.active THEN risk.alert ELSE None,
          care <- [a \in Alerts |-> BookCare(a)],
          heard <- [a \in Alerts |-> order[a].version]

\* Retries, expired leases, lost answers, repeated requests and late polls
\* notwithstanding, the work-order side implements OrderBook: what becomes of
\* an alert, its order and what is known of it.
ImplementsBook == Book!BookSpec
=============================================================================
