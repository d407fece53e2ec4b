----------------------------- MODULE OrderBook -----------------------------
(***************************************************************************)
(* What the work-order side promises of the alerts of one risk key, without *)
(* transactions, commands, leases, workers or pages.  An alert begins with   *)
(* the risk and may wait for approval, unless an order is under way: then    *)
(* it never gets one.  It gets at most one order, while its risk lasts.      *)
(* What is recorded of an order is what the CMMS said, in the order it was   *)
(* said; a complete order is final.  An order the worker gives up is final   *)
(* too, although the CMMS may have it: it stays under way for good.          *)
(***************************************************************************)
EXTENDS Integers

CONSTANTS Alerts,
          CmmsStatuses,
          Meaning,   \* the maintenance state of the statuses that have one
          None

VARIABLES current,   \* the alert whose risk lasts, or None
          care,      \* the maintenance state, by alert
          heard,     \* the latest version recorded of the order, by alert
          cmms       \* the CMMS: version and status, by alert

book == <<current, care, heard, cmms>>

Reported == {Meaning[s] : s \in DOMAIN Meaning}

BookInit == /\ current = None
            /\ care = [a \in Alerts |-> "ABSENT"]
            /\ heard = [a \in Alerts |-> 0]
            /\ cmms = [a \in Alerts |-> [version |-> 0, status |-> "OPEN"]]

Ordered(a) == care[a] \notin {"ABSENT", "PENDING_APPROVAL",
                              "SUPPRESSED_ACTIVE_WORK_ORDER"}

UnderWay == \E a \in Alerts : Ordered(a) /\ care[a] # "WORK_ORDER_COMPLETE"

-----------------------------------------------------------------------------
Begin(a) == /\ current = None
            /\ care[a] = "ABSENT"
            /\ current' = a
            /\ care' = [care EXCEPT ![a] = IF UnderWay
                                           THEN "SUPPRESSED_ACTIVE_WORK_ORDER"
                                           ELSE "PENDING_APPROVAL"]
            /\ UNCHANGED <<heard, cmms>>

\* Healthy rounds, or the approver.
End == /\ current # None
       /\ current' = None
       /\ UNCHANGED <<care, heard, cmms>>

Approve(a) == /\ current = a
              /\ care[a] = "PENDING_APPROVAL"
              /\ ~UnderWay
              /\ care' = [care EXCEPT ![a] = "WORK_ORDER_CREATING"]
              /\ UNCHANGED <<current, heard, cmms>>

\* A request may reach the CMMS after it was given up.
Post(a) == /\ Ordered(a)
           /\ cmms[a].version = 0
           /\ cmms' = [cmms EXCEPT ![a] = [version |-> 1, status |-> "OPEN"]]
           /\ UNCHANGED <<current, care, heard>>

Progress(a, status) ==
  /\ cmms[a].version > 0
  /\ cmms' = [cmms EXCEPT ![a] = [version |-> @.version + 1, status |-> status]]
  /\ UNCHANGED <<current, care, heard>>

GiveUp(a) == /\ care[a] = "WORK_ORDER_CREATING"
             /\ care' = [care EXCEPT ![a] = "GIVEN_UP"]
             /\ UNCHANGED <<current, heard, cmms>>

\* An answer with a newer version is recorded.  The newest version has the
\* status the CMMS has.
Record(a, version, state) ==
  /\ heard[a] < version /\ version <= cmms[a].version
  /\ Ordered(a) /\ care[a] \notin {"GIVEN_UP", "WORK_ORDER_COMPLETE"}
  /\ version = cmms[a].version =>
       cmms[a].status \in DOMAIN Meaning /\ state = Meaning[cmms[a].status]
  /\ care' = [care EXCEPT ![a] = state]
  /\ heard' = [heard EXCEPT ![a] = version]
  /\ UNCHANGED <<current, cmms>>

BookNext == \/ End
            \/ \E a \in Alerts :
                 \/ Begin(a) \/ Approve(a) \/ Post(a) \/ GiveUp(a)
                 \/ \E status \in CmmsStatuses : Progress(a, status)
                 \/ \E version \in (heard[a] + 1)..cmms[a].version, state \in Reported :
                      Record(a, version, state)

BookSpec == BookInit /\ [][BookNext]_book
=============================================================================
