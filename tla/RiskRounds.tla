----------------------------- MODULE RiskRounds -----------------------------
(***************************************************************************)
(* What the prediction pipeline promises of the risk of a measurement,     *)
(* without leases, workers or counters.  A slot is concluded at most once,  *)
(* risky or healthy; until then it may end without a result, and be opened *)
(* again.  Only rounds not older than the latest one matter; a risk is     *)
(* raised by a risky round whose predecessor was risky, cleared by a       *)
(* healthy one whose predecessor was healthy, and any round without a      *)
(* result in between starts the streak anew.                               *)
(***************************************************************************)
EXTENDS Integers

CONSTANTS Slots, None

VARIABLES outcome,   \* open, void, risky or healthy
          last,      \* the latest slot that counted
          previous,  \* what it showed, if it showed anything
          active     \* the verdict

rounds == <<outcome, last, previous, active>>

RoundsInit == /\ outcome = [s \in Slots |-> "open"]
              /\ last = None
              /\ previous = "nothing"
              /\ active = FALSE

Current(s) == last = None \/ last <= s

\* A slot has a result; it decides if no later round has been seen.
Conclude(s, evidence) ==
  /\ outcome[s] = "open"
  /\ outcome' = [outcome EXCEPT ![s] = evidence]
  /\ IF Current(s)
     THEN /\ last' = s
          /\ previous' = evidence
          /\ active' = IF evidence = "risky" THEN active \/ previous = "risky"
                                             ELSE active /\ previous # "healthy"
     ELSE UNCHANGED <<last, previous, active>>

\* The slots S end without a result.  The latest of them ends the streak,
\* if it is not older than the last round that counted.  Only as long as none
\* counted is it left open whether this one does.
Interrupt(S) ==
  /\ \A s \in S : outcome[s] \in {"open", "void"}
  /\ outcome' = [s \in Slots |-> IF s \in S THEN "void" ELSE outcome[s]]
  /\ \E s \in S :
       /\ \A u \in S : u <= s
       /\ \/ Current(s) /\ last' = s /\ previous' = "nothing"
          \/ ~Current(s) /\ UNCHANGED <<last, previous>>
          \/ last = None /\ UNCHANGED <<last, previous>>
  /\ UNCHANGED active

\* A slot that ended without a result is tried again.
Reopen(s) == /\ outcome[s] = "void"
             /\ outcome' = [outcome EXCEPT ![s] = "open"]
             /\ UNCHANGED <<last, previous, active>>

\* An operator closes the risk.
Close == /\ active
         /\ active' = FALSE
         /\ previous' = "nothing"
         /\ UNCHANGED <<outcome, last>>

RoundsNext == \/ Close
              \/ \E S \in SUBSET Slots : Interrupt(S)
              \/ \E s \in Slots :
                   \/ Reopen(s)
                   \/ \E evidence \in {"risky", "healthy"} : Conclude(s, evidence)

RoundsSpec == RoundsInit /\ [][RoundsNext]_rounds
=============================================================================
