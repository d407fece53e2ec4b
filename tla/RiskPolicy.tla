----------------------------- MODULE RiskPolicy -----------------------------
(***************************************************************************)
(* How the persisted risk state of a measurement advances from one         *)
(* prediction round to the next (services/risk.py).                        *)
(***************************************************************************)
EXTENDS Integers

\* A round without a result forgets both streaks and keeps the verdict.
ForgetStreaks(state) == [state EXCEPT !.riskCount = 0, !.healthyCount = 0]

\* Mutant: the first risky round raises the risk.
AdvanceAtOnce(state, risky) ==
  IF risky
  THEN [state EXCEPT !.riskCount = @ + 1, !.healthyCount = 0, !.active = TRUE]
  ELSE [state EXCEPT !.riskCount = 0, !.healthyCount = @ + 1,
                     !.active = state.active /\ state.healthyCount + 1 < 2]

\* advance_risk_state: the second risky round in a row raises the risk, the
\* second healthy one clears it.
AdvanceRiskState(state, risky) ==
  IF risky
  THEN [state EXCEPT !.riskCount = @ + 1,
                     !.healthyCount = 0,
                     !.active = state.active \/ state.riskCount + 1 >= 2]
  ELSE [state EXCEPT !.riskCount = 0,
                     !.healthyCount = @ + 1,
                     !.active = state.active /\ state.healthyCount + 1 < 2]
=============================================================================
