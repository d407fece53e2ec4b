-------------------------- MODULE MCPredictionRuns --------------------------
(***************************************************************************)
(* Instances of PredictionRuns for TLC.  The unit of time is 5 minutes:    *)
(* a slot lasts 3 units, a lease 2.                                        *)
(***************************************************************************)
EXTENDS PredictionRuns, TLC

\* Every process has an owner name of its own.
OwnNames == [w \in Workers |-> w]

\* Only their identity tells workers apart.
AlikeWorkers == Permutations(Workers)
=============================================================================
