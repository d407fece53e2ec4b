------------------------ MODULE PredictionRuns_proofs -----------------------
(***************************************************************************)
(* Proofs about PredictionRuns, for every set of slots, workers and        *)
(* snapshots and every duration, attempt bound, clock lag and horizon.     *)
(***************************************************************************)
EXTENDS PredictionRuns, TLAPS

\* The helpers return rows of the right type.
LEMMA RiskTyping ==
  ASSUME risk \in Risks, NEW s \in Slots, NEW risky \in BOOLEAN
  PROVE  /\ WithRow(risk) \in Risks
         /\ ResetCounters(risk, s) \in Risks
         /\ ResetCounters(WithRow(risk), s) \in Risks
         /\ CountRound(s, risky) \in Risks
<1>1. ASSUME NEW r \in Risks
      PROVE  WithRow(r) \in Risks /\ ForgetStreaks(r) \in Risks
  BY <1>1 DEF Risks, WithRow, ForgetStreaks
<1>2. ASSUME NEW r \in Risks PROVE [r EXCEPT !.last = s] \in Risks
  BY <1>2 DEF Risks
<1>3. ASSUME NEW r \in Risks PROVE AdvanceRiskState(r, risky) \in Risks
  <2>1. r.riskCount \in Nat /\ r.healthyCount \in Nat
    BY <1>3 DEF Risks
  <2>2. r.riskCount + 1 \in Nat /\ r.healthyCount + 1 \in Nat
    BY <2>1
  <2>3. ASSUME NEW a \in BOOLEAN, NEW n \in Nat
        PROVE  /\ [r EXCEPT !.riskCount = n, !.healthyCount = 0,
                            !.active = a] \in Risks
               /\ [r EXCEPT !.riskCount = 0, !.healthyCount = n,
                            !.active = a] \in Risks
    BY <1>3 DEF Risks
  <2>4. QED
    BY <2>2, <2>3 DEF AdvanceRiskState
<1>4. ASSUME NEW r \in Risks PROVE ResetCounters(r, s) \in Risks
  BY <1>1, <1>2, <1>4 DEF ResetCounters
<1>5. CountRound(s, risky) \in Risks
  BY <1>1, <1>2, <1>3 DEF CountRound
<1>6. QED
  BY <1>1, <1>4, <1>5

LEMMA WorkerTyping ==
  ASSUME NEW pc \in {"down", "idle", "loop"}
  PROVE  At(pc) \in WorkerStates /\ At(pc).pc \notin Processing
  BY DEF At, WorkerStates, Processing

LEMMA FinishTyping ==
  ASSUME TypeOK, NEW w \in Workers, Finish(w)
  PROVE  worker' \in [Workers -> WorkerStates]
  BY WorkerTyping DEF TypeOK, Finish

LEMMA RunTyping ==
  ASSUME NEW r \in Runs, NEW status \in Statuses, NEW attempt \in 0..MaxAttempts
  PROVE  [r EXCEPT !.status = status, !.owner = None, !.expires = 0,
                   !.attempt = attempt] \in Runs
  BY DEF Runs

LEMMA ReleaseTyping ==
  ASSUME TypeOK, NEW s \in Slots,
         NEW status \in Statuses, NEW attempt \in 0..MaxAttempts,
         Release(s, status, attempt)
  PROVE  run' \in [Slots -> Runs]
  BY RunTyping DEF TypeOK, Release

\* Every variable keeps its type.
LEMMA TypeStep == TypeOK /\ [Next]_vars => TypeOK'
<1> SUFFICES ASSUME TypeOK, [Next]_vars PROVE TypeOK'
  OBVIOUS
<1> USE DurationAssumption, NamesAssumption, NoneAssumption, SlotsAssumption
<1>0. \A s \in Slots : s \in Nat
  OBVIOUS
<1>1. CASE Tick
  BY <1>1 DEF Tick, TypeOK
<1>2. CASE CloseRisk
  BY <1>2 DEF CloseRisk, TypeOK, Risks, ForgetStreaks
<1>3. ASSUME NEW s \in Slots, CreateSlot(s) PROVE TypeOK'
  BY <1>3 DEF CreateSlot, TypeOK, Runs, Statuses
<1>4. ASSUME NEW w \in Workers, Crash(w) PROVE TypeOK'
  BY <1>4, WorkerTyping DEF Crash, TypeOK
<1>5. ASSUME NEW w \in Workers, Restart(w) PROVE TypeOK'
  BY <1>5, WorkerTyping DEF Restart, TypeOK
<1>6. ASSUME NEW w \in Workers, EndRound(w) PROVE TypeOK'
  BY <1>6, WorkerTyping DEF EndRound, TypeOK
<1>7. ASSUME NEW w \in Workers, ReconcileStale(w) PROVE TypeOK'
  <2>1. run' \in [Slots -> Runs]
    <3>1. ASSUME NEW r \in Runs
          PROVE  [r EXCEPT !.status = "FAILED_STALE", !.owner = None,
                           !.expires = 0] \in Runs
      BY <3>1 DEF Runs, Statuses, Ended
    <3>2. PICK t \in Readings :
             run' = [s \in Slots |->
                       IF s \in Stale(t)
                       THEN [run[s] EXCEPT !.status = "FAILED_STALE",
                                           !.owner = None, !.expires = 0]
                       ELSE run[s]]
      BY <1>7 DEF ReconcileStale
    <3>3. \A s \in Slots : run[s] \in Runs
      BY DEF TypeOK
    <3>4. QED
      BY <3>1, <3>2, <3>3
  <2>2. risk' \in Risks
    <3>1. PICK t \in Readings :
             \/ UNCHANGED risk
             \/ \E s \in Stale(t) : risk' = ResetCounters(risk, s)
      BY <1>7 DEF ReconcileStale
    <3>2. Stale(t) \subseteq Slots
      BY DEF Stale
    <3>3. QED
      BY <3>1, <3>2, RiskTyping DEF TypeOK
  <2>3. QED
    BY <1>7, <2>1, <2>2, WorkerTyping DEF ReconcileStale, TypeOK
<1>8. ASSUME NEW w \in Workers, NEW s \in Slots, Claim(w, s) PROVE TypeOK'
  <2>1. PICK t \in Readings :
           /\ NextEligible(s, t)
           /\ run' = [run EXCEPT ![s].status = "RUNNING", ![s].owner = NameOf[w],
                                 ![s].expires = t + LeaseDuration,
                                 ![s].attempt = @ + 1]
    BY <1>8 DEF Claim
  <2>2. run[s].attempt + 1 \in 1..MaxAttempts /\ t \in Nat
    BY <2>1 DEF NextEligible, Eligible, TypeOK, Runs, Readings
  <2>3. run' \in [Slots -> Runs]
    BY <2>1, <2>2 DEF TypeOK, Runs, Statuses
  <2>4. worker' \in [Workers -> WorkerStates]
    BY <1>8, <2>2 DEF Claim, TypeOK, WorkerStates, At
  <2>5. QED
    BY <1>8, <2>3, <2>4 DEF Claim, TypeOK
<1>9. ASSUME NEW w \in Workers, NEW s \in Slots, ClaimInactive(w, s) PROVE TypeOK'
  <2>1. run' \in [Slots -> Runs]
    <3>1. ASSUME NEW r \in Runs
          PROVE  [r EXCEPT !.status = "FAILED", !.owner = None, !.expires = 0,
                           !.attempt = MaxAttempts] \in Runs
      <4>1. "FAILED" \in Statuses /\ MaxAttempts \in 0..MaxAttempts
        BY DEF Statuses, Ended
      <4>2. QED
        BY <3>1, <4>1, RunTyping
    <3>2. QED
      BY <1>9, <3>1 DEF ClaimInactive, TypeOK
  <2>2. QED
    BY <1>9, <2>1, RiskTyping DEF ClaimInactive, TypeOK
<1>10. ASSUME NEW w \in Workers, NEW s \in Slots, Heartbeat(w, s) PROVE TypeOK'
  <2>1. run' \in [Slots -> Runs]
    BY <1>10 DEF Heartbeat, TypeOK, Runs, Readings
  <2>2. worker' \in [Workers -> WorkerStates]
    <3>1. ASSUME NEW k \in WorkerStates, k.pc \in Processing
          PROVE  [k EXCEPT !.lost = TRUE] \in WorkerStates
      BY <3>1 DEF WorkerStates, Processing
    <3>2. worker[w] \in WorkerStates /\ worker[w].pc \in Processing
      BY <1>10 DEF Heartbeat, TypeOK
    <3>3. \/ worker' = worker
          \/ worker' = [worker EXCEPT ![w].lost = TRUE]
      BY <1>10 DEF Heartbeat
    <3>4. QED
      BY <3>1, <3>2, <3>3 DEF TypeOK
  <2>3. QED
    BY <1>10, <2>1, <2>2 DEF Heartbeat, TypeOK
<1>11. ASSUME NEW w \in Workers, NEW s \in Slots, Process(w, s) PROVE TypeOK'
  <2>0. run[s].attempt \in 0..MaxAttempts /\ MaxAttempts \in 0..MaxAttempts
    BY DEF TypeOK, Runs
  <2>1. ASSUME NEW outage \in BOOLEAN, Fail(w, s, outage) PROVE TypeOK'
    <3>1. run' \in [Slots -> Runs]
      BY <2>0, <2>1, ReleaseTyping DEF Fail, Statuses, Ended
    <3>2. QED
      BY <2>1, <3>1, RiskTyping, FinishTyping DEF Fail, TypeOK
  <2>2. CASE Skip(w, s)
    <3>1. run' \in [Slots -> Runs]
      BY <2>0, <2>2, ReleaseTyping DEF Skip, Statuses, Ended
    <3>2. QED
      BY <2>2, <3>1, RiskTyping, FinishTyping DEF Skip, TypeOK
  <2>3. ASSUME NEW d \in Digests, Pin(w, s, d) PROVE TypeOK'
    <3>1. run' \in [Slots -> Runs]
      BY <2>3 DEF Pin, TypeOK, Runs
    <3>2. ASSUME NEW k \in WorkerStates, k.pc = "fetch"
          PROVE  [k EXCEPT !.pc = "predict", !.digest = d] \in WorkerStates
      BY <3>2 DEF WorkerStates
    <3>3. worker' \in [Workers -> WorkerStates]
      BY <2>3, <3>2 DEF Pin, TypeOK
    <3>4. QED
      BY <2>3, <3>1, <3>3 DEF Pin, TypeOK
  <2>4. ASSUME NEW d \in Digests, Drift(w, s, d) PROVE TypeOK'
    <3>1. run' \in [Slots -> Runs]
      BY <2>0, <2>4, ReleaseTyping DEF Drift, Statuses, Ended
    <3>2. QED
      BY <2>4, <3>1, RiskTyping, FinishTyping DEF Drift, TypeOK
  <2>5. CASE Predict(w, s)
    <3>1. ASSUME NEW k \in WorkerStates, k.pc = "predict"
          PROVE  /\ [k EXCEPT !.pc = "respond"] \in WorkerStates
                 /\ k.digest \in Digests
      BY <3>1 DEF WorkerStates
    <3>2. worker[w] \in WorkerStates /\ worker[w].pc = "predict"
      BY <2>5 DEF Predict, TypeOK
    <3>3. worker' \in [Workers -> WorkerStates]
      BY <2>5, <3>1, <3>2 DEF Predict, TypeOK
    <3>4. sent' \in [Slots -> SUBSET Digests]
      BY <2>5, <3>1, <3>2 DEF Predict, TypeOK
    <3>5. QED
      BY <2>5, <3>3, <3>4 DEF Predict, TypeOK
  <2>6. ASSUME NEW risky \in BOOLEAN, Succeed(w, s, risky) PROVE TypeOK'
    <3>1. run' \in [Slots -> Runs]
      <4>1. CASE run[s].digest = worker[w].digest
        BY <2>6, <4>1 DEF Succeed, TypeOK, Runs, Statuses, Ended
      <4>2. CASE run[s].digest # worker[w].digest
        BY <2>0, <2>6, <4>2, ReleaseTyping DEF Succeed, Statuses, Ended
      <4>3. QED
        BY <4>1, <4>2
    <3>2. risk' \in Risks
      BY <2>6, RiskTyping DEF Succeed, TypeOK
    <3>3. QED
      BY <2>6, <3>1, <3>2, FinishTyping DEF Succeed, TypeOK
  <2>7. CASE LoseLease(w, s)
    BY <2>7, WorkerTyping DEF LoseLease, TypeOK
  <2>8. QED
    BY <1>11, <2>1, <2>2, <2>3, <2>4, <2>5, <2>6, <2>7 DEF Process
<1>12. CASE UNCHANGED vars
  BY <1>12 DEF vars, TypeOK
<1>13. QED
  BY <1>1, <1>2, <1>3, <1>4, <1>5, <1>6, <1>7, <1>8, <1>9, <1>10, <1>11, <1>12
     DEF Next

\* Type correctness of the prediction pipeline.
THEOREM TypeCorrect == Safety => []TypeOK
<1>1. Init => TypeOK
  BY DurationAssumption, NoneAssumption, WorkerTyping
     DEF Init, TypeOK, NoRun, Runs, Statuses, Risks
<1>2. QED
  BY <1>1, TypeStep, PTL DEF Safety

-----------------------------------------------------------------------------
(* What one step does to one run.                                          *)

RunTransition(s) ==
  \/ run'[s] = run[s]
  \/ /\ run[s].status = "ABSENT"
     /\ run'[s] = [run[s] EXCEPT !.status = "PENDING"]
  \/ /\ run[s].status \in Claimable /\ run[s].attempt < MaxAttempts
     /\ run'[s].digest = run[s].digest
     /\ \/ run'[s].status = "FAILED"
        \/ run'[s].status = "RUNNING" /\ \E v \in Workers : Claim(v, s)
  \/ /\ run[s].status = "RUNNING"
     /\ run'[s].status \in {"FAILED_STALE", "FAILED"}
     /\ run'[s].digest = run[s].digest
  \/ /\ run[s].status = "RUNNING"
     /\ run'[s].status = "SKIPPED_DATA_QUALITY"
     /\ run'[s].digest = run[s].digest
  \/ /\ run[s].status = "RUNNING"
     /\ run'[s].status = "SUCCEEDED"
     /\ run'[s].digest = run[s].digest
  \/ /\ run[s].status = "RUNNING" /\ run[s].digest = None
     /\ \E d \in Digests : run'[s] = [run[s] EXCEPT !.digest = d]
  \/ /\ run[s].status = "RUNNING"
     /\ \E t \in Readings : run[s].expires > t
     /\ \E e \in Nat : run'[s] = [run[s] EXCEPT !.expires = e]

LEMMA RunTransitions ==
  ASSUME TypeOK, [Next]_vars, NEW s \in Slots
  PROVE  RunTransition(s)
<1> USE DEF TypeOK, RunTransition
<1>0. run[s] \in Runs
  OBVIOUS
<1>1. CASE Tick \/ CloseRisk \/ UNCHANGED vars
  BY <1>1 DEF Tick, CloseRisk, vars
<1>2. ASSUME NEW u \in Slots, CreateSlot(u) PROVE RunTransition(s)
  BY <1>2 DEF CreateSlot
<1>3. ASSUME NEW w \in Workers, Crash(w) \/ Restart(w) \/ EndRound(w)
      PROVE  RunTransition(s)
  BY <1>3 DEF Crash, Restart, EndRound
<1>4. ASSUME NEW w \in Workers, ReconcileStale(w) PROVE RunTransition(s)
  <2>1. PICK t \in Readings :
           run' = [u \in Slots |->
                     IF u \in Stale(t)
                     THEN [run[u] EXCEPT !.status = "FAILED_STALE",
                                         !.owner = None, !.expires = 0]
                     ELSE run[u]]
    BY <1>4 DEF ReconcileStale
  <2>2. CASE s \in Stale(t)
    BY <1>0, <2>1, <2>2 DEF Stale, Runs
  <2>3. CASE s \notin Stale(t)
    BY <2>1, <2>3
  <2>4. QED
    BY <2>2, <2>3
<1>5. ASSUME NEW w \in Workers, NEW u \in Slots, Claim(w, u)
      PROVE  RunTransition(s)
  <2>1. PICK t \in Readings :
           /\ NextEligible(u, t)
           /\ run' = [run EXCEPT ![u].status = "RUNNING", ![u].owner = NameOf[w],
                                 ![u].expires = t + LeaseDuration,
                                 ![u].attempt = @ + 1]
    BY <1>5 DEF Claim
  <2>2. CASE s = u
    <3>1. run[s].status \in Claimable /\ run[s].attempt < MaxAttempts
      BY <2>1, <2>2 DEF NextEligible, Eligible
    <3>2. run'[s].status = "RUNNING" /\ run'[s].digest = run[s].digest
      BY <1>0, <2>1, <2>2 DEF Runs
    <3>3. QED
      BY <1>5, <2>2, <3>1, <3>2
  <2>3. CASE s # u
    BY <2>1, <2>3
  <2>4. QED
    BY <2>2, <2>3
<1>6. ASSUME NEW w \in Workers, NEW u \in Slots, ClaimInactive(w, u)
      PROVE  RunTransition(s)
  BY <1>0, <1>6 DEF ClaimInactive, NextEligible, Eligible, Runs
<1>7. ASSUME NEW w \in Workers, NEW u \in Slots, Heartbeat(w, u)
      PROVE  RunTransition(s)
  <2>1. CASE UNCHANGED run
    BY <2>1
  <2>2. CASE ~UNCHANGED run
    <3>1. PICK t \in Readings :
             /\ run[u].expires > t
             /\ run' = [run EXCEPT ![u].expires = t + LeaseDuration]
      BY <1>7, <2>2 DEF Heartbeat
    <3>2. t + LeaseDuration \in Nat
      BY DurationAssumption DEF Readings
    <3>3. run[u].status = "RUNNING"
      BY <1>7, <2>2 DEF Heartbeat, Holds
    <3>4. QED
      BY <3>1, <3>2, <3>3
  <2>3. QED
    BY <2>1, <2>2
<1>8. ASSUME NEW w \in Workers, NEW u \in Slots, Process(w, u)
      PROVE  RunTransition(s)
  <2> USE DEF Holds, Release, Runs
  <2>1. ASSUME NEW outage \in BOOLEAN, Fail(w, u, outage) PROVE RunTransition(s)
    BY <1>0, <2>1 DEF Fail
  <2>2. CASE Skip(w, u)
    BY <1>0, <2>2 DEF Skip
  <2>3. ASSUME NEW d \in Digests, Pin(w, u, d) PROVE RunTransition(s)
    BY <1>0, <2>3 DEF Pin
  <2>4. ASSUME NEW d \in Digests, Drift(w, u, d) PROVE RunTransition(s)
    BY <1>0, <2>4 DEF Drift
  <2>5. CASE Predict(w, u) \/ LoseLease(w, u)
    BY <2>5 DEF Predict, LoseLease
  <2>6. ASSUME NEW risky \in BOOLEAN, Succeed(w, u, risky) PROVE RunTransition(s)
    BY <1>0, <2>6 DEF Succeed
  <2>7. QED
    BY <1>8, <2>1, <2>2, <2>3, <2>4, <2>5, <2>6 DEF Process
<1>9. QED
  BY <1>1, <1>2, <1>3, <1>4, <1>5, <1>6, <1>7, <1>8 DEF Next

\* Succeeded, skipped and exhausted runs are never touched again.
THEOREM FinalRunsAreFinal == Safety => FinalIsFinal
<1>1. TypeOK /\ [Next]_vars
        => [\A s \in Slots : Final(run[s]) => run'[s] = run[s]]_vars
  <2> SUFFICES ASSUME TypeOK, [Next]_vars, NEW s \in Slots, Final(run[s])
               PROVE  run'[s] = run[s]
    OBVIOUS
  <2>1. RunTransition(s)
    BY RunTransitions
  <2>2. run[s].attempt \in Nat
    BY DurationAssumption DEF TypeOK, Runs
  <2>3. QED
    BY <2>1, <2>2, DurationAssumption DEF RunTransition, Final, Claimable
<1>2. QED
  BY <1>1, TypeCorrect, PTL DEF Safety, FinalIsFinal

\* A pinned request snapshot is never replaced.
THEOREM PinsArePermanent == Safety => PinIsPermanent
<1>1. TypeOK /\ [Next]_vars
        => [\A s \in Slots : run[s].digest # None
                                => run'[s].digest = run[s].digest]_vars
  <2> SUFFICES ASSUME TypeOK, [Next]_vars, NEW s \in Slots, run[s].digest # None
               PROVE  run'[s].digest = run[s].digest
    OBVIOUS
  <2>1. RunTransition(s)
    BY RunTransitions
  <2>2. run[s] \in Runs
    BY DEF TypeOK
  <2>3. QED
    BY <2>1, <2>2 DEF RunTransition, Runs
<1>2. QED
  BY <1>1, TypeCorrect, PTL DEF Safety, PinIsPermanent

\* A lease that has run out is not extended.
THEOREM ExpiredLeasesStayExpired == Safety => NoResurrection
<1>1. TypeOK /\ [Next]_vars
        => [\A s \in Slots :
              /\ run[s].status = "RUNNING" /\ run'[s].status = "RUNNING"
              /\ run[s].expires + ClockLag <= now
              => run'[s].expires = run[s].expires]_vars
  <2> SUFFICES ASSUME TypeOK, [Next]_vars, NEW s \in Slots,
                      run[s].status = "RUNNING", run'[s].status = "RUNNING",
                      run[s].expires + ClockLag <= now
               PROVE  run'[s].expires = run[s].expires
    OBVIOUS
  <2>1. RunTransition(s)
    BY RunTransitions
  <2>2. run[s] \in Runs
    BY DEF TypeOK
  <2>3. \A t \in Readings : ~(run[s].expires > t)
    BY <2>2, DurationAssumption DEF Readings, TypeOK, Runs
  <2>4. QED
    BY <2>1, <2>2, <2>3 DEF RunTransition, Runs, Claimable
<1>2. QED
  BY <1>1, TypeCorrect, PTL DEF Safety, NoResurrection

-----------------------------------------------------------------------------
(* What one step does to the outcomes and to the risk row.                 *)

SameRounds == \A u \in Slots : RoundOf(run'[u]) = RoundOf(run[u])

\* Nothing happened that the rounds could see.
Unseen == SameRounds /\ risk' = risk

CloseUnseen == SameRounds /\ CloseRisk

Reopened(s) == /\ RoundOf(run[s]) = "void" /\ RoundOf(run'[s]) = "open"
               /\ \A u \in Slots \ {s} : RoundOf(run'[u]) = RoundOf(run[u])
               /\ risk' = risk

\* The runs in S ended without a result; s is the latest of them.
Voided(S, s) ==
  /\ S \subseteq Slots /\ s \in S /\ \A u \in S : u <= s
  /\ \A u \in S : /\ RoundOf(run[u]) \in {"open", "void"}
                  /\ RoundOf(run'[u]) = "void"
  /\ \A u \in Slots \ S : RoundOf(run'[u]) = RoundOf(run[u])
  /\ \/ risk' = ResetCounters(risk, s)
     \/ risk' = ResetCounters(WithRow(risk), s)

CountedRound(s, risky) ==
  /\ RoundOf(run[s]) = "open"
  /\ RoundOf(run'[s]) = IF risky THEN "risky" ELSE "healthy"
  /\ \A u \in Slots \ {s} : run'[u] = run[u]
  /\ risk' = CountRound(s, risky)

LEMMA ReleaseSummary ==
  ASSUME TypeOK, NEW w \in Workers, NEW s \in Slots, Holds(w, s),
         NEW status \in {"FAILED", "SKIPPED_DATA_QUALITY"}, NEW attempt,
         Release(s, status, attempt), risk' = ResetCounters(WithRow(risk), s)
  PROVE  Voided({s}, s)
<1>1. run[s] \in Runs /\ s <= s
  BY SlotsAssumption DEF TypeOK
<1>2. RoundOf(run[s]) = "open"
  BY DEF Holds, RoundOf, OutcomeOf
<1>3. RoundOf(run'[s]) = "void"
  BY <1>1 DEF TypeOK, Release, RoundOf, Runs
<1>4. \A u \in Slots \ {s} : run'[u] = run[u]
  BY DEF TypeOK, Release
<1>5. QED
  BY <1>1, <1>2, <1>3, <1>4 DEF Voided

LEMMA StepSummary ==
  ASSUME TypeOK, [Next]_vars
  PROVE  \/ Unseen
         \/ CloseUnseen
         \/ \E s \in Slots : Reopened(s)
         \/ \E S \in SUBSET Slots, s \in Slots : Voided(S, s)
         \/ \E s \in Slots, risky \in BOOLEAN : CountedRound(s, risky)
<1> DEFINE Goal == \/ Unseen
                   \/ CloseUnseen
                   \/ \E s \in Slots : Reopened(s)
                   \/ \E S \in SUBSET Slots, s \in Slots : Voided(S, s)
                   \/ \E s \in Slots, risky \in BOOLEAN : CountedRound(s, risky)
<1>0. \A s \in Slots : run[s] \in Runs
  BY DEF TypeOK
<1>a. ASSUME NEW S \in SUBSET Slots, NEW s \in Slots, Voided(S, s) PROVE Goal
  BY <1>a
<1> HIDE DEF Goal
<1>1. CASE Tick \/ UNCHANGED vars
  BY <1>1 DEF Goal, Tick, vars, Unseen, SameRounds
<1>2. CASE CloseRisk
  BY <1>2 DEF Goal, CloseRisk, CloseUnseen, SameRounds
<1>3. ASSUME NEW s \in Slots, CreateSlot(s) PROVE Goal
  <2>1. SameRounds
    BY <1>0, <1>3 DEF CreateSlot, SameRounds, RoundOf, OutcomeOf, Runs, TypeOK
  <2>2. QED
    BY <1>3, <2>1 DEF Goal, CreateSlot, Unseen
<1>4. ASSUME NEW w \in Workers, Crash(w) \/ Restart(w) \/ EndRound(w)
      PROVE  Goal
  BY <1>4 DEF Goal, Crash, Restart, EndRound, Unseen, SameRounds
<1>5. ASSUME NEW w \in Workers, ReconcileStale(w) PROVE Goal
  <2>1. PICK t \in Readings :
           /\ run' = [u \in Slots |->
                        IF u \in Stale(t)
                        THEN [run[u] EXCEPT !.status = "FAILED_STALE",
                                            !.owner = None, !.expires = 0]
                        ELSE run[u]]
           /\ \/ Stale(t) = {} /\ UNCHANGED risk
              \/ \E s \in Stale(t) : /\ \A u \in Stale(t) : u <= s
                                     /\ risk' = ResetCounters(risk, s)
    BY <1>5 DEF ReconcileStale
  <2>2. \A u \in Stale(t) : u \in Slots /\ run[u].status = "RUNNING"
    BY DEF Stale
  <2>3. ASSUME NEW u \in Stale(t)
        PROVE  RoundOf(run[u]) = "open" /\ RoundOf(run'[u]) = "void"
    <3>1. u \in Slots /\ run[u] \in Runs /\ run[u].status = "RUNNING"
      BY <1>0, <2>2
    <3>2. run'[u] = [run[u] EXCEPT !.status = "FAILED_STALE",
                                   !.owner = None, !.expires = 0]
      BY <2>1, <3>1
    <3>3. QED
      BY <3>1, <3>2 DEF RoundOf, OutcomeOf, Runs
  <2>4. \A u \in Slots \ Stale(t) : run'[u] = run[u]
    BY <2>1
  <2>5. CASE Stale(t) = {} /\ UNCHANGED risk
    BY <2>4, <2>5 DEF Goal, Unseen, SameRounds
  <2>6. ASSUME NEW s \in Stale(t), \A u \in Stale(t) : u <= s,
               risk' = ResetCounters(risk, s)
        PROVE  Goal
    <3>1. Stale(t) \in SUBSET Slots /\ s \in Slots
      BY <2>2
    <3>2. Voided(Stale(t), s)
      BY <2>3, <2>4, <2>6, <3>1 DEF Voided
    <3>3. QED
      BY <1>a, <3>1, <3>2
  <2>7. QED
    BY <2>1, <2>5, <2>6
<1>6. ASSUME NEW w \in Workers, NEW s \in Slots, Claim(w, s) PROVE Goal
  <2>1. \A u \in Slots \ {s} : run'[u] = run[u]
    BY <1>6 DEF Claim, TypeOK
  <2>2. RoundOf(run'[s]) = "open"
    BY <1>0, <1>6 DEF Claim, RoundOf, OutcomeOf, Runs, TypeOK
  <2>3. RoundOf(run[s]) \in {"open", "void"}
    BY <1>6 DEF Claim, NextEligible, Eligible, Claimable, RoundOf, OutcomeOf
  <2>4. risk' = risk
    BY <1>6 DEF Claim
  <2>5. QED
    BY <2>1, <2>2, <2>3, <2>4 DEF Goal, Unseen, SameRounds, Reopened
<1>7. ASSUME NEW w \in Workers, NEW s \in Slots, ClaimInactive(w, s) PROVE Goal
  <2>1. \A u \in Slots \ {s} : run'[u] = run[u]
    BY <1>7 DEF ClaimInactive, TypeOK
  <2>2. RoundOf(run'[s]) = "void"
    BY <1>0, <1>7 DEF ClaimInactive, RoundOf, Runs, TypeOK
  <2>3. RoundOf(run[s]) \in {"open", "void"}
    BY <1>7
       DEF ClaimInactive, NextEligible, Eligible, Claimable, RoundOf, OutcomeOf
  <2>4. Voided({s}, s)
    <3>1. s <= s /\ risk' = ResetCounters(risk, s)
      BY <1>7, SlotsAssumption DEF ClaimInactive
    <3>2. QED
      BY <2>1, <2>2, <2>3, <3>1 DEF Voided
  <2>5. QED
    BY <1>a, <2>4
<1>8. ASSUME NEW w \in Workers, NEW s \in Slots, Heartbeat(w, s) PROVE Goal
  <2>1. SameRounds
    BY <1>0, <1>8
       DEF Heartbeat, SameRounds, RoundOf, OutcomeOf, Runs, TypeOK
  <2>2. QED
    BY <1>8, <2>1 DEF Goal, Heartbeat, Unseen
<1>9. ASSUME NEW w \in Workers, NEW s \in Slots, Process(w, s) PROVE Goal
  <2>0. CASE Voided({s}, s)
    BY <1>a, <2>0
  <2>1. ASSUME NEW outage \in BOOLEAN, Fail(w, s, outage) PROVE Goal
    BY <2>0, <2>1, ReleaseSummary DEF Fail
  <2>2. CASE Skip(w, s)
    BY <2>0, <2>2, ReleaseSummary DEF Skip
  <2>3. ASSUME NEW d \in Digests, Pin(w, s, d) PROVE Goal
    <3>1. SameRounds
      BY <1>0, <2>3 DEF Pin, SameRounds, RoundOf, OutcomeOf, Runs, TypeOK
    <3>2. QED
      BY <2>3, <3>1 DEF Goal, Pin, Unseen
  <2>4. ASSUME NEW d \in Digests, Drift(w, s, d) PROVE Goal
    BY <2>0, <2>4, ReleaseSummary DEF Drift
  <2>5. CASE Predict(w, s) \/ LoseLease(w, s)
    BY <2>5 DEF Goal, Predict, LoseLease, Unseen, SameRounds
  <2>6. ASSUME NEW risky \in BOOLEAN, Succeed(w, s, risky) PROVE Goal
    <3>1. CASE run[s].digest = worker[w].digest
      <4>1. RoundOf(run[s]) = "open"
        BY <2>6 DEF Succeed, Holds, RoundOf, OutcomeOf
      <4>2. RoundOf(run'[s]) = IF risky THEN "risky" ELSE "healthy"
        BY <1>0, <2>6, <3>1 DEF Succeed, RoundOf, OutcomeOf, Runs, TypeOK
      <4>3. \A u \in Slots \ {s} : run'[u] = run[u]
        BY <2>6, <3>1 DEF Succeed, TypeOK
      <4>4. CountedRound(s, risky)
        BY <2>6, <3>1, <4>1, <4>2, <4>3 DEF Succeed, CountedRound
      <4>5. QED
        BY <4>4 DEF Goal
    <3>2. CASE run[s].digest # worker[w].digest
      BY <2>0, <2>6, <3>2, ReleaseSummary DEF Succeed
    <3>3. QED
      BY <3>1, <3>2
  <2>7. QED
    BY <1>9, <2>1, <2>2, <2>3, <2>4, <2>5, <2>6 DEF Process
<1>10. QED
  BY <1>1, <1>2, <1>3, <1>4, <1>5, <1>6, <1>7, <1>8, <1>9 DEF Goal, Next

-----------------------------------------------------------------------------
(* The same, as the results and the fields of the risk row see it.         *)

SameOutcomes == \A u \in Slots : OutcomeOf(run'[u]) = OutcomeOf(run[u])

Quiet == /\ SameOutcomes
         /\ risk'.last = risk.last
         /\ risk'.riskCount = risk.riskCount
         /\ risk'.healthyCount = risk.healthyCount
         /\ risk'.active = risk.active

Interrupted(s) == /\ SameOutcomes
                  /\ OutcomeOf(run[s]) = "open"
                  /\ Newest(s)
                  /\ risk'.last = s
                  /\ risk'.riskCount = 0 /\ risk'.healthyCount = 0
                  /\ risk'.active = risk.active

Closed == /\ SameOutcomes
          /\ risk.active /\ ~risk'.active
          /\ risk'.last = risk.last
          /\ risk'.riskCount = 0 /\ risk'.healthyCount = 0

Counted(s, risky) ==
  /\ OutcomeOf(run[s]) = "open"
  /\ OutcomeOf(run'[s]) = IF risky THEN "risky" ELSE "healthy"
  /\ \A u \in Slots \ {s} : run'[u] = run[u]
  /\ risk' = CountRound(s, risky)

\* Resetting the counters, field by field.
LEMMA ResetFields ==
  ASSUME risk \in Risks, NEW s,
         \/ risk' = ResetCounters(risk, s)
         \/ risk' = ResetCounters(WithRow(risk), s)
  PROVE  /\ risk'.active = risk.active
         /\ risk.exists => risk'.exists
         /\ risk'.last # risk.last => risk'.exists
         /\ ~Newest(s) => /\ risk'.last = risk.last
                          /\ risk'.riskCount = risk.riskCount
                          /\ risk'.healthyCount = risk.healthyCount
         /\ Newest(s) =>
              \/ risk'.last = s /\ risk'.riskCount = 0 /\ risk'.healthyCount = 0
              \/ /\ ~risk.exists
                 /\ risk'.last = risk.last
                 /\ risk'.riskCount = risk.riskCount
                 /\ risk'.healthyCount = risk.healthyCount
  BY DEF Risks, ResetCounters, WithRow, ForgetStreaks

LEMMA RoundsShowOutcomes ==
  ASSUME NEW u \in Slots
  PROVE  /\ RoundOf(run'[u]) = RoundOf(run[u])
              => OutcomeOf(run'[u]) = OutcomeOf(run[u])
         /\ RoundOf(run[u]) \in {"open", "void"} => OutcomeOf(run[u]) = "open"
         /\ RoundOf(run'[u]) \in {"open", "void"} => OutcomeOf(run'[u]) = "open"
  BY DEF RoundOf, OutcomeOf

LEMMA OutcomeSummary ==
  ASSUME TypeOK, [Next]_vars
  PROVE  \/ Quiet
         \/ Closed
         \/ \E s \in Slots : Interrupted(s)
         \/ \E s \in Slots, risky \in BOOLEAN : Counted(s, risky)
<1>0. risk \in Risks
  BY DEF TypeOK
<1>1. CASE Unseen
  BY <1>1, RoundsShowOutcomes DEF Unseen, SameRounds, Quiet, SameOutcomes
<1>2. CASE CloseUnseen
  BY <1>0, <1>2, RoundsShowOutcomes
     DEF CloseUnseen, CloseRisk, SameRounds, Closed, SameOutcomes,
         ForgetStreaks, Risks
<1>3. ASSUME NEW s \in Slots, Reopened(s) PROVE Quiet
  <2>1. SameOutcomes
    BY <1>3, RoundsShowOutcomes DEF Reopened, SameOutcomes
  <2>2. QED
    BY <1>3, <2>1 DEF Reopened, Quiet
<1>4. ASSUME NEW S \in SUBSET Slots, NEW s \in Slots, Voided(S, s)
      PROVE  Quiet \/ Interrupted(s)
  <2>1. SameOutcomes /\ OutcomeOf(run[s]) = "open"
    BY <1>4, RoundsShowOutcomes DEF Voided, SameOutcomes
  <2>2. \/ risk' = ResetCounters(risk, s)
        \/ risk' = ResetCounters(WithRow(risk), s)
    BY <1>4 DEF Voided
  <2>3. QED
    BY <1>0, <2>1, <2>2, ResetFields DEF Quiet, Interrupted
<1>5. ASSUME NEW s \in Slots, NEW risky \in BOOLEAN, CountedRound(s, risky)
      PROVE  Counted(s, risky)
  BY <1>5, RoundsShowOutcomes DEF CountedRound, Counted, RoundOf
<1>6. QED
  BY <1>1, <1>2, <1>3, <1>4, <1>5, StepSummary

\* The counting of a round, field by field.
LEMMA CountFields ==
  ASSUME risk \in Risks, NEW s \in Slots, NEW risky \in BOOLEAN,
         risk' = CountRound(s, risky)
  PROVE  /\ ~Newest(s) => /\ risk'.last = risk.last
                          /\ risk'.riskCount = risk.riskCount
                          /\ risk'.healthyCount = risk.healthyCount
                          /\ risk'.active = risk.active
         /\ Newest(s) /\ risky =>
              /\ risk'.last = s
              /\ risk'.riskCount = risk.riskCount + 1
              /\ risk'.healthyCount = 0
              /\ risk'.active = (risk.active \/ risk.riskCount + 1 >= 2)
         /\ Newest(s) /\ ~risky =>
              /\ risk'.last = s
              /\ risk'.riskCount = 0
              /\ risk'.healthyCount = risk.healthyCount + 1
              /\ risk'.active = (risk.active /\ risk.healthyCount + 1 < 2)
  BY DEF Risks, CountRound, WithRow, AdvanceRiskState

-----------------------------------------------------------------------------
(* Streaks and verdicts rest on succeeded runs.                            *)

LEMMA EvidenceStep == TypeOK /\ RiskEvidence /\ [Next]_vars => RiskEvidence'
<1> SUFFICES ASSUME TypeOK, RiskEvidence, [Next]_vars PROVE RiskEvidence'
  OBVIOUS
<1> USE DEF RiskEvidence
<1>0. risk \in Risks /\ risk.riskCount \in Nat /\ risk.healthyCount \in Nat
  BY DEF TypeOK, Risks
<1>1. CASE Quiet
  BY <1>1 DEF Quiet, SameOutcomes
<1>2. CASE Closed
  BY <1>2 DEF Closed, SameOutcomes
<1>3. ASSUME NEW s \in Slots, Interrupted(s) PROVE RiskEvidence'
  BY <1>3 DEF Interrupted, SameOutcomes
<1>4. ASSUME NEW s \in Slots, NEW risky \in BOOLEAN, Counted(s, risky)
      PROVE  RiskEvidence'
  <2>1. \A u \in Slots : OutcomeOf(run[u]) # "open"
                            => u # s /\ OutcomeOf(run'[u]) = OutcomeOf(run[u])
    BY <1>4 DEF Counted
  <2>2. risk'.active => \/ risk.active
                        \/ risky /\ Newest(s) /\ risk.riskCount > 0
    <3>1. CASE ~Newest(s)
      BY <1>0, <1>4, <3>1, CountFields DEF Counted
    <3>2. CASE Newest(s) /\ risky
      <4>1. risk'.active = (risk.active \/ risk.riskCount + 1 >= 2)
        BY <1>0, <1>4, <3>2, CountFields DEF Counted
      <4>2. risk.riskCount + 1 >= 2 => risk.riskCount > 0
        BY <1>0
      <4>3. QED
        BY <3>2, <4>1, <4>2
    <3>3. CASE Newest(s) /\ ~risky
      <4>1. risk'.active = (risk.active /\ risk.healthyCount + 1 < 2)
        BY <1>0, <1>4, <3>3, CountFields DEF Counted
      <4>2. QED
        BY <4>1
    <3>4. QED
      BY <3>1, <3>2, <3>3
  <2>3. CASE ~Newest(s)
    BY <1>0, <1>4, <2>1, <2>3, CountFields DEF Counted
  <2>4. CASE Newest(s)
    <3>1. risk'.riskCount > 0 => risk'.last = s /\ OutcomeOf(run'[s]) = "risky"
      BY <1>0, <1>4, <2>4, CountFields DEF Counted
    <3>2. risk'.healthyCount > 0
            => risk'.last = s /\ OutcomeOf(run'[s]) = "healthy"
      BY <1>0, <1>4, <2>4, CountFields DEF Counted
    <3>3. ASSUME risk'.active
          PROVE  \E t, u \in Slots : /\ t < u
                                     /\ OutcomeOf(run'[t]) = "risky"
                                     /\ OutcomeOf(run'[u]) = "risky"
      <4>1. CASE risk.active
        BY <2>1, <4>1
      <4>2. CASE ~risk.active
        <5>1. risky /\ risk.riskCount > 0
          BY <2>2, <3>3, <4>2
        <5>2. risk.last \in Slots /\ OutcomeOf(run[risk.last]) = "risky"
          BY <5>1
        <5>3. risk.last < s
          <6>1. risk.last # s
            BY <2>1, <5>2
          <6>2. risk.last <= s
            BY <2>4, <5>2, NoneAssumption DEF Newest
          <6>3. risk.last \in Nat /\ s \in Nat
            BY <5>2, SlotsAssumption
          <6>4. QED
            BY <6>1, <6>2, <6>3
        <5>4. OutcomeOf(run'[s]) = "risky" /\ OutcomeOf(run'[risk.last]) = "risky"
          BY <1>4, <2>1, <5>1, <5>2 DEF Counted
        <5>5. QED
          BY <5>2, <5>3, <5>4
      <4>3. QED
        BY <4>1, <4>2
    <3>4. QED
      BY <3>1, <3>2, <3>3
  <2>5. QED
    BY <2>3, <2>4
<1>5. QED
  BY <1>1, <1>2, <1>3, <1>4, OutcomeSummary

\* An active risk always has two succeeded risky runs behind it, and no streak
\* survives a failed, skipped or stale attempt.
THEOREM EvidenceBehindRisk == Safety => []RiskEvidence
<1>1. Init => RiskEvidence
  BY DEF Init, RiskEvidence
<1>2. QED
  BY <1>1, EvidenceStep, TypeCorrect, PTL DEF Safety

\* No result lies beyond the last evaluated slot.
NothingBeyondLast ==
  \A s \in Slots : OutcomeOf(run[s]) # "open"
                     => risk.last \in Slots /\ s <= risk.last

LEMMA BeyondStep ==
  TypeOK /\ NothingBeyondLast /\ [Next]_vars => NothingBeyondLast'
<1> SUFFICES ASSUME TypeOK, NothingBeyondLast, [Next]_vars,
                    NEW u \in Slots, OutcomeOf(run'[u]) # "open"
             PROVE  risk'.last \in Slots /\ u <= risk'.last
  BY DEF NothingBeyondLast
<1>0. /\ risk \in Risks
      /\ \A s \in Slots : s \in Nat /\ s # None
  BY SlotsAssumption, NoneAssumption DEF TypeOK
<1>1. CASE Quiet \/ Closed
  BY <1>1 DEF Quiet, Closed, SameOutcomes, NothingBeyondLast
<1>2. ASSUME NEW s \in Slots, Interrupted(s)
      PROVE  risk'.last \in Slots /\ u <= risk'.last
  BY <1>0, <1>2 DEF Interrupted, SameOutcomes, NothingBeyondLast, Newest
<1>3. ASSUME NEW s \in Slots, NEW risky \in BOOLEAN, Counted(s, risky)
      PROVE  risk'.last \in Slots /\ u <= risk'.last
  <2>1. u = s \/ OutcomeOf(run[u]) # "open"
    BY <1>3 DEF Counted
  <2>2. CASE Newest(s)
    BY <1>0, <1>3, <2>1, <2>2, CountFields DEF Counted, NothingBeyondLast, Newest
  <2>3. CASE ~Newest(s)
    <3>1. risk'.last = risk.last /\ risk.last \in Slots /\ ~(risk.last <= s)
      BY <1>0, <1>3, <2>3, CountFields DEF Counted, Newest, Risks
    <3>2. QED
      BY <1>0, <2>1, <3>1 DEF NothingBeyondLast
  <2>4. QED
    BY <2>2, <2>3
<1>4. QED
  BY <1>1, <1>2, <1>3, OutcomeSummary

\* The risk state is never rewound by an older round that finishes late.
THEOREM NewestWins == Safety => NewestRoundWins
<1>1. Init => NothingBeyondLast
  BY DEF Init, NoRun, NothingBeyondLast, OutcomeOf
<1>2. TypeOK /\ RiskEvidence /\ NothingBeyondLast /\ [Next]_vars
        => [/\ risk.last # None => risk'.last # None /\ risk.last <= risk'.last
            /\ risk'.active /\ ~risk.active
                 => \A s \in Slots : OutcomeOf(run[s]) # "open"
                                        => s < risk'.last]_vars
  <2> SUFFICES ASSUME TypeOK, RiskEvidence, NothingBeyondLast, [Next]_vars
      PROVE  /\ risk.last # None => risk'.last # None /\ risk.last <= risk'.last
             /\ risk'.active /\ ~risk.active
                  => \A s \in Slots : OutcomeOf(run[s]) # "open" => s < risk'.last
    OBVIOUS
  <2> DEFINE Goal ==
        /\ risk.last # None => risk'.last # None /\ risk.last <= risk'.last
        /\ risk'.active /\ ~risk.active
             => \A s \in Slots : OutcomeOf(run[s]) # "open" => s < risk'.last
  <2>0. /\ risk \in Risks
        /\ \A s \in Slots : s \in Nat /\ s # None
        /\ risk.last \in Slots \cup {None} /\ risk.riskCount \in Nat
        /\ risk.healthyCount \in Nat
    BY SlotsAssumption, NoneAssumption DEF TypeOK, Risks
  <2>1. CASE Quiet \/ Closed
    BY <2>0, <2>1 DEF Quiet, Closed
  <2>2. ASSUME NEW s \in Slots, Interrupted(s) PROVE Goal
    BY <2>0, <2>2 DEF Interrupted, Newest
  <2>3. ASSUME NEW s \in Slots, NEW risky \in BOOLEAN, Counted(s, risky) PROVE Goal
    <3>1. CASE ~Newest(s)
      BY <2>0, <2>3, <3>1, CountFields DEF Counted
    <3>2. CASE Newest(s)
      <4>1. risk'.last = s /\ OutcomeOf(run[s]) = "open"
        BY <2>0, <2>3, <3>2, CountFields DEF Counted
      <4>2. risk.last # None => risk.last <= s
        BY <3>2 DEF Newest
      <4>3. ASSUME risk'.active, ~risk.active, NEW u \in Slots,
                   OutcomeOf(run[u]) # "open"
            PROVE  u < s
        <5>1. risky /\ risk.riskCount > 0
          <6>1. CASE risky
            <7>1. risk'.active = (risk.active \/ risk.riskCount + 1 >= 2)
              BY <2>0, <2>3, <3>2, <6>1, CountFields DEF Counted
            <7>2. risk.riskCount + 1 >= 2 => risk.riskCount > 0
              BY <2>0
            <7>3. QED
              BY <4>3, <6>1, <7>1, <7>2
          <6>2. CASE ~risky
            <7>1. risk'.active = (risk.active /\ risk.healthyCount + 1 < 2)
              BY <2>0, <2>3, <3>2, <6>2, CountFields DEF Counted
            <7>2. QED
              BY <4>3, <7>1
          <6>3. QED
            BY <6>1, <6>2
        <5>2. risk.last \in Slots /\ OutcomeOf(run[risk.last]) = "risky"
          BY <5>1 DEF RiskEvidence
        <5>3. risk.last # s /\ u <= risk.last
          BY <4>1, <4>3, <5>2 DEF NothingBeyondLast
        <5>4. QED
          BY <2>0, <4>2, <5>2, <5>3
      <4>4. QED
        BY <2>0, <4>1, <4>2, <4>3
    <3>3. QED
      BY <3>1, <3>2
  <2>4. QED
    BY <2>1, <2>2, <2>3, OutcomeSummary
<1>3. QED
  BY <1>1, <1>2, BeyondStep, TypeCorrect, EvidenceBehindRisk, PTL
     DEF Safety, NewestRoundWins

-----------------------------------------------------------------------------
(* The counters implement the promised rounds.                             *)

\* The two streaks exclude one another, so the latest evidence is unique.
LEMMA OneStreak ==
  RiskEvidence => ~(risk.riskCount > 0 /\ risk.healthyCount > 0)
  BY DEF RiskEvidence

\* The row exists once a round counted.
RowKnown == risk.last # None => risk.exists

LEMMA RowStep == TypeOK /\ RowKnown /\ [Next]_vars => RowKnown'
<1> SUFFICES ASSUME TypeOK, RowKnown, [Next]_vars PROVE RowKnown'
  OBVIOUS
<1>0. risk \in Risks
  BY DEF TypeOK
<1>1. CASE Unseen
  BY <1>1 DEF Unseen, RowKnown
<1>2. CASE CloseUnseen
  BY <1>0, <1>2 DEF CloseUnseen, CloseRisk, RowKnown, ForgetStreaks, Risks
<1>3. ASSUME NEW s \in Slots, Reopened(s) PROVE RowKnown'
  BY <1>3 DEF Reopened, RowKnown
<1>4. ASSUME NEW S \in SUBSET Slots, NEW s \in Slots, Voided(S, s)
      PROVE  RowKnown'
  BY <1>0, <1>4, ResetFields DEF Voided, RowKnown
<1>5. ASSUME NEW s \in Slots, NEW risky \in BOOLEAN, CountedRound(s, risky)
      PROVE  RowKnown'
  BY <1>0, <1>5
     DEF CountedRound, RowKnown, CountRound, WithRow, AdvanceRiskState, Risks
<1>6. QED
  BY <1>1, <1>2, <1>3, <1>4, <1>5, StepSummary

LEMMA RoundsStep ==
  TypeOK /\ RiskEvidence /\ RowKnown /\ [Next]_vars
    => [Rounds!RoundsNext]_(Rounds!rounds)
<1> SUFFICES ASSUME TypeOK, RiskEvidence, RowKnown, [Next]_vars
             PROVE  [Rounds!RoundsNext]_(Rounds!rounds)
  OBVIOUS
<1> DEFINE outcomes == [s \in Slots |-> RoundOf(run[s])]
<1>0. risk \in Risks /\ risk.riskCount \in Nat /\ risk.healthyCount \in Nat
      /\ risk.active \in BOOLEAN
  BY DEF TypeOK, Risks
<1>a. SameRounds => outcomes' = outcomes
  BY DEF SameRounds
<1>b. risk' = risk => /\ risk'.last = risk.last
                      /\ LatestEvidence' = LatestEvidence
                      /\ risk'.active = risk.active
  BY DEF LatestEvidence
<1>1. CASE Unseen
  BY <1>1, <1>a, <1>b DEF Unseen, Rounds!rounds
<1>2. CASE CloseUnseen
  <2>1. /\ risk.active = TRUE /\ risk'.active = FALSE
        /\ risk'.last = risk.last
        /\ risk'.riskCount = 0 /\ risk'.healthyCount = 0
    BY <1>0, <1>2 DEF CloseUnseen, CloseRisk, ForgetStreaks, Risks
  <2>2. LatestEvidence' = "nothing"
    BY <2>1 DEF LatestEvidence
  <2>3. Rounds!Close
    BY <1>2, <1>a, <2>1, <2>2 DEF CloseUnseen, Rounds!Close
  <2>4. QED
    BY <2>3 DEF Rounds!RoundsNext
<1>3. ASSUME NEW s \in Slots, Reopened(s) PROVE Rounds!RoundsNext
  <2>1. outcomes[s] = "void" /\ outcomes' = [outcomes EXCEPT ![s] = "open"]
    BY <1>3 DEF Reopened
  <2>2. Rounds!Reopen(s)
    BY <1>3, <1>b, <2>1 DEF Reopened, Rounds!Reopen
  <2>3. QED
    BY <2>2 DEF Rounds!RoundsNext
<1>4. ASSUME NEW S \in SUBSET Slots, NEW s \in Slots, Voided(S, s)
      PROVE  Rounds!RoundsNext
  <2>1. /\ \A u \in S : outcomes[u] \in {"open", "void"}
        /\ outcomes' = [u \in Slots |-> IF u \in S THEN "void" ELSE outcomes[u]]
        /\ s \in S /\ \A u \in S : u <= s
    BY <1>4 DEF Voided
  <2>2. risk'.active = risk.active
    BY <1>0, <1>4, ResetFields DEF Voided
  <2>3. Rounds!Interrupt(S)
    <3>1. \/ Rounds!Current(s) /\ risk'.last = s /\ LatestEvidence' = "nothing"
          \/ /\ ~Rounds!Current(s) \/ risk.last = None
             /\ risk'.last = risk.last /\ LatestEvidence' = LatestEvidence
      BY <1>0, <1>4, ResetFields
         DEF Voided, LatestEvidence, RowKnown, Newest, Rounds!Current
    <3>2. QED
      BY <2>1, <2>2, <3>1 DEF Rounds!Interrupt
  <2>4. QED
    BY <2>3 DEF Rounds!RoundsNext
<1>5. ASSUME NEW s \in Slots, NEW risky \in BOOLEAN, CountedRound(s, risky)
      PROVE  Rounds!RoundsNext
  <2> DEFINE e == IF risky THEN "risky" ELSE "healthy"
  <2>1. outcomes[s] = "open" /\ outcomes' = [outcomes EXCEPT ![s] = e]
    <3>1. /\ RoundOf(run[s]) = "open" /\ RoundOf(run'[s]) = e
          /\ \A u \in Slots \ {s} : run'[u] = run[u]
      BY <1>5 DEF CountedRound
    <3>2. \A u \in Slots \ {s} : outcomes'[u] = outcomes[u]
      BY <3>1
    <3>3. outcomes[s] = "open" /\ outcomes'[s] = e
      BY <3>1
    <3> HIDE DEF e
    <3>4. QED
      BY <3>2, <3>3
  <2>2. CASE ~Newest(s)
    <3>1. /\ risk'.last = risk.last /\ risk'.active = risk.active
          /\ LatestEvidence' = LatestEvidence
      BY <1>0, <1>5, <2>2, CountFields DEF CountedRound, LatestEvidence
    <3>2. Rounds!Conclude(s, e)
      BY <2>1, <2>2, <3>1 DEF Rounds!Conclude, Rounds!Current, Newest
    <3>3. QED
      BY <3>2 DEF Rounds!RoundsNext
  <2>3. CASE Newest(s)
    <3>1. risk'.last = s
      BY <1>0, <1>5, <2>3, CountFields DEF CountedRound
    <3>2. LatestEvidence' = e
      BY <1>0, <1>5, <2>3, CountFields DEF CountedRound, LatestEvidence
    <3>3. risk'.active = IF e = "risky"
                         THEN risk.active \/ LatestEvidence = "risky"
                         ELSE risk.active /\ LatestEvidence # "healthy"
      BY <1>0, <1>5, <2>3, CountFields, OneStreak DEF CountedRound, LatestEvidence
    <3>4. Rounds!Conclude(s, e)
      BY <2>1, <2>3, <3>1, <3>2, <3>3 DEF Rounds!Conclude, Rounds!Current, Newest
    <3>5. QED
      BY <3>4 DEF Rounds!RoundsNext
  <2>4. QED
    BY <2>2, <2>3
<1>6. QED
  BY <1>1, <1>2, <1>3, <1>4, <1>5, StepSummary

\* Refinement: runs, leases, retries and counters amount to the rounds of
\* RiskRounds.
THEOREM PipelineImplementsRounds == Safety => ImplementsRounds
<1>1. Init => Rounds!RoundsInit
  BY DEF Init, NoRun, Rounds!RoundsInit, RoundOf, OutcomeOf, LatestEvidence
<1>2. Init => RowKnown
  BY DEF Init, RowKnown
<1>3. QED
  BY <1>1, <1>2, RowStep, RoundsStep, TypeCorrect, EvidenceBehindRisk, PTL
     DEF Safety, ImplementsRounds, Rounds!RoundsSpec

-----------------------------------------------------------------------------
(* What one step does to one worker.                                       *)

SameClaim(w) == /\ worker'[w].slot = worker[w].slot
                /\ worker'[w].attempt = worker[w].attempt

WorkerTransition(w) ==
  \/ worker'[w] = worker[w]
  \/ worker'[w].pc \notin Processing
  \/ \E s \in Slots : Claim(w, s)
  \/ /\ worker'[w] = [worker[w] EXCEPT !.lost = TRUE]
     /\ worker[w].pc \in Processing
  \/ /\ worker[w].pc = "fetch" /\ SameClaim(w)
     /\ worker'[w].digest = run'[worker[w].slot].digest
  \/ worker[w].pc = "predict" /\ worker'[w] = [worker[w] EXCEPT !.pc = "respond"]

LEMMA WorkerTransitions ==
  ASSUME TypeOK, [Next]_vars, NEW w \in Workers
  PROVE  WorkerTransition(w)
<1> USE DEF TypeOK, WorkerTransition, SameClaim
<1>0. \A pc \in {"down", "idle", "loop"} : At(pc).pc \notin Processing
  BY WorkerTyping
<1>1. CASE Tick \/ CloseRisk \/ UNCHANGED vars
  BY <1>1 DEF Tick, CloseRisk, vars
<1>2. ASSUME NEW s \in Slots, CreateSlot(s) PROVE WorkerTransition(w)
  BY <1>2 DEF CreateSlot
<1>3. ASSUME NEW v \in Workers,
             Crash(v) \/ Restart(v) \/ EndRound(v) \/ ReconcileStale(v)
      PROVE  WorkerTransition(w)
  BY <1>0, <1>3 DEF Crash, Restart, EndRound, ReconcileStale
<1>4. ASSUME NEW v \in Workers, NEW s \in Slots, Claim(v, s)
      PROVE  WorkerTransition(w)
  <2>1. CASE v = w
    BY <1>4, <2>1
  <2>2. CASE v # w
    BY <1>4, <2>2 DEF Claim
  <2>3. QED
    BY <2>1, <2>2
<1>5. ASSUME NEW v \in Workers, NEW s \in Slots, ClaimInactive(v, s)
      PROVE  WorkerTransition(w)
  BY <1>5 DEF ClaimInactive
<1>6. ASSUME NEW v \in Workers, NEW s \in Slots, Heartbeat(v, s)
      PROVE  WorkerTransition(w)
  BY <1>6 DEF Heartbeat
<1>7. ASSUME NEW v \in Workers, NEW s \in Slots, Process(v, s)
      PROVE  WorkerTransition(w)
  <2>1. ASSUME Finish(v) PROVE WorkerTransition(w)
    BY <1>0, <2>1 DEF Finish
  <2>2. ASSUME NEW d \in Digests, Pin(v, s, d) PROVE WorkerTransition(w)
    <3>1. CASE v = w
      <4>1. worker[w] \in WorkerStates /\ run[s] \in Runs
        OBVIOUS
      <4>2. worker[w].slot = s /\ worker[w].pc = "fetch"
        BY <2>2, <3>1 DEF Pin
      <4>3. run'[s].digest = d
        BY <2>2, <4>1 DEF Pin, Runs
      <4>4. worker'[w].digest = d /\ SameClaim(w)
        BY <2>2, <3>1, <4>1, <4>2 DEF Pin, WorkerStates
      <4>5. QED
        BY <4>2, <4>3, <4>4
    <3>2. CASE v # w
      BY <2>2, <3>2 DEF Pin
    <3>3. QED
      BY <3>1, <3>2
  <2>3. CASE Predict(v, s)
    BY <2>3 DEF Predict
  <2>4. CASE LoseLease(v, s)
    BY <1>0, <2>4 DEF LoseLease
  <2>5. QED
    BY <1>7, <2>1, <2>2, <2>3, <2>4 DEF Process, Fail, Skip, Drift, Succeed
<1>8. QED
  BY <1>1, <1>2, <1>3, <1>4, <1>5, <1>6, <1>7 DEF Next

-----------------------------------------------------------------------------
(* One request per run.                                                    *)

\* A worker past the pin remembers the snapshot on record, whatever happened
\* to its lease: this is what makes the request it sends the right one.
PinKnown == \A w \in Workers :
              worker[w].pc \in {"predict", "respond"}
                => worker[w].digest = run[worker[w].slot].digest

RequestInv == PinKnown /\ OneRequestPerRun

LEMMA PinKnownStep == TypeOK /\ PinKnown /\ [Next]_vars => PinKnown'
<1> SUFFICES ASSUME TypeOK, PinKnown, [Next]_vars, NEW w \in Workers,
                    worker'[w].pc \in {"predict", "respond"}
             PROVE  worker'[w].digest = run'[worker'[w].slot].digest
  BY DEF PinKnown
<1>1. worker[w] \in WorkerStates
  BY DEF TypeOK
<1>2. CASE worker[w].pc \in {"predict", "respond"} /\ SameClaim(w)
           /\ worker'[w].digest = worker[w].digest
  <2> DEFINE s == worker[w].slot
  <2>1. s \in Slots /\ worker[w].digest \in Digests
    BY <1>1, <1>2 DEF WorkerStates
  <2>2. run[s].digest = worker[w].digest /\ run[s].digest # None /\ run[s] \in Runs
    BY <1>2, <2>1, NoneAssumption DEF PinKnown, TypeOK
  <2>3. RunTransition(s)
    BY <2>1, RunTransitions
  <2>4. run'[s].digest = run[s].digest
    BY <2>2, <2>3 DEF RunTransition, Runs
  <2>5. QED
    BY <1>2, <2>2, <2>4 DEF SameClaim
<1>3. WorkerTransition(w)
  BY WorkerTransitions
<1>4. CASE worker'[w] = worker[w]
  BY <1>2, <1>4 DEF SameClaim
<1>5. CASE \E s \in Slots : Claim(w, s)
  BY <1>5 DEF Claim, TypeOK, At
<1>6. CASE /\ worker'[w] = [worker[w] EXCEPT !.lost = TRUE]
           /\ worker[w].pc \in Processing
  BY <1>1, <1>2, <1>6 DEF SameClaim, WorkerStates
<1>7. CASE /\ worker[w].pc = "predict"
           /\ worker'[w] = [worker[w] EXCEPT !.pc = "respond"]
  BY <1>1, <1>2, <1>7 DEF SameClaim, WorkerStates
<1>8. CASE /\ worker[w].pc = "fetch" /\ SameClaim(w)
           /\ worker'[w].digest = run'[worker[w].slot].digest
  BY <1>8 DEF SameClaim
<1>9. QED
  BY <1>3, <1>4, <1>5, <1>6, <1>7, <1>8 DEF WorkerTransition, Processing

LEMMA SentStep ==
  ASSUME TypeOK, [Next]_vars
  PROVE  \/ sent' = sent
         \/ \E w \in Workers, s \in Slots :
              /\ worker[w].pc = "predict" /\ worker[w].slot = s
              /\ sent' = [sent EXCEPT ![s] = @ \cup {worker[w].digest}]
<1>1. ASSUME NEW w \in Workers, NEW s \in Slots, Process(w, s)
      PROVE  \/ sent' = sent
             \/ Predict(w, s)
  BY <1>1 DEF Process, Fail, Skip, Pin, Drift, Succeed, LoseLease
<1>2. ASSUME NEW w \in Workers, NEW s \in Slots,
             Claim(w, s) \/ ClaimInactive(w, s) \/ Heartbeat(w, s)
      PROVE  sent' = sent
  BY <1>2 DEF Claim, ClaimInactive, Heartbeat
<1>3. ASSUME NEW w \in Workers,
             Crash(w) \/ Restart(w) \/ ReconcileStale(w) \/ EndRound(w)
      PROVE  sent' = sent
  BY <1>3 DEF Crash, Restart, ReconcileStale, EndRound
<1>4. ASSUME NEW s \in Slots, CreateSlot(s) PROVE sent' = sent
  BY <1>4 DEF CreateSlot
<1>5. CASE Tick \/ CloseRisk \/ UNCHANGED vars
  BY <1>5 DEF Tick, CloseRisk, vars
<1>6. QED
  BY <1>1, <1>2, <1>3, <1>4, <1>5 DEF Next, Predict

LEMMA RequestStep == TypeOK /\ RequestInv /\ [Next]_vars => RequestInv'
<1> SUFFICES ASSUME TypeOK, PinKnown, OneRequestPerRun, [Next]_vars
             PROVE  RequestInv'
  BY DEF RequestInv
<1>1. PinKnown'
  BY PinKnownStep
<1>2. ASSUME NEW s \in Slots PROVE sent'[s] \subseteq {run'[s].digest} \ {None}
  <2>0. run[s] \in Runs /\ RunTransition(s)
    BY RunTransitions DEF TypeOK
  <2>1. sent[s] \subseteq {run[s].digest} \ {None}
    BY DEF OneRequestPerRun
  <2>2. run[s].digest # None => run'[s].digest = run[s].digest
    BY <2>0 DEF RunTransition, Runs
  <2>3. CASE sent'[s] = sent[s]
    BY <2>1, <2>2, <2>3
  <2>4. ASSUME NEW w \in Workers, worker[w].pc = "predict", worker[w].slot = s,
               sent'[s] = sent[s] \cup {worker[w].digest}
        PROVE  sent'[s] \subseteq {run'[s].digest} \ {None}
    <3>1. worker[w].digest \in Digests
      BY <2>4 DEF TypeOK, WorkerStates
    <3>2. worker[w].digest = run[s].digest /\ run[s].digest # None
      BY <2>4, <3>1, NoneAssumption DEF PinKnown
    <3>3. QED
      BY <2>1, <2>2, <2>4, <3>2
  <2>5. QED
    BY <2>3, <2>4, SentStep DEF TypeOK
<1>3. QED
  BY <1>1, <1>2 DEF RequestInv, OneRequestPerRun

\* Every request PDM ever gets for a run is the pinned one, even if two
\* workers use the same owner name.
THEOREM RequestsNeverDrift == Safety => []OneRequestPerRun
<1>1. Init => RequestInv
  BY DEF Init, RequestInv, PinKnown, OneRequestPerRun, At
<1>2. RequestInv => OneRequestPerRun
  BY DEF RequestInv
<1>3. QED
  BY <1>1, <1>2, RequestStep, TypeCorrect, PTL DEF Safety

-----------------------------------------------------------------------------
(* Fencing.                                                                *)

UniqueNames == \A v, w \in Workers : NameOf[v] = NameOf[w] => v = w

LEMMA FencingStep ==
  ASSUME UniqueNames PROVE TypeOK /\ LeaseFencing /\ [Next]_vars => LeaseFencing'
<1> SUFFICES ASSUME TypeOK, LeaseFencing, [Next]_vars, NEW w \in Workers,
                    worker'[w].pc \in Processing,
                    Holds(w, worker[w].slot)'
             PROVE  worker'[w].attempt = run'[worker'[w].slot].attempt
  BY DEF LeaseFencing, Busy
<1> DEFINE s == worker'[w].slot
<1>1. s \in Slots /\ worker[w] \in WorkerStates
  BY TypeStep DEF TypeOK, WorkerStates, Processing
<1>2. run'[s].status = "RUNNING" /\ run'[s].owner = NameOf[w] /\ run[s] \in Runs
  BY <1>1 DEF Holds, TypeOK
<1>3. CASE \E v \in Workers : Claim(v, s)
  <2>1. PICK v \in Workers : Claim(v, s)
    BY <1>3
  <2>2. run'[s].owner = NameOf[v] /\ run'[s].attempt = run[s].attempt + 1
    BY <1>1, <1>2, <2>1 DEF Claim, TypeOK, Runs
  <2>3. v = w
    BY <1>2, <2>2 DEF UniqueNames
  <2>4. ASSUME NEW u \in Slots, Claim(w, u)
        PROVE  worker'[w].attempt = run[u].attempt + 1
    BY <2>4 DEF Claim, TypeOK, At
  <2>5. QED
    BY <1>1, <2>1, <2>2, <2>3, <2>4
<1>4. CASE ~\E v \in Workers : Claim(v, s)
  <2>1. RunTransition(s)
    BY <1>1, RunTransitions
  <2>2. /\ run[s].status = "RUNNING"
        /\ run[s].owner = run'[s].owner /\ run[s].attempt = run'[s].attempt
    BY <1>2, <1>4, <2>1 DEF RunTransition, Runs
  <2>3. WorkerTransition(w)
    BY WorkerTransitions
  <2>4. ~\E u \in Slots : Claim(w, u)
    <3>1. ASSUME NEW u \in Slots, Claim(w, u) PROVE worker'[w].slot = u
      BY <3>1 DEF Claim, TypeOK, At
    <3>2. QED
      BY <1>4, <3>1
  <2>5. worker[w].pc \in Processing /\ SameClaim(w)
    BY <1>1, <2>3, <2>4 DEF WorkerTransition, SameClaim, WorkerStates, Processing
  <2>6. worker[w].attempt = run[s].attempt
    BY <1>2, <2>2, <2>5 DEF LeaseFencing, Busy, Holds, SameClaim
  <2>7. QED
    BY <2>2, <2>5, <2>6 DEF SameClaim
<1>5. QED
  BY <1>3, <1>4

\* When no two workers share an owner name, only the claimant of the current
\* attempt can finish it.
THEOREM Fencing == ASSUME UniqueNames PROVE Safety => []LeaseFencing
<1>1. Init => LeaseFencing
  BY WorkerTyping DEF Init, LeaseFencing, Busy
<1>2. QED
  BY <1>1, FencingStep, TypeCorrect, PTL DEF Safety
=============================================================================
