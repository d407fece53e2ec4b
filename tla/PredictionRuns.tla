--------------------------- MODULE PredictionRuns ---------------------------
(***************************************************************************)
(* The prediction pipeline of one measurement: the scheduler that creates  *)
(* one run per 15-minute slot, the workers that claim runs under a lease,  *)
(* keep it alive, fetch telemetry, pin and send the request and record the *)
(* result, and the risk state those results drive                          *)
(* (workers/prediction.py, repositories/prediction_runs.py,                *)
(* services/prediction_runs.py).                                           *)
(*                                                                         *)
(* Every database transaction takes its row locks with FOR UPDATE before   *)
(* it reads, so it is one action.  Between two transactions of a worker    *)
(* everything else may happen: other workers, the clock, a crash.          *)
(* A slot is named by the moment it is scheduled at.                       *)
(***************************************************************************)
EXTENDS RiskPolicy

CONSTANTS Slots,          \* scheduled_at of the slots, in units of 5 minutes
          Workers,        \* worker processes
          Names,          \* values of lease_owner
          NameOf,         \* the lease_owner each worker uses
          Digests,        \* request snapshots a telemetry window may yield
          LeaseDuration,  \* LEASE_DURATION
          SlotDuration,   \* SLOT_DURATION
          MaxAttempts,    \* MAX_ATTEMPTS
          ClockLag,       \* how old a clock reading may be when it is used
          Horizon,        \* bound on the clock
          None            \* SQL NULL

ASSUME SlotsAssumption == Slots \subseteq Nat
ASSUME NamesAssumption == NameOf \in [Workers -> Names] /\ None \notin Names
ASSUME NoneAssumption == None \notin Slots /\ None \notin Digests
ASSUME DurationAssumption == /\ LeaseDuration \in Nat \ {0}
                             /\ SlotDuration \in Nat \ {0}
                             /\ MaxAttempts \in Nat \ {0}
                             /\ ClockLag \in Nat
                             /\ Horizon \in Nat

VARIABLES now,      \* the true time
          run,      \* prediction_runs, by slot
          risk,     \* the risk_evaluation_states row of the measurement
          worker,   \* where each worker is, and what it remembers of its claim
          sent      \* the snapshots PDM was asked to predict, by slot

vars == <<now, run, risk, worker, sent>>

-----------------------------------------------------------------------------
Ended == {"SUCCEEDED", "SKIPPED_DATA_QUALITY", "FAILED", "FAILED_STALE"}

\* Mutant: a run may be claimed whatever it ended with.
ClaimableEnded == {"PENDING"} \cup Ended

Claimable == {"PENDING", "FAILED", "FAILED_STALE"}      \* CLAIMABLE_STATUSES
Statuses == {"ABSENT", "PENDING", "RUNNING"} \cup Ended

\* risky is the round evidence a succeeded run stores.
Runs == [status : Statuses, owner : Names \cup {None}, expires : Nat,
         attempt : 0..MaxAttempts, digest : Digests \cup {None},
         risky : BOOLEAN]

NoRun == [status |-> "ABSENT", owner |-> None, expires |-> 0, attempt |-> 0,
          digest |-> None, risky |-> FALSE]

\* exists: the row was inserted; last: last_prediction_run_id.
Risks == [exists : BOOLEAN, last : Slots \cup {None}, riskCount : Nat,
          healthyCount : Nat, active : BOOLEAN]

\* idle: between rounds; loop: in the claim loop of run_once; fetch: reading
\* telemetry; predict: request pinned; respond: request sent.
Processing == {"fetch", "predict", "respond"}

\* lost: the heartbeat task ended with PREDICTION_LEASE_LOST, which run_once
\* only raises once process() is over.
WorkerStates ==
  [pc : {"down", "idle", "loop"}, slot : {None}, attempt : {0},
   digest : {None}, lost : {FALSE}]
    \cup
  [pc : {"fetch"}, slot : Slots, attempt : 1..MaxAttempts,
   digest : {None}, lost : BOOLEAN]
    \cup
  [pc : {"predict", "respond"}, slot : Slots, attempt : 1..MaxAttempts,
   digest : Digests, lost : BOOLEAN]

At(pc) == [pc |-> pc, slot |-> None, attempt |-> 0, digest |-> None,
           lost |-> FALSE]

TypeOK == /\ now \in Nat
          /\ run \in [Slots -> Runs]
          /\ risk \in Risks
          /\ worker \in [Workers -> WorkerStates]
          /\ sent \in [Slots -> SUBSET Digests]

Init == /\ now = 0
        /\ run = [s \in Slots |-> NoRun]
        /\ risk = [exists |-> FALSE, last |-> None, riskCount |-> 0,
                   healthyCount |-> 0, active |-> FALSE]
        /\ worker = [w \in Workers |-> At("idle")]
        /\ sent = [s \in Slots |-> {}]

-----------------------------------------------------------------------------
(* Time, the scheduler and the process manager.                            *)

Tick == /\ now < Horizon
        /\ now' = now + 1
        /\ UNCHANGED <<run, risk, worker, sent>>

\* What self._clock() may have returned by the time the transaction that
\* takes it as an argument executes.
Readings == {t \in 0..now : t + ClockLag >= now}

\* floor_slot of t is s.
InSlot(s, t) == s <= t /\ t < s + SlotDuration

\* Scheduler.schedule: the slot the clock is in, once.
CreateSlot(s) ==
  /\ \E t \in Readings : InSlot(s, t)
  /\ run[s].status = "ABSENT"
  /\ run' = [run EXCEPT ![s].status = "PENDING"]
  /\ UNCHANGED <<now, risk, worker, sent>>

\* A worker process dies, or stops on request; a transaction that has not
\* committed leaves no trace.
Crash(w) == /\ worker[w].pc # "down"
            /\ worker' = [worker EXCEPT ![w] = At("down")]
            /\ UNCHANGED <<now, run, risk, sent>>

Restart(w) == /\ worker[w].pc = "down"
              /\ worker' = [worker EXCEPT ![w] = At("idle")]
              /\ UNCHANGED <<now, run, risk, sent>>

-----------------------------------------------------------------------------
(* The risk row.                                                           *)

WithRow(r) == [r EXCEPT !.exists = TRUE]

\* Mutant: the order of the slots is not looked at.
NewestAlways(s) == TRUE

\* _is_newest_run
Newest(s) == risk.last = None \/ risk.last <= s

\* Mutant: a round without a result leaves the counters.
ResetNothing(r, s) == r

\* _reset_risk_counters_for_run; r is the row after the upsert, if any.
ResetCounters(r, s) ==
  IF r.exists /\ Newest(s)
  THEN [ForgetStreaks(r) EXCEPT !.last = s]
  ELSE r

\* The part of succeed() that follows the run's own columns.
CountRound(s, risky) ==
  IF Newest(s)
  THEN [AdvanceRiskState(WithRow(risk), risky) EXCEPT !.last = s]
  ELSE WithRow(risk)

\* MaintenanceActionService._close_risk, as far as the risk row goes.
CloseRisk == /\ risk.active
             /\ risk' = [ForgetStreaks(risk) EXCEPT !.active = FALSE]
             /\ UNCHANGED <<now, run, worker, sent>>

-----------------------------------------------------------------------------
(* The lease: PredictionRunRepository.                                     *)

\* Mutant: a lease that runs out in the last attempt is left alone.
StaleRetryable(t) == {s \in Slots : /\ run[s].status = "RUNNING"
                                   /\ run[s].expires <= t
                                   /\ run[s].attempt < MaxAttempts}

Stale(t) == {s \in Slots : run[s].status = "RUNNING" /\ run[s].expires <= t}

\* reconcile_stale: every expired lease ends, then the risk row forgets its
\* streaks once per run that is not older than the last one evaluated; the
\* latest of them decides, whatever their order.
ReconcileStale(w) ==
  /\ worker[w].pc = "idle"
  /\ worker' = [worker EXCEPT ![w] = At("loop")]
  /\ \E t \in Readings :
       /\ run' = [s \in Slots |->
                    IF s \in Stale(t)
                    THEN [run[s] EXCEPT !.status = "FAILED_STALE",
                                        !.owner = None, !.expires = 0]
                    ELSE run[s]]
       /\ \/ Stale(t) = {} /\ UNCHANGED risk
          \/ \E s \in Stale(t) : /\ \A u \in Stale(t) : u <= s
                                 /\ risk' = ResetCounters(risk, s)
  /\ UNCHANGED <<now, sent>>

\* Mutant: the attempts are not counted.
EligibleForever(s, t) == /\ run[s].status \in Claimable
                         /\ s <= t /\ s > t - SlotDuration

Eligible(s, t) == /\ run[s].status \in Claimable
                  /\ run[s].attempt < MaxAttempts
                  /\ s <= t
                  /\ s > t - SlotDuration

\* The first eligible run at reading t.  The bound on the clock leaves room
\* for the lease to expire.
NextEligible(s, t) == /\ Eligible(s, t)
                      /\ \A u \in Slots : Eligible(u, t) => s <= u
                      /\ t + LeaseDuration + ClockLag <= Horizon

Claim(w, s) ==
  /\ worker[w].pc = "loop"
  /\ \E t \in Readings :
       /\ NextEligible(s, t)
       /\ run' = [run EXCEPT ![s].status = "RUNNING",
                             ![s].owner = NameOf[w],
                             ![s].expires = t + LeaseDuration,
                             ![s].attempt = @ + 1]
  /\ worker' = [worker EXCEPT ![w] = [At("fetch") EXCEPT
                                        !.slot = s,
                                        !.attempt = run[s].attempt + 1]]
  /\ UNCHANGED <<now, risk, sent>>

\* claim_next found the binding switched off: the run fails for good, the row
\* is reset if there is one, and the loop goes on in the same transaction.
ClaimInactive(w, s) ==
  /\ worker[w].pc = "loop"
  /\ \E t \in Readings : NextEligible(s, t)
  /\ run' = [run EXCEPT ![s].status = "FAILED", ![s].owner = None,
                        ![s].expires = 0, ![s].attempt = MaxAttempts]
  /\ risk' = ResetCounters(risk, s)
  /\ UNCHANGED <<now, worker, sent>>

\* claim_next returns None: nothing is eligible, or SKIP LOCKED passed over a
\* row another transaction holds.
EndRound(w) == /\ worker[w].pc = "loop"
               /\ worker' = [worker EXCEPT ![w] = At("idle")]
               /\ UNCHANGED <<now, run, risk, sent>>

\* Mutant: the owner is not compared.
HoldsAny(w, s) == run[s].status = "RUNNING"

\* The guard every transaction of a processing worker starts with.
Holds(w, s) == run[s].status = "RUNNING" /\ run[s].owner = NameOf[w]

\* Mutant: the owner extends a lease that has run out.
HeartbeatLate(w, s) ==
  /\ worker[w].pc \in Processing /\ worker[w].slot = s /\ ~worker[w].lost
  /\ Holds(w, s)
  /\ now + LeaseDuration + ClockLag <= Horizon
  /\ run' = [run EXCEPT ![s].expires = now + LeaseDuration]
  /\ UNCHANGED <<now, risk, worker, sent>>

\* HEARTBEAT_SECONDS after HEARTBEAT_SECONDS, while process() runs.
Heartbeat(w, s) ==
  /\ worker[w].pc \in Processing /\ worker[w].slot = s /\ ~worker[w].lost
  /\ \E t \in Readings :
       IF Holds(w, s) /\ run[s].expires > t
       THEN /\ t + LeaseDuration + ClockLag <= Horizon
            /\ run' = [run EXCEPT ![s].expires = t + LeaseDuration]
            /\ UNCHANGED worker
       ELSE /\ worker' = [worker EXCEPT ![w].lost = TRUE]
            /\ UNCHANGED run
  /\ UNCHANGED <<now, risk, sent>>

-----------------------------------------------------------------------------
(* Processing a claim: PredictionProcessor.process.                        *)

\* The run is over: the loop goes on, unless the heartbeat was lost.
Finish(w) == worker' = [worker EXCEPT
                          ![w] = IF worker[w].lost THEN At("down")
                                                   ELSE At("loop")]

Release(s, status, attempt) ==
  run' = [run EXCEPT ![s].status = status, ![s].owner = None,
                     ![s].expires = 0, ![s].attempt = attempt]

\* fail(): the credentials differ, ThingsBoard or PDM answered with an error,
\* or the forecast is invalid.  Only an outage, before the last attempt and
\* inside the slot, leaves the attempt counter for a retry.
Fail(w, s, outage) ==
  /\ worker[w].pc \in {"fetch", "respond"} /\ worker[w].slot = s
  /\ Holds(w, s)
  /\ \E t \in Readings :
       Release(s, "FAILED",
               IF outage /\ worker[w].attempt < MaxAttempts /\ t < s + SlotDuration
               THEN run[s].attempt ELSE MaxAttempts)
  /\ risk' = ResetCounters(WithRow(risk), s)
  /\ Finish(w)
  /\ UNCHANGED <<now, sent>>

\* skip(): the window is unusable.  After an earlier attempt pinned a request
\* that is a drift of the request, and a failure.
Skip(w, s) ==
  /\ worker[w].pc = "fetch" /\ worker[w].slot = s
  /\ Holds(w, s)
  /\ Release(s, IF run[s].digest = None THEN "SKIPPED_DATA_QUALITY" ELSE "FAILED",
             MaxAttempts)
  /\ risk' = ResetCounters(WithRow(risk), s)
  /\ Finish(w)
  /\ UNCHANGED <<now, sent>>

\* Mutant: every attempt puts its own snapshot on record.
PinAgain(w, s, d) ==
  /\ worker[w].pc = "fetch" /\ worker[w].slot = s
  /\ Holds(w, s)
  /\ run' = [run EXCEPT ![s].digest = d]
  /\ worker' = [worker EXCEPT ![w].pc = "predict", ![w].digest = d]
  /\ UNCHANGED <<now, risk, sent>>

\* pin_request(): the first attempt to get here fixes the snapshot d; a later
\* one has to come with the same.
Pin(w, s, d) ==
  /\ worker[w].pc = "fetch" /\ worker[w].slot = s
  /\ Holds(w, s)
  /\ run[s].digest \in {None, d}
  /\ run' = [run EXCEPT ![s].digest = d]
  /\ worker' = [worker EXCEPT ![w].pc = "predict", ![w].digest = d]
  /\ UNCHANGED <<now, risk, sent>>

Drift(w, s, d) ==
  /\ worker[w].pc = "fetch" /\ worker[w].slot = s
  /\ Holds(w, s)
  /\ run[s].digest \notin {None, d}
  /\ Release(s, "FAILED", MaxAttempts)
  /\ risk' = ResetCounters(WithRow(risk), s)
  /\ Finish(w)
  /\ UNCHANGED <<now, sent>>

\* pdm.predict(): nothing in the database is consulted before the request.
Predict(w, s) ==
  /\ worker[w].pc = "predict" /\ worker[w].slot = s
  /\ sent' = [sent EXCEPT ![s] = @ \cup {worker[w].digest}]
  /\ worker' = [worker EXCEPT ![w].pc = "respond"]
  /\ UNCHANGED <<now, run, risk>>

\* succeed(): the result and the risk row in one transaction.
Succeed(w, s, risky) ==
  /\ worker[w].pc = "respond" /\ worker[w].slot = s
  /\ Holds(w, s)
  /\ IF run[s].digest = worker[w].digest
     THEN /\ run' = [run EXCEPT ![s].status = "SUCCEEDED", ![s].owner = None,
                                ![s].expires = 0, ![s].risky = risky]
          /\ risk' = CountRound(s, risky)
     ELSE /\ Release(s, "FAILED", MaxAttempts)
          /\ risk' = ResetCounters(WithRow(risk), s)
  /\ Finish(w)
  /\ UNCHANGED <<now, sent>>

\* Any of these transactions finds the lease gone and raises
\* PREDICTION_LEASE_LOST, which ends the process.
LoseLease(w, s) ==
  /\ worker[w].pc \in {"fetch", "respond"} /\ worker[w].slot = s
  /\ ~Holds(w, s)
  /\ worker' = [worker EXCEPT ![w] = At("down")]
  /\ UNCHANGED <<now, run, risk, sent>>

-----------------------------------------------------------------------------
Process(w, s) ==
  \/ \E outage \in BOOLEAN : Fail(w, s, outage)
  \/ Skip(w, s)
  \/ \E d \in Digests : Pin(w, s, d) \/ Drift(w, s, d)
  \/ Predict(w, s)
  \/ \E risky \in BOOLEAN : Succeed(w, s, risky)
  \/ LoseLease(w, s)

Next == \/ Tick
        \/ CloseRisk
        \/ \E s \in Slots : CreateSlot(s)
        \/ \E w \in Workers : Crash(w) \/ Restart(w) \/ ReconcileStale(w) \/ EndRound(w)
        \/ \E w \in Workers, s \in Slots :
             \/ Claim(w, s) \/ ClaimInactive(w, s)
             \/ Heartbeat(w, s)
             \/ Process(w, s)

Safety == Init /\ [][Next]_vars

\* Time passes; the HTTP clients have timeouts, so process() comes to an end;
\* the process manager restarts what stopped; and a worker that keeps being
\* restarted gets, now and then, as far as the first statement of run_once.
Fairness == /\ WF_vars(Tick)
            /\ \A w \in Workers :
                 /\ WF_vars(\E s \in Slots : Process(w, s))
                 /\ WF_vars(EndRound(w))
                 /\ WF_vars(Restart(w))
                 /\ SF_vars(ReconcileStale(w))

Spec == Safety /\ Fairness

-----------------------------------------------------------------------------
(* What the pipeline promises.                                             *)

Busy(w) == worker[w].pc \in Processing

\* Whoever may still finish a run is the claimant of its current attempt: a
\* worker that lost its lease cannot finish, or fail, the attempt another one
\* started since (the owner guards of mark_failed, mark_skipped, succeed).
LeaseFencing ==
  \A w \in Workers : Busy(w) /\ Holds(w, worker[w].slot)
                        => worker[w].attempt = run[worker[w].slot].attempt

\* Every request PDM gets for a run, whichever attempt sends it, is the one
\* the run has on record (pin_request: request drift across retries).
OneRequestPerRun ==
  \A s \in Slots : sent[s] \subseteq {run[s].digest} \ {None}

\* What a run has shown so far.
OutcomeOf(r) == IF r.status # "SUCCEEDED" THEN "open"
                ELSE IF r.risky THEN "risky" ELSE "healthy"

\* A streak is evidence of the last run evaluated and of no failed one, and
\* an active risk has two succeeded risky runs behind it (succeed,
\* _reset_risk_counters: failures and stale leases in between).
RiskEvidence ==
  /\ risk.riskCount > 0 => /\ risk.last \in Slots
                           /\ OutcomeOf(run[risk.last]) = "risky"
  /\ risk.healthyCount > 0 => /\ risk.last \in Slots
                              /\ OutcomeOf(run[risk.last]) = "healthy"
  /\ risk.active => \E s, u \in Slots : /\ s < u
                                        /\ OutcomeOf(run[s]) = "risky"
                                        /\ OutcomeOf(run[u]) = "risky"

Final(r) == \/ r.status \in {"SUCCEEDED", "SKIPPED_DATA_QUALITY"}
            \/ r.status \in {"FAILED", "FAILED_STALE"} /\ r.attempt = MaxAttempts

\* A run that succeeded, was skipped or has used up its attempts is never
\* touched again, by a retry, a late worker or the stale sweep.
FinalIsFinal == [][\A s \in Slots : Final(run[s]) => run'[s] = run[s]]_vars

\* A snapshot on record is never replaced (test_retry_request_drift_...).
PinIsPermanent ==
  [][\A s \in Slots : run[s].digest # None => run'[s].digest = run[s].digest]_vars

\* A lease that has run out at every reading is not extended again
\* (test_heartbeat_extends_only_the_current_owners_live_lease).
NoResurrection ==
  [][\A s \in Slots :
       /\ run[s].status = "RUNNING" /\ run'[s].status = "RUNNING"
       /\ run[s].expires + ClockLag <= now
       => run'[s].expires = run[s].expires]_vars

\* The risk state is never rewound by an older round that finishes late: the
\* last evaluated slot only grows, and a risk is raised by a round later than
\* every round that has a result.
NewestRoundWins ==
  [][/\ risk.last # None => risk'.last # None /\ risk.last <= risk'.last
     /\ risk'.active /\ ~risk.active
          => \A s \in Slots : OutcomeOf(run[s]) # "open" => s < risk'.last]_vars

\* No run stays RUNNING: its worker finishes it, or the lease runs out and a
\* sweep ends it, whatever crashes.
RunningIsReleased ==
  \A s \in Slots : run[s].status = "RUNNING" ~> run[s].status # "RUNNING"

-----------------------------------------------------------------------------
(* The rounds the persisted runs and counters stand for.                   *)

\* What a run has shown so far, or that its last attempt ended with nothing.
RoundOf(r) == IF r.status \in {"FAILED", "FAILED_STALE", "SKIPPED_DATA_QUALITY"}
              THEN "void" ELSE OutcomeOf(r)

LatestEvidence == IF risk.riskCount > 0 THEN "risky"
                  ELSE IF risk.healthyCount > 0 THEN "healthy" ELSE "nothing"

Rounds == INSTANCE RiskRounds
            WITH outcome <- [s \in Slots |-> RoundOf(run[s])],
                 last <- risk.last, previous <- LatestEvidence,
                 active <- risk.active

\* The counters in the database, updated by claims, failures, retries, sweeps
\* and late results of several workers, amount to the promised rounds: no round
\* without a result is forgotten, and no result counts twice or out of order.
ImplementsRounds == Rounds!RoundsSpec
=============================================================================
