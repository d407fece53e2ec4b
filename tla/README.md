# Verification of platform-integration

TLA+ models of the concurrent core of `platform_integration`, the TLC runs that
check them on small instances, and proofs that TLAPS checks for every size. Paths below are relative to `src/platform_integration/`
of the repository unless they start with `tests/` or `README.md`.

## The system

The service sits between ThingsBoard (telemetry, alarms), PDM (forecasts), a
CMMS (work orders) and its own PostgreSQL database. It is a set of processes,
one role each, which share nothing but the database:

| Component | Code | State | Operations | What is hard |
|---|---|---|---|---|
| Scheduler | `workers/scheduler.py`, `services/prediction_runs.py` | `prediction_run` rows, one per measurement and 15-minute slot | `schedule` every 30 s, insert or find | repeated and concurrent slots |
| Prediction worker | `workers/prediction.py`, `services/prediction_runs.py`, `repositories/prediction_runs.py` | lease (owner, expiry), attempt, pinned request digest, result | sweep, claim, heartbeat, fail, skip, pin, predict, succeed | lost leases, late workers, retries, crashes |
| Risk state | `services/risk.py`, `services/prediction_runs.py` | two streaks, verdict, last run, alert, aggregate version | advance, reset | runs that finish out of order |
| Closed-loop transition | `services/closed_loop.py` | `maintenance_alert`, `alarm_projection`, `outbox_event` | raise, continue, clear, inside the transaction of the round | several tables that have to agree, superseded events |
| Alarm worker | `services/closed_loop_delivery.py`, `clients/thingsboard.py` | lease of an event, alarm identity of a projection | claim, read, look up, upsert or clear, record | unknown write results, stale snapshots, retries |
| Approver's actions | `services/maintenance_actions.py`, `app.py` | `alert_action` with idempotency key, `maintenance_work_order` | preview, CREATE_WORK_ORDER, CLOSE_RISK | plans confirmed on an old alert, repeated requests |
| Work order worker | `services/closed_loop_delivery.py`, `clients/cmms.py` | lease of a command | claim, look up, create, record | lost answers, two workers after a lease ran out |
| Status poller | `services/closed_loop_delivery.py` | poll lease, CMMS event version | claim, fetch, apply | answers out of order |
| Acceptance | `services/closed_loop_acceptance.py` | none | read rows, read providers, read rows again | reads without locks |
| Provisioning | `services/provisioning.py`, `repositories/provisioning.py` | plan, reservations, mappings, bindings | plan, apply, verify | crash in the middle of an apply, lost locks |
| Pure functions | `services/data_quality.py`, `services/prediction_requests.py`, `contracts/` | none | quality of a window, canonical requests, risk of a forecast | boundaries |
| Reports, CLI, audit | `services/shadow_summary.py`, `cli.py`, `models/audit.py` | none, or append-only | | |

They interact through rows: a round writes risk, alert, projection and event in
one transaction; the alarm worker turns events into alarms; the approver's
transaction turns an alert into an order and a command; the work order worker and
the poller write CMMS answers back into order, alert, projection and a new event.

What makes each correct:

- prediction: one claimant per attempt can finish a run, a finished run is final,
  all attempts send one request, no run stays RUNNING;
- risk: it is what the rounds in slot order say, however they finish;
- intents: after every transaction risk row, alert and projection name the same
  episode and version, an alarm is wanted exactly while the alert is active, and the
  projection has its details, but for a forecast that news of a work order may take
  back (see AlarmSync below); the newest intent always has an event that is alive;
- alarms: once delivered, ThingsBoard shows what the projection says, under one
  identity;
- orders: at most one is open, for the alert the approver was shown; feedback only
  moves forward and never decides about the risk;
- acceptance: what it accepts was true of rows, alarm and work order together at
  one moment, though it reads them one after the other;
- provisioning: rows are always ones the next apply can go on from, no target gets a
  second asset, a receipt is true for ever, and applying again finishes;
- telemetry: whether a window is accepted, and what is sent of it, is a function of
  its records and not of their order; the risk of a forecast and its count of
  crossings do not contradict each other.

The hazards, each with its line and the properties against it, are in
`PROJECT.json`.

## Modules

| Module | Models |
|---|---|
| `RiskPolicy` | `advance_risk_state`, as operators |
| `PredictionRuns` | scheduler, prediction workers, runs, and the risk row they write |
| `RiskRounds` | abstract specification: the risk as a function of concluded rounds |
| `AlarmIntents` | the transactions that write alerts, projections and events; state and operators, no behaviour of its own |
| `AlarmSync` | `AlarmIntents` with alarm workers and ThingsBoard |
| `WorkOrders` | `AlarmIntents` with the approver, work order workers, pollers and the CMMS |
| `OrderBook` | abstract specification: what becomes of an alert and its work order |
| `Acceptance` | `WorkOrders` with the alarms of ThingsBoard and the acceptance check reading beside it |
| `Provisioning` | plan and apply of one tenant's devices |
| `PredictionInputs` | quality of a telemetry window, the history sent, the risk of a forecast |
| `*_proofs` | theorems about the module; `AlarmIntents_proofs` has the lemmas that `AlarmSync_proofs` and `WorkOrders_proofs` share, and `AlarmShown_proofs` goes on from `AlarmSync_proofs` |
| `MC*` | instances for TLC |

A definition preceded by "Mutant:" is a wrong variant of the definition after it.
No specification uses it; `PROJECT.json` says which property TLC finds violated
when it takes the other's place.

### PredictionRuns

The runs of one measurement. `run[s]` is the row of slot `s`, named by the moment
it is scheduled at; `risk` is the `risk_evaluation_state` row; `worker[w]` is where
process `w` is and what it remembers of its claim; `sent[s]` records what PDM was
asked and is read by no action; `now` is the time.

Each database transaction locks with `FOR UPDATE` before it reads, so it is one
action: `CreateSlot`, `ReconcileStale`, `Claim`, `ClaimInactive`, `Heartbeat`,
`Fail`, `Skip`, `Pin`, `Drift`, `Succeed`, and `LoseLease` where any of the last
six finds the lease gone. `Predict` is the request to PDM. Anything may happen
between two actions, crashes included. A transaction gets `now` as an argument
read earlier: `Readings` are the values up to `ClockLag` old. `SKIP LOCKED` is
`EndRound`, a claim that finds nothing. `ReconcileStale` folds the loop over the
expired runs: the streaks are forgotten in any order, and the latest of them is
the run that counts.

`RiskRounds` knows slots that are open, void (the last attempt ended without a
result) or concluded risky or healthy, the latest
one that counted, what it showed, and the verdict. A slot cannot become void without
the streak being forgotten, so a reset the code leaves out is no stutter; only
before the risk row exists is there nothing to reset. The refinement maps the status
and stored evidence of each run to its conclusion and the two counters to what the
latest round showed.

### AlarmIntents, AlarmSync

One risk key. An episode number stands for an `alert_id`, an aggregate version for
an event. The equipment is the pilot one. `Raise`, `Continue`, `Clear` and
`CloseAlert` are transactions that lock the risk row before they read the alert, and
`OrderAlert` is what the approval of a work order does to the alert;
`ReplaceProjection` and `RefreshProjection` are the two ways a projection and its
event are written.

News of a work order is different. `save_created_work_order` and `apply_status` read
the alert with `session.get` before they lock the risk row, and SQLAlchemy's identity
map keeps the attributes of that first read at the later locking read. So the
transaction is two steps, and `TellAlert(a, seen, care)` gets the alert as the first
one saw it: the new version and the details of the projection are computed from that,
only the columns assigned are written, and `desired` stays as it is. A round in between
is lost from the version and, as `run` shows, from the forecast in the details; a clear
or a close in between leaves the details of an active alert beside an alert that is
over. The next round, or the next news, repairs an active alert. No document says
that the forecast shown is the latest, so this is described by the properties and is no
finding; that the version is used twice is one (`order_stale_version`).

`AlarmSync` and `WorkOrders` share these operators. In `AlarmSync` the work orders
themselves are left out: `Approve` is an approval or a close, and each of the `Clerks`
is a work order worker or a poller that has begun a transaction (`SeeAlert`) and ends it
with one of the states `News` (`TellNews`) or without effect (`TellNothing`), in any
order and any number. `WorkOrders` says which of these happen.

`AlarmSync` splits a delivery at every transaction and request: claim, read the
projection, list the active alarms, write, record. A write may be served and
answered, served without an answer, fail, or (`LateWrites`) be served at any later
time. `UserClears` lets a ThingsBoard user clear an alarm. Leases of 30 seconds are
not timed: any lease may run out at any claim, since three requests of up to 10
seconds and two transactions fit in one lease only if all is well.

### WorkOrders

`order[a]`, `action[a]` and `command[a]` are the rows of alert `a`; `cmms[a]` is
what the CMMS knows under its `external_ref`. `tab[t]` is a page of the approver
with the alert it was shown: its version is `expected_version` and part of
`plan_hash`. The delivery of alarms is one step here (`DeliverAlarm`). In
`AlarmSync` the identity of an alarm may also be saved by the delivery of an older
intent, after the next one was written; here that delivery comes before the next
intent, which leads to the same rows, since no round asks whether the alarm is known.

The two transactions with news of an order are two actions each, `SeeAlert` and
`SaveOrder`, `SeePolled` and `ApplyStatus`; the second uses `TellAlert` with what the
first saw.

`OrderBook` has no commands, leases, workers or pages. It knows whose risk lasts, the
maintenance state of each alert, the latest version recorded of its order, and the
CMMS. An alert begins while none lasts, and waits for approval only if no order is under
way; it may be approved while its risk lasts; an order is given up, or recorded
with versions that only grow and are the CMMS's; complete orders and orders given
up are final, and the latter stay under way, although the CMMS may still create them.
Commands that wait, are in flight or have used their attempts all look alike to it: the
order is being created. The refinement maps a dead letter to an order given up, and
everything else to the row of alert, order and risk. The book does not know what
status an older version of the CMMS had, so it lets a late answer carry any; that the
latest one has the status recorded with it is part of the book.

### Acceptance

`closed-loop-acceptance-verify` as one process beside `WorkOrders`. Each query of
`ClosedLoopAcceptanceStore.read` is an action (`ReadRisk`, `ReadAlert`,
`ReadProjection`, `ReadWorkOrder`, `ReadOutbox`), because the session reads without
locks and each statement sees a later state; so are the two requests (`ReadAlarm`,
`ReadCmms`) and the verdict (`Conclude`). `verifier.first` is the first snapshot,
compared with the second as a whole. `verifier.moment` is a history variable, the
stages that pass for somebody who sees everything at the time the alarm is read; no
action depends on it. `Deliver` joins `DeliverAlarm` to what ThingsBoard then has: an
upsert writes details, a clear does not. Two things are left out because they only
make the verifier refuse more: the streak of healthy rounds, part of the snapshot,
and its bound of two for CLEARED. That stage is never reached in the model, for the
reason `alarm_cleared` shows.

### Provisioning

One tenant, whose plan is a function of its devices, so there is one plan hash.
`mapping[t]` and `bound[t]` are the rows of target `t`; `cmms[t]` the assets with its
equipment id and the idempotency keys that were served; `tb[t]` the asset among the
device's attributes; `apply[p]` a process that runs `provision-apply`. Its actions
are the transactions and requests of `ProvisioningService.apply` in their order: load
the plan, take the lock, two queries of the preflight, then per target reserve, find
or create the asset, write the attributes, read them back, look the asset up again,
activate; then the receipt. `Stop` covers every error and the death of the process,
`LoseLock` the connection of the advisory lock breaking unnoticed, `CreateTimesOut`
and `WriteTimesOut` requests that are served later or never, `Expire` a plan that runs
out while it is applied, `Replace` a CMMS user who puts another asset in place.
`MaxFaults` bounds them together.

### PredictionInputs

`Look` takes the records of a window in any order, as ThingsBoard may return them,
and stops at the first flaw, as the loop of `DataQualityEvaluator.evaluate` does;
`Judge` is what follows the loop. `canonical` keeps the identities in the order the
records came in, as the list of the code does, and `History` is what the two sorts, by
value at the end of `evaluate` and by data_id in `_history`, make of it. `Digest` stands
for the SHA-256 of an identity: any number, different for different readings of a
window. `Send` is where the request is built; nothing looks at the window after it, so
it is forgotten there, and the forecast does not depend on it. Decimals are integers in
tenths of the binding's scale, so that rounding half to even has halves to decide.

## Runs

| Run | Instance | Question |
|---|---|---|
| `prediction_lease` | 1 slot, 2 workers, 2 snapshots, 3 attempts, lease 2 and slot 3 units, clock lag 1, horizon 9, fairness | can a late worker, a retry or a heartbeat damage a run, and is every claimed run released? |
| `prediction_rounds` | 3 slots, 2 workers, 2 attempts | do the counters implement the rounds in slot order? |
| `alarm_sync` | 2 episodes, 1 worker, 1 clerk with news of an open order, 4 versions, 2 attempts | do the tables agree, stale reads included, and does ThingsBoard show them? |
| `alarm_workers` | 1 episode, 2 workers, 2 versions, late writes, user clears, fairness | is the identity on record safe from a second alarm, and does every event settle? |
| `alarm_unknown_write` | 1 episode, 1 worker, late writes | violation: a second alarm of one alert |
| `alarm_cleared` | 1 episode, 1 worker | violation: a cleared alarm keeps its old details |
| `order_approval` | 2 episodes, 2 pages, 1 work order worker, 5 versions | is there one order, for the alert that was shown? |
| `order_feedback` | 1 episode, 2 work order workers, 2 pollers, 4 versions | is what is recorded true, does it only move forward, and is every step one of `OrderBook`? |
| `order_stale_version` | 1 episode, 1 page | violation: a version used twice |
| `acceptance` | 1 episode, 1 alarm, 1 page, 1 work order worker, 1 poller, 4 versions | was what the check accepts ever true? |
| `provisioning` | 2 targets, 2 applies, 2 assets a target, 3 faults, fairness | does an interrupted apply leave rows to go on from, and does going on finish? |
| `prediction_inputs` | windows of 6 minutes with one more record of any kind, 5 records at most, forecasts of 5 values out of 6 | are window and forecast judged alike in any order and direction, and is one request made of a window? |

**Bounds.** Three slots are the least with a streak, a gap and a late round; two
workers the least for a lost lease; the ratio of lease to slot is the code's (10 to
15 minutes) in `prediction_lease`, with all three attempts. Two attempts of a
delivery (the code has 8) are one retry and the last one; the count has no other
effect. `MaxVersion` bounds rounds and actions on an episode: four allow raising,
clearing and raising again with an update in between, or raising, ordering, a round, a
close or a clear, and the news that was begun before it. The other runs of `AlarmSync`
have two versions and no clerk, since news needs a third version, after a round and an
order. `MaxCmmsVersion` 2 is a
creation and one change. `Horizon` ends claims and heartbeats early enough for
every lease to run out within it, so liveness is not an effect of the bound.
`acceptance`: four versions are a raise, an order, its creation and one answer, so the
stages ACTIVE, IN_PROGRESS and COMPLETE are all accepted in it, and each read can be
overtaken. `provisioning`: two targets are the least with a first and a last one, two
applies the least for a lost lock, and three faults let, say, a lock be lost, a write
be late and a process die in one behaviour. `prediction_inputs`: a window of 6
with half of its minutes missing at most lets three missing minutes in a row pass the
ratio test, as 6 of 66 do in the code, so that the gap test is what refuses them; the
decimals are the halves of both parities and signs and two that round alike; the
horizon of 5 is odd, as the code's 15 is, so that three crossings fit in without
neighbours and four do not; and the digests used follow neither minutes nor values, so
that the two sorts of the history differ.
Deadlock is not checked: all instances stop at their bounds. Symmetry is used for
workers, pages and pollers, in safety runs only.

**Fairness.** `PredictionRuns`: time passes, `process` ends since every request has
a timeout, a stopped worker is restarted by its process manager, and a worker
repeatedly able to start a round gets to the sweep, the first statement of
`run_once` (strong fairness, since a crash may disable it again and again).
`AlarmSync`: the command's loop calls `run_once` every 5 seconds, and requests
time out, so a worker that can go on does; one weak fairness covers its whole
round. `Provisioning`: the operator plans and applies again until the plan is applied,
and every request of an apply times out, so an apply that can go on does.
`WorkOrders`, `Acceptance` and `PredictionInputs` are checked for safety only.

## What the violations show

1. `alarm_unknown_write`: the lookup before every write covers a write that was
   served and not answered, not one that is served after the lookup of the retry.
   The alert then has two active alarms, and `find_pdm_alarm` refuses both.
2. `alarm_cleared`: clearing an alert raises its version and rewrites the
   projection's details, while the clear request carries none; the stage CLEARED of
   `closed-loop-acceptance-verify` compares them and refuses.
3. `order_stale_version`: the unlocked read described above loses a round's
   version; the version is given twice, and `_close_risk` accepts a close that was
   confirmed on the other alert.

## What the properties leave open

`DeliveredMeansShown` holds for one alarm worker, which is what a deployment
starts. With two it does not: one may upsert a projection it read before the other
cleared the alarm. Nor does any property say that the alarm of an episode whose
clear is still undelivered when the next one begins is ever cleared: the code
supersedes that clear.

`LeaseFencing` is checked for workers with different names, which the code does not
guarantee (see Proofs). `EventsSettle` accepts an event in `RETRY_WAIT` with all its
attempts used, whose last worker died: no statement of the code takes it up again, and
`closed-loop-acceptance-verify` never finds such an outbox settled. A conflict of alarm
identities, which `save_alarm_id` raises out of the worker's loop, is a crash at that
point in the model: `IdentityStays` says that the identity is not exchanged, not that
the process goes on.

`HolderIsNotOvertaken` is about what the model can see. The code takes the lock in one
statement and reads the plan in the next, and commits the receipt before it unlocks:
between those statements a holder may exist whose plan is applied. Nothing is written
in either window, and the model has one action for each pair. `ActiveIsShown` speaks of
targets that had one asset made; where a user replaced the asset, a late write of the
attributes may name the first one.

## Proofs

All theorems hold for every value of the constants that the assumptions of the module
allow: sets of slots, workers, pages, episodes and records of any size, any bounds,
durations and numbers of faults. Each safety property is a part of, or follows from,
an inductive invariant; the last step combines the three facts with the temporal
logic. An action property follows from what one step may do under that invariant.
Three theorems have hypotheses beyond the assumptions, because what they state is
false without them: `Fencing`, and the two of `AlarmShown_proofs`.

`PredictionRuns_proofs` (slots are naturals, names are not NULL, durations are
positive):

| Theorem | Property | Argument |
|---|---|---|
| `TypeCorrect` | `TypeOK` | inductive, one step per action |
| `FinalRunsAreFinal`, `PinsArePermanent`, `ExpiredLeasesStayExpired` | `FinalIsFinal`, `PinIsPermanent`, `NoResurrection` | `RunTransitions`: the six ways a step changes one run |
| `EvidenceBehindRisk` | `RiskEvidence` | `TypeOK /\ RiskEvidence` is inductive; `StepSummary` reduces each action to its effect on outcomes and risk row |
| `NewestWins` | `NewestRoundWins` | needs that no concluded run is later than the last one that counted (`BeyondStep`) |
| `PipelineImplementsRounds` | `ImplementsRounds` | initial states map to initial states; each action maps to `Conclude`, `Interrupt`, `Reopen`, `Close` or a stutter. It needs that one counter at most is positive (`OneStreak`) and that the row exists once a round counted (`RowKnown`) |
| `RequestsNeverDrift` | `OneRequestPerRun` | needs `PinKnown`: what a worker is about to send is on record |
| `Fencing` | `LeaseFencing` | needs that a busy worker's attempt is never ahead of the run's; assumes `UniqueNames` |

Only `Fencing` assumes that workers have different names. The code derives the name
from a memory address (`commands/shadow.py:211`), which does not guarantee it; all
other theorems hold for shared names too, so that a clash lets a late worker finish
another's attempt but neither sends a second request nor touches a finished run.

`AlarmIntents_proofs` shows what every transaction on risk row, alert, projection and
event preserves, whoever runs it, the news computed from a stale alert included.
`IntentsInv` says that the tables agree
(`Truthful`), that events exist up to the version of the risk row and none beyond, and
that the current alert's version is not ahead of it (`Numbered`: otherwise a new
version could overwrite an event), and that the newest event is not superseded
(`Newest`).

| Theorem of `AlarmSync_proofs` | Property | Argument |
|---|---|---|
| `SyncTypeCorrect`, `TrueIntents`, `NewestSurvives` | `TypeOK`, `IntentsTellTheTruth`, `NewestIntentSurvives` | `SyncInv` adds to `IntentsInv` that the event a worker has in hand was written (`Engaged`: what it records is no event of the future); that rows are ones the code writes, for instance allowed only while they wait for approval (`Sound`), and what a clerk saw of an alert is not newer than the alert (`Informed`); and that the projection has the details of the current alert as far as such an older row tells them (`Detailed`, `Shows`) |
| `IdentityIsKept` | `IdentityStays` | only `SaveAlarm` writes an identity, and only where there is none or the same |

`AlarmShown_proofs` is about what ThingsBoard has. Both theorems assume `Alone`: one
alarm worker, which is what a deployment starts, and no write that is served after
its request timed out. `alarm_unknown_write` shows what happens without the second. The
tables of `SyncInv` do not know what ThingsBoard has, so two more invariants tie it to
what the worker has in hand:

| Theorem of `AlarmShown_proofs` | Property | Argument |
|---|---|---|
| `AlarmsAreSingle` | `OneAlarmPerAlert` | `OneInv`, for users who clear alarms as well: a worker that is about to write knows the one active alarm of its alert, or there is none (`Knows`), so it never creates a second; and the identity on record is one of the alert's (`Recorded`), so a clear by that identity touches no other |
| `DeliveriesAreShown` | `DeliveredMeansShown` | assumes in addition that no user clears alarms. `ShownInv`: an alert whose last event is delivered (`Told`) is shown with the details of the projection (`ShownAs`); a worker keeps its lease, for nobody else takes it; and if its event is still the last word (`LastWord`), what it has in hand is the projection as it is, and so is ThingsBoard after its write (`UpToDate`). Every change of a projection writes a newer event, after which nothing is claimed until that one is delivered |

| Theorem of `WorkOrders_proofs` | Property | Argument |
|---|---|---|
| `OrdersTypeCorrect` | `TypeOK` | part of `OrdersInv`, which the other theorems use as well |
| `RowsAgree`, `OrdersAreReported` | `LocallyConsistent`, `RecordedFromCmms` | what an answer on its way says was said by the CMMS (`Worker`), and rows of one alert match (`Matched`, `Recorded`). What a worker saw of the alert before the lock may be old, so the invariant does not rely on it |
| `OneOrderAtATime` | `SingleActiveOrder` | not inductive: it needs that an order can start only on the alert of the risk row, which later alerts do not share, and only when no other is open (`Vacant`, `OneBusy`) |
| `FeedbackIsMonotone`, `ApprovedAsShown`, `RiskIsTheRoundsAlone` | `FeedbackMovesForward`, `ApprovalIsCurrent`, `OrderNewsKeepsRisk` | `RowStep`: a step leaves the rows of an alert untouched, or is its opening, an advance by a round, an approval, a creation or a poll |
| `OrdersFollowTheBook` | `ImplementsBook` | initial states map to initial states, and each action to `Begin`, `End`, `Approve`, `Post`, `Progress`, `GiveUp`, `Record` or a stutter. It needs `OrdersInv`, for instance that a reply at hand is the CMMS's and that an order with a poller is not complete, and that an alert without an order waits for approval or never gets one (`Unordered`), so that an order is under way in the book exactly when the code finds one (`UnderWayIsBusy`) |
| `DeadLettersBlock` | | a consequence of the book: `GIVEN_UP` is never left, and while it stands no alert is approved. One failed creation ends work orders for the risk key until somebody repairs the row |

| Theorem of `Acceptance_proofs` | Property | Argument |
|---|---|---|
| `AcceptedIsTrue` | `AcceptedWasTrue` | the version of the risk row is the witness: a transaction on the rows of the current episode raises it (`IntentsStill`, `RowsStill`), and an outbox that is settled does not move without one (`CommandsStill`), so that a snapshot is still the state while the version lasts (`FreshStill`). The CMMS raises its version with each change, so its later answer can only match the recorded order if an earlier one would have (`OrderWasValid`). `Tracked` says at each query what of this is known; an unchanged risk row in the second read then makes the stages that pass for the snapshot those that passed for the system |
| `AcceptTypeCorrect` | `VerifierTypeOK` | part of `AcceptInv`, which has `OrdersInv` in it |

`Acceptance` assumes in addition that there are finitely many alerts, since the outbox
is counted.

| Theorem of `Provisioning_proofs` | Property | Argument |
|---|---|---|
| `Resumable`, `OneAsset` | `RowsResumable`, `OneAssetPerTarget` | mapping and binding change in one transaction; an equipment id that has an asset had its key served and the key is served once (`Single`) |
| `NotOvertaken` | `HolderIsNotOvertaken` | the lock is taken only while the plan is not applied, and the apply that writes the receipt holds it and lets it go |
| `TrueReceipt` | `ReceiptIsTrue` | what a process remembers of the targets behind it is what their rows say (`Done`), whether it still has the lock or not, and rows once active stay (`RowStays`) |
| `ShownWhenActive` | `ActiveIsShown` | what is on record, in hand or on its way names an asset that was made (`InRange`, `InHand`): while one was made it is that one; and before a target is activated ThingsBoard shows something (`Shown`) |
| `AssetIsKept`, `TypeCorrect` | `AssetStays`, `TypeOK` | from the same invariant, `IInv`; a process between lookup and activation has an asset in hand (`Held`) |

| Theorem of `PredictionInputs_proofs` | Property | Argument |
|---|---|---|
| `InputsTypeCorrect`, `OrderIsIrrelevant` | `TypeOK`, `OrderDoesNotMatter` | while records are looked at, those looked at are sound, no two alike, and `identities` is their image (`Passed`); a record that is refused is refused in every order, or has a twin that is |
| `RiskAgreesWithCrossings` | `CrossingsBoundRisk` | two neighbours that cross are two crossings (`RiskyCountsTwo`); if more than `(Horizon + 1) \div 2` points cross, nine of fifteen, they and the points after them are too many to be disjoint, so two are neighbours (`ManyCrossingsAreRisky`): cardinalities, and no induction over the forecast. Eight of fifteen may alternate |
| `RoundingIsFair` | `DirectionsMirror` | `Canonical(-n) = -Canonical(n)`, by cases on the remainder |

Model-checked only: liveness (`RunningIsReleased`, `EventsSettle`, `ApplyFinishes`),
which is out of the prover's reach, and `HistoryIsCanonical`: that a sort of a list of
any length is sorted needs an induction over the list. The findings of the three
violations are counterexamples of TLC.

## Not modelled

- Tenants and bindings beyond one enabled tenant: an event whose tenant is disabled
  when it is read (`alarm_delivery`) is superseded for good. A binding that is off at
  the claim is `ClaimInactive`.
- Provisioning: a plan with another hash (devices added or renamed), a tenant that
  drifted or is disabled, renames in the CMMS: each only ends an apply (`Stop`). The
  registration of bindings on its own (`services/tenant_bindings.py`) is a guarded
  insert.
- Acceptance: tenant, mapping, binding and request body, which are constant while it
  runs.
- The field checks of `contracts/`, and of digests more than that they differ.
- The contents of requests; the identity checks of
  provider answers, except that a check may fail.
- Deadlocks inside PostgreSQL: a victim's transaction has no effect, as a crash.
- The cap of 1000 claims a round, back-off times, poll intervals, audit rows,
  reports, the command line.

## Plan

Done, in this order: `PredictionRuns` and `RiskRounds`, `AlarmIntents` and
`AlarmSync`, `WorkOrders`, `Provisioning`, `Acceptance`, `PredictionInputs`, the
proofs of their safety properties, and `OrderBook` with its refinement. What is left:

1. A tenant that is disabled and enabled again, in `AlarmIntents`: what becomes of the
   newest intent.
2. Several measurements in `PredictionRuns`, with row locks as state, for the lock
   order of `reconcile_stale`, `claim_next` and `succeed`.
3. Liveness of `WorkOrders`: a pending command is delivered, dead or out of attempts.
4. That `DeliverAlarm` of `WorkOrders` stands for what `AlarmSync` does, as a theorem:
   `AlarmSync` with one worker implements rounds, closings and deliveries in one step.
5. An abstract specification of provisioning (a target is free, reserved, active) and
   its refinement.
6. A plan with a second hash in `Provisioning`, for devices added between applies.
