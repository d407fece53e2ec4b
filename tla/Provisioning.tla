---------------------------- MODULE Provisioning ----------------------------
(***************************************************************************)
(* Provisioning of the pilot devices of one tenant: provision-plan stores a *)
(* plan, provision-apply reserves each device, finds or creates its asset   *)
(* in the CMMS, writes the device's attributes in ThingsBoard, reads both   *)
(* back and activates the mapping (services/provisioning.py,                *)
(* repositories/provisioning.py).  Applies run as processes of their own,   *)
(* under an advisory lock that lives as long as the connection of its apply.*)
(*                                                                         *)
(* The plan of a tenant is a function of its devices, so there is one plan  *)
(* hash.  A target is a device, in the order of the plan; its asset is the  *)
(* one with its equipment_id, and ids of assets count those of one target.  *)
(* A check of an answer that fails, other than by an id, is a Stop.         *)
(***************************************************************************)
EXTENDS Integers, FiniteSets

CONSTANTS Last,       \* the number of targets, 20 in the code
          MaxAssets,  \* bound on the assets of one equipment_id
          Appliers,   \* processes that run provision-apply
          MaxFaults,  \* bound on everything that goes wrong
          None        \* nobody holds the lock

ASSUME TargetsAssumption == Last \in Nat \ {0}
ASSUME AssetsAssumption == MaxAssets \in Nat \ {0}
ASSUME FaultsAssumption == MaxFaults \in Nat
ASSUME NobodyAssumption == None \notin Appliers

VARIABLES plan,            \* the provisioning_plan row
          lock,            \* who holds the advisory lock of the tenant
          mapping,         \* equipment_mapping, by target
          bound,           \* whether the target has its measurement_binding
          cmms,            \* what the CMMS knows of the target's equipment_id
          tb,              \* cmms_asset_id among the device's attributes
          lateAssets,      \* creations that timed out and are under way
          lateAttributes,  \* attribute writes that timed out, likewise
          apply,           \* the processes
          faults           \* what went wrong so far

vars == <<plan, lock, mapping, bound, cmms, tb, lateAssets, lateAttributes,
          apply, faults>>

rows == <<plan, mapping, bound>>
outside == <<cmms, tb, lateAssets, lateAttributes>>

-----------------------------------------------------------------------------
Targets == 1..Last
AssetIds == 1..MaxAssets
NoAsset == 0
MaybeAsset == AssetIds \cup {NoAsset}

Plans == [state : {"absent", "open", "expired", "applied"},
          results : [Targets -> MaybeAsset]]

\* cmms_asset_id is NULL until the mapping is active.
Mappings == [status : {"ABSENT", "RESERVED", "ACTIVE"}, asset : MaybeAsset]
NoMapping == [status |-> "ABSENT", asset |-> NoAsset]
Reservation == [status |-> "RESERVED", asset |-> NoAsset]

\* The Idempotency-Key `pilot-asset:{tb_device_id}`.
Keys == {"pilot-asset"}

\* live: the assets that exist; made: how many there ever were; keyed: the
\* asset each idempotency key stands for.
Equipment == [live : SUBSET AssetIds, made : MaybeAsset,
              keyed : SUBSET [key : Keys, asset : AssetIds]]
NoEquipment == [live |-> {}, made |-> 0, keyed |-> {}]

NoResults == [t \in Targets |-> NoAsset]

\* start .. finish: what the process does next.  seen: the mappings that
\* preflight_plan read; asset: the one of the present target.
Applies == [pc : {"idle", "start", "mappings", "bindings", "reserve", "find",
                  "create", "lost", "write", "readback", "confirm", "activate",
                  "finish"},
            target : Targets, asset : MaybeAsset,
            seen : [Targets -> Mappings], results : [Targets -> MaybeAsset]]

Idle == [pc |-> "idle", target |-> 1, asset |-> NoAsset,
         seen |-> [t \in Targets |-> NoMapping], results |-> NoResults]

TypeOK == /\ plan \in Plans
          /\ lock \in Appliers \cup {None}
          /\ mapping \in [Targets -> Mappings]
          /\ bound \in [Targets -> BOOLEAN]
          /\ cmms \in [Targets -> Equipment]
          /\ tb \in [Targets -> MaybeAsset]
          /\ lateAssets \subseteq [target : Targets, key : Keys]
          /\ lateAttributes \subseteq [target : Targets, asset : AssetIds]
          /\ apply \in [Appliers -> Applies]
          /\ faults \in 0..MaxFaults

Init == /\ plan = [state |-> "absent", results |-> NoResults]
        /\ lock = None
        /\ mapping = [t \in Targets |-> NoMapping]
        /\ bound = [t \in Targets |-> FALSE]
        /\ cmms = [t \in Targets |-> NoEquipment]
        /\ tb = [t \in Targets |-> NoAsset]
        /\ lateAssets = {} /\ lateAttributes = {}
        /\ apply = [p \in Appliers |-> Idle]
        /\ faults = 0

-----------------------------------------------------------------------------
(* The plan.                                                               *)

\* build_plan and save_plan: a new plan, or one that expired unapplied is
\* renewed.  It takes the lock of the tenant for its transaction.
BuildPlan == /\ lock = None
             /\ plan.state \in {"absent", "expired"}
             /\ plan' = [state |-> "open", results |-> NoResults]
             /\ UNCHANGED <<lock, mapping, bound, outside, apply, faults>>

Fault == faults < MaxFaults /\ faults' = faults + 1

\* 30 minutes have passed.
Expire == /\ Fault
          /\ plan.state = "open"
          /\ plan' = [plan EXCEPT !.state = "expired"]
          /\ UNCHANGED <<lock, mapping, bound, outside, apply>>

-----------------------------------------------------------------------------
(* The CMMS and ThingsBoard.                                               *)

\* POST /api/assets: a key that was served before creates nothing.
ServeCreate(t, key) ==
  IF \E e \in cmms[t].keyed : e.key = key THEN UNCHANGED cmms
  ELSE LET i == cmms[t].made + 1
       IN /\ i \in AssetIds
          /\ cmms' = [cmms EXCEPT ![t].live = @ \cup {i}, ![t].made = i,
                                  ![t].keyed = @ \cup {[key |-> key, asset |-> i]}]

ServeLateCreate(w) == /\ ServeCreate(w.target, w.key)
                      /\ lateAssets' = lateAssets \ {w}
                      /\ UNCHANGED <<rows, lock, tb, lateAttributes, apply, faults>>

ServeLateWrite(w) == /\ tb' = [tb EXCEPT ![w.target] = w.asset]
                     /\ lateAttributes' = lateAttributes \ {w}
                     /\ UNCHANGED <<rows, lock, cmms, lateAssets, apply, faults>>

\* A user of the CMMS puts another asset with the equipment_id in the place
\* of the present one.
Replace(t) == /\ Fault
              /\ cmms[t].live # {} /\ cmms[t].made < MaxAssets
              /\ cmms' = [cmms EXCEPT ![t].live = {cmms[t].made + 1},
                                      ![t].made = @ + 1]
              /\ UNCHANGED <<rows, lock, tb, lateAssets, lateAttributes, apply>>

-----------------------------------------------------------------------------
(* ProvisioningService.apply, up to the first target.                      *)

Goto(p, pc) == apply' = [apply EXCEPT ![p].pc = pc]

\* An error, abort_apply, or the end of the process: the lock goes with the
\* connection.
Abort(p) == /\ apply' = [apply EXCEPT ![p] = Idle]
            /\ lock' = IF lock = p THEN None ELSE lock
            /\ UNCHANGED <<rows, outside>>

\* load_plan and the checks of the plan, with the time they are made at.
Load(p) == /\ apply[p].pc = "idle" /\ plan.state = "open"
           /\ Goto(p, "start")
           /\ UNCHANGED <<rows, lock, outside, faults>>

\* Mutant: the plan is not looked at again under the lock.
StartUnchecked(p) ==
  /\ apply[p].pc = "start"
  /\ UNCHANGED faults
  /\ IF lock = None
     THEN /\ lock' = p /\ Goto(p, "mappings")
          /\ UNCHANGED <<rows, outside>>
     ELSE Abort(p)

\* start_apply.  Its `now` is that of Load, so a plan that expired since then
\* still passes.
Start(p) ==
  /\ apply[p].pc = "start"
  /\ UNCHANGED faults
  /\ IF lock = None /\ plan.state # "applied"
     THEN /\ lock' = p /\ Goto(p, "mappings")
          /\ UNCHANGED <<rows, outside>>
     ELSE Abort(p)

\* The first query of preflight_plan.
ReadMappings(p) == /\ apply[p].pc = "mappings"
                   /\ apply' = [apply EXCEPT ![p].pc = "bindings", ![p].seen = mapping]
                   /\ UNCHANGED <<rows, lock, outside, faults>>

\* Mutant: a reservation somebody left behind is a conflict.
AcceptsActive(m, b) == \A t \in Targets :
  IF b[t] THEN m[t].status = "ACTIVE" /\ m[t].asset # NoAsset
  ELSE m[t] = NoMapping

\* What preflight_plan accepts, of mappings m and bindings b.
Accepts(m, b) == \A t \in Targets :
  IF b[t] THEN m[t].status = "ACTIVE" /\ m[t].asset # NoAsset
  ELSE m[t] = NoMapping \/ m[t] = Reservation

\* The second query of preflight_plan, and its verdict.
ReadBindings(p) == /\ apply[p].pc = "bindings"
                   /\ UNCHANGED faults
                   /\ IF Accepts(apply[p].seen, bound)
                      THEN /\ Goto(p, "reserve")
                           /\ UNCHANGED <<rows, lock, outside>>
                      ELSE Abort(p)

-----------------------------------------------------------------------------
(* _apply_target.                                                          *)

AfterTarget(p) == IF apply[p].target = Last THEN "finish" ELSE "reserve"

\* Mutant: the reservation overwrites the row that is there.
ReserveAgain(p) ==
  LET t == apply[p].target
  IN /\ apply[p].pc = "reserve"
     /\ mapping' = [mapping EXCEPT ![t] = Reservation]
     /\ Goto(p, "find")
     /\ UNCHANGED <<plan, lock, bound, outside, faults>>

\* Mutant: a target that is active already is passed over.
ReserveNew(p) ==
  LET t == apply[p].target
  IN /\ apply[p].pc = "reserve"
     /\ IF mapping[t].status = "ACTIVE"
        THEN /\ apply' = [apply EXCEPT ![p].target = IF @ = Last THEN @ ELSE @ + 1,
                                      ![p].pc = AfterTarget(p)]
             /\ UNCHANGED mapping
        ELSE /\ mapping' = [mapping EXCEPT ![t] = Reservation]
             /\ Goto(p, "find")
     /\ UNCHANGED <<plan, lock, bound, outside, faults>>

\* reserve_target: a row that is there stays as it is.
Reserve(p) ==
  LET t == apply[p].target
  IN /\ apply[p].pc = "reserve"
     /\ mapping' = [mapping EXCEPT ![t] = IF @ = NoMapping THEN Reservation ELSE @]
     /\ Goto(p, "find")
     /\ UNCHANGED <<plan, lock, bound, outside, faults>>

Take(p, i) == apply' = [apply EXCEPT ![p].pc = "write", ![p].asset = i]

\* find_asset_by_equipment_id, compared with the asset on record, if there was
\* one in preflight.
Find(p) ==
  LET t == apply[p].target
      known == apply[p].seen[t].asset
  IN /\ apply[p].pc = "find"
     /\ UNCHANGED faults
     /\ \/ \E i \in cmms[t].live : /\ known \in {NoAsset, i}
                                   /\ Take(p, i)
                                   /\ UNCHANGED <<rows, lock, outside>>
        \/ /\ cmms[t].live = {} /\ known = NoAsset
           /\ Goto(p, "create")
           /\ UNCHANGED <<rows, lock, outside>>
        \/ /\ known # NoAsset /\ cmms[t].live # {known}
           /\ Abort(p)

\* Mutant: every apply has a key of its own.
KeyOfApply(p) == p

\* The same key in every apply.
KeyOf(p) == "pilot-asset"

\* create_asset is answered.
Create(p) ==
  LET t == apply[p].target
  IN /\ apply[p].pc = "create"
     /\ ServeCreate(t, KeyOf(p))
     /\ \E e \in cmms'[t].keyed : e.key = KeyOf(p) /\ Take(p, e.asset)
     /\ UNCHANGED <<rows, lock, tb, lateAssets, lateAttributes, faults>>

\* CMMS_WRITE_RESULT_UNKNOWN.
CreateTimesOut(p) ==
  /\ Fault
  /\ apply[p].pc = "create"
  /\ lateAssets' = lateAssets \cup {[target |-> apply[p].target, key |-> KeyOf(p)]}
  /\ Goto(p, "lost")
  /\ UNCHANGED <<rows, lock, cmms, tb, lateAttributes>>

\* After an unknown result: found after all, or an error.
FindLost(p) ==
  LET live == cmms[apply[p].target].live
  IN /\ apply[p].pc = "lost"
     /\ UNCHANGED faults
     /\ \/ \E i \in live : Take(p, i) /\ UNCHANGED <<rows, lock, outside>>
        \/ live = {} /\ Abort(p)

WriteAttributes(p) == /\ apply[p].pc = "write"
                      /\ tb' = [tb EXCEPT ![apply[p].target] = apply[p].asset]
                      /\ Goto(p, "readback")
                      /\ UNCHANGED <<rows, lock, cmms, lateAssets, lateAttributes, faults>>

\* THINGSBOARD_WRITE_RESULT_UNKNOWN, which the readback settles.
WriteTimesOut(p) ==
  /\ Fault
  /\ apply[p].pc = "write"
  /\ lateAttributes' =
       lateAttributes \cup {[target |-> apply[p].target, asset |-> apply[p].asset]}
  /\ Goto(p, "readback")
  /\ UNCHANGED <<rows, lock, cmms, tb, lateAssets>>

\* Mutant: the attributes are not compared.
ReadAnything(p) == /\ apply[p].pc = "readback"
                   /\ UNCHANGED faults
                   /\ Goto(p, "confirm")
                   /\ UNCHANGED <<rows, lock, outside>>

ReadBack(p) == /\ apply[p].pc = "readback"
               /\ UNCHANGED faults
               /\ IF tb[apply[p].target] = apply[p].asset
                  THEN Goto(p, "confirm") /\ UNCHANGED <<rows, lock, outside>>
                  ELSE Abort(p)

\* The asset is looked up once more.
Confirm(p) ==
  LET live == cmms[apply[p].target].live
  IN /\ apply[p].pc = "confirm"
     /\ UNCHANGED faults
     /\ \/ /\ apply[p].asset \in live
           /\ Goto(p, "activate")
           /\ UNCHANGED <<rows, lock, outside>>
        \/ live # {apply[p].asset} /\ Abort(p)

\* Mutant: the target after the last one.
RecordPast(p) == apply' = [apply EXCEPT ![p].results[apply[p].target] = apply[p].asset,
                                        ![p].target = @ + 1,
                                        ![p].pc = AfterTarget(p)]

\* What the process remembers of the target, and where it goes from there.
Record(p) == apply' = [apply EXCEPT ![p].results[apply[p].target] = apply[p].asset,
                                    ![p].target = IF @ = Last THEN @ ELSE @ + 1,
                                    ![p].pc = AfterTarget(p)]

\* Mutant: the asset on record is exchanged.
ActivateAny(p) ==
  LET c == apply[p]
  IN /\ c.pc = "activate"
     /\ UNCHANGED faults
     /\ mapping' = [mapping EXCEPT ![c.target] = [status |-> "ACTIVE", asset |-> c.asset]]
     /\ bound' = [bound EXCEPT ![c.target] = TRUE]
     /\ Record(p)
     /\ UNCHANGED <<plan, lock, outside>>

\* activate_target: mapping and measurement binding in one transaction, and
\* another asset than the one on record is a conflict.
Activate(p) ==
  LET c == apply[p]
  IN /\ c.pc = "activate"
     /\ UNCHANGED faults
     /\ IF mapping[c.target].status # "ABSENT" /\ mapping[c.target].asset \in {NoAsset, c.asset}
        THEN /\ mapping' = [mapping EXCEPT ![c.target] = [status |-> "ACTIVE", asset |-> c.asset]]
             /\ bound' = [bound EXCEPT ![c.target] = TRUE]
             /\ Record(p)
             /\ UNCHANGED <<plan, lock, outside>>
        ELSE Abort(p)

-----------------------------------------------------------------------------
\* finish_apply, on the connection that holds the lock.
Finish(p) ==
  /\ apply[p].pc = "finish"
  /\ UNCHANGED faults
  /\ IF lock = p /\ plan.state # "applied"
     THEN /\ plan' = [state |-> "applied", results |-> apply[p].results]
          /\ apply' = [apply EXCEPT ![p] = Idle]
          /\ lock' = None
          /\ UNCHANGED <<mapping, bound, outside>>
     ELSE Abort(p)

\* The process dies, or a request or a check fails.
Stop(p) == /\ Fault
           /\ apply[p].pc # "idle"
           /\ Abort(p)

\* The connection of the lock breaks; the process does not notice before
\* finish_apply.
LoseLock(p) == /\ Fault
               /\ lock = p
               /\ lock' = None
               /\ UNCHANGED <<rows, outside, apply>>

-----------------------------------------------------------------------------
ApplyTarget(p) == \/ Reserve(p) \/ Find(p) \/ Create(p) \/ FindLost(p)
                  \/ WriteAttributes(p) \/ ReadBack(p) \/ Confirm(p) \/ Activate(p)

Apply(p) == \/ Load(p) \/ Start(p) \/ ReadMappings(p) \/ ReadBindings(p)
            \/ ApplyTarget(p) \/ Finish(p)

Trouble(p) == CreateTimesOut(p) \/ WriteTimesOut(p) \/ Stop(p) \/ LoseLock(p)

Next == \/ BuildPlan \/ Expire
        \/ \E t \in Targets : Replace(t)
        \/ \E w \in lateAssets : ServeLateCreate(w)
        \/ \E w \in lateAttributes : ServeLateWrite(w)
        \/ \E p \in Appliers : Apply(p) \/ Trouble(p)

Safety == Init /\ [][Next]_vars

\* The operator plans and applies again until the plan is applied; an apply
\* that was started goes on, since every request has a timeout.
Fairness == WF_vars(BuildPlan) /\ \A p \in Appliers : WF_vars(Apply(p))

Spec == Safety /\ Fairness

-----------------------------------------------------------------------------
(* What provisioning promises.                                             *)

\* However applies were interrupted, the rows are ones that the preflight of
\* the next apply accepts (reserve_target, activate_target).
RowsResumable == Accepts(mapping, bound)

\* The apply that holds the lock never finds its plan applied by another, not
\* even by one that lost the lock and went on (start_apply, finish_apply).
HolderIsNotOvertaken == lock # None => plan.state # "applied"

\* No timeout, crash or second apply gives an equipment_id a second asset (the
\* lookup and the idempotency key of create_asset).
OneAssetPerTarget == \A t \in Targets : Cardinality(cmms[t].live) <= 1

\* provision-verify: the receipt names all targets.
Verified == plan.state = "applied" /\ \A t \in Targets : plan.results[t] # NoAsset

\* An applied plan passes provision-verify, and what its receipt says of the
\* targets is what the rows say, for ever.
ReceiptIsTrue ==
  plan.state = "applied" =>
    /\ Verified
    /\ \A t \in Targets : /\ mapping[t] = [status |-> "ACTIVE", asset |-> plan.results[t]]
                          /\ bound[t]

\* A target is active only if ThingsBoard shows its asset, unless a user
\* replaced the asset: late writes and unknown results included.
ActiveIsShown ==
  \A t \in Targets :
    mapping[t].status = "ACTIVE" /\ cmms[t].made = 1 => tb[t] = mapping[t].asset

\* The asset on record of a target is never exchanged, though an apply without
\* its lock may hold another one (activate_target).
AssetStays ==
  [][\A t \in Targets : mapping[t].asset # NoAsset => mapping'[t] = mapping[t]]_vars

\* Whatever went wrong, applying again gets the plan applied, unless a user
\* replaced an asset.
ApplyFinishes ==
  plan.state # "absent" ~> plan.state = "applied" \/ \E t \in Targets : cmms[t].made > 1
=============================================================================
