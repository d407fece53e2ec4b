------------------------- MODULE Provisioning_proofs -------------------------
(***************************************************************************)
(* Proofs about Provisioning, for every number of targets, assets and       *)
(* faults and every set of processes.                                       *)
(***************************************************************************)
EXTENDS Provisioning, FiniteSetTheorems, TLAPS

Pcs == {"idle", "start", "mappings", "bindings", "reserve", "find", "create",
        "lost", "write", "readback", "confirm", "activate", "finish"}

\* What a process does to its own record keeps its type.
LEMMA ProcessTyping ==
  ASSUME TypeOK, NEW p \in Appliers
  PROVE  /\ apply[p].target \in Targets
         /\ apply[p].asset \in MaybeAsset
         /\ [apply EXCEPT ![p] = Idle] \in [Appliers -> Applies]
         /\ \A pc \in Pcs : [apply EXCEPT ![p].pc = pc] \in [Appliers -> Applies]
         /\ \A i \in AssetIds :
              [apply EXCEPT ![p].pc = "write", ![p].asset = i] \in [Appliers -> Applies]
<1>1. apply[p] \in Applies
  BY DEF TypeOK
<1>2. Idle \in Applies
  <2>1. 1 \in Targets
    BY TargetsAssumption DEF Targets
  <2>2. NoMapping \in Mappings /\ NoAsset \in MaybeAsset
    BY DEF NoMapping, Mappings, MaybeAsset
  <2>3. QED
    BY <2>1, <2>2 DEF Idle, Applies, NoResults
<1>3. QED
  BY <1>1, <1>2 DEF TypeOK, Applies, Pcs, MaybeAsset

LEMMA RecordTyping ==
  ASSUME TypeOK, NEW p \in Appliers, Record(p)
  PROVE  apply' \in [Appliers -> Applies]
<1>1. apply[p] \in Applies
  BY DEF TypeOK
<1>2. apply[p].target # Last => apply[p].target + 1 \in Targets
  BY <1>1, TargetsAssumption DEF Applies, Targets
<1>3. AfterTarget(p) \in {"finish", "reserve"}
  BY DEF AfterTarget
<1>4. [apply[p].results EXCEPT ![apply[p].target] = apply[p].asset] \in [Targets -> MaybeAsset]
  BY <1>1 DEF Applies
<1>5. QED
  BY <1>1, <1>2, <1>3, <1>4 DEF TypeOK, Applies, Record

LEMMA AbortTyping ==
  ASSUME TypeOK, NEW p \in Appliers, Abort(p)
  PROVE  /\ apply' \in [Appliers -> Applies] /\ lock' \in Appliers \cup {None}
         /\ faults' \in 0..MaxFaults => TypeOK'
BY ProcessTyping DEF TypeOK, Abort, rows, outside

\* A step of a process that changes nothing else.
LEMMA MoveTyping ==
  ASSUME TypeOK, NEW p \in Appliers, UNCHANGED <<rows, lock, outside, faults>>
  PROVE  /\ \A pc \in Pcs : Goto(p, pc) => TypeOK'
         /\ \A i \in AssetIds : Take(p, i) => TypeOK'
<1>1. ASSUME apply' \in [Appliers -> Applies] PROVE TypeOK'
  BY <1>1 DEF TypeOK, rows, outside
<1>2. ASSUME NEW pc \in Pcs, Goto(p, pc) PROVE TypeOK'
  BY <1>1, <1>2, ProcessTyping DEF Goto
<1>3. ASSUME NEW i \in AssetIds, Take(p, i) PROVE TypeOK'
  BY <1>1, <1>3, ProcessTyping DEF Take
<1>4. QED
  BY <1>2, <1>3

LEMMA ServeTyping ==
  ASSUME TypeOK, NEW t \in Targets, NEW key \in Keys, ServeCreate(t, key)
  PROVE  cmms' \in [Targets -> Equipment]
<1>1. CASE UNCHANGED cmms
  BY <1>1 DEF TypeOK
<1>2. CASE cmms' # cmms
  <2> DEFINE i == cmms[t].made + 1
  <2>1. i \in AssetIds
    BY <1>2 DEF ServeCreate
  <2>2. cmms' = [cmms EXCEPT ![t].live = @ \cup {i}, ![t].made = i,
                             ![t].keyed = @ \cup {[key |-> key, asset |-> i]}]
    BY <1>2 DEF ServeCreate
  <2>3. cmms[t] \in Equipment
    BY DEF TypeOK
  <2>4. /\ cmms[t].live \cup {i} \subseteq AssetIds /\ i \in MaybeAsset
        /\ cmms[t].keyed \cup {[key |-> key, asset |-> i]} \subseteq [key : Keys, asset : AssetIds]
    BY <2>1, <2>3 DEF Equipment, MaybeAsset
  <2> HIDE DEF i
  <2>5. [cmms[t] EXCEPT !.live = cmms[t].live \cup {i}, !.made = i,
                        !.keyed = cmms[t].keyed \cup {[key |-> key, asset |-> i]}] \in Equipment
    BY <2>3, <2>4 DEF Equipment
  <2>6. QED
    BY <2>2, <2>5 DEF TypeOK
<1>3. QED
  BY <1>1, <1>2

\* A process has an asset in hand from the lookup to the activation.
Holding == {"write", "readback", "confirm", "activate"}
Held == \A p \in Appliers : apply[p].pc \in Holding => apply[p].asset \in AssetIds

\* Every variable keeps its type.
LEMMA TypeStep == TypeOK /\ Held /\ [Next]_vars => TypeOK'
<1> SUFFICES ASSUME TypeOK, Held, [Next]_vars PROVE TypeOK'
  OBVIOUS
<1> USE TargetsAssumption, AssetsAssumption, FaultsAssumption
<1>0. /\ Reservation \in Mappings /\ NoMapping \in Mappings /\ NoAsset \in MaybeAsset
      /\ \A i \in MaybeAsset : [status |-> "ACTIVE", asset |-> i] \in Mappings
      /\ NoResults \in [Targets -> MaybeAsset]
  BY DEF Reservation, NoMapping, NoResults, Mappings, MaybeAsset
<1>1. CASE BuildPlan
  BY <1>0, <1>1 DEF BuildPlan, TypeOK, Plans, outside
<1>2. CASE Expire
  BY <1>2 DEF Expire, Fault, TypeOK, Plans, outside
<1>3. ASSUME NEW t \in Targets, Replace(t) PROVE TypeOK'
  <2>1. cmms[t] \in Equipment
    BY DEF TypeOK
  <2>2. cmms[t].made + 1 \in AssetIds
    BY <1>3, <2>1 DEF Replace, Equipment, MaybeAsset, AssetIds, NoAsset
  <2>3. cmms' \in [Targets -> Equipment]
    BY <1>3, <2>1, <2>2 DEF Replace, Equipment, TypeOK, MaybeAsset
  <2>4. QED
    BY <1>3, <2>3 DEF Replace, Fault, TypeOK, rows
<1>4. ASSUME NEW w \in lateAssets, ServeLateCreate(w) PROVE TypeOK'
  <2>1. w.target \in Targets /\ w.key \in Keys
    BY <1>4 DEF TypeOK
  <2>2. QED
    BY <1>4, <2>1, ServeTyping DEF ServeLateCreate, TypeOK, rows
<1>5. ASSUME NEW w \in lateAttributes, ServeLateWrite(w) PROVE TypeOK'
  BY <1>5 DEF ServeLateWrite, TypeOK, rows, MaybeAsset
<1>6. ASSUME NEW p \in Appliers, Load(p) PROVE TypeOK'
  BY <1>6, ProcessTyping DEF Load, Goto, TypeOK, rows, outside, Pcs
<1>7. ASSUME NEW p \in Appliers, Start(p) PROVE TypeOK'
  <2>1. faults' = faults
    BY <1>7 DEF Start
  <2>2. CASE Abort(p)
    BY <2>1, <2>2, AbortTyping DEF TypeOK
  <2>3. CASE Goto(p, "mappings") /\ lock' = p /\ UNCHANGED <<rows, outside>>
    BY <2>1, <2>3, ProcessTyping DEF Goto, Pcs, TypeOK, rows, outside
  <2>4. QED
    BY <1>7, <2>2, <2>3 DEF Start
<1>8. ASSUME NEW p \in Appliers, ReadMappings(p) PROVE TypeOK'
  <2>1. [apply EXCEPT ![p].pc = "bindings", ![p].seen = mapping] \in [Appliers -> Applies]
    <3>1. apply[p] \in Applies /\ mapping \in [Targets -> Mappings]
      BY DEF TypeOK
    <3>2. [apply[p] EXCEPT !.pc = "bindings", !.seen = mapping] \in Applies
      BY <3>1 DEF Applies
    <3>3. QED
      BY <3>2 DEF TypeOK
  <2>2. QED
    BY <1>8, <2>1 DEF ReadMappings, TypeOK, rows, outside
<1>9. ASSUME NEW p \in Appliers, ReadBindings(p) PROVE TypeOK'
  <2>1. \/ Abort(p)
        \/ Goto(p, "reserve") /\ UNCHANGED <<rows, lock, outside>>
    BY <1>9 DEF ReadBindings
  <2>2. faults' = faults
    BY <1>9 DEF ReadBindings
  <2>3. CASE Abort(p)
    BY <2>2, <2>3, AbortTyping DEF TypeOK
  <2>4. CASE Goto(p, "reserve") /\ UNCHANGED <<rows, lock, outside>>
    BY <2>2, <2>4, MoveTyping DEF Pcs
  <2>5. QED
    BY <2>1, <2>3, <2>4
<1>10. ASSUME NEW p \in Appliers, Reserve(p) PROVE TypeOK'
  BY <1>0, <1>10, ProcessTyping DEF Reserve, Goto, TypeOK, outside, Pcs
<1>11. ASSUME NEW p \in Appliers, Find(p) PROVE TypeOK'
  <2>1. cmms[apply[p].target].live \subseteq AssetIds
    BY ProcessTyping DEF TypeOK, Equipment
  <2>2. faults' = faults
    BY <1>11 DEF Find
  <2>3. CASE Abort(p)
    BY <2>2, <2>3, AbortTyping DEF TypeOK
  <2>4. ASSUME NEW i \in AssetIds, Take(p, i), UNCHANGED <<rows, lock, outside>>
        PROVE  TypeOK'
    BY <2>2, <2>4, MoveTyping
  <2>5. CASE Goto(p, "create") /\ UNCHANGED <<rows, lock, outside>>
    BY <2>2, <2>5, MoveTyping DEF Pcs
  <2>6. QED
    BY <1>11, <2>1, <2>3, <2>4, <2>5 DEF Find
<1>12. ASSUME NEW p \in Appliers, Create(p) PROVE TypeOK'
  <2>1. KeyOf(p) \in Keys
    BY DEF KeyOf, Keys
  <2>2. cmms' \in [Targets -> Equipment]
    BY <1>12, <2>1, ServeTyping, ProcessTyping DEF Create
  <2>3. PICK e \in cmms'[apply[p].target].keyed : Take(p, e.asset)
    BY <1>12 DEF Create
  <2>4. e.asset \in AssetIds
    <3>1. cmms'[apply[p].target].keyed \subseteq [key : Keys, asset : AssetIds]
      BY <2>2, ProcessTyping DEF Equipment
    <3>2. e \in [key : Keys, asset : AssetIds]
      BY <2>3, <3>1
    <3>3. QED
      BY <3>2
  <2>5. apply' \in [Appliers -> Applies]
    BY <2>3, <2>4, ProcessTyping DEF Take
  <2>6. QED
    BY <1>12, <2>2, <2>5 DEF Create, TypeOK, rows
<1>13. ASSUME NEW p \in Appliers, FindLost(p) PROVE TypeOK'
  <2>1. cmms[apply[p].target].live \subseteq AssetIds
    BY ProcessTyping DEF TypeOK, Equipment
  <2>2. faults' = faults
    BY <1>13 DEF FindLost
  <2>3. CASE Abort(p)
    BY <2>2, <2>3, AbortTyping DEF TypeOK
  <2>4. ASSUME NEW i \in AssetIds, Take(p, i), UNCHANGED <<rows, lock, outside>>
        PROVE  TypeOK'
    BY <2>2, <2>4, MoveTyping
  <2>5. QED
    BY <1>13, <2>1, <2>3, <2>4 DEF FindLost
<1>14. ASSUME NEW p \in Appliers, WriteAttributes(p) PROVE TypeOK'
  BY <1>14, ProcessTyping DEF WriteAttributes, Goto, TypeOK, rows, Pcs
<1>15. ASSUME NEW p \in Appliers, ReadBack(p) PROVE TypeOK'
  <2>1. \/ Abort(p)
        \/ Goto(p, "confirm") /\ UNCHANGED <<rows, lock, outside>>
    BY <1>15 DEF ReadBack
  <2>2. faults' = faults
    BY <1>15 DEF ReadBack
  <2>3. CASE Abort(p)
    BY <2>2, <2>3, AbortTyping DEF TypeOK
  <2>4. CASE Goto(p, "confirm") /\ UNCHANGED <<rows, lock, outside>>
    BY <2>2, <2>4, MoveTyping DEF Pcs
  <2>5. QED
    BY <2>1, <2>3, <2>4
<1>16. ASSUME NEW p \in Appliers, Confirm(p) PROVE TypeOK'
  <2>1. \/ Abort(p)
        \/ Goto(p, "activate") /\ UNCHANGED <<rows, lock, outside>>
    BY <1>16 DEF Confirm
  <2>2. faults' = faults
    BY <1>16 DEF Confirm
  <2>3. CASE Abort(p)
    BY <2>2, <2>3, AbortTyping DEF TypeOK
  <2>4. CASE Goto(p, "activate") /\ UNCHANGED <<rows, lock, outside>>
    BY <2>2, <2>4, MoveTyping DEF Pcs
  <2>5. QED
    BY <2>1, <2>3, <2>4
<1>17. ASSUME NEW p \in Appliers, Activate(p) PROVE TypeOK'
  <2>1. faults' = faults
    BY <1>17 DEF Activate
  <2>2. CASE Abort(p)
    BY <2>1, <2>2, AbortTyping DEF TypeOK
  <2>3. ASSUME Record(p), NEW i \in MaybeAsset, UNCHANGED <<plan, lock, outside>>,
               mapping' = [mapping EXCEPT ![apply[p].target] = [status |-> "ACTIVE", asset |-> i]],
               bound' = [bound EXCEPT ![apply[p].target] = TRUE]
        PROVE  TypeOK'
    <3>1. apply' \in [Appliers -> Applies]
      BY <2>3, RecordTyping
    <3>2. mapping' \in [Targets -> Mappings] /\ bound' \in [Targets -> BOOLEAN]
      BY <1>0, <2>3 DEF TypeOK
    <3>3. QED
      BY <2>1, <2>3, <3>1, <3>2 DEF TypeOK, outside
  <2>4. QED
    BY <1>17, <2>2, <2>3, ProcessTyping DEF Activate
<1>18. ASSUME NEW p \in Appliers, Finish(p) PROVE TypeOK'
  <2>1. faults' = faults
    BY <1>18 DEF Finish
  <2>2. CASE Abort(p)
    BY <2>1, <2>2, AbortTyping DEF TypeOK
  <2>3. CASE ~Abort(p)
    <3>1. apply[p].results \in [Targets -> MaybeAsset]
      BY DEF TypeOK, Applies
    <3>2. /\ plan' = [state |-> "applied", results |-> apply[p].results]
          /\ apply' = [apply EXCEPT ![p] = Idle]
          /\ lock' = None
          /\ UNCHANGED <<mapping, bound, outside>>
      BY <1>18, <2>3 DEF Finish
    <3>3. plan' \in Plans
      BY <3>1, <3>2 DEF Plans
    <3>4. apply' \in [Appliers -> Applies]
      BY <3>2, ProcessTyping
    <3>5. QED
      BY <2>1, <3>2, <3>3, <3>4 DEF TypeOK, outside
  <2>4. QED
    BY <2>2, <2>3
<1>19. ASSUME NEW p \in Appliers, CreateTimesOut(p) PROVE TypeOK'
  <2>1. apply' \in [Appliers -> Applies]
    BY <1>19, ProcessTyping DEF CreateTimesOut, Goto, Pcs
  <2>2. lateAssets' \subseteq [target : Targets, key : Keys]
    <3>1. [target |-> apply[p].target, key |-> KeyOf(p)] \in [target : Targets, key : Keys]
      BY ProcessTyping DEF KeyOf, Keys
    <3>2. QED
      BY <1>19, <3>1 DEF CreateTimesOut, TypeOK
  <2>3. QED
    BY <1>19, <2>1, <2>2 DEF CreateTimesOut, Fault, TypeOK, rows
<1>20. ASSUME NEW p \in Appliers, WriteTimesOut(p) PROVE TypeOK'
  <2>1. apply' \in [Appliers -> Applies]
    BY <1>20, ProcessTyping DEF WriteTimesOut, Goto, Pcs
  <2>2. lateAttributes' \subseteq [target : Targets, asset : AssetIds]
    <3>1. apply[p].asset \in AssetIds
      BY <1>20 DEF WriteTimesOut, Held, Holding
    <3>2. [target |-> apply[p].target, asset |-> apply[p].asset]
            \in [target : Targets, asset : AssetIds]
      BY <3>1, ProcessTyping
    <3>3. QED
      BY <1>20, <3>2 DEF WriteTimesOut, TypeOK
  <2>3. QED
    BY <1>20, <2>1, <2>2 DEF WriteTimesOut, Fault, TypeOK, rows
<1>21. ASSUME NEW p \in Appliers, Stop(p) PROVE TypeOK'
  BY <1>21, AbortTyping DEF Stop, Fault, TypeOK
<1>22. ASSUME NEW p \in Appliers, LoseLock(p) PROVE TypeOK'
  BY <1>22 DEF LoseLock, Fault, TypeOK, rows, outside
<1>23. CASE UNCHANGED vars
  BY <1>23 DEF vars, TypeOK
<1>24. QED
  BY <1>1, <1>2, <1>3, <1>4, <1>5, <1>6, <1>7, <1>8, <1>9, <1>10, <1>11, <1>12, <1>13,
     <1>14, <1>15, <1>16, <1>17, <1>18, <1>19, <1>21, <1>22, <1>23, <1>20
     DEF Next, Apply, ApplyTarget, Trouble

-----------------------------------------------------------------------------
(* What a step does to the rows, to the systems outside and to a process.   *)

\* p activates target t.
Activated(p, t) ==
  /\ apply[p].pc = "activate" /\ apply[p].target = t
  /\ mapping[t].status # "ABSENT" /\ mapping[t].asset \in {NoAsset, apply[p].asset}
  /\ mapping'[t] = [status |-> "ACTIVE", asset |-> apply[p].asset]
  /\ bound'[t] = TRUE
  /\ UNCHANGED <<cmms, tb>>

\* The row of t stays, is reserved, or becomes active.
RowMoves(t) ==
  \/ mapping'[t] = mapping[t] /\ bound'[t] = bound[t]
  \/ /\ mapping[t] = NoMapping /\ mapping'[t] = Reservation
     /\ bound'[t] = bound[t]
  \/ \E p \in Appliers : Activated(p, t)

\* The CMMS creates the first asset of t, under the one key there is.
Created(t) ==
  /\ cmms[t].keyed = {}
  /\ cmms'[t].live = cmms[t].live \cup {cmms[t].made + 1}
  /\ cmms'[t].made = cmms[t].made + 1
  /\ \E key \in Keys : cmms'[t].keyed = {[key |-> key, asset |-> cmms[t].made + 1]}

\* A user replaces the asset of t.
Replaced(t) ==
  /\ cmms[t].live # {}
  /\ cmms'[t].live = {cmms[t].made + 1}
  /\ cmms'[t].made = cmms[t].made + 1
  /\ cmms'[t].keyed = cmms[t].keyed

CmmsMoves(t) == cmms'[t] = cmms[t] \/ Created(t) \/ Replaced(t)

\* Attributes come from a process that writes, or from a late write.
TbMoves(t) ==
  \/ tb'[t] = tb[t]
  \/ \E w \in lateAttributes : w.target = t /\ tb'[t] = w.asset
  \/ \E p \in Appliers : /\ apply[p].pc = "write" /\ apply[p].target = t
                         /\ tb'[t] = apply[p].asset

LateMoves ==
  \A w \in lateAttributes' :
    \/ w \in lateAttributes
    \/ \E p \in Appliers : /\ apply[p].pc = "write" /\ w.target = apply[p].target
                           /\ w.asset = apply[p].asset

\* A process moves on to a place where it holds no asset.
EarlyMove(q) ==
  /\ apply'[q].pc \in Pcs \ (Holding \cup {"finish", "idle"})
  /\ apply'[q].target = apply[q].target /\ apply'[q].results = apply[q].results
  /\ apply[q].pc \notin Holding \cup {"finish"}

\* It takes an asset that exists, or the one that its key stands for.
Taken(q) ==
  /\ apply'[q].pc = "write"
  /\ apply'[q].target = apply[q].target /\ apply'[q].results = apply[q].results
  /\ apply[q].pc \notin Holding \cup {"finish"}
  /\ \/ apply'[q].asset \in cmms'[apply[q].target].live
     \/ \E e \in cmms'[apply[q].target].keyed : apply'[q].asset = e.asset

\* It goes on with the asset it has.
Onward(q) ==
  /\ apply[q].pc \in Holding
  /\ apply'[q].target = apply[q].target /\ apply'[q].results = apply[q].results
  /\ apply'[q].asset = apply[q].asset
  /\ \/ apply'[q].pc = "readback"
     \/ apply'[q].pc = "confirm" /\ tb[apply[q].target] = apply[q].asset
     \/ apply'[q].pc = "activate" /\ apply[q].pc = "confirm"

\* It records an activated target.
Recorded(q) ==
  /\ Activated(q, apply[q].target)
  /\ apply'[q].results = [apply[q].results EXCEPT ![apply[q].target] = apply[q].asset]
  /\ \/ apply[q].target = Last /\ apply'[q].target = Last /\ apply'[q].pc = "finish"
     \/ /\ apply[q].target # Last /\ apply'[q].target = apply[q].target + 1
        /\ apply'[q].pc = "reserve"

ProcessMoves(q) ==
  \/ apply'[q] = apply[q] \/ apply'[q] = Idle
  \/ EarlyMove(q) \/ Taken(q) \/ Onward(q) \/ Recorded(q)

\* An apply that holds the lock finishes.
Finished(p) ==
  /\ apply[p].pc = "finish" /\ lock = p
  /\ plan' = [state |-> "applied", results |-> apply[p].results]
  /\ lock' = None
  /\ UNCHANGED <<mapping, bound>>

\* The plan stays, and is not applied when the lock is taken; or it is not
\* applied after the step; or an apply finishes.
PlanMoves ==
  \/ plan' = plan /\ (lock' \in {lock, None} \/ plan.state # "applied")
  \/ plan'.state # "applied"
  \/ \E p \in Appliers : Finished(p)

\* What becomes of a mapping and a binding.
LEMMA RowsStep ==
  ASSUME TypeOK, [Next]_vars, NEW t \in Targets
  PROVE  RowMoves(t)
<1>1. CASE BuildPlan
  BY <1>1 DEF BuildPlan, Abort, rows, outside, RowMoves
<1>2. CASE Expire
  BY <1>2 DEF Expire, Abort, rows, outside, RowMoves
<1>3. ASSUME NEW u \in Targets, Replace(u) PROVE RowMoves(t)
  BY <1>3 DEF Replace, Abort, rows, outside, RowMoves
<1>4. ASSUME NEW w \in lateAssets, ServeLateCreate(w) PROVE RowMoves(t)
  BY <1>4 DEF ServeLateCreate, Abort, rows, outside, RowMoves
<1>5. ASSUME NEW w \in lateAttributes, ServeLateWrite(w) PROVE RowMoves(t)
  BY <1>5 DEF ServeLateWrite, Abort, rows, outside, RowMoves
<1>6. ASSUME NEW p \in Appliers, Load(p) PROVE RowMoves(t)
  BY <1>6 DEF Load, Abort, rows, outside, RowMoves
<1>7. ASSUME NEW p \in Appliers, Start(p) PROVE RowMoves(t)
  BY <1>7 DEF Start, Abort, rows, outside, RowMoves
<1>8. ASSUME NEW p \in Appliers, ReadMappings(p) PROVE RowMoves(t)
  BY <1>8 DEF ReadMappings, Abort, rows, outside, RowMoves
<1>9. ASSUME NEW p \in Appliers, ReadBindings(p) PROVE RowMoves(t)
  BY <1>9 DEF ReadBindings, Abort, rows, outside, RowMoves
<1>10. ASSUME NEW p \in Appliers, Reserve(p) PROVE RowMoves(t)
  BY <1>10, ProcessTyping DEF Reserve, TypeOK, RowMoves
<1>11. ASSUME NEW p \in Appliers, Find(p) PROVE RowMoves(t)
  BY <1>11 DEF Find, Abort, rows, outside, RowMoves
<1>12. ASSUME NEW p \in Appliers, Create(p) PROVE RowMoves(t)
  BY <1>12 DEF Create, Abort, rows, outside, RowMoves
<1>13. ASSUME NEW p \in Appliers, FindLost(p) PROVE RowMoves(t)
  BY <1>13 DEF FindLost, Abort, rows, outside, RowMoves
<1>14. ASSUME NEW p \in Appliers, WriteAttributes(p) PROVE RowMoves(t)
  BY <1>14 DEF WriteAttributes, Abort, rows, outside, RowMoves
<1>15. ASSUME NEW p \in Appliers, ReadBack(p) PROVE RowMoves(t)
  BY <1>15 DEF ReadBack, Abort, rows, outside, RowMoves
<1>16. ASSUME NEW p \in Appliers, Confirm(p) PROVE RowMoves(t)
  BY <1>16 DEF Confirm, Abort, rows, outside, RowMoves
<1>17. ASSUME NEW p \in Appliers, Activate(p) PROVE RowMoves(t)
  <2>1. CASE Abort(p)
    BY <2>1 DEF Abort, rows, RowMoves
  <2>2. CASE ~Abort(p)
    <3>1. apply[p].target \in Targets
      BY ProcessTyping
    <3>2. /\ mapping[apply[p].target].status # "ABSENT"
          /\ mapping[apply[p].target].asset \in {NoAsset, apply[p].asset}
          /\ mapping' = [mapping EXCEPT ![apply[p].target] =
                                           [status |-> "ACTIVE", asset |-> apply[p].asset]]
          /\ bound' = [bound EXCEPT ![apply[p].target] = TRUE]
          /\ UNCHANGED <<cmms, tb>> /\ apply[p].pc = "activate"
      BY <1>17, <2>2 DEF Activate, outside
    <3>3. CASE t = apply[p].target
      <4>1. Activated(p, t)
        BY <3>1, <3>2, <3>3 DEF Activated, TypeOK
      <4>2. QED
        BY <4>1 DEF RowMoves
    <3>4. CASE t # apply[p].target
      BY <3>1, <3>2, <3>4 DEF TypeOK, RowMoves
    <3>5. QED
      BY <3>3, <3>4
  <2>3. QED
    BY <2>1, <2>2
<1>18. ASSUME NEW p \in Appliers, Finish(p) PROVE RowMoves(t)
  BY <1>18 DEF Finish, Abort, rows, outside, RowMoves
<1>19. ASSUME NEW p \in Appliers, CreateTimesOut(p) PROVE RowMoves(t)
  BY <1>19 DEF CreateTimesOut, Abort, rows, outside, RowMoves
<1>20. ASSUME NEW p \in Appliers, WriteTimesOut(p) PROVE RowMoves(t)
  BY <1>20 DEF WriteTimesOut, Abort, rows, outside, RowMoves
<1>21. ASSUME NEW p \in Appliers, Stop(p) PROVE RowMoves(t)
  BY <1>21 DEF Stop, Abort, rows, outside, RowMoves
<1>22. ASSUME NEW p \in Appliers, LoseLock(p) PROVE RowMoves(t)
  BY <1>22 DEF LoseLock, Abort, rows, outside, RowMoves
<1>23. CASE UNCHANGED vars
  BY <1>23 DEF vars, RowMoves
<1>24. QED
  BY <1>1, <1>2, <1>3, <1>4, <1>5, <1>6, <1>7, <1>8, <1>9, <1>10, <1>11, <1>12,
     <1>13, <1>14, <1>15, <1>16, <1>17, <1>18, <1>19, <1>20, <1>21, <1>22, <1>23
     DEF Next, Apply, ApplyTarget, Trouble

\* Serving one creation.
LEMMA ServeStep ==
  ASSUME TypeOK, NEW u \in Targets, NEW key \in Keys, ServeCreate(u, key), NEW t \in Targets
  PROVE  CmmsMoves(t)
<1>1. CASE UNCHANGED cmms
  BY <1>1 DEF CmmsMoves
<1>2. CASE cmms' # cmms
  <2> DEFINE e == [key |-> key, asset |-> cmms[u].made + 1]
  <2>1. /\ ~ \E k \in cmms[u].keyed : k.key = key
        /\ cmms' = [cmms EXCEPT ![u].live = @ \cup {cmms[u].made + 1},
                                ![u].made = cmms[u].made + 1,
                                ![u].keyed = @ \cup {e}]
    BY <1>2 DEF ServeCreate
  <2>2. cmms[u] \in Equipment
    BY DEF TypeOK
  <2>3. cmms[u].keyed = {}
    BY <2>1, <2>2 DEF Equipment, Keys
  <2> HIDE DEF e
  <2>4. CASE t = u
    <3>1. /\ cmms'[u].live = cmms[u].live \cup {cmms[u].made + 1}
          /\ cmms'[u].made = cmms[u].made + 1
          /\ cmms'[u].keyed = cmms[u].keyed \cup {e}
      BY <2>1, <2>2 DEF TypeOK, Equipment
    <3>2. cmms'[u].keyed = {e}
      BY <2>3, <3>1
    <3>3. Created(t)
      BY <2>3, <2>4, <3>1, <3>2 DEF Created, e
    <3>4. QED
      BY <3>3 DEF CmmsMoves
  <2>5. CASE t # u
    BY <2>1, <2>5 DEF TypeOK, CmmsMoves
  <2>6. QED
    BY <2>4, <2>5
<1>3. QED
  BY <1>1, <1>2

\* What becomes of the assets of a target.
LEMMA CmmsStep ==
  ASSUME TypeOK, [Next]_vars, NEW t \in Targets
  PROVE  CmmsMoves(t)
<1>1. CASE BuildPlan
  BY <1>1 DEF BuildPlan, Abort, rows, outside, CmmsMoves
<1>2. CASE Expire
  BY <1>2 DEF Expire, Abort, rows, outside, CmmsMoves
<1>3. ASSUME NEW u \in Targets, Replace(u) PROVE CmmsMoves(t)
  <2>1. cmms' = [cmms EXCEPT ![u].live = {cmms[u].made + 1}, ![u].made = cmms[u].made + 1]
    BY <1>3 DEF Replace
  <2>2. cmms[u].live # {} /\ cmms[u] \in Equipment
    BY <1>3 DEF Replace, TypeOK
  <2>3. CASE t = u
    BY <2>1, <2>2, <2>3 DEF TypeOK, Equipment, CmmsMoves, Replaced
  <2>4. CASE t # u
    BY <2>1, <2>4 DEF TypeOK, CmmsMoves
  <2>5. QED
    BY <2>3, <2>4
<1>4. ASSUME NEW w \in lateAssets, ServeLateCreate(w) PROVE CmmsMoves(t)
  <2>1. w.target \in Targets /\ w.key \in Keys
    BY DEF TypeOK
  <2>2. QED
    BY <1>4, <2>1, ServeStep DEF ServeLateCreate
<1>5. ASSUME NEW w \in lateAttributes, ServeLateWrite(w) PROVE CmmsMoves(t)
  BY <1>5 DEF ServeLateWrite, Abort, rows, outside, CmmsMoves
<1>6. ASSUME NEW p \in Appliers, Load(p) PROVE CmmsMoves(t)
  BY <1>6 DEF Load, Abort, rows, outside, CmmsMoves
<1>7. ASSUME NEW p \in Appliers, Start(p) PROVE CmmsMoves(t)
  BY <1>7 DEF Start, Abort, rows, outside, CmmsMoves
<1>8. ASSUME NEW p \in Appliers, ReadMappings(p) PROVE CmmsMoves(t)
  BY <1>8 DEF ReadMappings, Abort, rows, outside, CmmsMoves
<1>9. ASSUME NEW p \in Appliers, ReadBindings(p) PROVE CmmsMoves(t)
  BY <1>9 DEF ReadBindings, Abort, rows, outside, CmmsMoves
<1>10. ASSUME NEW p \in Appliers, Reserve(p) PROVE CmmsMoves(t)
  BY <1>10 DEF Reserve, Abort, rows, outside, CmmsMoves
<1>11. ASSUME NEW p \in Appliers, Find(p) PROVE CmmsMoves(t)
  BY <1>11 DEF Find, Abort, rows, outside, CmmsMoves
<1>12. ASSUME NEW p \in Appliers, Create(p) PROVE CmmsMoves(t)
  <2>1. apply[p].target \in Targets /\ KeyOf(p) \in Keys
    BY ProcessTyping DEF KeyOf, Keys
  <2>2. QED
    BY <1>12, <2>1, ServeStep DEF Create
<1>13. ASSUME NEW p \in Appliers, FindLost(p) PROVE CmmsMoves(t)
  BY <1>13 DEF FindLost, Abort, rows, outside, CmmsMoves
<1>14. ASSUME NEW p \in Appliers, WriteAttributes(p) PROVE CmmsMoves(t)
  BY <1>14 DEF WriteAttributes, Abort, rows, outside, CmmsMoves
<1>15. ASSUME NEW p \in Appliers, ReadBack(p) PROVE CmmsMoves(t)
  BY <1>15 DEF ReadBack, Abort, rows, outside, CmmsMoves
<1>16. ASSUME NEW p \in Appliers, Confirm(p) PROVE CmmsMoves(t)
  BY <1>16 DEF Confirm, Abort, rows, outside, CmmsMoves
<1>17. ASSUME NEW p \in Appliers, Activate(p) PROVE CmmsMoves(t)
  BY <1>17 DEF Activate, Abort, rows, outside, CmmsMoves
<1>18. ASSUME NEW p \in Appliers, Finish(p) PROVE CmmsMoves(t)
  BY <1>18 DEF Finish, Abort, rows, outside, CmmsMoves
<1>19. ASSUME NEW p \in Appliers, CreateTimesOut(p) PROVE CmmsMoves(t)
  BY <1>19 DEF CreateTimesOut, Abort, rows, outside, CmmsMoves
<1>20. ASSUME NEW p \in Appliers, WriteTimesOut(p) PROVE CmmsMoves(t)
  BY <1>20 DEF WriteTimesOut, Abort, rows, outside, CmmsMoves
<1>21. ASSUME NEW p \in Appliers, Stop(p) PROVE CmmsMoves(t)
  BY <1>21 DEF Stop, Abort, rows, outside, CmmsMoves
<1>22. ASSUME NEW p \in Appliers, LoseLock(p) PROVE CmmsMoves(t)
  BY <1>22 DEF LoseLock, Abort, rows, outside, CmmsMoves
<1>23. CASE UNCHANGED vars
  BY <1>23 DEF vars, CmmsMoves
<1>24. QED
  BY <1>1, <1>2, <1>3, <1>4, <1>5, <1>6, <1>7, <1>8, <1>9, <1>10, <1>11, <1>12,
     <1>13, <1>14, <1>15, <1>16, <1>17, <1>18, <1>19, <1>20, <1>21, <1>22, <1>23
     DEF Next, Apply, ApplyTarget, Trouble

\* What becomes of the attributes of a target.
LEMMA TbStep ==
  ASSUME TypeOK, [Next]_vars, NEW t \in Targets
  PROVE  TbMoves(t) /\ LateMoves
<1>1. CASE BuildPlan
  BY <1>1 DEF BuildPlan, Abort, rows, outside, TbMoves, LateMoves
<1>2. CASE Expire
  BY <1>2 DEF Expire, Abort, rows, outside, TbMoves, LateMoves
<1>3. ASSUME NEW u \in Targets, Replace(u) PROVE TbMoves(t) /\ LateMoves
  BY <1>3 DEF Replace, Abort, rows, outside, TbMoves, LateMoves
<1>4. ASSUME NEW w \in lateAssets, ServeLateCreate(w) PROVE TbMoves(t) /\ LateMoves
  BY <1>4 DEF ServeLateCreate, Abort, rows, outside, TbMoves, LateMoves
<1>5. ASSUME NEW w \in lateAttributes, ServeLateWrite(w) PROVE TbMoves(t) /\ LateMoves
  <2>1. tb' = [tb EXCEPT ![w.target] = w.asset] /\ lateAttributes' \subseteq lateAttributes
    BY <1>5 DEF ServeLateWrite
  <2>2. w.target \in Targets
    BY DEF TypeOK
  <2>3. QED
    BY <2>1, <2>2 DEF TypeOK, TbMoves, LateMoves
<1>6. ASSUME NEW p \in Appliers, Load(p) PROVE TbMoves(t) /\ LateMoves
  BY <1>6 DEF Load, Abort, rows, outside, TbMoves, LateMoves
<1>7. ASSUME NEW p \in Appliers, Start(p) PROVE TbMoves(t) /\ LateMoves
  BY <1>7 DEF Start, Abort, rows, outside, TbMoves, LateMoves
<1>8. ASSUME NEW p \in Appliers, ReadMappings(p) PROVE TbMoves(t) /\ LateMoves
  BY <1>8 DEF ReadMappings, Abort, rows, outside, TbMoves, LateMoves
<1>9. ASSUME NEW p \in Appliers, ReadBindings(p) PROVE TbMoves(t) /\ LateMoves
  BY <1>9 DEF ReadBindings, Abort, rows, outside, TbMoves, LateMoves
<1>10. ASSUME NEW p \in Appliers, Reserve(p) PROVE TbMoves(t) /\ LateMoves
  BY <1>10 DEF Reserve, Abort, rows, outside, TbMoves, LateMoves
<1>11. ASSUME NEW p \in Appliers, Find(p) PROVE TbMoves(t) /\ LateMoves
  BY <1>11 DEF Find, Abort, rows, outside, TbMoves, LateMoves
<1>12. ASSUME NEW p \in Appliers, Create(p) PROVE TbMoves(t) /\ LateMoves
  BY <1>12 DEF Create, Abort, rows, outside, TbMoves, LateMoves
<1>13. ASSUME NEW p \in Appliers, FindLost(p) PROVE TbMoves(t) /\ LateMoves
  BY <1>13 DEF FindLost, Abort, rows, outside, TbMoves, LateMoves
<1>14. ASSUME NEW p \in Appliers, WriteAttributes(p) PROVE TbMoves(t) /\ LateMoves
  <2>1. tb' = [tb EXCEPT ![apply[p].target] = apply[p].asset] /\ apply[p].pc = "write"
    BY <1>14 DEF WriteAttributes
  <2>2. lateAttributes' = lateAttributes
    BY <1>14 DEF WriteAttributes
  <2>3. QED
    BY <2>1, <2>2, ProcessTyping DEF TypeOK, TbMoves, LateMoves
<1>15. ASSUME NEW p \in Appliers, ReadBack(p) PROVE TbMoves(t) /\ LateMoves
  BY <1>15 DEF ReadBack, Abort, rows, outside, TbMoves, LateMoves
<1>16. ASSUME NEW p \in Appliers, Confirm(p) PROVE TbMoves(t) /\ LateMoves
  BY <1>16 DEF Confirm, Abort, rows, outside, TbMoves, LateMoves
<1>17. ASSUME NEW p \in Appliers, Activate(p) PROVE TbMoves(t) /\ LateMoves
  BY <1>17 DEF Activate, Abort, rows, outside, TbMoves, LateMoves
<1>18. ASSUME NEW p \in Appliers, Finish(p) PROVE TbMoves(t) /\ LateMoves
  BY <1>18 DEF Finish, Abort, rows, outside, TbMoves, LateMoves
<1>19. ASSUME NEW p \in Appliers, CreateTimesOut(p) PROVE TbMoves(t) /\ LateMoves
  BY <1>19 DEF CreateTimesOut, Abort, rows, outside, TbMoves, LateMoves
<1>20. ASSUME NEW p \in Appliers, WriteTimesOut(p) PROVE TbMoves(t) /\ LateMoves
  <2>1. /\ lateAttributes' = lateAttributes
                               \cup {[target |-> apply[p].target, asset |-> apply[p].asset]}
        /\ apply[p].pc = "write" /\ tb' = tb
    BY <1>20 DEF WriteTimesOut
  <2>2. QED
    BY <2>1 DEF TbMoves, LateMoves
<1>21. ASSUME NEW p \in Appliers, Stop(p) PROVE TbMoves(t) /\ LateMoves
  BY <1>21 DEF Stop, Abort, rows, outside, TbMoves, LateMoves
<1>22. ASSUME NEW p \in Appliers, LoseLock(p) PROVE TbMoves(t) /\ LateMoves
  BY <1>22 DEF LoseLock, Abort, rows, outside, TbMoves, LateMoves
<1>23. CASE UNCHANGED vars
  BY <1>23 DEF vars, TbMoves, LateMoves
<1>24. QED
  BY <1>1, <1>2, <1>3, <1>4, <1>5, <1>6, <1>7, <1>8, <1>9, <1>10, <1>11, <1>12,
     <1>13, <1>14, <1>15, <1>16, <1>17, <1>18, <1>19, <1>20, <1>21, <1>22, <1>23
     DEF Next, Apply, ApplyTarget, Trouble

\* The record of p after Goto and Take, and those of the others.
LEMMA Going ==
  ASSUME TypeOK, NEW p \in Appliers, NEW pc \in Pcs, Goto(p, pc), NEW q \in Appliers
  PROVE  /\ q # p => apply'[q] = apply[q]
         /\ q = p => /\ apply'[q].pc = pc
                     /\ apply'[q].target = apply[q].target
                     /\ apply'[q].asset = apply[q].asset
                     /\ apply'[q].results = apply[q].results
<1>1. apply[p] \in Applies
  BY DEF TypeOK
<1>2. q # p => apply'[q] = apply[q]
  BY DEF Goto, TypeOK
<1>3. apply'[p] = [apply[p] EXCEPT !.pc = pc]
  BY DEF Goto, TypeOK
<1>4. QED
  BY <1>1, <1>2, <1>3 DEF Applies

LEMMA Taking ==
  ASSUME TypeOK, NEW p \in Appliers, NEW i, Take(p, i), NEW q \in Appliers
  PROVE  /\ q # p => apply'[q] = apply[q]
         /\ q = p => /\ apply'[q].pc = "write" /\ apply'[q].asset = i
                     /\ apply'[q].target = apply[q].target
                     /\ apply'[q].results = apply[q].results
<1>1. apply[p] \in Applies
  BY DEF TypeOK
<1>2. q # p => apply'[q] = apply[q]
  BY DEF Take, TypeOK
<1>3. apply'[p] = [apply[p] EXCEPT !.pc = "write", !.asset = i]
  BY DEF Take, TypeOK
<1>4. QED
  BY <1>1, <1>2, <1>3 DEF Applies

LEMMA Aborting ==
  ASSUME TypeOK, NEW p \in Appliers, apply' = [apply EXCEPT ![p] = Idle], NEW q \in Appliers
  PROVE  ProcessMoves(q)
BY DEF TypeOK, ProcessMoves

\* What becomes of a process.
LEMMA ProcessStep ==
  ASSUME TypeOK, [Next]_vars, NEW q \in Appliers
  PROVE  ProcessMoves(q)
<1>1. CASE BuildPlan
  BY <1>1 DEF BuildPlan, ProcessMoves
<1>2. CASE Expire
  BY <1>2 DEF Expire, ProcessMoves
<1>3. ASSUME NEW u \in Targets, Replace(u) PROVE ProcessMoves(q)
  BY <1>3 DEF Replace, ProcessMoves
<1>4. ASSUME NEW w \in lateAssets, ServeLateCreate(w) PROVE ProcessMoves(q)
  BY <1>4 DEF ServeLateCreate, ProcessMoves
<1>5. ASSUME NEW w \in lateAttributes, ServeLateWrite(w) PROVE ProcessMoves(q)
  BY <1>5 DEF ServeLateWrite, ProcessMoves
<1>6. ASSUME NEW p \in Appliers, Load(p) PROVE ProcessMoves(q)
  <2>1. Goto(p, "start") /\ apply[p].pc \notin Holding \cup {"finish"}
    BY <1>6 DEF Load, Holding
  <2>2. "start" \in Pcs \ (Holding \cup {"finish", "idle"})
    BY DEF Pcs, Holding
  <2>3. QED
    BY <2>1, <2>2, Going DEF ProcessMoves, EarlyMove
<1>7. ASSUME NEW p \in Appliers, Start(p) PROVE ProcessMoves(q)
  <2>1. CASE Abort(p)
    BY <2>1, Aborting DEF Abort
  <2>2. CASE ~Abort(p)
    <3>1. Goto(p, "mappings") /\ apply[p].pc \notin Holding \cup {"finish"}
      BY <1>7, <2>2 DEF Start, Holding
    <3>2. "mappings" \in Pcs \ (Holding \cup {"finish", "idle"})
      BY DEF Pcs, Holding
    <3>3. QED
      BY <3>1, <3>2, Going DEF ProcessMoves, EarlyMove
  <2>3. QED
    BY <2>1, <2>2
<1>8. ASSUME NEW p \in Appliers, ReadMappings(p) PROVE ProcessMoves(q)
  <2>1. /\ apply' = [apply EXCEPT ![p].pc = "bindings", ![p].seen = mapping]
        /\ apply[p].pc \notin Holding \cup {"finish"}
    BY <1>8 DEF ReadMappings, Holding
  <2>2. CASE q # p
    BY <2>1, <2>2 DEF TypeOK, ProcessMoves
  <2>3. CASE q = p
    <3>1. apply[p] \in Applies
      BY DEF TypeOK
    <3>2. apply'[p] = [apply[p] EXCEPT !.pc = "bindings", !.seen = mapping]
      BY <2>1 DEF TypeOK
    <3>3. /\ apply'[p].pc = "bindings" /\ apply'[p].target = apply[p].target
          /\ apply'[p].results = apply[p].results
      BY <3>1, <3>2 DEF Applies
    <3>4. "bindings" \in Pcs \ (Holding \cup {"finish", "idle"})
      BY DEF Pcs, Holding
    <3>5. QED
      BY <2>1, <2>3, <3>3, <3>4 DEF ProcessMoves, EarlyMove
  <2>4. QED
    BY <2>2, <2>3
<1>9. ASSUME NEW p \in Appliers, ReadBindings(p) PROVE ProcessMoves(q)
  <2>1. CASE Abort(p)
    BY <2>1, Aborting DEF Abort
  <2>2. CASE ~Abort(p)
    <3>1. Goto(p, "reserve") /\ apply[p].pc \notin Holding \cup {"finish"}
      BY <1>9, <2>2 DEF ReadBindings, Holding
    <3>2. "reserve" \in Pcs \ (Holding \cup {"finish", "idle"})
      BY DEF Pcs, Holding
    <3>3. QED
      BY <3>1, <3>2, Going DEF ProcessMoves, EarlyMove
  <2>3. QED
    BY <2>1, <2>2
<1>10. ASSUME NEW p \in Appliers, Reserve(p) PROVE ProcessMoves(q)
  <2>1. Goto(p, "find") /\ apply[p].pc \notin Holding \cup {"finish"}
    BY <1>10 DEF Reserve, Holding
  <2>2. "find" \in Pcs \ (Holding \cup {"finish", "idle"})
    BY DEF Pcs, Holding
  <2>3. QED
    BY <2>1, <2>2, Going DEF ProcessMoves, EarlyMove
<1>11. ASSUME NEW p \in Appliers, Find(p) PROVE ProcessMoves(q)
  <2>1. CASE Abort(p)
    BY <2>1, Aborting DEF Abort
  <2>2. CASE Goto(p, "create")
    <3>1. apply[p].pc \notin Holding \cup {"finish"}
      BY <1>11 DEF Find, Holding
    <3>2. "create" \in Pcs \ (Holding \cup {"finish", "idle"})
      BY DEF Pcs, Holding
    <3>3. QED
      BY <2>2, <3>1, <3>2, Going DEF ProcessMoves, EarlyMove
  <2>3. ASSUME NEW i \in cmms[apply[p].target].live, Take(p, i), UNCHANGED outside
        PROVE  ProcessMoves(q)
    <3>1. apply[p].pc \notin Holding \cup {"finish"} /\ cmms' = cmms
      BY <1>11, <2>3 DEF Find, Holding, outside
    <3>2. QED
      BY <2>3, <3>1, Taking DEF ProcessMoves, Taken
  <2>4. QED
    BY <1>11, <2>1, <2>2, <2>3 DEF Find
<1>12. ASSUME NEW p \in Appliers, Create(p) PROVE ProcessMoves(q)
  <2>1. PICK e \in cmms'[apply[p].target].keyed : Take(p, e.asset)
    BY <1>12 DEF Create
  <2>2. apply[p].pc \notin Holding \cup {"finish"}
    BY <1>12 DEF Create, Holding
  <2>3. QED
    BY <2>1, <2>2, Taking DEF ProcessMoves, Taken
<1>13. ASSUME NEW p \in Appliers, FindLost(p) PROVE ProcessMoves(q)
  <2>1. CASE Abort(p)
    BY <2>1, Aborting DEF Abort
  <2>2. ASSUME NEW i \in cmms[apply[p].target].live, Take(p, i), UNCHANGED outside
        PROVE  ProcessMoves(q)
    <3>1. apply[p].pc \notin Holding \cup {"finish"} /\ cmms' = cmms
      BY <1>13, <2>2 DEF FindLost, Holding, outside
    <3>2. QED
      BY <2>2, <3>1, Taking DEF ProcessMoves, Taken
  <2>3. QED
    BY <1>13, <2>1, <2>2 DEF FindLost
<1>14. ASSUME NEW p \in Appliers, WriteAttributes(p) PROVE ProcessMoves(q)
  <2>1. Goto(p, "readback") /\ apply[p].pc \in Holding
    BY <1>14 DEF WriteAttributes, Holding
  <2>2. QED
    BY <2>1, Going DEF Pcs, ProcessMoves, Onward
<1>15. ASSUME NEW p \in Appliers, ReadBack(p) PROVE ProcessMoves(q)
  <2>1. CASE Abort(p)
    BY <2>1, Aborting DEF Abort
  <2>2. CASE ~Abort(p)
    <3>1. /\ Goto(p, "confirm") /\ apply[p].pc \in Holding
          /\ tb[apply[p].target] = apply[p].asset
      BY <1>15, <2>2 DEF ReadBack, Holding
    <3>2. QED
      BY <3>1, Going DEF Pcs, ProcessMoves, Onward
  <2>3. QED
    BY <2>1, <2>2
<1>16. ASSUME NEW p \in Appliers, Confirm(p) PROVE ProcessMoves(q)
  <2>1. CASE Abort(p)
    BY <2>1, Aborting DEF Abort
  <2>2. CASE ~Abort(p)
    <3>1. /\ Goto(p, "activate") /\ apply[p].pc = "confirm"
      BY <1>16, <2>2 DEF Confirm
    <3>2. QED
      BY <3>1, Going DEF Pcs, Holding, ProcessMoves, Onward
  <2>3. QED
    BY <2>1, <2>2
<1>17. ASSUME NEW p \in Appliers, Activate(p) PROVE ProcessMoves(q)
  <2>1. CASE Abort(p)
    BY <2>1, Aborting DEF Abort
  <2>2. CASE ~Abort(p)
    <3>1. /\ apply[p].pc = "activate"
          /\ mapping[apply[p].target].status # "ABSENT"
          /\ mapping[apply[p].target].asset \in {NoAsset, apply[p].asset}
          /\ mapping' = [mapping EXCEPT ![apply[p].target] =
                                           [status |-> "ACTIVE", asset |-> apply[p].asset]]
          /\ bound' = [bound EXCEPT ![apply[p].target] = TRUE]
          /\ Record(p)
          /\ UNCHANGED <<cmms, tb>>
      BY <1>17, <2>2 DEF Activate, outside
    <3>2. Activated(p, apply[p].target)
      BY <3>1, ProcessTyping DEF Activated, TypeOK
    <3>3. CASE q # p
      BY <3>1, <3>3 DEF Record, TypeOK, ProcessMoves
    <3>4. CASE q = p
      <4>1. apply[p] \in Applies
        BY DEF TypeOK
      <4>2. apply'[p] = [apply[p] EXCEPT !.results[apply[p].target] = apply[p].asset,
                                         !.target = IF @ = Last THEN @ ELSE @ + 1,
                                         !.pc = AfterTarget(p)]
        BY <3>1 DEF Record, TypeOK
      <4>3. /\ apply'[p].results = [apply[p].results EXCEPT ![apply[p].target] = apply[p].asset]
            /\ apply'[p].target = IF apply[p].target = Last THEN Last ELSE apply[p].target + 1
            /\ apply'[p].pc = IF apply[p].target = Last THEN "finish" ELSE "reserve"
        BY <4>1, <4>2 DEF Applies, AfterTarget
      <4>4. Recorded(p)
        BY <3>2, <4>3 DEF Recorded
      <4>5. QED
        BY <3>4, <4>4 DEF ProcessMoves
    <3>5. QED
      BY <3>3, <3>4
  <2>3. QED
    BY <2>1, <2>2
<1>18. ASSUME NEW p \in Appliers, Finish(p) PROVE ProcessMoves(q)
  <2>1. apply' = [apply EXCEPT ![p] = Idle]
    BY <1>18 DEF Finish, Abort
  <2>2. QED
    BY <2>1, Aborting
<1>19. ASSUME NEW p \in Appliers, CreateTimesOut(p) PROVE ProcessMoves(q)
  <2>1. Goto(p, "lost") /\ apply[p].pc \notin Holding \cup {"finish"}
    BY <1>19 DEF CreateTimesOut, Holding
  <2>2. "lost" \in Pcs \ (Holding \cup {"finish", "idle"})
    BY DEF Pcs, Holding
  <2>3. QED
    BY <2>1, <2>2, Going DEF ProcessMoves, EarlyMove
<1>20. ASSUME NEW p \in Appliers, WriteTimesOut(p) PROVE ProcessMoves(q)
  <2>1. Goto(p, "readback") /\ apply[p].pc \in Holding
    BY <1>20 DEF WriteTimesOut, Holding
  <2>2. QED
    BY <2>1, Going DEF Pcs, ProcessMoves, Onward
<1>21. ASSUME NEW p \in Appliers, Stop(p) PROVE ProcessMoves(q)
  BY <1>21, Aborting DEF Stop, Abort
<1>22. ASSUME NEW p \in Appliers, LoseLock(p) PROVE ProcessMoves(q)
  BY <1>22 DEF LoseLock, ProcessMoves
<1>23. CASE UNCHANGED vars
  BY <1>23 DEF vars, ProcessMoves
<1>24. QED
  BY <1>1, <1>2, <1>3, <1>4, <1>5, <1>6, <1>7, <1>8, <1>9, <1>10, <1>11, <1>12,
     <1>13, <1>14, <1>15, <1>16, <1>17, <1>18, <1>19, <1>20, <1>21, <1>22, <1>23
     DEF Next, Apply, ApplyTarget, Trouble

\* What becomes of the plan and its lock.
LEMMA PlanStep ==
  ASSUME TypeOK, [Next]_vars
  PROVE  PlanMoves
<1>1. CASE BuildPlan
  <2>1. plan'.state = "open"
    BY <1>1 DEF BuildPlan
  <2>2. QED
    BY <2>1 DEF PlanMoves
<1>2. CASE Expire
  <2>1. plan'.state = "expired"
    BY <1>2 DEF Expire, TypeOK, Plans
  <2>2. QED
    BY <2>1 DEF PlanMoves
<1>3. ASSUME NEW u \in Targets, Replace(u) PROVE PlanMoves
  BY <1>3 DEF Replace, Abort, rows, outside, PlanMoves
<1>4. ASSUME NEW w \in lateAssets, ServeLateCreate(w) PROVE PlanMoves
  BY <1>4 DEF ServeLateCreate, Abort, rows, outside, PlanMoves
<1>5. ASSUME NEW w \in lateAttributes, ServeLateWrite(w) PROVE PlanMoves
  BY <1>5 DEF ServeLateWrite, Abort, rows, outside, PlanMoves
<1>6. ASSUME NEW p \in Appliers, Load(p) PROVE PlanMoves
  BY <1>6 DEF Load, Abort, rows, outside, PlanMoves
<1>7. ASSUME NEW p \in Appliers, Start(p) PROVE PlanMoves
  BY <1>7 DEF Start, Abort, rows, outside, PlanMoves
<1>8. ASSUME NEW p \in Appliers, ReadMappings(p) PROVE PlanMoves
  BY <1>8 DEF ReadMappings, Abort, rows, outside, PlanMoves
<1>9. ASSUME NEW p \in Appliers, ReadBindings(p) PROVE PlanMoves
  BY <1>9 DEF ReadBindings, Abort, rows, outside, PlanMoves
<1>10. ASSUME NEW p \in Appliers, Reserve(p) PROVE PlanMoves
  BY <1>10 DEF Reserve, Abort, rows, outside, PlanMoves
<1>11. ASSUME NEW p \in Appliers, Find(p) PROVE PlanMoves
  BY <1>11 DEF Find, Abort, rows, outside, PlanMoves
<1>12. ASSUME NEW p \in Appliers, Create(p) PROVE PlanMoves
  BY <1>12 DEF Create, Abort, rows, outside, PlanMoves
<1>13. ASSUME NEW p \in Appliers, FindLost(p) PROVE PlanMoves
  BY <1>13 DEF FindLost, Abort, rows, outside, PlanMoves
<1>14. ASSUME NEW p \in Appliers, WriteAttributes(p) PROVE PlanMoves
  BY <1>14 DEF WriteAttributes, Abort, rows, outside, PlanMoves
<1>15. ASSUME NEW p \in Appliers, ReadBack(p) PROVE PlanMoves
  BY <1>15 DEF ReadBack, Abort, rows, outside, PlanMoves
<1>16. ASSUME NEW p \in Appliers, Confirm(p) PROVE PlanMoves
  BY <1>16 DEF Confirm, Abort, rows, outside, PlanMoves
<1>17. ASSUME NEW p \in Appliers, Activate(p) PROVE PlanMoves
  BY <1>17 DEF Activate, Abort, rows, outside, PlanMoves
<1>18. ASSUME NEW p \in Appliers, Finish(p) PROVE PlanMoves
  <2>1. CASE Abort(p)
    BY <2>1 DEF Abort, rows, PlanMoves
  <2>2. CASE ~Abort(p)
    <3>1. Finished(p)
      BY <1>18, <2>2 DEF Finish, Finished
    <3>2. QED
      BY <3>1 DEF PlanMoves
  <2>3. QED
    BY <2>1, <2>2
<1>19. ASSUME NEW p \in Appliers, CreateTimesOut(p) PROVE PlanMoves
  BY <1>19 DEF CreateTimesOut, Abort, rows, outside, PlanMoves
<1>20. ASSUME NEW p \in Appliers, WriteTimesOut(p) PROVE PlanMoves
  BY <1>20 DEF WriteTimesOut, Abort, rows, outside, PlanMoves
<1>21. ASSUME NEW p \in Appliers, Stop(p) PROVE PlanMoves
  BY <1>21 DEF Stop, Abort, rows, outside, PlanMoves
<1>22. ASSUME NEW p \in Appliers, LoseLock(p) PROVE PlanMoves
  BY <1>22 DEF LoseLock, Abort, rows, outside, PlanMoves
<1>23. CASE UNCHANGED vars
  BY <1>23 DEF vars, PlanMoves
<1>24. QED
  BY <1>1, <1>2, <1>3, <1>4, <1>5, <1>6, <1>7, <1>8, <1>9, <1>10, <1>11, <1>12,
     <1>13, <1>14, <1>15, <1>16, <1>17, <1>18, <1>19, <1>20, <1>21, <1>22, <1>23
     DEF Next, Apply, ApplyTarget, Trouble

-----------------------------------------------------------------------------
(* The inductive invariant.                                                 *)

\* What the systems and the rows name are assets that were made.
InRange ==
  \A t \in Targets :
    /\ \A i \in cmms[t].live : i <= cmms[t].made
    /\ \A e \in cmms[t].keyed : e.asset <= cmms[t].made
    /\ mapping[t].asset <= cmms[t].made
    /\ tb[t] <= cmms[t].made

\* So are those in the hands of the processes and of late writes.
InHand ==
  /\ \A p \in Appliers : apply[p].pc \in Holding =>
       apply[p].asset <= cmms[apply[p].target].made
  /\ \A w \in lateAttributes : w.asset <= cmms[w.target].made

\* ThingsBoard shows something before a target is activated and ever after.
Shown ==
  /\ \A t \in Targets : mapping[t].status = "ACTIVE" => tb[t] # NoAsset
  /\ \A p \in Appliers : apply[p].pc \in {"confirm", "activate"} =>
       tb[apply[p].target] # NoAsset

\* What a process remembers of the targets behind it is what the rows say.
Done ==
  \A p \in Appliers, t \in Targets :
    t < apply[p].target \/ apply[p].pc = "finish" =>
      /\ apply[p].results[t] # NoAsset
      /\ mapping[t] = [status |-> "ACTIVE", asset |-> apply[p].results[t]]
      /\ bound[t]

\* The key of a target stands for its first asset; there is one at a time.
Single ==
  \A t \in Targets :
    /\ cmms[t].keyed = {} => cmms[t].live = {}
    /\ \A i, j \in cmms[t].live : i = j

IInv == /\ TypeOK /\ Held /\ RowsResumable /\ HolderIsNotOvertaken
        /\ InRange /\ InHand /\ Shown /\ Done /\ ReceiptIsTrue /\ Single

LEMMA InitIInv == Init => IInv
<1> SUFFICES ASSUME Init PROVE IInv
  OBVIOUS
<1> USE TargetsAssumption, AssetsAssumption, FaultsAssumption
<1>1. TypeOK
  <2>1. Idle \in Applies
    <3>1. 1 \in Targets /\ NoMapping \in Mappings /\ NoResults \in [Targets -> MaybeAsset]
      BY DEF Targets, NoMapping, Mappings, MaybeAsset, NoResults
    <3>2. QED
      BY <3>1 DEF Idle, Applies, MaybeAsset
  <2>2. /\ NoMapping \in Mappings /\ NoEquipment \in Equipment
        /\ NoResults \in [Targets -> MaybeAsset] /\ NoAsset \in MaybeAsset
    BY DEF NoMapping, Mappings, MaybeAsset, NoEquipment, Equipment, NoResults, NoAsset
  <2>3. QED
    BY <2>1, <2>2 DEF Init, TypeOK, Plans
<1>2. Held /\ HolderIsNotOvertaken /\ ReceiptIsTrue
  BY DEF Init, Held, Holding, Idle, HolderIsNotOvertaken, ReceiptIsTrue
<1>3. RowsResumable
  BY DEF Init, RowsResumable, Accepts
<1>4. InRange /\ Single
  BY DEF Init, InRange, Single, NoEquipment, NoMapping, NoAsset
<1>5. InHand /\ Shown
  BY DEF Init, InHand, Holding, Idle, Shown, NoMapping
<1>6. Done
  BY DEF Init, Done, Idle, Targets
<1>7. QED
  BY <1>1, <1>2, <1>3, <1>4, <1>5, <1>6 DEF IInv

\* A target whose asset is on record keeps its row.
LEMMA RowStays ==
  ASSUME TypeOK, RowsResumable, [Next]_vars, NEW t \in Targets, mapping[t].asset # NoAsset
  PROVE  mapping'[t] = mapping[t] /\ bound'[t] = bound[t]
<1>1. /\ mapping[t] \in Mappings /\ bound[t] /\ mapping[t].status = "ACTIVE"
  BY DEF TypeOK, RowsResumable, Accepts, NoMapping, Reservation
<1>2. ASSUME NEW p \in Appliers, Activated(p, t)
      PROVE  mapping'[t] = mapping[t] /\ bound'[t] = bound[t]
  BY <1>1, <1>2 DEF Activated, Mappings, TypeOK
<1>3. QED
  BY <1>2, RowsStep DEF RowMoves, NoMapping

\* The number of assets made never falls.
LEMMA MadeGrows ==
  ASSUME TypeOK, [Next]_vars, NEW t \in Targets
  PROVE  cmms[t].made \in Nat /\ cmms'[t].made \in Nat /\ cmms[t].made <= cmms'[t].made
<1>1. cmms[t].made \in Nat
  BY AssetsAssumption DEF TypeOK, Equipment, MaybeAsset, AssetIds, NoAsset
<1>2. QED
  BY <1>1, CmmsStep DEF CmmsMoves, Created, Replaced

\* Numbers that the variables hold.
LEMMA Numbers ==
  ASSUME TypeOK
  PROVE  /\ \A t \in Targets : /\ mapping[t].asset \in Nat /\ tb[t] \in Nat
                               /\ cmms[t].live \subseteq Nat
                               /\ \A e \in cmms[t].keyed : e.asset \in Nat
         /\ \A p \in Appliers : apply[p].target \in Targets /\ apply[p].asset \in Nat
         /\ \A w \in lateAttributes : w.target \in Targets /\ w.asset \in Nat \ {0}
<1> USE AssetsAssumption DEF TypeOK, MaybeAsset, AssetIds, NoAsset
<1>1. ASSUME NEW t \in Targets
      PROVE  /\ mapping[t].asset \in Nat /\ tb[t] \in Nat
             /\ cmms[t].live \subseteq Nat
             /\ \A e \in cmms[t].keyed : e.asset \in Nat
  <2>1. mapping[t] \in Mappings /\ cmms[t] \in Equipment
    OBVIOUS
  <2>2. QED
    BY <2>1 DEF Mappings, Equipment
<1>2. ASSUME NEW p \in Appliers PROVE apply[p].target \in Targets /\ apply[p].asset \in Nat
  <2>1. apply[p] \in Applies
    OBVIOUS
  <2>2. QED
    BY <2>1 DEF Applies
<1>3. ASSUME NEW w \in lateAttributes PROVE w.target \in Targets /\ w.asset \in Nat \ {0}
  <2>1. w \in [target : Targets, asset : AssetIds]
    OBVIOUS
  <2>2. QED
    BY <2>1
<1>4. QED
  BY <1>1, <1>2, <1>3

LEMMA HeldStep == TypeOK /\ Held /\ [Next]_vars => Held'
<1> SUFFICES ASSUME TypeOK, Held, [Next]_vars, NEW p \in Appliers, apply'[p].pc \in Holding
             PROVE  apply'[p].asset \in AssetIds
  BY DEF Held
<1>1. CASE apply'[p] = apply[p] \/ Onward(p)
  BY <1>1 DEF Held, Onward
<1>2. CASE apply'[p] = Idle \/ EarlyMove(p) \/ Recorded(p)
  BY <1>2 DEF Idle, EarlyMove, Recorded, Holding
<1>3. CASE Taken(p)
  <2>1. cmms'[apply[p].target] \in Equipment
    BY TypeStep, ProcessTyping DEF TypeOK
  <2>2. QED
    BY <1>3, <2>1 DEF Taken, Equipment
<1>4. QED
  BY <1>1, <1>2, <1>3, ProcessStep DEF ProcessMoves

LEMMA RowsResumableStep == TypeOK /\ Held /\ RowsResumable /\ [Next]_vars => RowsResumable'
<1> SUFFICES ASSUME TypeOK, Held, RowsResumable, [Next]_vars, NEW t \in Targets
             PROVE  IF bound'[t] THEN mapping'[t].status = "ACTIVE" /\ mapping'[t].asset # NoAsset
                    ELSE mapping'[t] = NoMapping \/ mapping'[t] = Reservation
  BY DEF RowsResumable, Accepts
<1>1. IF bound[t] THEN mapping[t].status = "ACTIVE" /\ mapping[t].asset # NoAsset
      ELSE mapping[t] = NoMapping \/ mapping[t] = Reservation
  BY DEF RowsResumable, Accepts
<1>2. CASE mapping'[t] = mapping[t] /\ bound'[t] = bound[t]
  BY <1>1, <1>2
<1>3. CASE mapping[t] = NoMapping /\ mapping'[t] = Reservation /\ bound'[t] = bound[t]
  BY <1>1, <1>3 DEF NoMapping
<1>4. ASSUME NEW p \in Appliers, Activated(p, t)
      PROVE  bound'[t] /\ mapping'[t].status = "ACTIVE" /\ mapping'[t].asset # NoAsset
  <2>1. apply[p].asset \in AssetIds
    BY <1>4 DEF Activated, Held, Holding
  <2>2. QED
    BY <1>4, <2>1, AssetsAssumption DEF Activated, AssetIds, NoAsset
<1>5. QED
  BY <1>2, <1>3, <1>4, RowsStep DEF RowMoves

LEMMA HolderStep == TypeOK /\ HolderIsNotOvertaken /\ [Next]_vars => HolderIsNotOvertaken'
<1> SUFFICES ASSUME TypeOK, HolderIsNotOvertaken, [Next]_vars PROVE HolderIsNotOvertaken'
  OBVIOUS
<1>1. ASSUME NEW p \in Appliers, Finished(p) PROVE HolderIsNotOvertaken'
  BY <1>1 DEF Finished, HolderIsNotOvertaken
<1>2. QED
  BY <1>1, PlanStep DEF PlanMoves, HolderIsNotOvertaken

LEMMA InRangeStep ==
  TypeOK /\ Held /\ InRange /\ InHand /\ [Next]_vars => InRange'
<1> SUFFICES ASSUME TypeOK, Held, InRange, InHand, [Next]_vars, NEW t \in Targets
             PROVE  /\ \A i \in cmms'[t].live : i <= cmms'[t].made
                    /\ \A e \in cmms'[t].keyed : e.asset <= cmms'[t].made
                    /\ mapping'[t].asset <= cmms'[t].made
                    /\ tb'[t] <= cmms'[t].made
  BY DEF InRange
<1> DEFINE m == cmms[t].made
           n == cmms'[t].made
<1>1. m \in Nat /\ n \in Nat /\ m <= n
  BY MadeGrows
<1>2. /\ mapping[t].asset \in Nat /\ tb[t] \in Nat /\ cmms[t].live \subseteq Nat
      /\ \A e \in cmms[t].keyed : e.asset \in Nat
  BY Numbers
<1>3. /\ \A i \in cmms[t].live : i <= m
      /\ \A e \in cmms[t].keyed : e.asset <= m
      /\ mapping[t].asset <= m /\ tb[t] <= m
  BY DEF InRange
<1>4. \A p \in Appliers : apply[p].pc \in Holding /\ apply[p].target = t =>
        apply[p].asset \in Nat /\ apply[p].asset <= m
  BY Numbers DEF InHand
<1> HIDE DEF m, n
<1>5. /\ \A i \in cmms'[t].live : i <= n
      /\ \A e \in cmms'[t].keyed : e.asset <= n
  <2>1. CASE cmms'[t] = cmms[t]
    BY <1>3, <2>1 DEF m, n
  <2>2. CASE Created(t)
    <3>1. n = m + 1 /\ cmms'[t].live = cmms[t].live \cup {m + 1}
      BY <2>2 DEF Created, m, n
    <3>2. \A e \in cmms'[t].keyed : e.asset = m + 1
      BY <2>2 DEF Created, m
    <3>3. QED
      BY <1>1, <1>2, <1>3, <3>1, <3>2
  <2>3. CASE Replaced(t)
    <3>1. n = m + 1 /\ cmms'[t].live = {m + 1} /\ cmms'[t].keyed = cmms[t].keyed
      BY <2>3 DEF Replaced, m, n
    <3>2. QED
      BY <1>1, <1>2, <1>3, <3>1
  <2>4. QED
    BY <2>1, <2>2, <2>3, CmmsStep DEF CmmsMoves
<1>6. mapping'[t].asset <= n
  <2>1. ASSUME NEW p \in Appliers, Activated(p, t) PROVE mapping'[t].asset <= n
    <3>1. apply[p].asset \in Nat /\ apply[p].asset <= m
      BY <1>4, <2>1 DEF Activated, Holding
    <3>2. mapping'[t].asset = apply[p].asset
      BY <2>1 DEF Activated
    <3>3. QED
      BY <1>1, <3>1, <3>2
  <2>2. CASE mapping'[t] = Reservation
    BY <1>1, <2>2 DEF Reservation, NoAsset
  <2>3. CASE mapping'[t] = mapping[t]
    BY <1>1, <1>2, <1>3, <2>3
  <2>4. QED
    BY <2>1, <2>2, <2>3, RowsStep DEF RowMoves
<1>7. tb'[t] <= n
  <2>1. ASSUME NEW w \in lateAttributes, w.target = t PROVE w.asset \in Nat /\ w.asset <= m
    BY <2>1, Numbers DEF InHand, m
  <2>2. \A p \in Appliers : apply[p].pc = "write" /\ apply[p].target = t =>
          apply[p].asset \in Nat /\ apply[p].asset <= m
    BY <1>4 DEF Holding
  <2>3. tb'[t] \in Nat /\ tb'[t] <= m
    BY <1>2, <1>3, <2>1, <2>2, TbStep DEF TbMoves
  <2>4. QED
    BY <1>1, <2>3
<1>8. QED
  BY <1>5, <1>6, <1>7 DEF n

LEMMA InHandStep ==
  TypeOK /\ Held /\ InRange /\ InHand /\ [Next]_vars => InHand'
<1> SUFFICES ASSUME TypeOK, Held, InRange, InHand, [Next]_vars PROVE InHand'
  OBVIOUS
<1>1. InRange'
  BY InRangeStep
<1>2. ASSUME NEW p \in Appliers, apply'[p].pc \in Holding
      PROVE  apply'[p].asset <= cmms'[apply'[p].target].made
  <2> DEFINE t == apply[p].target
  <2>1. t \in Targets /\ apply[p].asset \in Nat
    BY Numbers
  <2>2. cmms[t].made \in Nat /\ cmms'[t].made \in Nat /\ cmms[t].made <= cmms'[t].made
    BY <2>1, MadeGrows
  <2>3. CASE apply'[p] = apply[p] \/ Onward(p)
    <3>1. /\ apply[p].pc \in Holding
          /\ apply'[p].asset = apply[p].asset /\ apply'[p].target = t
      BY <1>2, <2>3 DEF Onward
    <3>2. apply[p].asset <= cmms[t].made
      BY <3>1 DEF InHand
    <3>3. QED
      BY <2>1, <2>2, <3>1, <3>2
  <2>4. CASE Taken(p)
    <3>1. apply'[p].target = t
      BY <2>4 DEF Taken
    <3>2. QED
      BY <1>1, <2>1, <2>4, <3>1 DEF Taken, InRange
  <2>5. CASE apply'[p] = Idle \/ EarlyMove(p) \/ Recorded(p)
    BY <1>2, <2>5 DEF Idle, EarlyMove, Recorded, Holding
  <2>6. QED
    BY <2>3, <2>4, <2>5, ProcessStep DEF ProcessMoves
<1>3. ASSUME NEW w \in lateAttributes' PROVE w.asset <= cmms'[w.target].made
  <2>1. CASE w \in lateAttributes
    <3>1. w.target \in Targets /\ w.asset \in Nat /\ w.asset <= cmms[w.target].made
      BY <2>1, Numbers DEF InHand
    <3>2. QED
      BY <3>1, MadeGrows
  <2>2. ASSUME NEW p \in Appliers, apply[p].pc = "write", w.target = apply[p].target,
               w.asset = apply[p].asset
        PROVE  w.asset <= cmms'[w.target].made
    <3>1. w.target \in Targets /\ w.asset \in Nat /\ w.asset <= cmms[w.target].made
      BY <2>2, Numbers DEF InHand, Holding
    <3>2. QED
      BY <3>1, MadeGrows
  <2>3. LateMoves
    BY TbStep, TargetsAssumption DEF Targets
  <2>4. QED
    BY <2>1, <2>2, <2>3 DEF LateMoves
<1>4. QED
  BY <1>2, <1>3 DEF InHand

\* Attributes, once there, stay there.
LEMMA TbKept ==
  ASSUME TypeOK, Held, [Next]_vars, NEW t \in Targets, tb[t] # NoAsset
  PROVE  tb'[t] # NoAsset
<1>1. \A p \in Appliers : apply[p].pc = "write" => apply[p].asset # NoAsset
  BY AssetsAssumption DEF Held, Holding, AssetIds, NoAsset
<1>2. \A w \in lateAttributes : w.asset # NoAsset
  BY Numbers DEF NoAsset
<1>3. QED
  BY <1>1, <1>2, TbStep DEF TbMoves

LEMMA ShownStep ==
  TypeOK /\ Held /\ Shown /\ [Next]_vars => Shown'
<1> SUFFICES ASSUME TypeOK, Held, Shown, [Next]_vars PROVE Shown'
  OBVIOUS
<1>1. ASSUME NEW t \in Targets, mapping'[t].status = "ACTIVE" PROVE tb'[t] # NoAsset
  <2>1. CASE mapping'[t] = mapping[t]
    BY <1>1, <2>1, TbKept DEF Shown
  <2>2. CASE mapping'[t] = Reservation
    BY <1>1, <2>2 DEF Reservation
  <2>3. ASSUME NEW p \in Appliers, Activated(p, t) PROVE tb'[t] # NoAsset
    BY <2>3 DEF Activated, Shown
  <2>4. QED
    BY <2>1, <2>2, <2>3, RowsStep DEF RowMoves
<1>2. ASSUME NEW p \in Appliers, apply'[p].pc \in {"confirm", "activate"}
      PROVE  tb'[apply'[p].target] # NoAsset
  <2>1. apply[p].target \in Targets
    BY Numbers
  <2>2. CASE apply'[p] = apply[p]
    BY <1>2, <2>1, <2>2, TbKept DEF Shown
  <2>3. CASE Onward(p)
    <3>1. apply'[p].target = apply[p].target /\ apply[p].asset # NoAsset
      BY <2>3, AssetsAssumption DEF Onward, Held, AssetIds, NoAsset
    <3>2. tb[apply[p].target] # NoAsset
      BY <1>2, <2>3, <3>1 DEF Onward, Shown
    <3>3. QED
      BY <2>1, <3>1, <3>2, TbKept
  <2>4. CASE apply'[p] = Idle \/ EarlyMove(p) \/ Taken(p) \/ Recorded(p)
    BY <1>2, <2>4 DEF Idle, EarlyMove, Taken, Recorded, Holding
  <2>5. QED
    BY <2>2, <2>3, <2>4, ProcessStep DEF ProcessMoves
<1>3. QED
  BY <1>1, <1>2 DEF Shown

LEMMA DoneStep ==
  TypeOK /\ Held /\ RowsResumable /\ Done /\ [Next]_vars => Done'
<1> SUFFICES ASSUME TypeOK, Held, RowsResumable, Done, [Next]_vars,
                    NEW p \in Appliers, NEW t \in Targets,
                    t < apply'[p].target \/ apply'[p].pc = "finish"
             PROVE  /\ apply'[p].results[t] # NoAsset
                    /\ mapping'[t] = [status |-> "ACTIVE", asset |-> apply'[p].results[t]]
                    /\ bound'[t]
  BY DEF Done
<1>1. ASSUME t < apply[p].target \/ apply[p].pc = "finish",
             apply'[p].results[t] = apply[p].results[t]
      PROVE  /\ apply'[p].results[t] # NoAsset
             /\ mapping'[t] = [status |-> "ACTIVE", asset |-> apply'[p].results[t]]
             /\ bound'[t]
  <2>1. /\ apply[p].results[t] # NoAsset
        /\ mapping[t] = [status |-> "ACTIVE", asset |-> apply[p].results[t]]
        /\ bound[t]
    BY <1>1 DEF Done
  <2>2. QED
    BY <1>1, <2>1, RowStays
<1>2. CASE apply'[p] = apply[p]
  BY <1>1, <1>2
<1>3. CASE apply'[p] = Idle
  BY <1>3 DEF Idle, Targets
<1>4. CASE EarlyMove(p) \/ Taken(p) \/ Onward(p)
  <2>1. /\ apply'[p].target = apply[p].target /\ apply'[p].results = apply[p].results
        /\ apply'[p].pc # "finish"
    BY <1>4 DEF EarlyMove, Taken, Onward, Holding
  <2>2. QED
    BY <1>1, <2>1
<1>5. CASE Recorded(p)
  <2> DEFINE u == apply[p].target
  <2>1. u \in Targets /\ apply[p].results \in [Targets -> MaybeAsset]
    BY DEF TypeOK, Applies
  <2>2. Activated(p, u) /\ apply[p].asset # NoAsset
    BY <1>5, AssetsAssumption DEF Recorded, Activated, Held, Holding, AssetIds, NoAsset
  <2>3. CASE t = u
    <3>1. apply'[p].results[t] = apply[p].asset
      BY <1>5, <2>1, <2>3 DEF Recorded
    <3>2. QED
      BY <2>2, <2>3, <3>1 DEF Activated
  <2>4. CASE t # u
    <3>1. apply'[p].results[t] = apply[p].results[t]
      BY <1>5, <2>1, <2>4 DEF Recorded
    <3>2. t < u
      <4>1. t \in 1..Last /\ u \in 1..Last /\ Last \in Nat
        BY <2>1, TargetsAssumption DEF Targets
      <4>2. u = Last \/ (apply'[p].target = u + 1 /\ apply'[p].pc # "finish")
        BY <1>5 DEF Recorded
      <4>3. QED
        BY <2>4, <4>1, <4>2
    <3>3. QED
      BY <1>1, <3>1, <3>2
  <2>5. QED
    BY <2>3, <2>4
<1>6. QED
  BY <1>2, <1>3, <1>4, <1>5, ProcessStep DEF ProcessMoves

LEMMA ReceiptStep ==
  TypeOK /\ RowsResumable /\ Done /\ ReceiptIsTrue /\ [Next]_vars => ReceiptIsTrue'
<1> SUFFICES ASSUME TypeOK, RowsResumable, Done, ReceiptIsTrue, [Next]_vars,
                    plan'.state = "applied", NEW t \in Targets
             PROVE  /\ plan'.results[t] # NoAsset
                    /\ mapping'[t] = [status |-> "ACTIVE", asset |-> plan'.results[t]]
                    /\ bound'[t]
  BY DEF ReceiptIsTrue, Verified
<1>1. CASE plan' = plan
  <2>1. /\ plan.results[t] # NoAsset
        /\ mapping[t] = [status |-> "ACTIVE", asset |-> plan.results[t]]
        /\ bound[t]
    BY <1>1 DEF ReceiptIsTrue, Verified
  <2>2. QED
    BY <1>1, <2>1, RowStays
<1>2. ASSUME NEW p \in Appliers, Finished(p)
      PROVE  /\ plan'.results[t] # NoAsset
             /\ mapping'[t] = [status |-> "ACTIVE", asset |-> plan'.results[t]]
             /\ bound'[t]
  BY <1>2 DEF Finished, Done
<1>3. QED
  BY <1>1, <1>2, PlanStep DEF PlanMoves

LEMMA SingleStep == TypeOK /\ Single /\ [Next]_vars => Single'
<1> SUFFICES ASSUME TypeOK, Single, [Next]_vars, NEW t \in Targets
             PROVE  /\ cmms'[t].keyed = {} => cmms'[t].live = {}
                    /\ \A i, j \in cmms'[t].live : i = j
  BY DEF Single
<1>1. /\ cmms[t].keyed = {} => cmms[t].live = {}
      /\ \A i, j \in cmms[t].live : i = j
  BY DEF Single
<1>2. CASE cmms'[t] = cmms[t]
  BY <1>1, <1>2
<1>3. CASE Created(t)
  <2>1. cmms'[t].live = {cmms[t].made + 1}
    BY <1>1, <1>3 DEF Created
  <2>2. cmms'[t].keyed # {}
    BY <1>3 DEF Created
  <2>3. QED
    BY <2>1, <2>2
<1>4. CASE Replaced(t)
  BY <1>1, <1>4 DEF Replaced
<1>5. QED
  BY <1>2, <1>3, <1>4, CmmsStep DEF CmmsMoves

LEMMA InvariantStep == IInv /\ [Next]_vars => IInv'
BY TypeStep, HeldStep, RowsResumableStep, HolderStep, InRangeStep, InHandStep, ShownStep,
   DoneStep, ReceiptStep, SingleStep DEF IInv

-----------------------------------------------------------------------------
(* What holds of every behaviour.                                           *)

LEMMA Invariance == Safety => []IInv
<1>1. Init => IInv
  BY InitIInv
<1>2. IInv /\ [Next]_vars => IInv'
  BY InvariantStep
<1>3. QED
  BY <1>1, <1>2, PTL DEF Safety

\* Every variable of Provisioning keeps its type.
THEOREM TypeCorrect == Safety => []TypeOK
<1>1. IInv => TypeOK
  BY DEF IInv
<1>2. QED
  BY <1>1, Invariance, PTL

\* However applies are interrupted, preflight accepts the rows they leave
\* (reserve_target, activate_target).
THEOREM Resumable == Safety => []RowsResumable
<1>1. IInv => RowsResumable
  BY DEF IInv
<1>2. QED
  BY <1>1, Invariance, PTL

\* An apply that holds the lock never finds its plan applied (start_apply,
\* finish_apply).
THEOREM NotOvertaken == Safety => []HolderIsNotOvertaken
<1>1. IInv => HolderIsNotOvertaken
  BY DEF IInv
<1>2. QED
  BY <1>1, Invariance, PTL

\* An applied plan says of every target what its rows say (finish_apply).
THEOREM TrueReceipt == Safety => []ReceiptIsTrue
<1>1. IInv => ReceiptIsTrue
  BY DEF IInv
<1>2. QED
  BY <1>1, Invariance, PTL

\* An equipment_id has one asset at most (create_asset and its key).
THEOREM OneAsset == Safety => []OneAssetPerTarget
<1>1. IInv => OneAssetPerTarget
  <2> SUFFICES ASSUME IInv, NEW t \in Targets PROVE Cardinality(cmms[t].live) <= 1
    BY DEF OneAssetPerTarget
  <2>1. CASE cmms[t].live = {}
    BY <2>1, FS_EmptySet
  <2>2. CASE cmms[t].live # {}
    <3>1. PICK i \in cmms[t].live : TRUE
      BY <2>2
    <3>2. cmms[t].live = {i}
      BY <3>1 DEF IInv, Single
    <3>3. QED
      BY <3>2, FS_Singleton
  <2>3. QED
    BY <2>1, <2>2
<1>2. QED
  BY <1>1, Invariance, PTL

\* ThingsBoard shows the asset of an active target that nobody replaced
\* (the readback of _apply_target).
THEOREM ShownWhenActive == Safety => []ActiveIsShown
<1>1. IInv => ActiveIsShown
  <2> SUFFICES ASSUME IInv, NEW t \in Targets, mapping[t].status = "ACTIVE", cmms[t].made = 1
               PROVE  tb[t] = mapping[t].asset
    BY DEF ActiveIsShown
  <2>1. tb[t] \in Nat /\ tb[t] # 0 /\ tb[t] <= 1
    BY Numbers DEF IInv, Shown, InRange, NoAsset
  <2>2. mapping[t].asset \in Nat /\ mapping[t].asset <= 1
    BY Numbers DEF IInv, InRange
  <2>3. mapping[t].asset # 0
    BY DEF IInv, RowsResumable, Accepts, NoMapping, Reservation, NoAsset
  <2>4. QED
    BY <2>1, <2>2, <2>3
<1>2. QED
  BY <1>1, Invariance, PTL

\* An asset on record stays on record (activate_target).
THEOREM AssetIsKept == Safety => AssetStays
<1>1. IInv /\ [Next]_vars =>
        [\A t \in Targets : mapping[t].asset # NoAsset => mapping'[t] = mapping[t]]_vars
  BY RowStays DEF IInv
<1>2. QED
  BY <1>1, Invariance, PTL DEF Safety, AssetStays
=============================================================================
