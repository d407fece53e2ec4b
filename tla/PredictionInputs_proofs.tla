------------------------ MODULE PredictionInputs_proofs ------------------------
(***************************************************************************)
(* Proofs about PredictionInputs, for every window, every list of records   *)
(* and every policy.                                                       *)
(***************************************************************************)
EXTENDS PredictionInputs, FiniteSetTheorems, TLAPS

WindowCodes == {"OK", "MISSING_RATIO_EXCEEDED", "CONSECUTIVE_MISSING_EXCEEDED"}

\* The records S were looked at, and none was refused.
Passed(S) ==
  /\ \A r \in S : Sound(r)
  /\ \A r, q \in S : Identity(r) = Identity(q) => r = q
  /\ identities = {Identity(r) : r \in S}

InputsInv ==
  /\ records \subseteq Records /\ left \subseteq records
  /\ identities \subseteq Identities /\ canonical \in Seq(Identities) /\ code \in Codes
  /\ forecast \in Forecasts \cup {NoForecast}
  /\ code \in {"NONE"} \cup WindowCodes => Passed(records \ left)
  /\ code \in WindowCodes => left = {} /\ code = CodeOfWindow(identities)
  /\ code \notin {"NONE", "SENT", "PREDICTED"} \cup WindowCodes => ~Acceptable(records)

-----------------------------------------------------------------------------
LEMMA Rounded == ASSUME NEW n \in Int PROVE Canonical(n) \in Int
BY DEF Canonical, RoundHalfEven

LEMMA WindowJudged == ASSUME NEW S PROVE CodeOfWindow(S) \in WindowCodes
BY DEF CodeOfWindow, WindowCodes

LEMMA InputsInitially == Init => InputsInv
<1> SUFFICES ASSUME Init PROVE InputsInv
  OBVIOUS
<1>1. /\ records \subseteq Records /\ left = records /\ code = "NONE"
      /\ identities = {} /\ canonical = <<>> /\ forecast = NoForecast
  BY WindowsAssumption DEF Init
<1>2. Passed(records \ left)
  BY <1>1 DEF Passed
<1>3. QED
  BY <1>1, <1>2 DEF InputsInv, Codes, WindowCodes

\* A record is refused for something that nobody can send, whatever came
\* before it, or it is sound and new.
LEMMA LookStep ==
  ASSUME InputsInv, NEW r \in left, Look(r)
  PROVE  InputsInv'
<1>1. /\ code = "NONE" /\ left' = left \ {r} /\ UNCHANGED <<records, forecast>>
      /\ code' = CodeOf(r, identities)
      /\ IF code' = "NONE"
           THEN /\ identities' = identities \cup {Identity(r)}
                /\ canonical' = Append(canonical, Identity(r))
           ELSE UNCHANGED <<identities, canonical>>
  BY DEF Look
<1>2. r \in Records /\ r \in records /\ Passed(records \ left)
  BY <1>1 DEF InputsInv
<1>3. CASE code' = "NONE"
  <2>1. Sound(r) /\ Identity(r) \notin identities
    BY <1>1, <1>2, <1>3 DEF CodeOf, Sound, Records
  <2>2. Identity(r) \in Identities
    <3>1. r.value \in Int /\ r.minute \in Minutes
      BY <1>2, <2>1, RawAssumption DEF Records, Sound
    <3>2. QED
      BY <3>1, Rounded DEF Identity, Identities
  <2>3. records' \ left' = (records \ left) \cup {r}
    BY <1>1, <1>2
  <2>4. identities' = {Identity(q) : q \in records' \ left'}
    <3> DEFINE S == records \ left
    <3>1. identities = {Identity(q) : q \in S} /\ identities' = identities \cup {Identity(r)}
      BY <1>1, <1>2, <1>3 DEF Passed
    <3>2. {Identity(q) : q \in S \cup {r}} = {Identity(q) : q \in S} \cup {Identity(r)}
      OBVIOUS
    <3>3. QED
      BY <2>3, <3>1, <3>2
  <2>5. \A q \in records' \ left' : Sound(q)
    BY <1>2, <2>1, <2>3 DEF Passed
  <2>6. \A p, q \in records' \ left' : Identity(p) = Identity(q) => p = q
    BY <1>2, <2>1, <2>3 DEF Passed
  <2>7. Passed(records \ left)'
    BY <2>4, <2>5, <2>6 DEF Passed, Sound, Identity
  <2>8. identities' \subseteq Identities /\ canonical' \in Seq(Identities)
    BY <1>1, <1>3, <2>2 DEF InputsInv
  <2>9. QED
    BY <1>1, <1>3, <2>7, <2>8 DEF InputsInv, WindowCodes
<1>4. CASE code' # "NONE"
  <2>1. /\ code' \in Codes \ ({"NONE", "SENT", "PREDICTED"} \cup WindowCodes)
        /\ ~Sound(r) \/ Identity(r) \in identities
    <3>1. CASE r.minute >= Window
      <4>1. r.minute \notin Minutes
        BY <1>2, <3>1, WindowAssumption DEF Minutes, Records
      <4>2. code' = "FUTURE_TIMESTAMP"
        BY <1>1, <3>1, <4>1 DEF CodeOf
      <4>3. QED
        BY <4>1, <4>2 DEF Codes, WindowCodes, Sound
    <3>2. CASE ~(r.minute >= Window) /\ r.minute \in Minutes
      BY <1>1, <1>2, <1>4, <3>2 DEF CodeOf, Codes, WindowCodes, Sound, Records, Flaws
    <3>3. CASE r.minute \notin Minutes /\ ~(r.minute >= Window)
      <4>1. code' = "TIMESTAMP_OUTSIDE_WINDOW"
        BY <1>1, <3>3 DEF CodeOf
      <4>2. QED
        BY <3>3, <4>1 DEF Codes, WindowCodes, Sound
    <3>4. QED
      BY <1>2, <3>1, <3>2, <3>3, WindowAssumption DEF Minutes, Records
  <2>2. ~Acceptable(records)
    <3>1. CASE ~Sound(r)
      BY <1>2, <3>1 DEF Acceptable
    <3>2. CASE Identity(r) \in identities
      <4>1. PICK q \in records \ left : Identity(q) = Identity(r)
        BY <1>2, <3>2 DEF Passed
      <4>2. q # r /\ q \in records
        BY <4>1
      <4>3. QED
        BY <1>2, <4>1, <4>2 DEF Acceptable
    <3>3. QED
      BY <2>1, <3>1, <3>2
  <2>3. QED
    BY <1>1, <1>4, <2>1, <2>2 DEF InputsInv, Acceptable, Sound
<1>5. QED
  BY <1>3, <1>4

LEMMA InputsStep == InputsInv /\ [Next]_vars => InputsInv'
<1> SUFFICES ASSUME InputsInv, [Next]_vars PROVE InputsInv'
  OBVIOUS
<1>1. ASSUME NEW r \in left, Look(r) PROVE InputsInv'
  BY <1>1, LookStep
<1>2. CASE Judge
  <2>1. /\ left = {} /\ code = "NONE" /\ code' = CodeOfWindow(identities)
        /\ UNCHANGED <<records, left, identities, canonical, forecast>>
    BY <1>2 DEF Judge
  <2>2. code' \in WindowCodes /\ code' \in Codes
    BY <2>1, WindowJudged DEF WindowCodes, Codes
  <2>3. Passed(records \ left)'
    BY <2>1 DEF InputsInv, Passed
  <2>4. CodeOfWindow(identities)' = code'
    BY <2>1 DEF CodeOfWindow, Missing, Gap
  <2>5. QED
    BY <2>1, <2>2, <2>3, <2>4 DEF InputsInv
<1>3. ASSUME NEW f \in Forecasts, Predict(f) PROVE InputsInv'
  BY <1>3 DEF Predict, InputsInv, Codes, WindowCodes
<1>4. CASE Send
  BY <1>4 DEF Send, InputsInv, Codes, WindowCodes
<1>5. CASE UNCHANGED vars
  <2>1. UNCHANGED vars
    BY <1>5
  <2>2. /\ Passed(records \ left) => Passed(records \ left)'
        /\ Acceptable(records)' = Acceptable(records)
        /\ CodeOfWindow(identities)' = CodeOfWindow(identities)
    BY <2>1 DEF vars, Passed, Acceptable, CodeOfWindow, Missing, Gap
  <2>3. QED
    BY <2>1, <2>2 DEF vars, InputsInv
<1>6. QED
  BY <1>1, <1>2, <1>3, <1>4, <1>5 DEF Next

LEMMA InputsHold == Spec => []InputsInv
BY InputsInitially, InputsStep, PTL DEF Spec

-----------------------------------------------------------------------------
\* Every variable keeps its type, identities of rounded readings included
\* (evaluate).
THEOREM InputsTypeCorrect == Spec => []TypeOK
<1>1. InputsInv => TypeOK
  BY DEF InputsInv, TypeOK
<1>2. QED
  BY <1>1, InputsHold, PTL

\* Whether a window is accepted does not depend on the order in which
\* ThingsBoard lists its records, and every record of an accepted one counts
\* (evaluate).
THEOREM OrderIsIrrelevant == Spec => []OrderDoesNotMatter
<1>1. InputsInv => OrderDoesNotMatter
  <2> SUFFICES ASSUME InputsInv PROVE OrderDoesNotMatter
    OBVIOUS
  <2>1. code \in WindowCodes =>
          /\ \A r \in records : Sound(r)
          /\ \A r, q \in records : Identity(r) = Identity(q) => r = q
          /\ identities = {Identity(r) : r \in records}
          /\ code = CodeOfWindow({Identity(r) : r \in records})
    <3> SUFFICES ASSUME code \in WindowCodes
                 PROVE  Passed(records) /\ code = CodeOfWindow(identities)
      BY DEF Passed
    <3>1. records \ left = records
      BY DEF InputsInv
    <3>2. QED
      BY <3>1 DEF InputsInv
  <2>2. CASE code \in WindowCodes
    BY <2>1, <2>2 DEF OrderDoesNotMatter, Acceptable, WindowCodes
  <2>3. CASE code \notin WindowCodes
    BY <2>3 DEF InputsInv, OrderDoesNotMatter, WindowCodes
  <2>4. QED
    BY <2>2, <2>3
<1>2. QED
  BY <1>1, InputsHold, PTL

\* Rounding half to even favours no sign.
LEMMA RoundingIsOdd == ASSUME NEW n \in Int PROVE Canonical(-n) = -Canonical(n)
<1> DEFINE q == n \div 10
           m == n % 10
<1>1. q \in Int /\ m \in 0..9 /\ n = 10 * q + m
  OBVIOUS
<1>2. CASE m = 0
  <2>1. (-n) \div 10 = -q /\ (-n) % 10 = 0
    BY <1>1, <1>2
  <2>2. QED
    BY <1>1, <1>2, <2>1 DEF Canonical, RoundHalfEven
<1>3. CASE m # 0
  <2>1. (-n) \div 10 = -q - 1 /\ (-n) % 10 = 10 - m
    BY <1>1, <1>3
  <2>2. q % 2 = 0 <=> (-q - 1) % 2 # 0
    BY <1>1
  <2>3. QED
    BY <1>1, <1>3, <2>1, <2>2 DEF Canonical, RoundHalfEven
<1>4. QED
  BY <1>2, <1>3

\* The mirror image of a forecast crosses the mirrored threshold below exactly
\* where the forecast crosses above (canonical_decimal, risk_direction).
THEOREM RoundingIsFair == Spec => []DirectionsMirror
<1>1. InputsInv => DirectionsMirror
  <2> SUFFICES ASSUME InputsInv, NEW threshold \in RawValues
               PROVE  Crossings(forecast, threshold, "ABOVE")
                        = Crossings([i \in 1..Horizon |-> -forecast[i]], -threshold, "BELOW")
    BY DEF DirectionsMirror
  <2>1. \A i \in 1..Horizon : forecast[i] \in Int
    <3>1. CASE forecast \in Forecasts
      BY <3>1, RawAssumption DEF Forecasts
    <3>2. CASE forecast = NoForecast
      BY <3>2 DEF NoForecast
    <3>3. forecast \in Forecasts \cup {NoForecast}
      BY DEF InputsInv
    <3>4. QED
      BY <3>1, <3>2, <3>3
  <2>2. threshold \in Int
    BY RawAssumption
  <2>3. ASSUME NEW i \in 1..Horizon
        PROVE  Canonical(forecast[i]) > Canonical(threshold)
                 <=> Canonical(-forecast[i]) < Canonical(-threshold)
    <3>1. /\ Canonical(-forecast[i]) = -Canonical(forecast[i])
          /\ Canonical(-threshold) = -Canonical(threshold)
          /\ Canonical(forecast[i]) \in Int /\ Canonical(threshold) \in Int
      BY <2>1, <2>2, RoundingIsOdd, Rounded
    <3>2. QED
      BY <3>1
  <2> DEFINE mirror == [i \in 1..Horizon |-> -forecast[i]]
  <2>4. \A i \in 1..Horizon : mirror[i] = -forecast[i]
    OBVIOUS
  <2> HIDE DEF mirror
  <2>5. Crossings(forecast, threshold, "ABOVE")
          = [i \in 1..Horizon |-> Canonical(forecast[i]) > Canonical(threshold)]
    BY DEF Crossings
  <2>6. Crossings(mirror, -threshold, "BELOW")
          = [i \in 1..Horizon |-> Canonical(mirror[i]) < Canonical(-threshold)]
    BY DEF Crossings
  <2>7. Crossings(forecast, threshold, "ABOVE") = Crossings(mirror, -threshold, "BELOW")
    <3>1. ASSUME NEW i \in 1..Horizon
          PROVE  (Canonical(forecast[i]) > Canonical(threshold))
                   = (Canonical(mirror[i]) < Canonical(-threshold))
      BY <2>3, <2>4
    <3>2. QED
      BY <2>5, <2>6, <3>1, Zenon
  <2>8. QED
    BY <2>7 DEF mirror
<1>2. QED
  BY <1>1, InputsHold, PTL
-----------------------------------------------------------------------------
\* The points a set of indices counts, and the points that follow them, are
\* equally many.
LEMMA ShiftKeepsSize ==
  ASSUME NEW n \in Nat, NEW C \in SUBSET (1..n)
  PROVE  LET D == {i + 1 : i \in C}
         IN  /\ IsFiniteSet(C) /\ IsFiniteSet(D) /\ D \subseteq 1..(n + 1)
             /\ Cardinality(C) \in Nat /\ Cardinality(D) = Cardinality(C)
<1> DEFINE D == {i + 1 : i \in C}
           f == [i \in C |-> i + 1]
<1>1. IsFiniteSet(C) /\ Cardinality(C) \in Nat
  <2>1. IsFiniteSet(1..n)
    BY FS_Interval
  <2>2. IsFiniteSet(C)
    BY <2>1, FS_Subset
  <2>3. QED
    BY <2>2, FS_CardinalityType
<1>2. f \in Bijection(C, D)
  <2>1. C \subseteq Int
    OBVIOUS
  <2>2. f \in [C -> D]
    OBVIOUS
  <2>3. \A i, j \in C : f[i] = f[j] => i = j
    BY <2>1
  <2>4. \A d \in D : \E i \in C : f[i] = d
    <3> SUFFICES ASSUME NEW d \in D PROVE \E i \in C : f[i] = d
      OBVIOUS
    <3>1. PICK i \in C : d = i + 1
      OBVIOUS
    <3>2. f[i] = d
      BY <3>1
    <3>3. QED
      BY <3>2
  <2> HIDE DEF f, D
  <2>5. f \in Injection(C, D)
    BY <2>2, <2>3 DEF Injection, IsInjective
  <2>6. f \in Surjection(C, D)
    BY <2>2, <2>4 DEF Surjection
  <2>7. QED
    BY <2>5, <2>6 DEF Bijection
<1>3. ExistsBijection(C, D)
  BY <1>2 DEF ExistsBijection
<1>4. IsFiniteSet(D) /\ Cardinality(D) = Cardinality(C)
  BY <1>1, <1>3, FS_Bijection
<1>5. D \subseteq 1..(n + 1)
  OBVIOUS
<1>6. QED
  BY <1>1, <1>4, <1>5

\* Two neighbours are two crossings, whatever a crossing is.
LEMMA RiskyCountsTwo ==
  ASSUME NEW crossing, Risky(crossing)
  PROVE  CrossingCount(crossing) >= 2
<1> DEFINE C == {i \in 1..Horizon : crossing[i]}
<1>1. PICK i \in 1..(Horizon - 1) : crossing[i] /\ crossing[i + 1]
  BY DEF Risky
<1>2. {i} \cup {i + 1} \subseteq C
  BY <1>1, PolicyAssumption
<1>3. IsFiniteSet({i}) /\ Cardinality({i}) = 1
  BY FS_Singleton
<1>4. i + 1 \notin {i}
  OBVIOUS
<1>5. Cardinality({i} \cup {i + 1}) = 2
  BY <1>3, <1>4, FS_AddElement
<1>6. C \in SUBSET (1..Horizon) /\ Horizon \in Nat
  BY PolicyAssumption
<1> HIDE DEF C
<1>7. IsFiniteSet(C) /\ Cardinality(C) \in Nat
  BY <1>6, ShiftKeepsSize
<1>8. Cardinality({i} \cup {i + 1}) <= Cardinality(C)
  BY <1>2, <1>7, FS_Subset
<1>9. Cardinality(C) >= 2
  BY <1>5, <1>7, <1>8
<1>10. QED
  BY <1>9 DEF CrossingCount, C

\* More crossings than every other point leave no room to keep them apart:
\* they and the points after them meet within the horizon.
LEMMA ManyCrossingsAreRisky ==
  ASSUME NEW crossing, CrossingCount(crossing) > (Horizon + 1) \div 2
  PROVE  Risky(crossing)
<1> DEFINE C == {i \in 1..Horizon : crossing[i]}
           D == {i + 1 : i \in C}
           U == 1..(Horizon + 1)
<1>1. C \in SUBSET (1..Horizon) /\ Horizon \in Nat
  BY PolicyAssumption
<1>2. \A x \in C \cap D : x - 1 \in 1..(Horizon - 1) /\ crossing[x - 1] /\ crossing[(x - 1) + 1]
  <2> SUFFICES ASSUME NEW i \in C, i + 1 \in C
               PROVE  /\ (i + 1) - 1 \in 1..(Horizon - 1) /\ crossing[(i + 1) - 1]
                      /\ crossing[((i + 1) - 1) + 1]
    OBVIOUS
  <2>1. i \in Int /\ (i + 1) - 1 = i
    OBVIOUS
  <2>2. i \in 1..(Horizon - 1) /\ crossing[i] /\ crossing[i + 1]
    BY <1>1
  <2>3. QED
    BY <2>1, <2>2
<1>3. C \subseteq U
  BY <1>1
<1>4. Cardinality(C) > (Horizon + 1) \div 2
  BY DEF CrossingCount
<1> HIDE DEF C
<1>5. /\ Cardinality(C) \in Nat /\ Cardinality(D) = Cardinality(C) /\ D \subseteq U
  BY <1>1, ShiftKeepsSize
<1>6. IsFiniteSet(U) /\ Cardinality(U) = Horizon + 1
  BY <1>1, FS_Interval
<1> HIDE DEF D, U
<1>7. Cardinality(C) + Cardinality(D) > Cardinality(U)
  BY <1>1, <1>4, <1>5, <1>6
<1>8. C \cap D # {}
  BY <1>3, <1>5, <1>6, <1>7, FS_MajoritiesIntersect
<1>9. QED
  BY <1>2, <1>8 DEF Risky

\* The two figures of a round never contradict each other, at any horizon and
\* threshold and in either direction: a risky forecast has two crossings, and
\* one with more than (Horizon + 1) \div 2 of them is risky, while that many can
\* still be kept apart (RiskEvaluator.evaluate, RoundRisk).
THEOREM RiskAgreesWithCrossings == Spec => []CrossingsBoundRisk
<1>1. CrossingsBoundRisk
  BY RiskyCountsTwo, ManyCrossingsAreRisky DEF CrossingsBoundRisk
<1>2. QED
  BY <1>1, PTL
=============================================================================
