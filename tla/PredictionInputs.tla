-------------------------- MODULE PredictionInputs --------------------------
(***************************************************************************)
(* What a prediction is made of, and what is made of it: the telemetry      *)
(* records of a window, judged one after the other in the order ThingsBoard *)
(* returned them (DataQualityEvaluator in services/data_quality.py), the    *)
(* history sent to PDM (services/prediction_requests.py), and whether the   *)
(* forecast is risky (RiskEvaluator in services/risk.py).                   *)
(*                                                                         *)
(* A decimal is an integer in tenths of the binding's scale before it is    *)
(* rounded, and in units of the scale after.  A record is of minute 0 ..    *)
(* Window - 1 of the window, or lies outside.                               *)
(***************************************************************************)
EXTENDS Integers, FiniteSets, Sequences, TLC

CONSTANTS Window,          \* request_window_points, 66 in the code
          MissingDivisor,  \* a tenth of the minutes may be missing: 10
          RawValues,       \* decimals ThingsBoard and PDM may return
          Windows,         \* lists of records ThingsBoard may return, as sets
          Digest(_),       \* the data_id of an identity, as a number
          Horizon,         \* horizon_points
          Threshold,       \* risk_threshold
          Direction        \* risk_direction

ASSUME WindowAssumption == Window \in Nat \ {0} /\ MissingDivisor \in Nat \ {0}
ASSUME RawAssumption == RawValues \subseteq Int
ASSUME PolicyAssumption == /\ Horizon \in Nat \ {0} /\ Threshold \in Int
                           /\ Direction \in {"ABOVE", "BELOW"}

VARIABLES records,    \* what ThingsBoard returned
          left,       \* the records that were not looked at yet
          identities, \* those of the others
          canonical,  \* the same, in the order they came in
          code,       \* of the DataQualityResult, "NONE" before there is one
          forecast    \* of PDM

vars == <<records, left, identities, canonical, code, forecast>>

-----------------------------------------------------------------------------
(* canonical_decimal                                                       *)

\* Mutant: halves are rounded up.
RoundHalfUp(n, d) == (2 * n + d) \div (2 * d)

\* n / d, rounded half to even.
RoundHalfEven(n, d) ==
  LET q == n \div d
      twice == 2 * (n % d)
  IN IF twice < d \/ (twice = d /\ q % 2 = 0) THEN q ELSE q + 1

Canonical(value) == RoundHalfEven(value, 10)

-----------------------------------------------------------------------------
(* DataQualityEvaluator.evaluate                                           *)

Minutes == 0..(Window - 1)

\* flaw: what else is wrong with a record.
Flaws == {"none", "between minutes", "unit", "not a decimal"}
Records == [minute : -1..Window, value : RawValues, flaw : Flaws]
ASSUME WindowsAssumption == Windows \subseteq SUBSET Records
Identities == [minute : Minutes, value : Int]

Identity(r) == [minute |-> r.minute, value |-> Canonical(r.value)]

\* Mutant: a minute holds one record.
CodeOfMinute(r, known) ==
  CASE r.minute >= Window -> "FUTURE_TIMESTAMP"
    [] r.minute \in Minutes /\ r.flaw = "unit" -> "UNIT_MISMATCH"
    [] r.minute \in Minutes /\ r.flaw = "not a decimal" -> "NON_FINITE_VALUE"
    [] r.minute \in Minutes /\ r.flaw = "none" ->
         IF \E k \in known : k.minute = r.minute THEN "DUPLICATE_RAW_RECORD" ELSE "NONE"
    [] OTHER -> "TIMESTAMP_OUTSIDE_WINDOW"

\* Mutant: the minute the window ends at is part of it.
CodeOfLater(r, known) ==
  CASE r.minute > Window -> "FUTURE_TIMESTAMP"
    [] r.minute < 0 \/ r.flaw = "between minutes" -> "TIMESTAMP_OUTSIDE_WINDOW"
    [] r.flaw = "unit" -> "UNIT_MISMATCH"
    [] r.flaw = "not a decimal" -> "NON_FINITE_VALUE"
    [] OTHER -> IF Identity(r) \in known THEN "DUPLICATE_RAW_RECORD" ELSE "NONE"

\* What a record is refused for, after the identities known.
CodeOf(r, known) ==
  CASE r.minute >= Window -> "FUTURE_TIMESTAMP"
    [] r.minute \in Minutes /\ r.flaw = "unit" -> "UNIT_MISMATCH"
    [] r.minute \in Minutes /\ r.flaw = "not a decimal" -> "NON_FINITE_VALUE"
    [] r.minute \in Minutes /\ r.flaw = "none" ->
         IF Identity(r) \in known THEN "DUPLICATE_RAW_RECORD" ELSE "NONE"
    [] OTHER -> "TIMESTAMP_OUTSIDE_WINDOW"

Missing(known) == {m \in Minutes : \A k \in known : k.minute # m}

\* Three minutes in a row.
Gap(known) == \E m \in 0..(Window - 3) : {m, m + 1, m + 2} \subseteq Missing(known)

\* What the window as a whole is refused for.
CodeOfWindow(known) ==
  IF Cardinality(Missing(known)) > Window \div MissingDivisor THEN "MISSING_RATIO_EXCEEDED"
  ELSE IF Gap(known) THEN "CONSECUTIVE_MISSING_EXCEEDED"
  ELSE "OK"

-----------------------------------------------------------------------------
(* What is sent: evaluate and _history, one after the other, sort it.       *)

\* Two readings of a minute differ in value, and so in data_id.
DigestAssumption ==
  \A r, q \in UNION Windows :
    Identity(r) # Identity(q) => Digest(Identity(r)) # Digest(Identity(q))
ASSUME DigestAssumption

Earlier(k, l) == k.minute < l.minute
ByValue(k, l) == Earlier(k, l) \/ (k.minute = l.minute /\ k.value < l.value)
ByDigest(k, l) == Earlier(k, l) \/ (k.minute = l.minute /\ Digest(k) < Digest(l))

\* Mutant: the minute is all that points are sorted by.
HistoryByMinute(list) == SortSeq(list, Earlier)

History(list) == SortSeq(SortSeq(list, ByValue), ByDigest)

-----------------------------------------------------------------------------
(* RiskEvaluator.evaluate                                                  *)

\* Mutant: three crossings in a row are asked for.
RiskyThrice(crossing) ==
  \E i \in 1..(Horizon - 2) : crossing[i] /\ crossing[i + 1] /\ crossing[i + 2]

Risky(crossing) == \E i \in 1..(Horizon - 1) : crossing[i] /\ crossing[i + 1]

\* Whether each value of forecast f crosses the threshold.
Crossings(f, threshold, direction) ==
  [i \in 1..Horizon |-> IF direction = "ABOVE" THEN Canonical(f[i]) > Canonical(threshold)
                                               ELSE Canonical(f[i]) < Canonical(threshold)]

CrossingCount(crossing) == Cardinality({i \in 1..Horizon : crossing[i]})

-----------------------------------------------------------------------------
NoForecast == [i \in 1..Horizon |-> 0]
Forecasts == [1..Horizon -> RawValues]

Codes == {"NONE", "OK", "FUTURE_TIMESTAMP", "TIMESTAMP_OUTSIDE_WINDOW", "UNIT_MISMATCH",
          "NON_FINITE_VALUE", "DUPLICATE_RAW_RECORD", "MISSING_RATIO_EXCEEDED",
          "CONSECUTIVE_MISSING_EXCEEDED", "SENT", "PREDICTED"}

TypeOK == /\ records \subseteq Records
          /\ left \subseteq records
          /\ identities \subseteq Identities /\ canonical \in Seq(Identities)
          /\ code \in Codes
          /\ forecast \in Forecasts \cup {NoForecast}

Init == /\ records \in Windows
        /\ left = records
        /\ identities = {} /\ canonical = <<>>
        /\ code = "NONE"
        /\ forecast = NoForecast

\* The next record of the list, whichever it is; the first flaw decides.
Look(r) == /\ code = "NONE"
           /\ left' = left \ {r}
           /\ code' = CodeOf(r, identities)
           /\ IF code' = "NONE"
                THEN /\ identities' = identities \cup {Identity(r)}
                     /\ canonical' = Append(canonical, Identity(r))
                ELSE UNCHANGED <<identities, canonical>>
           /\ UNCHANGED <<records, forecast>>

Judge == /\ code = "NONE" /\ left = {}
         /\ code' = CodeOfWindow(identities)
         /\ UNCHANGED <<records, left, identities, canonical, forecast>>

\* The history of a window in order goes to PDM; nothing looks at it again.
Send == /\ code = "OK"
        /\ code' = "SENT"
        /\ records' = {} /\ left' = {} /\ identities' = {} /\ canonical' = <<>>
        /\ UNCHANGED forecast

Predict(f) == /\ code = "SENT"
              /\ code' = "PREDICTED"
              /\ forecast' = f
              /\ UNCHANGED <<records, left, identities, canonical>>

Next == (\E r \in left : Look(r)) \/ Judge \/ Send \/ \E f \in Forecasts : Predict(f)

Spec == Init /\ [][Next]_vars

-----------------------------------------------------------------------------
(* What the evaluation promises.                                           *)

\* A window that could be sent: every record sound, no two alike, readings
\* for enough minutes.
Sound(r) == r.minute \in Minutes /\ r.flaw = "none"
Acceptable(S) ==
  /\ \A r \in S : Sound(r)
  /\ \A r, q \in S : Identity(r) = Identity(q) => r = q
  /\ CodeOfWindow({Identity(r) : r \in S}) = "OK"

\* Whether a window is accepted depends on its records and not on the order
\* they came in, and every record of an accepted window counts (evaluate).
OrderDoesNotMatter ==
  /\ code = "OK" => Acceptable(records) /\ identities = {Identity(r) : r \in records}
  /\ code \notin {"NONE", "OK", "SENT", "PREDICTED"} => ~Acceptable(records)

\* What is sent depends on the records alone as well: it lists each of them
\* once, in the one order of minute and data_id, whichever way ThingsBoard
\* listed them, so a retry over the same records has the request digest of the
\* first attempt (evaluate, _history, prepare).
HistoryIsCanonical ==
  code = "OK" =>
    LET sent == History(canonical)
    IN /\ {sent[i] : i \in DOMAIN sent} = {Identity(r) : r \in records}
       /\ \A i, j \in DOMAIN sent : i < j =>
            \/ sent[i].minute < sent[j].minute
            \/ sent[i].minute = sent[j].minute /\ Digest(sent[i]) < Digest(sent[j])

\* The two figures of a round agree: a risky forecast crosses the threshold
\* twice, and one with more crossings than can be kept apart, which is every
\* other point, is risky: more than two of four points, more than three of
\* five, more than eight of fifteen (RoundRisk).
CrossingsBoundRisk ==
  code = "PREDICTED" =>
    LET crossing == Crossings(forecast, Threshold, Direction)
    IN /\ Risky(crossing) => CrossingCount(crossing) >= 2
       /\ CrossingCount(crossing) > (Horizon + 1) \div 2 => Risky(crossing)

\* Rounding favours no direction: the mirror image of a forecast crosses the
\* mirrored threshold below where the forecast crosses above, on the very
\* halves as well (canonical_decimal, risk_direction).
DirectionsMirror ==
  code = "PREDICTED" =>
    \A threshold \in RawValues :
      Crossings(forecast, threshold, "ABOVE")
        = Crossings([i \in 1..Horizon |-> -forecast[i]], -threshold, "BELOW")
=============================================================================
