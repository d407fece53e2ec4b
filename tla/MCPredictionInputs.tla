------------------------- MODULE MCPredictionInputs -------------------------
(***************************************************************************)
(* Instances of PredictionInputs for TLC.  Windows of any minutes, with one *)
(* more record of any kind, of five records at most.                       *)
(***************************************************************************)
EXTENDS PredictionInputs

\* Halves of both parities and signs, and two decimals that round alike.
SomeDecimals == {-15, -5, 4, 5, 15, 25}

Plain(m) == [minute |-> m, value |-> 15, flaw |-> "none"]
Extras == {[minute |-> m, value |-> v, flaw |-> "none"] :
             m \in -1..Window, v \in {5, 25}}
            \cup {[minute |-> 2, value |-> 5, flaw |-> f] : f \in Flaws}
SomeWindows ==
  LET Some(n) == {M \in SUBSET Minutes : Cardinality(M) <= n}
  IN {{Plain(m) : m \in M} : M \in Some(5)}
       \cup {{Plain(m) : m \in M} \cup {e} : M \in Some(4), e \in Extras}

\* Digests follow neither the minutes nor the values.
SomeDigest(k) == 7 * (Window - k.minute) + ((3 * k.value + 4) % 7)
=============================================================================
