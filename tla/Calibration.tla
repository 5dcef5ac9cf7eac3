------------------------------ MODULE Calibration ------------------------------
(***************************************************************************)
(* src/scripts/eval/evaluate_scoring_comparison.py: how the threshold of    *)
(* the ML model is chosen.  From high to low the benign scores are tried,   *)
(* as long as the rules and the model together stay within the target rate  *)
(* of false alarms.  A target is in permille.                               *)
(***************************************************************************)
EXTENDS Integers, FiniteSets

Inf == -1                                   \* float("inf")
Exceeds(score, thr) == thr # Inf /\ score > thr

\* Benign windows: a function to [rule, score].
BenignWindows(I) == [I -> [rule : BOOLEAN, score : Nat]]
HybridFires(w, thr) == {i \in DOMAIN w : w[i].rule \/ Exceeds(w[i].score, thr)}
Within(w, thr, target) ==
  1000 * Cardinality(HybridFires(w, thr)) <= target * Cardinality(DOMAIN w)

Scores(w) == {w[i].score : i \in DOMAIN w}
\* The scores the loop gets to and accepts before it breaks.
Accepted(w, target) ==
  {s \in Scores(w) : \A u \in Scores(w) : u >= s => Within(w, u, target)}
Least(S) == CHOOSE x \in S : \A y \in S : x <= y

\* Mutant of CalibrateHybrid: the loop runs from low to high.
CalibrateHybridUp(w, target) ==
  IF Within(w, Inf, target) /\ Scores(w) # {} /\ Within(w, Least(Scores(w)), target)
  THEN Least(Scores(w)) ELSE Inf
CalibrateHybrid(w, target) ==
  IF Within(w, Inf, target) /\ Accepted(w, target) # {}
  THEN Least(Accepted(w, target)) ELSE Inf

==============================================================================
