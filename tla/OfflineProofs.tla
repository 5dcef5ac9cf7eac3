----------------------------- MODULE OfflineProofs -----------------------------
(***************************************************************************)
(* The programs beside the xApp that keep state, for every instance.  The   *)
(* autoencoder's host never lets it speak first (AnomalyDetector); the      *)
(* calibrated threshold is the best that keeps the target (Calibration);    *)
(* the port of the cell rules names what it reports, lets go and keeps one  *)
(* saturation's age from another's (RulePort).  A training leaves the files *)
(* of its best epoch (Training), the drivers of the ablation record each    *)
(* cell once whatever is killed and restarted (GroupedAblation), and the    *)
(* tables made of the record are of one experiment (AblationReport).        *)
(***************************************************************************)
EXTENDS AnomalyDetector, Calibration, RulePort, AblationReport, Training, FiniteSetTheorems,
        FunctionTheorems, SequenceTheorems, WellFoundedInduction, TLAPS

-----------------------------------------------------------------------------
(* AnomalyDetector: who pays for the buffer.                                *)
\* The part of the types that arithmetic about the buffer needs.
BufferTypeOK ==
  /\ bufLen \in 0..SeqLen
  /\ normalCount \in 0..(NormalFlush - 1)
  /\ rulesSinceFlush \in 0..SeqLen

DetInv == DetTypeOK /\ BufferPaidByRules /\ LstmNeverFirst

LEMMA AtMostBound ==
  ASSUME NEW n \in Nat, NEW bound \in Nat
  PROVE  AtMost(n, bound) \in 0..bound /\ AtMost(n, bound) <= n
BY DEF AtMost

\* A streak counter stays in its range, whatever it counts.
LEMMA CountBound ==
  ASSUME NEW streak \in 0..Streak, NEW holds
  PROVE  Count(streak, holds) \in 0..Streak
BY DEF Count, AtMost, Streak

\* The buffer grows by one up to its capacity.
LEMMA BufferedBound ==
  ASSUME bufLen \in 0..SeqLen
  PROVE  /\ Buffered \in 0..SeqLen
         /\ Buffered <= bufLen + 1
         /\ bufLen < SeqLen => Buffered = bufLen + 1
         /\ bufLen = SeqLen => Buffered = SeqLen
BY DetectorAssumption DEF Buffered, AtMost

LEMMA DetInvInit == DetInit => DetInv
BY DetectorAssumption
   DEF DetInit, DetInv, DetTypeOK, BufferPaidByRules, LstmNeverFirst, Normal,
       Verdict, NormalFlush, Streak

\* What every call does to the counters keeps their types.
LEMMA ObserveTypes ==
  ASSUME DetTypeOK, NEW k \in Kpis, Observe(k)
  PROVE  /\ model' \in {"none", "unfitted", "fitted"}
         /\ storm' \in 0..Streak /\ ulFlood' \in 0..Streak /\ dlFlood' \in 0..Streak
         /\ ulPlausible' \in 0..Streak /\ dlPlausible' \in 0..Streak
<1>1. model' \in {"none", "unfitted", "fitted"}
  BY DEF DetTypeOK, Observe
<1>2. storm' \in 0..Streak /\ ulFlood' \in 0..Streak /\ dlFlood' \in 0..Streak
  BY CountBound DEF DetTypeOK, Observe, EvaluateStreaks, StreakNext
<1>3. ulPlausible' \in 0..Streak /\ dlPlausible' \in 0..Streak
  BY CountBound DEF DetTypeOK, Observe
<1>4. QED
  BY <1>1, <1>2, <1>3

\* A quiet call counts itself; the third in a row empties the buffer.
LEMMA QuietKeeps ==
  ASSUME BufferTypeOK, BufferPaidByRules, Quiet
  PROVE  BufferTypeOK' /\ BufferPaidByRules'
<1>1. CASE Flushes
  BY <1>1, DetectorAssumption
     DEF Quiet, BufferTypeOK, BufferPaidByRules, NormalFlush
<1>2. CASE ~Flushes
  <2>1. /\ bufLen' = Buffered /\ normalCount' = normalCount + 1
        /\ rulesSinceFlush' = rulesSinceFlush
    BY <1>2 DEF Quiet
  <2>2. normalCount + 1 < NormalFlush
    BY <1>2 DEF Flushes, BufferTypeOK, NormalFlush
  <2>3. BufferTypeOK'
    BY <2>1, <2>2, BufferedBound DEF BufferTypeOK, NormalFlush
  <2>4. QED
    BY <2>1, <2>3, BufferedBound, DetectorAssumption
       DEF BufferTypeOK, BufferPaidByRules, NormalFlush
<1>3. QED
  BY <1>1, <1>2

\* A rule hit pays for itself and for the two quiet calls that may follow it.
LEMMA RuleKeeps ==
  ASSUME BufferTypeOK, BufferPaidByRules,
         bufLen' = Buffered, normalCount' = 0,
         rulesSinceFlush' = AtMost(rulesSinceFlush + 1, SeqLen)
  PROVE  BufferTypeOK' /\ BufferPaidByRules'
<1>1. BufferTypeOK'
  BY BufferedBound, DetectorAssumption DEF BufferTypeOK, AtMost, NormalFlush
<1>2. CASE rulesSinceFlush < SeqLen
  <2>1. rulesSinceFlush' = rulesSinceFlush + 1
    BY <1>2, DetectorAssumption DEF BufferTypeOK, AtMost
  <2>2. QED
    BY <2>1, <1>1, BufferedBound, DetectorAssumption
       DEF BufferTypeOK, BufferPaidByRules, NormalFlush
<1>3. CASE rulesSinceFlush = SeqLen
  BY <1>3, <1>1, DetectorAssumption
     DEF BufferTypeOK, BufferPaidByRules, NormalFlush, AtMost
<1>4. QED
  BY <1>2, <1>3, DetectorAssumption DEF BufferTypeOK

\* A full buffer was paid for, so it may stay full.
LEMMA FullKeeps ==
  ASSUME BufferTypeOK, BufferPaidByRules, BufferFull,
         bufLen' = Buffered, normalCount' \in {0, normalCount},
         rulesSinceFlush' = rulesSinceFlush
  PROVE  /\ BufferTypeOK' /\ BufferPaidByRules'
         /\ NormalFlush * (rulesSinceFlush + 1) >= SeqLen
<1>1. Buffered = SeqLen
  BY BufferedBound, DetectorAssumption DEF BufferFull, BufferTypeOK
<1>2. BufferTypeOK'
  BY <1>1, DetectorAssumption DEF BufferTypeOK, NormalFlush
<1>3. NormalFlush * (rulesSinceFlush + 1) >= SeqLen
  BY <1>1, BufferedBound, DetectorAssumption
     DEF BufferTypeOK, BufferPaidByRules, NormalFlush
<1>4. QED
  BY <1>1, <1>2, <1>3, DetectorAssumption DEF BufferTypeOK, BufferPaidByRules, NormalFlush

\* What the rules report is never taken for the autoencoder's.
LEMMA PrimaryIsByRules ==
  ASSUME NEW k
  PROVE  Primary(k).method = "rules"
BY DEF Primary, Verdict

LEMMA DetInvStep == DetInv /\ [DetNext]_detVars => DetInv'
<1>. SUFFICES ASSUME DetInv, [DetNext]_detVars PROVE DetInv'
  OBVIOUS
<1>. USE DEF DetInv
<1>1. BufferTypeOK
  BY DEF BufferTypeOK, DetTypeOK
<1>2. ASSUME NEW k \in Kpis, DetectNormal(k) PROVE DetInv'
  <2>1. Observe(k) /\ Quiet
    BY <1>2 DEF DetectNormal
  <2>2. BufferTypeOK' /\ BufferPaidByRules'
    BY <2>1, <1>1, QuietKeeps
  <2>3. DetTypeOK'
    BY <2>1, <2>2, ObserveTypes DEF DetTypeOK, BufferTypeOK
  <2>4. verdict'.method = "none"
    BY <2>1 DEF Quiet, Normal, Verdict
  <2>5. QED
    BY <2>2, <2>3, <2>4 DEF LstmNeverFirst
<1>3. ASSUME NEW k \in Kpis, DetectByRule(k) PROVE DetInv'
  <2>1. BufferTypeOK' /\ BufferPaidByRules'
    BY <1>3, <1>1, RuleKeeps DEF DetectByRule
  <2>2. DetTypeOK'
    BY <1>3, <2>1, ObserveTypes DEF DetectByRule, DetTypeOK, BufferTypeOK
  <2>3. verdict'.method = "rules"
    BY <1>3, PrimaryIsByRules DEF DetectByRule
  <2>4. QED
    BY <2>1, <2>2, <2>3 DEF LstmNeverFirst
<1>4. ASSUME NEW k \in Kpis, NEW scoreAbove3 \in BOOLEAN, DetectByLstm(k, scoreAbove3)
      PROVE  DetInv'
  <2>1. /\ BufferTypeOK' /\ BufferPaidByRules'
        /\ NormalFlush * (rulesSinceFlush + 1) >= SeqLen
    BY <1>4, <1>1, FullKeeps DEF DetectByLstm
  <2>2. DetTypeOK'
    BY <1>4, <2>1, ObserveTypes DEF DetectByLstm, DetTypeOK, BufferTypeOK
  <2>3. rulesSinceFlush' = rulesSinceFlush
    BY <1>4 DEF DetectByLstm
  <2>4. QED
    BY <2>1, <2>2, <2>3 DEF LstmNeverFirst
<1>5. ASSUME NEW k \in Kpis, DetectRaises(k) PROVE DetInv'
  <2>1. BufferTypeOK' /\ BufferPaidByRules'
    BY <1>5, <1>1, FullKeeps DEF DetectRaises
  <2>2. DetTypeOK'
    BY <1>5, <2>1, ObserveTypes DEF DetectRaises, DetTypeOK, BufferTypeOK
  <2>3. verdict'.method = "none"
    BY <1>5 DEF DetectRaises, Raised, Verdict
  <2>4. QED
    BY <2>1, <2>2, <2>3 DEF LstmNeverFirst
<1>6. ASSUME NEW m \in {"unfitted", "fitted"}, SetLstmModel(m) PROVE DetInv'
  BY <1>6 DEF SetLstmModel, streaks, DetTypeOK, BufferPaidByRules, LstmNeverFirst
<1>7. CASE UNCHANGED detVars
  BY <1>7 DEF detVars, streaks, DetTypeOK, BufferPaidByRules, LstmNeverFirst
<1>8. QED
  BY <1>2, <1>3, <1>4, <1>5, <1>6, <1>7 DEF DetNext, Detect

\* The types of the detector, for every sequence length and sample set.
THEOREM DetectorTypes == DetSpec => []DetTypeOK
<1>1. DetInv => DetTypeOK
  BY DEF DetInv
<1>2. QED
  BY <1>1, DetInvInit, DetInvStep, PTL DEF DetSpec

\* The autoencoder never speaks first: its own verdicts need rule hits since
\* the last flush, one for every NormalFlush calls its window is long.
THEOREM LstmNeedsRules == DetSpec => []LstmNeverFirst
<1>1. DetInv => LstmNeverFirst
  BY DEF DetInv
<1>2. QED
  BY <1>1, DetInvInit, DetInvStep, PTL DEF DetSpec

\* With detection.threshold_enabled off, a window longer than NormalFlush is
\* never judged at all: no anomaly of any kind is reported.
RulesUnused == rulesSinceFlush = 0
Silent == verdict.method = "none"

THEOREM WithoutRulesSilent ==
  ASSUME RulesEnabled = FALSE, SeqLen > NormalFlush
  PROVE  DetSpec => []Silent
<1>1. DetInit => RulesUnused /\ Silent
  BY DEF DetInit, RulesUnused, Silent, Normal, Verdict
<1>2. DetInv /\ DetInv' /\ RulesUnused /\ Silent /\ [DetNext]_detVars
        => (RulesUnused /\ Silent)'
  <2>. SUFFICES ASSUME DetInv, DetInv', RulesUnused, Silent, [DetNext]_detVars
                PROVE  (RulesUnused /\ Silent)'
    OBVIOUS
  <2>1. \A k \in Kpis : Hits(k) = {}
    BY DEF Hits
  <2>2. rulesSinceFlush' = 0
    BY <2>1 DEF DetNext, Detect, DetectNormal, DetectByRule, DetectByLstm, DetectRaises,
                Quiet, SetLstmModel, RulesUnused, detVars
  <2>3. verdict'.method # "lstm"
    BY <2>2, DetectorAssumption DEF DetInv, LstmNeverFirst, NormalFlush
  <2>4. verdict'.method = "none"
    BY <2>1, <2>3 DEF DetNext, Detect, DetectNormal, DetectByRule, DetectByLstm,
         DetectRaises, Quiet, Normal, Raised, Verdict, SetLstmModel, Silent, detVars
  <2>5. QED
    BY <2>2, <2>4 DEF RulesUnused, Silent
<1>3. QED
  BY <1>1, <1>2, DetInvInit, DetInvStep, PTL DEF DetSpec

-----------------------------------------------------------------------------
(* Calibration: all it needs is that the benign windows are finitely many,  *)
(* that there is one, and that the target is below one.                     *)

(* Any nonempty set of naturals has a least element.                       *)
LEMMA LeastExists ==
  ASSUME NEW S, S \subseteq Nat, S # {}
  PROVE  Least(S) \in S /\ \A y \in S : Least(S) <= y
<1> DEFINE R == OpToRel(<, Nat)
<1>1. PICK x \in S : \A y \in S : ~(<<y, x>> \in R)
  BY NatLessThanWellFounded, WFMin
<1>2. ASSUME NEW y \in S PROVE x <= y
  <2>1. y \in Nat /\ x \in Nat
    OBVIOUS
  <2>2. y < x => <<y, x>> \in R
    BY <2>1 DEF OpToRel
  <2>3. ~(y < x)
    BY <1>1, <2>2
  <2> QED BY <2>1, <2>3
<1> QED BY <1>1, <1>2 DEF Least

(* The greatest of the elements of S that do not exceed t.                 *)
LEMMA GreatestBelow ==
  ASSUME NEW S, S \subseteq Nat, NEW t \in Nat, NEW s \in S, s <= t
  PROVE  \E m \in S : m <= t /\ \A y \in S : y <= t => y <= m
<1> DEFINE D == {t - x : x \in {y \in S : y <= t}}
<1>1. D \subseteq Nat /\ D # {}
  <2>1. \A x \in S : x \in Nat /\ (x <= t => t - x \in Nat)
    OBVIOUS
  <2>2. t - s \in D
    OBVIOUS
  <2> QED BY <2>1, <2>2
<1>2. Least(D) \in D /\ \A d \in D : Least(D) <= d
  BY <1>1, LeastExists
<1>3. PICK m \in S : m <= t /\ Least(D) = t - m
  BY <1>2
<1>4. ASSUME NEW y \in S, y <= t PROVE y <= m
  <2>1. t - y \in D
    BY <1>4
  <2>2. t - m <= t - y
    BY <1>2, <1>3, <2>1
  <2>3. m \in Nat /\ y \in Nat
    OBVIOUS
  <2> QED BY <2>2, <2>3
<1> QED BY <1>3, <1>4

(* Fewer alarms cannot leave the target.                                   *)
LEMMA WithinMonotone ==
  ASSUME NEW w, IsFiniteSet(DOMAIN w), NEW target \in Nat, NEW t, NEW u,
         HybridFires(w, u) \subseteq HybridFires(w, t), Within(w, t, target)
  PROVE  Within(w, u, target)
<1>1. IsFiniteSet(HybridFires(w, t))
  BY FS_Subset DEF HybridFires
<1>2. /\ Cardinality(HybridFires(w, u)) <= Cardinality(HybridFires(w, t))
      /\ Cardinality(HybridFires(w, u)) \in Nat /\ Cardinality(HybridFires(w, t)) \in Nat
  BY <1>1, FS_Subset, FS_CardinalityType
<1>3. target * Cardinality(DOMAIN w) \in Nat
  BY FS_CardinalityType
<1> DEFINE a == Cardinality(HybridFires(w, u))
           b == Cardinality(HybridFires(w, t))
           c == target * Cardinality(DOMAIN w)
<1>4. a \in Nat /\ b \in Nat /\ c \in Nat /\ a <= b /\ 1000 * b <= c
  BY <1>2, <1>3 DEF Within
<1>5. 1000 * a <= c
  <2> HIDE DEF a, b, c
  <2> QED BY <1>4
<1> QED BY <1>5 DEF Within

(* "Lowest ML threshold keeping hybrid benign FPR <= target" (line 61): a   *)
(* threshold of any value that keeps the target, not only a benign score,   *)
(* is no better: what it catches the calibrated one catches too.            *)
THEOREM CalibrationBest ==
  ASSUME NEW I, IsFiniteSet(I), I # {}, NEW w \in BenignWindows(I),
         NEW target \in Nat, target < 1000,
         NEW t \in Nat, Within(w, t, target),
         NEW score \in Nat, Exceeds(score, t)
  PROVE  Exceeds(score, CalibrateHybrid(w, target))
<1>1. DOMAIN w = I /\ Scores(w) \subseteq Nat
      /\ \A i \in I : w[i].rule \in BOOLEAN /\ w[i].score \in Nat
  BY DEF BenignWindows, Scores
<1>2. \E s \in Scores(w) : s <= t
  <2>1. SUFFICES ASSUME \A s \in Scores(w) : t < s PROVE FALSE
    BY <1>1
  <2>2. HybridFires(w, t) = I
    BY <1>1, <2>1 DEF HybridFires, Exceeds, Scores, Inf
  <2> DEFINE n == Cardinality(I)
  <2>3. n \in Nat /\ n # 0
    BY FS_CardinalityType, FS_EmptySet
  <2>4. 1000 * n <= target * n
    BY <1>1, <2>2 DEF Within
  <2>5. target * n <= 999 * n
    <3> HIDE DEF n
    <3>1. target <= 999
      OBVIOUS
    <3> QED BY <2>3, <3>1, SMT
  <2> HIDE DEF n
  <2>6. target * n \in Nat
    BY <2>3
  <2> QED BY <2>3, <2>4, <2>5, <2>6
<1>3. PICK m \in Scores(w) : m <= t /\ \A s \in Scores(w) : s <= t => s <= m
  BY <1>1, <1>2, GreatestBelow
<1>4. m \in Nat /\ m # Inf /\ t # Inf
  BY <1>1 DEF Inf
<1>5. ASSUME NEW u \in Scores(w), u >= m PROVE Within(w, u, target)
  <2>1. HybridFires(w, u) \subseteq HybridFires(w, t)
    <3> SUFFICES ASSUME NEW i \in I, Exceeds(w[i].score, u) PROVE Exceeds(w[i].score, t)
      BY <1>1 DEF HybridFires
    <3>1. w[i].score \in Scores(w) /\ w[i].score > u /\ u \in Nat
      BY <1>1 DEF Exceeds, Scores
    <3>2. w[i].score > m /\ w[i].score \in Nat
      BY <1>1, <1>4, <1>5, <3>1
    <3>3. ~(w[i].score <= t)
      BY <1>3, <1>4, <3>1, <3>2
    <3> QED BY <1>4, <3>2, <3>3 DEF Exceeds
  <2> QED BY <1>1, <2>1, WithinMonotone
<1>6. m \in Accepted(w, target)
  BY <1>5 DEF Accepted
<1>7. Within(w, Inf, target)
  <2>1. HybridFires(w, Inf) \subseteq HybridFires(w, t)
    BY DEF HybridFires, Exceeds
  <2> QED BY <1>1, <2>1, WithinMonotone
<1>8. Accepted(w, target) \subseteq Nat
  BY <1>1 DEF Accepted
<1>9. Least(Accepted(w, target)) \in Nat /\ Least(Accepted(w, target)) <= m
  BY <1>6, <1>8, LeastExists
<1>10. CalibrateHybrid(w, target) = Least(Accepted(w, target))
  BY <1>6, <1>7 DEF CalibrateHybrid
<1> QED BY <1>3, <1>4, <1>9, <1>10 DEF Exceeds, Inf

(* Unless the rules alone exceed the target, the calibrated threshold keeps *)
(* it.                                                                      *)
THEOREM CalibrationWithin ==
  ASSUME NEW I, NEW w \in BenignWindows(I), NEW target \in Nat, Within(w, Inf, target)
  PROVE  Within(w, CalibrateHybrid(w, target), target)
<1>1. CASE Accepted(w, target) = {}
  BY <1>1 DEF CalibrateHybrid
<1>2. CASE Accepted(w, target) # {}
  <2>1. Accepted(w, target) \subseteq Nat
    BY DEF Accepted, Scores, BenignWindows
  <2>2. Least(Accepted(w, target)) \in Accepted(w, target)
    BY <1>2, <2>1, LeastExists
  <2>3. \A s \in Accepted(w, target) :
           s \in Scores(w) /\ \A u \in Scores(w) : u >= s => Within(w, u, target)
    BY DEF Accepted
  <2>4. \A s \in Nat : s >= s
    OBVIOUS
  <2>5. Within(w, Least(Accepted(w, target)), target)
    BY <2>1, <2>2, <2>3, <2>4
  <2> QED BY <1>2, <2>5 DEF CalibrateHybrid
<1> QED BY <1>1, <1>2

-----------------------------------------------------------------------------
(* RulePort: what its counters, holds and ages stand for.                   *)
LongestHold == Max({StormHold, BurstHold})
PortCountTypes == [ulSat : 0..5, dlSat : 0..3, emptyStorm : 0..3, rachSustained : 0..2,
                   storm : 0..4, rfSusp : 0..2, rf2 : 0..5]
RolledTypes ==
  LET buffers == {b \in Seq(Nat) : Len(b) <= History}
  IN [ul : buffers, dl : buffers, cqi : buffers]

\* Both counts of the collapsed radio are of the same rows.
CountsOK == /\ counts \in PortCountTypes
            /\ counts.rfSusp = IF counts.rf2 <= 2 THEN counts.rf2 ELSE 2

\* A hold ends as long after the last evidence as it is long.
HoldsOK ==
  /\ triggers \subseteq 0..TriggerSpan /\ onTimes \subseteq 0..OnSpan
  /\ stormLeft \in Unset..StormHold /\ burstLeft \in Unset..BurstHold
  /\ calm \in 0..(LongestHold + 1)
  /\ stormLeft # Unset => stormLeft + calm <= StormHold
  /\ burstLeft # Unset => burstLeft + calm <= BurstHold
  /\ \A age \in onTimes : calm <= age

\* The time that counts for forgetting is the gap's, but for its first row.
SinceBy(gap, since) == IF gap = Unset THEN since = 0 ELSE since <= gap + Max(RowGaps)
AgesOK ==
  /\ satAge \in Unset..SatPersist /\ forgetAge \in Unset..(SatForget - 1)
  /\ sinceSat \in 0..LongestGap
  /\ satAge # Unset => SinceBy(forgetAge, sinceSat)

PortInv ==
  /\ CountsOK /\ rolled \in RolledTypes /\ HoldsOK /\ AgesOK
  /\ reported.severity \in 0..2 /\ UnnamedIsStorm /\ CalmReported

LEMMA MinOfTwo ==
  ASSUME NEW a \in Int, NEW b \in Int
  PROVE  Min({a, b}) = IF a <= b THEN a ELSE b
<1>1. \E x \in {a, b} : \A y \in {a, b} : x <= y
  OBVIOUS
<1>2. Min({a, b}) \in {a, b} /\ \A y \in {a, b} : Min({a, b}) <= y
  BY <1>1 DEF Min
<1> QED  BY <1>2

LEMMA MaxOfTwo ==
  ASSUME NEW a \in Int, NEW b \in Int
  PROVE  Max({a, b}) = IF a >= b THEN a ELSE b
<1>1. \E x \in {a, b} : \A y \in {a, b} : x >= y
  OBVIOUS
<1>2. Max({a, b}) \in {a, b} /\ \A y \in {a, b} : Max({a, b}) >= y
  BY <1>1 DEF Max
<1> QED  BY <1>2

LEMMA MinOfMany ==
  ASSUME NEW S, S \subseteq Nat, S # {}
  PROVE  Min(S) \in S
<1>1. Least(S) \in S /\ \A y \in S : Least(S) <= y
  BY LeastExists
<1> QED  BY <1>1 DEF Min

LEMMA PortConstants ==
  /\ History \in Nat \ {0} /\ TriggerSpan \in Nat \ {0} /\ StormHold \in Nat \ {0}
  /\ OnSpan \in Nat \ {0} /\ BurstHold \in Nat \ {0} /\ SatPersist \in Nat \ {0}
  /\ SatFast \in Nat \ {0} /\ SatForget \in Nat \ {0}
  /\ RowGaps \subseteq Nat \ {0}
  /\ Max(RowGaps) \in Nat \ {0} /\ \A dt \in RowGaps : dt <= Max(RowGaps)
  /\ LongestGap = SatForget + Max(RowGaps)
  /\ LongestHold \in Nat /\ LongestHold >= StormHold /\ LongestHold >= BurstHold
<1>1. /\ History \in Nat \ {0} /\ TriggerSpan \in Nat \ {0} /\ StormHold \in Nat \ {0}
      /\ OnSpan \in Nat \ {0} /\ BurstHold \in Nat \ {0} /\ SatPersist \in Nat \ {0}
      /\ SatFast \in Nat \ {0} /\ SatForget \in Nat \ {0}
      /\ RowGaps \subseteq Nat \ {0}
  BY PortAssumption
<1>2. \E gap \in RowGaps : \A dt \in RowGaps : gap >= dt
  <2>1. PICK gap \in RowGaps : \A dt \in RowGaps : dt <= gap
    BY PortAssumption
  <2>2. \A dt \in RowGaps : gap >= dt
    BY <1>1, <2>1
  <2> QED  BY <2>2
<1>3. Max(RowGaps) \in RowGaps /\ \A dt \in RowGaps : Max(RowGaps) >= dt
  BY <1>2 DEF Max
<1>4. LongestHold \in Nat /\ LongestHold >= StormHold /\ LongestHold >= BurstHold
  BY <1>1, MaxOfTwo DEF LongestHold
<1> QED  BY <1>1, <1>3, <1>4 DEF LongestGap

LEMMA PortInvInit == PortInit => PortInv
<1> SUFFICES ASSUME PortInit PROVE PortInv
  OBVIOUS
<1>1. CountsOK
  <2>1. counts = [c \in {"ulSat", "dlSat", "emptyStorm", "rachSustained", "storm", "rfSusp", "rf2"} |-> 0]
    BY DEF PortInit, Enough
  <2> QED  BY <2>1 DEF CountsOK, PortCountTypes
<1>2. rolled \in RolledTypes
  <2>1. <<>> \in Seq(Nat) /\ Len(<<>>) = 0
    BY EmptySeq
  <2> QED  BY <2>1, PortConstants DEF PortInit, RolledTypes
<1>3. HoldsOK
  BY PortConstants DEF PortInit, HoldsOK, Unset
<1>4. AgesOK
  BY PortConstants DEF PortInit, AgesOK, Unset
<1>5. reported.severity \in 0..2 /\ UnnamedIsStorm /\ CalmReported
  <2>1. reported = [severity |-> 0, alert |-> "none"]
    BY DEF PortInit
  <2> QED  BY <2>1 DEF UnnamedIsStorm, CalmReported
<1> QED  BY <1>1, <1>2, <1>3, <1>4, <1>5 DEF PortInv

\* A buffer of a row's values gets the next one, the oldest leaves.
LEMMA PushKeeps ==
  ASSUME NEW buf \in Seq(Nat), Len(buf) <= History, NEW x \in Nat
  PROVE  Push(buf, x) \in Seq(Nat) /\ Len(Push(buf, x)) <= History
<1>1. CASE Len(buf) < History
  <2>1. Append(buf, x) \in Seq(Nat) /\ Len(Append(buf, x)) = Len(buf) + 1
    BY AppendProperties
  <2> QED  BY <1>1, <2>1, PortConstants, LenProperties DEF Push
<1>2. CASE ~(Len(buf) < History)
  <2>1. Len(buf) = History /\ buf # <<>>
    <3>1. Len(<<>>) = 0
      BY EmptySeq
    <3> QED  BY <1>2, <3>1, PortConstants, LenProperties
  <2> DEFINE t == Tail(buf)
  <2>2. t \in Seq(Nat) /\ Len(t) = Len(buf) - 1
    BY <2>1, HeadTailProperties
  <2> HIDE DEF t
  <2>3. Append(t, x) \in Seq(Nat) /\ Len(Append(t, x)) = Len(t) + 1
    BY <2>2, AppendProperties
  <2>4. Len(Append(t, x)) <= History
    BY <2>1, <2>2, <2>3, PortConstants
  <2> QED  BY <1>2, <2>3, <2>4 DEF Push, t
<1> QED  BY <1>1, <1>2

\* A count goes up to the limit or starts again.
Up(n, limit) == Min({n + 1, limit})

LEMMA UpIs ==
  ASSUME NEW limit \in Nat, NEW n \in 0..limit
  PROVE  Up(n, limit) \in 0..limit /\ Up(n, limit) = IF n < limit THEN n + 1 ELSE limit
<1>1. Min({n + 1, limit}) = IF n + 1 <= limit THEN n + 1 ELSE limit
  BY MinOfTwo
<1> QED  BY <1>1 DEF Up

LEMMA CountsAre ==
  ASSUME NEW row, NEW alive
  PROVE  CountsNext(row, alive)
           = [ulSat |-> IF UlFull(row) THEN Up(counts.ulSat, 5) ELSE 0,
              dlSat |-> IF DlFull(row) THEN Up(counts.dlSat, 3) ELSE 0,
              emptyStorm |-> IF Cond3b(row) THEN Up(counts.emptyStorm, 3) ELSE 0,
              rachSustained |-> IF Cond3c(row) THEN Up(counts.rachSustained, 2) ELSE 0,
              storm |-> IF Storming(row) \/ alive THEN Up(counts.storm, 4) ELSE 0,
              rfSusp |-> IF RfCollapse(row) THEN Up(counts.rfSusp, 2) ELSE 0,
              rf2 |-> IF RfCollapse(row) THEN Up(counts.rf2, 5) ELSE 0]
BY DEF CountsNext, Up, Enough

LEMMA CountsKept ==
  ASSUME CountsOK, NEW row, NEW alive, NEW c, c = CountsNext(row, alive)
  PROVE  /\ c \in PortCountTypes /\ c.rfSusp = IF c.rf2 <= 2 THEN c.rf2 ELSE 2
         /\ ~UlFull(row) => c.ulSat = 0
         /\ ~DlFull(row) => c.dlSat = 0
         /\ ~Cond3b(row) => c.emptyStorm = 0
         /\ ~Cond3c(row) => c.rachSustained = 0
         /\ ~Storming(row) /\ ~alive => c.storm = 0
         /\ ~RfCollapse(row) => c.rf2 = 0 /\ c.rfSusp = 0
<1>1. /\ counts.ulSat \in 0..5 /\ counts.dlSat \in 0..3 /\ counts.emptyStorm \in 0..3
      /\ counts.rachSustained \in 0..2 /\ counts.storm \in 0..4
      /\ counts.rfSusp \in 0..2 /\ counts.rf2 \in 0..5
      /\ counts.rfSusp = IF counts.rf2 <= 2 THEN counts.rf2 ELSE 2
  BY DEF CountsOK, PortCountTypes
<1>2. /\ c.ulSat = IF UlFull(row) THEN Up(counts.ulSat, 5) ELSE 0
      /\ c.dlSat = IF DlFull(row) THEN Up(counts.dlSat, 3) ELSE 0
      /\ c.emptyStorm = IF Cond3b(row) THEN Up(counts.emptyStorm, 3) ELSE 0
      /\ c.rachSustained = IF Cond3c(row) THEN Up(counts.rachSustained, 2) ELSE 0
      /\ c.storm = IF Storming(row) \/ alive THEN Up(counts.storm, 4) ELSE 0
      /\ c.rfSusp = IF RfCollapse(row) THEN Up(counts.rfSusp, 2) ELSE 0
      /\ c.rf2 = IF RfCollapse(row) THEN Up(counts.rf2, 5) ELSE 0
      /\ c = [ulSat |-> c.ulSat, dlSat |-> c.dlSat, emptyStorm |-> c.emptyStorm,
              rachSustained |-> c.rachSustained, storm |-> c.storm, rfSusp |-> c.rfSusp,
              rf2 |-> c.rf2]
  BY CountsAre
<1>3. /\ Up(counts.ulSat, 5) \in 0..5 /\ Up(counts.dlSat, 3) \in 0..3
      /\ Up(counts.emptyStorm, 3) \in 0..3 /\ Up(counts.rachSustained, 2) \in 0..2
      /\ Up(counts.storm, 4) \in 0..4 /\ Up(counts.rfSusp, 2) \in 0..2
      /\ Up(counts.rf2, 5) \in 0..5
      /\ Up(counts.rfSusp, 2) = IF counts.rfSusp < 2 THEN counts.rfSusp + 1 ELSE 2
      /\ Up(counts.rf2, 5) = IF counts.rf2 < 5 THEN counts.rf2 + 1 ELSE 5
  BY <1>1, UpIs
<1>5. c.rfSusp = IF c.rf2 <= 2 THEN c.rf2 ELSE 2
  BY <1>1, <1>2, <1>3
<1>4. c \in PortCountTypes
  BY <1>2, <1>3 DEF PortCountTypes
<1> QED  BY <1>2, <1>4, <1>5

\* Rule 3e.
LEMMA StormHeld ==
  ASSUME HoldsOK, NEW row, NEW dt \in RowGaps, NEW left, left = StormLeftNext(row, dt)
  PROVE  /\ left \in Unset..StormHold
         /\ Storming(row) \/ left = Unset \/ (stormLeft # Unset /\ left = stormLeft - dt)
         /\ RecentTriggers(row, dt) \subseteq 0..TriggerSpan
<1>1. dt \in Nat \ {0} /\ StormHold \in Nat \ {0} /\ TriggerSpan \in Nat
  BY PortConstants
<1>2. stormLeft \in Unset..StormHold /\ triggers \subseteq 0..TriggerSpan
  BY DEF HoldsOK
<1>3. Expire(stormLeft, dt) \in Unset..StormHold
      /\ (\/ Expire(stormLeft, dt) = Unset
          \/ stormLeft # Unset /\ Expire(stormLeft, dt) = stormLeft - dt)
  <2> DEFINE e == Expire(stormLeft, dt)
  <2>1. e = IF stormLeft < dt THEN Unset ELSE stormLeft - dt
    BY DEF Expire
  <2> HIDE DEF e
  <2>2. stormLeft \in Int /\ stormLeft <= StormHold
    BY <1>1, <1>2 DEF Unset
  <2>3. e \in Unset..StormHold /\ (e = Unset \/ (stormLeft # Unset /\ e = stormLeft - dt))
    <3>1. CASE stormLeft < dt
      <4>1. e = Unset
        BY <2>1, <3>1
      <4>2. Unset \in Unset..StormHold
        BY <1>1 DEF Unset
      <4> QED  BY <4>1, <4>2
    <3>2. CASE ~(stormLeft < dt)
      BY <1>1, <2>1, <2>2, <3>2 DEF Unset
    <3> QED  BY <3>1, <3>2
  <2> QED  BY <2>3 DEF e
<1>4. (left = StormHold /\ Storming(row)) \/ left = Expire(stormLeft, dt)
  BY DEF StormLeftNext
<1>5. StormHold \in Unset..StormHold
  BY <1>1 DEF Unset
<1>6. RecentTriggers(row, dt) \subseteq 0..TriggerSpan
  BY <1>1, <1>2 DEF RecentTriggers, Aged
<1> QED  BY <1>3, <1>4, <1>5, <1>6

\* Rule 8; later is calm after the row.
LEMMA BurstHeld ==
  ASSUME HoldsOK, NEW row, NEW dt \in RowGaps, NEW later \in Nat, later <= calm + dt,
         BurstIsOn(row) => later = 0,
         NEW times, times = OnTimesNext(row, dt), NEW left, left = BurstLeftNext(times, dt)
  PROVE  /\ times \subseteq 0..OnSpan /\ \A age \in times : later <= age
         /\ left \in Unset..BurstHold
         /\ left # Unset => left + later <= BurstHold
<1>1. dt \in Nat \ {0} /\ BurstHold \in Nat \ {0} /\ OnSpan \in Nat /\ calm \in Nat
  <2>1. calm \in 0..(LongestHold + 1)
    BY DEF HoldsOK
  <2> QED  BY <2>1, PortConstants
<1>2. /\ burstLeft \in Unset..BurstHold /\ onTimes \subseteq 0..OnSpan
      /\ burstLeft # Unset => burstLeft + calm <= BurstHold
      /\ \A age \in onTimes : calm <= age
  BY DEF HoldsOK
<1>3. \A age \in times : age \in 0..OnSpan /\ later <= age
  <2> SUFFICES ASSUME NEW age \in times PROVE age \in 0..OnSpan /\ later <= age
    OBVIOUS
  <2>1. CASE age \in Aged(onTimes, dt, OnSpan)
    <3>1. PICK x \in onTimes : age = x + dt /\ age <= OnSpan
      BY <2>1 DEF Aged
    <3>2. x \in 0..OnSpan /\ calm <= x
      BY <1>2
    <3> QED  BY <1>1, <3>1, <3>2
  <2>2. CASE age \notin Aged(onTimes, dt, OnSpan)
    <3>1. age = 0 /\ BurstIsOn(row)
      BY <2>2 DEF OnTimesNext
    <3> QED  BY <1>1, <3>1
  <2> QED  BY <2>1, <2>2
<1> DEFINE expired == Expire(burstLeft, dt)
           again == IF Cardinality(times) >= 2 THEN BurstHold - Min(times) ELSE Unset
<1>4. expired \in Unset..BurstHold /\ (expired # Unset => expired + later <= BurstHold)
  BY <1>1, <1>2 DEF Expire, Unset
<1>5. again \in Int /\ again <= BurstHold /\ (again >= 0 => again + later <= BurstHold)
  <2>1. CASE Cardinality(times) >= 2
    <3>1. times # {}
      <4>1. Cardinality({}) = 0
        BY FS_EmptySet
      <4> QED  BY <2>1, <4>1
    <3>2. times \subseteq Nat
      BY <1>1, <1>3
    <3>3. Min(times) \in times
      BY <3>1, <3>2, MinOfMany
    <3>4. Min(times) \in Nat /\ later <= Min(times)
      BY <1>3, <3>2, <3>3
    <3>5. again = BurstHold - Min(times)
      BY <2>1
    <3> HIDE DEF again
    <3> QED  BY <1>1, <3>4, <3>5
  <2>2. CASE ~(Cardinality(times) >= 2)
    BY <1>1, <2>2 DEF Unset
  <2> QED  BY <2>1, <2>2
<1>6. left = Max({expired, again})
  BY DEF BurstLeftNext
<1> HIDE DEF expired, again
<1>7. expired \in Int
  BY <1>1, <1>4 DEF Unset
<1>8. left = IF expired >= again THEN expired ELSE again
  BY <1>5, <1>6, <1>7, MaxOfTwo
<1>9. left \in Unset..BurstHold /\ (left # Unset => left + later <= BurstHold)
  BY <1>1, <1>4, <1>5, <1>7, <1>8 DEF Unset
<1> QED  BY <1>3, <1>9

\* The alert has a name only when a rule has hit; a saturation is a full uplink or downlink.
LEMMA AlertIs ==
  ASSUME NEW row, NEW c, NEW alive \in BOOLEAN, NEW burst \in BOOLEAN,
         c \in PortCountTypes, NEW alert, alert = AlertType(row, c, alive, burst)
  PROVE  /\ alert = "none" => ~alive /\ ~burst /\ c.rfSusp < 2
         /\ c.ulSat < 5 /\ c.dlSat < 3 /\ c.emptyStorm < 3 /\ c.rachSustained < 2
            /\ ~Cond3d(row) /\ ~alive /\ c.rfSusp < 2 /\ ~burst => alert = "none"
BY DEF AlertType, PortCountTypes, Enough

SinceSatNext(alert, dt) == IF Saturated(alert) THEN 0 ELSE Min({sinceSat + dt, LongestGap})

\* Stage 2: an age runs on from saturation to saturation until it is forgotten.
LEMMA AgesKept ==
  ASSUME AgesOK, NEW dt \in RowGaps, NEW alert, NEW age, NEW gap, NEW since,
         age = SatAgeNext(alert, dt), gap = ForgetAgeNext(alert, dt),
         since = SinceSatNext(alert, dt)
  PROVE  /\ age \in Unset..SatPersist /\ gap \in Unset..SatForget /\ since \in 0..LongestGap
         /\ gap < SatForget /\ age # Unset => SinceBy(gap, since)
<1> DEFINE G == Max(RowGaps)
<1>1. /\ dt \in Nat \ {0} /\ SatPersist \in Nat \ {0} /\ SatForget \in Nat \ {0}
      /\ G \in Nat \ {0} /\ dt <= G /\ LongestGap = SatForget + G
  BY PortConstants
<1>2. /\ satAge \in Unset..SatPersist /\ forgetAge \in Unset..(SatForget - 1)
      /\ sinceSat \in 0..LongestGap
      /\ satAge # Unset => IF forgetAge = Unset THEN sinceSat = 0 ELSE sinceSat <= forgetAge + G
  BY DEF AgesOK, SinceBy
<1> HIDE DEF G
<1>3. /\ satAge \in Int /\ forgetAge \in Int /\ sinceSat \in Int /\ dt \in Int
      /\ -1 <= satAge /\ satAge <= SatPersist /\ -1 <= forgetAge /\ forgetAge <= SatForget - 1
      /\ 0 <= sinceSat /\ sinceSat <= LongestGap
  BY <1>1, <1>2 DEF Unset
<1>4. Min({satAge + dt, SatPersist}) = IF satAge + dt <= SatPersist THEN satAge + dt ELSE SatPersist
  BY <1>1, <1>3, MinOfTwo
<1>5. Min({forgetAge + dt, SatForget}) = IF forgetAge + dt <= SatForget THEN forgetAge + dt ELSE SatForget
  BY <1>1, <1>3, MinOfTwo
<1>6. Min({sinceSat + dt, LongestGap}) = IF sinceSat + dt <= LongestGap THEN sinceSat + dt ELSE LongestGap
  BY <1>1, <1>3, MinOfTwo
<1>7. CASE Saturated(alert)
  <2>1. since = 0 /\ gap = Unset
    BY <1>7 DEF ForgetAgeNext, SinceSatNext
  <2>2. age = IF satAge = Unset THEN 0 ELSE Min({satAge + dt, SatPersist})
    BY <1>7 DEF SatAgeNext, AgeNext
  <2>3. age \in Unset..SatPersist
    BY <1>1, <1>3, <1>4, <2>2 DEF Unset
  <2> QED  BY <1>1, <2>1, <2>3 DEF Unset, SinceBy
<1>8. CASE ~Saturated(alert)
  <2>1. since = Min({sinceSat + dt, LongestGap})
    BY <1>8 DEF SinceSatNext
  <2>2. since \in 0..LongestGap /\ since <= sinceSat + dt
    BY <1>1, <1>3, <1>6, <2>1
  <2>3. CASE satAge = Unset
    <3>1. age = Unset /\ gap = Unset
      BY <1>8, <2>3 DEF SatAgeNext, ForgetAgeNext
    <3> QED  BY <1>1, <2>2, <3>1 DEF Unset, SinceBy
  <2>4. CASE satAge # Unset
    <3>1. age = Min({satAge + dt, SatPersist})
          /\ gap = IF forgetAge = Unset THEN 0 ELSE Min({forgetAge + dt, SatForget})
      BY <1>8, <2>4 DEF SatAgeNext, ForgetAgeNext, AgeNext
    <3>2. age \in Unset..SatPersist
      BY <1>1, <1>3, <1>4, <3>1 DEF Unset
    <3>3. CASE forgetAge = Unset
      <4>1. gap = 0 /\ sinceSat = 0
        BY <1>2, <2>4, <3>1, <3>3
      <4>2. since <= gap + G
        BY <1>1, <1>3, <2>2, <4>1
      <4> QED  BY <1>1, <2>2, <3>2, <4>1, <4>2 DEF Unset, G, SinceBy
    <3>4. CASE forgetAge # Unset
      <4>1. gap = Min({forgetAge + dt, SatForget}) /\ sinceSat <= forgetAge + G
        BY <1>2, <2>4, <3>1, <3>4
      <4>2. gap \in 0..SatForget
        BY <1>1, <1>3, <1>5, <3>4, <4>1 DEF Unset
      <4>3. gap < SatForget => since <= gap + G
        BY <1>1, <1>3, <1>5, <2>2, <4>1
      <4>4. gap # Unset /\ gap \in Unset..SatForget
        BY <1>1, <4>2 DEF Unset
      <4> QED  BY <2>2, <3>2, <4>3, <4>4 DEF G, SinceBy
    <3> QED  BY <3>3, <3>4
  <2> QED  BY <2>3, <2>4
<1> QED  BY <1>7, <1>8

LEMMA RowKeeps ==
  ASSUME PortInv, NEW row \in Rows, NEW dt \in RowGaps, DetectRow(row, dt)
  PROVE  PortInv'
<1> DEFINE left == StormLeftNext(row, dt)
           alive == left # Unset
           c == CountsNext(row, alive)
           times == OnTimesNext(row, dt)
           held == BurstLeftNext(times, dt)
           burst == held # Unset
           alert == AlertType(row, c, alive, burst)
           critical == \/ c.storm >= 4 \/ c.rf2 >= 5
                       \/ burst /\ Cardinality(times) >= 4
                       \/ SaturationCritical(row, alert, dt)
           age == SatAgeNext(alert, dt)
           gap == ForgetAgeNext(alert, dt)
           forgotten == gap >= SatForget
           since == SinceSatNext(alert, dt)
           later == IF Evidence(row) THEN 0 ELSE Min({calm + dt, LongestHold + 1})
<1>0. RowStep(row, dt, left, times, c, held, alert)
  BY Zenon DEF DetectRow
<1>1. /\ counts' = c /\ rolled' = RolledNext(row)
      /\ triggers' = RecentTriggers(row, dt) /\ stormLeft' = left
      /\ onTimes' = times /\ burstLeft' = held
      /\ satAge' = IF forgotten THEN Unset ELSE age
      /\ forgetAge' = IF forgotten THEN Unset ELSE gap
      /\ reported' = [severity |-> IF critical THEN 2 ELSE IF alert # "none" THEN 1 ELSE 0,
                      alert |-> alert]
      /\ calm' = later /\ sinceSat' = since
  BY <1>0 DEF RowStep, Enough, LongestHold, SinceSatNext
<1>2. CountsOK /\ rolled \in RolledTypes /\ HoldsOK /\ AgesOK
  BY DEF PortInv
<1>3. dt \in Nat \ {0} /\ LongestHold \in Nat /\ LongestHold >= StormHold /\ LongestHold >= BurstHold
      /\ StormHold \in Nat \ {0} /\ BurstHold \in Nat \ {0} /\ SatForget \in Nat \ {0}
      /\ calm \in 0..(LongestHold + 1)
  BY <1>2, PortConstants DEF HoldsOK
<1>4. alive \in BOOLEAN /\ burst \in BOOLEAN
  OBVIOUS
<1>5. /\ c \in PortCountTypes /\ c.rfSusp = IF c.rf2 <= 2 THEN c.rf2 ELSE 2
      /\ ~UlFull(row) => c.ulSat = 0
      /\ ~DlFull(row) => c.dlSat = 0
      /\ ~Cond3b(row) => c.emptyStorm = 0
      /\ ~Cond3c(row) => c.rachSustained = 0
      /\ ~Storming(row) /\ ~alive => c.storm = 0
      /\ ~RfCollapse(row) => c.rf2 = 0 /\ c.rfSusp = 0
  <2> HIDE DEF alive
  <2> QED  BY <1>2, CountsKept
<1>6. later \in 0..(LongestHold + 1) /\ later <= calm + dt /\ (Evidence(row) => later = 0)
      /\ (later > LongestHold => ~Evidence(row) /\ calm + dt > LongestHold)
  <2>1. Min({calm + dt, LongestHold + 1})
          = IF calm + dt <= LongestHold + 1 THEN calm + dt ELSE LongestHold + 1
    BY <1>3, MinOfTwo
  <2>2. CASE Evidence(row)
    BY <1>3, <2>2
  <2>3. CASE ~Evidence(row)
    BY <1>3, <2>1, <2>3
  <2> QED  BY <2>2, <2>3
<1>7. /\ left \in Unset..StormHold
      /\ Storming(row) \/ left = Unset \/ (stormLeft # Unset /\ left = stormLeft - dt)
      /\ RecentTriggers(row, dt) \subseteq 0..TriggerSpan
  <2> HIDE DEF left
  <2> QED  BY <1>2, StormHeld DEF left
<1>8. left # Unset => left + later <= StormHold
  <2>1. stormLeft # Unset => stormLeft + calm <= StormHold /\ stormLeft \in Int
    BY <1>2, <1>3 DEF HoldsOK, Unset
  <2>2. left \in Int /\ left <= StormHold
    BY <1>3, <1>7 DEF Unset
  <2>3. Storming(row) => later = 0
    BY <1>6 DEF Evidence
  <2> HIDE DEF left, later
  <2>4. CASE Storming(row)
    BY <1>3, <2>2, <2>3, <2>4
  <2>5. CASE stormLeft # Unset /\ left = stormLeft - dt
    BY <1>3, <1>6, <2>1, <2>5
  <2> QED  BY <1>7, <2>4, <2>5
<1>9. /\ times \subseteq 0..OnSpan /\ \A a \in times : later <= a
      /\ held \in Unset..BurstHold
      /\ held # Unset => held + later <= BurstHold
  <2>1. later \in Nat /\ (BurstIsOn(row) => later = 0)
    BY <1>3, <1>6 DEF Evidence
  <2> HIDE DEF later, times, held
  <2>2. times = OnTimesNext(row, dt) /\ held = BurstLeftNext(times, dt)
    BY DEF times, held
  <2> QED  BY <1>2, <1>6, <2>1, <2>2, BurstHeld
<1>10. /\ age \in Unset..SatPersist /\ gap \in Unset..SatForget /\ since \in 0..LongestGap
       /\ gap < SatForget /\ age # Unset => SinceBy(gap, since)
  <2>1. /\ age = SatAgeNext(alert, dt) /\ gap = ForgetAgeNext(alert, dt)
        /\ since = SinceSatNext(alert, dt)
    OBVIOUS
  <2> HIDE DEF alert, age, gap, since
  <2> QED  BY <1>2, <2>1, AgesKept
<1>11. /\ alert = "none" => ~alive /\ ~burst /\ c.rfSusp < 2
       /\ c.ulSat < 5 /\ c.dlSat < 3 /\ c.emptyStorm < 3 /\ c.rachSustained < 2
          /\ ~Cond3d(row) /\ ~alive /\ c.rfSusp < 2 /\ ~burst => alert = "none"
  <2> HIDE DEF alive, burst, c
  <2> QED  BY <1>4, <1>5, AlertIs
<1>12. alert = "none" => ~Saturated(alert) /\ ~SaturationCritical(row, alert, dt)
  BY DEF Saturated, SaturationCritical
<1>13. CountsOK'
  <2> HIDE DEF c
  <2> QED  BY <1>1, <1>5 DEF CountsOK
<1>14. rolled' \in RolledTypes
  <2>1. row.ul \in Nat /\ row.dl \in Nat /\ row.cqi \in Nat
    BY PortAssumption
  <2>2. /\ rolled.ul \in Seq(Nat) /\ Len(rolled.ul) <= History
        /\ rolled.dl \in Seq(Nat) /\ Len(rolled.dl) <= History
        /\ rolled.cqi \in Seq(Nat) /\ Len(rolled.cqi) <= History
    BY <1>2 DEF RolledTypes
  <2>3. /\ Push(rolled.ul, row.ul) \in Seq(Nat) /\ Len(Push(rolled.ul, row.ul)) <= History
        /\ Push(rolled.dl, row.dl) \in Seq(Nat) /\ Len(Push(rolled.dl, row.dl)) <= History
        /\ Push(rolled.cqi, row.cqi) \in Seq(Nat) /\ Len(Push(rolled.cqi, row.cqi)) <= History
    BY <2>1, <2>2, PushKeeps
  <2> QED  BY <1>1, <2>3 DEF RolledNext, RolledTypes
<1> HIDE DEF left, c, times, held, alert, critical, age, gap, since, later
<1>15. HoldsOK'
  BY <1>1, <1>6, <1>7, <1>8, <1>9 DEF HoldsOK
<1>16. AgesOK'
  <2>1. CASE forgotten
    <3>1. satAge' = Unset /\ forgetAge' = Unset /\ sinceSat' = since
      BY <1>1, <2>1
    <3>2. Unset \in Unset..SatPersist /\ Unset \in Unset..(SatForget - 1)
      BY <1>3, PortConstants DEF Unset
    <3> QED  BY <1>10, <3>1, <3>2 DEF AgesOK
  <2>2. CASE ~forgotten
    <3>1. satAge' = age /\ forgetAge' = gap /\ sinceSat' = since
      BY <1>1, <2>2
    <3>2. gap \in Unset..(SatForget - 1) /\ gap < SatForget
      BY <1>3, <1>10, <2>2 DEF Unset
    <3> QED  BY <1>10, <3>1, <3>2 DEF AgesOK, SinceBy
  <2> QED  BY <2>1, <2>2
<1>17. reported'.severity = (IF critical THEN 2 ELSE IF alert # "none" THEN 1 ELSE 0)
       /\ reported'.alert = alert
  BY <1>1
<1>18. reported'.severity \in 0..2
  BY <1>17
<1>19. UnnamedIsStorm'
  <2> SUFFICES ASSUME critical, alert = "none" PROVE c.storm = 4 /\ later = 0
    BY <1>1, <1>17 DEF UnnamedIsStorm, Enough
  <2>1. ~alive /\ ~burst /\ c.rfSusp < 2 /\ ~SaturationCritical(row, alert, dt)
    BY <1>11, <1>12
  <2>2. c.rf2 \in 0..5 /\ c.storm \in 0..4
    BY <1>5 DEF PortCountTypes
  <2>3. ~(c.rf2 >= 5)
    BY <1>5, <2>1, <2>2
  <2>4. c.storm = 4
    BY <2>1, <2>2, <2>3 DEF critical
  <2>5. Storming(row)
    BY <1>5, <2>1, <2>4
  <2> QED  BY <1>6, <2>4, <2>5 DEF Evidence
<1>20. CalmReported'
  <2> SUFFICES ASSUME later > LongestHold PROVE ~critical /\ alert = "none"
    BY <1>1, <1>17 DEF CalmReported, LongestHold
  <2>1. ~Evidence(row)
    BY <1>6
  <2>2. ~alive
    <3>1. left \in Int /\ later \in Int
      BY <1>3, <1>6, <1>7 DEF Unset
    <3> QED  BY <1>3, <1>7, <1>8, <3>1 DEF Unset
  <2>3. ~burst
    <3>1. held \in Int /\ later \in Int
      BY <1>3, <1>6, <1>9 DEF Unset
    <3> QED  BY <1>3, <1>9, <3>1 DEF Unset
  <2>4. /\ c.ulSat = 0 /\ c.dlSat = 0 /\ c.emptyStorm = 0 /\ c.rachSustained = 0
        /\ c.storm = 0 /\ c.rf2 = 0 /\ c.rfSusp = 0 /\ ~Cond3d(row)
    BY <1>5, <2>1, <2>2 DEF Evidence, Storming
  <2>5. alert = "none"
    BY <1>11, <2>2, <2>3, <2>4
  <2> QED  BY <1>12, <2>3, <2>4, <2>5 DEF critical
<1> QED  BY <1>13, <1>14, <1>15, <1>16, <1>18, <1>19, <1>20 DEF PortInv

LEMMA PortInvStep == PortInv /\ [PortNext]_portVars => PortInv'
<1>1. PortInv /\ PortNext => PortInv'
  BY RowKeeps DEF PortNext
<1>2. PortInv /\ UNCHANGED portVars => PortInv'
  BY DEF portVars, PortInv, CountsOK, HoldsOK, AgesOK, SinceBy, UnnamedIsStorm, CalmReported
<1> QED  BY <1>1, <1>2

(* The port's counters, buffers, holds and ages are of their types, whatever *)
(* rows it is given (RuleBasedIDS.detect).                                   *)
THEOREM PortTypes == PortSpec => []PortTypeOK
<1>1. PortInv => PortTypeOK
  <2> SUFFICES ASSUME PortInv PROVE PortTypeOK
    OBVIOUS
  <2>1. \A c \in DOMAIN Enough : counts[c] \in 0..Enough[c]
    BY DEF PortInv, CountsOK, PortCountTypes, Enough
  <2>2. \A b \in DOMAIN rolled : Len(rolled[b]) <= History
    BY DEF PortInv, RolledTypes
  <2> QED  BY <2>1, <2>2 DEF PortInv, PortTypeOK, HoldsOK, AgesOK
<1> QED  BY <1>1, PortInvInit, PortInvStep, PTL DEF PortSpec

(* A CRITICAL without a name rests on a storm condition of the row at hand,  *)
(* the rules let go a hold after the last evidence, and a saturation's age   *)
(* holds no time from before a gap of SatForget (RuleBasedIDS.detect).       *)
THEOREM PortKeepsItsWord == PortSpec => [](UnnamedIsStorm /\ CalmReported /\ OneSaturation)
<1>1. PortInv => UnnamedIsStorm /\ CalmReported /\ OneSaturation
  <2> SUFFICES ASSUME PortInv PROVE OneSaturation
    BY DEF PortInv
  <2>1. /\ SatForget \in Nat \ {0} /\ Max(RowGaps) \in Nat \ {0}
        /\ LongestGap = SatForget + Max(RowGaps)
    BY PortConstants
  <2>2. /\ forgetAge \in Unset..(SatForget - 1) /\ sinceSat \in 0..LongestGap
        /\ satAge # Unset => IF forgetAge = Unset THEN sinceSat = 0
                             ELSE sinceSat <= forgetAge + Max(RowGaps)
    BY DEF PortInv, AgesOK, SinceBy
  <2> DEFINE G == Max(RowGaps)
  <2>3. /\ G \in Int /\ G >= 1 /\ SatForget \in Int /\ SatForget >= 1
        /\ forgetAge \in Int /\ forgetAge <= SatForget - 1 /\ sinceSat \in Int
    BY <2>1, <2>2 DEF Unset
  <2> SUFFICES ASSUME satAge # Unset PROVE sinceSat < SatForget + G
    BY <2>1 DEF OneSaturation
  <2> HIDE DEF G
  <2> QED  BY <2>2, <2>3 DEF G
<1> QED  BY <1>1, PortInvInit, PortInvStep, PTL DEF PortSpec

-----------------------------------------------------------------------------
(* Training: the steps of a script, and what each has left behind.          *)
Steps == Kinds \cup {"train", "fit"}
FileStates == [run : Int, epoch : Int, scaler : Int, threshold : {NoScript, "train", "val"},
               full : BOOLEAN]
JobStates == [script : Scripts \cup {NoScript}, todo : Seq(Steps),
              best : Loss \cup {NaN, NoLoss}, kept : 0..MaxEpochs, counter : 0..Patience,
              scaler : Int, threshold : {NoScript, "train", "val"}]

\* The steps of a script from the nth on.
Left(s, n) == SubSeq(Plan(s), n, 6)

TrainTypes ==
  /\ runs \in 0..MaxRuns /\ interrupted \subseteq Models
  /\ losses \in Seq(Loss \cup {NaN}) /\ Len(losses) <= MaxEpochs
  /\ files \in [Models \X Kinds -> FileStates]
  /\ \A f \in Models \X Kinds : files[f].run <= runs
  /\ job \in JobStates

\* Before the scaler nothing is of this run.
Fresh ==
  /\ losses = <<>> /\ job.best = NoLoss /\ job.kept = 0 /\ job.counter = 0
  /\ \A f \in Models \X Kinds : files[f].run < runs

\* In training: what is kept is the epoch with the best loss, in the file too.
Progress ==
  /\ job.kept \in 0..Len(losses) /\ job.counter <= Len(losses)
  /\ job.script \notin PerUe => job.best \in Loss \cup {NoLoss}
  /\ losses = <<>> => job.best = NoLoss
  /\ job.script \in PerUe /\ losses # <<>> =>
       LET checkpoint == files[FileOf(job.script, "checkpoint")] IN
       /\ job.kept >= 1 /\ losses[job.kept] = job.best
       /\ checkpoint.run = runs /\ checkpoint.epoch = job.kept
  /\ IF job.script \in PerUe
     THEN \A i \in SinceNaN : job.best \in Loss /\ losses[i] > job.best - MinDelta
     ELSE \A i \in DOMAIN losses :
            losses[i] # NaN => job.best \in Loss /\ losses[i] >= job.best

\* What the steps before the nth have stored is of this run.
Stored(n) ==
  /\ n > 1 =>
       IF job.script = "gru"
       THEN \E f \in {Shared, FileOf("gru", "scaler")} : files[f].run = job.scaler
       ELSE files[FileOf(job.script, "scaler")].run = runs
  /\ \A i \in 1..(n - 1) :
       /\ Plan(job.script)[i] \in {"model", "losses"} =>
            files[FileOf(job.script, Plan(job.script)[i])].run = runs
       /\ Plan(job.script)[i] = "fit" => job.threshold = "val"

AtWork(n) ==
  /\ job.script \in Scripts /\ job.todo = Left(job.script, n)
  /\ ModelOf(job.script) \in interrupted
  /\ n = 1 => Fresh
  /\ n = 2 => Progress
  /\ Stored(n)

TrainInv ==
  /\ TrainTypes /\ FilesOfOneRun /\ ScalerLostToLaterRun
  /\ \/ job = Idle /\ losses = <<>>
     \/ \E n \in 1..6 : AtWork(n)

LEMMA TrainingConstants ==
  /\ MinDelta \in Nat /\ MinDelta > 0 /\ Patience \in Nat /\ Patience > 0
  /\ MaxEpochs \in Nat /\ MaxEpochs > 0 /\ MaxRuns \in Nat /\ MaxRuns > 0
  /\ Loss \subseteq Nat /\ NaN \notin Nat
  /\ \A s \in Scripts : s \in {"lstm", "vae", "gru", "lstm_ue", "gru_ue"}
BY TrainingAssumption DEF PerUe

\* Each script begins with its scaler and its training and ends with its threshold.
LEMMA PlanIs ==
  ASSUME NEW s \in Scripts
  PROVE  /\ Plan(s) \in Seq(Steps) /\ Len(Plan(s)) = 6
         /\ Plan(s)[1] = "scaler" /\ Plan(s)[2] = "train" /\ Plan(s)[6] = "threshold"
         /\ \A i \in 3..5 : Plan(s)[i] \in {"model", "losses", "fit"}
         /\ \A x \in {"model", "losses", "fit"} : \E i \in 3..5 : Plan(s)[i] = x
         /\ ModelOf(s) \in Models
<1>1. s \in {"lstm", "vae", "gru", "lstm_ue", "gru_ue"}
  BY TrainingConstants
<1>2. ModelOf(s) \in Models
  BY <1>1 DEF ModelOf, Models
<1>3. Plan(s) \in {LstmPlan, GruPlan, LstmUePlan, GruUePlan}
  BY <1>1 DEF Plan
<1> DEFINE p == Plan(s)
<1>4. p \in Seq(Steps) /\ Len(p) = 6 /\ p[1] = "scaler" /\ p[2] = "train" /\ p[6] = "threshold"
  <2>1. /\ "scaler" \in Steps /\ "train" \in Steps /\ "model" \in Steps /\ "losses" \in Steps
        /\ "fit" \in Steps /\ "threshold" \in Steps
    BY DEF Steps, Kinds
  <2> HIDE DEF p
  <2>2. CASE p = LstmPlan
    BY <2>1, <2>2 DEF LstmPlan
  <2>3. CASE p = GruPlan
    BY <2>1, <2>3 DEF GruPlan
  <2>4. CASE p = LstmUePlan
    BY <2>1, <2>4 DEF LstmUePlan
  <2>5. CASE p = GruUePlan
    BY <2>1, <2>5 DEF GruUePlan
  <2> QED  BY <1>3, <2>2, <2>3, <2>4, <2>5 DEF p
<1>5. p[3] \in {"model", "losses"} /\ p[4] \in {"model", "losses", "fit"}
      /\ p[5] \in {"model", "losses", "fit"}
  BY <1>3 DEF LstmPlan, GruPlan, LstmUePlan, GruUePlan
<1>6. \A x \in {"model", "losses", "fit"} : p[3] = x \/ p[4] = x \/ p[5] = x
  BY <1>3 DEF LstmPlan, GruPlan, LstmUePlan, GruUePlan
<1> HIDE DEF p
<1>7. \A i \in 3..5 : i = 3 \/ i = 4 \/ i = 5
  OBVIOUS
<1> QED  BY <1>2, <1>4, <1>5, <1>6, <1>7 DEF p

LEMMA LeftIs ==
  ASSUME NEW s \in Scripts, NEW n \in 1..6
  PROVE  /\ Left(s, n) \in Seq(Steps) /\ Left(s, n) # <<>> /\ Head(Left(s, n)) = Plan(s)[n]
         /\ n < 6 => Tail(Left(s, n)) = Left(s, n + 1)
         /\ n = 6 => Tail(Left(s, n)) = <<>>
         /\ Left(s, 1) = Plan(s)
<1> DEFINE p == Plan(s)
           m == 6
<1>1. p \in Seq(Steps) /\ Len(p) = m /\ n \in 1..m /\ m \in n..m
  BY PlanIs
<1> HIDE DEF p, m
<1>2. \A i \in n..m : p[i] \in Steps
  BY <1>1, ElementOfSeq
<1>3. /\ SubSeq(p, n, m) \in Seq(Steps) /\ Len(SubSeq(p, n, m)) > 0
  <2>1. n \in Int /\ m \in Int /\ n <= m
    BY <1>1 DEF m
  <2> QED  BY <1>2, <2>1, SubSeqProperties
<1>4. Head(SubSeq(p, n, m)) = p[n] /\ Tail(SubSeq(p, n, m)) = SubSeq(p, n + 1, m)
  <2>1. n \in 1..Len(p) /\ m \in n..Len(p)
    BY <1>1
  <2> QED  BY <1>1, <2>1, HeadTailOfSubSeq
<1>5. SubSeq(p, 7, m) = <<>>
  BY SubSeqEmpty DEF m
<1>6. SubSeq(p, 1, m) = p
  BY <1>1, SubSeqFull
<1>7. SubSeq(p, n, m) # <<>>
  <2> DEFINE q == SubSeq(p, n, m)
  <2>1. q \in Seq(Steps) /\ Len(q) > 0
    BY <1>3
  <2> HIDE DEF q
  <2>2. q # <<>>
    BY <2>1
  <2> QED  BY <2>2 DEF q
<1>8. Left(s, n) = SubSeq(p, n, m) /\ Left(s, n + 1) = SubSeq(p, n + 1, m)
      /\ Left(s, 1) = SubSeq(p, 1, m)
  BY DEF Left, p, m
<1>9. n = 6 => n + 1 = 7
  OBVIOUS
<1> QED  BY <1>3, <1>4, <1>5, <1>6, <1>7, <1>8, <1>9 DEF p

\* At work on its nth step, a script does that step and no other.
LEMMA AtIs ==
  ASSUME NEW n \in 1..6, AtWork(n)
  PROVE  /\ \A x : At(x) <=> x = Plan(job.script)[n]
         /\ job # Idle
<1>1. /\ job.script \in Scripts /\ job.todo = Left(job.script, n)
  BY DEF AtWork
<1>2. job.todo # <<>> /\ Head(job.todo) = Plan(job.script)[n]
  BY <1>1, LeftIs
<1> QED  BY <1>2 DEF At, Idle

LEMMA StepIs ==
  ASSUME NEW n \in 1..6, NEW s \in Scripts
  PROVE  /\ Plan(s)[n] = "scaler" <=> n = 1
         /\ Plan(s)[n] = "train" <=> n = 2
         /\ Plan(s)[n] = "threshold" <=> n = 6
         /\ Plan(s)[n] \in {"model", "losses", "fit"} <=> n \in 3..5
<1> DEFINE p == Plan(s)
<1>1. /\ p[1] = "scaler" /\ p[2] = "train" /\ p[6] = "threshold"
      /\ \A i \in 3..5 : p[i] \in {"model", "losses", "fit"}
  BY PlanIs
<1> HIDE DEF p
<1>2. n = 1 \/ n = 2 \/ n = 6 \/ n \in 3..5
  OBVIOUS
<1> QED  BY <1>1, <1>2 DEF p

\* The files of the other models stay as they are.
OthersKept(m) == \A n \in Models, k \in Kinds : n # m => files'[<<n, k>>] = files[<<n, k>>]

LEMMA OthersInOrder ==
  ASSUME NEW m \in Models, FilesOfOneRun, m \in interrupted',
         interrupted \subseteq interrupted', OthersKept(m)
  PROVE  FilesOfOneRun'
<1> SUFFICES ASSUME NEW n \in Models, n \notin interrupted'
             PROVE  /\ files'[<<n, "losses">>].run = files'[<<n, "model">>].run
                    /\ files'[<<n, "threshold">>].run = files'[<<n, "model">>].run
                    /\ n # "cell_gru" =>
                         files'[<<n, "scaler">>].run = files'[<<n, "model">>].run
                    /\ files'[<<n, "model">>].run > 0 =>
                         files'[<<n, "threshold">>].threshold = "val"
  BY DEF FilesOfOneRun
<1>1. n # m /\ n \notin interrupted
  OBVIOUS
<1>2. \A k \in {"losses", "model", "threshold", "scaler"} : files'[<<n, k>>] = files[<<n, k>>]
  BY <1>1 DEF OthersKept, Kinds
<1>3. /\ files[<<n, "losses">>].run = files[<<n, "model">>].run
      /\ files[<<n, "threshold">>].run = files[<<n, "model">>].run
      /\ n # "cell_gru" => files[<<n, "scaler">>].run = files[<<n, "model">>].run
      /\ files[<<n, "model">>].run > 0 => files[<<n, "threshold">>].threshold = "val"
  BY <1>1 DEF FilesOfOneRun
<1> QED  BY <1>2, <1>3

\* What a step writes to a file.
ScalerFile(a, full) == [Missing EXCEPT !.run = a, !.full = full]
CheckpointFile(a, b) == [Missing EXCEPT !.run = a, !.epoch = b]
LEMMA FileIs ==
  ASSUME NEW a \in Int, NEW b \in Int
  PROVE  /\ CheckpointFile(a, b) \in FileStates /\ CheckpointFile(a, b).run = a
         /\ CheckpointFile(a, b).epoch = b
         /\ \A full \in BOOLEAN : ScalerFile(a, full) \in FileStates /\ ScalerFile(a, full).run = a
<1> DEFINE x == [Missing EXCEPT !.run = a]
<1>1. Missing \in FileStates
  BY DEF Missing, FileStates
<1>2. x \in FileStates /\ x.run = a
  BY <1>1 DEF FileStates
<1> HIDE DEF x
<1>3. ASSUME NEW full \in BOOLEAN
      PROVE  [x EXCEPT !.full = full] \in FileStates /\ [x EXCEPT !.full = full].run = a
  BY <1>2 DEF FileStates
<1>4. /\ [x EXCEPT !.epoch = b] \in FileStates /\ [x EXCEPT !.epoch = b].run = a
      /\ [x EXCEPT !.epoch = b].epoch = b
  BY <1>2 DEF FileStates
<1> QED  BY <1>3, <1>4 DEF x, ScalerFile, CheckpointFile

LEMMA TrainInvInit == TrainInit => TrainInv
<1> SUFFICES ASSUME TrainInit PROVE TrainInv
  OBVIOUS
<1>1. /\ job = Idle /\ losses = <<>> /\ runs = 0 /\ interrupted = {}
      /\ files = [f \in Models \X Kinds |-> Missing]
  BY DEF TrainInit
<1>2. /\ Missing \in FileStates /\ Missing.run = 0 /\ Missing.threshold = NoScript
  BY DEF Missing, FileStates, NoScript
<1>3. Idle \in JobStates
  BY TrainingConstants, EmptySeq DEF Idle, JobStates, NoScript
<1>4. TrainTypes
  BY <1>1, <1>2, <1>3, TrainingConstants DEF TrainTypes
<1>5. \A m \in Models, k \in Kinds : files[<<m, k>>].run = 0
  BY <1>1, <1>2
<1>6. FilesOfOneRun
  <2>1. \A k \in {"losses", "model", "threshold", "scaler"} : k \in Kinds
    BY DEF Kinds
  <2> QED  BY <1>5, <2>1 DEF FilesOfOneRun
<1>7. ScalerLostToLaterRun
  BY <1>5 DEF ScalerLostToLaterRun, Models, Kinds
<1> QED  BY <1>1, <1>4, <1>6, <1>7 DEF TrainInv

\* A script begins: everything in the files is of earlier runs.
LEMMA BeginKeeps ==
  ASSUME TrainInv, NEW s \in Scripts, Begin(s)
  PROVE  TrainInv'
<1>1. /\ job = Idle /\ runs < MaxRuns /\ runs' = runs + 1
      /\ job' = [Idle EXCEPT !.script = s, !.todo = Plan(s)]
      /\ interrupted' = interrupted \cup {ModelOf(s)}
      /\ losses' = losses /\ files' = files
  BY DEF Begin
<1>2. losses = <<>>
  <2>1. \A n \in 1..6 : ~AtWork(n)
    BY <1>1, AtIs
  <2> QED  BY <2>1 DEF TrainInv
<1>3. job' = [script |-> s, todo |-> Plan(s), best |-> NoLoss, kept |-> 0, counter |-> 0,
              scaler |-> 0, threshold |-> NoScript]
  BY <1>1 DEF Idle
<1>4. Plan(s) \in Seq(Steps) /\ ModelOf(s) \in Models /\ Plan(s) = Left(s, 1)
  BY PlanIs, LeftIs
<1>5. runs' \in 0..MaxRuns /\ runs \in Nat
  BY <1>1, TrainingConstants DEF TrainInv, TrainTypes
<1>6. \A f \in Models \X Kinds : files'[f].run < runs'
  BY <1>1, <1>5 DEF TrainInv, TrainTypes, FileStates
<1>7. TrainTypes'
  <2>1. job' \in JobStates
    BY <1>3, <1>4, TrainingConstants DEF JobStates
  <2>2. \A f \in Models \X Kinds : files'[f].run <= runs'
    BY <1>1, <1>5 DEF TrainInv, TrainTypes, FileStates
  <2> QED  BY <1>1, <1>4, <1>5, <2>1, <2>2 DEF TrainInv, TrainTypes
<1>8. FilesOfOneRun'
  BY <1>1, <1>4, OthersInOrder DEF OthersKept, TrainInv
<1>9. ScalerLostToLaterRun'
  BY <1>1 DEF ScalerLostToLaterRun, TrainInv
<1>10. AtWork(1)'
  <2>1. /\ job'.script = s /\ job'.todo = Left(s, 1) /\ job'.best = NoLoss /\ job'.kept = 0
        /\ job'.counter = 0
    BY <1>3, <1>4
  <2>2. Fresh'
    BY <1>1, <1>2, <1>6, <2>1 DEF Fresh
  <2>3. Stored(1)'
    BY DEF Stored
  <2>4. ModelOf(s) \in interrupted'
    BY <1>1
  <2> QED  BY <2>1, <2>2, <2>3, <2>4 DEF AtWork
<1> QED  BY <1>7, <1>8, <1>9, <1>10 DEF TrainInv

\* What a step from 2 on needs to keep what was stored before it.
LEMMA StoredNext ==
  ASSUME TrainTypes, NEW n \in 2..5, AtWork(n), NEW w \in {"model", "losses", "fit", "train"},
         w = Plan(job.script)[n],
         runs' = runs, job'.script = job.script, job'.scaler = job.scaler,
         \A f \in Models \X Kinds : f # FileOf(job.script, w) => files'[f] = files[f],
         w \in {"model", "losses"} => files'[FileOf(job.script, w)].run = runs,
         w = "fit" => job'.threshold = "val",
         n > 2 /\ job.threshold = "val" => job'.threshold = "val"
  PROVE  Stored(n + 1)'
<1> DEFINE s == job.script
           p == Plan(s)
<1>1. /\ s \in Scripts /\ Stored(n) /\ ModelOf(s) \in Models
  BY PlanIs DEF AtWork
<1>2. Plan(job'.script) = p /\ FileOf(job'.script, "scaler") = FileOf(s, "scaler")
      /\ \A k : FileOf(job'.script, k) = FileOf(s, k)
  OBVIOUS
<1>3. \A k \in Kinds : k # w => files'[FileOf(s, k)] = files[FileOf(s, k)]
  BY <1>1 DEF FileOf
<1>4. w # "scaler" /\ "scaler" \in Kinds /\ "model" \in Kinds /\ "losses" \in Kinds
  BY DEF Kinds
<1>5. files'[FileOf(s, "scaler")] = files[FileOf(s, "scaler")]
      /\ files'[Shared] = files[Shared] /\ files'[FileOf("gru", "scaler")] = files[FileOf("gru", "scaler")]
  <2>1. Shared # FileOf(s, w) /\ FileOf("gru", "scaler") # FileOf(s, w)
        /\ Shared \in Models \X Kinds /\ FileOf("gru", "scaler") \in Models \X Kinds
    BY <1>4 DEF Shared, FileOf, Models, ModelOf
  <2> QED  BY <1>3, <1>4, <2>1
<1>6. IF job'.script = "gru"
      THEN \E f \in {Shared, FileOf("gru", "scaler")} : files'[f].run = job'.scaler
      ELSE files'[FileOf(job'.script, "scaler")].run = runs'
  BY <1>1, <1>5 DEF Stored
<1>7. ASSUME NEW i \in 1..((n + 1) - 1)
      PROVE  /\ p[i] \in {"model", "losses"} => files'[FileOf(s, p[i])].run = runs'
             /\ p[i] = "fit" => job'.threshold = "val"
  <2>1. CASE i = n
    BY <2>1
  <2>2. CASE i # n
    <3>1. i \in 1..(n - 1)
      BY <2>2
    <3>2. /\ p[i] \in {"model", "losses"} => files[FileOf(s, p[i])].run = runs
          /\ p[i] = "fit" => job.threshold = "val"
      BY <1>1, <3>1 DEF Stored
    <3>3. p[i] = "fit" => n > 2
      <4>1. CASE n = 2
        <5>1. i = 1
          BY <3>1, <4>1
        <5> QED  BY <1>1, <5>1, PlanIs
      <4> QED  BY <4>1
    <3>4. p[i] \in {"model", "losses"} => files'[FileOf(s, p[i])].run = runs
      BY <1>3, <1>4, <3>2
    <3> QED  BY <3>2, <3>3, <3>4
  <2> QED  BY <2>1, <2>2
<1> QED  BY <1>2, <1>6, <1>7 DEF Stored

\* The scaler of the cell GRU, when neither scaler is touched.
LEMMA ScalerKept ==
  ASSUME ScalerLostToLaterRun, files'[Shared] = files[Shared],
         files'[<<"cell_gru", "scaler">>] = files[<<"cell_gru", "scaler">>],
         files'[<<"cell_gru", "model">>] = files[<<"cell_gru", "model">>]
  PROVE  ScalerLostToLaterRun'
BY DEF ScalerLostToLaterRun, Shared

\* The end of training does not touch the files.
LEMMA RestoreKeeps ==
  ASSUME TrainInv, NEW n \in 1..6, AtWork(n), RestoreBest
  PROVE  TrainInv'
<1> DEFINE s == job.script
<1>1. /\ At("train") /\ Trained
      /\ job' = [job EXCEPT !.todo = Tail(@), !.kept = RestoredEpoch,
                            !.threshold = IF job.script = "lstm" THEN "train" ELSE NoScript]
      /\ losses' = losses /\ files' = files /\ runs' = runs /\ interrupted' = interrupted
  BY DEF RestoreBest
<1>2. s \in Scripts /\ job.todo = Left(s, n) /\ ModelOf(s) \in interrupted
  BY DEF AtWork
<1>3. n = 2
  BY <1>1, <1>2, AtIs, StepIs
<1>4. Tail(job.todo) = Left(s, 3) /\ Left(s, 3) \in Seq(Steps)
  <2>1. 2 \in 1..6 /\ 3 \in 1..6 /\ 2 + 1 = 3 /\ 2 < 6
    OBVIOUS
  <2>2. Tail(Left(s, 2)) = Left(s, 3)
    BY <1>2, <2>1, LeftIs
  <2>3. Left(s, 3) \in Seq(Steps)
    BY <1>2, <2>1, LeftIs
  <2> QED  BY <1>2, <1>3, <2>2, <2>3
<1>5. Progress /\ job \in JobStates /\ Len(losses) \in 0..MaxEpochs
  <2>1. Len(losses) \in Nat
    BY LenProperties DEF TrainInv, TrainTypes
  <2> QED  BY <1>3, <2>1, TrainingConstants DEF AtWork, TrainInv, TrainTypes
<1>6. RestoredEpoch \in 0..MaxEpochs
  <2>1. CASE job.script \in PerUe
    <3>1. losses # <<>>
      <4>1. Len(losses) = MaxEpochs \/ job.counter >= Patience
        BY <1>1 DEF Trained, StopsEarly
      <4>2. Len(losses) > 0
        BY <1>5, <4>1, TrainingConstants DEF Progress, JobStates
      <4> QED  BY <4>2
    <3> QED  BY <2>1, <3>1, <1>5 DEF Progress, RestoredEpoch, JobStates
  <2>2. CASE job.script \notin PerUe
    BY <2>2, <1>5 DEF RestoredEpoch, JobStates
  <2> QED  BY <2>1, <2>2
<1>7. job' \in JobStates /\ job'.script = s /\ job'.todo = Left(s, 3) /\ job'.scaler = job.scaler
  BY <1>1, <1>4, <1>5, <1>6 DEF JobStates
<1>8. TrainTypes'
  BY <1>1, <1>7 DEF TrainTypes, TrainInv
<1>9. FilesOfOneRun' /\ ScalerLostToLaterRun'
  BY <1>1 DEF TrainInv, FilesOfOneRun, ScalerLostToLaterRun
<1>10. Stored(3)'
  <2>1. n \in 2..5 /\ "train" = Plan(s)[n]
    BY <1>2, <1>3, PlanIs
  <2>2. Stored(n + 1)'
    BY <1>1, <1>3, <1>7, <2>1, StoredNext DEF TrainInv
  <2> QED  BY <1>3, <2>2
<1>11. AtWork(3)'
  BY <1>1, <1>2, <1>7, <1>10 DEF AtWork
<1> QED  BY <1>8, <1>9, <1>11 DEF TrainInv

LEMMA FitKeeps ==
  ASSUME TrainInv, NEW n \in 1..6, AtWork(n), FitThreshold
  PROVE  TrainInv'
<1> DEFINE s == job.script
<1>1. /\ At("fit") /\ job' = [job EXCEPT !.todo = Tail(@), !.threshold = "val"]
      /\ losses' = losses /\ files' = files /\ runs' = runs /\ interrupted' = interrupted
  BY DEF FitThreshold
<1>2. s \in Scripts /\ job.todo = Left(s, n) /\ ModelOf(s) \in interrupted /\ job \in JobStates
  BY DEF AtWork, TrainInv, TrainTypes
<1>3. n \in 3..5 /\ Plan(s)[n] = "fit"
  BY <1>1, <1>2, AtIs, StepIs
<1>4. Tail(job.todo) = Left(s, n + 1) /\ Left(s, n + 1) \in Seq(Steps) /\ n + 1 \in 4..6
  <2>1. n < 6 /\ n + 1 \in 1..6 /\ n + 1 \in 4..6
    BY <1>3
  <2>2. Tail(Left(s, n)) = Left(s, n + 1)
    BY <1>2, <2>1, LeftIs
  <2>3. Left(s, n + 1) \in Seq(Steps)
    BY <1>2, <2>1, LeftIs
  <2> QED  BY <1>2, <2>1, <2>2, <2>3
<1>5. /\ job' \in JobStates /\ job'.script = s /\ job'.todo = Left(s, n + 1)
      /\ job'.scaler = job.scaler /\ job'.threshold = "val"
  BY <1>1, <1>2, <1>4 DEF JobStates
<1>6. TrainTypes'
  BY <1>1, <1>5 DEF TrainTypes, TrainInv
<1>7. FilesOfOneRun' /\ ScalerLostToLaterRun'
  BY <1>1 DEF TrainInv, FilesOfOneRun, ScalerLostToLaterRun
<1>8. Stored(n + 1)'
  <2>1. n \in 2..5 /\ "fit" = Plan(s)[n]
    BY <1>3
  <2> QED  BY <1>1, <1>5, <2>1, StoredNext DEF TrainInv
<1>9. AtWork(n + 1)'
  BY <1>1, <1>2, <1>4, <1>5, <1>8 DEF AtWork
<1> QED  BY <1>4, <1>6, <1>7, <1>9 DEF TrainInv

\* The files a script writes are files, and of this run.
LEMMA WriteTypes ==
  ASSUME TrainTypes, NEW g \in Models \X Kinds, NEW r \in FileStates, r.run <= runs,
         files' = [files EXCEPT ![g] = r], runs' = runs
  PROVE  /\ files' \in [Models \X Kinds -> FileStates]
         /\ \A f \in Models \X Kinds : files'[f].run <= runs'
         /\ files'[g] = r
         /\ \A f \in Models \X Kinds : f # g => files'[f] = files[f]
<1>1. files \in [Models \X Kinds -> FileStates]
  BY DEF TrainTypes
<1>2. /\ files' \in [Models \X Kinds -> FileStates]  /\ files'[g] = r
      /\ \A f \in Models \X Kinds : f # g => files'[f] = files[f]
  <2> HIDE DEF FileStates
  <2> QED  BY <1>1
<1>3. ASSUME NEW f \in Models \X Kinds PROVE files'[f].run <= runs'
  BY <1>2 DEF TrainTypes
<1> QED  BY <1>2, <1>3

LEMMA ScalerStep ==
  ASSUME TrainInv, NEW n \in 1..6, AtWork(n), NEW full \in BOOLEAN,
         FitScaler(full) \/ ReuseScaler
  PROVE  TrainInv'
<1> DEFINE s == job.script
           own == FileOf(s, "scaler")
<1>1. s \in Scripts /\ job.todo = Left(s, n) /\ ModelOf(s) \in interrupted /\ job \in JobStates
  BY DEF AtWork, TrainInv, TrainTypes
<1>2. At("scaler")
  BY DEF FitScaler, ReuseScaler
<1>3. n = 1 /\ Fresh
  <2>1. n = 1
    BY <1>1, <1>2, AtIs, StepIs
  <2> QED  BY <2>1 DEF AtWork
<1>4. Tail(job.todo) = Left(s, 2) /\ Left(s, 2) \in Seq(Steps)
  BY <1>1, <1>3, LeftIs
<1>5. /\ losses' = losses /\ runs' = runs /\ interrupted' = interrupted /\ losses = <<>>
      /\ job' = [job EXCEPT !.todo = Tail(@), !.scaler = job'.scaler]
  BY <1>1, <1>3 DEF FitScaler, ReuseScaler, Fresh, JobStates
<1>6. own \in Models \X Kinds /\ Shared \in Models \X Kinds
      /\ <<"cell_gru", "scaler">> \in Models \X Kinds /\ <<"cell_gru", "model">> \in Models \X Kinds
  <2>1. ModelOf(s) \in Models
    BY <1>1, PlanIs
  <2> QED  BY <2>1 DEF FileOf, Shared, Models, Kinds
<1>7. /\ files' \in [Models \X Kinds -> FileStates]
      /\ \A f \in Models \X Kinds : files'[f].run <= runs'
      /\ \A f \in Models \X Kinds : f # own => files'[f] = files[f]
      /\ files'[own] = files[own] \/ files'[own].run = runs
      /\ job'.scaler \in Int
      /\ IF s = "gru" THEN \E f \in {Shared, <<"cell_gru", "scaler">>} : files'[f].run = job'.scaler
                      ELSE files'[own].run = runs
  <2>1. CASE FitScaler(full)
    <3> DEFINE r == [Missing EXCEPT !.run = runs, !.full = full]
    <3>1. files' = [files EXCEPT ![own] = r] /\ job'.scaler = runs
      BY <1>1, <2>1 DEF FitScaler, JobStates
    <3>2. r \in FileStates /\ r.run = runs /\ r.run <= runs
      <4>1. runs \in Int /\ runs <= runs
        BY DEF TrainInv, TrainTypes
      <4>2. r = ScalerFile(runs, full) /\ 0 \in Int
        BY DEF ScalerFile
      <4> HIDE DEF r
      <4> QED  BY <4>1, <4>2, FileIs
    <3> HIDE DEF r, own
    <3>3. /\ files' \in [Models \X Kinds -> FileStates]
          /\ \A f \in Models \X Kinds : files'[f].run <= runs'
          /\ files'[own] = r
          /\ \A f \in Models \X Kinds : f # own => files'[f] = files[f]
      BY <1>5, <1>6, <3>1, <3>2, WriteTypes DEF TrainInv
    <3>4. s = "gru" => own = <<"cell_gru", "scaler">>
      BY DEF own, FileOf, ModelOf
    <3>5. job'.scaler \in Int
      BY <3>1 DEF TrainInv, TrainTypes
    <3> QED  BY <3>1, <3>2, <3>3, <3>4, <3>5
  <2>2. CASE ReuseScaler
    <3>1. s = "gru" /\ files' = files /\ job'.scaler = files[Shared].run
      BY <1>1, <2>2 DEF ReuseScaler, Reusable, Missing, JobStates
    <3>2. files[Shared] \in FileStates
      BY <1>6 DEF TrainInv, TrainTypes
    <3> QED  BY <1>5, <3>1, <3>2 DEF TrainInv, TrainTypes, FileStates
  <2> QED  BY <2>1, <2>2
<1>8. /\ job' \in JobStates /\ job'.script = s /\ job'.todo = Left(s, 2) /\ job'.best = NoLoss
      /\ job'.kept = 0 /\ job'.counter = 0
  <2> DEFINE x == job'.scaler
  <2>1. x \in Int /\ job' = [job EXCEPT !.todo = Left(s, 2), !.scaler = x]
    BY <1>1, <1>4, <1>5, <1>7
  <2> HIDE DEF x
  <2> QED  BY <1>1, <1>3, <1>4, <2>1 DEF JobStates, Fresh
<1>9. TrainTypes'
  BY <1>5, <1>7, <1>8 DEF TrainInv, TrainTypes
<1>10. OthersKept(ModelOf(s)) /\ ModelOf(s) \in Models
  BY <1>1, <1>7, PlanIs DEF OthersKept, FileOf
<1>11. FilesOfOneRun'
  BY <1>1, <1>5, <1>10, OthersInOrder DEF TrainInv
<1>12. ScalerLostToLaterRun'
  <2> DEFINE gru == files[<<"cell_gru", "model">>]
  <2>1. files'[<<"cell_gru", "model">>] = gru
    BY <1>6, <1>7 DEF FileOf
  <2>2. gru.run < runs
    BY <1>3, <1>6 DEF Fresh
  <2> SUFFICES ASSUME gru.run > 0
               PROVE  \E f \in {files'[Shared], files'[<<"cell_gru", "scaler">>]} :
                         f.run = gru.scaler \/ f = Torn \/ f.run > gru.run
    BY <2>1 DEF ScalerLostToLaterRun, Shared
  <2>3. PICK g \in {Shared, <<"cell_gru", "scaler">>} :
          files[g].run = gru.scaler \/ files[g] = Torn \/ files[g].run > gru.run
    BY DEF ScalerLostToLaterRun, TrainInv
  <2>4. CASE g # own
    <3>1. files'[g] = files[g]
      BY <1>6, <1>7, <2>3, <2>4
    <3> QED  BY <2>3, <3>1
  <2>5. CASE g = own
    <3>1. files'[g] = files[g] \/ files'[g].run = runs
      BY <1>7, <2>5
    <3>2. gru.run \in Int /\ runs \in Int
      BY <1>6 DEF TrainInv, TrainTypes, FileStates
    <3>3. files'[g].run = runs => files'[g].run > gru.run
      BY <2>2, <3>2
    <3> HIDE DEF gru
    <3> QED  BY <2>3, <3>1, <3>3
  <2> QED  BY <2>4, <2>5
<1>13. Progress'
  <2>1. Len(losses') = 0 /\ DOMAIN losses' = {} /\ losses' = <<>> /\ job'.counter = 0 /\ job'.kept = 0
        /\ job'.best = NoLoss
    BY <1>5, <1>8
  <2>2. SinceNaN' = {}
    BY <2>1 DEF SinceNaN
  <2> QED  BY <2>1, <2>2 DEF Progress
<1>14. Stored(2)'
  <2>1. \A i \in 1..(2 - 1) : Plan(job'.script)[i] = "scaler"
    BY <1>1, <1>8, PlanIs
  <2>2. FileOf("gru", "scaler") = <<"cell_gru", "scaler">>
    BY DEF FileOf, ModelOf
  <2>3. IF s = "gru"
        THEN \E f \in {Shared, FileOf("gru", "scaler")} : files'[f].run = job'.scaler
        ELSE files'[FileOf(s, "scaler")].run = runs'
    BY <1>5, <1>7, <2>2
  <2> QED  BY <1>8, <2>1, <2>3 DEF Stored
<1>15. AtWork(2)'
  BY <1>1, <1>5, <1>8, <1>13, <1>14 DEF AtWork
<1> QED  BY <1>9, <1>11, <1>12, <1>15 DEF TrainInv

\* An epoch: only a checkpoint is written, and it is the best so far.
LEMMA EpochKeeps ==
  ASSUME TrainInv, NEW n \in 1..6, AtWork(n), NEW v \in Loss \cup {NaN}, Epoch(v)
  PROVE  TrainInv'
<1> DEFINE s == job.script
           len == Len(losses)
           checkpoint == FileOf(s, "checkpoint")
<1>1. s \in Scripts /\ job.todo = Left(s, n) /\ ModelOf(s) \in interrupted /\ job \in JobStates
  BY DEF AtWork, TrainInv, TrainTypes
<1>2. /\ At("train") /\ ~Trained /\ losses' = Append(losses, v)
      /\ runs' = runs /\ interrupted' = interrupted
      /\ job' = IF Improves(v)
                THEN [job EXCEPT !.best = v, !.kept = Len(losses) + 1, !.counter = 0]
                ELSE [job EXCEPT !.counter = IF job.script \in PerUe THEN @ + 1 ELSE 0]
      /\ files' = IF Saves(v)
                  THEN [files EXCEPT ![checkpoint] =
                          [Missing EXCEPT !.run = runs, !.epoch = Len(losses) + 1]]
                  ELSE files
  BY DEF Epoch
<1>3. n = 2 /\ Progress /\ Stored(2)
  <2>1. n = 2
    BY <1>1, <1>2, AtIs, StepIs
  <2> QED  BY <2>1 DEF AtWork
<1>4. /\ len \in Nat /\ losses \in Seq(Loss \cup {NaN}) /\ len < MaxEpochs /\ len + 1 \in 1..MaxEpochs
      /\ s \in PerUe => job.counter < Patience
  <2>1. len \in Nat /\ losses \in Seq(Loss \cup {NaN}) /\ len <= MaxEpochs
    BY LenProperties DEF TrainInv, TrainTypes
  <2>2. len # MaxEpochs /\ (s \in PerUe => ~(job.counter >= Patience))
    BY <1>2 DEF Trained, StopsEarly
  <2>3. job.counter \in Nat
    BY <1>1 DEF JobStates
  <2> HIDE DEF len
  <2> QED  BY <2>1, <2>2, <2>3, TrainingConstants
<1>5. /\ losses' \in Seq(Loss \cup {NaN}) /\ Len(losses') = len + 1 /\ losses'[len + 1] = v
      /\ \A i \in 1..len : losses'[i] = losses[i]
      /\ losses' # <<>>
  <2>1. /\ losses' \in Seq(Loss \cup {NaN}) /\ Len(losses') = len + 1 /\ losses'[len + 1] = v
        /\ \A i \in 1..len : losses'[i] = losses[i]
    BY <1>2, <1>4, AppendProperties
  <2> HIDE DEF len
  <2>2. Len(losses') # 0
    BY <1>4, <2>1
  <2> QED  BY <2>1, <2>2
<1> HIDE DEF len
<1>6. checkpoint \in Models \X Kinds
  <2>1. ModelOf(s) \in Models
    BY <1>1, PlanIs
  <2> QED  BY <2>1 DEF FileOf, Kinds
<1>7. /\ files' \in [Models \X Kinds -> FileStates]
      /\ \A f \in Models \X Kinds : files'[f].run <= runs'
      /\ \A f \in Models \X Kinds : f # checkpoint => files'[f] = files[f]
      /\ IF Saves(v) THEN files'[checkpoint].run = runs /\ files'[checkpoint].epoch = len + 1
         ELSE files' = files
  <2>1. CASE Saves(v)
    <3> DEFINE r == [Missing EXCEPT !.run = runs, !.epoch = len + 1]
    <3>1. files' = [files EXCEPT ![checkpoint] = r]
      BY <1>2, <2>1 DEF len
    <3>2. r \in FileStates /\ r.run = runs /\ r.run <= runs /\ r.epoch = len + 1
      <4>1. runs \in Int /\ runs <= runs
        BY DEF TrainInv, TrainTypes
      <4> DEFINE k == len + 1
      <4>2. k \in Int /\ r = CheckpointFile(runs, k)
        BY <1>4 DEF CheckpointFile
      <4> HIDE DEF k, r
      <4>4. r \in FileStates /\ r.run = runs /\ r.epoch = k
        BY <4>1, <4>2, FileIs
      <4> QED  BY <4>1, <4>4 DEF k
    <3> HIDE DEF r, checkpoint
    <3>3. /\ files' \in [Models \X Kinds -> FileStates]
          /\ \A f \in Models \X Kinds : files'[f].run <= runs'
          /\ files'[checkpoint] = r
          /\ \A f \in Models \X Kinds : f # checkpoint => files'[f] = files[f]
      BY <1>2, <1>6, <3>1, <3>2, WriteTypes DEF TrainInv
    <3> QED  BY <2>1, <3>2, <3>3
  <2>2. CASE ~Saves(v)
    BY <1>2, <2>2 DEF TrainInv, TrainTypes
  <2> QED  BY <2>1, <2>2
<1>8. /\ job' \in JobStates /\ job'.script = s /\ job'.todo = job.todo /\ job'.scaler = job.scaler
      /\ job'.counter \in 0..(len + 1)
      /\ IF Improves(v) THEN job'.best = v /\ job'.kept = len + 1
         ELSE job'.best = job.best /\ job'.kept = job.kept
  <2>1. CASE Improves(v)
    <3> DEFINE k == len + 1
    <3>1. job' = [job EXCEPT !.best = v, !.kept = k, !.counter = 0]
      BY <1>2, <2>1 DEF len
    <3>2. k \in 0..MaxEpochs /\ 0 \in 0..Patience /\ 0 \in 0..k /\ v \in Loss \cup {NaN, NoLoss}
      BY <1>4, TrainingConstants
    <3> HIDE DEF k
    <3>3. /\ job' \in JobStates /\ job'.script = s /\ job'.todo = job.todo /\ job'.scaler = job.scaler
          /\ job'.counter = 0 /\ job'.best = v /\ job'.kept = k
      BY <1>1, <3>1, <3>2 DEF JobStates
    <3> QED  BY <2>1, <3>2, <3>3 DEF k
  <2>2. CASE ~Improves(v)
    <3> DEFINE c == IF s \in PerUe THEN job.counter + 1 ELSE 0
    <3>1. job.counter \in 0..Patience /\ job.counter <= len
      BY <1>1, <1>3 DEF JobStates, Progress, len
    <3>2. c \in 0..Patience /\ c \in 0..(len + 1)
      BY <1>4, <3>1, TrainingConstants
    <3>3. job' = [job EXCEPT !.counter = c]
      BY <1>2, <2>2
    <3> HIDE DEF c
    <3> QED  BY <1>1, <2>2, <3>2, <3>3 DEF JobStates
  <2> QED  BY <2>1, <2>2
<1>9. TrainTypes'
  BY <1>2, <1>4, <1>5, <1>7, <1>8 DEF TrainInv, TrainTypes
<1>10. OthersKept(ModelOf(s)) /\ ModelOf(s) \in Models
  BY <1>1, <1>7, PlanIs DEF OthersKept, FileOf
<1>11. FilesOfOneRun'
  BY <1>1, <1>2, <1>10, OthersInOrder DEF TrainInv
<1>12. \A m \in Models : files'[<<m, "scaler">>] = files[<<m, "scaler">>]
                         /\ files'[<<m, "model">>] = files[<<m, "model">>]
  BY <1>7 DEF FileOf, Kinds
<1>13. ScalerLostToLaterRun'
  BY <1>12, ScalerKept DEF TrainInv, Shared, Models
<1>14. Stored(2)'
  <2>1. \A i \in 1..(2 - 1) : Plan(job'.script)[i] = "scaler"
    BY <1>1, <1>8, PlanIs
  <2>2. \A f \in {Shared, FileOf("gru", "scaler"), FileOf(s, "scaler")} : files'[f] = files[f]
    BY <1>10, <1>12 DEF Shared, FileOf, Models, ModelOf
  <2>3. IF s = "gru"
        THEN \E f \in {Shared, FileOf("gru", "scaler")} : files'[f].run = job'.scaler
        ELSE files'[FileOf(s, "scaler")].run = runs'
    <3>1. 2 > 1
      OBVIOUS
    <3>2. IF s = "gru" THEN \E f \in {Shared, FileOf("gru", "scaler")} : files[f].run = job.scaler
                      ELSE files[FileOf(s, "scaler")].run = runs
      BY <1>3, <3>1 DEF Stored
    <3> QED  BY <1>2, <1>8, <2>2, <3>2
  <2> QED  BY <1>8, <2>1, <2>3 DEF Stored
<1>15. /\ job'.script \notin PerUe => job'.best \in Loss \cup {NoLoss}
       /\ job'.kept \in 0..Len(losses') /\ job'.counter <= Len(losses')
  <2>1. s \notin PerUe /\ Improves(v) => v # NaN
    BY DEF Improves
  <2>2. job.kept \in 0..len /\ (s \notin PerUe => job.best \in Loss \cup {NoLoss})
    BY <1>3 DEF Progress, len
  <2> QED  BY <1>4, <1>5, <1>8, <2>1, <2>2
<1>16. ASSUME s \in PerUe
       PROVE  /\ job'.kept >= 1 /\ losses'[job'.kept] = job'.best
              /\ files'[checkpoint].run = runs /\ files'[checkpoint].epoch = job'.kept
  <2>1. CASE Improves(v)
    BY <1>4, <1>5, <1>7, <1>8, <1>16, <2>1 DEF Saves
  <2>2. CASE ~Improves(v)
    <3>1. losses # <<>>
      BY <1>3, <1>16, <2>2 DEF Improves, Stale, Progress
    <3>2. /\ job.kept >= 1 /\ losses[job.kept] = job.best /\ job.kept \in 0..len
          /\ files[checkpoint].run = runs /\ files[checkpoint].epoch = job.kept
      BY <1>3, <1>16, <3>1 DEF Progress, len
    <3>3. job.kept \in 1..len
      BY <1>4, <3>2
    <3> QED  BY <1>5, <1>7, <1>8, <2>2, <3>2, <3>3 DEF Saves
  <2> QED  BY <2>1, <2>2
<1>17. ASSUME s \in PerUe, NEW i \in SinceNaN'
       PROVE  job'.best \in Loss /\ losses'[i] > job'.best - MinDelta
  <2>1. i \in 1..(len + 1) /\ \A j \in i..(len + 1) : losses'[j] # NaN
    BY <1>4, <1>5, <1>17 DEF SinceNaN
  <2>2. v # NaN /\ v \in Loss
    <3>1. len + 1 \in i..(len + 1)
      BY <1>4, <2>1
    <3> QED  BY <1>5, <2>1, <3>1
  <2>3. i # len + 1 => i \in SinceNaN
    <3> SUFFICES ASSUME i # len + 1 PROVE i \in SinceNaN
      OBVIOUS
    <3>1. i \in 1..len /\ \A j \in i..len : j \in i..(len + 1) /\ j \in 1..len
      BY <1>4, <2>1
    <3>2. \A j \in i..len : losses[j] # NaN
      BY <1>5, <2>1, <3>1
    <3> QED  BY <1>4, <3>1, <3>2 DEF SinceNaN, len
  <2>4. i # len + 1 =>
          i \in 1..len /\ losses'[i] = losses[i] /\ job.best \in Loss
          /\ losses[i] > job.best - MinDelta /\ losses[i] \in Loss
    <3> SUFFICES ASSUME i # len + 1
                 PROVE  i \in 1..len /\ losses'[i] = losses[i] /\ job.best \in Loss
                        /\ losses[i] > job.best - MinDelta /\ losses[i] \in Loss
      OBVIOUS
    <3>1. i \in 1..len
      BY <1>4, <2>1
    <3>2. losses[i] \in Loss \cup {NaN}
      BY <1>4, <3>1, ElementOfSeq DEF len
    <3>3. losses'[i] # NaN
      <4>1. i \in i..(len + 1)
        BY <1>4, <2>1
      <4> QED  BY <2>1, <4>1
    <3> QED  BY <1>3, <1>5, <1>17, <2>3, <3>1, <3>2, <3>3 DEF Progress
  <2>5. CASE Improves(v)
    <3>1. job'.best = v /\ v > v - MinDelta
      BY <1>8, <2>2, <2>5, TrainingConstants
    <3>2. i = len + 1 => losses'[i] = v
      BY <1>5
    <3>3. i # len + 1 => losses[i] > v - MinDelta
      <4> SUFFICES ASSUME i # len + 1 PROVE losses[i] > v - MinDelta
        OBVIOUS
      <4>1. job.best \in Nat /\ losses[i] \in Nat /\ v \in Nat /\ losses[i] > job.best - MinDelta
        BY <2>2, <2>4, TrainingConstants
      <4>2. ~(v > job.best - MinDelta)
        <5>1. job.best # NoLoss /\ job.best # NaN
          BY <4>1, TrainingConstants DEF NoLoss
        <5> QED  BY <1>17, <2>2, <2>5, <5>1 DEF Improves, Stale
      <4> QED  BY <4>1, <4>2, TrainingConstants
    <3> QED  BY <2>2, <2>4, <3>1, <3>2, <3>3
  <2>6. CASE ~Improves(v)
    <3>1. job.best # NoLoss /\ job.best # NaN /\ v > job.best - MinDelta
      BY <1>17, <2>6 DEF Improves, Stale
    <3>2. job.best \in Loss
      BY <1>1, <3>1 DEF JobStates
    <3>3. i = len + 1 => losses'[i] = v
      BY <1>5
    <3> QED  BY <1>8, <2>4, <2>6, <3>1, <3>2, <3>3
  <2> QED  BY <2>5, <2>6
<1>18. ASSUME s \notin PerUe, NEW i \in DOMAIN losses', losses'[i] # NaN
       PROVE  job'.best \in Loss /\ losses'[i] >= job'.best
  <2>1. i \in 1..(len + 1)
    BY <1>4, <1>5, <1>18, LenProperties
  <2>2. i = len + 1 => losses'[i] = v /\ v \in Loss
    BY <1>5, <1>18
  <2>3. i # len + 1 => /\ losses'[i] = losses[i] /\ losses[i] \in Loss /\ job.best \in Loss
                       /\ losses[i] >= job.best
    <3> SUFFICES ASSUME i # len + 1
                 PROVE  /\ losses'[i] = losses[i] /\ losses[i] \in Loss /\ job.best \in Loss
                        /\ losses[i] >= job.best
      OBVIOUS
    <3>1. i \in 1..len /\ i \in DOMAIN losses
      BY <1>4, <2>1 DEF len
    <3>2. losses[i] \in Loss \cup {NaN}
      BY <1>4, <3>1, ElementOfSeq DEF len
    <3>3. losses[i] # NaN /\ losses'[i] = losses[i]
      BY <1>5, <1>18, <3>1
    <3> QED  BY <1>3, <1>18, <3>1, <3>2, <3>3 DEF Progress
  <2>4. CASE Improves(v)
    <3>1. v # NaN /\ v \in Nat /\ v \in Loss /\ (job.best = NoLoss \/ v < job.best)
      BY <1>18, <2>4, TrainingConstants DEF Improves
    <3>2. \A x \in Loss : x \in Nat /\ x # NoLoss
      BY TrainingConstants DEF NoLoss
    <3>3. i # len + 1 => losses[i] >= v
      <4> SUFFICES ASSUME i # len + 1 PROVE losses[i] >= v
        OBVIOUS
      <4> DEFINE x == losses[i]
                 y == job.best
      <4>1. x \in Nat /\ y \in Nat /\ x >= y /\ v < y
        BY <2>3, <3>1, <3>2
      <4> HIDE DEF x, y
      <4>2. x >= v
        BY <3>1, <4>1
      <4> QED  BY <4>2 DEF x
    <3>4. i = len + 1 => losses'[i] >= v
      BY <2>2, <3>1, <3>2
    <3>5. losses'[i] >= v
      BY <2>3, <3>3, <3>4
    <3> QED  BY <1>8, <2>4, <3>1, <3>5
  <2>5. CASE ~Improves(v)
    <3>1. job.best \in Loss \cup {NoLoss}
      BY <1>3, <1>18 DEF Progress
    <3>2. v # NaN => job.best \in Loss /\ v >= job.best
      <4> SUFFICES ASSUME v # NaN PROVE job.best \in Loss /\ v >= job.best
        OBVIOUS
      <4>1. job.best # NoLoss /\ ~(v < job.best)
        BY <1>18, <2>5 DEF Improves
      <4> DEFINE y == job.best
      <4>2. v \in Nat /\ y \in Nat /\ y \in Loss
        BY <3>1, <4>1, TrainingConstants
      <4> HIDE DEF y
      <4> QED  BY <4>1, <4>2 DEF y
    <3> QED  BY <1>8, <1>18, <2>2, <2>3, <2>5, <3>2
  <2> QED  BY <2>4, <2>5
<1>19. Progress'
  BY <1>2, <1>5, <1>8, <1>15, <1>16, <1>17, <1>18 DEF Progress
<1>20. AtWork(2)'
  BY <1>1, <1>2, <1>3, <1>8, <1>14, <1>19 DEF AtWork
<1> QED  BY <1>9, <1>11, <1>13, <1>20 DEF TrainInv

LEMMA ResultIs ==
  ASSUME TrainTypes, NEW kind
  PROVE  /\ Result(kind) \in FileStates /\ Result(kind).run = runs
         /\ kind = "threshold" => Result(kind).threshold = job.threshold
         /\ kind = "model" => Result(kind).scaler = job.scaler
<1>1. runs \in Int /\ job.kept \in Int /\ job.scaler \in Int
      /\ job.threshold \in {NoScript, "train", "val"}
  BY TrainingConstants DEF TrainTypes, JobStates
<1> DEFINE x == IF kind = "model" THEN job.scaler ELSE 0
           y == IF kind = "losses" THEN NoScript ELSE job.threshold
           e == job.kept
<1>2. Result(kind) = [run |-> runs, epoch |-> e, full |-> FALSE, scaler |-> x, threshold |-> y]
  BY DEF Result
<1>3. x \in Int /\ y \in {NoScript, "train", "val"} /\ e \in Int
      /\ (kind = "threshold" => y = job.threshold) /\ (kind = "model" => x = job.scaler)
  BY <1>1
<1> HIDE DEF x, y, e
<1>4. Result(kind) \in FileStates
  BY <1>1, <1>2, <1>3 DEF FileStates
<1> QED  BY <1>2, <1>3, <1>4

\* A result is written; with the last one the files of the model are complete.
LEMMA WriteKeeps ==
  ASSUME TrainInv, NEW n \in 1..6, AtWork(n), NEW kind \in {"model", "losses", "threshold"},
         Write(kind)
  PROVE  TrainInv'
<1> DEFINE s == job.script
           g == FileOf(s, kind)
           r == Result(kind)
<1>1. s \in Scripts /\ job.todo = Left(s, n) /\ ModelOf(s) \in interrupted /\ job \in JobStates
      /\ ModelOf(s) \in Models
  BY PlanIs DEF AtWork, TrainInv, TrainTypes
<1>2. At(kind) /\ files' = [files EXCEPT ![g] = r] /\ runs' = runs
  BY DEF Write
<1>3. Plan(s)[n] = kind /\ n \in 3..6 /\ (n = 6 <=> kind = "threshold") /\ Stored(n)
  BY <1>1, <1>2, AtIs, StepIs DEF AtWork
<1>4. kind \in Kinds /\ g \in Models \X Kinds
  BY <1>1 DEF Kinds, FileOf
<1>5. r \in FileStates /\ r.run = runs /\ r.run <= runs
      /\ (kind = "threshold" => r.threshold = job.threshold)
      /\ (kind = "model" => r.scaler = job.scaler)
  <2>1. runs <= runs
    BY DEF TrainInv, TrainTypes
  <2> QED  BY <2>1, ResultIs DEF TrainInv
<1> HIDE DEF r
<1>6. /\ files' \in [Models \X Kinds -> FileStates]
      /\ \A f \in Models \X Kinds : files'[f].run <= runs'
      /\ files'[g] = r
      /\ \A f \in Models \X Kinds : f # g => files'[f] = files[f]
  <2> HIDE DEF g
  <2> QED  BY <1>2, <1>4, <1>5, WriteTypes DEF TrainInv
<1>7. OthersKept(ModelOf(s))
  BY <1>1, <1>4, <1>6 DEF OthersKept, FileOf
<1>8. \A m \in Models : files'[<<m, "scaler">>] = files[<<m, "scaler">>]
  BY <1>6 DEF FileOf, Kinds
<1>9. ScalerLostToLaterRun'
  <2>1. CASE kind = "model" /\ s = "gru"
    <3>1. /\ files'[<<"cell_gru", "model">>] = r /\ r.scaler = job.scaler
      BY <1>5, <1>6, <2>1 DEF FileOf, ModelOf
    <3>2. \E f \in {Shared, FileOf("gru", "scaler")} : files[f].run = job.scaler
      <4>1. n > 1
        BY <1>3
      <4> QED  BY <1>3, <2>1, <4>1 DEF Stored
    <3>3. \A f \in {Shared, FileOf("gru", "scaler")} : files'[f] = files[f]
      BY <1>8 DEF Shared, FileOf, Models, ModelOf
    <3>4. \E f \in {files'[Shared], files'[<<"cell_gru", "scaler">>]} : f.run = r.scaler
      BY <3>1, <3>2, <3>3 DEF FileOf, ModelOf
    <3> QED  BY <3>1, <3>4 DEF ScalerLostToLaterRun, Shared
  <2>2. CASE ~(kind = "model" /\ s = "gru")
    <3>1. g # <<"cell_gru", "model">>
      BY <1>1, <2>2, TrainingConstants DEF FileOf, ModelOf
    <3>2. files'[<<"cell_gru", "model">>] = files[<<"cell_gru", "model">>]
      BY <1>6, <3>1 DEF Models, Kinds
    <3> QED  BY <1>8, <3>2, ScalerKept DEF TrainInv, Shared, Models
  <2> QED  BY <2>1, <2>2
<1>10. CASE n < 6
  <2>1. n + 1 \in 1..6 /\ n + 1 \in 4..6 /\ n \in 2..5
    BY <1>3, <1>10
  <2>2. Tail(Left(s, n)) = Left(s, n + 1)
    BY <1>1, <1>10, LeftIs
  <2>3. Left(s, n + 1) \in Seq(Steps) /\ Left(s, n + 1) # <<>>
    BY <1>1, <2>1, LeftIs
  <2>4. /\ job' = [job EXCEPT !.todo = Tail(@)] /\ losses' = losses /\ interrupted' = interrupted
    BY <1>1, <2>2, <2>3 DEF Write
  <2>5. /\ job' \in JobStates /\ job'.script = s /\ job'.todo = Left(s, n + 1)
        /\ job'.scaler = job.scaler /\ job'.threshold = job.threshold
    <3> DEFINE t == Left(s, n + 1)
    <3>1. job' = [job EXCEPT !.todo = t] /\ t \in Seq(Steps)
      BY <1>1, <2>2, <2>3, <2>4
    <3> HIDE DEF t
    <3>2. /\ job' \in JobStates /\ job'.script = s /\ job'.todo = t
          /\ job'.scaler = job.scaler /\ job'.threshold = job.threshold
      BY <1>1, <3>1 DEF JobStates
    <3> QED  BY <3>2 DEF t
  <2>6. TrainTypes'
    BY <1>2, <1>6, <2>4, <2>5 DEF TrainInv, TrainTypes
  <2>7. FilesOfOneRun'
    BY <1>1, <1>7, <2>4, OthersInOrder DEF TrainInv
  <2>8. Stored(n + 1)'
    <3>1. kind \in {"model", "losses", "fit", "train"} /\ kind # "fit"
      BY <1>3, <1>10
    <3> QED  BY <1>2, <1>3, <1>5, <1>6, <2>1, <2>5, <3>1, StoredNext DEF TrainInv
  <2>9. AtWork(n + 1)'
    BY <1>1, <2>1, <2>4, <2>5, <2>8 DEF AtWork
  <2> QED  BY <1>9, <2>1, <2>6, <2>7, <2>9 DEF TrainInv
<1>11. CASE n = 6
  <2>1. Tail(job.todo) = <<>> /\ kind = "threshold"
    <3>1. Tail(Left(s, 6)) = <<>>
      <4>1. s \in Scripts /\ 6 \in 1..6
        BY <1>1, <1>3
      <4> QED  BY <4>1, LeftIs
    <3> QED  BY <1>1, <1>3, <1>11, <3>1
  <2>2. job' = Idle /\ losses' = <<>> /\ interrupted' = interrupted \ {ModelOf(s)}
    BY <2>1 DEF Write
  <2>3. Idle \in JobStates /\ Len(<<>>) = 0
    BY TrainingConstants, EmptySeq DEF Idle, JobStates, NoScript
  <2>4. TrainTypes'
    BY <1>2, <1>6, <2>2, <2>3, TrainingConstants, EmptySeq DEF TrainInv, TrainTypes
  <2>5. /\ files'[FileOf(s, "threshold")].run = runs
        /\ files'[FileOf(s, "model")].run = runs /\ files'[FileOf(s, "losses")].run = runs
        /\ files'[FileOf(s, "threshold")].threshold = "val"
        /\ s # "gru" => files'[FileOf(s, "scaler")].run = runs
    <3>1. \A x \in {"model", "losses", "fit"} : \E i \in 1..(n - 1) : Plan(s)[i] = x
      <4>1. \A x \in {"model", "losses", "fit"} : \E i \in 3..5 : Plan(s)[i] = x
        BY <1>1, PlanIs
      <4>2. \A i \in 3..5 : i \in 1..(n - 1)
        BY <1>11
      <4> QED  BY <4>1, <4>2
    <3>2. /\ files[FileOf(s, "model")].run = runs /\ files[FileOf(s, "losses")].run = runs
          /\ job.threshold = "val"
      BY <1>3, <3>1 DEF Stored
    <3>3. s # "gru" => files[FileOf(s, "scaler")].run = runs
      BY <1>3, <1>11 DEF Stored
    <3>4. \A k \in {"model", "losses", "scaler"} : files'[FileOf(s, k)] = files[FileOf(s, k)]
      BY <1>1, <1>6, <2>1 DEF FileOf, Kinds
    <3> QED  BY <1>5, <1>6, <2>1, <3>2, <3>3, <3>4
  <2>6. FilesOfOneRun'
    <3> SUFFICES ASSUME NEW m \in Models, m \notin interrupted'
                 PROVE  /\ files'[<<m, "losses">>].run = files'[<<m, "model">>].run
                        /\ files'[<<m, "threshold">>].run = files'[<<m, "model">>].run
                        /\ m # "cell_gru" =>
                             files'[<<m, "scaler">>].run = files'[<<m, "model">>].run
                        /\ files'[<<m, "model">>].run > 0 =>
                             files'[<<m, "threshold">>].threshold = "val"
      BY DEF FilesOfOneRun
    <3>1. CASE m = ModelOf(s)
      <4>1. m # "cell_gru" => s # "gru"
        BY <3>1 DEF ModelOf
      <4> QED  BY <2>5, <3>1, <4>1 DEF FileOf
    <3>2. CASE m # ModelOf(s)
      <4>1. m \notin interrupted
        BY <2>2, <3>2
      <4>2. \A k \in {"losses", "model", "threshold", "scaler"} :
              files'[<<m, k>>] = files[<<m, k>>]
        BY <1>7, <3>2 DEF OthersKept, Kinds
      <4>3. /\ files[<<m, "losses">>].run = files[<<m, "model">>].run
            /\ files[<<m, "threshold">>].run = files[<<m, "model">>].run
            /\ m # "cell_gru" => files[<<m, "scaler">>].run = files[<<m, "model">>].run
            /\ files[<<m, "model">>].run > 0 => files[<<m, "threshold">>].threshold = "val"
        BY <4>1 DEF FilesOfOneRun, TrainInv
      <4> QED  BY <4>2, <4>3
    <3> QED  BY <3>1, <3>2
  <2> QED  BY <1>9, <2>2, <2>4, <2>6 DEF TrainInv
<1> QED  BY <1>3, <1>10, <1>11

\* Cut short: a file of the model at work may be torn, nothing else.
LEMMA InterruptKeeps ==
  ASSUME TrainInv, NEW n \in 1..6, AtWork(n), Interrupt
  PROVE  TrainInv'
<1> DEFINE s == job.script
<1>1. s \in Scripts /\ ModelOf(s) \in interrupted /\ ModelOf(s) \in Models
  BY PlanIs DEF AtWork
<1>2. PICK torn \in SUBSET InWrite :
        files' = [f \in DOMAIN files |-> IF f \in torn THEN Torn ELSE files[f]]
  BY DEF Interrupt
<1>3. job' = Idle /\ losses' = <<>> /\ runs' = runs /\ interrupted' = interrupted
  BY DEF Interrupt
<1>4. \A f \in torn : \E k \in Kinds : f = FileOf(s, k)
  <2>1. \A f \in InWrite : \E k \in Kinds : f = FileOf(s, k)
    BY DEF InWrite, Kinds
  <2> QED  BY <2>1
<1>5. Torn \in FileStates /\ Torn.run = -1
  <2>1. Missing \in FileStates
    BY DEF Missing, FileStates
  <2> QED  BY <2>1 DEF Torn, FileStates
<1>6. /\ files \in [Models \X Kinds -> FileStates] /\ runs \in Nat
      /\ \A f \in Models \X Kinds : files[f].run <= runs
  BY DEF TrainInv, TrainTypes
<1>7. /\ files' \in [Models \X Kinds -> FileStates]
      /\ \A f \in Models \X Kinds : files'[f] = files[f] \/ files'[f] = Torn
      /\ \A f \in Models \X Kinds : f \notin torn => files'[f] = files[f]
  <2> HIDE DEF FileStates
  <2>1. DOMAIN files = Models \X Kinds
    BY <1>6
  <2> QED  BY <1>2, <1>5, <1>6, <2>1
<1>8. \A f \in Models \X Kinds : files'[f].run <= runs'
  <2> TAKE f \in Models \X Kinds
  <2>1. -1 <= runs
    BY <1>6
  <2> QED  BY <1>3, <1>5, <1>6, <1>7, <2>1
<1>9. TrainTypes'
  <2>1. Idle \in JobStates /\ Len(<<>>) = 0
    BY TrainingConstants, EmptySeq DEF Idle, JobStates, NoScript
  <2> QED  BY <1>3, <1>7, <1>8, <2>1, TrainingConstants, EmptySeq DEF TrainInv, TrainTypes
<1>10. OthersKept(ModelOf(s))
  <2> SUFFICES ASSUME NEW m \in Models, NEW k \in Kinds, m # ModelOf(s)
               PROVE  files'[<<m, k>>] = files[<<m, k>>]
    BY DEF OthersKept
  <2>1. <<m, k>> \notin torn
    BY <1>4 DEF FileOf
  <2> QED  BY <1>7, <2>1
<1>11. FilesOfOneRun'
  BY <1>1, <1>3, <1>10, OthersInOrder DEF TrainInv
<1>12. ScalerLostToLaterRun'
  <2> DEFINE gru == files[<<"cell_gru", "model">>]
  <2>1. <<"cell_gru", "model">> \in Models \X Kinds /\ <<"cell_gru", "scaler">> \in Models \X Kinds
        /\ Shared \in Models \X Kinds
    BY DEF Models, Kinds, Shared
  <2>2. CASE files'[<<"cell_gru", "model">>] = Torn
    BY <1>5, <2>2 DEF ScalerLostToLaterRun
  <2>3. CASE files'[<<"cell_gru", "model">>] = gru
    <3> SUFFICES ASSUME gru.run > 0
                 PROVE  \E f \in {files'[Shared], files'[<<"cell_gru", "scaler">>]} :
                           f.run = gru.scaler \/ f = Torn \/ f.run > gru.run
      BY <2>3 DEF ScalerLostToLaterRun, Shared
    <3>1. PICK g \in {Shared, <<"cell_gru", "scaler">>} :
            files[g].run = gru.scaler \/ files[g] = Torn \/ files[g].run > gru.run
      BY DEF ScalerLostToLaterRun, TrainInv
    <3>2. files'[g] = files[g] \/ files'[g] = Torn
      BY <1>7, <2>1, <3>1
    <3> HIDE DEF gru
    <3> QED  BY <3>1, <3>2
  <2> QED  BY <1>7, <2>1, <2>2, <2>3
<1> QED  BY <1>3, <1>9, <1>11, <1>12 DEF TrainInv

LEMMA TrainInvStep == TrainInv /\ [TrainNext]_trainVars => TrainInv'
<1> SUFFICES ASSUME TrainInv, [TrainNext]_trainVars PROVE TrainInv'
  OBVIOUS
<1>1. CASE UNCHANGED trainVars
  <2>1. TrainTypes' /\ FilesOfOneRun' /\ ScalerLostToLaterRun'
    BY <1>1 DEF trainVars, TrainInv, TrainTypes, FilesOfOneRun, ScalerLostToLaterRun
  <2>2. \A n : AtWork(n)' <=> AtWork(n)
    BY <1>1 DEF trainVars, AtWork, Fresh, Progress, Stored, SinceNaN
  <2>3. job' = job /\ losses' = losses
    BY <1>1 DEF trainVars
  <2> QED  BY <2>1, <2>2, <2>3 DEF TrainInv
<1>2. ASSUME NEW s \in Scripts, Begin(s) PROVE TrainInv'
  BY <1>2, BeginKeeps
<1>3. CASE job = Idle /\ losses = <<>>
  <2>1. \A x : ~At(x)
    BY <1>3 DEF At, Idle
  <2> QED
    BY <1>1, <1>2, <1>3, <2>1
       DEF TrainNext, FitScaler, ReuseScaler, Epoch, RestoreBest, FitThreshold, Write, Interrupt
<1>4. ASSUME NEW n \in 1..6, AtWork(n) PROVE TrainInv'
  BY <1>1, <1>2, <1>4, ScalerStep, EpochKeeps, RestoreKeeps, FitKeeps, WriteKeeps,
     InterruptKeeps DEF TrainNext
<1> QED  BY <1>3, <1>4 DEF TrainInv

(* The types of the training scripts, for all losses and bounds.            *)
THEOREM TrainingTypes == TrainSpec => []TrainTypeOK
<1>1. TrainInv => TrainTypeOK
  BY DEF TrainInv, TrainTypes, TrainTypeOK, JobStates
<1> QED  BY <1>1, TrainInvInit, TrainInvStep, PTL DEF TrainSpec

(* train_with_val and EarlyStopping: whatever the losses and the NaNs among *)
(* them, what is kept in memory and on disk is the best epoch.              *)
THEOREM BestEpochKept == TrainSpec => [](BestKept /\ CheckpointIsBest)
<1>1. TrainInv => BestKept /\ CheckpointIsBest
  <2> SUFFICES ASSUME TrainInv, At("train") PROVE BestKept /\ CheckpointIsBest
    BY DEF BestKept, CheckpointIsBest
  <2>1. job # Idle
    BY DEF At, Idle
  <2>2. PICK n \in 1..6 : AtWork(n)
    BY <2>1 DEF TrainInv
  <2>3. n = 2
    <3>1. job.script \in Scripts
      BY <2>2 DEF AtWork
    <3> QED  BY <2>2, <3>1, AtIs, StepIs
  <2>4. Progress
    BY <2>2, <2>3 DEF AtWork
  <2> QED  BY <2>4 DEF Progress, BestKept, CheckpointIsBest
<1> QED  BY <1>1, TrainInvInit, TrainInvStep, PTL DEF TrainSpec

(* The mains of the training scripts: a model whose run ended has files of  *)
(* that run, over interruptions and runs of other scripts in between.       *)
THEOREM FilesOfTheRun == TrainSpec => [](FilesOfOneRun /\ ScalerLostToLaterRun)
<1>1. TrainInv => FilesOfOneRun /\ ScalerLostToLaterRun
  BY DEF TrainInv
<1> QED  BY <1>1, TrainInvInit, TrainInvStep, PTL DEF TrainSpec

-----------------------------------------------------------------------------
(* GroupedAblation: which cells the file holds, and which are still to do.  *)
StudyCells == UNION {ToSet(CellPlan[d]) : d \in Drivers}
ResultRow == [cell : StudyCells, mode : {"ml_only", "hybrid"}, status : {"ok", "FAILED"}]
Appending == {"append", "open", "close"}
DriverStates == [phase : Working \cup {"off", "finished", "crashed"}, todo : SUBSET StudyCells,
                 rows : Seq(ResultRow), fresh : BOOLEAN]

\* The first of some cells in the order of the plan.
First(d, cells) ==
  LET plan == CellPlan[d] IN plan[Min({i \in DOMAIN plan : plan[i] \in cells})]

\* Where the file has rows of a cell; and that they are exactly these, in one block.
CellRows(c) == {i \in DOMAIN lines : lines[i] # Header /\ lines[i].cell = c}
Block(c, rows) ==
  \E first \in 1..Len(lines) :
    /\ CellRows(c) = first..(first + Len(rows) - 1)
    /\ \A i \in 1..Len(rows) : lines[first + i - 1] = rows[i]
Once(c) == CellRows(c) = {} \/ Block(c, OkRows(c)) \/ Block(c, FailedRows(c))
Headed == lines # <<>> => lines[1] = Header

DriverOK(d, x) ==
  /\ x \in DriverStates /\ x.todo \subseteq ToSet(CellPlan[d])
  /\ x.phase \in Appending =>
       x.rows \in {OkRows(First(d, x.todo)), FailedRows(First(d, x.todo))}
  /\ x.phase \notin Appending => x.rows = <<>>
  /\ x.phase \in Appending \cup {"evaluate"} => x.todo # {}
  /\ x.phase \notin Working => x.todo = {}

\* What is to do is not in the file, and what is not to do is.
NotYet(x) == Headed => \A c \in x.todo : CellRows(c) = {}
Accounted(d, x) ==
  x.phase \in Working \cup {"finished"} =>
    \A c \in ToSet(CellPlan[d]) : c \in x.todo \/ \E i \in DOMAIN lines : lines[i].cell = c

ReportOK ==
  /\ report = [ok |-> report.ok, failed |-> report.failed]
  /\ report.ok \subseteq StudyCells \X {"ml_only", "hybrid"} /\ IsFiniteSet(report.ok)
  /\ IsFiniteSet(DOMAIN report.failed)
  /\ \A i, j \in DOMAIN report.failed :
       report.failed[i] = report.failed[j] => i = j \/ report.failed[i] = Header.cell
  /\ ReportPaired

AblationInv ==
  /\ exists \in BOOLEAN /\ lines \in Seq(ResultRow \cup {Header}) /\ starts \in 0..MaxStarts
  /\ driver \in [Drivers -> DriverStates]
  /\ \A d \in Drivers : DriverOK(d, driver[d]) /\ NotYet(driver[d]) /\ Accounted(d, driver[d])
  /\ Headed => \A c \in StudyCells : Once(c)
  /\ ReportOK

LEMMA HeaderIsNoRow == \A r \in ResultRow : r # Header
BY DEF ResultRow, Header

\* A nonempty set of naturals has a least element.
LEMMA MinExists ==
  ASSUME NEW S, S \subseteq Nat, S # {}
  PROVE  Min(S) \in S
<1> DEFINE R == OpToRel(<, Nat)
<1>1. PICK x \in S : \A y \in S : ~(<<y, x>> \in R)
  BY NatLessThanWellFounded, WFMin
<1>2. ASSUME NEW y \in S PROVE x <= y
  <2>1. y \in Nat /\ x \in Nat
    OBVIOUS
  <2>2. y < x => <<y, x>> \in R
    BY <2>1 DEF OpToRel
  <2>3. ~(y < x)
    BY <1>1, <2>2
  <2> QED  BY <2>1, <2>3
<1> QED  BY <1>1, <1>2 DEF Min

LEMMA FirstIs ==
  ASSUME NEW d \in Drivers, NEW cells, cells \subseteq ToSet(CellPlan[d]), cells # {}
  PROVE  First(d, cells) \in cells
<1> DEFINE plan == CellPlan[d]
           places == {i \in DOMAIN plan : plan[i] \in cells}
<1>1. plan \in Seq(ToSet(plan)) /\ DOMAIN plan \subseteq Nat
  <2>1. plan \in Seq(ToSet(plan))
    BY AblationAssumption
  <2>2. DOMAIN plan = 1..Len(plan) /\ Len(plan) \in Nat
    BY <2>1, LenProperties
  <2> QED  BY <2>1, <2>2
<1>2. places \subseteq Nat /\ places # {}
  BY <1>1 DEF ToSet
<1>3. Min(places) \in places
  BY <1>2, MinExists
<1> QED  BY <1>3 DEF First

\* The rows of a cell, whole or failed.
LEMMA RowsOfCell ==
  ASSUME NEW c \in StudyCells, NEW rows \in {OkRows(c), FailedRows(c)}
  PROVE  /\ rows \in Seq(ResultRow) /\ Len(rows) \in {1, 2} /\ rows # <<>>
         /\ \A k \in 1..Len(rows) : rows[k] # Header /\ rows[k].cell = c
<1>1. /\ Row(c, "ml_only", "ok") \in ResultRow /\ Row(c, "hybrid", "ok") \in ResultRow
      /\ Row(c, "ml_only", "FAILED") \in ResultRow
  BY DEF Row, ResultRow
<1>2. rows \in Seq(ResultRow) /\ Len(rows) \in {1, 2} /\ rows # <<>>
  <2> DEFINE a == Row(c, "ml_only", "ok")
             b == Row(c, "hybrid", "ok")
             f == Row(c, "ml_only", "FAILED")
  <2>1. a \in ResultRow /\ b \in ResultRow /\ f \in ResultRow
    BY <1>1
  <2>2. rows = <<a, b>> \/ rows = <<f>>
    BY DEF OkRows, FailedRows
  <2> HIDE DEF a, b, f
  <2>3. CASE rows = <<a, b>>
    BY <2>1, <2>3
  <2>4. CASE rows = <<f>>
    BY <2>1, <2>4
  <2> QED  BY <2>2, <2>3, <2>4
<1>3. \A k \in 1..Len(rows) : rows[k].cell = c
  BY DEF OkRows, FailedRows, Row
<1>4. \A k \in 1..Len(rows) : rows[k] # Header
  BY <1>2, ElementOfSeq, HeaderIsNoRow
<1> QED  BY <1>2, <1>3, <1>4

\* A step of a driver that leaves the lines of the file as they are.
LEMMA DriverSteps ==
  ASSUME AblationInv, NEW d \in Drivers, NEW x,
         driver' = [driver EXCEPT ![d] = x],
         lines' = lines, report' = report, exists' \in BOOLEAN, starts' \in 0..MaxStarts,
         DriverOK(d, x), NotYet(x), Accounted(d, x)
  PROVE  AblationInv'
<1>1. x \in DriverStates /\ driver \in [Drivers -> DriverStates]
  BY DEF DriverOK, AblationInv
<1>2. /\ driver' \in [Drivers -> DriverStates] /\ driver'[d] = x
      /\ \A e \in Drivers : e # d => driver'[e] = driver[e]
  <2> HIDE DEF DriverStates
  <2> QED  BY <1>1
<1>3. Headed' = Headed /\ \A c : CellRows(c)' = CellRows(c)
  BY DEF Headed, CellRows
<1>4. \A c \in StudyCells : Once(c)' = Once(c)
  BY <1>3 DEF Once, Block
<1>5. ReportOK'
  BY DEF AblationInv, ReportOK, ReportPaired
<1>6. ASSUME NEW e \in Drivers
      PROVE  DriverOK(e, driver'[e]) /\ NotYet(driver'[e]) /\ Accounted(e, driver'[e])
  BY <1>2 DEF AblationInv
<1>7. \A e \in Drivers : DriverOK(e, driver[e])' /\ NotYet(driver[e])' /\ Accounted(e, driver[e])'
  <2> TAKE e \in Drivers
  <2>1. DriverOK(e, driver[e])'
    BY <1>6 DEF DriverOK
  <2>2. NotYet(driver[e])'
    BY <1>3, <1>6 DEF NotYet
  <2>3. Accounted(e, driver[e])'
    BY <1>6 DEF Accounted
  <2> QED  BY <2>1, <2>2, <2>3
<1> QED  BY <1>2, <1>3, <1>4, <1>5, <1>7 DEF AblationInv

LEMMA AblationInvInit == AblationInit => AblationInv
<1> SUFFICES ASSUME AblationInit PROVE AblationInv
  OBVIOUS
<1>1. /\ exists = FALSE /\ lines = <<>> /\ starts = 0 /\ driver = [d \in Drivers |-> Off]
      /\ report = [ok |-> {}, failed |-> <<>>]
  BY DEF AblationInit
<1>2. /\ Off \in DriverStates /\ Off.phase = "off" /\ Off.todo = {} /\ Off.rows = <<>>
  BY DEF Off, DriverStates, Working
<1>3. lines \in Seq(ResultRow \cup {Header}) /\ Len(lines) = 0
  BY <1>1, EmptySeq
<1>4. ReportOK
  <2>1. DOMAIN report.failed = {}
    BY <1>1
  <2> QED  BY <1>1, <2>1, FS_EmptySet DEF ReportOK, ReportPaired
<1>5. \A d \in Drivers : DriverOK(d, Off) /\ NotYet(Off) /\ Accounted(d, Off)
  BY <1>2 DEF DriverOK, NotYet, Accounted, Working, Appending
<1>6. \A c : CellRows(c) = {}
  <2>1. DOMAIN lines = {}
    BY <1>1
  <2> QED  BY <2>1 DEF CellRows
<1>7. driver \in [Drivers -> DriverStates] /\ \A d \in Drivers : driver[d] = Off
  BY <1>1, <1>2
<1>8. 0 \in 0..MaxStarts
  BY AblationAssumption
<1> QED  BY <1>1, <1>3, <1>4, <1>5, <1>6, <1>7, <1>8 DEF AblationInv, Once

\* A driver starts with the cells of its plan that have no row.
LEMMA StartKeeps ==
  ASSUME AblationInv, NEW d \in Drivers, Start(d)
  PROVE  AblationInv'
<1> DEFINE x == driver'[d]
           todo == ToSet(CellPlan[d]) \ DoneCells
<1>1. /\ driver' = [driver EXCEPT ![d] =
            IF Unreadable THEN [Off EXCEPT !.phase = "crashed"]
            ELSE [Off EXCEPT !.phase = "train", !.todo = todo]]
      /\ lines' = lines /\ report' = report /\ exists' = exists /\ starts' = starts + 1
      /\ starts < MaxStarts
  BY DEF Start
<1>2. starts' \in 0..MaxStarts /\ exists' \in BOOLEAN
  BY <1>1, AblationAssumption DEF AblationInv
<1>3. todo \subseteq ToSet(CellPlan[d]) /\ todo \in SUBSET StudyCells
  BY DEF StudyCells
<1> HIDE DEF todo
<1>4. Off \in DriverStates /\ Off.todo = {} /\ Off.rows = <<>>
  BY DEF Off, DriverStates, Working
<1>5. ASSUME Unreadable PROVE AblationInv'
  <2> DEFINE y == [Off EXCEPT !.phase = "crashed"]
  <2>1. driver' = [driver EXCEPT ![d] = y]
    BY <1>1, <1>5
  <2>3. y \in DriverStates /\ y.phase = "crashed" /\ y.todo = {} /\ y.rows = <<>>
    BY <1>4 DEF DriverStates
  <2> HIDE DEF y
  <2>4. DriverOK(d, y) /\ NotYet(y) /\ Accounted(d, y)
    BY <2>3 DEF DriverOK, NotYet, Accounted, Working, Appending
  <2> QED  BY <1>1, <1>2, <2>1, <2>4, DriverSteps
<1>6. ASSUME ~Unreadable PROVE AblationInv'
  <2> DEFINE y == [Off EXCEPT !.phase = "train", !.todo = todo]
  <2>1. driver' = [driver EXCEPT ![d] = y]
    BY <1>1, <1>6
  <2>3. y \in DriverStates /\ y.phase = "train" /\ y.todo = todo /\ y.rows = <<>>
    BY <1>3, <1>4 DEF DriverStates, Working
  <2> HIDE DEF y
  <2>4. lines \in Seq(ResultRow \cup {Header})
    BY DEF AblationInv
  <2>5. lines # <<>> => /\ DataRows = Tail(lines) /\ DOMAIN DataRows = 1..(Len(lines) - 1)
                        /\ \A i \in DOMAIN DataRows : DataRows[i] = lines[i + 1]
    <3> SUFFICES ASSUME lines # <<>>
                 PROVE  /\ DataRows = Tail(lines) /\ DOMAIN DataRows = 1..(Len(lines) - 1)
                        /\ \A i \in DOMAIN DataRows : DataRows[i] = lines[i + 1]
      OBVIOUS
    <3> DEFINE t == Tail(lines)
    <3>1. t \in Seq(ResultRow \cup {Header}) /\ Len(t) = Len(lines) - 1
          /\ \A i \in 1..Len(t) : t[i] = lines[i + 1]
      BY <2>4, HeadTailProperties
    <3> HIDE DEF t
    <3>2. DOMAIN t = 1..Len(t)
      BY <3>1, LenProperties
    <3>3. DataRows = t
      BY DEF DataRows, t
    <3> QED  BY <3>1, <3>2, <3>3 DEF t
  <2>6. NotYet(y)
    <3> SUFFICES ASSUME Headed, NEW c \in todo, NEW i \in CellRows(c) PROVE FALSE
      BY <2>3 DEF NotYet
    <3>1. i \in 1..Len(lines) /\ lines[i] # Header /\ lines[i].cell = c /\ Len(lines) \in Nat
      BY <2>4, LenProperties DEF CellRows
    <3>2. lines # <<>> /\ i # 1 /\ i - 1 \in 1..(Len(lines) - 1) /\ (i - 1) + 1 = i
      BY <3>1 DEF Headed
    <3>3. DataRows[i - 1] = lines[i] /\ i - 1 \in DOMAIN DataRows
      BY <2>5, <3>2
    <3>4. c \in DoneCells
      BY <3>1, <3>3 DEF DoneCells, ToSet
    <3> QED  BY <3>4 DEF todo
  <2>7. Accounted(d, y)
    <3> SUFFICES ASSUME NEW c \in ToSet(CellPlan[d]), c \in DoneCells
                 PROVE  \E i \in DOMAIN lines : lines[i].cell = c
      BY <2>3 DEF Accounted, todo
    <3>1. PICK i \in DOMAIN DataRows : DataRows[i].cell = c
      BY DEF DoneCells, ToSet
    <3>2. lines # <<>>
      <4>1. lines = <<>> => DOMAIN DataRows = {}
        BY DEF DataRows
      <4> QED  BY <3>1, <4>1
    <3>3. i + 1 \in DOMAIN lines /\ lines[i + 1].cell = c
      <4>1. DOMAIN lines = 1..Len(lines) /\ Len(lines) \in Nat
        BY <2>4, LenProperties
      <4>2. i \in 1..(Len(lines) - 1) /\ DataRows[i] = lines[i + 1]
        BY <2>5, <3>1, <3>2
      <4> QED  BY <3>1, <4>1, <4>2
    <3> QED  BY <3>3
  <2>8. DriverOK(d, y)
    BY <1>3, <2>3 DEF DriverOK, Working, Appending
  <2> QED  BY <1>1, <1>2, <2>1, <2>6, <2>7, <2>8, DriverSteps
<1> QED  BY <1>5, <1>6

\* The steps of a driver between two accesses to the file.
LEMMA WorkKeeps ==
  ASSUME AblationInv, NEW d \in Drivers,
         \/ TrainCell(d) \/ EvaluateCell(d) \/ CellFails(d) \/ CheckExists(d) \/ Open(d)
         \/ Finish(d) \/ Kill(d)
  PROVE  AblationInv'
<1> DEFINE y == driver[d]
<1>1. /\ DriverOK(d, y) /\ NotYet(y) /\ Accounted(d, y) /\ y \in DriverStates
      /\ exists \in BOOLEAN /\ starts \in 0..MaxStarts
  BY DEF AblationInv
<1> HIDE DEF y
<1>2. y.phase \in Working => \A x : x.todo = y.todo => NotYet(x) /\ Accounted(d, x)
  BY <1>1 DEF NotYet, Accounted
<1>3. y.todo # {} => Cell(d) = First(d, y.todo) /\ Cell(d) \in StudyCells
  <2>1. Cell(d) = First(d, y.todo)
    BY DEF Cell, First, y
  <2>2. y.todo # {} => First(d, y.todo) \in y.todo
    BY <1>1, FirstIs DEF DriverOK
  <2> QED  BY <1>1, <2>1, <2>2 DEF DriverStates
<1>4. CASE TrainCell(d)
  <2> DEFINE x == [y EXCEPT !.phase = "evaluate"]
  <2>1. /\ driver' = [driver EXCEPT ![d] = x] /\ y.phase = "train" /\ y.todo # {}
        /\ lines' = lines /\ report' = report /\ exists' = exists /\ starts' = starts
    BY <1>4 DEF TrainCell, Step, UnchangedFile, y
  <2>2. x \in DriverStates /\ x.phase = "evaluate" /\ x.todo = y.todo /\ x.rows = y.rows
    BY <1>1 DEF DriverStates, Working
  <2> HIDE DEF x
  <2>3. DriverOK(d, x) /\ NotYet(x) /\ Accounted(d, x)
    BY <1>1, <1>2, <2>1, <2>2 DEF DriverOK, Appending, Working
  <2> QED  BY <1>1, <2>1, <2>3, DriverSteps
<1>5. ASSUME NEW rows \in {OkRows(Cell(d)), FailedRows(Cell(d))}, y.todo # {},
             y.phase \in {"train", "evaluate"},
             Step(d, y.phase, [driver[d] EXCEPT !.phase = "append", !.rows = rows]),
             UnchangedFile
      PROVE  AblationInv'
  <2> DEFINE x == [y EXCEPT !.phase = "append", !.rows = rows]
  <2>1. /\ driver' = [driver EXCEPT ![d] = x]
        /\ lines' = lines /\ report' = report /\ exists' = exists /\ starts' = starts
    BY <1>5 DEF Step, UnchangedFile, y
  <2>2. rows \in Seq(ResultRow)
    BY <1>3, <1>5, RowsOfCell
  <2>3. x \in DriverStates /\ x.phase = "append" /\ x.todo = y.todo /\ x.rows = rows
    BY <1>1, <2>2 DEF DriverStates, Working
  <2> HIDE DEF x
  <2>4. DriverOK(d, x) /\ NotYet(x) /\ Accounted(d, x)
    BY <1>1, <1>2, <1>3, <1>5, <2>3 DEF DriverOK, Appending, Working
  <2> QED  BY <1>1, <2>1, <2>4, DriverSteps
<1>6. CASE EvaluateCell(d)
  <2>1. y.phase = "evaluate" /\ y.todo # {}
    BY <1>1, <1>6 DEF EvaluateCell, Step, y, DriverOK, Appending
  <2> QED  BY <1>5, <1>6, <2>1 DEF EvaluateCell
<1>7. CASE CellFails(d)
  <2>1. PICK phase \in {"train", "evaluate"} :
          Step(d, phase, [driver[d] EXCEPT !.phase = "append", !.rows = FailedRows(Cell(d))])
    BY <1>7 DEF CellFails
  <2>2. y.phase = phase /\ y.todo # {}
    BY <1>7, <2>1 DEF CellFails, Step, y
  <2> QED  BY <1>5, <1>7, <2>1, <2>2 DEF CellFails
<1>8. CASE CheckExists(d)
  <2> DEFINE x == [y EXCEPT !.phase = "open", !.fresh = ~exists]
  <2>1. /\ driver' = [driver EXCEPT ![d] = x] /\ y.phase = "append"
        /\ lines' = lines /\ report' = report /\ exists' = exists /\ starts' = starts
    BY <1>8 DEF CheckExists, Step, UnchangedFile, y
  <2>2. x \in DriverStates /\ x.phase = "open" /\ x.todo = y.todo /\ x.rows = y.rows
    BY <1>1 DEF DriverStates, Working
  <2> HIDE DEF x
  <2>3. DriverOK(d, x) /\ NotYet(x) /\ Accounted(d, x)
    BY <1>1, <1>2, <2>1, <2>2 DEF DriverOK, Appending, Working
  <2> QED  BY <1>1, <2>1, <2>3, DriverSteps
<1>9. CASE Open(d)
  <2> DEFINE x == [y EXCEPT !.phase = "close"]
  <2>1. /\ driver' = [driver EXCEPT ![d] = x] /\ y.phase = "open"
        /\ lines' = lines /\ report' = report /\ exists' = TRUE /\ starts' = starts
    BY <1>9 DEF Open, Step, y
  <2>2. x \in DriverStates /\ x.phase = "close" /\ x.todo = y.todo /\ x.rows = y.rows
    BY <1>1 DEF DriverStates, Working
  <2> HIDE DEF x
  <2>3. DriverOK(d, x) /\ NotYet(x) /\ Accounted(d, x)
    BY <1>1, <1>2, <2>1, <2>2 DEF DriverOK, Appending, Working
  <2> QED  BY <1>1, <2>1, <2>3, DriverSteps
<1>10. CASE Finish(d)
  <2> DEFINE x == [y EXCEPT !.phase = "finished"]
  <2>1. /\ driver' = [driver EXCEPT ![d] = x] /\ y.phase = "train" /\ y.todo = {}
        /\ lines' = lines /\ report' = report /\ exists' = exists /\ starts' = starts
    BY <1>10 DEF Finish, Step, UnchangedFile, y
  <2>2. x \in DriverStates /\ x.phase = "finished" /\ x.todo = y.todo /\ x.rows = y.rows
    BY <1>1 DEF DriverStates, Working
  <2> HIDE DEF x
  <2>3. DriverOK(d, x) /\ NotYet(x) /\ Accounted(d, x)
    BY <1>1, <1>2, <2>1, <2>2 DEF DriverOK, Appending, Working
  <2> QED  BY <1>1, <2>1, <2>3, DriverSteps
<1>11. CASE Kill(d)
  <2>1. /\ driver' = [driver EXCEPT ![d] = Off]
        /\ lines' = lines /\ report' = report /\ exists' = exists /\ starts' = starts
    BY <1>11 DEF Kill, UnchangedFile
  <2>2. /\ Off \in DriverStates /\ Off.phase = "off" /\ Off.todo = {} /\ Off.rows = <<>>
    BY DEF Off, DriverStates, Working
  <2>3. DriverOK(d, Off) /\ NotYet(Off) /\ Accounted(d, Off)
    BY <2>2 DEF DriverOK, NotYet, Accounted, Appending, Working
  <2> QED  BY <1>1, <2>1, <2>3, DriverSteps
<1> QED  BY <1>4, <1>6, <1>7, <1>8, <1>9, <1>10, <1>11

LEMMA Appended ==
  ASSUME NEW S, NEW a \in Seq(S), NEW b \in Seq(S), NEW r \in Seq(S), NEW t, t = a \o b \o r
  PROVE  /\ t \in Seq(S) /\ Len(t) = Len(a) + Len(b) + Len(r)
         /\ \A i \in 1..Len(a) : t[i] = a[i]
         /\ \A i \in 1..Len(b) : t[Len(a) + i] = b[i]
         /\ \A i \in 1..Len(r) : t[Len(a) + Len(b) + i] = r[i]
<1> DEFINE ab == a \o b
<1>1. /\ ab \in Seq(S) /\ Len(ab) = Len(a) + Len(b)
      /\ \A i \in 1..(Len(a) + Len(b)) : ab[i] = IF i <= Len(a) THEN a[i] ELSE b[i - Len(a)]
  BY ConcatProperties
<1>2. t = ab \o r
  OBVIOUS
<1> HIDE DEF ab
<1>3. /\ t \in Seq(S) /\ Len(t) = Len(ab) + Len(r)
      /\ \A i \in 1..(Len(ab) + Len(r)) : t[i] = IF i <= Len(ab) THEN ab[i] ELSE r[i - Len(ab)]
  <2>1. /\ ab \o r \in Seq(S) /\ Len(ab \o r) = Len(ab) + Len(r)
        /\ \A i \in 1..(Len(ab) + Len(r)) :
             (ab \o r)[i] = IF i <= Len(ab) THEN ab[i] ELSE r[i - Len(ab)]
    <3>1. ab \in Seq(S)
      BY <1>1
    <3> QED  BY <3>1, ConcatProperties, ZenonT(60)
  <2> QED  BY <1>2, <2>1
<1>4. Len(a) \in Nat /\ Len(b) \in Nat /\ Len(r) \in Nat
  BY LenProperties
<1>5. \A i \in 1..Len(a) : t[i] = a[i]
  BY <1>1, <1>3, <1>4
<1>6. \A i \in 1..Len(b) : t[Len(a) + i] = b[i]
  <2> TAKE i \in 1..Len(b)
  <2> DEFINE j == Len(a) + i
  <2>1. j \in 1..(Len(a) + Len(b)) /\ ~(j <= Len(a)) /\ j - Len(a) = i /\ j <= Len(ab)
        /\ j \in 1..(Len(ab) + Len(r))
    BY <1>1, <1>4
  <2> HIDE DEF j
  <2>2. ab[j] = b[i] /\ t[j] = ab[j]
    BY <1>1, <1>3, <2>1
  <2> QED  BY <2>2 DEF j
<1>7. \A i \in 1..Len(r) : t[Len(a) + Len(b) + i] = r[i]
  <2> TAKE i \in 1..Len(r)
  <2> DEFINE j == Len(a) + Len(b) + i
  <2>1. ~(j <= Len(ab)) /\ j - Len(ab) = i /\ j \in 1..(Len(ab) + Len(r))
    BY <1>1, <1>4
  <2> HIDE DEF j
  <2>2. t[j] = r[i]
    BY <1>3, <2>1
  <2> QED  BY <2>2 DEF j
<1> QED  BY <1>1, <1>3, <1>5, <1>6, <1>7

\* What closing the file adds to it: the rows of a cell, after a header or none.
LEMMA CellAdded ==
  ASSUME lines \in Seq(ResultRow \cup {Header}), NEW c \in StudyCells,
         NEW rows \in {OkRows(c), FailedRows(c)}, NEW h \in {<<>>, <<Header>>},
         lines' = lines \o h \o rows
  PROVE  /\ lines' \in Seq(ResultRow \cup {Header})
         /\ Headed' => Headed
         /\ \A e : e # c => CellRows(e)' = CellRows(e)
         /\ CellRows(c) = {} => Block(c, rows)'
         /\ \A i \in DOMAIN lines : i \in DOMAIN lines' /\ lines'[i] = lines[i]
         /\ \E i \in DOMAIN lines' : lines'[i].cell = c
<1> DEFINE S == ResultRow \cup {Header}
           n == Len(lines)
           k == Len(h)
           l == Len(rows)
<1>1. rows \in Seq(S) /\ l \in {1, 2} /\ \A i \in 1..l : rows[i] # Header /\ rows[i].cell = c
  BY RowsOfCell
<1>2. h \in Seq(S) /\ k \in Nat /\ \A i \in 1..k : h[i] = Header
  <2> DEFINE x == Header
  <2>1. x \in S /\ (h = <<>> \/ h = <<x>>)
    OBVIOUS
  <2> HIDE DEF x, S
  <2>2. CASE h = <<>>
    <3>1. h \in Seq(S) /\ k = 0
      BY <2>2, EmptySeq
    <3> QED  BY <3>1 DEF x
  <2>3. CASE h = <<x>>
    BY <2>1, <2>3 DEF x
  <2> QED  BY <2>1, <2>2, <2>3
<1>3. lines \in Seq(S)
  OBVIOUS
<1> HIDE DEF S
<1>4. /\ lines' \in Seq(S) /\ Len(lines') = n + k + l
      /\ \A i \in 1..n : lines'[i] = lines[i]
      /\ \A i \in 1..k : lines'[n + i] = h[i]
      /\ \A i \in 1..l : lines'[n + k + i] = rows[i]
  <2> DEFINE t == lines'
  <2>1. t = lines \o h \o rows
    OBVIOUS
  <2> HIDE DEF t
  <2>2. /\ t \in Seq(S) /\ Len(t) = n + k + l
        /\ \A i \in 1..n : t[i] = lines[i]
        /\ \A i \in 1..k : t[n + i] = h[i]
        /\ \A i \in 1..l : t[n + k + i] = rows[i]
    BY <1>1, <1>2, <1>3, <2>1, Appended
  <2> QED  BY <2>2 DEF t
<1>5. n \in Nat /\ DOMAIN lines = 1..n /\ DOMAIN lines' = 1..(n + k + l)
  BY <1>3, <1>4, LenProperties
<1> HIDE DEF n, k, l
<1>6. /\ \A i \in DOMAIN lines : i \in DOMAIN lines' /\ lines'[i] = lines[i]
  BY <1>1, <1>2, <1>4, <1>5
<1>7. ASSUME NEW i \in DOMAIN lines', i \notin DOMAIN lines
      PROVE  \/ lines'[i] = Header /\ i \notin (n + k + 1)..(n + k + l)
             \/ lines'[i] # Header /\ lines'[i].cell = c /\ i \in (n + k + 1)..(n + k + l)
  <2>1. i \in (n + 1)..(n + k + l)
    BY <1>1, <1>2, <1>5, <1>7
  <2>2. CASE i <= n + k
    <3> DEFINE j == i - n
    <3>1. j \in 1..k /\ n + j = i
      BY <1>2, <1>5, <2>1, <2>2
    <3> HIDE DEF j
    <3>2. lines'[i] = h[j] /\ h[j] = Header
      BY <1>2, <1>4, <3>1
    <3> QED  BY <1>2, <1>5, <2>1, <2>2, <3>2
  <2>3. CASE ~(i <= n + k)
    <3> DEFINE j == i - n - k
    <3>1. j \in 1..l /\ n + k + j = i
      <4>1. \A p, q, r, u \in Int :
              u >= p + 1 /\ u <= p + q + r /\ ~(u <= p + q)
              => u - p - q \in 1..r /\ p + q + (u - p - q) = u
        OBVIOUS
      <4>2. n \in Int /\ k \in Int /\ l \in Int /\ i \in Int /\ i >= n + 1 /\ i <= n + k + l
        BY <1>1, <1>2, <1>5, <2>1
      <4> QED  BY <2>3, <4>1, <4>2
    <3> HIDE DEF j
    <3>2. lines'[i] = rows[j] /\ rows[j] # Header /\ rows[j].cell = c
      BY <1>1, <1>4, <3>1
    <3>3. i \in (n + k + 1)..(n + k + l)
      BY <1>1, <1>2, <1>5, <2>1, <2>3
    <3> QED  BY <3>2, <3>3
  <2> QED  BY <2>2, <2>3
<1>8. \A i \in (n + k + 1)..(n + k + l) : i \in DOMAIN lines' /\ i \notin DOMAIN lines
  BY <1>1, <1>2, <1>5
<1>9. Headed' => Headed
  <2> SUFFICES ASSUME Headed', lines # <<>> PROVE lines[1] = Header
    BY DEF Headed
  <2>1. 1 \in DOMAIN lines
    BY <1>3, <1>5, EmptySeq DEF n
  <2>2. lines' # <<>>
    BY <1>6, <2>1
  <2> QED  BY <1>6, <2>1, <2>2 DEF Headed
<1>10. ASSUME NEW e, e # c PROVE CellRows(e)' = CellRows(e)
  <2>1. CellRows(e)' = {i \in DOMAIN lines' : lines'[i] # Header /\ lines'[i].cell = e}
    BY DEF CellRows
  <2> QED  BY <1>6, <1>7, <1>10, <2>1 DEF CellRows
<1>11. ASSUME CellRows(c) = {} PROVE Block(c, rows)'
  <2>1. CellRows(c)' = {i \in DOMAIN lines' : lines'[i] # Header /\ lines'[i].cell = c}
    BY DEF CellRows
  <2>2. \A i \in DOMAIN lines : ~(lines[i] # Header /\ lines[i].cell = c)
    BY <1>11 DEF CellRows
  <2>3. CellRows(c)' = (n + k + 1)..(n + k + l)
    BY <1>6, <1>7, <1>8, <2>1, <2>2
  <2> DEFINE first == n + k + 1
  <2>4. first \in 1..Len(lines') /\ (n + k + 1)..(n + k + l) = first..(first + l - 1)
    BY <1>1, <1>2, <1>4, <1>5
  <2>5. \A i \in 1..l : lines'[first + i - 1] = rows[i]
    <3> TAKE i \in 1..l
    <3>1. first + i - 1 = n + k + i
      BY <1>1, <1>2, <1>5
    <3> QED  BY <1>4, <3>1
  <2> HIDE DEF first
  <2> QED  BY <2>3, <2>4, <2>5 DEF Block, l
<1>12. \E i \in DOMAIN lines' : lines'[i].cell = c
  <2>1. n + k + 1 \in (n + k + 1)..(n + k + l)
    BY <1>1, <1>2, <1>5
  <2>2. 1 \in 1..l
    BY <1>1
  <2>3. lines'[n + k + 1] = rows[1]
    BY <1>4, <2>2
  <2> QED  BY <1>1, <1>8, <2>1, <2>2, <2>3
<1> QED  BY <1>4, <1>6, <1>9, <1>10, <1>11, <1>12 DEF S

LEMMA CloseKeeps ==
  ASSUME AblationInv, NEW d \in Drivers, Close(d)
  PROVE  AblationInv'
<1>y. PICK y : y = driver[d]
  OBVIOUS
<1>c. PICK c : c = Cell(d)
  OBVIOUS
<1>r. PICK rows : rows = y.rows
  OBVIOUS
<1>h. PICK h \in {<<>>, <<Header>>} : h = IF y.fresh THEN <<Header>> ELSE <<>>
  OBVIOUS
<1>x. PICK x : x = [y EXCEPT !.phase = "train", !.todo = @ \ {c}, !.rows = <<>>, !.fresh = FALSE]
  OBVIOUS
<1>1. /\ DriverOK(d, y) /\ NotYet(y) /\ Accounted(d, y) /\ y \in DriverStates
      /\ lines \in Seq(ResultRow \cup {Header}) /\ driver \in [Drivers -> DriverStates]
      /\ \A e \in Drivers : /\ DriverOK(e, driver[e]) /\ NotYet(driver[e])
                            /\ Accounted(e, driver[e])
      /\ Headed => \A e \in StudyCells : Once(e)
      /\ exists \in BOOLEAN /\ starts \in 0..MaxStarts /\ ReportOK
  BY <1>y DEF AblationInv
<1>2. /\ y.phase = "close" /\ driver' = [driver EXCEPT ![d] = x]
      /\ lines' = lines \o h \o rows
      /\ exists' = exists /\ starts' = starts /\ report' = report
  BY <1>y, <1>c, <1>r, <1>h, <1>x DEF Close, Step
<1>3. y.todo # {} /\ rows \in {OkRows(First(d, y.todo)), FailedRows(First(d, y.todo))}
      /\ y.todo \subseteq ToSet(CellPlan[d]) /\ y.todo \subseteq StudyCells
  <2>1. y.todo # {} /\ rows \in {OkRows(First(d, y.todo)), FailedRows(First(d, y.todo))}
        /\ y.todo \subseteq ToSet(CellPlan[d])
    BY <1>1, <1>2, <1>r DEF DriverOK, Appending
  <2> QED  BY <2>1 DEF StudyCells
<1>4. c = First(d, y.todo) /\ c \in y.todo /\ c \in StudyCells
  <2>1. c = First(d, y.todo)
    BY <1>y, <1>c DEF Cell, First
  <2> QED  BY <1>3, <2>1, FirstIs
<1>5. /\ x \in DriverStates /\ x.phase = "train" /\ x.todo = y.todo \ {c} /\ x.rows = <<>>
  BY <1>1, <1>x, EmptySeq DEF DriverStates, Working
<1>7. rows \in {OkRows(c), FailedRows(c)}
  BY <1>3, <1>4
<1>8. /\ lines' \in Seq(ResultRow \cup {Header})
      /\ Headed' => Headed
      /\ \A e : e # c => CellRows(e)' = CellRows(e)
      /\ CellRows(c) = {} => Block(c, rows)'
      /\ \A i \in DOMAIN lines : i \in DOMAIN lines' /\ lines'[i] = lines[i]
      /\ \E i \in DOMAIN lines' : lines'[i].cell = c
  BY <1>1, <1>2, <1>4, <1>7, CellAdded
<1>9. /\ driver' \in [Drivers -> DriverStates] /\ driver'[d] = x
      /\ \A e \in Drivers : e # d => driver'[e] = driver[e]
  <2> HIDE DEF DriverStates
  <2> QED  BY <1>1, <1>2, <1>5
<1>10. ASSUME Headed', NEW e \in StudyCells PROVE Once(e)'
  <2>1. Once(e) /\ Headed
    BY <1>1, <1>8, <1>10
  <2>2. CASE e = c
    <3>1. CellRows(c) = {}
      BY <1>1, <1>4, <2>1 DEF NotYet
    <3>2. Block(c, rows)'
      BY <1>8, <3>1
    <3> QED  BY <1>7, <2>2, <3>2 DEF Once
  <2>3. ASSUME e # c, NEW r, Block(e, r), Len(r) \in Nat PROVE Block(e, r)'
    <3>1. PICK first \in 1..Len(lines) :
            /\ CellRows(e) = first..(first + Len(r) - 1)
            /\ \A i \in 1..Len(r) : lines[first + i - 1] = r[i]
      BY <2>3 DEF Block
    <3>2. CellRows(e)' = CellRows(e)
      BY <1>8, <2>3
    <3>3. \A i \in 1..Len(r) : lines'[first + i - 1] = r[i]
      <4> TAKE i \in 1..Len(r)
      <4>1. first + i - 1 \in CellRows(e)
        BY <2>3, <3>1
      <4>2. first + i - 1 \in DOMAIN lines
        BY <4>1 DEF CellRows
      <4> QED  BY <1>8, <3>1, <4>2
    <3>4. first \in 1..Len(lines')
      BY <1>1, <1>8, LenProperties
    <3> QED  BY <3>1, <3>2, <3>3, <3>4 DEF Block
  <2>4. CASE e # c
    <3>1. CellRows(e)' = CellRows(e)
      BY <1>8, <2>4
    <3>2. Len(OkRows(e)) \in Nat /\ Len(FailedRows(e)) \in Nat
      BY RowsOfCell
    <3> QED  BY <2>1, <2>3, <2>4, <3>1, <3>2 DEF Once
  <2> QED  BY <2>2, <2>4
<1>11. ASSUME NEW e \in Drivers
       PROVE  DriverOK(e, driver[e])' /\ NotYet(driver[e])' /\ Accounted(e, driver[e])'
  <2>1. CASE e = d
    <3>1. DriverOK(d, x)
      BY <1>1, <1>5 DEF DriverOK, Appending, Working
    <3>2. ASSUME Headed', NEW b \in x.todo PROVE CellRows(b)' = {}
      BY <1>1, <1>5, <1>8, <3>2 DEF NotYet
    <3>3. ASSUME NEW b \in ToSet(CellPlan[d])
          PROVE  b \in x.todo \/ \E i \in DOMAIN lines' : lines'[i].cell = b
      <4>1. b \in y.todo \/ \E i \in DOMAIN lines : lines[i].cell = b
        BY <1>1, <1>2 DEF Accounted, Working
      <4> QED  BY <1>5, <1>8, <4>1
    <3>4. DriverOK(d, driver[d])' /\ NotYet(driver[d])' /\ Accounted(d, driver[d])'
      <4>1. DriverOK(d, driver[d])'
        BY <1>9, <3>1 DEF DriverOK
      <4>2. NotYet(driver[d])'
        BY <1>9, <3>2 DEF NotYet
      <4>3. Accounted(d, driver[d])'
        BY <1>9, <3>3 DEF Accounted
      <4> QED  BY <4>1, <4>2, <4>3
    <3> QED  BY <2>1, <3>4
  <2>2. CASE e # d
    <3>1. driver'[e] = driver[e] /\ DriverOK(e, driver[e]) /\ NotYet(driver[e])
          /\ Accounted(e, driver[e])
      BY <1>1, <1>9, <2>2
    <3>2. c \notin driver[e].todo
      <4>1. ToSet(CellPlan[d]) \cap ToSet(CellPlan[e]) = {}
        BY <2>2, AblationAssumption
      <4>2. c \in ToSet(CellPlan[d]) /\ driver[e].todo \subseteq ToSet(CellPlan[e])
        BY <1>3, <1>4, <3>1 DEF DriverOK
      <4> QED  BY <4>1, <4>2
    <3>3. DriverOK(e, driver[e])'
      BY <3>1 DEF DriverOK
    <3>4. NotYet(driver[e])'
      BY <1>8, <3>1, <3>2 DEF NotYet
    <3>5. Accounted(e, driver[e])'
      BY <1>8, <3>1 DEF Accounted
    <3> QED  BY <3>3, <3>4, <3>5
  <2> QED  BY <2>1, <2>2
<1>12. ReportOK'
  BY <1>1, <1>2 DEF ReportOK, ReportPaired
<1> QED  BY <1>1, <1>2, <1>8, <1>9, <1>10, <1>11, <1>12 DEF AblationInv

\* What is computed from the elements of a finite set is finite.
LEMMA FiniteImage ==
  ASSUME NEW S, IsFiniteSet(S), NEW f, DOMAIN f = S, NEW T, \A y \in T : \E x \in S : f[x] = y
  PROVE  IsFiniteSet(T)
<1> DEFINE R == {x \in S : f[x] \in T}
           g == [x \in R |-> f[x]]
<1>1. IsFiniteSet(R)
  <2>1. R \in SUBSET S
    OBVIOUS
  <2> HIDE DEF R
  <2> QED  BY <2>1, FS_Subset
<1>2. g \in Surjection(R, T)
  BY DEF Surjection
<1> QED
  <2> HIDE DEF R, g
  <2> QED  BY <1>1, <1>2, FS_Surjection

LEMMA DataRowsAre ==
  ASSUME lines \in Seq(ResultRow \cup {Header})
  PROVE  ToSet(DataRows) = {lines[i] : i \in 2..Len(lines)}
<1>1. CASE lines = <<>>
  <2>1. DOMAIN DataRows = {} /\ Len(lines) = 0
    BY <1>1 DEF DataRows
  <2> QED  BY <2>1 DEF ToSet
<1>2. CASE lines # <<>>
  <2> DEFINE t == Tail(lines)
  <2>1. t \in Seq(ResultRow \cup {Header}) /\ Len(t) = Len(lines) - 1
        /\ \A i \in 1..Len(t) : t[i] = lines[i + 1]
    BY <1>2, HeadTailProperties
  <2>2. DataRows = t
    BY <1>2 DEF DataRows
  <2> HIDE DEF t
  <2>3. DOMAIN t = 1..(Len(lines) - 1) /\ Len(lines) \in Nat
    BY <2>1, LenProperties
  <2>4. ASSUME NEW i \in DOMAIN t PROVE t[i] \in {lines[k] : k \in 2..Len(lines)}
    <3>1. i + 1 \in 2..Len(lines)
      BY <2>3, <2>4
    <3> QED  BY <2>1, <2>3, <2>4, <3>1
  <2>5. ASSUME NEW k \in 2..Len(lines) PROVE \E i \in DOMAIN t : t[i] = lines[k]
    <3> DEFINE i == k - 1
    <3>1. i \in DOMAIN t /\ i + 1 = k
      BY <2>3
    <3> HIDE DEF i
    <3>2. t[i] = lines[k]
      BY <2>1, <2>3, <3>1
    <3> QED  BY <3>1, <3>2
  <2> QED  BY <2>2, <2>4, <2>5 DEF ToSet
<1> QED  BY <1>1, <1>2

\* The rows of a cell are its failure, or its pair.
LEMMA PairOrFailure ==
  ASSUME NEW c \in StudyCells, Once(c), NEW i \in CellRows(c), lines \in Seq(ResultRow \cup {Header})
  PROVE  \/ \A j \in CellRows(c) : lines[j] = Row(c, "ml_only", "FAILED")
         \/ /\ \E j, k \in CellRows(c) : /\ lines[j] = Row(c, "ml_only", "ok")
                                         /\ lines[k] = Row(c, "hybrid", "ok")
            /\ \A j \in CellRows(c) : lines[j].status = "ok"
<1>1. CASE Block(c, FailedRows(c))
  <2>1. PICK first \in 1..Len(lines) :
          /\ CellRows(c) = first..(first + Len(FailedRows(c)) - 1)
          /\ \A j \in 1..Len(FailedRows(c)) : lines[first + j - 1] = FailedRows(c)[j]
    BY <1>1 DEF Block
  <2>2. Len(FailedRows(c)) = 1 /\ FailedRows(c)[1] = Row(c, "ml_only", "FAILED")
    BY DEF FailedRows
  <2>3. first \in Int /\ \A j \in first..(first + 1 - 1) : j = first + 1 - 1
    OBVIOUS
  <2>4. \A j \in CellRows(c) : j = first + 1 - 1
    BY <2>1, <2>2, <2>3
  <2>5. lines[first + 1 - 1] = FailedRows(c)[1]
    BY <2>1, <2>2
  <2> QED  BY <2>2, <2>4, <2>5
<1>2. CASE Block(c, OkRows(c))
  <2>1. PICK first \in 1..Len(lines) :
          /\ CellRows(c) = first..(first + Len(OkRows(c)) - 1)
          /\ \A j \in 1..Len(OkRows(c)) : lines[first + j - 1] = OkRows(c)[j]
    BY <1>2 DEF Block
  <2>2. /\ Len(OkRows(c)) = 2 /\ OkRows(c)[1] = Row(c, "ml_only", "ok")
        /\ OkRows(c)[2] = Row(c, "hybrid", "ok")
    BY DEF OkRows
  <2>3. /\ first + 1 - 1 \in first..(first + 2 - 1) /\ first + 2 - 1 \in first..(first + 2 - 1)
        /\ \A j \in first..(first + 2 - 1) : j = first + 1 - 1 \/ j = first + 2 - 1
    OBVIOUS
  <2> DEFINE a == first + 1 - 1
             b == first + 2 - 1
  <2>4. a \in CellRows(c) /\ b \in CellRows(c) /\ \A j \in CellRows(c) : j = a \/ j = b
    BY <2>1, <2>2, <2>3
  <2>5. lines[a] = Row(c, "ml_only", "ok") /\ lines[b] = Row(c, "hybrid", "ok")
    BY <2>1, <2>2
  <2> HIDE DEF a, b
  <2>6. \A j \in CellRows(c) : lines[j].status = "ok"
    BY <2>4, <2>5 DEF Row
  <2> QED  BY <2>4, <2>5, <2>6
<1> QED  BY <1>1, <1>2 DEF Once

\* A cell that is in the file once and failed has one row.
LEMMA OneFailedRow ==
  ASSUME NEW c \in StudyCells, Once(c), NEW l \in CellRows(c), NEW m \in CellRows(c),
         lines \in Seq(ResultRow \cup {Header}), lines[l].status # "ok"
  PROVE  l = m
<1>1. CASE Block(c, FailedRows(c))
  <2>1. PICK first \in 1..Len(lines) : CellRows(c) = first..(first + Len(FailedRows(c)) - 1)
    BY <1>1 DEF Block
  <2>2. Len(FailedRows(c)) = 1
    BY DEF FailedRows
  <2>3. l \in first..(first + 1 - 1) /\ m \in first..(first + 1 - 1) /\ first \in Int
    BY <2>1, <2>2
  <2> QED  BY <2>3
<1>2. CASE Block(c, OkRows(c))
  <2>1. PICK first \in 1..Len(lines) :
          /\ CellRows(c) = first..(first + Len(OkRows(c)) - 1)
          /\ \A j \in 1..Len(OkRows(c)) : lines[first + j - 1] = OkRows(c)[j]
    BY <1>2 DEF Block
  <2>2. /\ Len(OkRows(c)) = 2 /\ OkRows(c)[1] = Row(c, "ml_only", "ok")
        /\ OkRows(c)[2] = Row(c, "hybrid", "ok")
    BY DEF OkRows
  <2>3. l \in first..(first + 2 - 1) /\ first \in Int
    BY <2>1, <2>2
  <2>4. PICK j \in 1..2 : l = first + j - 1
    <3>1. l - first + 1 \in 1..2 /\ l = first + (l - first + 1) - 1
      BY <2>3
    <3> QED  BY <3>1
  <2>5. lines[l] = OkRows(c)[j]
    BY <2>1, <2>2, <2>4
  <2>6. OkRows(c)[j].status = "ok"
    BY <2>2 DEF Row
  <2> QED  BY <2>5, <2>6
<1> QED  BY <1>1, <1>2 DEF Once

\* What is read of a file whose cells are in it once.
LEMMA AggregateKeeps ==
  ASSUME AblationInv, Aggregate
  PROVE  AblationInv'
<1>1. /\ lines \in Seq(ResultRow \cup {Header}) /\ driver \in [Drivers -> DriverStates]
      /\ \A e \in Drivers : /\ DriverOK(e, driver[e]) /\ NotYet(driver[e])
                            /\ Accounted(e, driver[e])
      /\ Headed => \A c \in StudyCells : Once(c)
      /\ exists \in BOOLEAN /\ starts \in 0..MaxStarts /\ ReportOK
  BY DEF AblationInv
<1> DEFINE ok == {i \in 2..Len(lines) : lines[i].status = "ok"}
           bad == {i \in 2..Len(lines) : lines[i].status # "ok"}
           oks == {<<lines[i].cell, lines[i].mode>> : i \in ok}
           fails == [i \in bad |-> lines[i].cell]
<1>2. exists' = exists /\ lines' = lines /\ driver' = driver /\ starts' = starts /\ Headed
  BY DEF Aggregate, Headed
<1>3. report' = [ok |-> oks, failed |-> fails]
  BY DEF Aggregate
<1>4. Len(lines) \in Nat /\ DOMAIN lines = 1..Len(lines)
  BY <1>1, LenProperties
<1>5. ASSUME NEW i \in 2..Len(lines), lines[i] # Header
      PROVE  /\ lines[i] \in ResultRow /\ lines[i].cell \in StudyCells
             /\ i \in CellRows(lines[i].cell)
  <2>1. i \in DOMAIN lines
    BY <1>4
  <2>2. lines[i] \in ResultRow
    BY <1>1, <1>4, <1>5, <2>1, ElementOfSeq
  <2> QED  BY <1>5, <2>1, <2>2 DEF ResultRow, CellRows
<1>6. ASSUME NEW c, NEW i \in CellRows(c) PROVE i \in 2..Len(lines) /\ lines[i].cell = c
  <2>1. i \in DOMAIN lines /\ lines[i] # Header /\ lines[i].cell = c
    BY DEF CellRows
  <2>2. i # 1
    BY <1>2, <1>4, <2>1 DEF Headed
  <2> QED  BY <1>4, <2>1, <2>2
<1>7. Header.cell = "cell" /\ Header.status # "ok" /\ "cell" \notin StudyCells
  BY AblationAssumption DEF Header, StudyCells
<1>8. oks \subseteq StudyCells \X {"ml_only", "hybrid"}
  <2>1. ASSUME NEW i \in ok
        PROVE  lines[i].cell \in StudyCells /\ lines[i].mode \in {"ml_only", "hybrid"}
    BY <1>5, <1>7 DEF ResultRow
  <2> QED  BY <2>1
<1>9. IsFiniteSet(oks) /\ IsFiniteSet(bad)
  <2> DEFINE places == 2..Len(lines)
             f == [i \in ok |-> <<lines[i].cell, lines[i].mode>>]
  <2>1. IsFiniteSet(places) /\ ok \in SUBSET places /\ bad \in SUBSET places
    BY <1>4, FS_Interval
  <2> HIDE DEF places, ok, bad
  <2>2. IsFiniteSet(ok) /\ IsFiniteSet(bad)
    BY <2>1, FS_Subset
  <2>3. DOMAIN f = ok /\ \A y \in oks : \E x \in ok : f[x] = y
    OBVIOUS
  <2> HIDE DEF f, oks
  <2> QED  BY <2>2, <2>3, FiniteImage
<1>10. ASSUME NEW x \in oks
       PROVE  /\ {<<x[1], "ml_only">>, <<x[1], "hybrid">>} \subseteq oks
              /\ \A l \in bad : fails[l] # x[1]
  <2>1. PICK i \in ok : x = <<lines[i].cell, lines[i].mode>>
    BY <1>10
  <2>2. PICK c : c = lines[i].cell
    OBVIOUS
  <2>3. x[1] = c /\ c \in StudyCells /\ i \in CellRows(c) /\ lines[i].status = "ok"
    BY <1>5, <1>7, <2>1, <2>2
  <2>4. Once(c)
    BY <1>1, <1>2, <2>3
  <2>5. /\ \E j, k \in CellRows(c) : /\ lines[j] = Row(c, "ml_only", "ok")
                                     /\ lines[k] = Row(c, "hybrid", "ok")
        /\ \A j \in CellRows(c) : lines[j].status = "ok"
    <3>1. lines[i] # Row(c, "ml_only", "FAILED")
      BY <2>3 DEF Row
    <3> QED  BY <1>1, <2>3, <2>4, <3>1, PairOrFailure
  <2>6. PICK j \in CellRows(c), k \in CellRows(c) :
          lines[j] = Row(c, "ml_only", "ok") /\ lines[k] = Row(c, "hybrid", "ok")
    BY <2>5
  <2>7. j \in 2..Len(lines) /\ k \in 2..Len(lines)
    BY <1>6
  <2>8. <<c, "ml_only">> \in oks /\ <<c, "hybrid">> \in oks
    <3>1. /\ lines[j].cell = c /\ lines[j].mode = "ml_only" /\ lines[j].status = "ok"
          /\ lines[k].cell = c /\ lines[k].mode = "hybrid" /\ lines[k].status = "ok"
      BY <2>6 DEF Row
    <3>2. j \in ok /\ k \in ok
      BY <2>7, <3>1
    <3> HIDE DEF ok
    <3> QED  BY <3>1, <3>2
  <2>9. ASSUME NEW l \in bad, fails[l] = c PROVE FALSE
    <3>1. l \in 2..Len(lines) /\ lines[l].cell = c /\ lines[l].status # "ok"
      BY <2>9
    <3>2. lines[l] # Header
      BY <1>7, <2>3, <3>1
    <3>3. l \in CellRows(c)
      BY <1>5, <3>1, <3>2
    <3> QED  BY <2>5, <3>1, <3>3
  <2> QED  BY <2>3, <2>8, <2>9
<1>11. ASSUME NEW l \in bad, NEW m \in bad, fails[l] = fails[m], fails[l] # Header.cell
       PROVE  l = m
  <2>1. PICK c : c = lines[l].cell
    OBVIOUS
  <2>2. /\ l \in 2..Len(lines) /\ lines[l] # Header /\ lines[l].status # "ok"
        /\ m \in 2..Len(lines) /\ lines[m] # Header /\ lines[m].cell = c
    BY <1>11, <2>1
  <2>3. c \in StudyCells /\ l \in CellRows(c) /\ m \in CellRows(c)
    BY <1>5, <2>1, <2>2
  <2>4. Once(c)
    BY <1>1, <1>2, <2>3
  <2>5. ~(lines[l].status = "ok")
    BY <2>2
  <2> QED  BY <1>1, <2>3, <2>4, <2>5, OneFailedRow
<1>12. ReportOK'
  <2> HIDE DEF oks, fails, bad
  <2>1. report'.ok = oks /\ report'.failed = fails
    BY <1>3
  <2>2. DOMAIN fails = bad
    BY DEF fails
  <2>3. Header' = Header
    BY DEF Header
  <2>4. /\ report' = [ok |-> report'.ok, failed |-> report'.failed]
        /\ report'.ok \subseteq StudyCells \X {"ml_only", "hybrid"} /\ IsFiniteSet(report'.ok)
        /\ IsFiniteSet(DOMAIN report'.failed)
    BY <1>3, <1>8, <1>9, <2>1, <2>2
  <2>5. \A i, j \in DOMAIN report'.failed :
          report'.failed[i] = report'.failed[j] => i = j \/ report'.failed[i] = Header.cell
    BY <1>11, <2>1, <2>2
  <2>6. ReportPaired'
    BY <1>10, <2>1, <2>2 DEF ReportPaired
  <2> QED  BY <2>3, <2>4, <2>5, <2>6 DEF ReportOK
<1>13. Headed' = Headed /\ \A c : CellRows(c)' = CellRows(c)
  BY <1>2 DEF Headed, CellRows
<1>14. Headed' => \A c \in StudyCells : Once(c)'
  BY <1>1, <1>2, <1>13 DEF Once, Block
<1>15. \A e \in Drivers : DriverOK(e, driver[e])' /\ NotYet(driver[e])' /\ Accounted(e, driver[e])'
  BY <1>1, <1>2, <1>13 DEF DriverOK, NotYet, Accounted
<1> QED  BY <1>1, <1>2, <1>12, <1>14, <1>15 DEF AblationInv

LEMMA AblationInvStep == AblationInv /\ [AblationNext]_ablationVars => AblationInv'
<1> SUFFICES ASSUME AblationInv, [AblationNext]_ablationVars PROVE AblationInv'
  OBVIOUS
<1>1. CASE AblationNext
  BY <1>1, StartKeeps, WorkKeeps, CloseKeeps, AggregateKeeps DEF AblationNext
<1>2. CASE UNCHANGED ablationVars
  <2>1. exists' = exists /\ lines' = lines /\ driver' = driver /\ starts' = starts
        /\ report' = report
    BY <1>2 DEF ablationVars
  <2>2. Headed' = Headed /\ \A c : CellRows(c)' = CellRows(c)
    BY <2>1 DEF Headed, CellRows
  <2>3. Headed' => \A c \in StudyCells : Once(c)'
    BY <2>1, <2>2 DEF AblationInv, Once, Block
  <2>4. \A e \in Drivers :
          DriverOK(e, driver[e])' /\ NotYet(driver[e])' /\ Accounted(e, driver[e])'
    BY <2>1, <2>2 DEF AblationInv, DriverOK, NotYet, Accounted
  <2>5. ReportOK'
    BY <2>1 DEF AblationInv, ReportOK, ReportPaired
  <2> QED  BY <2>1, <2>3, <2>4, <2>5 DEF AblationInv
<1> QED  BY <1>1, <1>2

LEMMA InvTypes == AblationInv => AblationTypeOK
<1> SUFFICES ASSUME AblationInv PROVE AblationTypeOK
  OBVIOUS
<1>1. /\ exists \in BOOLEAN /\ lines \in Seq(ResultRow \cup {Header}) /\ starts \in 0..MaxStarts
      /\ \A d \in Drivers : DriverOK(d, driver[d])
  BY DEF AblationInv
<1>2. ASSUME NEW d \in Drivers
      PROVE  /\ driver[d].phase \in Working \cup {"off", "finished", "crashed"}
             /\ driver[d].todo \subseteq ToSet(CellPlan[d])
             /\ driver[d].rows # <<>> <=> driver[d].phase \in {"append", "open", "close"}
  <2>1. PICK x : x = driver[d]
    OBVIOUS
  <2>2. DriverOK(d, x)
    BY <1>1, <2>1
  <2>3. /\ x.phase \in Working \cup {"off", "finished", "crashed"}
        /\ x.todo \subseteq ToSet(CellPlan[d]) /\ x.todo \subseteq StudyCells
    BY <2>2 DEF DriverOK, DriverStates
  <2>4. x.phase \in Appending => x.rows # <<>>
    <3> SUFFICES ASSUME x.phase \in Appending PROVE x.rows # <<>>
      OBVIOUS
    <3>1. x.todo # {} /\ x.rows \in {OkRows(First(d, x.todo)), FailedRows(First(d, x.todo))}
      BY <2>2 DEF DriverOK
    <3>2. First(d, x.todo) \in StudyCells
      BY <2>3, <3>1, FirstIs
    <3> QED  BY <3>1, <3>2, RowsOfCell
  <2>5. x.phase \notin Appending => x.rows = <<>>
    BY <2>2 DEF DriverOK
  <2> QED  BY <2>1, <2>3, <2>4, <2>5 DEF Appending
<1> QED  BY <1>1, <1>2 DEF AblationTypeOK, ResultRow, StudyCells

LEMMA InvOnce == AblationInv => RecordedOnce
<1> SUFFICES ASSUME AblationInv, lines # <<>>, Head(lines) = Header,
                    NEW c \in DoneCells, c # Header.cell
             PROVE  RecordedAs(c, OkRows(c)) \/ RecordedAs(c, FailedRows(c))
  BY DEF RecordedOnce
<1>1. /\ lines \in Seq(ResultRow \cup {Header}) /\ Headed
      /\ \A b \in StudyCells : Once(b)
  BY DEF AblationInv, Headed
<1>2. Len(lines) \in Nat /\ DOMAIN lines = 1..Len(lines)
  BY <1>1, LenProperties
<1>3. PICK k \in 2..Len(lines) : lines[k].cell = c
  BY <1>1, DataRowsAre DEF DoneCells
<1>4. k \in CellRows(c) /\ c \in StudyCells
  <2>1. k \in DOMAIN lines /\ lines[k] # Header
    BY <1>2, <1>3
  <2>2. lines[k] \in ResultRow
    BY <1>1, <1>2, <2>1, ElementOfSeq
  <2> QED  BY <1>3, <2>1, <2>2 DEF CellRows, ResultRow
<1>5. {i \in DOMAIN lines : lines[i].cell = c} = CellRows(c)
  BY DEF CellRows
<1>6. ASSUME NEW rows \in {OkRows(c), FailedRows(c)}, Block(c, rows)
      PROVE  RecordedAs(c, rows)
  <2>1. PICK first \in 1..Len(lines) :
          /\ CellRows(c) = first..(first + Len(rows) - 1)
          /\ \A i \in 1..Len(rows) : lines[first + i - 1] = rows[i]
    BY <1>6 DEF Block
  <2>2. PICK last : last = first + Len(rows) - 1
    OBVIOUS
  <2>3. Len(rows) \in {1, 2} /\ rows \in Seq(ResultRow)
    BY <1>4, RowsOfCell
  <2>4. last \in CellRows(c) /\ last \in Int /\ first \in Int /\ first <= last
    <3>1. last \in Int /\ first \in Int /\ first <= last
      <4>1. first \in Int
        BY <2>1
      <4>2. PICK n : n = Len(rows)
        OBVIOUS
      <4>3. n \in {1, 2} /\ last = first + n - 1
        BY <2>2, <2>3, <4>2
      <4> QED  BY <4>1, <4>3
    <3>2. CellRows(c) = first..last
      BY <2>1, <2>2
    <3> QED  BY <3>1, <3>2
  <2>5. last <= Len(lines)
    BY <1>2, <2>4 DEF CellRows
  <2> DEFINE s == SubSeq(lines, first, last)
  <2>6. /\ s \in Seq(ResultRow \cup {Header}) /\ Len(s) = last - first + 1
        /\ \A i \in 1..(last - first + 1) : s[i] = lines[first + i - 1]
    BY <1>1, <1>2, <2>1, <2>4, <2>5, SubSeqProperties
  <2>7. last - first + 1 = Len(rows)
    BY <2>2, <2>3
  <2> HIDE DEF s
  <2>8. s = rows
    <3>1. rows \in Seq(ResultRow \cup {Header})
      BY <2>3
    <3>2. \A i \in 1..Len(s) : s[i] = rows[i]
      BY <2>1, <2>6, <2>7
    <3>3. Len(s) = Len(rows)
      BY <2>6, <2>7
    <3> QED  BY <2>6, <3>1, <3>2, <3>3, SeqEqual
  <2>9. first \in DOMAIN lines
    BY <1>2
  <2> QED  BY <1>5, <2>1, <2>2, <2>8, <2>9 DEF RecordedAs, s
<1>7. Block(c, OkRows(c)) \/ Block(c, FailedRows(c))
  BY <1>1, <1>4 DEF Once
<1> QED  BY <1>6, <1>7

LEMMA InvFinished == AblationInv => FinishedComplete
<1> SUFFICES ASSUME AblationInv, NEW d \in Drivers, driver[d].phase = "finished",
                    NEW c \in ToSet(CellPlan[d])
             PROVE  \E r \in ToSet(lines) : r.cell = c
  BY DEF FinishedComplete
<1>1. DriverOK(d, driver[d]) /\ Accounted(d, driver[d])
  BY DEF AblationInv
<1>2. driver[d].todo = {}
  BY <1>1 DEF DriverOK, Working
<1>3. PICK i \in DOMAIN lines : lines[i].cell = c
  BY <1>1, <1>2 DEF Accounted
<1> QED  BY <1>3 DEF ToSet

(* The file of results, the drivers' states and what they have still to do   *)
(* are of their types (run_grouped_ablation.py).                             *)
THEOREM AblationTypes == AblationSpec => []AblationTypeOK
<1>1. AblationSpec => []AblationInv
  BY AblationInvInit, AblationInvStep, PTL DEF AblationSpec
<1> QED  BY <1>1, InvTypes, PTL

(* However the drivers are interleaved, killed and started again, a cell is  *)
(* in metrics_by_seed.csv once, as one whole block, and a driver finishes    *)
(* with every cell of its plan in it (load_done_keys and append_rows).       *)
THEOREM CellsOnce == AblationSpec => [](RecordedOnce /\ FinishedComplete)
<1>1. AblationSpec => []AblationInv
  BY AblationInvInit, AblationInvStep, PTL DEF AblationSpec
<1> QED  BY <1>1, InvOnce, InvFinished, PTL

-----------------------------------------------------------------------------
(* AblationReport: the tables over a report with the pair of every cell.    *)
ReportCells == {x[1] : x \in report.ok}
Cells42 == {c \in ReportCells : Of[c].seed = AblationSeed}
\* The entry of a cell in a mode.
EntryOf(c, mode) == Entry42(Of[c].model, Of[c].config, mode)

LEMMA EntriesOf ==
  /\ \A c, mode : /\ EntryOf(c, mode).model = Of[c].model
                  /\ EntryOf(c, mode).config = Of[c].config /\ EntryOf(c, mode).mode = mode
  /\ \A c, mode, m : [EntryOf(c, mode) EXCEPT !.mode = m] = EntryOf(c, m)
BY DEF EntryOf, Entry42

LEMMA ReportIsProduct ==
  ASSUME ReportOK
  PROVE  /\ report.ok = ReportCells \X Modes
         /\ IsFiniteSet(ReportCells) /\ ReportCells \subseteq StudyCells
         /\ ReportCells \cap FailedCells = {}
<1> DEFINE ok == report.ok
<1>1. /\ ok \subseteq StudyCells \X Modes /\ IsFiniteSet(ok) /\ ReportPaired
  BY DEF ReportOK, Modes
<1>2. ReportCells = {x[1] : x \in ok}
  BY DEF ReportCells
<1>3. \A x \in ok : /\ <<x[1], "ml_only">> \in ok /\ <<x[1], "hybrid">> \in ok
                    /\ x[1] \notin FailedCells
  BY <1>1 DEF ReportPaired, FailedCells
<1> HIDE DEF ok
<1>4. ok \subseteq ReportCells \X Modes
  BY <1>1, <1>2
<1>5. ReportCells \X Modes \subseteq ok
  <2>1. ASSUME NEW c \in ReportCells, NEW mode \in Modes PROVE <<c, mode>> \in ok
    <3>1. PICK x \in ok : x[1] = c
      BY <1>2
    <3> QED  BY <1>3, <3>1 DEF Modes
  <2> QED  BY <2>1
<1>6. IsFiniteSet(ReportCells)
  <2> DEFINE f == [x \in ok |-> x[1]]
  <2>1. DOMAIN f = ok /\ \A c \in ReportCells : \E x \in ok : f[x] = c
    BY <1>2
  <2> HIDE DEF f
  <2> QED  BY <1>1, <2>1, FiniteImage
<1> QED  BY <1>1, <1>2, <1>3, <1>4, <1>5, <1>6 DEF ok

LEMMA Idx42Is ==
  ASSUME ReportOK
  PROVE  Idx42 = {EntryOf(c, mode) : c \in Cells42, mode \in Modes}
<1>1. report.ok = ReportCells \X Modes
  BY ReportIsProduct
<1>2. Idx42 = {EntryOf(x[1], x[2]) : x \in {y \in ReportCells \X Modes : Of[y[1]].seed = AblationSeed}}
  BY <1>1 DEF Idx42, EntryOf
<1>3. ASSUME NEW c \in Cells42, NEW mode \in Modes PROVE EntryOf(c, mode) \in Idx42
  <2>1. PICK y : y = <<c, mode>>
    OBVIOUS
  <2>2. y \in ReportCells \X Modes /\ y[1] = c /\ y[2] = mode /\ Of[y[1]].seed = AblationSeed
    BY <2>1 DEF Cells42
  <2> QED  BY <1>2, <2>2
<1>4. ASSUME NEW e \in Idx42 PROVE \E c \in Cells42, mode \in Modes : e = EntryOf(c, mode)
  <2>1. PICK y \in ReportCells \X Modes :
          Of[y[1]].seed = AblationSeed /\ e = EntryOf(y[1], y[2])
    BY <1>2
  <2>2. y[1] \in Cells42 /\ y[2] \in Modes
    BY <2>1 DEF Cells42
  <2> QED  BY <2>1, <2>2
<1> QED  BY <1>3, <1>4

LEMMA SummaryIs ==
  ASSUME ReportOK
  PROVE  /\ \A s \in SummaryByModel : \E c \in Cells42, mode \in Modes :
              s = [entry |-> EntryOf(c, mode), delta |-> HasBase(EntryOf(c, mode))]
         /\ \A c \in Cells42, mode \in Modes :
              [entry |-> EntryOf(c, mode), delta |-> HasBase(EntryOf(c, mode))] \in SummaryByModel
BY Idx42Is DEF SummaryByModel

\* Two lines for each cell.
LEMMA SummaryCount ==
  ASSUME ReportOK
  PROVE  Cardinality(SummaryByModel) = 2 * Cardinality(Cells42)
<1> DEFINE P == Cells42 \X Modes
           T == SummaryByModel
           f == [p \in P |-> [entry |-> EntryOf(p[1], p[2]), delta |-> HasBase(EntryOf(p[1], p[2]))]]
<1>1. IsFiniteSet(Cells42) /\ Cells42 \subseteq StudyCells
  <2>1. Cells42 \in SUBSET ReportCells
    BY DEF Cells42
  <2> QED  BY <2>1, ReportIsProduct, FS_Subset
<1>2. IsFiniteSet(Modes) /\ Cardinality(Modes) = 2
  <2> DEFINE A == {"ml_only"}
             B == {"hybrid"}
  <2>1. IsFiniteSet(A) /\ Cardinality(A) = 1 /\ IsFiniteSet(B) /\ Cardinality(B) = 1
    BY FS_Singleton
  <2>2. A \cap B = {} /\ Modes = A \cup B
    BY DEF Modes
  <2>3. Cardinality({}) = 0
    BY FS_EmptySet
  <2> HIDE DEF A, B
  <2> QED  BY <2>1, <2>2, <2>3, FS_Union
<1>3. IsFiniteSet(P) /\ Cardinality(P) = Cardinality(Cells42) * 2
  BY <1>1, <1>2, FS_Product
<1>4. ASSUME NEW p \in P, NEW q \in P, f[p] = f[q] PROVE p = q
  <2>1. EntryOf(p[1], p[2]) = EntryOf(q[1], q[2])
    BY <1>4
  <2>2. Of[p[1]].model = Of[q[1]].model /\ Of[p[1]].config = Of[q[1]].config /\ p[2] = q[2]
    BY <2>1, EntriesOf
  <2>3. Of[p[1]].seed = Of[q[1]].seed
    BY DEF Cells42
  <2>4. p[1] \in DOMAIN Of /\ q[1] \in DOMAIN Of
    BY <1>1, ReportAssumption DEF StudyCells
  <2>5. p[1] = q[1]
    BY <2>2, <2>3, <2>4, ReportAssumption
  <2> QED  BY <2>2, <2>5
<1>5. \A p \in P : f[p] \in T
  BY SummaryIs
<1>6. ASSUME NEW s \in T PROVE \E p \in P : f[p] = s
  <2>1. PICK c \in Cells42, mode \in Modes :
          s = [entry |-> EntryOf(c, mode), delta |-> HasBase(EntryOf(c, mode))]
    BY SummaryIs
  <2>2. <<c, mode>> \in P /\ <<c, mode>>[1] = c /\ <<c, mode>>[2] = mode
    OBVIOUS
  <2>3. f[<<c, mode>>] = s
    BY <2>1, <2>2
  <2> QED  BY <2>2, <2>3
<1>7. DOMAIN f = P /\ f \in [P -> T]
  BY <1>5
<1> HIDE DEF f, P, T
<1>8. f \in Bijection(P, T)
  BY <1>4, <1>6, <1>7 DEF Bijection, Injection, Surjection, IsInjective
<1>9. ExistsBijection(P, T)
  BY <1>8 DEF ExistsBijection
<1>10. Cardinality(T) = Cardinality(P)
  BY <1>3, <1>9, FS_Bijection
<1>11. Cardinality(Cells42) \in Nat
  BY <1>1, FS_CardinalityType
<1> QED  BY <1>3, <1>10, <1>11 DEF T

\* A cell has a delta where its model has a cell with the baseline's features.
LEMMA BaseOf ==
  ASSUME ReportOK, NEW mdl, NEW config, NEW mode \in Modes
  PROVE  HasBase(Entry42(mdl, config, mode))
           <=> \E b \in Cells42 : Of[b].model = mdl /\ Of[b].config = Baseline
<1>1. Idx42 = {EntryOf(c, m) : c \in Cells42, m \in Modes}
  BY Idx42Is
<1>2. HasBase(Entry42(mdl, config, mode)) <=> Entry42(mdl, Baseline, mode) \in Idx42
  BY DEF HasBase, Entry42
<1>3. ASSUME Entry42(mdl, Baseline, mode) \in Idx42
      PROVE  \E b \in Cells42 : Of[b].model = mdl /\ Of[b].config = Baseline
  <2>1. PICK b \in Cells42, m \in Modes : Entry42(mdl, Baseline, mode) = EntryOf(b, m)
    BY <1>1, <1>3
  <2> QED  BY <2>1 DEF EntryOf, Entry42
<1>4. ASSUME NEW b \in Cells42, Of[b].model = mdl, Of[b].config = Baseline
      PROVE  Entry42(mdl, Baseline, mode) \in Idx42
  BY <1>1, <1>4 DEF EntryOf
<1> QED  BY <1>2, <1>3, <1>4

\* Each failed cell has one failed row, and the rest are headers.
LEMMA FailedCount ==
  ASSUME ReportOK
  PROVE  Cardinality(DOMAIN report.failed) = Cardinality(FailedCells) + Cardinality(StrayHeaders)
<1> DEFINE S == DOMAIN report.failed
           R == S \ StrayHeaders
           f == [i \in R |-> report.failed[i]]
<1>1. IsFiniteSet(S) /\ StrayHeaders \in SUBSET S /\ R \in SUBSET S
  BY DEF ReportOK, StrayHeaders
<1>2. IsFiniteSet(R) /\ IsFiniteSet(StrayHeaders)
  <2> HIDE DEF S, R
  <2> QED  BY <1>1, FS_Subset
<1>3. \A i \in R : f[i] \in FailedCells
  BY DEF FailedCells, StrayHeaders
<1>4. \A c \in FailedCells : \E i \in R : f[i] = c
  BY DEF FailedCells, StrayHeaders
<1>5. \A i, j \in R : f[i] = f[j] => i = j
  BY DEF ReportOK, StrayHeaders
<1>6. DOMAIN f = R /\ f \in [R -> FailedCells]
  BY <1>3
<1>7. R \cap StrayHeaders = {} /\ R \cup StrayHeaders = S
  BY <1>1
<1> HIDE DEF f, R, S
<1>8. f \in Bijection(R, FailedCells)
  BY <1>4, <1>5, <1>6 DEF Bijection, Injection, Surjection, IsInjective
<1>9. Cardinality(FailedCells) = Cardinality(R)
  BY <1>2, <1>8, FS_Bijection DEF ExistsBijection
<1>10. Cardinality(S) = Cardinality(R) + Cardinality(StrayHeaders)
  <2>1. Cardinality({}) = 0
    BY FS_EmptySet
  <2>2. Cardinality(R) \in Nat /\ Cardinality(StrayHeaders) \in Nat
    BY <1>2, FS_CardinalityType
  <2>3. Cardinality(R \cup StrayHeaders)
          = Cardinality(R) + Cardinality(StrayHeaders) - Cardinality(R \cap StrayHeaders)
    BY <1>2, FS_Union
  <2>4. Cardinality(R \cap StrayHeaders) = 0 /\ Cardinality(R \cup StrayHeaders) = Cardinality(S)
    BY <1>7, <2>1
  <2> QED  BY <2>2, <2>3, <2>4
<1> QED  BY <1>9, <1>10 DEF S

LEMMA InvConsistent == AblationInv => ReportConsistent
<1> SUFFICES ASSUME AblationInv PROVE ReportConsistent
  OBVIOUS
<1>1. ReportOK
  BY DEF AblationInv
<1>2. /\ report.ok = ReportCells \X Modes
      /\ ReportCells \subseteq StudyCells /\ ReportCells \cap FailedCells = {}
  BY <1>1, ReportIsProduct
<1>3. ReportCells = {x[1] : x \in report.ok}
  BY DEF ReportCells
<1>4. /\ \A s \in SummaryByModel : \E c \in Cells42, mode \in Modes :
           s = [entry |-> EntryOf(c, mode), delta |-> HasBase(EntryOf(c, mode))]
      /\ \A c \in Cells42, mode \in Modes :
           [entry |-> EntryOf(c, mode), delta |-> HasBase(EntryOf(c, mode))] \in SummaryByModel
  BY <1>1, SummaryIs
<1> DEFINE based(c) == \E b \in Cells42 : Of[b].model = Of[c].model /\ Of[b].config = Baseline
<1>5. \A c, mode : mode \in Modes => (HasBase(EntryOf(c, mode)) <=> based(c))
  <2> SUFFICES ASSUME NEW c, NEW mode \in Modes PROVE HasBase(EntryOf(c, mode)) <=> based(c)
    OBVIOUS
  <2> QED  BY <1>1, BaseOf DEF EntryOf
<1>6. DatasetManifest.completed = Cardinality(Cells42)
  BY <1>3 DEF DatasetManifest, Cells42
<1>7. {t.cell : t \in {u \in ThresholdsBySeed : u.part = "1_ablation"}} = Cells42
  <2> DEFINE T == {u \in ThresholdsBySeed : u.part = "1_ablation"}
  <2>1. \A c : PartOf(c) = "1_ablation" <=> Of[c].seed = AblationSeed
    BY DEF PartOf
  <2>2. ASSUME NEW t \in T PROVE t.cell \in Cells42
    <3>1. PICK x \in report.ok : t = [cell |-> x[1], part |-> PartOf(x[1])]
      BY DEF ThresholdsBySeed
    <3>2. t.cell = x[1] /\ t.part = PartOf(x[1]) /\ t.part = "1_ablation"
      BY <3>1
    <3> QED  BY <1>3, <2>1, <3>2 DEF Cells42
  <2>3. ASSUME NEW c \in Cells42 PROVE \E t \in T : t.cell = c
    <3>1. PICK x \in report.ok : x[1] = c
      BY <1>3 DEF Cells42
    <3> DEFINE t == [cell |-> x[1], part |-> PartOf(x[1])]
    <3>2. t \in ThresholdsBySeed
      BY DEF ThresholdsBySeed
    <3>3. t.part = "1_ablation" /\ t.cell = c
      BY <2>1, <3>1 DEF Cells42
    <3> QED  BY <3>2, <3>3
  <2>4. {t.cell : t \in T} = Cells42
    <3> HIDE DEF T
    <3> QED  BY <2>2, <2>3
  <2> QED  BY <2>4
<1>8. \A s \in SummaryByModel : \A mode \in Modes : [s EXCEPT !.entry.mode = mode] \in SummaryByModel
  <2> SUFFICES ASSUME NEW s \in SummaryByModel, NEW mode \in Modes
               PROVE  [s EXCEPT !.entry.mode = mode] \in SummaryByModel
    OBVIOUS
  <2>1. PICK c \in Cells42, m \in Modes :
          s = [entry |-> EntryOf(c, m), delta |-> HasBase(EntryOf(c, m))]
    BY <1>4
  <2> DEFINE h == HasBase(EntryOf(c, m))
             e == EntryOf(c, m)
             f == EntryOf(c, mode)
  <2>2. [e EXCEPT !.mode = mode] = f
    BY EntriesOf
  <2>3. HasBase(f) = h
    <3>1. HasBase(f) <=> HasBase(e)
      BY <1>5
    <3> QED  BY <3>1 DEF HasBase
  <2>4. [entry |-> f, delta |-> HasBase(f)] \in SummaryByModel
    BY <1>4
  <2> HIDE DEF h, e, f
  <2>5. [s EXCEPT !.entry.mode = mode] = [entry |-> [e EXCEPT !.mode = mode], delta |-> h]
    BY <2>1 DEF e, h
  <2> QED  BY <2>2, <2>3, <2>4, <2>5
<1>9. {Of[c].config : c \in Cells42} = {s.entry.config : s \in SummaryByModel}
  <2>1. ASSUME NEW s \in SummaryByModel PROVE \E c \in Cells42 : Of[c].config = s.entry.config
    BY <1>4, EntriesOf
  <2>2. ASSUME NEW c \in Cells42 PROVE \E s \in SummaryByModel : s.entry.config = Of[c].config
    <3> DEFINE s == [entry |-> EntryOf(c, "hybrid"), delta |-> HasBase(EntryOf(c, "hybrid"))]
    <3>1. s \in SummaryByModel
      BY <1>4 DEF Modes
    <3>2. s.entry.config = Of[c].config
      BY EntriesOf
    <3> QED  BY <3>1, <3>2
  <2> QED  BY <2>1, <2>2
<1>10. ASSUME NEW x \in CrossModelComparison, x.judged,
              NEW s \in SummaryByModel, s.entry.config = x.config, s.entry.mode = x.mode
       PROVE  s.delta
  <2> DEFINE judged(e) == /\ e.config # Baseline
                          /\ \A m \in {"lstm", "gru"} : HasBase([e EXCEPT !.model = m])
  <2>1. PICK e \in Idx42 : x = [config |-> e.config, mode |-> e.mode, judged |-> judged(e)]
    BY DEF CrossModelComparison
  <2>2. PICK b \in Cells42, n \in Modes : e = EntryOf(b, n)
    BY <1>1, Idx42Is
  <2>3. PICK c \in Cells42, m \in Modes :
          s = [entry |-> EntryOf(c, m), delta |-> HasBase(EntryOf(c, m))]
    BY <1>4
  <2>4. Of[c].model \in {"lstm", "gru"}
    <3>1. c \in DOMAIN Of
      BY <1>2, ReportAssumption DEF Cells42, StudyCells
    <3> QED  BY <3>1, ReportAssumption
  <2>5. HasBase([e EXCEPT !.model = Of[c].model])
    <3>1. judged(e)
      <4> HIDE DEF judged
      <4> QED  BY <1>10, <2>1
    <3> QED  BY <2>4, <3>1
  <2>6. [e EXCEPT !.model = Of[c].model] = Entry42(Of[c].model, e.config, n)
    BY <2>2 DEF EntryOf, Entry42
  <2>7. based(c)
    <3>1. HasBase(Entry42(Of[c].model, e.config, n))
      BY <2>5, <2>6
    <3> HIDE DEF judged
    <3> QED  BY <1>1, <3>1, BaseOf
  <2> QED  BY <1>5, <2>3, <2>7
<1>11. {s.seed : s \in SeedSensitivity} = DatasetManifest.seeds
  <2>1. DatasetManifest.seeds = {Of[c].seed : c \in {d \in ReportCells : Of[d].config = Baseline}}
    BY <1>3 DEF DatasetManifest
  <2>2. ASSUME NEW s \in SeedSensitivity
        PROVE  \E c \in ReportCells : Of[c].config = Baseline /\ Of[c].seed = s.seed
    BY <1>3 DEF SeedSensitivity
  <2>3. ASSUME NEW c \in ReportCells, Of[c].config = Baseline
        PROVE  \E s \in SeedSensitivity : s.seed = Of[c].seed
    <3>1. PICK x \in report.ok : x[1] = c
      BY <1>3
    <3> DEFINE s == [model |-> Of[x[1]].model, seed |-> Of[x[1]].seed, mode |-> x[2]]
    <3>2. s \in SeedSensitivity
      BY <2>3, <3>1 DEF SeedSensitivity
    <3>3. s.seed = Of[c].seed
      BY <3>1
    <3> QED  BY <3>2, <3>3
  <2> QED  BY <2>1, <2>2, <2>3
<1>12. ASSUME NEW r \in SeedRanges, AblationSeed \in r.seeds
       PROVE  Entry42(r.model, Baseline, r.mode) \in {s.entry : s \in SummaryByModel}
  <2>1. PICK q \in SeedSensitivity :
          /\ r.model = q.model /\ r.mode = q.mode
          /\ r.seeds = {s.seed : s \in {t \in SeedSensitivity : t.model = q.model /\ t.mode = q.mode}}
    BY DEF SeedRanges
  <2>2. PICK s \in SeedSensitivity : s.model = q.model /\ s.mode = q.mode /\ s.seed = AblationSeed
    BY <1>12, <2>1
  <2>3. PICK x \in report.ok :
          /\ Of[x[1]].config = Baseline
          /\ s = [model |-> Of[x[1]].model, seed |-> Of[x[1]].seed, mode |-> x[2]]
    BY DEF SeedSensitivity
  <2>4. x[1] \in Cells42 /\ x[2] \in Modes
    BY <1>2, <2>2, <2>3 DEF Cells42
  <2> DEFINE line == [entry |-> EntryOf(x[1], x[2]), delta |-> HasBase(EntryOf(x[1], x[2]))]
  <2>5. line \in SummaryByModel
    BY <1>4, <2>4
  <2>6. line.entry = Entry42(r.model, Baseline, r.mode)
    BY <2>1, <2>2, <2>3 DEF EntryOf
  <2> QED  BY <2>5, <2>6
<1>13. {t.cell : t \in TrainingRuntime} \cap FailedCells = {}
  <2>1. \A t \in TrainingRuntime : t.cell \in ReportCells
    BY <1>3 DEF TrainingRuntime
  <2> QED  BY <1>2, <2>1
<1>14. Cardinality(SummaryByModel) = 2 * DatasetManifest.completed
  BY <1>1, <1>6, SummaryCount
<1>15. DatasetManifest.failed = Cardinality(FailedCells) + Cardinality(StrayHeaders)
  BY <1>1, FailedCount DEF DatasetManifest
<1> HIDE DEF based
<1> QED  BY <1>6, <1>7, <1>8, <1>9, <1>10, <1>11, <1>12, <1>13, <1>14, <1>15 DEF ReportConsistent

(* The tables of aggregate_grouped_ablation.py are of one experiment,        *)
(* whichever drivers have written, been killed or failed before it reads:    *)
(* every cell in both modes, the manifest's counts and seeds those of the    *)
(* tables, a comparison judged only where both models have their baseline,   *)
(* no cell both listed and failed, and each failed cell counted once beside  *)
(* the headers that drivers side by side wrote twice.                        *)
THEOREM TablesConsistent == AblationSpec => [](ReportPaired /\ ReportConsistent)
<1>1. AblationSpec => []AblationInv
  BY AblationInvInit, AblationInvStep, PTL DEF AblationSpec
<1>2. AblationInv => ReportPaired
  BY DEF AblationInv, ReportOK
<1> QED  BY <1>1, <1>2, InvConsistent, PTL
================================================================================
