----------------------------- MODULE DetectionEval -----------------------------
(***************************************************************************)
(* src/scripts/eval/evaluate_detection.py: run_evaluation with one LSTM or  *)
(* the ensemble of two, and the tables it writes.  A step is a row of the   *)
(* dataset, rows a second apart; the rule engine's severity (RulePort) and  *)
(* the networks' scores come with the row.  Thresholds are in the unit of   *)
(* the scores.                                                              *)
(***************************************************************************)
EXTENDS Integers, Sequences, FiniteSets

CONSTANTS
  Dataset,     \* [label, rule, quiet, raw] the dataset may hold
  SeqWindow,    \* seq_len
  SmoothN,      \* score_smooth_n
  MinConsec,    \* min_consec
  Thresh, QuietThresh,   \* by model: its threshold and 0.65 of it
  LstmPersist,  \* the 30 s of severity 2
  MaxData       \* bound on the rows

LstmModels == {"a", "b"}
ASSUME DetectionEvalAssumption ==
  /\ Dataset \subseteq [label : 0..5, rule : 0..2, quiet : BOOLEAN, raw : [LstmModels -> Nat]]
  /\ {SeqWindow, SmoothN, MinConsec, LstmPersist, MaxData} \subseteq Nat \ {0}
  /\ {Thresh, QuietThresh} \subseteq [LstmModels -> Nat]

VARIABLES
  ensemble,   \* --dual
  lstm,       \* the LSTMDetectors
  above,      \* _cnt_a, _cnt_b
  rowsSeen    \* history, which is what the tables are made from

detEvalVars == <<ensemble, lstm, above, rowsSeen>>

DetEvalInit ==
  /\ ensemble \in BOOLEAN
  /\ lstm = [m \in LstmModels |->
               [filled |-> 0, scores |-> [i \in 1..SmoothN |-> 0], count |-> 0, dur |-> 0]]
  /\ above = [m \in LstmModels |-> 0]
  /\ rowsSeen = <<>>

-----------------------------------------------------------------------------
(* LSTMDetector.update.  The row that fills the window is not scored yet.   *)

Filling(m) == lstm[m].filled < SeqWindow
Smoothed(m, row) == Append(Tail(lstm[m].scores), row.raw[m])
ScoreSum(scores) ==
  LET sum[i \in 0..Len(scores)] == IF i = 0 THEN 0 ELSE sum[i - 1] + scores[i]
  IN sum[Len(scores)]
\* score > limit, for the mean of the last scores.
MeanAbove(scores, limit) == ScoreSum(scores) > limit * SmoothN
Anomalous(m, row) ==
  MeanAbove(Smoothed(m, row), IF row.quiet THEN QuietThresh[m] ELSE Thresh[m])

Updated(m, row) ==
  IF Filling(m) THEN [lstm[m] EXCEPT !.filled = @ + 1]
  ELSE [filled |-> SeqWindow, scores |-> Smoothed(m, row),
        count |-> IF Anomalous(m, row) THEN lstm[m].count + 1 ELSE 0,
        dur |-> IF Anomalous(m, row) /\ lstm[m].count > 0 THEN lstm[m].dur + 1 ELSE 0]
LstmSeverity(m, row) ==
  IF Filling(m) THEN 0
  ELSE IF Updated(m, row).dur >= LstmPersist THEN 2
  ELSE IF Updated(m, row).count >= MinConsec THEN 1 ELSE 0

(* DualLSTMDetector.update: counts of its own, on the detectors' scores.    *)
\* Mutant of AboveNext: a row below the threshold is passed over.
AboveNextKept(m, row) ==
  IF ~Filling(m) /\ MeanAbove(Smoothed(m, row), Thresh[m]) THEN above[m] + 1 ELSE above[m]
AboveNext(m, row) ==
  IF ~Filling(m) /\ MeanAbove(Smoothed(m, row), Thresh[m]) THEN above[m] + 1 ELSE 0
DualSeverity(row) ==
  IF \E m \in LstmModels : AboveNext(m, row) >= MinConsec THEN 1 ELSE 0

\* The loop over the rows; the hybrid severity is the greater of the two.
EvaluateRow(row) ==
  LET ml == IF ensemble THEN DualSeverity(row) ELSE LstmSeverity("a", row)
  IN
  /\ Len(rowsSeen) < MaxData
  /\ lstm' = [m \in LstmModels |-> Updated(m, row)]
  /\ above' = IF ensemble THEN [m \in LstmModels |-> AboveNext(m, row)] ELSE above
  /\ rowsSeen' = Append(rowsSeen,
       [label |-> row.label, stage1 |-> row.rule, stage2 |-> ml,
        hybrid |-> IF row.rule > ml THEN row.rule ELSE ml, raw |-> row.raw])
  /\ UNCHANGED ensemble

DetEvalNext == \E row \in Dataset : EvaluateRow(row)

DetEvalSpec == DetEvalInit /\ [][DetEvalNext]_detEvalVars

-----------------------------------------------------------------------------
(* The tables.  A pipeline is "stage1", "stage2" or "hybrid".               *)

Pipelines == {"stage1", "stage2", "hybrid"}
Counted(pipeline, labels, fired) ==
  Cardinality({i \in DOMAIN rowsSeen :
                 rowsSeen[i].label \in labels /\ (rowsSeen[i][pipeline] >= 1) = fired})

\* stage_metrics and binary_metrics
StageMetrics(pipeline) ==
  [tp |-> Counted(pipeline, 1..5, TRUE), fn |-> Counted(pipeline, 1..5, FALSE),
   fp |-> Counted(pipeline, {0}, TRUE), tn |-> Counted(pipeline, {0}, FALSE)]

\* attack_metrics: the rows of one attack, and the benign ones.
AttackMetrics(pipeline, lbl) ==
  [tp |-> Counted(pipeline, {lbl}, TRUE), fn |-> Counted(pipeline, {lbl}, FALSE),
   fp |-> Counted(pipeline, {0}, TRUE), tn |-> Counted(pipeline, {0}, FALSE)]

\* The breakdown of a label: rule, LSTM, both, either.
Breakdown(lbl) ==
  LET fired(p) == {i \in DOMAIN rowsSeen : rowsSeen[i].label = lbl /\ rowsSeen[i][p] >= 1}
  IN [rule |-> Cardinality(fired("stage1")), lstm |-> Cardinality(fired("stage2")),
      both |-> Cardinality(fired("stage1") \cap fired("stage2")),
      either |-> Cardinality(fired("stage1") \cup fired("stage2"))]

-----------------------------------------------------------------------------
DetEvalTypeOK ==
  /\ \A m \in LstmModels : /\ lstm[m].filled \in 0..SeqWindow
                           /\ lstm[m].count \in 0..MaxData /\ lstm[m].dur \in 0..MaxData
                           /\ above[m] \in 0..MaxData
  /\ Len(rowsSeen) <= MaxData

(* The ensemble is documented as a vote of two in the last three raw scores *)
(* (lines 423-429); the code counts smoothed scores in a row.  What is left *)
(* of the vote, as long as SmoothN is below MinConsec: one outlier never    *)
(* alerts; two raw scores of one model are above its threshold among those  *)
(* that the alert's smoothed scores are made of.                            *)
NoAlertOnOneSpike ==
  ensemble /\ rowsSeen # <<>> /\ rowsSeen[Len(rowsSeen)].stage2 = 1 =>
    \E m \in LstmModels :
      Cardinality({i \in DOMAIN rowsSeen :
                     /\ i > SeqWindow /\ i > Len(rowsSeen) - (MinConsec + SmoothN - 1)
                     /\ rowsSeen[i].raw[m] > Thresh[m]}) >= 2

(* The tables are of the same rows: over the attacks, the detections and    *)
(* misses add up to the stage's, each attack is charged with exactly the    *)
(* stage's false alarms, and "either" is what the hybrid detects.           *)
TablesAgree ==
  \A p \in Pipelines :
    LET all == StageMetrics(p)
        of(lbl) == AttackMetrics(p, lbl)
    IN /\ of(1).tp + of(2).tp + of(3).tp + of(4).tp + of(5).tp = all.tp
       /\ of(1).fn + of(2).fn + of(3).fn + of(4).fn + of(5).fn = all.fn
       /\ \A lbl \in 1..5 : AttackMetrics(p, lbl).fp = all.fp /\ AttackMetrics(p, lbl).tn = all.tn
       /\ \A lbl \in 0..5 :
            /\ Breakdown(lbl).either = Counted("hybrid", {lbl}, TRUE)
            /\ Breakdown(lbl).either + Breakdown(lbl).both = Breakdown(lbl).rule + Breakdown(lbl).lstm
==============================================================================
