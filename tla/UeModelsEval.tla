----------------------------- MODULE UeModelsEval -----------------------------
(***************************************************************************)
(* src/scripts/eval/evaluate_ue_models.py: the first evaluation of the      *)
(* per-UE models.  It slides its window over the file as it stands, so that *)
(* where UEs interleave a window has rows of several; such a window has a   *)
(* score no row carries, here any number mix.                               *)
(***************************************************************************)
EXTENDS PerUeEval

\* score_gru, score_lstm: one score for each window.
UnsplitScores(rows, mix) ==
  [i \in 1..(Len(rows) - W + 1) |->
     LET last == rows[i + W - 1] IN
     IF \A j \in i..(i + W - 1) : rows[j].ue = last.ue THEN last.score ELSE mix]
AlignLabels(rows) == [i \in 1..(Len(rows) - W + 1) |-> rows[i + W - 1].label]

\* compute_metrics: the threshold itself is an anomaly.
ComputeMetrics(scores, labels) ==
  LET count(pred, attack) ==
        Cardinality({i \in DOMAIN scores :
                       (scores[i] >= Threshold) = pred /\ (labels[i] > 0) = attack})
  IN [tp |-> count(TRUE, TRUE), fp |-> count(TRUE, FALSE),
      tn |-> count(FALSE, FALSE), fn |-> count(FALSE, TRUE)]
\* per_label_recall, benign included.
PerLabelRecall(scores, labels) ==
  [l \in {labels[i] : i \in DOMAIN labels} |->
     LET class == {i \in DOMAIN labels : labels[i] = l}
     IN <<Cardinality({i \in class : scores[i] >= Threshold}), Cardinality(class)>>]

\* The two parts of the result file, a model at a time.
BenignValidation(rows, mix) == ComputeMetrics(UnsplitScores(rows, mix), AlignLabels(rows))
AttackPartial(rows, mix) ==
  LET scores == UnsplitScores(rows, mix)
      labels == AlignLabels(rows)
  IN [metrics |-> ComputeMetrics(scores, labels),
      per_label |-> PerLabelRecall(scores, labels)]

-----------------------------------------------------------------------------
(* On the rows of one UE the first evaluation and evaluate_per_ue_v2 count   *)
(* the same windows, class by class; they differ by the windows that score   *)
(* exactly the threshold, anomalies in the first only, and the benign part   *)
(* of the one is the false alarms of the other.                              *)
UnsplitAgrees ==
  \A ue \in UeSet(csv) :
    LET rows == SplitByRnti(csv, ue)
        first == AttackPartial(rows, 0)
        w == Pool(rows)
        later == Entry(w, Fires(w, "ml"))
        atThreshold(S) == Cardinality({i \in DOMAIN w : w[i].score = Threshold /\ w[i].label \in S})
    IN /\ first.metrics.tp + first.metrics.fn = later.cm.tp + later.cm.fn
       /\ first.metrics.fp = later.cm.fp + atThreshold({0})
       /\ \A l \in DOMAIN later.perClass :
            first.per_label[l] = <<later.perClass[l][1] + atThreshold({l}), later.perClass[l][2]>>
       /\ BenignValidation(RowsAt(rows, {i \in DOMAIN rows : rows[i].label = 0}), 0).tp = 0

(* On a whole file it scores windows that no UE has: between the first and   *)
(* the last row of a UE each turn to another UE makes some, and their        *)
(* number alone can move the rate of false alarms either way.                *)
UnsplitCounts ==
  Len(UnsplitScores(csv, 0)) - Len(Pool(csv))
    = IF Len(csv) < W THEN -Len(Pool(csv))
      ELSE Total(LAMBDA g : Min({W - 1, Len(g)}), csv) - (W - 1)
==============================================================================
