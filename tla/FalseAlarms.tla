------------------------------ MODULE FalseAlarms ------------------------------
(***************************************************************************)
(* src/scripts/eval/eval_opsi_b.py and evaluate_scoring_comparison.py: the  *)
(* evaluation at a calibrated threshold and its account of false alarms as  *)
(* windows, as episodes and as the alerts the xApp's cooldown lets through. *)
(* The windows are those of PerUeEval; a calibration set is the benign ones *)
(* of the file itself, or the file when all of it is benign.                *)
(***************************************************************************)
EXTENDS PerUeEval, Calibration

CONSTANTS
  TargetFpr,     \* permille: TARGET_FPR_ATTACK, TARGETS
  Cooldown    \* ALERT_COOLDOWN_MS, in the seconds of ts

ASSUME FalseAlarmsAssumption == TargetFpr \in 0..999 /\ Cooldown \in Nat \ {0}

\* arr[neg] of every array: the benign windows, closed up.
Benign(w) == RowsAt(w, {i \in DOMAIN w : w[i].label = 0})
ThresholdOn(w) == CalibrateHybrid([i \in DOMAIN w |-> [rule |-> w[i].rule, score |-> w[i].score]],
                                  TargetFpr)
HybridAt(w, thr) == [i \in DOMAIN w |-> w[i].rule \/ Exceeds(w[i].score, thr)]

\* metrics_from_fires: misses and correct rejections by subtraction.
Confusion(w, fires) ==
  LET pos == {i \in DOMAIN w : w[i].label > 0}
      neg == {i \in DOMAIN w : w[i].label = 0}
      fired(S) == Cardinality({i \in S : fires[i]})
  IN [tp |-> fired(pos), fn |-> Cardinality(pos) - fired(pos),
      fp |-> fired(neg), tn |-> Cardinality(neg) - fired(neg)]

-----------------------------------------------------------------------------
(* fpr_report, on windows w and what fires on them                         *)

SameRun(w, fires, i) == i > 1 /\ fires[i - 1] /\ w[i - 1].ue = w[i].ue
\* Mutant of EpisodeStarts: a new UE does not end an episode.
EpisodeStartsOfAll(w, fires) == {i \in DOMAIN w : fires[i] /\ ~(i > 1 /\ fires[i - 1])}
EpisodeStarts(w, fires) == {i \in DOMAIN w : fires[i] /\ ~SameRun(w, fires, i)}
CountEpisodes(w, fires) == Cardinality(EpisodeStarts(w, fires))

\* The loop of episode_durations_s: the open episode's start, 0 for none, and
\* the durations of those that have ended.
EpisodeStep(w, fires, acc, i) ==
  LET ended == Append(acc.durations, w[i - 1].ts - w[acc.start].ts) IN
  IF fires[i] /\ (acc.start = 0 \/ w[i].ue # w[i - 1].ue)
  THEN [start |-> i, durations |-> IF acc.start = 0 THEN acc.durations ELSE ended]
  ELSE IF ~fires[i] /\ acc.start # 0 THEN [start |-> 0, durations |-> ended]
  ELSE acc
EpisodeDurations(w, fires) ==
  LET acc[i \in 0..Len(w)] == IF i = 0 THEN [start |-> 0, durations |-> <<>>]
                              ELSE EpisodeStep(w, fires, acc[i - 1], i)
      all == acc[Len(w)]
  IN IF all.start = 0 THEN all.durations
     ELSE Append(all.durations, w[Len(w)].ts - w[all.start].ts)

\* The windows in which the cooldown of the UE has run out.
Alerts(w, fires) ==
  LET given[i \in 0..Len(w)] ==
        IF i = 0 THEN {}
        ELSE IF fires[i] /\ \A j \in given[i - 1] :
                              w[j].ue = w[i].ue => w[i].ts - w[j].ts >= Cooldown
        THEN given[i - 1] \cup {i} ELSE given[i - 1]
  IN given[Len(w)]

FprReport(w, fires) ==
  [fired |-> Cardinality({i \in DOMAIN w : fires[i]}), total |-> Len(w),
   episodes |-> CountEpisodes(w, fires), durations |-> EpisodeDurations(w, fires),
   alerts |-> Cardinality(Alerts(w, fires))]

\* evaluate_at_target for the hybrid decision, calibrated on cal.
EvaluateAtTarget(cal, w) ==
  LET fires == HybridAt(w, ThresholdOn(cal))
      neg == Benign(w)
  IN [confusion |-> Confusion(w, fires),
      fpr |-> FprReport(neg, HybridAt(neg, ThresholdOn(cal)))]
Evaluated == EvaluateAtTarget(Benign(Pool(csv)), Pool(csv))

-----------------------------------------------------------------------------
(* On the windows it was calibrated on the hybrid keeps the target, unless  *)
(* the rules alone do not, and no lower threshold would keep it: the next   *)
(* lower score and every one below it breaks it.                            *)
CalibratedLowest ==
  LET cal == Benign(Pool(csv))
      fired(thr) == Cardinality({i \in DOMAIN cal : HybridAt(cal, thr)[i]})
      keeps(thr) == 1000 * fired(thr) <= TargetFpr * Len(cal)
  IN cal # <<>> /\ keeps(Inf) =>
       /\ keeps(ThresholdOn(cal))
       /\ \A t \in {x.score : x \in ToSet(cal)} :
            keeps(t) => ThresholdOn(cal) # Inf /\ ThresholdOn(cal) <= t

(* Two countings of one thing: the offline evaluation's confusion matrix    *)
(* and this one's, and the false alarms they count are the ones reported.   *)
TalliesAgree ==
  LET w == Pool(csv)
      fires == HybridAt(w, ThresholdOn(Benign(w)))
  IN /\ Evaluated.confusion = ConfusionMatrix(w, fires)
     /\ Evaluated.fpr.fired = Evaluated.confusion.fp
     /\ Evaluated.fpr.total = Evaluated.confusion.fp + Evaluated.confusion.tn

(* Every episode counted has a duration, and more alerts than episodes are  *)
(* accounted for by durations of the cooldown and more ("an episode longer  *)
(* than the 30 s cooldown legitimately emits more than one alert"): an      *)
(* episode of d seconds gives at most 1 + d \div Cooldown.                  *)
AlertsExplained ==
  LET r == Evaluated.fpr IN
  /\ Len(r.durations) = r.episodes
  /\ r.alerts <= r.episodes + SumOf([k \in DOMAIN r.durations |-> r.durations[k] \div Cooldown])
  /\ r.fired > 0 => r.alerts > 0

(* The windows of attacks are cut out before episodes are counted: a false  *)
(* alarm before an attack and one after it count as one, and the attack     *)
(* between them into its duration.  At most one episode is lost for each    *)
(* gap cut out, and none is gained.                                         *)
EpisodesAcrossAttacks ==
  LET w == Pool(csv)
      thr == ThresholdOn(Benign(w))
      false == [i \in DOMAIN w |-> w[i].label = 0 /\ HybridAt(w, thr)[i]]
      gaps == {i \in DOMAIN w : i > 1 /\ w[i].label = 0 /\ w[i - 1].label > 0}
  IN /\ Evaluated.fpr.episodes <= CountEpisodes(w, false)
     /\ CountEpisodes(w, false) <= Evaluated.fpr.episodes + Cardinality(gaps)
==============================================================================
