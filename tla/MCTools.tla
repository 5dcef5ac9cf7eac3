-------------------------------- MODULE MCTools --------------------------------
(***************************************************************************)
(* Model checking instance of the parts that run on their own: of the xApp  *)
(* the rule engine and the UE tracker, each behind its mutex, and beside it *)
(* the Python programs, that is, the offline detectors, training,           *)
(* evaluations, ablation study and the CSV exporter.  None of them calls    *)
(* another; a behaviour is one of them at work, part says which, and the    *)
(* others stay as they were.                                                *)
(***************************************************************************)
EXTENDS AnomalyDetector, Training, RunEval, FalseAlarms, ThresholdSweep, UeModelsEval,
        AblationReport, RulePort, DetectionEval, UeMetrics, CellMetrics, WatchedFiles,
        MCSecIds, UeTrackerObserver, TLC

VARIABLE part

\* KPI samples: calm, an RRC storm, a MAC load without payload, floods within
\* and above 100 Mbps, jamming.
CalmKpi == [rrc |-> 10, attach |-> 1, prb |-> 10, ul |-> 1000, dl |-> 2000,
            snr |-> 30, cqi |-> 15, handover |-> 0]
MCKpis ==
  {CalmKpi, [CalmKpi EXCEPT !.rrc = 600], [CalmKpi EXCEPT !.prb = 30, !.ul = 50, !.dl = 50],
   [CalmKpi EXCEPT !.prb = 90, !.ul = 20000, !.dl = 100],
   [CalmKpi EXCEPT !.prb = 90, !.ul = 120000, !.dl = 100],
   [CalmKpi EXCEPT !.prb = 90, !.ul = 100, !.dl = 60000],
   [CalmKpi EXCEPT !.prb = 90, !.ul = 100, !.dl = 120000],
   [CalmKpi EXCEPT !.prb = 90, !.snr = 5]}

\* Rows of two UEs, two classes of attack and two rules.
UeRow(ue, label, hits, score) == [ue |-> ue, label |-> label, hits |-> hits, score |-> score]
MCRowKinds ==
  {UeRow(1, 0, {1}, 2), UeRow(1, 1, {1}, 1), UeRow(1, 2, {2}, 2),
   UeRow(2, 0, {1}, 0), UeRow(2, 1, {}, 2)}
MCNeed == <<2, 3>>

\* Two drivers side by side, one with two seeds, one with two feature sets.
MCOf == ("lstm full 42" :> [model |-> "lstm", config |-> "full_19", seed |-> 42])
     @@ ("lstm full 43" :> [model |-> "lstm", config |-> "full_19", seed |-> 43])
     @@ ("gru full 42" :> [model |-> "gru", config |-> "full_19", seed |-> 42])
     @@ ("gru drop 42" :> [model |-> "gru", config |-> "drop_mac", seed |-> 42])
MCCellPlan == ("lstm" :> <<"lstm full 42", "lstm full 43">>)
           @@ ("gru" :> <<"gru full 42", "gru drop 42">>)

\* Cell rows: quiet, saturated either way, two storm conditions, radio lost.
QuietRow == [ul |-> 10, dl |-> 10, empty |-> 0, rach |-> 0, cqi |-> 12, delay |-> 0]
MCRows ==
  {QuietRow, [QuietRow EXCEPT !.ul = 90], [QuietRow EXCEPT !.dl = 90],
   [QuietRow EXCEPT !.empty = 3], [QuietRow EXCEPT !.rach = 1],
   [QuietRow EXCEPT !.ul = 2, !.dl = 2, !.cqi = 4]}

DataRow(label, rule, quiet, a, b) ==
  [label |-> label, rule |-> rule, quiet |-> quiet, raw |-> ("a" :> a @@ "b" :> b)]
MCDataset ==
  {DataRow(0, 0, TRUE, 3, 0), DataRow(1, 1, FALSE, 9, 0), DataRow(2, 0, FALSE, 5, 9)}
MCThresh == "a" :> 4 @@ "b" :> 4
MCQuietThresh == "a" :> 2 @@ "b" :> 2

-----------------------------------------------------------------------------
Parts == {"detector", "training", "evaluation", "ablation", "rules", "detection",
          "ueMetrics", "cellMetrics", "gru", "watched", "ids", "tracker"}

ToolsInit ==
  /\ part \in Parts
  /\ DetInit /\ TrainInit /\ EvalInit /\ AblationInit /\ PortInit /\ DetEvalInit
  /\ UeMetricsInit /\ CellInit /\ WatchInit
  /\ IdsObsInit /\ TrackerObsInit
  /\ part = "detection" \/ ~ensemble

ToolsNext ==
  \/ /\ part = "detector" /\ DetNext
     /\ UNCHANGED <<part, trainVars, csv, ablationVars, portVars, detEvalVars,
                    ueMetricsVars, cellVars, watchVars, idsObsVars, trackerObsVars>>
  \/ /\ part = "training" /\ TrainNext
     /\ UNCHANGED <<part, detVars, csv, ablationVars, portVars, detEvalVars,
                    ueMetricsVars, cellVars, watchVars, idsObsVars, trackerObsVars>>
  \/ /\ part = "evaluation" /\ EvalNext
     /\ UNCHANGED <<part, detVars, trainVars, ablationVars, portVars, detEvalVars,
                    ueMetricsVars, cellVars, watchVars, idsObsVars, trackerObsVars>>
  \/ /\ part = "ablation" /\ AblationNext
     /\ UNCHANGED <<part, detVars, trainVars, csv, portVars, detEvalVars,
                    ueMetricsVars, cellVars, watchVars, idsObsVars, trackerObsVars>>
  \/ /\ part = "rules" /\ PortNext
     /\ UNCHANGED <<part, detVars, trainVars, csv, ablationVars, detEvalVars,
                    ueMetricsVars, cellVars, watchVars, idsObsVars, trackerObsVars>>
  \/ /\ part = "detection" /\ DetEvalNext
     /\ UNCHANGED <<part, detVars, trainVars, csv, ablationVars, portVars,
                    ueMetricsVars, cellVars, watchVars, idsObsVars, trackerObsVars>>
  \/ /\ part = "ueMetrics" /\ UeMetricsNext
     /\ UNCHANGED <<part, detVars, trainVars, csv, ablationVars, portVars,
                    detEvalVars, cellVars, watchVars, idsObsVars, trackerObsVars>>
  \* The GRU loop only reads what the tail stores: it is checked on quiet rows,
  \* and the stages without it.
  \/ /\ \/ part = "cellMetrics" /\ CellNext /\ UNCHANGED gruWindow
        \/ part = "gru" /\ CellNext /\ UNCHANGED <<cellStage, clock>>
     /\ UNCHANGED <<part, detVars, trainVars, csv, ablationVars, portVars,
                    detEvalVars, ueMetricsVars, watchVars, idsObsVars,
                    trackerObsVars>>
  \/ /\ part = "watched" /\ WatchNext
     /\ UNCHANGED <<part, detVars, trainVars, csv, ablationVars, portVars,
                    detEvalVars, ueMetricsVars, cellVars, idsObsVars, trackerObsVars>>
  \/ /\ part = "ids" /\ IdsObsNext
     /\ UNCHANGED <<part, detVars, trainVars, csv, ablationVars, portVars,
                    detEvalVars, ueMetricsVars, cellVars, watchVars, trackerObsVars>>
  \/ /\ part = "tracker" /\ TrackerObsNext
     /\ UNCHANGED <<part, detVars, trainVars, csv, ablationVars, portVars,
                    detEvalVars, ueMetricsVars, cellVars, watchVars, idsObsVars>>

toolsVars == <<part, detVars, trainVars, csv, ablationVars, portVars,
               detEvalVars, ueMetricsVars, cellVars, watchVars, idsObsVars,
               trackerObsVars>>
ToolsSpec == ToolsInit /\ [][ToolsNext]_toolsVars

-----------------------------------------------------------------------------
(* The types of the variables of the part at work.                          *)
ToolsTypeOK ==
  CASE part = "detector" -> DetTypeOK
    [] part = "training" -> TrainTypeOK
    [] part = "evaluation" -> EvalTypeOK
    [] part = "ablation" -> AblationTypeOK
    [] part = "rules" -> PortTypeOK
    [] part = "detection" -> DetEvalTypeOK
    [] part = "ueMetrics" -> UeMetricsTypeOK
    [] part \in {"cellMetrics", "gru"} -> CellTypeOK
    [] part = "watched" -> WatchTypeOK
    [] part = "ids" -> IdsTypeOK
    [] part = "tracker" -> TrackerTypeOK

(* What training keeps, in memory and in the checkpoint file, is the best   *)
(* epoch of the run, as far as NaN losses let it be (train_with_val).       *)
BestWeightsKept == part = "training" => BestKept /\ CheckpointIsBest

(* The files of a model whose run ended are one run's, and the scaler its   *)
(* weights need is among them (the main of each training script).           *)
FilesMatch == part = "training" => FilesOfOneRun /\ ScalerLostToLaterRun

(* Where two programs, or two tables of one, count the same rows, they      *)
(* count the same: the dashboard and the offline evaluation, the first and  *)
(* the second evaluation of the per-UE models, the account of false alarms  *)
(* and the confusion matrix, the tables of evaluate_detection.              *)
CountsAgree ==
  /\ part = "evaluation" =>
       DashboardAgrees /\ UnsplitAgrees /\ UnsplitCounts /\ TalliesAgree /\ MixedOfScored
  /\ part = "detection" => TablesAgree

(* Alerts and episodes account for each other and for the false alarms      *)
(* (count_episodes, cooldown_alerts, fpr_report).                           *)
FalseAlarmsExplained ==
  part = "evaluation" => AlertsExplained /\ EpisodesAcrossAttacks

(* What each of the four searches for a threshold returns is the best of    *)
(* what it tried (calibrate_hybrid_threshold and the three main()s).        *)
ThresholdsBest ==
  part = "evaluation" =>
    CalibratedLowest /\ SavedIsBest /\ GruSavedIsBest /\ SweepFindsLeast

(* metrics_by_seed.csv has each cell once, and all of a finished plan.      *)
CellsRecorded == part = "ablation" => RecordedOnce /\ FinishedComplete

(* The aggregated tables are of the same completed cells, both modes each.  *)
TablesOfOneStudy == part = "ablation" => ReportPaired /\ ReportConsistent

(* The offline port of the cell rules names a cause, lets go and keeps one  *)
(* saturation's age from another's (RuleBasedIDS.detect).                   *)
PortHolds == part = "rules" => UnnamedIsStorm /\ CalmReported /\ OneSaturation
==============================================================================
