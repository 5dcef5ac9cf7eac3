------------------------------ MODULE ToolsProofs ------------------------------
(***************************************************************************)
(* A behaviour of MCTools is one of its parts at work and the others at     *)
(* rest, so it is a behaviour of each of their specifications: what         *)
(* OfflineProofs, EvaluationProofs, ExporterProofs, SecIdsProofs and        *)
(* UeTrackerProofs show of them, for every instance, holds of the           *)
(* composition that the run tools checks.                                   *)
(***************************************************************************)
EXTENDS MCTools, EvaluationProofs, ExporterProofs, SecIdsProofs, UeTrackerProofs

-----------------------------------------------------------------------------
(* One program at work: each specification is implemented.                  *)

LEMMA ToolsAtWork ==
  /\ ToolsSpec => DetSpec
  /\ ToolsSpec => TrainSpec
  /\ ToolsSpec => EvalSpec
  /\ ToolsSpec => AblationSpec
  /\ ToolsSpec => PortSpec
  /\ ToolsSpec => DetEvalSpec
  /\ ToolsSpec => UeMetricsSpec
  /\ ToolsSpec => CellSpec
  /\ ToolsSpec => WatchSpec
  /\ ToolsSpec => IdsObsSpec
  /\ ToolsSpec => TrackerObsSpec
<1>1. ToolsInit => /\ DetInit /\ TrainInit /\ EvalInit /\ AblationInit /\ PortInit
                   /\ DetEvalInit /\ UeMetricsInit /\ CellInit /\ WatchInit
                   /\ IdsObsInit /\ TrackerObsInit
  BY DEF ToolsInit
<1>2. [ToolsNext]_toolsVars =>
        /\ [DetNext]_detVars /\ [TrainNext]_trainVars /\ [EvalNext]_csv
        /\ [AblationNext]_ablationVars /\ [PortNext]_portVars /\ [DetEvalNext]_detEvalVars
  BY DEF ToolsNext, toolsVars
<1>3. [ToolsNext]_toolsVars =>
        /\ [UeMetricsNext]_ueMetricsVars /\ [CellNext]_cellVars /\ [WatchNext]_watchVars
        /\ [IdsObsNext]_idsObsVars /\ [TrackerObsNext]_trackerObsVars
  BY DEF ToolsNext, toolsVars
<1>4. ToolsSpec => DetSpec /\ TrainSpec /\ EvalSpec
  BY <1>1, <1>2, PTL DEF ToolsSpec, DetSpec, TrainSpec, EvalSpec
<1>5. ToolsSpec => AblationSpec /\ PortSpec /\ DetEvalSpec
  BY <1>1, <1>2, PTL DEF ToolsSpec, AblationSpec, PortSpec, DetEvalSpec
<1>6. ToolsSpec => UeMetricsSpec /\ CellSpec /\ WatchSpec
  BY <1>1, <1>3, PTL DEF ToolsSpec, UeMetricsSpec, CellSpec, WatchSpec
<1>7. ToolsSpec => IdsObsSpec /\ TrackerObsSpec
  BY <1>1, <1>3, PTL DEF ToolsSpec, IdsObsSpec, TrackerObsSpec
<1> QED  BY <1>4, <1>5, <1>6, <1>7

LEMMA TrackerObserverRefines == TrackerObsSpec => TrackerSpec
<1>1. TrackerObsInit => TrackerInit
  BY DEF TrackerObsInit
<1>2. [TrackerObsNext]_trackerObsVars => [TrackerNext]_trackerVars
  BY DEF TrackerObsNext, trackerObsVars, ObsUpdate, ObsFlush, Crowded, TrackerNext
<1> QED  BY <1>1, <1>2, PTL DEF TrackerObsSpec, TrackerSpec

(* Each program's state keeps its types while it works.                      *)
THEOREM ToolsTypes == ToolsSpec => []ToolsTypeOK
<1>1. DetTypeOK /\ TrainTypeOK /\ EvalTypeOK /\ AblationTypeOK /\ PortTypeOK /\ DetEvalTypeOK
        /\ UeMetricsTypeOK /\ CellTypeOK /\ WatchTypeOK /\ IdsTypeOK /\ TrackerTypeOK
        /\ part \in Parts => ToolsTypeOK
  BY DEF ToolsTypeOK, Parts
<1>2. ToolsInit => part \in Parts
  BY DEF ToolsInit
<1>3. part \in Parts /\ [ToolsNext]_toolsVars => (part \in Parts)'
  BY DEF ToolsNext, toolsVars
<1>4. ToolsSpec => [](part \in Parts)
  BY <1>2, <1>3, PTL DEF ToolsSpec
<1> QED
  BY <1>1, <1>4, ToolsAtWork, DetectorTypes, TrainingTypes, CsvTypes, AblationTypes, PortTypes,
     DetEvalTypes, UeMetricsTypes, CellTypes, WatchTypes, ObserverRefines, IdsTypes,
     TrackerObserverRefines, TrackerTypes, PTL

(* What training keeps, in memory and in the checkpoint file, is the best    *)
(* epoch of the run, as far as NaN losses let it be (train_with_val).        *)
THEOREM ToolsBestWeights == ToolsSpec => []BestWeightsKept
<1>1. BestKept /\ CheckpointIsBest => BestWeightsKept
  BY DEF BestWeightsKept
<1> QED  BY <1>1, ToolsAtWork, BestEpochKept, PTL

(* The files of a model whose run ended are one run's, and the scaler its    *)
(* weights need is among them (the main of each training script).            *)
THEOREM ToolsFiles == ToolsSpec => []FilesMatch
<1>1. FilesOfOneRun /\ ScalerLostToLaterRun => FilesMatch
  BY DEF FilesMatch
<1> QED  BY <1>1, ToolsAtWork, FilesOfTheRun, PTL

(* metrics_by_seed.csv has each cell once, and all of a finished plan.       *)
THEOREM ToolsCells == ToolsSpec => []CellsRecorded
<1>1. RecordedOnce /\ FinishedComplete => CellsRecorded
  BY DEF CellsRecorded
<1> QED  BY <1>1, ToolsAtWork, CellsOnce, PTL

(* The aggregated tables are of the same completed cells, both modes each.   *)
THEOREM ToolsTables == ToolsSpec => []TablesOfOneStudy
<1>1. ReportPaired /\ ReportConsistent => TablesOfOneStudy
  BY DEF TablesOfOneStudy
<1> QED  BY <1>1, ToolsAtWork, TablesConsistent, PTL

(* The offline port of the cell rules names a cause, lets go and keeps one   *)
(* saturation's age from another's (RuleBasedIDS.detect).                    *)
THEOREM ToolsPort == ToolsSpec => []PortHolds
<1>1. UnnamedIsStorm /\ CalmReported /\ OneSaturation => PortHolds
  BY DEF PortHolds
<1> QED  BY <1>1, ToolsAtWork, PortKeepsItsWord, PTL

(* Each window is counted, once, by every counting of them, and the tables  *)
(* of an evaluation of the cell are of the same rows (testing_app.py,       *)
(* evaluate_ue_models.py, evaluate_per_ue_v2.py, eval_opsi_b.py,            *)
(* evaluate_detection.py).                                                  *)
THEOREM ToolsCounts ==
  ASSUME W > 1
  PROVE  ToolsSpec => []CountsAgree
<1>1. DashboardAgrees /\ UnsplitAgrees /\ UnsplitCounts /\ TalliesAgree /\ MixedOfScored /\ TablesAgree
        => CountsAgree
  BY DEF CountsAgree
<1> QED  BY <1>1, ToolsAtWork, CountsHold, DetectionTables, PTL

(* Every alert an operator would get belongs to an episode of false alarms, *)
(* and every episode is counted, whatever attack splits the benign rows     *)
(* (count_episodes, cooldown_alerts and fpr_report of eval_opsi_b.py).      *)
THEOREM ToolsAlarms == ToolsSpec => []FalseAlarmsExplained
<1>1. AlertsExplained /\ EpisodesAcrossAttacks => FalseAlarmsExplained
  BY DEF FalseAlarmsExplained
<1> QED  BY <1>1, ToolsAtWork, AlarmsHold, PTL

(* What each of the four searches for a threshold returns is the best of    *)
(* what it tried (calibrate_hybrid_threshold, calibrate_threshold_remote,   *)
(* calibrate_threshold_gru, sweep_gru_threshold).                           *)
THEOREM ToolsBest == ToolsSpec => []ThresholdsBest
<1>1. CalibratedLowest /\ SavedIsBest /\ GruSavedIsBest /\ SweepFindsLeast => ThresholdsBest
  BY DEF ThresholdsBest
<1> QED  BY <1>1, ToolsAtWork, AlarmsHold, SearchesHold, PTL
================================================================================
