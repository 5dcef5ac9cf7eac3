---------------------------- MODULE AblationReport ----------------------------
(***************************************************************************)
(* src/scripts/eval/aggregate_grouped_ablation.py: the tables written from  *)
(* the rows that read_metrics finds (report in GroupedAblation).  Of the    *)
(* values only their presence is kept: which rows a table has, what they    *)
(* are compared with and where a comparison is left empty.                  *)
(***************************************************************************)
EXTENDS GroupedAblation

CONSTANTS
  Of,             \* by cell, its [model, config, seed]
  Baseline,       \* full_19
  AblationSeed    \* 42

ASSUME ReportAssumption ==
  /\ \A d \in Drivers : ToSet(CellPlan[d]) \subseteq DOMAIN Of
  /\ \A c \in DOMAIN Of : Of[c].model \in {"lstm", "gru"}   \* choices=MODELS
  /\ \A c, e \in DOMAIN Of :
       Of[c].model = Of[e].model /\ Of[c].config = Of[e].config /\ Of[c].seed = Of[e].seed => c = e

Modes == {"ml_only", "hybrid"}
Entry42(model, config, mode) == [model |-> model, config |-> config, mode |-> mode]
\* index_by(rows, seed = 42)
\* Mutant of Idx42: every seed is indexed.
IdxAll == {Entry42(Of[x[1]].model, Of[x[1]].config, x[2]) : x \in report.ok}
Idx42 ==
  {Entry42(Of[x[1]].model, Of[x[1]].config, x[2]) :
     x \in {y \in report.ok : Of[y[1]].seed = AblationSeed}}

\* Part 1: summary_by_model, cross_model_comparison, per_class_recall; delta
\* is whether there is a full_19 to subtract.
HasBase(e) == Entry42(e.model, Baseline, e.mode) \in Idx42
SummaryByModel == {[entry |-> e, delta |-> HasBase(e)] : e \in Idx42}
CrossModelComparison ==
  {[config |-> e.config, mode |-> e.mode,
    judged |-> /\ e.config # Baseline
               /\ \A m \in {"lstm", "gru"} : HasBase([e EXCEPT !.model = m])] :
     e \in {f \in Idx42 : {[f EXCEPT !.model = "lstm"], [f EXCEPT !.model = "gru"]} \subseteq Idx42}}
PerClassRecall42(classes) ==
  {[entry |-> e, class |-> c, delta |-> HasBase(e)] : e \in Idx42, c \in classes}

\* Part 2: the baseline over all seeds, and ranges where there are two.
SeedSensitivity ==
  {[model |-> Of[x[1]].model, seed |-> Of[x[1]].seed, mode |-> x[2]] :
     x \in {y \in report.ok : Of[y[1]].config = Baseline}}
SeedRanges ==
  {[model |-> r.model, mode |-> r.mode,
    seeds |-> {s.seed : s \in {t \in SeedSensitivity : t.model = r.model /\ t.mode = r.mode}}] :
     r \in {s \in SeedSensitivity :
              \E t \in SeedSensitivity : t.model = s.model /\ t.mode = s.mode /\ t # s}}

\* Shared tables: a line for each cell, of whichever mode comes first.
PartOf(c) == IF Of[c].seed = AblationSeed THEN "1_ablation" ELSE "2_seed_sensitivity"
ThresholdsBySeed == {[cell |-> x[1], part |-> PartOf(x[1])] : x \in report.ok}
TrainingRuntime == {[cell |-> x[1], part |-> PartOf(x[1])] : x \in report.ok}
DatasetManifest ==
  LET cells == {x[1] : x \in report.ok}
  IN [completed |-> Cardinality({c \in cells : Of[c].seed = AblationSeed}),
      seeds |-> {Of[c].seed : c \in {d \in cells : Of[d].config = Baseline}},
      failed |-> Cardinality(DOMAIN report.failed)]

\* What the failed rows name, and which of them are a second driver's header.
FailedCells == {report.failed[i] : i \in DOMAIN report.failed} \ {Header.cell}
StrayHeaders == {i \in DOMAIN report.failed : report.failed[i] = Header.cell}

-----------------------------------------------------------------------------
(* The tables, each written by a function of its own, are of one            *)
(* experiment: part 1 lists each completed cell of the deployment seed in   *)
(* both modes and no row of another seed, the manifest counts them; where   *)
(* two models are compared each has a delta in the summary or neither       *)
(* direction is judged; the seeds of the appendix are the manifest's, no    *)
(* cell is both listed and failed, and the manifest counts each failed cell *)
(* once, but with them each header that a driver started beside another     *)
(* wrote a second time.                                                     *)
ReportConsistent ==
  LET part1 == {t.cell : t \in {u \in ThresholdsBySeed : u.part = "1_ablation"}}
      summary == SummaryByModel
  IN
  /\ \A s \in summary : \A mode \in Modes :
       [s EXCEPT !.entry.mode = mode] \in summary
  /\ Cardinality(summary) = 2 * DatasetManifest.completed
  /\ Cardinality(part1) = DatasetManifest.completed
  /\ {Of[c].config : c \in part1} = {s.entry.config : s \in summary}
  /\ \A x \in CrossModelComparison :
       x.judged => \A s \in summary :
                     s.entry.config = x.config /\ s.entry.mode = x.mode => s.delta
  /\ {s.seed : s \in SeedSensitivity} = DatasetManifest.seeds
  /\ \A r \in SeedRanges :
       AblationSeed \in r.seeds =>
         Entry42(r.model, Baseline, r.mode) \in {s.entry : s \in summary}
  /\ {t.cell : t \in TrainingRuntime} \cap FailedCells = {}
  /\ DatasetManifest.failed = Cardinality(FailedCells) + Cardinality(StrayHeaders)
==============================================================================
