------------------------------ MODULE WatchedFiles ------------------------------
(***************************************************************************)
(* src/observability/exporter/csv_exporter.py: two files the exporter polls *)
(* while others write them.  eval_results.json, written by run_evaluation   *)
(* of evaluate_detection.py, is read again when its mtime has changed; the  *)
(* file with the active threshold and model, written by the monitor as it   *)
(* starts, is read each time.  A write empties the file first.  An mtime    *)
(* moves with the tick of the file system's clock, if at all: the emptying, *)
(* the contents and a next write may fall in one tick.                      *)
(***************************************************************************)
EXTENDS Integers, FiniteSets

CONSTANTS
  EvalAttacks,   \* attacks a results file may have figures of
  Detectors,     \* per-UE models the monitor may run
  MaxWrites      \* bound on the writes of the results

ASSUME WatchedFilesAssumption == MaxWrites \in Nat \ {0}

VARIABLES
  evalJson,      \* [mtime, whole, body]: figures by attack; mtime 0: no file
  writes,        \* writes of it begun; a figure is the number of its write
  hidden,        \* history: the last change kept the mtime, and came after the last load
  watch,         \* eval_watch_loop: [step, mtime]
  lastMtime,     \* last_mtime
  evalShown,     \* the gauges: by attack, the write its figures come from
  sidecar,       \* the model in the file, NoModel while it is empty
  modelShown,    \* xapp_ue_model_info, by model
  lastModel      \* _model_info_last

watchVars == <<evalJson, writes, hidden, watch, lastMtime, evalShown, sidecar, modelShown, lastModel>>

NoModel == "no model"
NoSeries == -1

WatchInit ==
  /\ evalJson = [mtime |-> 0, whole |-> FALSE, body |-> <<>>]
  /\ writes = 0 /\ hidden = FALSE
  /\ watch = [step |-> "poll", mtime |-> 0] /\ lastMtime = 0
  /\ evalShown = [a \in EvalAttacks |-> 0]
  /\ sidecar = NoModel
  /\ modelShown = [m \in Detectors |-> NoSeries] /\ lastModel = NoModel

sidecarVars == <<sidecar, modelShown, lastModel>>
evalVars == <<evalJson, writes, hidden, watch, lastMtime, evalShown>>

-----------------------------------------------------------------------------
(* The writers.  open(..., "w") empties the file, and the writer may end    *)
(* there; the contents follow at once.                                      *)

\* The mtime of a change: that of the change before, or a later one.
JsonChanged(whole, body) ==
  \E mtime \in {evalJson.mtime, evalJson.mtime + 1} \ {0} :
    /\ evalJson' = [mtime |-> mtime, whole |-> whole, body |-> body]
    /\ hidden' = (mtime = evalJson.mtime)

BeginJson ==
  /\ writes < MaxWrites /\ writes' = writes + 1
  /\ JsonChanged(FALSE, <<>>)
  /\ UNCHANGED <<watch, lastMtime, evalShown, sidecarVars>>
EndJson ==
  /\ writes > 0 /\ ~evalJson.whole
  /\ \E attacks \in SUBSET EvalAttacks : JsonChanged(TRUE, [a \in attacks |-> writes])
  /\ UNCHANGED <<writes, watch, lastMtime, evalShown, sidecarVars>>

WriteSidecar(m) ==
  /\ sidecar = NoModel /\ sidecar' = m
  /\ UNCHANGED <<evalVars, modelShown, lastModel>>
EmptySidecar ==
  /\ sidecar' = NoModel
  /\ UNCHANGED <<evalVars, modelShown, lastModel>>

-----------------------------------------------------------------------------
(* eval_watch_loop: the time first, then the contents, then the time kept.  *)

PollMtime ==
  /\ watch.step = "poll" /\ evalJson.mtime > 0
  /\ watch' = IF evalJson.mtime = lastMtime THEN watch
              ELSE [step |-> "load", mtime |-> evalJson.mtime]
  /\ UNCHANGED <<evalJson, writes, hidden, lastMtime, evalShown, sidecarVars>>

\* load_eval_results and _update_eval_metrics: figures of an attack that is not
\* in the file stay.
LoadJson ==
  /\ watch.step = "load"
  /\ evalShown' = IF ~evalJson.whole THEN evalShown
                  ELSE [a \in EvalAttacks |-> IF a \in DOMAIN evalJson.body THEN evalJson.body[a]
                                          ELSE evalShown[a]]
  /\ watch' = [watch EXCEPT !.step = "keep"] /\ hidden' = FALSE
  /\ UNCHANGED <<evalJson, writes, lastMtime, sidecarVars>>

\* Mutant of KeepMtime: the time is asked for again after the load.
KeepMtimeNow ==
  /\ watch.step = "keep"
  /\ lastMtime' = evalJson.mtime /\ watch' = [watch EXCEPT !.step = "poll"]
  /\ UNCHANGED <<evalJson, writes, hidden, evalShown, sidecarVars>>
KeepMtime ==
  /\ watch.step = "keep"
  /\ lastMtime' = watch.mtime /\ watch' = [watch EXCEPT !.step = "poll"]
  /\ UNCHANGED <<evalJson, writes, hidden, evalShown, sidecarVars>>

(* read_active_threshold *)
\* Mutant of ReadThreshold: the model shown before is not set to 0.
ReadThresholdOnly ==
  /\ sidecar # NoModel /\ lastModel' = sidecar
  /\ modelShown' = [modelShown EXCEPT ![sidecar] = 1]
  /\ UNCHANGED <<evalVars, sidecar>>
ReadThreshold ==
  /\ sidecar # NoModel /\ lastModel' = sidecar
  /\ modelShown' = [m \in Detectors |-> IF m = sidecar THEN 1
                                     ELSE IF m = lastModel THEN 0 ELSE modelShown[m]]
  /\ UNCHANGED <<evalVars, sidecar>>

WatchNext ==
  \/ BeginJson \/ EndJson \/ EmptySidecar
  \/ \E m \in Detectors : WriteSidecar(m)
  \/ PollMtime \/ LoadJson \/ KeepMtime \/ ReadThreshold

WatchSpec == WatchInit /\ [][WatchNext]_watchVars

-----------------------------------------------------------------------------
WatchTypeOK ==
  /\ evalJson.mtime \in 0..(2 * MaxWrites) /\ evalJson.whole \in BOOLEAN
  /\ writes \in 0..MaxWrites /\ hidden \in BOOLEAN
  /\ watch.step \in {"poll", "load", "keep"} /\ lastMtime \in 0..evalJson.mtime
  /\ evalShown \in [EvalAttacks -> 0..writes]
  /\ {sidecar, lastModel} \subseteq Detectors \cup {NoModel}
  /\ modelShown \in [Detectors -> {NoSeries, 0, 1}]

(* When the watcher is at rest and has seen the file's time, it shows the   *)
(* figures of a complete file, read half written before or written again    *)
(* since its time was read or not.  The one exception is exact: a file that *)
(* was completed within the tick of a time kept from an earlier load is not *)
(* read, and none of its figures is shown.                                  *)
ResultsNotMissed ==
  watch.step = "poll" /\ lastMtime = evalJson.mtime /\ evalJson.whole =>
    \A a \in DOMAIN evalJson.body : (evalShown[a] = evalJson.body[a]) <=> ~hidden

(* One model at a time is shown as active, however often the monitor starts *)
(* with another and however the reads fall.                                 *)
OneModelActive ==
  {m \in Detectors : modelShown[m] = 1} = {lastModel} \ {NoModel}
==============================================================================
