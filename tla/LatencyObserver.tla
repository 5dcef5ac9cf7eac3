---------------------------- MODULE LatencyObserver ----------------------------
(***************************************************************************)
(* CellMetrics with a history of its own of the events: how long the last   *)
(* one took from the calm before it to stage 2, whichever way it went.      *)
(***************************************************************************)
EXTENDS CellMetrics

VARIABLES
  calmSince,  \* when stage 0 was last entered, NoTime before the first time
  lastTotal   \* from there to stage 2, when that was last entered

observerVars == <<cellVars, calmSince, lastTotal>>

ObsInit == CellInit /\ calmSince = NoTime /\ lastTotal = NoTime

Observe ==
  /\ calmSince' = IF cellStage # 0 /\ cellStage' = 0 THEN clock ELSE calmSince
  /\ lastTotal' = IF cellStage # 2 /\ cellStage' = 2 THEN Since(calmSince, lastTotal)
                  ELSE lastTotal

\* The GRU loop only reads what the tail stores: it is left out.
ObsSpec == ObsInit /\ [][CellNext /\ UNCHANGED gruWindow /\ Observe]_observerVars

-----------------------------------------------------------------------------
(* "Total Stage 0->2 mitigation latency ms (last event)": once the gauge    *)
(* shows a figure it is that of the last event that reached stage 2.        *)
TotalOfLastEvent == NoTime \notin {lastTotal, latency.total} => latency.total = lastTotal
================================================================================
