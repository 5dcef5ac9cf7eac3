--------------------------- MODULE UeTrackerObserver ---------------------------
(***************************************************************************)
(* UeTracker with history variables: who reported and who flooded in this  *)
(* period, who reported in the one before, who was tracked when this one   *)
(* began, and for how many periods in a row each RNTI has flooded.  They   *)
(* are kept while the table is large enough for the cell, that is, holds   *)
(* the RNTIs of any two periods in a row; beyond that nothing is promised. *)
(***************************************************************************)
EXTENDS UeTracker

VARIABLES
  fits,        \* the table has been large enough so far
  reportedNow, \* RNTIs of this period
  recent,      \* those of the period before
  flooded,     \* those above a threshold
  known,       \* RNTIs in the table when the period began
  floodRun     \* periods in a row with a flood, up to AlertConsecutive

cellHistory == <<fits, reportedNow, recent, flooded, known, floodRun>>
trackerObsVars == <<trackerVars, cellHistory>>

TrackerObsInit ==
  /\ TrackerInit
  /\ fits = TRUE /\ reportedNow = {} /\ recent = {} /\ flooded = {} /\ known = {}
  /\ floodRun = [u \in RNTI |-> 0]

ObsUpdate(u, high, sameMs) ==
  /\ MacUpdate(u, high, sameMs)
  /\ fits' = (Cardinality(recent \cup reportedNow \cup {u}) <= MaxTracked)
  /\ reportedNow' = reportedNow \cup {u}
  /\ flooded' = IF high THEN flooded \cup {u} ELSE flooded
  /\ UNCHANGED <<recent, known, floodRun>>

ObsFlush ==
  /\ Flush
  /\ reportedNow' = {} /\ recent' = reportedNow /\ flooded' = {}
  /\ known' = {table[i].rnti : i \in Slots}
  /\ floodRun' = [u \in RNTI |->
       IF u \in flooded THEN UpTo(AlertConsecutive, floodRun[u] + 1) ELSE 0]
  /\ UNCHANGED fits

\* A table too small for the cell: the history ends.
Crowded ==
  /\ ~fits
  /\ \/ \E u \in RNTI, high, sameMs \in BOOLEAN : MacUpdate(u, high, sameMs)
     \/ Flush
  /\ UNCHANGED fits
  /\ reportedNow' = {} /\ recent' = {} /\ flooded' = {} /\ known' = {}
  /\ floodRun' = [u \in RNTI |-> 0]

TrackerObsNext ==
  \/ fits /\ \E u \in RNTI, high, sameMs \in BOOLEAN :
                ObsUpdate(u, high, sameMs)
  \/ fits /\ ObsFlush
  \/ Crowded

TrackerObsSpec == TrackerObsInit /\ [][TrackerObsNext]_trackerObsVars

-----------------------------------------------------------------------------
(* A UE that floods in AlertConsecutive periods in a row is reported at    *)
(* the end of each from then on: in a table large enough for the cell,     *)
(* churn of other RNTIs never evicts it and so restarts its count.         *)
FloodReported ==
  [][fits /\ ObsFlush => \A u \in RNTI : floodRun'[u] >= AlertConsecutive =>
       <<"FLOOD", u>> \in raised']_trackerObsVars

(* The RRC FLOOD count takes every RNTI that was not tracked when the      *)
(* period began and none twice, and takes none that reported in the period *)
(* before: an RNTI that stays is not counted as new however the table      *)
(* turns over.                                                             *)
NewUesExact ==
  fits => /\ newUes >= UpTo(NewRntiThr, Cardinality(reportedNow \ known))
          /\ newUes <= Cardinality(reportedNow \ recent)
==============================================================================
