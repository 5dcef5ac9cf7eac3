------------------------------- MODULE UeTracker -------------------------------
(***************************************************************************)
(* ue_tracker.c: the table of RNTIs that the MAC callback fills and the KPM *)
(* callback evaluates once per cell report, both under mtx.  An entry is    *)
(* found or created on each MAC report of its RNTI; a full table gives the *)
(* slot of the inactive entry seen longest ago.  The period's peak rates   *)
(* are kept as being above a threshold, UL or DL, or not; last_seen_ms is  *)
(* kept as a rank, equal for reports of one millisecond.  What is printed  *)
(* only (first_seen_ms, the PRBs, the radio metrics, the lost count) is    *)
(* left out.                                                               *)
(***************************************************************************)
EXTENDS Naturals, Sequences, FiniteSets

CONSTANTS
  RNTI,
  MaxTracked,       \* UE_MAX_TRACKED
  AlertConsecutive, \* UE_ALERT_CONSECUTIVE
  NewRntiThr,       \* thr_new_rnti_per_sec
  MinPeriods        \* thr_min_periods

ASSUME TrackerAssumption ==
  {MaxTracked, AlertConsecutive, NewRntiThr, MinPeriods} \subseteq Nat \ {0}

VARIABLES
  table,   \* the entries in use, in table order
  newUes,  \* new_this_period, counted up to NewRntiThr
  raised   \* what the last step reported

trackerVars == <<table, newUes, raised>>

UeEntry == [rnti : RNTI, active : BOOLEAN, seen : Nat, high : BOOLEAN,
          periods : 0..MinPeriods, consecutive : 0..AlertConsecutive]

\* Counters are compared with a threshold only and stop there.
UpTo(cap, n) == IF n < cap THEN n ELSE cap

TrackerInit == table = <<>> /\ newUes = 0 /\ raised = {}

-----------------------------------------------------------------------------
Slots == DOMAIN table
Tracked(u) == \E i \in Slots : table[i].rnti = u
Inactive == {i \in Slots : ~table[i].active}

\* Mutant of OldestInactive: last_seen_ms is not compared.
FirstInactive == CHOOSE i \in Inactive : \A j \in Inactive : i <= j

\* The inactive entry seen longest ago, the first such in table order.
OldestInactive ==
  CHOOSE i \in Inactive : \A j \in Inactive :
    table[i].seen < table[j].seen \/ (table[i].seen = table[j].seen /\ i <= j)

SlotOf(u) ==
  IF Tracked(u) THEN CHOOSE i \in Slots : table[i].rnti = u
  ELSE IF Len(table) < MaxTracked THEN Len(table) + 1
  ELSE IF Inactive # {} THEN OldestInactive
  ELSE 1

Blank(u) == [rnti |-> u, active |-> FALSE, seen |-> 0, high |-> FALSE,
             periods |-> 0, consecutive |-> 0]

\* Only the order of last_seen_ms matters: ranks are kept dense.
Ranked(t) ==
  [i \in DOMAIN t |->
     [t[i] EXCEPT !.seen = Cardinality({t[j].seen : j \in DOMAIN t} \cap 0..(@ - 1))]]

Latest == Cardinality({table[i].seen : i \in Slots})

\* A report of u, in the millisecond of the latest one or after it.
Reported(u, high, stamp) ==
  LET slot == SlotOf(u)
      entry == IF Tracked(u) THEN table[slot] ELSE Blank(u)
      updated == [entry EXCEPT !.active = TRUE, !.seen = stamp, !.high = @ \/ high]
  IN [i \in Slots \cup {slot} |-> IF i = slot THEN updated ELSE table[i]]

(* ue_tracker_mac_update.  One MAC indication reports each of its UEs once *)
(* and with one time, so a report shares only another UE's of its period.  *)
MacUpdate(u, high, sameMs) ==
  /\ sameMs => \E i \in Slots :
                 table[i].active /\ table[i].rnti # u /\ table[i].seen = Latest - 1
  /\ table' = Ranked(Reported(u, high, IF sameMs THEN Latest - 1 ELSE Latest))
  /\ newUes' = IF Tracked(u) THEN newUes ELSE UpTo(NewRntiThr, newUes + 1)
  /\ raised' = {}

-----------------------------------------------------------------------------
Flooding(e) == e.active /\ e.high
Consecutive(e) ==
  IF Flooding(e) THEN UpTo(AlertConsecutive, e.consecutive + 1) ELSE 0

(* The evaluation of one entry: an inactive one is left as it is. *)
EvaluatedEntry(e) ==
  IF ~e.active THEN e
  ELSE [e EXCEPT !.consecutive = Consecutive(e), !.periods = UpTo(MinPeriods, @ + 1),
                 !.active = FALSE, !.high = FALSE]

CellAlerts == IF newUes >= NewRntiThr THEN {<<"RRC FLOOD">>} ELSE {}
FloodAlerts ==
  {<<"FLOOD", table[i].rnti>> :
     i \in {j \in Slots : Flooding(table[j]) /\ Consecutive(table[j]) >= AlertConsecutive}}
StormAlerts ==
  {<<"SIGNALING STORM", table[i].rnti>> :
     i \in {j \in Inactive : table[j].periods \in 1..(MinPeriods - 1)}}

\* Mutant of Flush: new_this_period is not reset.
FlushKeepsNewUes ==
  /\ raised' = CellAlerts \cup FloodAlerts \cup StormAlerts
  /\ table' = [i \in Slots |-> EvaluatedEntry(table[i])]
  /\ UNCHANGED newUes

(* ue_tracker_flush *)
Flush ==
  /\ raised' = CellAlerts \cup FloodAlerts \cup StormAlerts
  /\ table' = [i \in Slots |-> EvaluatedEntry(table[i])]
  /\ newUes' = 0

TrackerNext ==
  \/ \E u \in RNTI, high, sameMs \in BOOLEAN : MacUpdate(u, high, sameMs)
  \/ Flush

TrackerSpec == TrackerInit /\ [][TrackerNext]_trackerVars

-----------------------------------------------------------------------------
(* Type invariant of the table; an RNTI has one entry at most. *)
TrackerTypeOK ==
  /\ table \in Seq(UeEntry) /\ Len(table) <= MaxTracked
  /\ \A i, j \in Slots : table[i].rnti = table[j].rnti => i = j
  /\ newUes \in 0..NewRntiThr
==============================================================================
