---------------------------- MODULE GroupedAblation ----------------------------
(***************************************************************************)
(* src/scripts/eval: run_grouped_ablation.py, which trains and evaluates    *)
(* one cell (model, features, seed) after the other and appends the results *)
(* to metrics_by_seed.csv, skipping the cells it finds there, and the       *)
(* reading of that file by aggregate_grouped_ablation.py.  Drivers may run  *)
(* side by side with plans of their own, and be killed at any step; the few *)
(* rows of a cell reach the file at once, when it is closed.                *)
(***************************************************************************)
EXTENDS Integers, FiniteSets, SequencesExt

CONSTANTS
  Drivers,
  CellPlan,   \* by driver, the sequence of its cells: --models, --configs, --seeds
  MaxStarts   \* bound on the starts of drivers

ASSUME AblationAssumption ==
  /\ \A d \in Drivers : CellPlan[d] \in Seq(ToSet(CellPlan[d])) /\ IsInjective(CellPlan[d])
  /\ \A d \in Drivers : "cell" \notin ToSet(CellPlan[d])   \* the header's name for it
  /\ \A d, e \in Drivers : d # e => ToSet(CellPlan[d]) \cap ToSet(CellPlan[e]) = {}
  /\ MaxStarts \in Nat

VARIABLES
  exists, lines,   \* metrics_by_seed.csv
  driver,          \* by driver: [phase, todo, rows, fresh]
  starts,
  report           \* what the aggregator last read

ablationVars == <<exists, lines, driver, starts, report>>

Header == [cell |-> "cell", mode |-> "mode", status |-> "status"]
Row(c, mode, status) == [cell |-> c, mode |-> mode, status |-> status]
\* build_rows, and the row of a cell that failed.
OkRows(c) == <<Row(c, "ml_only", "ok"), Row(c, "hybrid", "ok")>>
FailedRows(c) == <<Row(c, "ml_only", "FAILED")>>

Off == [phase |-> "off", todo |-> {}, rows |-> <<>>, fresh |-> FALSE]
Working == {"train", "evaluate", "append", "open", "close"}

AblationInit ==
  /\ exists = FALSE /\ lines = <<>>
  /\ driver = [d \in Drivers |-> Off]
  /\ starts = 0
  /\ report = [ok |-> {}, failed |-> <<>>]

\* csv.DictReader takes the first line for the header, whatever it is.
DataRows == IF lines = <<>> THEN <<>> ELSE Tail(lines)
\* A missing key, or "seed" where a number is due.
Unreadable == DataRows # <<>> /\ (Head(lines) # Header \/ Contains(DataRows, Header))
\* Mutant of DoneCells: cells that failed are taken up again.
DoneCellsOk == {r.cell : r \in {x \in ToSet(DataRows) : x.status = "ok"}}
DoneCells == {r.cell : r \in ToSet(DataRows)}

Start(d) ==
  /\ driver[d].phase \notin Working /\ starts < MaxStarts
  /\ starts' = starts + 1
  /\ driver' = [driver EXCEPT ![d] =
       IF Unreadable THEN [Off EXCEPT !.phase = "crashed"]
       ELSE [Off EXCEPT !.phase = "train",
                        !.todo = ToSet(CellPlan[d]) \ DoneCells]]
  /\ UNCHANGED <<exists, lines, report>>

\* Those to do are taken in the order of the plan.
Cell(d) ==
  LET plan == CellPlan[d] IN plan[Min({i \in DOMAIN plan : plan[i] \in driver[d].todo})]
Step(d, from, to) == driver[d].phase = from /\ driver' = [driver EXCEPT ![d] = to]
UnchangedFile == UNCHANGED <<exists, lines, starts, report>>

TrainCell(d) ==
  /\ driver[d].todo # {}
  /\ Step(d, "train", [driver[d] EXCEPT !.phase = "evaluate"])
  /\ UnchangedFile

EvaluateCell(d) ==
  /\ Step(d, "evaluate", [driver[d] EXCEPT !.phase = "append", !.rows = OkRows(Cell(d))])
  /\ UnchangedFile

\* Either may raise.
CellFails(d) ==
  /\ driver[d].todo # {}
  /\ \E phase \in {"train", "evaluate"} :
       Step(d, phase, [driver[d] EXCEPT !.phase = "append", !.rows = FailedRows(Cell(d))])
  /\ UnchangedFile

\* append_rows: see if the file is there, open it, write and close it.
CheckExists(d) ==
  /\ Step(d, "append", [driver[d] EXCEPT !.phase = "open", !.fresh = ~exists])
  /\ UnchangedFile

Open(d) ==
  /\ Step(d, "open", [driver[d] EXCEPT !.phase = "close"])
  /\ exists' = TRUE
  /\ UNCHANGED <<lines, starts, report>>

Close(d) ==
  /\ Step(d, "close", [driver[d] EXCEPT !.phase = "train", !.todo = @ \ {Cell(d)}, !.rows = <<>>,
                                        !.fresh = FALSE])
  /\ lines' = lines \o (IF driver[d].fresh THEN <<Header>> ELSE <<>>) \o driver[d].rows
  /\ UNCHANGED <<exists, starts, report>>

Finish(d) ==
  /\ driver[d].todo = {}
  /\ Step(d, "train", [driver[d] EXCEPT !.phase = "finished"])
  /\ UnchangedFile

Kill(d) ==
  /\ driver[d].phase \in Working
  /\ driver' = [driver EXCEPT ![d] = Off]
  /\ UnchangedFile

(* read_metrics: a row whose status is not "ok" is a failed one, a second   *)
(* header among them; without a header the float() of a name raises, and    *)
(* main ends without an ok row.  Failed rows are kept by line: they are     *)
(* counted and printed one by one.                                          *)
Aggregate ==
  LET ok == {i \in 2..Len(lines) : lines[i].status = "ok"}
      failed == {i \in 2..Len(lines) : lines[i].status # "ok"}
  IN /\ ok # {} /\ lines[1] = Header
     /\ report' = [ok |-> {<<lines[i].cell, lines[i].mode>> : i \in ok},
                   failed |-> [i \in failed |-> lines[i].cell]]
     /\ UNCHANGED <<exists, lines, driver, starts>>

AblationNext ==
  \/ \E d \in Drivers :
       \/ Start(d) \/ TrainCell(d) \/ EvaluateCell(d) \/ CellFails(d)
       \/ CheckExists(d) \/ Open(d) \/ Close(d) \/ Finish(d) \/ Kill(d)
  \/ Aggregate

AblationSpec == AblationInit /\ [][AblationNext]_ablationVars

-----------------------------------------------------------------------------
AblationTypeOK ==
  LET Cells == UNION {ToSet(CellPlan[d]) : d \in Drivers}
      AnyRow == [cell : Cells, mode : {"ml_only", "hybrid"}, status : {"ok", "FAILED"}]
  IN /\ exists \in BOOLEAN /\ lines \in Seq(AnyRow \cup {Header})
     /\ starts \in 0..MaxStarts
     /\ \A d \in Drivers :
          /\ driver[d].phase \in Working \cup {"off", "finished", "crashed"}
          /\ driver[d].todo \subseteq ToSet(CellPlan[d])
          /\ driver[d].rows # <<>> <=> driver[d].phase \in {"append", "open", "close"}

\* The cell is in the file in these rows and no other, one after the other.
RecordedAs(c, rows) ==
  \E first \in DOMAIN lines :
    LET last == first + Len(rows) - 1 IN
    /\ {i \in DOMAIN lines : lines[i].cell = c} = first..last
    /\ SubSeq(lines, first, last) = rows

(* Over kills and restarts, and with drivers side by side, a cell is in the  *)
(* file once: as a failure or as the pair of rows of one training, never as  *)
(* both and never as half a pair.  It needs the header: where a killed       *)
(* driver left the file empty the first row is taken for one.                *)
RecordedOnce ==
  lines # <<>> /\ Head(lines) = Header =>
    \A c \in DoneCells \ {Header.cell} :
      RecordedAs(c, OkRows(c)) \/ RecordedAs(c, FailedRows(c))

(* A driver that says it has finished leaves no cell of its plan without a   *)
(* row, whatever was killed before it.                                       *)
FinishedComplete ==
  \A d \in Drivers :
    driver[d].phase = "finished" => ToSet(CellPlan[d]) \subseteq {r.cell : r \in ToSet(lines)}

(* What the aggregator reports has both modes of each cell, and none that is *)
(* among the failures, a second header among the rows or not.                *)
ReportPaired ==
  \A x \in report.ok :
    /\ {<<x[1], "ml_only">>, <<x[1], "hybrid">>} \subseteq report.ok
    /\ \A i \in DOMAIN report.failed : report.failed[i] # x[1]

(* run_grouped_ablation.py:23 calls itself resumable: a driver that was      *)
(* killed can be started again.                                              *)
Resumable == \A d \in Drivers : driver[d].phase # "crashed"
==============================================================================
