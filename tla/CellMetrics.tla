------------------------------ MODULE CellMetrics ------------------------------
(***************************************************************************)
(* src/observability/exporter/csv_exporter.py: the thread that tails the    *)
(* newest CSV for the cell's metrics, and the one that scores its latest    *)
(* row with two GRU models once a second.  The monitor writes its other     *)
(* CSVs, of UEs, alerts and training rows, to the same directory, and the   *)
(* newest of all is tailed; their rows lack the cell's columns and read as  *)
(* stage 0.  Clock values are in ticks, NoTime for Python's None.           *)
(***************************************************************************)
EXTENDS Integers, SequencesExt

CONSTANTS
  GruSeqA, GruSeqB,    \* rows in the windows of the two models
  MaxCellRows,         \* bound on the rows written
  MaxClock             \* bound on the ticks

ASSUME CellMetricsAssumption == {GruSeqA, GruSeqB, MaxCellRows, MaxClock} \subseteq Nat \ {0}

VARIABLES
  csvDir,      \* by file, the stages of its rows
  newestCsv,   \* the file last written to
  cellTail,    \* csv_tail_loop: [step, file, pos], pos rows of the file behind it
  cellStage,   \* prev_stage, which the stage gauge shows
  stageTs,     \* _stage_ts
  latency,     \* the three latency gauges
  clock,       \* time.monotonic()
  latestRow,   \* _latest_row, as the number of rows read when it was stored
  gruWindow    \* buf_a, buf_b: the rows in them

cellVars == <<csvDir, newestCsv, cellTail, cellStage, stageTs, latency, clock, latestRow,
              gruWindow>>

CsvFiles == {"cell", "other"}
NoTime == -1

CellInit ==
  /\ csvDir = [f \in CsvFiles |-> <<>>] /\ newestCsv = "none"
  /\ cellTail = [step |-> "poll", file |-> "none", pos |-> 0]
  /\ cellStage = 0
  /\ stageTs = [t0 |-> NoTime, t1 |-> NoTime]
  /\ latency = [detect |-> NoTime, confirm |-> NoTime, total |-> NoTime]
  /\ clock = 0 /\ latestRow = 0
  /\ gruWindow = [a |-> <<>>, b |-> <<>>]

RowsWritten == Len(csvDir["cell"]) + Len(csvDir["other"])
WriteCsvRow(f, s) ==
  /\ RowsWritten < MaxCellRows
  /\ csvDir' = [csvDir EXCEPT ![f] = Append(@, s)] /\ newestCsv' = f
  /\ UNCHANGED <<cellTail, cellStage, stageTs, latency, clock, latestRow, gruWindow>>

ClockTick ==
  /\ clock < MaxClock /\ clock' = clock + 1
  /\ UNCHANGED <<csvDir, newestCsv, cellTail, cellStage, stageTs, latency, latestRow,
                 gruWindow>>

-----------------------------------------------------------------------------
(* csv_tail_loop *)

\* find_newest_csv; of a file it changes over to it skips what is there.
PollCsv ==
  /\ cellTail.step = "poll"
  /\ cellTail' = [step |-> "read", file |-> newestCsv,
                  pos |-> IF newestCsv = cellTail.file THEN cellTail.pos
                          ELSE Len(csvDir[newestCsv])]
  /\ newestCsv # "none"
  /\ UNCHANGED <<csvDir, newestCsv, cellStage, stageTs, latency, clock,
                 latestRow, gruWindow>>

AtEnd == cellTail.pos = Len(csvDir[cellTail.file])
EndOfCsv ==
  /\ cellTail.step = "read" /\ AtEnd
  /\ cellTail' = [cellTail EXCEPT !.step = "poll"]
  /\ UNCHANGED <<csvDir, newestCsv, cellStage, stageTs, latency, clock,
                 latestRow, gruWindow>>

\* _track_stage_latency.  t0 is when stage 0 was entered: what is measured from
\* it contains the calm before the attack.
Since(t, otherwise) == IF t = NoTime THEN otherwise ELSE clock - t
TrackLatency(s) ==
  /\ stageTs' = [t0 |-> IF s = 0 THEN clock ELSE stageTs.t0,
                 t1 |-> IF s = 1 /\ cellStage = 0 THEN clock ELSE stageTs.t1]
  /\ latency' =
       [detect |-> IF s = 1 /\ cellStage = 0 THEN Since(stageTs.t0, latency.detect)
                   ELSE latency.detect,
        confirm |-> IF s = 2 /\ cellStage = 1 THEN Since(stageTs.t1, latency.confirm)
                    ELSE latency.confirm,
        total |-> IF s = 2 /\ cellStage = 1 THEN Since(stageTs.t0, latency.total)
                  ELSE latency.total]

\* parse_csv_row: 0 for a column the file does not have.
StageOf(f, s) == IF f = "cell" THEN s ELSE 0
ReadCsvRow ==
  /\ cellTail.step = "read" /\ ~AtEnd
  /\ LET s == StageOf(cellTail.file, csvDir[cellTail.file][cellTail.pos + 1]) IN
     /\ cellStage' = s
     /\ IF s = cellStage THEN UNCHANGED <<stageTs, latency>> ELSE TrackLatency(s)
  /\ cellTail' = [cellTail EXCEPT !.pos = @ + 1]
  /\ latestRow' = latestRow + 1
  /\ UNCHANGED <<csvDir, newestCsv, clock, gruWindow>>

-----------------------------------------------------------------------------
(* gru_inference_loop: the latest row once more, new or not.                *)

Slide(window, row, size) ==
  IF Len(window) < size THEN Append(window, row) ELSE Append(Tail(window), row)
\* Mutant of GruPoll: a row seen already is left out of the longer window.
GruPollNew ==
  /\ latestRow > 0
  /\ gruWindow' = [a |-> Slide(gruWindow.a, latestRow, GruSeqA),
                   b |-> IF gruWindow.b # <<>> /\ Last(gruWindow.b) = latestRow
                         THEN gruWindow.b ELSE Slide(gruWindow.b, latestRow, GruSeqB)]
  /\ UNCHANGED <<csvDir, newestCsv, cellTail, cellStage, stageTs, latency, clock,
                 latestRow>>
GruPoll ==
  /\ latestRow > 0
  /\ gruWindow' = [a |-> Slide(gruWindow.a, latestRow, GruSeqA),
                   b |-> Slide(gruWindow.b, latestRow, GruSeqB)]
  /\ UNCHANGED <<csvDir, newestCsv, cellTail, cellStage, stageTs, latency, clock,
                 latestRow>>

CellNext ==
  \/ \E s \in 0..2 : WriteCsvRow("cell", s)
  \/ WriteCsvRow("other", 0)
  \/ ClockTick
  \/ PollCsv \/ EndOfCsv \/ ReadCsvRow
  \/ GruPoll

CellSpec == CellInit /\ [][CellNext]_cellVars

-----------------------------------------------------------------------------
CellTypeOK ==
  /\ RowsWritten <= MaxCellRows /\ cellStage \in 0..2
  /\ cellTail.step \in {"poll", "read"} /\ cellTail.file \in CsvFiles \cup {"none"}
  /\ \A g \in DOMAIN latency : latency[g] \in NoTime..MaxClock
  /\ Len(gruWindow.a) <= GruSeqA /\ Len(gruWindow.b) <= GruSeqB

(* The two models are asked about the same stretch of time: the shorter     *)
(* window is the end of the longer, and no row comes before an older one.   *)
GruWindowsAlike ==
  LET a == gruWindow.a
      b == gruWindow.b
      short == IF Len(a) < Len(b) THEN a ELSE b
      long == IF Len(a) < Len(b) THEN b ELSE a
  IN /\ IsSuffix(short, long)
     /\ \A i \in 2..Len(long) : long[i - 1] <= long[i]
==============================================================================
