----------------------------- MODULE ExporterProofs -----------------------------
(***************************************************************************)
(* Proofs about the CSV exporter, for any UEs, files, rows and models: the  *)
(* watched files, the per-UE series and the cell's metrics.                 *)
(***************************************************************************)
EXTENDS UeMetrics, CellMetrics, WatchedFiles, FiniteSetTheorems, FunctionTheorems,
        SequenceTheorems, TLAPS

-----------------------------------------------------------------------------
(* WatchedFiles: polling files that are rewritten meanwhile.                *)
\* The figures in the file are shown.
Current == \A a \in DOMAIN evalJson.body : evalShown[a] = evalJson.body[a]

(* The times kept are not ahead of the file's, the figures are those of the *)
(* last write, and none of it is shown before it is complete and loaded.  A *)
(* load of a complete file shows it, unless the file was written again.     *)
EvalInv ==
  /\ evalJson \in [mtime : Nat, whole : BOOLEAN,
                   body : UNION {[A -> Nat] : A \in SUBSET EvalAttacks}]
  /\ writes \in 0..MaxWrites /\ hidden \in BOOLEAN
  /\ \A a \in DOMAIN evalJson.body : evalJson.body[a] = writes
  /\ evalJson.mtime <= 2 * writes
  /\ ~evalJson.whole /\ writes > 0 => evalJson.mtime <= 2 * writes - 1
  /\ watch \in [step : {"poll", "load", "keep"}, mtime : Nat]
  /\ watch.mtime <= evalJson.mtime
  /\ lastMtime \in Nat /\ lastMtime <= evalJson.mtime
  /\ evalShown \in [EvalAttacks -> Nat]
  /\ \A a \in EvalAttacks : evalShown[a] <= writes
  /\ (~evalJson.whole \/ hidden) /\ writes > 0 => \A a \in EvalAttacks : evalShown[a] < writes
  /\ evalJson.whole => writes > 0
  /\ watch.step = "keep" /\ watch.mtime = evalJson.mtime /\ evalJson.whole /\ ~hidden => Current
  /\ watch.step = "poll" /\ lastMtime = evalJson.mtime /\ evalJson.whole /\ ~hidden => Current

\* What is shown as active is the model read last.
ModelInv ==
  /\ {sidecar, lastModel} \subseteq Detectors \cup {NoModel}
  /\ modelShown \in [Detectors -> {NoSeries, 0, 1}]
  /\ OneModelActive

LEMMA WatchedInit == WatchInit => EvalInv /\ ModelInv
<1> SUFFICES ASSUME WatchInit PROVE EvalInv /\ ModelInv
  OBVIOUS
<1>1. ModelInv
  BY DEF WatchInit, ModelInv, OneModelActive, NoSeries
<1>2. evalJson = [mtime |-> 0, whole |-> FALSE, body |-> <<>>]
  BY DEF WatchInit
<1> DEFINE Bodies == UNION {[A -> Nat] : A \in SUBSET EvalAttacks}
<1>3. <<>> \in Bodies
  <2>1. <<>> \in [{} -> Nat] /\ {} \in SUBSET EvalAttacks
    OBVIOUS
  <2> QED  BY <2>1
<1> HIDE DEF Bodies
<1>4. /\ evalJson \in [mtime : Nat, whole : BOOLEAN, body : Bodies]
      /\ evalJson.mtime = 0 /\ ~evalJson.whole
  BY <1>2, <1>3
<1>8. DOMAIN evalJson.body = {}
  BY <1>2
<1>5. /\ writes = 0 /\ hidden = FALSE /\ lastMtime = 0 /\ watch.step = "poll" /\ watch.mtime = 0
      /\ watch \in [step : {"poll", "load", "keep"}, mtime : Nat]
      /\ MaxWrites \in Nat
  BY WatchedFilesAssumption DEF WatchInit
<1>6. evalShown \in [EvalAttacks -> Nat] /\ \A a \in EvalAttacks : evalShown[a] <= 0
  BY DEF WatchInit
<1>7. EvalInv
  <2>1. lastMtime \in Nat /\ lastMtime <= evalJson.mtime /\ watch.mtime <= evalJson.mtime
    BY <1>4, <1>5
  <2>2. writes \in 0..MaxWrites /\ hidden \in BOOLEAN /\ evalJson.mtime <= 2 * writes
    <3>1. writes = 0 /\ hidden = FALSE /\ MaxWrites \in Nat /\ evalJson.mtime = 0
      BY <1>4, <1>5
    <3>2. 0 \in 0..MaxWrites /\ 0 <= 2 * 0
      BY <3>1
    <3> QED  BY <3>1, <3>2
  <2>3. \A a \in EvalAttacks : evalShown[a] <= writes
    BY <1>5, <1>6
  <2>4. ~(writes > 0)
    BY <1>5
  <2>5. \A a \in DOMAIN evalJson.body : evalJson.body[a] = writes
    BY <1>8
  <2>6. (~evalJson.whole \/ hidden) /\ writes > 0 => \A a \in EvalAttacks : evalShown[a] < writes
    BY <2>4
  <2>7. /\ ~evalJson.whole /\ writes > 0 => evalJson.mtime <= 2 * writes - 1
        /\ evalJson.whole => writes > 0
    BY <1>4, <2>4
  <2>8. /\ watch.step = "keep" /\ watch.mtime = evalJson.mtime /\ evalJson.whole /\ ~hidden => Current
        /\ watch.step = "poll" /\ lastMtime = evalJson.mtime /\ evalJson.whole /\ ~hidden => Current
    BY <1>4
  <2> QED
    BY <1>4, <1>5, <1>6, <2>1, <2>2, <2>3, <2>5, <2>6, <2>7, <2>8 DEF EvalInv, Bodies
<1> QED  BY <1>1, <1>7

(* The results: one step for each action that touches them.                 *)
LEMMA EvalStep == EvalInv /\ [WatchNext]_watchVars => EvalInv'
<1> SUFFICES ASSUME EvalInv, [WatchNext]_watchVars PROVE EvalInv'
  OBVIOUS
<1> USE WatchedFilesAssumption
<1> DEFINE Bodies == UNION {[A -> Nat] : A \in SUBSET EvalAttacks}
<1> HIDE DEF Bodies
<1>0. evalJson \in [mtime : Nat, whole : BOOLEAN, body : Bodies]
  BY DEF EvalInv, Bodies
<1>1. CASE UNCHANGED evalVars
  BY <1>1 DEF EvalInv, Current, evalVars
<1>2. CASE BeginJson
  <2>1. /\ writes < MaxWrites /\ writes' = writes + 1 /\ writes \in Nat
        /\ UNCHANGED <<watch, lastMtime, evalShown>>
    BY <1>2 DEF BeginJson, EvalInv
  <2>2. PICK mtime \in {evalJson.mtime, evalJson.mtime + 1} \ {0} :
          /\ evalJson' = [mtime |-> mtime, whole |-> FALSE, body |-> <<>>]
          /\ hidden' = (mtime = evalJson.mtime)
    BY <1>2 DEF BeginJson, JsonChanged
  <2>3. <<>> \in Bodies
    <3>1. <<>> \in [{} -> Nat] /\ {} \in SUBSET EvalAttacks
      OBVIOUS
    <3> QED  BY <3>1 DEF Bodies
  <2>4. /\ evalJson'.body = <<>> /\ DOMAIN evalJson'.body = {} /\ ~evalJson'.whole
        /\ evalJson'.mtime = mtime /\ mtime \in Nat /\ evalJson.mtime \in Nat
        /\ evalJson.mtime <= mtime /\ mtime <= evalJson.mtime + 1
    BY <1>0, <2>2
  <2>5. evalJson' \in [mtime : Nat, whole : BOOLEAN, body : Bodies]
    BY <2>2, <2>3, <2>4
  <2>6. mtime <= 2 * writes' - 1 /\ writes' > 0 /\ writes' \in 0..MaxWrites
    BY <2>1, <2>4 DEF EvalInv
  <2>7. \A a \in EvalAttacks : evalShown'[a] < writes'
    BY <2>1 DEF EvalInv
  <2>8. hidden' \in BOOLEAN
    BY <2>2
  <2>9. watch'.mtime <= mtime /\ lastMtime' <= mtime
    BY <2>1, <2>4 DEF EvalInv
  <2>10. 2 * writes' - 1 <= 2 * writes'
    BY <2>1
  <2> QED
    BY <2>1, <2>4, <2>5, <2>6, <2>7, <2>8, <2>9, <2>10 DEF EvalInv, Current, Bodies
<1>3. CASE EndJson
  <2>1. /\ writes > 0 /\ ~evalJson.whole /\ writes \in Nat
        /\ UNCHANGED <<writes, watch, lastMtime, evalShown>>
    BY <1>3 DEF EndJson, EvalInv
  <2>2. PICK attacks \in SUBSET EvalAttacks : JsonChanged(TRUE, [a \in attacks |-> writes])
    BY <1>3 DEF EndJson
  <2>3. PICK mtime \in {evalJson.mtime, evalJson.mtime + 1} \ {0} :
          /\ evalJson' = [mtime |-> mtime, whole |-> TRUE, body |-> [a \in attacks |-> writes]]
          /\ hidden' = (mtime = evalJson.mtime)
    BY <2>2 DEF JsonChanged
  <2>4. [a \in attacks |-> writes] \in Bodies
    <3>1. [a \in attacks |-> writes] \in [attacks -> Nat]
      BY <2>1
    <3> QED  BY <3>1 DEF Bodies
  <2>5. /\ evalJson'.body = [a \in attacks |-> writes] /\ evalJson'.whole
        /\ evalJson'.mtime = mtime /\ mtime \in Nat /\ evalJson.mtime \in Nat
        /\ evalJson.mtime <= mtime /\ mtime <= evalJson.mtime + 1
    BY <1>0, <2>3
  <2>6. evalJson' \in [mtime : Nat, whole : BOOLEAN, body : Bodies]
    <3> DEFINE figures == [a \in attacks |-> writes]
    <3>1. figures \in Bodies /\ evalJson' = [mtime |-> mtime, whole |-> TRUE, body |-> figures]
      BY <2>3, <2>4
    <3> HIDE DEF figures
    <3> QED  BY <2>5, <3>1
  <2>7. mtime <= 2 * writes'
    BY <2>1, <2>5 DEF EvalInv
  <2>8. \A a \in DOMAIN evalJson'.body : evalJson'.body[a] = writes'
    BY <2>1, <2>5
  <2>9. \A a \in EvalAttacks : evalShown'[a] < writes'
    BY <2>1 DEF EvalInv
  <2>10. hidden' \in BOOLEAN /\ (~hidden' => mtime = evalJson.mtime + 1)
    BY <2>3
  <2>11. watch'.mtime <= evalJson.mtime /\ lastMtime' <= evalJson.mtime
    BY <2>1 DEF EvalInv
  <2>12. ~hidden' => watch'.mtime # evalJson'.mtime /\ lastMtime' # evalJson'.mtime
    BY <2>1, <2>5, <2>10, <2>11 DEF EvalInv
  <2>13. watch'.mtime <= evalJson'.mtime /\ lastMtime' <= evalJson'.mtime
    BY <2>1, <2>5, <2>11 DEF EvalInv
  <2> QED
    BY <2>1, <2>5, <2>6, <2>7, <2>8, <2>9, <2>10, <2>12, <2>13 DEF EvalInv, Bodies
<1>4. CASE PollMtime
  BY <1>4 DEF PollMtime, EvalInv, Current
<1>5. CASE LoadJson
  <2>1. /\ watch' = [watch EXCEPT !.step = "keep"] /\ hidden' = FALSE
        /\ UNCHANGED <<evalJson, writes, lastMtime>>
    BY <1>5 DEF LoadJson
  <2>2. evalJson.whole => Current'
    BY <1>5, <2>1 DEF LoadJson, Current, EvalInv
  <2>3. /\ evalShown' \in [EvalAttacks -> Nat]
        /\ \A a \in EvalAttacks : evalShown'[a] <= writes
    BY <1>5 DEF LoadJson, EvalInv
  <2>4. ~evalJson.whole => evalShown' = evalShown
    BY <1>5 DEF LoadJson
  <2>5. watch' \in [step : {"poll", "load", "keep"}, mtime : Nat] /\ watch'.step = "keep"
        /\ watch'.mtime = watch.mtime
    BY <2>1 DEF EvalInv
  <2> QED  BY <2>1, <2>2, <2>3, <2>4, <2>5 DEF EvalInv
<1>6. CASE KeepMtime
  BY <1>6 DEF KeepMtime, EvalInv, Current
<1> QED
  BY <1>1, <1>2, <1>3, <1>4, <1>5, <1>6
     DEF WatchNext, EmptySidecar, WriteSidecar, ReadThreshold, watchVars, evalVars

(* The model: only ReadThreshold changes what is shown.                     *)
LEMMA ModelStep == ModelInv /\ [WatchNext]_watchVars => ModelInv'
<1> SUFFICES ASSUME ModelInv, [WatchNext]_watchVars PROVE ModelInv'
  OBVIOUS
<1>1. CASE UNCHANGED sidecarVars
  BY <1>1 DEF ModelInv, OneModelActive, sidecarVars
<1>2. CASE EmptySidecar \/ \E m \in Detectors : WriteSidecar(m)
  BY <1>2 DEF EmptySidecar, WriteSidecar, ModelInv, OneModelActive
<1>3. CASE ReadThreshold
  <2>1. sidecar \in Detectors /\ sidecar # NoModel /\ lastModel' = sidecar /\ sidecar' = sidecar
    BY <1>3 DEF ReadThreshold, ModelInv, evalVars
  <2>2. \A m \in Detectors : modelShown[m] = 1 => m = lastModel
    BY DEF ModelInv, OneModelActive
  <2>3. modelShown' \in [Detectors -> {NoSeries, 0, 1}]
    BY <1>3 DEF ReadThreshold, ModelInv
  <2>4. \A m \in Detectors : modelShown'[m] = 1 <=> m = sidecar
    BY <1>3, <2>2 DEF ReadThreshold
  <2> QED  BY <2>1, <2>3, <2>4 DEF ModelInv, OneModelActive
<1> QED
  BY <1>1, <1>2, <1>3
     DEF WatchNext, BeginJson, EndJson, PollMtime, LoadJson, KeepMtime, watchVars, sidecarVars

(* The types, for any attacks, models and number of writes.                 *)
THEOREM WatchTypes == WatchSpec => []WatchTypeOK
<1>1. EvalInv /\ ModelInv => WatchTypeOK
  BY WatchedFilesAssumption DEF EvalInv, ModelInv, WatchTypeOK
<1> QED  BY <1>1, WatchedInit, EvalStep, ModelStep, PTL DEF WatchSpec

(* eval_watch_loop keeps the time it read before the load, so that a file   *)
(* written during the load is loaded again; what it misses is a file that   *)
(* was completed in the very tick of the time kept, and nothing else.       *)
THEOREM NoResultMissed == WatchSpec => []ResultsNotMissed
<1>1. EvalInv => ResultsNotMissed
  <2> SUFFICES ASSUME EvalInv, watch.step = "poll", lastMtime = evalJson.mtime, evalJson.whole,
                      NEW a \in DOMAIN evalJson.body
               PROVE  (evalShown[a] = evalJson.body[a]) <=> ~hidden
    BY DEF ResultsNotMissed
  <2>1. evalJson.body[a] = writes /\ a \in EvalAttacks /\ writes > 0 /\ hidden \in BOOLEAN
    BY DEF EvalInv
  <2>2. CASE hidden
    <3>1. evalShown[a] < writes /\ evalShown[a] \in Nat /\ writes \in Nat
      BY <2>1, <2>2 DEF EvalInv
    <3> QED  BY <2>1, <2>2, <3>1
  <2>3. CASE ~hidden
    BY <2>1, <2>3 DEF EvalInv, Current
  <2> QED  BY <2>1, <2>2, <2>3
<1> QED  BY <1>1, WatchedInit, EvalStep, PTL DEF WatchSpec

(* read_active_threshold shows one model as active, whichever the monitor   *)
(* was started with and however often.                                      *)
THEOREM OneActiveModel == WatchSpec => []OneModelActive
<1>1. ModelInv => OneModelActive
  BY DEF ModelInv
<1> QED  BY <1>1, WatchedInit, ModelStep, PTL DEF WatchSpec

-----------------------------------------------------------------------------
(* UeMetrics: what three threads leave in the per-UE series.                *)
AlertRows == Rnti \X (0..2)

(* Types, with those of the row the alert thread is at and of the events.   *)
SeriesTypes ==
  /\ UeMetricsTypeOK
  /\ alertTail \in [file : Nat, step : {"poll", "read", "gauges", "count"},
                    row : AlertRows \cup {<<>>}]
  /\ alertTail.step \in {"gauges", "count"} => alertTail.row \in AlertRows
  /\ sweep \in [step : {"rows", "scan", "remove", "dead"}, stale : SUBSET Rnti]
  /\ lastEvent \in [Rnti -> {Absent, 0, 1}]

(* A stage shown is the stage kept, but for the UE of the alert whose       *)
(* gauges are set and whose stage is not kept yet: its is the alert's.      *)
ShownInv ==
  /\ ShownIsLastRead
  /\ alertTail.step = "count" => stage[AlertRow] \in {Absent, alertTail.row[2]}

LEMMA SeriesInit == UeMetricsInit => SeriesTypes /\ ShownInv
<1> SUFFICES ASSUME UeMetricsInit PROVE SeriesTypes /\ ShownInv
  OBVIOUS
<1>1. <<<<>>>> \in Seq(Seq(AlertRows)) /\ Len(<<<<>>>>) = 1
  OBVIOUS
<1>2. OverStale \in Nat /\ 1 \in 1..MaxFiles
  BY UeMetricsAssumption DEF OverStale
<1> QED
  BY <1>1, <1>2 DEF UeMetricsInit, SeriesTypes, UeMetricsTypeOK, ShownInv, ShownIsLastRead,
                    Newest, Absent, OverStale, AlertRows

LEMMA OlderType ==
  \A age \in {Absent} \cup 0..OverStale : Older(age) \in {Absent} \cup 0..OverStale
  BY UeMetricsAssumption DEF Older, Absent, OverStale

(* Types: one step for each action.                                         *)
LEMMA SeriesTypesStep == SeriesTypes /\ [UeMetricsNext]_ueMetricsVars => SeriesTypes'
<1> SUFFICES ASSUME SeriesTypes, [UeMetricsNext]_ueMetricsVars PROVE SeriesTypes'
  OBVIOUS
<1> USE UeMetricsAssumption DEF SeriesTypes, UeMetricsTypeOK, Newest, Absent, alertFiles
<1>1. CASE UNCHANGED ueMetricsVars
  BY <1>1 DEF ueMetricsVars, AlertRow
<1>2. CASE \E r \in Rnti, s \in Stages : WriteAlert(r, s)
  <2>1. PICK r \in Rnti, s \in Stages : WriteAlert(r, s)
    BY <1>2
  <2>2. unread' = [unread EXCEPT ![Len(unread)] = Append(@, <<r, s>>)]
    BY <2>1 DEF WriteAlert
  <2>3. <<r, s>> \in AlertRows /\ Len(unread) \in DOMAIN unread
    <3>1. s \in 0..2
      BY <2>1
    <3>2. DOMAIN unread = 1..Len(unread) /\ Len(unread) \in Nat /\ Len(unread) >= 1
      OBVIOUS
    <3> QED  BY <3>1, <3>2 DEF AlertRows
  <2>4. Append(unread[Len(unread)], <<r, s>>) \in Seq(AlertRows)
    BY <2>3 DEF AlertRows
  <2>5. unread' \in Seq(Seq(AlertRows)) /\ Len(unread') = Len(unread)
    BY <2>2, <2>3, <2>4 DEF AlertRows
  <2> QED  BY <2>1, <2>5 DEF WriteAlert, AlertRows
<1>3. CASE MonitorRestart
  <2>1. unread' = Append(unread, <<>>) /\ Len(unread) < MaxFiles
    BY <1>3 DEF MonitorRestart
  <2>2. unread' \in Seq(Seq(AlertRows)) /\ Len(unread') = Len(unread) + 1
    BY <2>1 DEF AlertRows
  <2> QED  BY <1>3, <2>1, <2>2 DEF MonitorRestart, AlertRows
<1>4. CASE Second
  <2>1. lastUpdate' = [r \in Rnti |-> Older(lastUpdate[r])]
    BY <1>4 DEF Second
  <2>2. lastUpdate' \in [Rnti -> {Absent} \cup 0..OverStale]
    BY <2>1, OlderType
  <2> QED  BY <1>4, <2>2 DEF Second
<1>5. CASE PollAlerts
  BY <1>5 DEF PollAlerts
<1>6. CASE NextAlert
  <2> DEFINE rows == unread[alertTail.file]
  <2>1. rows \in Seq(AlertRows) /\ alertTail.file \in DOMAIN unread
    BY DEF AlertRows
  <2>2. CASE rows = <<>>
    BY <1>6, <2>2 DEF NextAlert
  <2>3. CASE rows # <<>>
    <3>1. Head(rows) \in AlertRows /\ Tail(rows) \in Seq(AlertRows)
      BY <2>1, <2>3
    <3>2. /\ alertTail' = [alertTail EXCEPT !.step = "gauges", !.row = Head(rows)]
          /\ unread' = [unread EXCEPT ![alertTail.file] = Tail(rows)]
          /\ lastUpdate' = [lastUpdate EXCEPT ![Head(rows)[1]] = 0]
          /\ UNCHANGED <<sweep, prevStage, stage, mitigation, lastEvent>>
      BY <1>6, <2>3 DEF NextAlert
    <3>3. unread' \in Seq(Seq(AlertRows)) /\ Len(unread') = Len(unread)
      BY <2>1, <3>1, <3>2 DEF AlertRows
    <3>4. lastUpdate' \in [Rnti -> {Absent} \cup 0..OverStale]
      BY <3>1, <3>2 DEF OverStale, AlertRows
    <3> HIDE DEF rows
    <3> QED  BY <3>1, <3>2, <3>3, <3>4 DEF AlertRows
  <2> QED  BY <2>2, <2>3
<1>7. CASE SetAlertGauges
  BY <1>7 DEF SetAlertGauges, AlertRow, AlertRows
<1>8. CASE CountBlocked
  BY <1>8 DEF CountBlocked, AlertRow, AlertRows
<1>9. ASSUME NEW r \in Rnti, ReadFeature(r) \/ RemoveStale(r) PROVE SeriesTypes'
  <2>1. CASE ReadFeature(r)
    BY <2>1 DEF ReadFeature, OverStale
  <2>2. CASE RemoveStale(r)
    BY <2>2 DEF RemoveStale
  <2> QED  BY <1>9, <2>1, <2>2
<1>10. CASE BeginScan \/ EndScan \/ EndSweep
  <2>1. CASE BeginScan
    BY <2>1 DEF BeginScan, Known
  <2>2. CASE EndScan
    BY <2>2 DEF EndScan, Known
  <2>3. CASE EndSweep
    BY <2>3 DEF EndSweep
  <2> QED  BY <1>10, <2>1, <2>2, <2>3
<1>11. CASE \E r \in Rnti, active \in {0, 1} : ReadMitigation(r, active)
  BY <1>11 DEF ReadMitigation
<1> QED
  BY <1>1, <1>2, <1>3, <1>4, <1>5, <1>6, <1>7, <1>8, <1>9, <1>10, <1>11 DEF UeMetricsNext

(* What is shown: only the alert thread and the sweep touch the stage, only *)
(* mitigation events and the sweep the mitigation.                          *)
LEMMA ShownStep == SeriesTypes /\ ShownInv /\ [UeMetricsNext]_ueMetricsVars => ShownInv'
<1> SUFFICES ASSUME SeriesTypes, ShownInv, [UeMetricsNext]_ueMetricsVars PROVE ShownInv'
  OBVIOUS
<1> USE DEF ShownInv, ShownIsLastRead, AlertRow
<1>1. CASE UNCHANGED <<alertTail, prevStage, stage, mitigation, lastEvent>>
  BY <1>1
<1>2. CASE PollAlerts \/ NextAlert
  <2>1. alertTail.step # "count" /\ alertTail'.step # "count"
    <3>1. CASE PollAlerts
      BY <3>1 DEF PollAlerts
    <3>2. CASE NextAlert
      <4>1. alertTail.step = "read"
        BY <3>2 DEF NextAlert
      <4>2. \/ alertTail' = [alertTail EXCEPT !.step = "poll"]
            \/ alertTail' = [alertTail EXCEPT !.step = "gauges", !.row = Head(unread[alertTail.file])]
        BY <3>2 DEF NextAlert
      <4> QED  BY <4>1, <4>2 DEF SeriesTypes
    <3> QED  BY <1>2, <3>1, <3>2
  <2>2. UNCHANGED <<prevStage, stage, mitigation, lastEvent>>
    BY <1>2 DEF PollAlerts, NextAlert
  <2> QED  BY <2>1, <2>2
<1>3. CASE SetAlertGauges
  <2>1. AlertRow \in Rnti
    BY <1>3 DEF SetAlertGauges, SeriesTypes, AlertRows
  <2>2. /\ alertTail'.step = "count" /\ alertTail'.row = alertTail.row
        /\ stage' = [stage EXCEPT ![AlertRow] = alertTail.row[2]]
        /\ UNCHANGED <<prevStage, mitigation, lastEvent>> /\ alertTail.step = "gauges"
    BY <1>3 DEF SetAlertGauges, SeriesTypes
  <2> QED  BY <2>1, <2>2 DEF SeriesTypes, UeMetricsTypeOK
<1>4. CASE CountBlocked
  <2>1. AlertRow \in Rnti
    BY <1>4 DEF CountBlocked, SeriesTypes, AlertRows
  <2>2. /\ alertTail'.step = "read" /\ alertTail.step = "count"
        /\ prevStage' = [prevStage EXCEPT ![AlertRow] = alertTail.row[2]]
        /\ UNCHANGED <<stage, mitigation, lastEvent>>
    BY <1>4 DEF CountBlocked, SeriesTypes
  <2> QED  BY <2>1, <2>2 DEF SeriesTypes, UeMetricsTypeOK
<1>5. CASE \E r \in Rnti : RemoveStale(r)
  BY <1>5 DEF RemoveStale, SeriesTypes, UeMetricsTypeOK
<1>6. CASE \E r \in Rnti, active \in {0, 1} : ReadMitigation(r, active)
  BY <1>6 DEF ReadMitigation, SeriesTypes, UeMetricsTypeOK
<1> QED
  BY <1>1, <1>2, <1>3, <1>4, <1>5, <1>6
     DEF UeMetricsNext, WriteAlert, MonitorRestart, Second, ReadFeature, BeginScan,
         EndScan, EndSweep, ueMetricsVars

(* The types of the exporter's tables and series.                           *)
THEOREM UeMetricsTypes == UeMetricsSpec => []UeMetricsTypeOK
<1>1. SeriesTypes => UeMetricsTypeOK
  BY DEF SeriesTypes
<1> QED  BY <1>1, SeriesInit, SeriesTypesStep, PTL DEF UeMetricsSpec

(* Whatever order the three threads' steps fall in, without a lock, a series *)
(* that is there has the value last read of its UE.                         *)
THEOREM NoOldValueShown == UeMetricsSpec => []ShownIsLastRead
<1>1. ShownInv => ShownIsLastRead
  BY DEF ShownInv
<1> QED  BY <1>1, SeriesInit, SeriesTypesStep, ShownStep, PTL DEF UeMetricsSpec

-----------------------------------------------------------------------------
(* The count of escalations.                                               *)

\* The stage of r is below 2 after the first n rows of a file, start being the
\* stages before them.
Low(rows, start, n, r) ==
  \/ start[r] < 2 /\ \A i \in 1..n : rows[i][1] # r
  \/ \E j \in 1..n : /\ rows[j][1] = r /\ rows[j][2] < 2
                     /\ \A i \in 1..n : i > j => rows[i][1] # r

\* The rows among those that take their UE from below 2 to 2.
Escalations(rows, start) ==
  {k \in 1..Len(rows) : rows[k][2] = 2 /\ Low(rows, start, k - 1, rows[k][1])}

\* The last stages as they will be when the row in hand is dealt with, and
\* whether it will be counted.
HasRow == alertTail.step \in {"gauges", "count"}
Kept == IF HasRow THEN [prevStage EXCEPT ![AlertRow] = alertTail.row[2]] ELSE prevStage
InHand == IF HasRow /\ Escalates THEN 1 ELSE 0

AllCalm == [r \in Rnti |-> 0]
Reading == unread[alertTail.file]

Pending == Cardinality(Escalations(Reading, Kept))
Ahead == IF alertTail.file = Newest THEN 0
         ELSE Cardinality(Escalations(unread[Newest], AllCalm))
TailStart == IF alertTail.file = Newest THEN Kept ELSE AllCalm

(* What was counted, what the row in hand and the rest of its file will add, *)
(* and what a newer file would add to a reader that knew no stage, is not    *)
(* more than was written; and the monitor's stage of a UE is not above what  *)
(* the rows of its file leave.                                              *)
CountInv ==
  /\ blocked \in Nat
  /\ written.escalations \in Nat /\ written.stage \in [Rnti -> 0..2]
  /\ written = [escalations |-> written.escalations, stage |-> written.stage,
                rows |-> written.rows]
  /\ blocked + InHand + Pending + Ahead <= written.escalations
  /\ \A r \in Rnti :
       Low(unread[Newest], TailStart, Len(unread[Newest]), r) => written.stage[r] < 2

LEMMA EscalationsFinite ==
  ASSUME NEW rows \in Seq(AlertRows), NEW start
  PROVE  /\ IsFiniteSet(Escalations(rows, start))
         /\ Cardinality(Escalations(rows, start)) \in Nat
<1>1. Len(rows) \in Nat /\ IsFiniteSet(1..Len(rows))
  BY FS_Interval
<1>2. Escalations(rows, start) \subseteq 1..Len(rows)
  BY DEF Escalations
<1>3. IsFiniteSet(Escalations(rows, start))
  BY <1>1, <1>2, FS_Subset
<1> QED  BY <1>3, FS_CardinalityType

LEMMA RowIs ==
  ASSUME NEW row \in AlertRows
  PROVE  row[1] \in Rnti /\ row[2] \in 0..2 /\ row = <<row[1], row[2]>>
BY DEF AlertRows

\* Lower stages before a file: fewer rows are escalations.
LEMMA EscalationsMonotone ==
  ASSUME NEW rows \in Seq(AlertRows), NEW start, NEW below,
         \A r \in Rnti : start[r] < 2 => below[r] < 2
  PROVE  /\ \A n, r : r \in Rnti /\ Low(rows, start, n, r) => Low(rows, below, n, r)
         /\ Cardinality(Escalations(rows, start)) <= Cardinality(Escalations(rows, below))
<1>1. \A n, r : r \in Rnti /\ Low(rows, start, n, r) => Low(rows, below, n, r)
  BY DEF Low
<1>2. \A k \in 1..Len(rows) : rows[k] \in AlertRows
  OBVIOUS
<1>3. Escalations(rows, start) \subseteq Escalations(rows, below)
  BY <1>1, <1>2, RowIs DEF Escalations
<1>4. IsFiniteSet(Escalations(rows, below))
  BY EscalationsFinite
<1> QED  BY <1>1, <1>3, <1>4, FS_Subset

\* A row more.
LEMMA EscalationsAppend ==
  ASSUME NEW rows \in Seq(AlertRows), NEW row \in AlertRows, NEW start,
         NEW longer, longer = Append(rows, row)
  PROVE  /\ longer \in Seq(AlertRows)
         /\ \A r : Low(longer, start, Len(longer), r) =>
              IF r = row[1] THEN row[2] < 2 ELSE Low(rows, start, Len(rows), r)
         /\ Cardinality(Escalations(longer, start)) <=
              Cardinality(Escalations(rows, start))
              + (IF row[2] = 2 /\ Low(rows, start, Len(rows), row[1]) THEN 1 ELSE 0)
<1> DEFINE n == Len(rows)
<1>1. /\ n \in Nat /\ longer \in Seq(AlertRows) /\ Len(longer) = n + 1 /\ longer[n + 1] = row
      /\ \A i \in 1..n : longer[i] = rows[i]
  BY AppendProperties
<1> HIDE DEF n
<1>2. ASSUME NEW k \in 0..n, NEW r, Low(longer, start, k, r) PROVE Low(rows, start, k, r)
  <2>1. \A i \in 1..k : longer[i] = rows[i]
    BY <1>1
  <2> QED  BY <1>2, <2>1 DEF Low
<1>3. ASSUME NEW r, Low(longer, start, n + 1, r)
      PROVE  IF r = row[1] THEN row[2] < 2 ELSE Low(rows, start, n, r)
  <2>1. n + 1 \in 1..(n + 1) /\ \A i \in 1..n : i \in 1..(n + 1) /\ i # n + 1
    BY <1>1
  <2>2. CASE start[r] < 2 /\ \A i \in 1..(n + 1) : longer[i][1] # r
    BY <1>1, <2>1, <2>2 DEF Low
  <2>3. CASE \E j \in 1..(n + 1) : /\ longer[j][1] = r /\ longer[j][2] < 2
                                   /\ \A i \in 1..(n + 1) : i > j => longer[i][1] # r
    <3>1. PICK j \in 1..(n + 1) : /\ longer[j][1] = r /\ longer[j][2] < 2
                                  /\ \A i \in 1..(n + 1) : i > j => longer[i][1] # r
      BY <2>3
    <3>2. CASE j = n + 1
      BY <1>1, <3>1, <3>2
    <3>3. CASE j # n + 1
      <4>1. j \in 1..n /\ n + 1 > j
        BY <1>1, <3>3
      <4>2. r # row[1]
        BY <1>1, <2>1, <3>1, <4>1
      <4>3. rows[j][1] = r /\ rows[j][2] < 2 /\ \A i \in 1..n : i > j => rows[i][1] # r
        BY <1>1, <2>1, <3>1, <4>1
      <4> QED  BY <4>1, <4>2, <4>3 DEF Low
    <3> QED  BY <3>2, <3>3
  <2> QED  BY <1>3, <2>2, <2>3 DEF Low
<1>4. \A k \in Escalations(longer, start) :
        k \in Escalations(rows, start)
        \/ (k = n + 1 /\ row[2] = 2 /\ Low(rows, start, n, row[1]))
  <2> TAKE k \in Escalations(longer, start)
  <2>1. k \in 1..(n + 1) /\ longer[k][2] = 2 /\ Low(longer, start, k - 1, longer[k][1])
    BY <1>1 DEF Escalations
  <2>2. k - 1 \in 0..n
    BY <1>1, <2>1
  <2>3. Low(rows, start, k - 1, longer[k][1])
    BY <1>2, <2>1, <2>2
  <2>4. CASE k = n + 1
    <3>1. k - 1 = n
      BY <1>1, <2>4
    <3> QED  BY <1>1, <2>1, <2>3, <2>4, <3>1
  <2>5. CASE k # n + 1
    <3>1. k \in 1..n
      BY <1>1, <2>1, <2>5
    <3> QED  BY <1>1, <2>1, <2>3, <3>1 DEF Escalations, n
  <2> QED  BY <2>4, <2>5
<1> DEFINE E == Escalations(rows, start)
           F == Escalations(longer, start)
           c == Cardinality(E)
<1>5. IsFiniteSet(E) /\ c \in Nat
  BY EscalationsFinite
<1>6. CASE row[2] = 2 /\ Low(rows, start, n, row[1])
  <2>1. F \subseteq E \cup {n + 1}
    BY <1>4
  <2>2. n + 1 \notin E
    BY <1>1 DEF Escalations, n
  <2> HIDE DEF E, F
  <2>3. IsFiniteSet(E \cup {n + 1}) /\ Cardinality(E \cup {n + 1}) = Cardinality(E) + 1
    BY <1>5, <2>2, FS_AddElement
  <2>4. Cardinality(F) <= Cardinality(E) + 1
    BY <2>1, <2>3, FS_Subset
  <2> QED  BY <1>1, <1>3, <1>6, <2>4 DEF E, F, n
<1>7. CASE ~(row[2] = 2 /\ Low(rows, start, n, row[1]))
  <2>1. F \subseteq E
    BY <1>4, <1>7
  <2> HIDE DEF E, F
  <2>2. Cardinality(F) <= Cardinality(E) + 0
    BY <1>5, <2>1, FS_Subset
  <2> QED  BY <1>1, <1>3, <1>7, <2>2 DEF E, F, n
<1> QED  BY <1>6, <1>7

\* The first row read: what it adds goes from the file to the hand.
TailCounted(rows, start, row, rest, after) ==
  /\ row \in AlertRows /\ rest \in Seq(AlertRows)
  /\ \A r \in Rnti : Low(rest, after, Len(rest), r) => Low(rows, start, Len(rows), r)
  /\ Cardinality(Escalations(rest, after))
       + (IF row[2] >= 2 /\ start[row[1]] < 2 THEN 1 ELSE 0)
       <= Cardinality(Escalations(rows, start))
LEMMA EscalationsTail ==
  ASSUME NEW rows \in Seq(AlertRows), rows # <<>>, NEW start \in [Rnti -> 0..2],
         NEW row, row = Head(rows), NEW rest, rest = Tail(rows),
         NEW after, after = [start EXCEPT ![row[1]] = row[2]]
  PROVE  TailCounted(rows, start, row, rest, after)
<1> DEFINE n == Len(rest)
<1>1. /\ row \in AlertRows /\ rest \in Seq(AlertRows) /\ n \in Nat /\ Len(rows) = n + 1
      /\ rows[1] = row /\ \A i \in 1..n : rest[i] = rows[i + 1]
  BY HeadTailProperties
<1>2. row[1] \in Rnti /\ row[2] \in 0..2
  BY <1>1, RowIs
<1> HIDE DEF n
<1>3. ASSUME NEW k \in 0..n, NEW r \in Rnti, Low(rest, after, k, r)
      PROVE  Low(rows, start, k + 1, r)
  <2>1. /\ 1 \in 1..(k + 1)
        /\ \A i \in 1..k : i + 1 \in 1..(k + 1) /\ rows[i + 1] = rest[i]
        /\ \A i \in 1..(k + 1) : i > 1 => i - 1 \in 1..k /\ rows[i] = rest[i - 1]
    <3>1. \A i \in 1..k : i \in 1..n
      BY <1>1
    <3>2. \A i \in 1..(k + 1) : i > 1 => i - 1 \in 1..k /\ (i - 1) + 1 = i
      BY <1>1
    <3> QED  BY <1>1, <3>1, <3>2
  <2>2. CASE after[r] < 2 /\ \A i \in 1..k : rest[i][1] # r
    <3>1. CASE r = row[1]
      <4>1. rows[1][1] = r /\ rows[1][2] < 2
        BY <1>1, <1>2, <2>2, <3>1
      <4>2. \A i \in 1..(k + 1) : i > 1 => rows[i][1] # r
        <5> TAKE i \in 1..(k + 1)
        <5>1. i > 1 => i - 1 \in 1..k /\ rows[i] = rest[i - 1]
          BY <2>1
        <5> QED  BY <2>2, <5>1
      <4> QED  BY <2>1, <4>1, <4>2 DEF Low
    <3>2. CASE r # row[1]
      <4>1. start[r] < 2
        BY <1>2, <2>2, <3>2
      <4>2. ASSUME NEW i \in 1..(k + 1) PROVE rows[i][1] # r
        <5>1. CASE i > 1
          <6>1. i - 1 \in 1..k /\ rows[i] = rest[i - 1]
            BY <2>1, <5>1
          <6> QED  BY <2>2, <6>1
        <5>2. CASE i = 1
          BY <1>1, <3>2, <5>2
        <5> QED  BY <5>1, <5>2
      <4> QED  BY <4>1, <4>2 DEF Low
    <3> QED  BY <3>1, <3>2
  <2>3. CASE \E j \in 1..k : /\ rest[j][1] = r /\ rest[j][2] < 2
                             /\ \A i \in 1..k : i > j => rest[i][1] # r
    <3>1. PICK j \in 1..k : /\ rest[j][1] = r /\ rest[j][2] < 2
                            /\ \A i \in 1..k : i > j => rest[i][1] # r
      BY <2>3
    <3>2. rows[j + 1][1] = r /\ rows[j + 1][2] < 2 /\ j + 1 \in 1..(k + 1)
      BY <2>1, <3>1
    <3>3. ASSUME NEW i \in 1..(k + 1), i > j + 1 PROVE rows[i][1] # r
      <4>1. i > 1 /\ i - 1 > j
        BY <1>1, <3>1, <3>3
      <4>2. i - 1 \in 1..k /\ rows[i] = rest[i - 1]
        BY <2>1, <4>1
      <4> QED  BY <3>1, <4>1, <4>2
    <3> QED  BY <3>2, <3>3 DEF Low
  <2> QED  BY <1>3, <2>2, <2>3 DEF Low
<1> DEFINE E == Escalations(rest, after)
           F == Escalations(rows, start)
           T == {k + 1 : k \in E}
<1>4. E \subseteq 1..n /\ \A k \in E : k + 1 \in F /\ k + 1 # 1
  <2>1. E \subseteq 1..n
    BY DEF Escalations, n
  <2>2. ASSUME NEW k \in E PROVE k + 1 \in F /\ k + 1 # 1
    <3>1. k \in 1..n /\ rest[k][2] = 2 /\ Low(rest, after, k - 1, rest[k][1])
      BY DEF Escalations, n
    <3>2. rest[k] = rows[k + 1] /\ rest[k][1] \in Rnti
      <4>1. rest[k] \in AlertRows
        BY <1>1, <3>1 DEF n
      <4> QED  BY <1>1, <3>1, <4>1, RowIs
    <3>3. k - 1 \in 0..n /\ (k - 1) + 1 = (k + 1) - 1 /\ k + 1 \in 1..(n + 1) /\ k + 1 # 1
      BY <1>1, <3>1
    <3>4. Low(rows, start, (k + 1) - 1, rows[k + 1][1])
      BY <1>3, <3>1, <3>2, <3>3
    <3> QED  BY <1>1, <3>1, <3>2, <3>3, <3>4 DEF Escalations
  <2> QED  BY <2>1, <2>2
<1>5. IsFiniteSet(E) /\ IsFiniteSet(F) /\ Cardinality(E) \in Nat /\ Cardinality(F) \in Nat
  BY <1>1, EscalationsFinite
<1>6. IsFiniteSet(T) /\ Cardinality(T) = Cardinality(E)
  <2> DEFINE f == [k \in E |-> k + 1]
  <2>1. \A k \in E : k \in Nat
    BY <1>1, <1>4
  <2> HIDE DEF E
  <2>2. f \in Bijection(E, T)
    BY <2>1 DEF Bijection, Injection, Surjection, IsInjective
  <2>3. ExistsBijection(E, T)
    BY <2>2 DEF ExistsBijection
  <2> HIDE DEF T
  <2> QED  BY <1>5, <2>3, FS_Bijection
<1>7. T \subseteq F /\ 1 \notin T
  BY <1>4
<1>8. row[2] >= 2 /\ start[row[1]] < 2 => 1 \in F
  <2>1. Low(rows, start, 0, row[1]) <=> start[row[1]] < 2
    BY DEF Low
  <2>2. 1 - 1 = 0 /\ 1 \in 1..(n + 1) /\ (row[2] >= 2 => row[2] = 2)
    BY <1>1, <1>2
  <2> QED  BY <1>1, <2>1, <2>2 DEF Escalations
<1>9. \A r \in Rnti : Low(rest, after, n, r) => Low(rows, start, Len(rows), r)
  <2>1. n \in 0..n /\ Len(rows) = n + 1
    BY <1>1
  <2> QED  BY <1>3, <2>1
<1> HIDE DEF E, F, T
<1>10. Cardinality(E) + (IF row[2] >= 2 /\ start[row[1]] < 2 THEN 1 ELSE 0) <= Cardinality(F)
  <2>1. CASE row[2] >= 2 /\ start[row[1]] < 2
    <3>1. T \cup {1} \subseteq F /\ Cardinality(T \cup {1}) = Cardinality(T) + 1
      BY <1>6, <1>7, <1>8, <2>1, FS_AddElement
    <3>2. Cardinality(T \cup {1}) <= Cardinality(F)
      BY <1>5, <3>1, FS_Subset
    <3> QED  BY <1>6, <2>1, <3>1, <3>2
  <2>2. CASE ~(row[2] >= 2 /\ start[row[1]] < 2)
    <3>1. Cardinality(T) <= Cardinality(F)
      BY <1>5, <1>7, FS_Subset
    <3> QED  BY <1>5, <1>6, <2>2, <3>1
  <2> QED  BY <2>1, <2>2
<1> QED  BY <1>1, <1>9, <1>10 DEF E, F, n, TailCounted

LEMMA CountInit == UeMetricsInit => CountInv
<1> SUFFICES ASSUME UeMetricsInit PROVE CountInv
  OBVIOUS
<1>1. /\ unread = <<<<>>>> /\ Newest = 1 /\ alertTail.file = 1 /\ ~HasRow /\ blocked = 0
      /\ unread[1] = <<>>
  BY DEF UeMetricsInit, Newest, HasRow
<1>2. Escalations(<<>>, Kept) = {} /\ Cardinality({}) = 0
  BY FS_EmptySet DEF Escalations
<1>3. Pending = 0 /\ Ahead = 0 /\ InHand = 0
  BY <1>1, <1>2 DEF Pending, Reading, Ahead, InHand
<1> QED  BY <1>1, <1>3 DEF UeMetricsInit, NewFile, CountInv

\* The numbers of the count are numbers, and the last stages are stages.
LEMMA CountTypes ==
  SeriesTypes => /\ Reading \in Seq(AlertRows) /\ unread[Newest] \in Seq(AlertRows)
                 /\ Newest \in 1..Len(unread) /\ alertTail.file \in 1..Len(unread)
                 /\ Kept \in [Rnti -> 0..2] /\ AllCalm \in [Rnti -> 0..2]
                 /\ InHand \in {0, 1} /\ Pending \in Nat /\ Ahead \in Nat
<1> SUFFICES ASSUME SeriesTypes
             PROVE  /\ Reading \in Seq(AlertRows) /\ unread[Newest] \in Seq(AlertRows)
                    /\ Newest \in 1..Len(unread) /\ alertTail.file \in 1..Len(unread)
                    /\ Kept \in [Rnti -> 0..2] /\ AllCalm \in [Rnti -> 0..2]
                    /\ InHand \in {0, 1} /\ Pending \in Nat /\ Ahead \in Nat
  OBVIOUS
<1>1. /\ unread \in Seq(Seq(AlertRows)) /\ Newest \in 1..Len(unread)
      /\ alertTail.file \in 1..Len(unread)
  BY DEF SeriesTypes, UeMetricsTypeOK, AlertRows, Newest
<1>2. Reading \in Seq(AlertRows) /\ unread[Newest] \in Seq(AlertRows)
  BY <1>1 DEF Reading
<1>3. Kept \in [Rnti -> 0..2]
  <2>1. HasRow => AlertRow \in Rnti /\ alertTail.row[2] \in 0..2
    BY RowIs DEF SeriesTypes, HasRow, AlertRow
  <2> QED  BY <2>1 DEF SeriesTypes, UeMetricsTypeOK, Kept
<1>4. Pending \in Nat /\ Ahead \in Nat
  BY <1>2, EscalationsFinite DEF Pending, Ahead
<1> QED  BY <1>1, <1>2, <1>3, <1>4 DEF AllCalm, InHand

LEMMA CountTypesNext ==
  SeriesTypes' => (Pending \in Nat)' /\ (Ahead \in Nat)' /\ (InHand \in {0, 1})'
BY CountTypes, PTL

LEMMA CountStep == SeriesTypes /\ CountInv /\ [UeMetricsNext]_ueMetricsVars => CountInv'
<1> SUFFICES ASSUME SeriesTypes, CountInv, [UeMetricsNext]_ueMetricsVars PROVE CountInv'
  OBVIOUS
<1>1. /\ Reading \in Seq(AlertRows) /\ unread[Newest] \in Seq(AlertRows)
      /\ Newest \in 1..Len(unread) /\ alertTail.file \in 1..Len(unread)
      /\ Kept \in [Rnti -> 0..2] /\ AllCalm \in [Rnti -> 0..2]
      /\ InHand \in {0, 1} /\ Pending \in Nat /\ Ahead \in Nat
      /\ unread \in Seq(Seq(AlertRows)) /\ Newest = Len(unread)
  BY CountTypes DEF SeriesTypes, UeMetricsTypeOK, AlertRows, Newest
<1>2. /\ blocked \in Nat /\ written.escalations \in Nat /\ written.stage \in [Rnti -> 0..2]
      /\ written = [escalations |-> written.escalations, stage |-> written.stage,
                    rows |-> written.rows]
      /\ blocked + InHand + Pending + Ahead <= written.escalations
      /\ \A r \in Rnti :
           Low(unread[Newest], TailStart, Len(unread[Newest]), r) => written.stage[r] < 2
  BY DEF CountInv
<1>3. SeriesTypes'
  BY SeriesTypesStep
<1>4. /\ Pending' \in Nat /\ Ahead' \in Nat /\ InHand' \in {0, 1}
  BY <1>3, CountTypesNext
<1>5. CASE UNCHANGED <<unread, written, alertTail, prevStage, blocked>>
  <2>1. /\ Newest' = Newest /\ Reading' = Reading /\ AlertRow' = AlertRow
        /\ HasRow' = HasRow /\ Kept' = Kept /\ InHand' = InHand
    BY <1>5 DEF Newest, Reading, AlertRow, HasRow, Kept, InHand, Escalates
  <2>2. Pending' = Pending /\ Ahead' = Ahead /\ TailStart' = TailStart
    BY <1>5, <2>1 DEF Pending, Ahead, TailStart, AllCalm
  <2> QED  BY <1>2, <1>5, <2>1, <2>2 DEF CountInv
<1>6. ASSUME NEW r \in Rnti, NEW s \in Stages, WriteAlert(r, s) PROVE CountInv'
  <2> DEFINE row == <<r, s>>
             rows == unread[Newest]
             longer == Append(rows, row)
             counts == s = 2 /\ written.stage[r] < 2
  <2>1. /\ unread' = [unread EXCEPT ![Newest] = longer]
        /\ written' = [escalations |-> written.escalations + (IF counts THEN 1 ELSE 0),
                       stage |-> [written.stage EXCEPT ![r] = s], rows |-> written.rows + 1]
        /\ UNCHANGED <<alertTail, prevStage, blocked>>
    BY <1>6 DEF WriteAlert
  <2>2. row \in AlertRows /\ row[1] = r /\ row[2] = s /\ s \in 0..2
    BY UeMetricsAssumption DEF AlertRows
  <2> HIDE DEF row
  <2>3. /\ Len(unread') = Len(unread) /\ unread'[Newest] = longer
        /\ \A f \in 1..Len(unread) : f # Newest => unread'[f] = unread[f]
    BY <1>1, <2>1
  <2>4. /\ Newest' = Newest /\ HasRow' = HasRow /\ AlertRow' = AlertRow /\ Kept' = Kept
        /\ InHand' = InHand /\ AllCalm' = AllCalm /\ TailStart' = TailStart
    BY <2>1, <2>3 DEF Newest, HasRow, AlertRow, Kept, InHand, Escalates, AllCalm, TailStart
  <2> DEFINE E == Cardinality(Escalations(rows, TailStart))
             F == Cardinality(Escalations(longer, TailStart))
             more == IF s = 2 /\ Low(rows, TailStart, Len(rows), r) THEN 1 ELSE 0
  <2>5. /\ longer \in Seq(AlertRows)
        /\ \A q : Low(longer, TailStart, Len(longer), q) =>
             IF q = r THEN s < 2 ELSE Low(rows, TailStart, Len(rows), q)
        /\ F <= E + more
    <3> DEFINE first == row[1]
               second == row[2]
    <3>1. rows \in Seq(AlertRows) /\ first = r /\ second = s
      BY <1>1, <2>2
    <3>2. /\ longer \in Seq(AlertRows)
          /\ \A q : Low(longer, TailStart, Len(longer), q) =>
               IF q = first THEN second < 2 ELSE Low(rows, TailStart, Len(rows), q)
          /\ F <= E + (IF second = 2 /\ Low(rows, TailStart, Len(rows), first) THEN 1 ELSE 0)
      <4> HIDE DEF rows, TailStart
      <4> DEFINE from == TailStart
                 next == longer
      <4>1. rows \in Seq(AlertRows) /\ next = Append(rows, row)
        BY <3>1
      <4> HIDE DEF from, next, first, second
      <4>2. /\ next \in Seq(AlertRows)
            /\ \A q : Low(next, from, Len(next), q) =>
                 IF q = row[1] THEN row[2] < 2 ELSE Low(rows, from, Len(rows), q)
            /\ Cardinality(Escalations(next, from)) <=
                 Cardinality(Escalations(rows, from))
                 + (IF row[2] = 2 /\ Low(rows, from, Len(rows), row[1]) THEN 1 ELSE 0)
        BY <2>2, <4>1, EscalationsAppend
      <4> QED  BY <4>2 DEF from, next, first, second
    <3> HIDE DEF first, second, longer, E, F
    <3> QED  BY <3>1, <3>2
  <2>6. E \in Nat /\ F \in Nat
    BY <1>1, <2>5, EscalationsFinite
  <2>7. more <= (IF counts THEN 1 ELSE 0)
    BY <1>2
  <2>8. Pending' + Ahead' <= Pending + Ahead + more
    <3>1. CASE alertTail.file = Newest
      <4>1. Reading' = longer /\ Reading = rows /\ TailStart = Kept
        BY <2>1, <2>3, <3>1 DEF Reading, TailStart
      <4>2. Pending' = F /\ Pending = E /\ Ahead' = 0 /\ Ahead = 0
        BY <2>1, <2>4, <3>1, <4>1 DEF Pending, Ahead
      <4> HIDE DEF E, F
      <4> QED  BY <2>5, <2>6, <4>2
    <3>2. CASE alertTail.file # Newest
      <4>1. Reading' = Reading /\ TailStart = AllCalm
        BY <1>1, <2>1, <2>3, <3>2 DEF Reading, TailStart
      <4>2. Pending' = Pending /\ Ahead' = F /\ Ahead = E
        BY <2>1, <2>3, <2>4, <3>2, <4>1 DEF Pending, Ahead
      <4> HIDE DEF E, F, more
      <4>3. more \in {0, 1}
        BY DEF more
      <4> QED  BY <1>1, <2>5, <2>6, <4>2, <4>3
    <3> QED  BY <3>1, <3>2
  <2>9. blocked' + InHand' + Pending' + Ahead' <= written'.escalations
    <3> HIDE DEF more
    <3>1. more \in {0, 1}
      BY DEF more
    <3>2. written'.escalations = written.escalations + (IF counts THEN 1 ELSE 0)
      BY <2>1
    <3>3. blocked' = blocked /\ InHand' = InHand
      BY <2>1, <2>4
    <3>4. \A b, h, p, a, p2, a2, m, c, e \in Int :
            b + h + p + a <= e /\ p2 + a2 <= p + a + m /\ m <= c => b + h + p2 + a2 <= e + c
      OBVIOUS
    <3> DEFINE c == IF counts THEN 1 ELSE 0
    <3>5. c \in Int /\ more \in Int /\ more <= c
      BY <2>7, <3>1
    <3>6. InHand \in Int /\ blocked \in Int /\ Pending \in Int /\ Ahead \in Int
          /\ Pending' \in Int /\ Ahead' \in Int /\ written.escalations \in Int
      BY <1>1, <1>2, <1>4
    <3> HIDE DEF c
    <3> DEFINE b == blocked
               h == InHand
               p == Pending
               a == Ahead
               p2 == Pending'
               a2 == Ahead'
               e == written.escalations
    <3>8. b + h + p + a <= e /\ p2 + a2 <= p + a + more
      BY <1>2, <2>8
    <3>9. /\ b \in Int /\ h \in Int /\ p \in Int /\ a \in Int
          /\ p2 \in Int /\ a2 \in Int /\ e \in Int
      BY <3>6
    <3> HIDE DEF b, h, p, a, p2, a2, e
    <3>10. b + h + p2 + a2 <= e + c
      BY <3>4, <3>5, <3>8, <3>9
    <3>7. blocked + InHand + Pending' + Ahead' <= written.escalations + c
      BY <3>10 DEF b, h, p2, a2, e
    <3> QED  BY <3>2, <3>3, <3>7 DEF c
  <2>10. ASSUME NEW q \in Rnti,
                Low(unread'[Newest'], TailStart', Len(unread'[Newest']), q)
         PROVE  written'.stage[q] < 2
    <3>1. Low(longer, TailStart, Len(longer), q)
      BY <2>3, <2>4, <2>10
    <3>2. IF q = r THEN s < 2 ELSE Low(rows, TailStart, Len(rows), q)
      BY <2>5, <3>1
    <3> QED  BY <1>2, <2>1, <2>2, <3>2
  <2>11. /\ blocked' \in Nat /\ written'.escalations \in Nat
         /\ written'.stage \in [Rnti -> 0..2]
         /\ written' = [escalations |-> written'.escalations, stage |-> written'.stage,
                        rows |-> written'.rows]
    BY <1>2, <2>1, <2>2
  <2> QED  BY <2>9, <2>10, <2>11 DEF CountInv
<1>7. CASE MonitorRestart
  <2>1. /\ unread' = Append(unread, <<>>) /\ UNCHANGED <<alertTail, prevStage, blocked>>
        /\ written' = [written EXCEPT !.stage = NewFile.stage]
    BY <1>7 DEF MonitorRestart
  <2>2. /\ Len(unread') = Len(unread) + 1 /\ unread'[Len(unread) + 1] = <<>>
        /\ \A f \in 1..Len(unread) : unread'[f] = unread[f]
    BY <1>1, <2>1
  <2>3. /\ HasRow' = HasRow /\ AlertRow' = AlertRow /\ Kept' = Kept
        /\ InHand' = InHand /\ Reading' = Reading
    BY <1>1, <2>1, <2>2 DEF HasRow, AlertRow, Kept, InHand, Escalates, Reading
  <2>4. Newest' = Len(unread) + 1 /\ alertTail'.file # Newest' /\ unread'[Newest'] = <<>>
    BY <1>1, <2>1, <2>2 DEF Newest
  <2>5. Pending' = Pending
    BY <2>3 DEF Pending
  <2>6. Ahead' = 0
    <3>1. Escalations(<<>>, AllCalm) = {} /\ Cardinality({}) = 0
      BY FS_EmptySet DEF Escalations
    <3> QED  BY <2>4, <3>1 DEF Ahead, AllCalm
  <2>7. /\ written'.escalations = written.escalations
        /\ written'.stage = [q \in Rnti |-> 0]
        /\ written' = [escalations |-> written'.escalations, stage |-> written'.stage,
                       rows |-> written'.rows]
    BY <1>2, <2>1 DEF NewFile
  <2>8. blocked' + InHand' + Pending' + Ahead' <= written'.escalations
    BY <1>1, <1>2, <2>1, <2>3, <2>5, <2>6, <2>7
  <2> QED  BY <1>2, <2>1, <2>7, <2>8 DEF CountInv
<1>8. CASE PollAlerts
  <2>1. /\ alertTail.step = "poll" /\ UNCHANGED <<unread, written, prevStage, blocked>>
        /\ alertTail' = [file |-> Newest, step |-> "read", row |-> <<>>]
    BY <1>8 DEF PollAlerts, alertFiles
  <2>2. /\ ~HasRow /\ ~HasRow' /\ Kept = prevStage /\ Kept' = prevStage
        /\ InHand = 0 /\ InHand' = 0 /\ Newest' = Newest /\ alertTail'.file = Newest
        /\ Reading' = unread[Newest]
    BY <2>1 DEF HasRow, Kept, InHand, Newest, Reading
  <2>3. TailStart' = Kept /\ Ahead' = 0 /\ Pending' = Cardinality(Escalations(unread[Newest], Kept))
    BY <2>2 DEF TailStart, Ahead, Pending
  <2>4. \A q \in Rnti : Kept[q] < 2 => TailStart[q] < 2
    BY DEF TailStart, AllCalm
  <2> DEFINE rows == unread[Newest]
             from == Kept
             below == TailStart
  <2>5. rows \in Seq(AlertRows) /\ \A q \in Rnti : from[q] < 2 => below[q] < 2
    BY <1>1, <2>4
  <2> HIDE DEF rows, from, below
  <2>6. /\ \A n, q : q \in Rnti /\ Low(rows, from, n, q) => Low(rows, below, n, q)
        /\ Cardinality(Escalations(rows, from)) <= Cardinality(Escalations(rows, below))
    BY <2>5, EscalationsMonotone
  <2>7. Pending' <= Pending + Ahead
    <3>1. CASE alertTail.file = Newest
      BY <1>1, <2>3, <3>1 DEF Pending, Reading
    <3>2. CASE alertTail.file # Newest
      <4>1. Ahead = Cardinality(Escalations(rows, below)) /\ Pending' = Cardinality(Escalations(rows, from))
        BY <2>3, <3>2 DEF Ahead, TailStart, rows, from, below
      <4> QED  BY <1>1, <1>4, <2>6, <4>1
    <3> QED  BY <3>1, <3>2
  <2>8. blocked' + InHand' + Pending' + Ahead' <= written'.escalations
    BY <1>1, <1>2, <1>4, <2>1, <2>2, <2>3, <2>7
  <2>9. \A q \in Rnti :
          Low(unread'[Newest'], TailStart', Len(unread'[Newest']), q) => written'.stage[q] < 2
    BY <1>2, <2>1, <2>2, <2>3, <2>6 DEF rows, from, below
  <2> QED  BY <1>2, <2>1, <2>8, <2>9 DEF CountInv
<1>9. CASE NextAlert
  <2> DEFINE rows == Reading
             row == Head(rows)
             rest == Tail(rows)
  <2>1. /\ alertTail.step = "read" /\ UNCHANGED <<written, prevStage, blocked>>
        /\ ~HasRow /\ Kept = prevStage /\ InHand = 0
    BY <1>9 DEF NextAlert, HasRow, Kept, InHand
  <2>2. CASE rows = <<>>
    <3>1. alertTail' = [alertTail EXCEPT !.step = "poll"] /\ unread' = unread
      BY <1>9, <2>2 DEF NextAlert, Reading
    <3>2. alertTail'.step = "poll" /\ alertTail'.file = alertTail.file
      BY <3>1 DEF SeriesTypes
    <3>3. /\ Newest' = Newest /\ Reading' = Reading /\ Kept' = Kept /\ InHand' = InHand
      BY <2>1, <3>1, <3>2 DEF Newest, Reading, HasRow, Kept, InHand
    <3>4. Pending' = Pending /\ Ahead' = Ahead /\ TailStart' = TailStart
      BY <3>1, <3>2, <3>3 DEF Pending, Ahead, TailStart, AllCalm
    <3> QED  BY <1>2, <2>1, <3>1, <3>3, <3>4 DEF CountInv
  <2>3. CASE rows # <<>>
    <3>1. /\ alertTail' = [alertTail EXCEPT !.step = "gauges", !.row = row]
          /\ unread' = [unread EXCEPT ![alertTail.file] = rest]
      BY <1>9, <2>3 DEF NextAlert, Reading
    <3> DEFINE after == [Kept EXCEPT ![row[1]] = row[2]]
               hand == IF row[2] >= 2 /\ Kept[row[1]] < 2 THEN 1 ELSE 0
    <3>2. /\ row \in AlertRows /\ rest \in Seq(AlertRows)
          /\ \A q \in Rnti : Low(rest, after, Len(rest), q) => Low(rows, Kept, Len(rows), q)
          /\ Cardinality(Escalations(rest, after)) + hand <= Cardinality(Escalations(rows, Kept))
      <4> DEFINE from == Kept
                 x == row
                 y == rest
                 z == [from EXCEPT ![x[1]] = x[2]]
      <4>1. rows \in Seq(AlertRows) /\ rows # <<>> /\ from \in [Rnti -> 0..2]
        BY <1>1, <2>3
      <4>2. x = Head(rows) /\ y = Tail(rows) /\ z = [from EXCEPT ![x[1]] = x[2]]
        OBVIOUS
      <4> HIDE DEF from, x, y, z, rows
        <4>3. TailCounted(rows, from, x, y, z)
          BY <4>1, <4>2, EscalationsTail
      <4> QED  BY <4>3 DEF from, x, y, z, TailCounted
    <3> HIDE DEF row, rest, rows
    <3>3. /\ alertTail'.step = "gauges" /\ alertTail'.row = row /\ alertTail'.file = alertTail.file
      BY <3>1 DEF SeriesTypes
    <3>4. /\ Len(unread') = Len(unread) /\ unread'[alertTail.file] = rest
          /\ \A f \in 1..Len(unread) : f # alertTail.file => unread'[f] = unread[f]
      BY <1>1, <3>1
    <3>5. HasRow' /\ Newest' = Newest /\ Reading' = rest /\ AlertRow' = row[1]
      BY <3>3, <3>4 DEF HasRow, Newest, Reading, AlertRow
    <3>6. Kept' = after /\ InHand' = hand
      BY <2>1, <3>3, <3>5 DEF Kept, InHand, Escalates
    <3>7. Pending' = Cardinality(Escalations(rest, after))
          /\ Pending = Cardinality(Escalations(rows, Kept))
      BY <3>5, <3>6 DEF Pending, rows
    <3> HIDE DEF after, hand
    <3>8. Ahead' = Ahead
      <4>1. CASE alertTail.file = Newest
        BY <3>3, <3>5, <4>1 DEF Ahead
      <4>2. CASE alertTail.file # Newest
        <5>1. unread'[Newest] = unread[Newest]
          BY <1>1, <3>4, <4>2
        <5> QED  BY <3>3, <3>5, <4>2, <5>1 DEF Ahead, AllCalm
      <4> QED  BY <4>1, <4>2
    <3>9. blocked' + InHand' + Pending' + Ahead' <= written'.escalations
      <4>1. InHand' + Pending' <= Pending
        <5>1. hand \in {0, 1}
          BY DEF hand
        <5> QED  BY <1>1, <1>4, <3>2, <3>6, <3>7, <5>1
      <4>2. /\ blocked' = blocked /\ written'.escalations = written.escalations
            /\ blocked + InHand + Pending + Ahead <= written.escalations /\ InHand = 0
        BY <1>2, <2>1
      <4>3. \A b, h2, p, a, p2, e \in Int : b + 0 + p + a <= e /\ h2 + p2 <= p => b + h2 + p2 + a <= e
        OBVIOUS
      <4> DEFINE b == blocked
                 h2 == InHand'
                 p == Pending
                 a == Ahead
                 p2 == Pending'
                 e == written.escalations
      <4>4. /\ b \in Int /\ h2 \in Int /\ p \in Int /\ a \in Int /\ p2 \in Int /\ e \in Int
        BY <1>1, <1>2, <1>4
      <4>5. b + 0 + p + a <= e /\ h2 + p2 <= p
        BY <4>1, <4>2
      <4> HIDE DEF b, h2, p, a, p2, e
      <4>6. b + h2 + p2 + a <= e
        BY <4>3, <4>4, <4>5
      <4> QED  BY <3>8, <4>2, <4>6 DEF b, h2, p, a, p2, e
    <3>10. ASSUME NEW q \in Rnti,
                  Low(unread'[Newest'], TailStart', Len(unread'[Newest']), q)
           PROVE  written'.stage[q] < 2
      <4>1. CASE alertTail.file = Newest
        <5>1. TailStart' = after /\ TailStart = Kept /\ unread'[Newest'] = rest /\ unread[Newest] = rows
          BY <3>3, <3>4, <3>5, <3>6, <4>1 DEF TailStart, rows, Reading
        <5> QED  BY <1>2, <2>1, <3>2, <3>10, <5>1
      <4>2. CASE alertTail.file # Newest
        <5>1. TailStart' = TailStart /\ unread'[Newest'] = unread[Newest]
          BY <1>1, <3>3, <3>4, <3>5, <4>2 DEF TailStart, AllCalm
        <5> QED  BY <1>2, <2>1, <3>10, <5>1
      <4> QED  BY <4>1, <4>2
    <3> QED  BY <1>2, <2>1, <3>9, <3>10 DEF CountInv
  <2> QED  BY <2>2, <2>3
<1>10. CASE SetAlertGauges
  <2>1. /\ alertTail.step = "gauges" /\ UNCHANGED <<unread, written, prevStage, blocked>>
        /\ alertTail'.step = "count" /\ alertTail'.row = alertTail.row
        /\ alertTail'.file = alertTail.file
    BY <1>10 DEF SetAlertGauges, SeriesTypes, alertFiles
  <2>2. /\ Newest' = Newest /\ Reading' = Reading /\ AlertRow' = AlertRow
        /\ HasRow' /\ HasRow /\ Kept' = Kept /\ InHand' = InHand
    BY <2>1 DEF Newest, Reading, AlertRow, HasRow, Kept, InHand, Escalates
  <2>3. Pending' = Pending /\ Ahead' = Ahead /\ TailStart' = TailStart
    BY <2>1, <2>2 DEF Pending, Ahead, TailStart, AllCalm
  <2> QED  BY <1>2, <2>1, <2>2, <2>3 DEF CountInv
<1>11. CASE CountBlocked
  <2>1. /\ alertTail.step = "count" /\ UNCHANGED <<unread, written>>
        /\ alertTail'.step = "read" /\ alertTail'.file = alertTail.file
        /\ blocked' = (IF Escalates THEN blocked + 1 ELSE blocked)
        /\ prevStage' = [prevStage EXCEPT ![AlertRow] = alertTail.row[2]]
    BY <1>11 DEF CountBlocked, SeriesTypes, alertFiles
  <2>2. /\ Newest' = Newest /\ Reading' = Reading
        /\ ~HasRow' /\ HasRow /\ Kept' = Kept /\ InHand' = 0 /\ blocked' = blocked + InHand
    BY <1>2, <2>1 DEF Newest, Reading, HasRow, Kept, InHand
  <2>3. Pending' = Pending /\ Ahead' = Ahead /\ TailStart' = TailStart
    BY <2>1, <2>2 DEF Pending, Ahead, TailStart, AllCalm
  <2>4. blocked' + InHand' + Pending' + Ahead' <= written'.escalations
    BY <1>1, <1>2, <2>1, <2>2, <2>3
  <2>5. blocked' \in Nat
    BY <1>1, <1>2, <2>2
  <2> QED  BY <1>2, <2>1, <2>2, <2>3, <2>4, <2>5 DEF CountInv
<1> QED
  BY <1>5, <1>6, <1>7, <1>8, <1>9, <1>10, <1>11
     DEF UeMetricsNext, Second, ReadFeature, RemoveStale, BeginScan, EndScan, EndSweep,
         ReadMitigation, ueMetricsVars, alertFiles

(* ue_alert_tail_loop: over restarts of the monitor, files left half read    *)
(* and UEs that are removed and come back, no escalation is counted twice.   *)
THEOREM EscalationsCountedOnce == UeMetricsSpec => []BlockedNotInflated
<1>1. SeriesTypes /\ CountInv => BlockedNotInflated
  <2> SUFFICES ASSUME SeriesTypes, CountInv PROVE BlockedNotInflated
    OBVIOUS
  <2>1. InHand \in {0, 1} /\ Pending \in Nat /\ Ahead \in Nat
    BY CountTypes
  <2> QED  BY <2>1 DEF CountInv, BlockedNotInflated
<1> QED  BY <1>1, SeriesInit, CountInit, SeriesTypesStep, CountStep, PTL DEF UeMetricsSpec

-----------------------------------------------------------------------------
(* CellMetrics: the tail, the gauges and the windows of the models.         *)
CellStages == 0..2
TickOrNone == Nat \cup {NoTime}

CellTailTypes ==
  /\ clock \in Nat /\ cellStage \in CellStages
  /\ stageTs \in [t0 : TickOrNone, t1 : TickOrNone]
  /\ latency \in [detect : Int, confirm : Int, total : Int]
  /\ csvDir \in [CsvFiles -> Seq(CellStages)]
  /\ cellTail \in [step : {"poll", "read"}, file : CsvFiles \cup {"none"}, pos : Nat]
  /\ newestCsv \in CsvFiles \cup {"none"}
  /\ cellTail.step = "read" => /\ cellTail.file \in CsvFiles
                               /\ cellTail.pos <= Len(csvDir[cellTail.file])
  /\ cellTail.file \in CsvFiles => cellTail.pos <= Len(csvDir[cellTail.file])

LEMMA CellTailInit == CellInit => CellTailTypes
BY DEF CellInit, CellTailTypes, CellStages, TickOrNone, NoTime, CsvFiles

LEMMA CellTailStep == CellTailTypes /\ [CellNext]_cellVars => CellTailTypes'
<1> SUFFICES ASSUME CellTailTypes, [CellNext]_cellVars PROVE CellTailTypes'
  OBVIOUS
<1>1. CASE UNCHANGED <<csvDir, newestCsv, cellTail, cellStage, stageTs, latency, clock>>
  BY <1>1 DEF CellTailTypes
<1>2. ASSUME NEW f \in CsvFiles, NEW s \in CellStages, WriteCsvRow(f, s) PROVE CellTailTypes'
  <2>1. csvDir' = [csvDir EXCEPT ![f] = Append(csvDir[f], s)] /\ newestCsv' = f
        /\ UNCHANGED <<cellTail, cellStage, stageTs, latency, clock>>
    BY <1>2 DEF WriteCsvRow
  <2>2. \A g \in CsvFiles : /\ csvDir'[g] \in Seq(CellStages)
                            /\ Len(csvDir[g]) <= Len(csvDir'[g])
    BY <2>1 DEF CellTailTypes
  <2> QED  BY <2>1, <2>2 DEF CellTailTypes
<1>3. CASE ClockTick
  BY <1>3, CellMetricsAssumption
     DEF ClockTick, CellTailTypes
<1>4. CASE PollCsv \/ EndOfCsv
  <2>1. UNCHANGED <<csvDir, newestCsv, cellStage, stageTs, latency, clock>>
    BY <1>4 DEF PollCsv, EndOfCsv
  <2>2. CASE PollCsv
    BY <2>2, <2>1 DEF PollCsv, CellTailTypes
  <2>3. CASE EndOfCsv
    BY <2>3, <2>1 DEF EndOfCsv, CellTailTypes
  <2> QED  BY <1>4, <2>2, <2>3
<1>5. CASE ReadCsvRow
  <2> DEFINE row == csvDir[cellTail.file][cellTail.pos + 1]
             s == StageOf(cellTail.file, row)
  <2>1. cellTail.file \in CsvFiles /\ cellTail.pos + 1 \in 1..Len(csvDir[cellTail.file])
    BY <1>5 DEF ReadCsvRow, AtEnd, CellTailTypes
  <2>2. s \in CellStages
    BY <2>1 DEF CellTailTypes, StageOf, CellStages
  <2>3. /\ cellStage' = s /\ cellTail' = [cellTail EXCEPT !.pos = cellTail.pos + 1]
        /\ UNCHANGED <<csvDir, newestCsv, clock>>
    BY <1>5 DEF ReadCsvRow
  <2> DEFINE size == Len(csvDir[cellTail.file])
  <2>a. /\ cellTail' \in [step : {"poll", "read"}, file : CsvFiles \cup {"none"}, pos : Nat]
        /\ cellTail'.file = cellTail.file /\ cellTail'.pos <= size /\ size \in Nat
    <3>1. cellTail' \in [step : {"poll", "read"}, file : CsvFiles \cup {"none"}, pos : Nat]
          /\ cellTail'.file = cellTail.file /\ cellTail'.pos = cellTail.pos + 1
      BY <2>3, SMTT(40) DEF CellTailTypes
    <3>2. size \in Nat
      BY <2>1 DEF CellTailTypes
    <3> QED  BY <2>1, <3>1, <3>2
  <2>4. CASE s = cellStage
    <3>1. UNCHANGED <<stageTs, latency>>
      BY <1>5, <2>4 DEF ReadCsvRow
    <3> HIDE DEF s
    <3> QED
      BY <2>1, <2>3, <2>a, <2>4, <3>1 DEF CellTailTypes
  <2>5. CASE s # cellStage
    <3>1. TrackLatency(s)
      BY <1>5, <2>5 DEF ReadCsvRow
    <3> HIDE DEF s
    <3>2. CellTailTypes'
      <4>1. clock \in TickOrNone /\ stageTs.t0 \in TickOrNone /\ stageTs.t1 \in TickOrNone
        BY DEF CellTailTypes, TickOrNone
      <4>2. stageTs' \in [t0 : TickOrNone, t1 : TickOrNone]
        BY <3>1, <4>1 DEF TrackLatency
      <4>3. latency' \in [detect : Int, confirm : Int, total : Int]
        BY <3>1, <4>1 DEF CellTailTypes, TrackLatency, Since, TickOrNone, NoTime
      <4> QED  BY <2>1, <2>2, <2>3, <2>a, <4>2, <4>3 DEF CellTailTypes
    <3> QED  BY <3>2
  <2> QED  BY <2>4, <2>5
<1>6. ASSUME NEW s \in 0..2, WriteCsvRow("cell", s) PROVE CellTailTypes'
  BY <1>2, <1>6 DEF CsvFiles, CellStages
<1>7. ASSUME WriteCsvRow("other", 0) PROVE CellTailTypes'
  BY <1>2, <1>7 DEF CsvFiles, CellStages
<1> QED
  BY <1>1, <1>3, <1>4, <1>5, <1>6, <1>7 DEF CellNext, GruPoll, cellVars

(* The times kept and the gauges are not beyond the clock, nor that beyond  *)
(* its bound.                                                               *)
GaugesBounded ==
  /\ clock <= MaxClock /\ RowsWritten <= MaxCellRows
  /\ stageTs.t0 \in {NoTime} \cup 0..clock /\ stageTs.t1 \in {NoTime} \cup 0..clock
  /\ latency.detect \in NoTime..MaxClock /\ latency.confirm \in NoTime..MaxClock
  /\ latency.total \in NoTime..MaxClock

LEMMA CellConstants ==
  /\ GruSeqA \in Nat /\ GruSeqA > 0 /\ GruSeqB \in Nat /\ GruSeqB > 0
  /\ MaxCellRows \in Nat /\ MaxClock \in Nat
<1>1. \A n \in Nat \ {0} : n > 0
  OBVIOUS
<1>2. /\ GruSeqA \in Nat \ {0} /\ GruSeqB \in Nat \ {0} /\ MaxCellRows \in Nat \ {0}
      /\ MaxClock \in Nat \ {0}
  BY CellMetricsAssumption
<1> QED  BY <1>1, <1>2

LEMMA BoundedInit == CellInit => GaugesBounded
<1> SUFFICES ASSUME CellInit PROVE GaugesBounded
  OBVIOUS
<1>1. csvDir["cell"] = <<>> /\ csvDir["other"] = <<>>
  BY DEF CellInit, CsvFiles
<1>2. RowsWritten = 0
  BY <1>1 DEF RowsWritten
<1> QED  BY <1>2, CellConstants DEF CellInit, GaugesBounded, NoTime

LEMMA BoundedStep ==
  CellTailTypes /\ GaugesBounded /\ [CellNext]_cellVars => GaugesBounded'
<1> SUFFICES ASSUME CellTailTypes, GaugesBounded, [CellNext]_cellVars PROVE GaugesBounded'
  OBVIOUS
<1>1. /\ clock \in Nat /\ MaxClock \in Nat /\ MaxCellRows \in Nat
      /\ csvDir \in [CsvFiles -> Seq(CellStages)]
  BY CellConstants DEF CellTailTypes
<1>2. CASE UNCHANGED <<csvDir, stageTs, latency, clock>>
  BY <1>2 DEF GaugesBounded, RowsWritten
<1>3. ASSUME NEW f \in CsvFiles, NEW s \in CellStages, WriteCsvRow(f, s) PROVE GaugesBounded'
  <2>1. /\ RowsWritten < MaxCellRows /\ UNCHANGED <<stageTs, latency, clock>>
        /\ csvDir' = [csvDir EXCEPT ![f] = Append(csvDir[f], s)]
    BY <1>3 DEF WriteCsvRow
  <2>2. Len(Append(csvDir[f], s)) = Len(csvDir[f]) + 1
    BY <1>1
  <2>3. \A g \in CsvFiles : Len(csvDir[g]) \in Nat
    BY <1>1
  <2>4. "cell" \in CsvFiles /\ "other" \in CsvFiles /\ (f = "cell" \/ f = "other")
    BY DEF CsvFiles
  <2>5. /\ Len(csvDir'["cell"]) = Len(csvDir["cell"]) + (IF f = "cell" THEN 1 ELSE 0)
        /\ Len(csvDir'["other"]) = Len(csvDir["other"]) + (IF f = "other" THEN 1 ELSE 0)
    BY <1>1, <2>1, <2>2, <2>3, <2>4
  <2>6. RowsWritten' <= MaxCellRows
    <3>1. \A x, y, n \in Int : x + y < n => (x + 1) + y <= n /\ x + (y + 1) <= n
      OBVIOUS
    <3> DEFINE x == Len(csvDir["cell"])
               y == Len(csvDir["other"])
    <3>2. x \in Int /\ y \in Int /\ x + y < MaxCellRows
      <4>1. x \in Nat /\ y \in Nat
        BY <2>3, <2>4
      <4>2. x + y < MaxCellRows
        BY <2>1 DEF RowsWritten
      <4> HIDE DEF x, y
      <4> QED  BY <4>1, <4>2
    <3>3. RowsWritten' = (x + 1) + y \/ RowsWritten' = x + (y + 1)
      <4>1. CASE f = "cell"
        BY <2>3, <2>4, <2>5, <4>1 DEF RowsWritten
      <4>2. CASE f = "other"
        BY <2>3, <2>4, <2>5, <4>2 DEF RowsWritten
      <4> QED  BY <2>4, <4>1, <4>2
    <3> HIDE DEF x, y
    <3> QED  BY <1>1, <3>1, <3>2, <3>3
  <2> QED  BY <2>1, <2>6 DEF GaugesBounded
<1>4. CASE ClockTick
  <2>1. clock' = clock + 1 /\ clock < MaxClock /\ UNCHANGED <<csvDir, stageTs, latency>>
    BY <1>4 DEF ClockTick
  <2>2. clock' <= MaxClock /\ \A t : t \in {NoTime} \cup 0..clock => t \in {NoTime} \cup 0..clock'
    BY <1>1, <2>1
  <2> QED  BY <2>1, <2>2 DEF GaugesBounded, RowsWritten
<1>5. CASE ReadCsvRow
  <2>1. UNCHANGED <<csvDir, clock>>
    BY <1>5 DEF ReadCsvRow
  <2>2. UNCHANGED <<stageTs, latency>> \/ \E s : TrackLatency(s)
    BY <1>5 DEF ReadCsvRow
  <2>3. ASSUME NEW s, TrackLatency(s) PROVE GaugesBounded'
    <3>1. stageTs'.t0 \in {NoTime} \cup 0..clock /\ stageTs'.t1 \in {NoTime} \cup 0..clock
      BY <1>1, <2>3 DEF TrackLatency, GaugesBounded
    <3>2. \A t \in {NoTime} \cup 0..clock, g \in NoTime..MaxClock : Since(t, g) \in NoTime..MaxClock
      BY <1>1 DEF Since, GaugesBounded, NoTime
    <3>3. /\ latency'.detect \in NoTime..MaxClock /\ latency'.confirm \in NoTime..MaxClock
          /\ latency'.total \in NoTime..MaxClock
      BY <2>3, <3>2 DEF TrackLatency, GaugesBounded
    <3> QED  BY <2>1, <3>1, <3>3 DEF GaugesBounded, RowsWritten
  <2> QED  BY <2>1, <2>2, <2>3 DEF GaugesBounded, RowsWritten
<1>6. ASSUME NEW s \in 0..2, WriteCsvRow("cell", s) PROVE GaugesBounded'
  BY <1>3, <1>6 DEF CsvFiles, CellStages
<1>7. ASSUME WriteCsvRow("other", 0) PROVE GaugesBounded'
  BY <1>3, <1>7 DEF CsvFiles, CellStages
<1> QED
  BY <1>2, <1>4, <1>5, <1>6, <1>7 DEF CellNext, PollCsv, EndOfCsv, GruPoll, cellVars

-----------------------------------------------------------------------------
(* The windows of the two models.                                          *)

\* Two windows agree on the rows they both have, counted from the newest.
Aligned(a, b) ==
  \A k \in Nat : k < Len(a) /\ k < Len(b) => a[Len(a) - k] = b[Len(b) - k]

\* Rows in the order they were read, none beyond the latest.
InOrder(w, latest) ==
  /\ w \in Seq(Nat)
  /\ \A i \in 1..Len(w) : w[i] <= latest
  /\ \A i \in 2..Len(w) : w[i - 1] <= w[i]

WindowsInv ==
  /\ latestRow \in Nat
  /\ gruWindow.a \in Seq(Nat) /\ gruWindow.b \in Seq(Nat)
  /\ gruWindow = [a |-> gruWindow.a, b |-> gruWindow.b]
  /\ Len(gruWindow.a) <= GruSeqA /\ Len(gruWindow.b) <= GruSeqB
  /\ InOrder(gruWindow.a, latestRow) /\ InOrder(gruWindow.b, latestRow)
  /\ Aligned(gruWindow.a, gruWindow.b)

\* A window takes the row at its end, and loses its first when it is full.
LEMMA SlideIs ==
  ASSUME NEW w \in Seq(Nat), NEW row \in Nat, NEW size \in Nat, size > 0, Len(w) <= size,
         NEW v, v = Slide(w, row, size)
  PROVE  /\ v \in Seq(Nat) /\ Len(v) \in Nat /\ Len(v) <= size
         /\ Len(v) > 0 /\ Len(v) <= Len(w) + 1 /\ v[Len(v)] = row
         /\ \A k \in Nat : k > 0 /\ k < Len(v) =>
              Len(w) - (k - 1) \in 1..Len(w) /\ v[Len(v) - k] = w[Len(w) - (k - 1)]
<1>1. CASE Len(w) < size
  <2>1. v = Append(w, row)
    BY <1>1 DEF Slide
  <2>2. v \in Seq(Nat) /\ Len(v) = Len(w) + 1 /\ v[Len(w) + 1] = row
        /\ \A i \in 1..Len(w) : v[i] = w[i]
    BY <2>1, AppendProperties
  <2>3. Len(w) \in Nat
    OBVIOUS
  <2>4. ASSUME NEW k \in Nat, k > 0, k < Len(v)
        PROVE  Len(w) - (k - 1) \in 1..Len(w) /\ v[Len(v) - k] = w[Len(w) - (k - 1)]
    <3>1. Len(v) - k = Len(w) - (k - 1) /\ Len(w) - (k - 1) \in 1..Len(w)
      BY <2>2, <2>3, <2>4
    <3> QED  BY <2>2, <3>1
  <2>5. Len(v) \in Nat /\ Len(v) <= size /\ Len(v) > 0 /\ v[Len(v)] = row
    BY <1>1, <2>2, <2>3
  <2> QED  BY <2>2, <2>4, <2>5
<1>2. CASE ~(Len(w) < size)
  <2>1. v = Append(Tail(w), row) /\ Len(w) = size
    BY <1>2 DEF Slide
  <2>2. w # <<>>
    BY <2>1
  <2> DEFINE t == Tail(w)
  <2>3. t \in Seq(Nat) /\ Len(t) = Len(w) - 1 /\ \A i \in 1..Len(t) : t[i] = w[i + 1]
    BY <2>2, HeadTailProperties
  <2> HIDE DEF t
  <2>4. v = Append(t, row)
    BY <2>1 DEF t
  <2>5. v \in Seq(Nat) /\ Len(v) = Len(t) + 1 /\ v[Len(t) + 1] = row
        /\ \A i \in 1..Len(t) : v[i] = t[i]
    BY <2>3, <2>4, AppendProperties
  <2>6. Len(w) \in Nat /\ Len(w) > 0 /\ Len(t) \in Nat /\ Len(v) = Len(w)
    BY <1>2, <2>1, <2>3, <2>5
  <2>7. ASSUME NEW k \in Nat, k > 0, k < Len(v)
        PROVE  Len(w) - (k - 1) \in 1..Len(w) /\ v[Len(v) - k] = w[Len(w) - (k - 1)]
    <3> DEFINE i == Len(v) - k
    <3>1. i \in 1..Len(t) /\ i + 1 = Len(w) - (k - 1) /\ i + 1 \in 1..Len(w)
      BY <2>3, <2>6, <2>7
    <3> HIDE DEF i
    <3>2. v[i] = w[i + 1]
      BY <2>3, <2>5, <3>1
    <3> QED  BY <3>1, <3>2 DEF i
  <2>8. Len(v) <= size /\ v[Len(v)] = row /\ Len(v) > 0
    BY <2>1, <2>3, <2>5, <2>6
  <2> QED  BY <2>5, <2>6, <2>7, <2>8
<1> QED  BY <1>1, <1>2

LEMMA SlideInOrder ==
  ASSUME NEW latest \in Nat, NEW w, InOrder(w, latest), NEW size \in Nat, size > 0,
         Len(w) <= size
  PROVE  InOrder(Slide(w, latest, size), latest)
<1> DEFINE v == Slide(w, latest, size)
<1>1. w \in Seq(Nat) /\ Len(w) \in Nat
  BY DEF InOrder
<1>2. /\ v \in Seq(Nat) /\ Len(v) \in Nat /\ v[Len(v)] = latest /\ Len(v) <= Len(w) + 1
      /\ \A k \in Nat : k > 0 /\ k < Len(v) =>
           Len(w) - (k - 1) \in 1..Len(w) /\ v[Len(v) - k] = w[Len(w) - (k - 1)]
  BY <1>1, SlideIs
<1> HIDE DEF v
<1>3. ASSUME NEW i \in 1..Len(v) PROVE v[i] <= latest
  <2>1. CASE i = Len(v)
    BY <1>2, <2>1
  <2>2. CASE i # Len(v)
    <3> DEFINE k == Len(v) - i
    <3>1. k \in Nat /\ k > 0 /\ k < Len(v) /\ i = Len(v) - k
      BY <1>2, <2>2
    <3>2. Len(w) - (k - 1) \in 1..Len(w) /\ v[i] = w[Len(w) - (k - 1)]
      BY <1>2, <3>1
    <3> QED  BY <3>2 DEF InOrder
  <2> QED  BY <2>1, <2>2
<1>4. ASSUME NEW i \in 2..Len(v) PROVE v[i - 1] <= v[i]
  <2>1. CASE i = Len(v)
    BY <1>2, <1>3, <2>1
  <2>2. CASE i # Len(v)
    <3> DEFINE k == Len(v) - i
               j == Len(w) - (k - 1)
    <3>1. k \in Nat /\ k > 0 /\ k + 1 < Len(v) /\ i = Len(v) - k /\ i - 1 = Len(v) - (k + 1)
      BY <1>2, <2>2
    <3>2. j \in 1..Len(w) /\ v[i] = w[j]
      <4>1. k < Len(v)
        BY <1>2, <3>1
      <4> HIDE DEF k
      <4> QED  BY <1>2, <3>1, <4>1
    <3>3. Len(w) - ((k + 1) - 1) \in 1..Len(w) /\ v[i - 1] = w[Len(w) - ((k + 1) - 1)]
      <4>1. k + 1 \in Nat /\ k + 1 > 0
        BY <3>1
      <4> HIDE DEF k
      <4> QED  BY <1>2, <3>1, <4>1
    <3>4. Len(w) - ((k + 1) - 1) = j - 1
      BY <1>1, <3>1
    <3> HIDE DEF k, j
    <3>5. j \in 2..Len(w)
      BY <1>1, <3>2, <3>3, <3>4
    <3> QED  BY <3>2, <3>3, <3>4, <3>5 DEF InOrder
  <2> QED  BY <2>1, <2>2
<1> QED  BY <1>2, <1>3, <1>4 DEF InOrder, v

LEMMA SlideAligned ==
  ASSUME NEW a \in Seq(Nat), NEW b \in Seq(Nat), Aligned(a, b), NEW row \in Nat,
         NEW m \in Nat, NEW n \in Nat, m > 0, n > 0, Len(a) <= m, Len(b) <= n
  PROVE  Aligned(Slide(a, row, m), Slide(b, row, n))
<1> DEFINE v == Slide(a, row, m)
           w == Slide(b, row, n)
<1>1. /\ v \in Seq(Nat) /\ Len(v) \in Nat /\ v[Len(v)] = row
      /\ \A k \in Nat : k > 0 /\ k < Len(v) =>
           Len(a) - (k - 1) \in 1..Len(a) /\ v[Len(v) - k] = a[Len(a) - (k - 1)]
  BY SlideIs
<1>2. /\ w \in Seq(Nat) /\ Len(w) \in Nat /\ w[Len(w)] = row
      /\ \A k \in Nat : k > 0 /\ k < Len(w) =>
           Len(b) - (k - 1) \in 1..Len(b) /\ w[Len(w) - k] = b[Len(b) - (k - 1)]
  BY SlideIs
<1> HIDE DEF v, w
<1>3. ASSUME NEW k \in Nat, k < Len(v), k < Len(w)
      PROVE  v[Len(v) - k] = w[Len(w) - k]
  <2>1. CASE k = 0
    BY <1>1, <1>2, <2>1
  <2>2. CASE k > 0
    <3>1. Len(a) - (k - 1) \in 1..Len(a) /\ v[Len(v) - k] = a[Len(a) - (k - 1)]
      BY <1>1, <1>3, <2>2
    <3>2. Len(b) - (k - 1) \in 1..Len(b) /\ w[Len(w) - k] = b[Len(b) - (k - 1)]
      BY <1>2, <1>3, <2>2
    <3>3. k - 1 \in Nat /\ k - 1 < Len(a) /\ k - 1 < Len(b)
      BY <2>2, <3>1, <3>2
    <3>4. a[Len(a) - (k - 1)] = b[Len(b) - (k - 1)]
      BY <3>3 DEF Aligned
    <3> QED  BY <3>1, <3>2, <3>4
  <2> QED  BY <2>1, <2>2
<1> QED  BY <1>3 DEF Aligned, v, w

LEMMA WindowsInit == CellInit => WindowsInv
<1> SUFFICES ASSUME CellInit PROVE WindowsInv
  OBVIOUS
<1>1. latestRow = 0 /\ gruWindow = [a |-> <<>>, b |-> <<>>]
  BY DEF CellInit
<1> QED  BY <1>1, CellConstants DEF WindowsInv, InOrder, Aligned

LEMMA WindowsStep == WindowsInv /\ [CellNext]_cellVars => WindowsInv'
<1> SUFFICES ASSUME WindowsInv, [CellNext]_cellVars PROVE WindowsInv'
  OBVIOUS
<1>1. CASE UNCHANGED <<latestRow, gruWindow>>
  BY <1>1 DEF WindowsInv
<1>2. CASE ReadCsvRow
  <2>1. latestRow' = latestRow + 1 /\ gruWindow' = gruWindow
    BY <1>2 DEF ReadCsvRow
  <2>2. \A w : InOrder(w, latestRow) => InOrder(w, latestRow + 1)
    BY DEF WindowsInv, InOrder
  <2> QED  BY <2>1, <2>2 DEF WindowsInv
<1>3. CASE GruPoll
  <2> DEFINE a == gruWindow.a
             b == gruWindow.b
             v == Slide(a, latestRow, GruSeqA)
             w == Slide(b, latestRow, GruSeqB)
  <2>1. gruWindow' = [a |-> v, b |-> w] /\ latestRow' = latestRow
    BY <1>3 DEF GruPoll
  <2>2. /\ a \in Seq(Nat) /\ b \in Seq(Nat) /\ latestRow \in Nat
        /\ Len(a) <= GruSeqA /\ Len(b) <= GruSeqB /\ Aligned(a, b)
        /\ InOrder(a, latestRow) /\ InOrder(b, latestRow)
    BY DEF WindowsInv
  <2>3. /\ v \in Seq(Nat) /\ Len(v) <= GruSeqA /\ w \in Seq(Nat) /\ Len(w) <= GruSeqB
    BY <2>2, CellConstants, SlideIs
  <2>4. InOrder(v, latestRow) /\ InOrder(w, latestRow) /\ Aligned(v, w)
    BY <2>2, CellConstants, SlideInOrder, SlideAligned
  <2> HIDE DEF v, w
  <2> QED  BY <2>1, <2>2, <2>3, <2>4 DEF WindowsInv
<1> QED
  BY <1>1, <1>2, <1>3
     DEF CellNext, WriteCsvRow, ClockTick, PollCsv, EndOfCsv, cellVars

\* The shorter of two aligned windows is the end of the longer.
LEMMA AlignedSuffix ==
  ASSUME NEW s \in Seq(Nat), NEW t \in Seq(Nat), Len(s) <= Len(t),
         \A k \in Nat : k < Len(s) => s[Len(s) - k] = t[Len(t) - k]
  PROVE  IsSuffix(s, t)
<1> DEFINE r == Reverse(s)
           q == Reverse(t)
<1>1. /\ r \in Seq(Nat) /\ Len(r) = Len(s)
      /\ \A i \in 1..Len(s) : r[i] = s[(Len(s) - i) + 1]
  BY DEF Reverse
<1>2. /\ q \in Seq(Nat) /\ Len(q) = Len(t)
      /\ \A i \in 1..Len(t) : q[i] = t[(Len(t) - i) + 1]
  BY DEF Reverse
<1> HIDE DEF r, q
<1>3. Len(s) \in Nat /\ Len(t) \in Nat
  OBVIOUS
<1>4. \A i \in 1..Len(s) : r[i] = q[i]
  <2> TAKE i \in 1..Len(s)
  <2>1. i - 1 \in Nat /\ i - 1 < Len(s)
    BY <1>3
  <2>2. s[Len(s) - (i - 1)] = t[Len(t) - (i - 1)]
    BY <2>1
  <2>3. Len(s) - (i - 1) = (Len(s) - i) + 1 /\ Len(t) - (i - 1) = (Len(t) - i) + 1
    BY <1>3
  <2>4. i \in 1..Len(t)
    BY <1>3
  <2> QED  BY <1>1, <1>2, <2>2, <2>3, <2>4
<1>5. SubSeq(r, 1, Len(r)) = SubSeq(q, 1, Len(r))
  BY <1>1, <1>2, <1>3, <1>4
<1>6. IsPrefix(r, q)
  BY <1>1, <1>2, <1>5 DEF IsPrefix
<1> QED  BY <1>6 DEF IsSuffix, r, q

(* The types of the cell's metrics and of the models' windows.              *)
THEOREM CellTypes == CellSpec => []CellTypeOK
<1>1. CellTailTypes /\ GaugesBounded /\ WindowsInv => CellTypeOK
  <2> SUFFICES ASSUME CellTailTypes, GaugesBounded, WindowsInv PROVE CellTypeOK
    OBVIOUS
  <2>1. DOMAIN latency = {"detect", "confirm", "total"}
    BY DEF CellTailTypes
  <2> QED
    BY <2>1 DEF CellTailTypes, GaugesBounded, WindowsInv, CellTypeOK, CellStages
<1> QED
  BY <1>1, CellTailInit, CellTailStep, BoundedInit, BoundedStep, WindowsInit, WindowsStep, PTL
     DEF CellSpec

(* gru_inference_loop: whatever the lengths of the two models' windows and  *)
(* however often a row is taken again, the shorter is the end of the longer  *)
(* and no row comes before an older one.                                    *)
THEOREM WindowsOfOneStretch == CellSpec => []GruWindowsAlike
<1>1. WindowsInv => GruWindowsAlike
  <2> SUFFICES ASSUME WindowsInv PROVE GruWindowsAlike
    OBVIOUS
  <2> DEFINE a == gruWindow.a
             b == gruWindow.b
  <2>1. /\ a \in Seq(Nat) /\ b \in Seq(Nat) /\ Len(a) \in Nat /\ Len(b) \in Nat
        /\ Aligned(a, b)
        /\ \A i \in 2..Len(a) : a[i - 1] <= a[i]
        /\ \A i \in 2..Len(b) : b[i - 1] <= b[i]
    BY DEF WindowsInv, InOrder
  <2> HIDE DEF a, b
  <2>2. CASE Len(a) < Len(b)
    <3>1. \A k \in Nat : k < Len(a) => a[Len(a) - k] = b[Len(b) - k]
      BY <2>1, <2>2 DEF Aligned
    <3>2. Len(a) <= Len(b)
      BY <2>1, <2>2
    <3>3. IsSuffix(a, b)
      BY <2>1, <3>1, <3>2, AlignedSuffix
    <3> QED  BY <2>1, <2>2, <3>3 DEF GruWindowsAlike, a, b
  <2>3. CASE ~(Len(a) < Len(b))
    <3>1. \A k \in Nat : k < Len(b) => b[Len(b) - k] = a[Len(a) - k]
      BY <2>1, <2>3 DEF Aligned
    <3>2. Len(b) <= Len(a)
      BY <2>1, <2>3
    <3>3. IsSuffix(b, a)
      BY <2>1, <3>1, <3>2, AlignedSuffix
    <3> QED  BY <2>1, <3>2, <3>3 DEF GruWindowsAlike, a, b
  <2> QED  BY <2>2, <2>3
<1> QED  BY <1>1, WindowsInit, WindowsStep, PTL DEF CellSpec
================================================================================
