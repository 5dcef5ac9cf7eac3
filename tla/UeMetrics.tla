------------------------------- MODULE UeMetrics -------------------------------
(***************************************************************************)
(* src/observability/exporter/csv_exporter.py: the three threads that keep  *)
(* the per-UE metrics.  One tails the alert file, one the feature file and  *)
(* then removes the metrics of UEs that have gone, one the mitigation       *)
(* events.  They share the metrics and _ue_last_update without a lock; a    *)
(* step here is what one of them does between two points where another can  *)
(* be seen to act.  Each run of the monitor writes new files; a thread      *)
(* changes over to them when it next looks, and what it had not read of the *)
(* old ones it never reads.                                                 *)
(***************************************************************************)
EXTENDS Integers, Sequences, FiniteSets

CONSTANTS
  Rnti,
  Stages,       \* of 0..2, those the monitor writes
  StaleAfter,   \* seconds without an update (10)
  MaxAlerts,    \* bound on the alert rows written
  MaxFiles      \* bound on the files, one a run of the monitor

ASSUME UeMetricsAssumption ==
  Stages \subseteq 0..2 /\ {StaleAfter, MaxAlerts, MaxFiles} \subseteq Nat \ {0}

VARIABLES
  unread,      \* by file, the alert rows the thread has not read
  written,     \* history: escalations written, and each UE's stage in the newest file
  alertTail,   \* ue_alert_tail_loop: [file, step, row]
  sweep,       \* ue_feature_tail_loop: [step, stale], the UEs it has still to remove
  lastUpdate,  \* _ue_last_update, as the seconds since; Absent for no entry
  prevStage,   \* _ue_prev_stage
  blocked,     \* xapp_attacks_blocked_total, over UEs and types
  stage,       \* xapp_ue_stage and the gauges set with it; Absent for no series
  mitigation,  \* xapp_ue_mitigation_active; Absent for no series
  lastEvent,   \* history: the last mitigation event read of a UE
  silent       \* history: seconds since a row of the UE was read

alertFiles == <<unread, written>>
ueMetricsVars == <<alertFiles, alertTail, sweep, lastUpdate, prevStage, blocked, stage,
                   mitigation, lastEvent, silent>>

Absent == -1
Newest == Len(unread)
OverStale == StaleAfter + 1
NewFile == [escalations |-> 0, stage |-> [r \in Rnti |-> 0], rows |-> 0]

UeMetricsInit ==
  /\ unread = <<<<>>>> /\ written = NewFile
  /\ alertTail = [file |-> 1, step |-> "poll", row |-> <<>>]
  /\ sweep = [step |-> "rows", stale |-> {}]
  /\ lastUpdate = [r \in Rnti |-> Absent] /\ prevStage = [r \in Rnti |-> 0]
  /\ blocked = 0
  /\ stage = [r \in Rnti |-> Absent]
  /\ mitigation = [r \in Rnti |-> Absent] /\ lastEvent = [r \in Rnti |-> Absent]
  /\ silent = [r \in Rnti |-> OverStale]

-----------------------------------------------------------------------------
(* The monitor and time                                                    *)

WriteAlert(r, s) ==
  /\ written.rows < MaxAlerts
  /\ unread' = [unread EXCEPT ![Newest] = Append(@, <<r, s>>)]
  /\ written' = [escalations |-> written.escalations +
                                 (IF s = 2 /\ written.stage[r] < 2 THEN 1 ELSE 0),
                 stage |-> [written.stage EXCEPT ![r] = s],
                 rows |-> written.rows + 1]
  /\ UNCHANGED <<alertTail, sweep, lastUpdate, prevStage, blocked, stage,
                 mitigation, lastEvent, silent>>

MonitorRestart ==
  /\ Newest < MaxFiles
  /\ unread' = Append(unread, <<>>)
  /\ written' = [written EXCEPT !.stage = NewFile.stage]
  /\ UNCHANGED <<alertTail, sweep, lastUpdate, prevStage, blocked, stage,
                 mitigation, lastEvent, silent>>

Older(age) == IF age \in 0..StaleAfter THEN age + 1 ELSE age
Second ==
  /\ lastUpdate' = [r \in Rnti |-> Older(lastUpdate[r])]
  /\ silent' = [r \in Rnti |-> Older(silent[r])]
  /\ UNCHANGED <<alertFiles, alertTail, sweep, prevStage, blocked, stage, mitigation,
                 lastEvent>>

-----------------------------------------------------------------------------
(* ue_alert_tail_loop, a row in three steps                                *)

\* Looks for the newest file, which it reads from the start.
PollAlerts ==
  /\ alertTail.step = "poll"
  /\ alertTail' = [file |-> Newest, step |-> "read", row |-> <<>>]
  /\ UNCHANGED <<alertFiles, sweep, lastUpdate, prevStage, blocked, stage, mitigation,
                 lastEvent, silent>>

AlertRow == alertTail.row[1]
NextAlert ==
  /\ alertTail.step = "read"
  /\ LET rows == unread[alertTail.file] IN
     IF rows = <<>>
     THEN /\ alertTail' = [alertTail EXCEPT !.step = "poll"]
          /\ UNCHANGED <<unread, lastUpdate, silent>>
     ELSE /\ alertTail' = [alertTail EXCEPT !.step = "gauges", !.row = Head(rows)]
          /\ unread' = [unread EXCEPT ![alertTail.file] = Tail(@)]
          /\ lastUpdate' = [lastUpdate EXCEPT ![Head(rows)[1]] = 0]
          /\ silent' = [silent EXCEPT ![Head(rows)[1]] = 0]
  /\ UNCHANGED <<written, sweep, prevStage, blocked, stage, mitigation, lastEvent>>

SetAlertGauges ==
  /\ alertTail.step = "gauges"
  /\ alertTail' = [alertTail EXCEPT !.step = "count"]
  /\ stage' = [stage EXCEPT ![AlertRow] = alertTail.row[2]]
  /\ UNCHANGED <<alertFiles, sweep, lastUpdate, prevStage, blocked, mitigation,
                 lastEvent, silent>>

Escalates == alertTail.row[2] >= 2 /\ prevStage[AlertRow] < 2
\* Mutant of CountBlocked: the last stage is kept only when it is counted.
CountBlockedOnce ==
  /\ alertTail.step = "count"
  /\ alertTail' = [alertTail EXCEPT !.step = "read", !.row = <<>>]
  /\ blocked' = IF Escalates THEN blocked + 1 ELSE blocked
  /\ prevStage' = IF Escalates THEN [prevStage EXCEPT ![AlertRow] = alertTail.row[2]]
                  ELSE prevStage
  /\ UNCHANGED <<alertFiles, sweep, lastUpdate, stage, mitigation, lastEvent, silent>>
CountBlocked ==
  /\ alertTail.step = "count"
  /\ alertTail' = [alertTail EXCEPT !.step = "read", !.row = <<>>]
  /\ blocked' = IF Escalates THEN blocked + 1 ELSE blocked
  /\ prevStage' = [prevStage EXCEPT ![AlertRow] = alertTail.row[2]]
  /\ UNCHANGED <<alertFiles, sweep, lastUpdate, stage, mitigation, lastEvent, silent>>

-----------------------------------------------------------------------------
(* ue_feature_tail_loop: feature rows, then the removal of what is stale   *)

ReadFeature(r) ==
  /\ sweep.step = "rows"
  /\ lastUpdate' = [lastUpdate EXCEPT ![r] = 0]
  /\ silent' = [silent EXCEPT ![r] = 0]
  /\ UNCHANGED <<alertFiles, alertTail, sweep, prevStage, blocked, stage, mitigation, lastEvent>>

\* The list of stale UEs; a UE the alert thread enters meanwhile changes the
\* size of the dictionary, which raises and ends the thread.
Known == {r \in Rnti : lastUpdate[r] # Absent}
BeginScan ==
  /\ sweep.step = "rows"
  /\ sweep' = [step |-> "scan", stale |-> Known]
  /\ UNCHANGED <<alertFiles, alertTail, lastUpdate, prevStage, blocked, stage,
                 mitigation, lastEvent, silent>>
EndScan ==
  /\ sweep.step = "scan"
  /\ sweep' = IF Known = sweep.stale
              THEN [step |-> "remove",
                    stale |-> {r \in Known : lastUpdate[r] > StaleAfter}]
              ELSE [step |-> "dead", stale |-> {}]
  /\ UNCHANGED <<alertFiles, alertTail, lastUpdate, prevStage, blocked, stage,
                 mitigation, lastEvent, silent>>

\* Mutant of RemoveStale: the UE's last stage is forgotten with its metrics.
RemoveStaleStage(r) ==
  /\ sweep.step = "remove" /\ r \in sweep.stale
  /\ stage' = [stage EXCEPT ![r] = Absent]
  /\ mitigation' = [mitigation EXCEPT ![r] = Absent]
  /\ lastUpdate' = [lastUpdate EXCEPT ![r] = Absent]
  /\ prevStage' = [prevStage EXCEPT ![r] = 0]
  /\ sweep' = [sweep EXCEPT !.stale = @ \ {r}]
  /\ UNCHANGED <<alertFiles, alertTail, blocked, lastEvent, silent>>
RemoveStale(r) ==
  /\ sweep.step = "remove" /\ r \in sweep.stale
  /\ stage' = [stage EXCEPT ![r] = Absent]
  /\ mitigation' = [mitigation EXCEPT ![r] = Absent]
  /\ lastUpdate' = [lastUpdate EXCEPT ![r] = Absent]
  /\ sweep' = [sweep EXCEPT !.stale = @ \ {r}]
  /\ UNCHANGED <<alertFiles, alertTail, prevStage, blocked, lastEvent, silent>>
EndSweep ==
  /\ sweep.step = "remove" /\ sweep.stale = {}
  /\ sweep' = [sweep EXCEPT !.step = "rows"]
  /\ UNCHANGED <<alertFiles, alertTail, lastUpdate, prevStage, blocked, stage,
                 mitigation, lastEvent, silent>>

-----------------------------------------------------------------------------
(* mitigation_tail_loop: 1 for THROTTLE, 0 for RESTORE                     *)
ReadMitigation(r, active) ==
  /\ mitigation' = [mitigation EXCEPT ![r] = active]
  /\ lastEvent' = [lastEvent EXCEPT ![r] = active]
  /\ silent' = [silent EXCEPT ![r] = 0]
  /\ UNCHANGED <<alertFiles, alertTail, sweep, lastUpdate, prevStage, blocked, stage>>

UeMetricsNext ==
  \/ \E r \in Rnti, s \in Stages : WriteAlert(r, s)
  \/ MonitorRestart \/ Second
  \/ PollAlerts \/ NextAlert \/ SetAlertGauges \/ CountBlocked
  \/ \E r \in Rnti : ReadFeature(r) \/ RemoveStale(r)
  \/ BeginScan \/ EndScan \/ EndSweep
  \/ \E r \in Rnti, active \in {0, 1} : ReadMitigation(r, active)

UeMetricsSpec == UeMetricsInit /\ [][UeMetricsNext]_ueMetricsVars

-----------------------------------------------------------------------------
UeMetricsTypeOK ==
  /\ unread \in Seq(Seq(Rnti \X (0..2))) /\ Newest \in 1..MaxFiles
  /\ alertTail.file \in 1..Newest
  /\ alertTail.step \in {"poll", "read", "gauges", "count"}
  /\ sweep.step \in {"rows", "scan", "remove", "dead"} /\ sweep.stale \subseteq Rnti
  /\ lastUpdate \in [Rnti -> {Absent} \cup 0..OverStale]
  /\ prevStage \in [Rnti -> 0..2] /\ stage \in [Rnti -> {Absent} \cup 0..2]
  /\ mitigation \in [Rnti -> {Absent, 0, 1}]

(* "Count only the 0/1 -> 2 transition, not every row" (line 623): over      *)
(* restarts of the monitor, files left half read, and UEs whose metrics are  *)
(* removed and come back, no escalation is counted twice.                    *)
BlockedNotInflated == blocked <= written.escalations

(* A series that is there shows what was last read of its UE, however the    *)
(* threads interleave: a removal loses a series but leaves no old value.     *)
ShownIsLastRead ==
  \A r \in Rnti :
    /\ stage[r] # Absent /\ ~(alertTail.step = "count" /\ AlertRow = r)
         => stage[r] = prevStage[r]
    /\ mitigation[r] # Absent => mitigation[r] = lastEvent[r]

(* "Stale RNTI cleanup (no updates for > 10.0 seconds)" (line 680): no       *)
(* series is left of a UE that was silent for so long and that               *)
(* _ue_last_update does not list, for such a series no sweep ever removes.   *)
StaleGone ==
  sweep.step = "rows" /\ alertTail.step = "poll" =>
    \A r \in Rnti \ Known :
      silent[r] > StaleAfter => stage[r] = Absent /\ mitigation[r] = Absent
==============================================================================
