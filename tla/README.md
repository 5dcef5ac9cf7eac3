# Formal models of sec-xapp

sec-xapp is an intrusion detection and mitigation xApp for a 5G O-RAN testbed. A
monitor process (`copy-xapp/xapp_sec_moni.c`) receives E2 indications from the gNB,
detects floods and signalling storms, and asks a second process
(`copy-xapp/xapp_sec_mitigate.c`) over a UNIX socket to THROTTLE or RESTORE a UE; that
process turns each command into an E2SM-RC control request. Around the two stands a set
of Python programs: an exporter that tails the monitor's CSV files for Prometheus, scripts
that train the autoencoders and choose their thresholds, scripts that evaluate the
detectors on recorded CSVs, an ablation study, and a dashboard.

The TLA+ modules here model the control core of the two processes, the cell rule engine,
the UE tracker, and of the Python programs what has state, order or counting that can go
wrong. Every definition is translated from the source; `PROJECT.json` maps each to its
lines.

## Inventory

| Part | State | Operations | Interacts with | What makes it hard, what makes it correct |
|---|---|---|---|---|
| Mitigation control (`xapp_sec_moni.c`) | `g_throttle_active`, `g_pending_throttle`, `g_throttle_target_ue_id`, `g_throttle_last_ms`, `g_sev0_since_ms`, `g_last_ue_alert_ms`, `g_ipc_fd` | KPM callback stores requests; main loop reconnects, sends THROTTLE, waits out the grace period, sends RESTORE | rule engine and detectors (call), mitigator (socket) | two threads and no lock between them; ACK wait; skipped and failed sends; restart. Commands alternate and respect cooldown and grace; a lasting attack is throttled, a calm cell released; RESTORE names the throttled UE |
| Mitigator (`xapp_sec_mitigate.c`) | client socket, `g_ue_f1ap`, detached threads | listen, find DU, accept, receive, acknowledge, spawn an RC control | monitor (socket), gNB (E2) | detached threads race for a shared global; commands queue while it starts; the gNB ends with what was last asked |
| Cell rule engine (`sec_ids.c`) | window counters, rolling histories, burst ring, Stage 2 timers | `rule_based_detect` once per report | called under `mtx` by the KPM callback | counters, holds and timers over long sample sequences with jitter; CRITICAL only for what lasted, calm clears |
| UE tracker (`ue_tracker.c`) | table of RNTIs, `new_this_period` | `mac_update`, `flush` | MAC callback and KPM callback, under `mtx` | a full table evicts; counts survive or restart |
| KPM gate, empty indications (`sm_cb_kpm`) | `g_cell`, `g_last_csv_ms` | gating, accumulation | rule engine, LSTM | severity of the empty path is dropped; accumulator reset tied to CSV |
| LSTM stages (`run_cell_inference`) | feature history, stage counters | one inference per report | ONNX runtime | stale severity after a failed inference |
| Label reload, CSV writers | label table, files | poll mtime, parse, write rows | files | reload that is not repeated |
| Per-UE detector | external to the repository's C sources | called per UE report | mitigation control | its alerts are inputs here |
| CSV exporter (`observability/exporter/csv_exporter.py`) | tail positions, series by RNTI, `_ue_last_update`, stage times, `_eval_last_mtime` | one daemon thread per file it tails or polls | the monitor's CSVs, `eval_results.json`, the threshold file, Prometheus | threads share series and a dictionary without a lock; files are switched and rewritten under them. No escalation counted twice, no old value shown, figures of one event, one active model |
| Anomaly detector (`src/detection/detector.py`) | feature buffer, normal counter, three streaks | `detect` per sample, `set_lstm_model` | autoencoder | rules empty or feed the model's buffer; when the model may speak |
| Training (`scripts/train`) | files of models, scalers, thresholds; best weights, patience | four `main`s with `train_with_val`, `EarlyStopping` | each other through `models/` | interruption between files, NaN losses, a shared scaler. Files of a model are of one run; the best epoch is restored |
| Cell evaluation (`evaluate_detection.py`) | rule counters and holds, smoothing windows, counts in a row | one row at a time; tables of each pipeline | dataset, `eval_results.json` | holds and timers of their own beside `sec_ids.c`; tables of the same rows |
| Per-UE evaluation (`evaluate_per_ue_v2.py`, `evaluate_ue_models.py`) | - (a function of the file) | rules, windows, pools, metrics, latencies | per-UE CSV | rows of several UEs interleave; offsets by a window |
| Thresholds and false alarms (`evaluate_scoring_comparison.py`, `eval_opsi_b.py`, `calibrate_threshold_*.py`, `sweep_gru_threshold.py`) | - | search a threshold, count false alarms by window, episode and alert | per-UE CSV, model files | ties, rules that use up the target, copies of the rules that drifted apart; seams where windows are cut out |
| Ablation study (`run_grouped_ablation.py`, `aggregate_grouped_ablation.py`) | `metrics_by_seed.csv`, memory of each driver | train, evaluate, append, skip what is done; aggregate | file shared by drivers | killed drivers, half-done cells, two drivers at once; tables of one study |
| Dashboard (`testing_app.py`) | loaded CSV | `run_eval` | per-UE CSV, models | a second implementation of the per-UE evaluation: must agree |
| Model definitions, plots, deployment, attack scripts | - | - | - | arithmetic or sequential scripts, not modelled |

The monitor's callbacks hold `mtx` against each other; the main loop takes no lock. Both
threads read and write the request, the active flag and the target. The Python programs
meet each other and the monitor only through files. `PROJECT.json` lists the hazards at
their lines, with the property that covers each or why none does.

## Modules

The xApp:

| Module | Models | State and actions |
|---|---|---|
| `ThrottleCycle` | what the loop promises, abstractly | phase, age of the last command, whether calm was reported; `Throttle`, `Restore`, `ObserveCalm`, `ForgetCalm`, `Tick`, `Restart` |
| `MoniControl` | callback thread and main loop of the monitor | one variable per global; one action per atomic access: `CellIndication`/`UeIndication` read and decide, `StoreTarget`/`StorePending` store; the main loop is cut at `Connect`, `Dispatch...`, `Ack...`, `CommitCommand`, `ClearPending`, `Grace...` |
| `GraceObserver` | `MoniControl` with a history of calm reports | for one property |
| `MitigateServer` | the mitigator; the gNB's quota is external | `Start`, `Serve`, `Receive`, `Spawn`, per-thread `BuildHeader`, `ControlApplied`, `ControlFails`, `Crash` |
| `MitigationSystem` | `MoniControl` and `MitigateServer` joined by the socket | its actions conjoin one step of a side with what it does to the socket |
| `SecIds` | `rule_based_detect`, whole | one action `IdsWindow(m, dt)`, which binds what the function works out first and writes in `EngineStep`; one operator per rule |
| `SecIdsObserver`, `MCSecIds` | history variables over the samples; the samples TLC uses | |
| `CollapseObserver` | the same, with how long the cell has been collapsed | for one property |
| `UeTracker` | the tracker's table | `MacUpdate`, `Flush` |
| `UeTrackerObserver` | who reported, who flooded, who was tracked | |

The Python programs:

| Module | Models | State and actions |
|---|---|---|
| `AnomalyDetector` | `detector.py` | buffer length, `_consecutive_normal`, the streaks; `Detect` is a call with a sample and the model's answer, `DetectRaises` one that ends in an exception, `SetLstmModel` |
| `Training` | `train_lstm.py`, `train_gru.py`, `train_lstm_ue.py`, `train_gru_ue.py` | the files under `models/`, each missing, torn or of a run; a script's `Plan` is the order of its steps; `FitScaler`, `ReuseScaler`, `Epoch`, `RestoreBest`, `FitThreshold`, `Write`, `Interrupt` at any of them |
| `PerUeEval` | `evaluate_per_ue_v2.py` | the CSV so far, which grows by a row; every result is an operator of the rows: `RuleFires`, `Windows`, `Pool`, `ConfusionMatrix`, `DetectionLatency`, ... |
| `RunEval`, `UeModelsEval` | `run_eval` of the dashboard; `evaluate_ue_models.py` | operators of the same rows |
| `Calibration`, `FalseAlarms` | `calibrate_hybrid_threshold`; `eval_opsi_b.py` and `evaluate_scoring_comparison.py` | operators of the same windows |
| `ThresholdSweep` | the three threshold scripts, each with its own copy of rules and pools | operators of the same rows |
| `GroupedAblation`, `AblationReport` | the driver and the aggregator; the aggregator's tables | file, and for each driver its place and its open row buffer; `Start`, `TrainCell`, `EvaluateCell`, `CellFails`, `Open`, `Close`, `Kill`, `Aggregate` |
| `RulePort` | `RuleBasedIDS` of `evaluate_detection.py` | counters, holds and ages; one action, a call of `detect` |
| `DetectionEval` | `LSTMDetector`, `DualLSTMDetector`, `run_evaluation` and its tables; `GRUDetector` of `evaluate_gru.py` has the same counts | rows read, smoothing windows, counts in a row; `EvaluateRow` |
| `UeMetrics` | the exporter's alert, feature and mitigation threads | files, tail positions, series, ages in `_ue_last_update`; cut wherever another thread can be seen to act: gauges before counter (`SetAlertGauges`, `CountBlocked`), list of stale RNTIs before their removal (`BeginScan`, `EndScan`, `RemoveStale`, `EndSweep`) |
| `CellMetrics` | the exporter's cell tail and its GRU loop | file tailed, stage and its times, gauges; `PollCsv`, `ReadCsvRow`, `EndOfCsv`, `GruPoll` |
| `LatencyObserver` | `CellMetrics` with a history of the events | for one property |
| `WatchedFiles` | `eval_watch_loop`, `read_active_threshold` and the writers | file times and contents; a write empties the file first (`BeginJson`, `EndJson`), and neither change need move the file's time (`JsonChanged`); a poll reads time and contents apart (`PollMtime`, `LoadJson`, `KeepMtime`) |
| `MCTools` | the instance for TLC of these, of `SecIdsObserver` and of `UeTrackerObserver` | `part` says which is at work; the others keep their initial states. They share nothing while they run, so a behaviour of one is a behaviour of the whole |

Theorems are in eight modules, each of which extends the modules it is about: `MoniControlProofs`;
`MitigationSystemProofs`, which takes `MoniControl` with its theorems as an instance; `SecIdsProofs` and
`UeTrackerProofs` (engine and tracker with their observers); `ExporterProofs` (`WatchedFiles`, `UeMetrics`,
`CellMetrics`); `OfflineProofs` (`AnomalyDetector`, `Calibration`, `RulePort`, `Training`, `GroupedAblation`,
`AblationReport`); `EvaluationProofs` (`DetectionEval`, `PerUeEval`, `RunEval`, `UeModelsEval`, `FalseAlarms`,
`ThresholdSweep`);
`ToolsProofs`, which carries the results on the Python programs over to the instance `MCTools` and shows that it
implements the specifications of engine and tracker too.

Abstractions. Times are ages: the code stores epoch milliseconds and only compares
differences with constants, so a variable holds the difference, counted up to the
constant. In `MoniControl` a tick is the main loop's `sleep(1)`; the code's values would
be Cooldown 30, Grace 10, UeCalm 10 and AckTicks 1 (the ACK wait of 500 ms). Severity and per-UE
alerts are inputs of `MoniControl` that change at any time. In `SecIds` and `RulePort` counters stop at the
threshold they are compared with, and a history counts as flat when its values are equal
(the code: variance below 0.0001). In `UeTracker` a rate is above a threshold or not,
times are ranks, and reports of one millisecond are of different UEs and of one period.
A neural network is an oracle: its score comes with the row, or is any answer. Fractions
are permille, and a row of a per-UE CSV carries the rules whose conditions it meets in
place of its features. What a file holds is the run, or the step, that wrote it.

## Runs

| Run | Configuration | Shows |
|---|---|---|
| `moni_control` | 2 UEs, Cooldown 3, Grace 2, one restart, fair | `TypeOK`; `ControlInv`, why the unlocked handshake works; `RefinesThrottleCycle`, it implements `ThrottleCycle`; `PersistentAttackThrottled`, `CalmReleases`: a lasting attack is throttled again and again, lasting calm ends unthrottled |
| `system_prompt` | 2 UEs, mitigator prompt, no faults | `LastCommandInForce`, `AttackReachesGnb`, `CalmReachesGnb` |
| `system_faults` | 1 UE, per-UE detection only, one fault, one restart | `LoopRecovers` |
| `tools` | rule engine, UE tracker and the Python programs, one at work | the table below |
| `target_lock` | violated | RESTORE can name another UE than its THROTTLE: the target lock (PRD line 320) does not cover the ACK wait |
| `grace_observer` | violated | RESTORE can go out during an attack: a stored restore request is not withdrawn (`mitigate_ipc.h:13`) |
| `system_rows` | violated | a late reply is logged as the reply to the next command |
| `system_reconnect` | violated | a dead socket is kept until a send fails, and its command is lost |
| `ids_storm` | violated | three storm bursts keep severity at 2 for ever in a quiet cell, which blocks RESTORE |
| `ids_collapse` | violated | rule 7 does not report a collapse of the cell that lasts, against its comment (`sec_ids.c:328-332`) and the design, which has it as mandatory and CRITICAL after five windows |
| `ue_stale` | violated | the exporter's mitigation series of a UE not heard of again is never removed, against the cleanup's comment (`csv_exporter.py:680`) |
| `event_latency` | violated | an event that skips stage 1 sets no gauge, and the "last event" (`csv_exporter.py:40`) is an earlier one |

Properties of `tools`:

| Property | Says |
|---|---|
| `SaturationSustained` | rule engine: a CRITICAL for saturation alone comes after the direction it names was saturated for the whole confirmation time |
| `BurstRingExact` | the ring of the burst rule counts the transitions in its span as an unbounded history would |
| `CalmClears`, `OnlyStormLatches` | severity is 0 in a cell that has been quiet for longer than the holds, unless the storm count has latched; a CRITICAL without a Stage 1 alert is the storm's |
| `NewUesExact` | UE tracker: the count of new RNTIs is neither short nor inflated by eviction, as long as the table holds two periods' RNTIs |
| `FloodReported` | as long as it does, a lasting flood is reported on time |
| `LstmNeverFirst` | a verdict of the autoencoder is preceded by rule hits, one for every three samples it looks at: what no rule sees is never reported |
| `BestWeightsKept` | what training restores is the best epoch, up to `min_delta`; since the last NaN only, where a NaN passes as an improvement |
| `FilesMatch` | whatever is interrupted, the files of a model whose run ended are one run's, and the scaler it needs is there unless a later run replaced it |
| `RulesOnOwnRows`, `LatencyFromOnset`, `VerdictsStand` | rule counters, attacks and latencies follow the UE through an interleaved file, and do not change as it grows |
| `CountsAgree` | dashboard, first and second per-UE evaluation, false alarm account and the cell evaluation's tables count the same windows, or differ by a number the property names |
| `FalseAlarmsExplained` | episodes, durations and cooldown alerts account for each other; cutting out attacks loses at most one episode for each cut |
| `ThresholdsBest` | each of four searches ends on the best it tried |
| `SweptRateKept` | the rate `sweep_gru_threshold.py` finds at a threshold is not exceeded when `evaluate_gru.py`, which asks for three scores in a row and counts other rows, measures it |
| `CellsRecorded`, `TablesOfOneStudy` | each ablation cell is recorded once, as a failure or as a pair, over kills and drivers side by side; tables rest on the same cells, and a second header in the file is counted as a failed row and is no cell of any table |
| `PortHolds` | the Python port of the rules lets go of a quiet cell, names a cause or meets a storm, and does not carry a saturation's age over a gap |
| `NoAlertOnOneSpike` | the ensemble does not alert on one outlier, although smoothing repeats it |
| `BlockedNotInflated`, `ShownIsLastRead` | escalations are not counted twice; a series shows the last value read or is gone, with three threads and no lock |
| `GruWindowsAlike` | the two GRU models look at one stretch of rows |
| `ResultsNotMissed`, `OneModelActive` | a rewritten result file is read again, except one completed in the tick of the file's time that was kept; one model is shown active |

Bounds. The interesting cases need a command, a second one within reach of the first
one's cooldown, and a request left over between them: Cooldown 3 and Grace 2 are the least
values at which the timers differ from each other and from one iteration. Two UEs are
needed for the target to be overwritten. `MaxAcks` 1 or 2 lets one late reply wait (the
monitor's `recv` empties the socket), `MaxUnread` 2 and `MaxThreads` 2 let two commands and
two control threads overlap. One restart and one fault each are enough for a restart
in every state; after them the system runs on without. `system_faults` takes cell detection
away (`--no-cell`), so that restores follow from the per-UE calm clock alone, to leave room for the faults.

Bounds of `Tools.cfg`. Rule engine: six kinds of sample, gaps of 1 and 2 ticks; the times keep the order of
the code's (FastPath < Confirm, Hold well below Span) at a few ticks; the ring has 4 slots, the number the
CRITICAL rule asks for (the code has more), and `Span` 6 is the least within which four transitions fall.
`SecIdsStorm.cfg` and `SecIdsCollapse.cfg` have the same instance. Tracker: a table of 2 and 3 RNTIs, the smallest cell in which an
entry is evicted while another has to be kept. A buffer of 8 samples (`SeqLen`; the code's default is 10)
holds two flushes and a rest. Training: three epochs with patience 2 (code: 150 and 15) reach the early stop,
the last epoch and a NaN before, between and after; `MinDelta` 2 between losses 1, 2 and 4 separates better
from better enough; two runs are a run after an interrupted one. The plan of `train_lstm.py --vae` is in the
module but left out of `Scripts`: it writes its files in the order of `lstm`. Evaluation: every file of up to
5 rows (`MaxRows`) of two UEs, two classes and two rules, windows of 2 rows; a window's rule needs 2 or 3
rows, so that it may hold before, in and across windows. Ablation: two drivers, two cells each, three starts
between them. Rules: histories of 2 rows, holds and persistence of a few seconds in the order of the code's;
`OnSpan` 6 is the least that lets the four transitions of a burst fall within it. Cell evaluation: 6 rows,
smoothing over 2, three in a row, so that a spike may be smoothed into two and a quiet spell may fall
anywhere. Exporter: one UE, two alerts in a file, two sets of files (a restart of the monitor), stale after one tick;
cell files of up to 5 rows in all, windows of 2 and 3. The GRU loop is checked on rows of stage 0, as it only
reads what the tail stores. `WatchedFiles`: two attacks, two models, two writes.
`EventLatency.cfg`: 7 rows read within one clock tick or the next, which is an event through all stages and one
that skips stage 1; GRU windows of one row, for they play no part in it.

Fairness. The main loop is an endless loop with bounded waits, so it is weakly fair. KPM
reports are periodic, so a callback runs again and again and finishes its stores. In the
system the mitigator's receive loop and each control thread are weakly fair. Nothing is
assumed of detection, of replies, of the network's faults (they are bounded in number, not
timed), or of a restart of the mitigator: properties about faults suppose it serves
in the end. `Prompt` is an assumption of its own: the mitigator is done with a command within
a second, before the monitor's next iteration. Without it `LastCommandInForce` is false, since
control threads of two commands may run in either order; nothing in the code excludes it, and
the timers (10 s and 30 s apart) make it the normal case. No liveness is stated of the Python programs:
scripts end or are killed, and the exporter promises no time.

Deadlock is checked in every run but `tools` and `ue_stale`: a script ends when its file is
read or its plan is done, and the files the exporter reads are bounded.

What the properties found right: in spite of the missing lock the handshake keeps the
cycle, since the main loop clears a request only after its flag is set, and a callback
that decided earlier can only store what the next test rejects or a later calm report
replaces. A stale throttle request does fire after an attack, and is always restored.
In the exporter, counters and series survive the missing lock, because a series is set to what
was just read and removed whole; in the ablation driver, because the rows of a cell
reach the file together, at its close.

What they show as a limit, not reported as a finding. Several properties state the limit
themselves.

- `--mitigate` of the monitor sets a flag that nothing reads.
- `detector.py`: the autoencoder never reports what no rule has seen, since three quiet calls
  empty its buffer (`LstmNeverFirst`). Its comment says 100 kbps where the value is in Mbps.
- `train_lstm_ue.py`, `train_gru_ue.py`: a NaN epoch replaces the best checkpoint (`BestKept`).
- `evaluate_detection.py`: `DualLSTMDetector` is described as two of the last three raw scores
  and counts smoothed ones in a row (lines 419-428); the "port" of `sec_ids.c` has storm
  rules of its own, and no latch.
- `calibrate_threshold_remote.py:23` calls its rules the same as the evaluation's, but asks 8 rows of R4
  where `evaluate_per_ue_v2.py` asks 10: a window that ends on the eighth or ninth R4 row in a row
  alerts in one and not in the other. Its false alarms by rule (line 158) run on across UEs. No property is
  about either, and the count by rule is left out of `ThresholdSweep`. In `calibrate_threshold_gru.py` the preference for
  the nineties has no effect, in `sweep_gru_threshold.py` the recall objective is decided by
  the first filter.
- `evaluate_ue_models.py` scores windows of rows of several UEs, and counts a score equal to the
  threshold (`UnsplitAgrees`, `UnsplitCounts`).
- `run_grouped_ablation.py` says it resumes (line 23); killed between opening and closing a new file it leaves
  one without header, which the next start cannot read (`Resumable`, not a property of a run). Two drivers
  that find no file both write a header: a driver that starts then cannot read it, while the aggregator
  reports the second header among the failed cells.
- `csv_exporter.py`: the cell tail follows the newest of all CSVs, per-UE files included; the latencies count
  from where stage 0 was entered, so that they contain the calm before the attack (its test does, too,
  `test_csv_exporter.py:99-127`); a result file emptied and completed within one tick of its clock, and polled
  in between, is not read (`ResultsNotMissed` has it as its exception); gauges of an attack missing from a new
  result file stay; the comprehension of the sweep ends its thread if an RNTI is entered meanwhile; rows not
  read when the file changes are never read; a throttled UE that is silent for ten seconds loses its gauge.

## Theorems

Checked by TLAPS for every value of the constants that meets the named assumptions.

- `MoniControlProofs!TypeCorrect`: `Spec => []TypeOK`.
- `MoniControlProofs!HandshakeInvariant`: `Spec => []ControlInv`. `TypeOK /\ ControlInv` is
  inductive: `MainAgrees` ties the main loop's place to `g_throttle_active` and the request,
  `TimerOfThisThrottle` says that a grace timer belongs to the throttle that is on, and
  `NoLeftoverRequest` covers the window between a callback's decision and its store. The
  last is the strengthening without which a restore decided before a RESTORE could be
  stored into the next THROTTLE.
- `MoniControlProofs!ImplementsThrottleCycle`: `Spec => Cycle!Spec`. The phase is the last
  command's, its age is the iteration's own clock while a command is being sent and
  `now - g_throttle_last_ms` afterwards, and calm is a restore request stored or about to
  be. Each step maps to a step of the cycle or a stutter. Assumptions: Grace is positive,
  Grace and AckTicks are at most Cooldown.
- `SecIdsProofs!IdsTypes`, `CriticalWithoutAlertIsStorm`: a CRITICAL without a Stage 1 alert comes from the storm count
  alone, for any samples. `CollapseIsOver` is needed for it: rule 7 does not get to its own CRITICAL.
- `SecIdsProofs!ConfirmedAfterUnbroken`, `RingIsExact`, `QuietEndsAlerts`: `SaturationSustained`, `BurstRingExact` and
  `CalmClears`, for any samples, gaps and times. `ObserverRefines` shows that the observer adds
  only history. The inductive `HistoryInv` adds to them: `TimerFromHeld`, the start time of a saturation is kept without a
  recovery timer only while the direction it was taken for has held since; `NewestFirst`, transitions have
  distinct ages in order, so that dropping those above `Span` leaves a beginning of the
  list, which is what the ring has after any wrap of its head; `QuietAges`, a transition that counts is at least as old
  as the quiet, so the hold it granted runs out with it.
- `UeTrackerProofs!TrackerTypes`, `NewUesCounted`, `LastingFloodReported`: `TrackerTypeOK`, `NewUesExact` and `FloodReported`, for
  any table size and set of RNTIs. `TrackerInv` says, as long as the reporters of two periods fit the table, that they all
  are in it (`NobodyLost`), that last-seen times keep reporters of this period before those of the last and
  those before the rest (`SeenInOrder`), which makes the oldest slot the right one to evict, and that an
  entry's count is not behind its UE's run (`RunsCounted`). `Dense` (in `TrackerTypes`) is that no RNTI has two entries.
- `MitigationSystemProofs!ImplementsMoniControl`: the composed system implements `MoniControl`, so that
  (`SystemKeepsCycle`) the handshake's invariant and the throttle cycle hold in it too. Each
  step is one of `MoniControl`'s or a stutter: a reply of the mitigator is its `PeerReplies`, a
  crash its `PeerGone`. A reply needs an open connection there, whence `LiveIsOpen`: a command
  whose sender still waits came over the connection there is.
- `MitigationSystemProofs!SystemTypes`: `Spec => []SystemTypeOK`.
- `MitigationSystemProofs!PromptMitigatorObeys`: `LastCommandInForce`, if `Prompt` and `MaxFaults = 0`, restarts of the
  monitor included. `OneOnItsWay`: a command is in the socket, acknowledged, with its thread, or has
  arrived, and it is the monitor's last. `SendsWhenSettled`: where the main loop sends, the one
  before has arrived; its sleep lies between, and between a THROTTLE and a RESTORE of one iteration
  the grace timer, which the THROTTLE has reset.
- `OfflineProofs!LstmNeedsRules`: `LstmNeverFirst` for every window length. The inductive
  part is `BufferPaidByRules`: what the buffer holds is covered by the rule hits since the
  last flush, each of which stands for three samples, and the quiet calls since the last hit.
  `WithoutRulesSilent` follows by the same argument with no hits; `DetectorTypes` is the bounds.
- `OfflineProofs!CalibrationWithin`, `CalibrationBest`: for any finite set of benign windows the
  chosen threshold keeps the target, and no lower score does. `WithinMonotone` shows that the
  false alarms only grow as the threshold falls, so that the code's early break loses nothing;
  `LeastExists` and `GreatestBelow` give the elements the choices stand for.
- `OfflineProofs!PortTypes`, `PortKeepsItsWord`: `UnnamedIsStorm`, `CalmReported` and `OneSaturation` for any rows and gaps.
  `PortInv`: a hold has no more left than its length less the calm so far (`HoldsOK`), an ON transition is at least as
  old as the calm, and the time since a saturation exceeds the gap's own age by one distance of rows at most (`AgesOK`).
- `ExporterProofs!WatchTypes`, `NoResultMissed`, `OneActiveModel`, whatever the resolution of the file's clock. `EvalInv`: no
  time kept is ahead of the file's, and what was loaded at the file's time is what it has unless it was completed
  since within that tick (`hidden`); it is what makes reading the time before the contents right. `ModelInv`: the model
  shown is the last read.
- `ExporterProofs!UeMetricsTypes`, `NoOldValueShown`: `ShownIsLastRead` for any set of UEs, rows and files.
  `ShownInv` covers the two places between gauges and counter where the alert thread can be
  overtaken by the sweep.
- `ExporterProofs!EscalationsCountedOnce`: `BlockedNotInflated`, likewise. `CountInv` is an account: what was counted, what
  the row in hand and the rest of its file will add, and what a newer file would add to a reader that knows no stage,
  are together no more than was written. The steps rest on what a longer file (`EscalationsAppend`), a file less its first
  row (`EscalationsTail`) and a reader that starts from lower stages (`EscalationsMonotone`) count.
- `ExporterProofs!CellTypes`: types of the cell tail for any rows, files and pauses; no gauge is negative or beyond the clock.
- `ExporterProofs!WindowsOfOneStretch`: `GruWindowsAlike` for any two window lengths: both windows are in order (`InOrder`) and
  agree from their ends backwards as far as the shorter goes (`Aligned`), which a slide of both preserves.
- `OfflineProofs!TrainingTypes`, `BestEpochKept`, `FilesOfTheRun`: `BestKept` with `CheckpointIsBest`, and `FilesOfOneRun` with
  `ScalerLostToLaterRun`, for any losses, patience, epochs and number of runs, with an interruption anywhere. `TrainInv` says
  what each place in a script's plan has behind it (`AtWork`): before the scaler nothing is of this run (`Fresh`), in
  training the best so far and its checkpoint (`Progress`), after it what was stored (`Stored`).
- `OfflineProofs!CellsOnce`, `TablesConsistent`, `AblationTypes`: `RecordedOnce`, `FinishedComplete`,
  `ReportPaired` and `ReportConsistent` for any number of drivers (the last two with second headers in the
  file), any plans without a cell in common, and any number of kills. `AblationInv`: in a file with a header
  the rows of a cell are one adjacent block, its pair or its failure (`Once`); what a driver has to do is not
  in the file (`NotYet`), what it has not to do is (`Accounted`); what the aggregator has read is finite and
  paired. The tables follow from that last part and from `ReportAssumption`.
- `EvaluationProofs!OneSpikeNeverAlerts`: `NoAlertOnOneSpike` for any file, window and thresholds, if `SmoothN
  < MinConsec` (in the code 1 < 3, `evaluate_detection.py:327,432`). The inductive part: `cnt` high smoothed
  scores in a row end at the last row, and each is an average with at least one raw score above the threshold
  in it; `MinConsec` windows of `SmoothN` scores cannot all have the same one. `DetectionTables` is
  `TablesAgree`.
- `EvaluationProofs!OwnRows`, `VerdictsStay`, `LatencyCounts`: `RulesOnOwnRows`, `VerdictsStand` and
  `LatencyFromOnset` for any file and window length. What is inductive is small, `CsvInv`: row t has time t.
  The work is in the operators: what splitting by UE and putting the groups together again gives
  (`PoolStamped`: windows in the order of UEs, then of time, one for every row that is at least the `W`-th of
  its UE), that a counter of consecutive hits is at its need exactly if that many last rows hit, and that the
  groups of a longer file begin with those of a shorter.
- `EvaluationProofs!CountsHold`: `DashboardAgrees`, `UnsplitAgrees`, `UnsplitCounts`, `TalliesAgree` and
  `MixedOfScored` for any file and every window longer than one row (`SEQ_LEN` 10 in the code; for one row
  `MixedOfScored` is false, a window has no second row to differ from). Each count is brought to the
  cardinality of a set of places in the file, and the sets to one another.
- `EvaluationProofs!AlarmsHold`: `AlertsExplained`, `EpisodesAcrossAttacks` and `CalibratedLowest` for any
  file. `EpisodeInv` runs along the benign windows: alerts given within the episode that is open are a
  cooldown apart and not before its start, so there are no more of them than one and its duration by the
  cooldown, and closed episodes are paid for by the same count.
- `EvaluationProofs!SearchesHold`: `SavedIsBest`, `GruSavedIsBest` and `SweepFindsLeast` for any file and any
  finite set of percentiles. The lemmas: sorting has a value at every place, a percentile grows with its
  place, so that the tries fall in threshold. Along the tries of `calibrate_threshold_remote` the invariant is
  `SavedBy`, what is saved is the best of those seen; the nineties of `calibrate_threshold_gru` are closed
  upward in recall, so that narrowing loses nothing; `MinRecall` falls as the threshold of
  `sweep_gru_threshold` rises, so that the least threshold kept is the best.
- `EvaluationProofs!MeasuresHold`: `SweptRateKept` for any file. Of three rows in sequence above a threshold each is
  scored, so alerts are among the rows that exceed it.
- `ToolsProofs!ToolsTypes`, `ToolsBestWeights`, `ToolsFiles`, `ToolsCells`, `ToolsTables`, `ToolsPort`, `ToolsCounts`,
  `ToolsAlarms`, `ToolsBest`: the properties as the run
  `tools` states them, for a program at work beside others that keep their initial states (`ToolsAtWork`: its specification
  implies that of each program).

Assumptions on constants, each the code's: an ablation driver's plan lists no cell twice and drivers
share none; models are `lstm` or `gru` (`choices=MODELS`), and model, configuration and seed identify a cell; the rows of the
port differ in time and their distances have a greatest. TLC evaluates them all.

Only model-checked:

- `PersistentAttackThrottled`, `CalmReleases`, `AttackReachesGnb`, `CalmReachesGnb`, `LoopRecovers`: liveness under fairness,
  which rests on `ENABLED`, and no installed prover reasons about it.

## Not modelled

- The KPM gate and the empty path, `run_cell_inference`, label reload, CSV writers, subscription,
  measurement callbacks, dead code (`rc_send_prb_quota`); clock steps of `CLOCK_REALTIME`; over-long
  socket lines.
- Tensor arithmetic: the models in `lstm_autoencoder.py`, `scoring.py`, losses and scores, `eval_loss_ablation.py`,
  `derive_loss_weights.py`. They have no state beyond the weights; where their answers matter they are inputs.
- Plots and report texts, the dashboard's callbacks and latency profile, `src/tools`, `src/eval_figures`.
- In the exporter: gauges that copy a column, the Prometheus server, the choice of the newest file by name.
- Deployment, traffic and attack scripts, examples.

## Plan

Done: `ThrottleCycle`, `MoniControl`, `MitigateServer`, `MitigationSystem`, `SecIds`, `UeTracker` with
observers; the Python programs with state or counting; the composed system shown to implement
`MoniControl`; proofs of every safety property a run checks.

Left, in this order:

1. `KpmGate`: the 90 ms gate, empty indications and their accumulator, the LSTM stages
   with inference as an oracle, the final severity; composed with `SecIds` in place of
   `MoniControl`'s free severity, so that a storm's latch is seen to block RESTORE.
2. Label reload and the monitor's writers, composed with the exporter's tails.
