-------------------------------- MODULE SecIds --------------------------------
(***************************************************************************)
(* sec_ids.c: rule_based_detect, the two-stage rule engine that the KPM     *)
(* callback runs once per cell report.  Stage 1 rules count consecutive    *)
(* windows and raise WARNING; Stage 2 rules ask for persistence, burst     *)
(* cycles or repeated storms and raise CRITICAL, which authorises the       *)
(* THROTTLE that MoniControl issues.                                        *)
(*                                                                          *)
(* One step is one call.  A sample is the part of cell_metrics_t the rules *)
(* read.  Time is in ticks, a call comes dt ticks after the one before, and *)
(* epoch values are kept as ages, None for the code's 0.  Window counters   *)
(* stop at the number they are compared with.  A PRB history counts as      *)
(* flat when its values are equal (the code: variance below 0.0001).        *)
(***************************************************************************)
EXTENDS Integers, FiniteSetsExt, SequencesExt

CONSTANTS
  Samples,   \* metrics a window may bring
  Gaps,      \* ticks that may pass between two calls
  Confirm,   \* g_cfg_saturation_confirm_ms
  FastPath,  \* the 15 s of the flatline fast paths
  Recovery,  \* g_cfg_recovery_confirm_ms
  Span,      \* the 90 s an OFF->ON transition counts
  Hold,      \* the 15 s an alert outlives the last transition
  DecayWin,  \* RRC_BURST_DECAY_WIN, in windows
  OnSlots,   \* IDS_BURST_ON_SLOTS
  VarRolling, RachHist

ASSUME IdsTimeAssumption ==
  /\ Gaps \subseteq Nat \ {0}
  /\ {Confirm, FastPath, Recovery, Span, Hold, DecayWin} \subseteq Nat \ {0}
  /\ FastPath <= Confirm
  /\ {OnSlots, VarRolling, RachHist} \subseteq Nat \ {0}
ASSUME IdsSampleAssumption ==
  Samples \subseteq [ul : 0..100, dl : 0..100, empty : Nat, rach : Nat, delay : Nat,
                     slowRlc : BOOLEAN, cqi : 0..15]

VARIABLES
  ulSat, dlSat, sigStorm,              \* g_ul_sat_cnt, g_dl_sat_cnt, g_sig_storm_cnt
  emptyStorm,                          \* g_empty_storm_cnt
  bursts, sinceBurst, inBurst,         \* g_rrc_burst_cnt, _since_last_burst, _was_in_burst
  rfSusp, prevTotal,                   \* g_rf_susp_cnt (and its Stage 2 twin), g_prev_prb_total
  ulBuf, dlBuf, rachBuf,               \* the rolling histories, newest last
  onAge, onHead, onCount, wasOn, activeFor, \* g_burst_*: ring of ages; time left
  satFor, recFor,                      \* now - saturation start, - recovery start
  lastDetection                        \* g_last_detection and the returned severity

stage1Vars == <<ulSat, dlSat, sigStorm, emptyStorm, bursts, sinceBurst, inBurst,
                rfSusp, prevTotal, ulBuf, dlBuf, rachBuf>>
stage2Vars == <<onAge, onHead, onCount, wasOn, activeFor, satFor, recFor>>
idsVars == <<stage1Vars, stage2Vars, lastDetection>>

None == -1
UlWindows == 5
DlWindows == 3
StormWindows == 3
StormBursts == 3     \* RRC_STORM_BURST_CNT
RfWindows == 2
RfConfirmWin == 5    \* g_cfg_rf_susp_confirm_win
OnThreshold == 4     \* g_cfg_burst_on_threshold

IdsAlerts == {"none", "ul_saturation", "dl_saturation", "rrc_storm",
           "radio_degradation", "periodic_burst"}

IdsInit ==
  /\ ulSat = 0 /\ dlSat = 0 /\ sigStorm = 0 /\ emptyStorm = 0
  /\ bursts = 0 /\ sinceBurst = 0 /\ inBurst = FALSE
  /\ rfSusp = 0 /\ prevTotal = 0
  /\ ulBuf = <<>> /\ dlBuf = <<>> /\ rachBuf = [i \in 1..RachHist |-> 0]
  /\ onAge = [i \in 0..(OnSlots - 1) |-> Span + 1]
  /\ onHead = 0 /\ onCount = 0 /\ wasOn = FALSE /\ activeFor = None
  /\ satFor = None /\ recFor = None
  /\ lastDetection = [severity |-> 0, stage1 |-> FALSE, alert |-> "none",
                  early |-> FALSE]

-----------------------------------------------------------------------------
InARow(holds, count, enough) ==
  IF ~holds THEN 0 ELSE IF count < enough THEN count + 1 ELSE enough

Roll(buf, x, size) ==
  IF Len(buf) < size THEN Append(buf, x) ELSE Append(Tail(buf), x)

Flat(buf) == \A i \in DOMAIN buf : buf[i] = buf[1]

(* Rules 1 and 2: saturation in one direction only. *)
UlSaturated(m) == m.ul > 80 /\ m.dl < 15
DlSaturated(m) == m.dl > 80 /\ m.ul < 30
\* Mutant of UlSatNext: the window counter is not reset.
UlSatKept(m) == IF UlSaturated(m) THEN InARow(TRUE, ulSat, UlWindows) ELSE ulSat
UlSatNext(m) == InARow(UlSaturated(m), ulSat, UlWindows)
DlSatNext(m) == InARow(DlSaturated(m), dlSat, DlWindows)

(* The MAC heuristic for a signalling storm: PRBs in use, hardly any data, *)
(* and a degraded or contended channel.                                    *)
SignallingLoad(m) ==
  /\ m.ul + m.dl > 40 /\ m.ul < 80 /\ m.dl < 80
  /\ m.slowRlc
  /\ m.cqi < 5 \/ m.rach > 0
SigStormNext(m) == InARow(SignallingLoad(m), sigStorm, StormWindows)

(* Rule 3: a RACH spike against the mean of the windows before. *)
RachSpike(m) ==
  /\ m.rach > 5
  /\ m.rach * RachHist > 3 * (FoldSeq(+, 0, rachBuf) + RachHist)

(* Rule 3b: empty indications.  A burst is three such windows in a row;    *)
(* the count of bursts starts over only when a new one begins more than    *)
(* DecayWin windows after the last.                                        *)
EmptyNext(m) ==
  InARow(m.empty >= 2 /\ m.ul < 30 /\ m.dl < 30, emptyStorm, StormWindows)
InBurstNext(m) == EmptyNext(m) >= StormWindows
BurstsNext(m) ==
  IF InBurstNext(m) /\ ~inBurst
  THEN InARow(TRUE, IF sinceBurst > DecayWin THEN 0 ELSE bursts, StormBursts)
  ELSE bursts
SinceBurstNext(m) ==
  IF InBurstNext(m) THEN (IF inBurst THEN sinceBurst ELSE 0)
  ELSE InARow(TRUE, IF inBurst THEN 0 ELSE sinceBurst, DecayWin + 1)

(* Rule 7: the cell's PRB use collapses from one window to the next. *)
Collapse(m) == prevTotal > 40 /\ m.ul + m.dl < 5 /\ m.delay < 1
RfSuspNext(m) == InARow(Collapse(m), rfSusp, RfConfirmWin)

(* Rule 8: OFF->ON transitions, in a ring of OnSlots times.  The scan goes *)
(* back from the head over the entries still counted and keeps those that  *)
(* are no older than Span.                                                 *)
BurstOn(m) == m.ul > 70 /\ m.dl < 20
Transition(m) == BurstOn(m) /\ ~wasOn
OnAgeNext(m, dt) ==
  [i \in 0..(OnSlots - 1) |->
     IF Transition(m) /\ i = onHead THEN 0
     ELSE IF onAge[i] + dt > Span THEN Span + 1 ELSE onAge[i] + dt]
OnHeadNext(m) == IF Transition(m) THEN (onHead + 1) % OnSlots ELSE onHead
CountedOns(m) == IF Transition(m) /\ onCount < OnSlots THEN onCount + 1 ELSE onCount
\* Mutant of ValidSlots: the scan starts at the head, not at the entry before it.
ValidSlotsFromHead(m, dt) ==
  LET ages == OnAgeNext(m, dt)
      scanned == {(OnHeadNext(m) - k + OnSlots) % OnSlots : k \in 0..(CountedOns(m) - 1)}
  IN {i \in scanned : ages[i] <= Span}
ValidSlots(m, dt) ==
  LET ages == OnAgeNext(m, dt)
      scanned == {(OnHeadNext(m) - 1 - k + OnSlots) % OnSlots : k \in 0..(CountedOns(m) - 1)}
  IN {i \in scanned : ages[i] <= Span}
ActiveForNext(valid, m, dt) ==
  LET left == IF activeFor < dt THEN None ELSE activeFor - dt
      ages == OnAgeNext(m, dt)
      again == IF Cardinality(valid) >= 2 THEN Hold - Min({ages[i] : i \in valid}) ELSE None
  IN IF left >= again THEN left ELSE again

-----------------------------------------------------------------------------
(* Stage 1: the rules in the order of the code; the first that hits names  *)
(* the alert.                                                              *)
AlertOf(m, active) ==
  IF UlSatNext(m) >= UlWindows THEN "ul_saturation"
  ELSE IF DlSatNext(m) >= DlWindows THEN "dl_saturation"
  ELSE IF SigStormNext(m) >= StormWindows \/ RachSpike(m) \/ InBurstNext(m)
       THEN "rrc_storm"
  ELSE IF m.delay > 100 \/ RfSuspNext(m) >= RfWindows THEN "radio_degradation"
  ELSE IF active # None THEN "periodic_burst"
  ELSE "none"

(* Stage 2: how long the saturation alert has lasted.  It starts over on   *)
(* the first saturated window after any other, and is forgotten after      *)
(* Recovery without one.                                                   *)
SatActive(alert) == alert \in {"ul_saturation", "dl_saturation"}
SatAge(dt) == IF satFor + dt > Confirm THEN Confirm ELSE satFor + dt
\* Mutant of SatDur: a start time from before a gap is inherited.
SatDurThroughGaps(dt) == IF satFor = None THEN 0 ELSE SatAge(dt)
SatDur(dt) == IF satFor = None \/ recFor # None THEN 0 ELSE SatAge(dt)
RecDur(dt) == IF recFor = None THEN 0 ELSE recFor + dt

FlatLine(alert, m) ==
  \/ /\ alert = "ul_saturation" /\ m.ul > 80
     /\ Flat(Roll(ulBuf, m.ul, VarRolling))
  \/ /\ alert = "dl_saturation" /\ m.dl > 80
     /\ Flat(Roll(dlBuf, m.dl, VarRolling))

\* Mutant of SatConfirmed: the duration counts whatever the alert.
SatConfirmedAnyAlert(alert, m, dt) == SatDur(dt) >= Confirm
SatConfirmed(alert, m, dt) ==
  /\ SatActive(alert)
  /\ \/ SatDur(dt) >= Confirm
     \/ SatDur(dt) >= FastPath /\ FlatLine(alert, m)

BurstConfirmed(valid, active) == active # None /\ Cardinality(valid) >= OnThreshold

Critical(alert, valid, active, m, dt) ==
  \/ BurstsNext(m) >= StormBursts
  \/ RfSuspNext(m) >= RfConfirmWin
  \/ BurstConfirmed(valid, active)
  \/ SatConfirmed(alert, m, dt)

-----------------------------------------------------------------------------
(* The saturation timers: recovery runs while another alert or none holds. *)
Saturation(alert, dt) ==
  LET forgotten == RecDur(dt) >= Recovery
  IN CASE SatActive(alert) -> satFor' = SatDur(dt) /\ recFor' = None
       [] ~SatActive(alert) /\ satFor # None ->
            /\ satFor' = IF forgotten THEN None ELSE SatAge(dt)
            /\ recFor' = IF forgotten THEN None ELSE RecDur(dt)
       [] OTHER -> UNCHANGED <<satFor, recFor>>

(* What is reported.  Of the two event times only their order is kept:     *)
(* early says that the Stage 2 confirmation lies before the start of the   *)
(* Stage 1 event it is measured from.                                      *)
Report(alert, critical) ==
  lastDetection' =
    [severity |-> IF critical THEN 2 ELSE IF alert # "none" THEN 1 ELSE 0,
     stage1 |-> alert # "none",
     alert |-> alert,
     early |-> /\ critical /\ alert # "none" /\ lastDetection.severity = 2
               /\ lastDetection.stage1 => lastDetection.early]

(* What one window writes, given the transitions in the span, the rest of *)
(* the hold and the Stage 1 alert.                                         *)
EngineStep(m, dt, valid, active, alert) ==
  /\ ulSat' = UlSatNext(m) /\ dlSat' = DlSatNext(m)
  /\ sigStorm' = SigStormNext(m) /\ emptyStorm' = EmptyNext(m)
  /\ bursts' = BurstsNext(m) /\ sinceBurst' = SinceBurstNext(m)
  /\ inBurst' = InBurstNext(m)
  /\ rfSusp' = RfSuspNext(m) /\ prevTotal' = m.ul + m.dl
  /\ ulBuf' = Roll(ulBuf, m.ul, VarRolling)
  /\ dlBuf' = Roll(dlBuf, m.dl, VarRolling)
  /\ rachBuf' = Roll(rachBuf, m.rach, RachHist)
  /\ onAge' = OnAgeNext(m, dt) /\ onHead' = OnHeadNext(m)
  /\ onCount' = Cardinality(valid) /\ wasOn' = BurstOn(m)
  /\ activeFor' = active
  /\ Saturation(alert, dt)
  /\ Report(alert, Critical(alert, valid, active, m, dt))

(* rule_based_detect: bound once each, as the locals of the function are.  *)
IdsWindow(m, dt) ==
  \E valid \in {ValidSlots(m, dt)} :
    \E active \in {ActiveForNext(valid, m, dt)} :
      \E alert \in {AlertOf(m, active)} : EngineStep(m, dt, valid, active, alert)

IdsNext == \E m \in Samples, dt \in Gaps : IdsWindow(m, dt)

IdsSpec == IdsInit /\ [][IdsNext]_idsVars

-----------------------------------------------------------------------------
(* Type invariant of the rule engine. *)
IdsTypeOK ==
  /\ ulSat \in 0..UlWindows /\ dlSat \in 0..DlWindows
  /\ sigStorm \in 0..StormWindows /\ emptyStorm \in 0..StormWindows
  /\ bursts \in 0..StormBursts /\ sinceBurst \in 0..(DecayWin + 1)
  /\ inBurst \in BOOLEAN
  /\ rfSusp \in 0..RfConfirmWin /\ prevTotal \in 0..200
  /\ ulBuf \in Seq(0..100) /\ dlBuf \in Seq(0..100)
  /\ rachBuf \in [1..RachHist -> Nat]
  /\ onAge \in [0..(OnSlots - 1) -> 0..(Span + 1)]
  /\ onHead \in 0..(OnSlots - 1) /\ onCount \in 0..OnSlots
  /\ wasOn \in BOOLEAN /\ activeFor \in None..Hold
  /\ satFor \in None..Confirm /\ recFor \in None..Recovery
  /\ lastDetection \in [severity : 0..2, stage1 : BOOLEAN, alert : IdsAlerts,
                    early : BOOLEAN]

(* A CRITICAL without a Stage 1 alert comes from the storm rule alone, the *)
(* one rule whose count outlives what it counted; every other CRITICAL     *)
(* names the alert that the THROTTLE message will carry.                   *)
OnlyStormLatches ==
  lastDetection.severity = 2 /\ ~lastDetection.stage1 => bursts >= StormBursts

(* "3 burst terpisah dalam 30s = storm": a storm is not reported any more  *)
(* when DecayWin windows have gone by since the last burst and no other    *)
(* rule hits.                                                              *)
StormDecays ==
  lastDetection.severity = 2 /\ ~lastDetection.stage1 => sinceBurst <= DecayWin
==============================================================================
