---------------------------- MODULE SecIdsObserver ----------------------------
(***************************************************************************)
(* SecIds with history variables that read the samples only: how long each *)
(* saturation has held without a break, every OFF->ON transition of the    *)
(* last Span ticks, and for how long the cell has been quiet.  They are what *)
(* the counters, timers and the ring of the rule engine are measured by.   *)
(***************************************************************************)
EXTENDS SecIds

VARIABLES
  ulHeld, dlHeld,  \* ticks of unbroken saturation, up to Confirm; None
  ons,             \* ages of the transitions, newest first
  quietFor         \* ticks with no sample near a threshold, up to Hold + 1

idsObsVars == <<idsVars, ulHeld, dlHeld, ons, quietFor>>

Held(holds, held, dt) ==
  IF ~holds THEN None
  ELSE IF held = None THEN 0
  ELSE IF held + dt < Confirm THEN held + dt ELSE Confirm

\* The transitions are kept newest first, so those that count are a prefix.
OnsNext(m, dt) ==
  LET older == [i \in DOMAIN ons |-> ons[i] + dt]
      all == IF Transition(m) THEN <<0>> \o older ELSE older
  IN SubSeq(all, 1, Cardinality({i \in DOMAIN all : all[i] <= Span}))

QuietSample(m) == m.ul < 20 /\ m.dl < 20 /\ m.empty = 0 /\ m.rach = 0 /\ m.delay = 0

IdsObsInit == IdsInit /\ ulHeld = None /\ dlHeld = None /\ ons = <<>> /\ quietFor = 0

ObserveWindow(m, dt) ==
  /\ IdsWindow(m, dt)
  /\ ulHeld' = Held(UlSaturated(m), ulHeld, dt)
  /\ dlHeld' = Held(DlSaturated(m), dlHeld, dt)
  /\ ons' = OnsNext(m, dt)
  /\ quietFor' = IF ~QuietSample(m) THEN 0
                 ELSE IF quietFor + dt > Hold THEN Hold + 1 ELSE quietFor + dt

IdsObsNext == \E m \in Samples, dt \in Gaps : ObserveWindow(m, dt)

IdsObsSpec == IdsObsInit /\ [][IdsObsNext]_idsObsVars

-----------------------------------------------------------------------------
StormConfirmed == bursts >= StormBursts
CyclesConfirmed == activeFor # None /\ onCount >= OnThreshold

(* A CRITICAL for saturation alone means saturation of that one direction  *)
(* in every window for at least the fast-path time, and a CRITICAL that is *)
(* not flat for the full confirmation time: neither a gap, nor a change of *)
(* direction, nor the recovery timer lets earlier time count.              *)
SaturationSustained ==
  lastDetection.severity = 2 /\ ~StormConfirmed /\ ~CyclesConfirmed =>
    \/ lastDetection.alert = "ul_saturation" /\ ulHeld >= (IF Flat(ulBuf) THEN FastPath ELSE Confirm)
    \/ lastDetection.alert = "dl_saturation" /\ dlHeld >= (IF Flat(dlBuf) THEN FastPath ELSE Confirm)

(* The ring counts the transitions of the last Span ticks, all of them up  *)
(* to its size, newest first, through any wrap of the head and any         *)
(* eviction.                                                               *)
BurstRingExact ==
  /\ onCount = IF Len(ons) < OnSlots THEN Len(ons) ELSE OnSlots
  /\ \A k \in 1..onCount : onAge[(onHead - k + OnSlots) % OnSlots] = ons[k]

(* Once the cell has been quiet for longer than Hold every rule but the    *)
(* storm's has let go: no timer, hold or counter keeps a severity above 0, *)
(* so that the monitor's restore can follow.                               *)
CalmClears == quietFor > Hold => lastDetection.severity = 0 \/ StormConfirmed
==============================================================================
