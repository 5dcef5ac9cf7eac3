------------------------------- MODULE RulePort -------------------------------
(***************************************************************************)
(* src/scripts/eval/evaluate_detection.py: RuleBasedIDS, the cell rules     *)
(* written again in Python for the offline evaluation ("port dari           *)
(* sec_ids.c"), with storm rules of its own.  A step is one call of detect. *)
(*                                                                          *)
(* Percentages are whole; counters stop at the number they are compared     *)
(* with; times are ages in seconds, Unset for the code's 0; a history is    *)
(* flat when its values are equal (the code: variance below 0.0001).        *)
(***************************************************************************)
EXTENDS Integers, SequencesExt

CONSTANTS
  Rows,       \* [ul, dl, empty, rach, cqi, delay] a row may hold
  RowGaps,    \* seconds that may pass between two rows
  History,    \* rows the rolling buffers hold (10)
  TriggerSpan, StormHold,           \* rule 3e: 3 s, 5 s
  OnSpan, BurstHold,                \* rule 8: 90 s, 15 s
  SatPersist, SatFast, SatForget    \* Stage 2: 30 s, 3 s, 5 s

ASSUME PortAssumption ==
  /\ Rows \subseteq [ul : 0..100, dl : 0..100, empty : Nat, rach : Nat, cqi : 0..15,
                     delay : Nat]
  /\ RowGaps \subseteq Nat \ {0} /\ \E gap \in RowGaps : \A dt \in RowGaps : dt <= gap
  /\ {History, TriggerSpan, StormHold, OnSpan, BurstHold, SatPersist, SatFast,
      SatForget} \subseteq Nat \ {0}

VARIABLES
  counts,     \* ul_sat_cnt and the other counters of consecutive rows
  rolled,     \* ul_var_buf, dl_var_buf, cqi_buf
  triggers, stormLeft,   \* ages of rrc_recent_triggers; seconds to rrc_storm_until
  prbBefore,  \* prev_prb_total
  burstWasOn, onTimes, burstLeft,   \* rule 8: ages of the ON times; seconds left
  satAge, forgetAge,     \* since s2_sat_start_ms and s2_rec_start_ms
  reported,   \* the severity and alert type returned
  calm,       \* history: seconds since a row met a condition of any rule
  sinceSat    \* history: seconds since a row was reported saturated

portVars == <<counts, rolled, triggers, stormLeft, prbBefore, burstWasOn, onTimes,
              burstLeft, satAge, forgetAge, reported, calm, sinceSat>>

Unset == -1
Enough == [ulSat |-> 5, dlSat |-> 3, emptyStorm |-> 3, rachSustained |-> 2,
           storm |-> 4, rfSusp |-> 2, rf2 |-> 5]

\* reset
PortInit ==
  /\ counts = [c \in DOMAIN Enough |-> 0]
  /\ rolled = [ul |-> <<>>, dl |-> <<>>, cqi |-> <<>>]
  /\ triggers = {} /\ stormLeft = Unset
  /\ prbBefore = 0 /\ burstWasOn = FALSE /\ onTimes = {} /\ burstLeft = Unset
  /\ satAge = Unset /\ forgetAge = Unset
  /\ reported = [severity |-> 0, alert |-> "none"] /\ calm = 0 /\ sinceSat = 0

-----------------------------------------------------------------------------
Push(buf, x) == IF Len(buf) < History THEN Append(buf, x) ELSE Append(Tail(buf), x)
RolledNext(row) ==
  [ul |-> Push(rolled.ul, row.ul), dl |-> Push(rolled.dl, row.dl),
   cqi |-> Push(rolled.cqi, row.cqi)]
IsFlat(buf) == \A i \in DOMAIN buf : buf[i] = buf[1]
\* A standard deviation above 3, squared and without the fractions.
Oscillates(buf) ==
  Len(buf) * FoldSeq(LAMBDA x, sum : sum + x * x, 0, buf) - FoldSeq(+, 0, buf)^2
    > 9 * Len(buf)^2

LowPrb(row) == row.ul < 30 /\ row.dl < 30
UlFull(row) == row.ul > 80 /\ row.dl < 15
DlFull(row) == row.dl > 80 /\ row.ul < 30
Cond3b(row) == row.empty >= 2 /\ LowPrb(row)
Cond3c(row) == row.rach >= 1 /\ LowPrb(row)
Cond3d(row) == row.ul + row.dl < 5 /\ Oscillates(Push(rolled.cqi, row.cqi))
Storming(row) == Cond3b(row) \/ Cond3c(row) \/ Cond3d(row)
RfCollapse(row) == prbBefore > 40 /\ row.ul + row.dl < 5 /\ row.delay < 1
BurstIsOn(row) == row.ul > 70 /\ row.dl < 20

\* Ages dt seconds later, those up to span: rows differ in time, and so do ages.
Aged(ages, dt, span) == {a \in {x + dt : x \in ages} : a <= span}

\* Rule 3e: the triggers still counted, and how long the storm is kept alive.
RecentTriggers(row, dt) ==
  Aged(triggers, dt, TriggerSpan) \cup (IF Storming(row) THEN {0} ELSE {})
Expire(left, dt) == IF left < dt THEN Unset ELSE left - dt
StormLeftNext(row, dt) ==
  IF Storming(row) /\ Cardinality(RecentTriggers(row, dt)) >= 2 THEN StormHold
  ELSE Expire(stormLeft, dt)

\* The rows in a row that meet each condition; alive is that of rule 3e.
\* Mutant of CountsNext: the storm count outlives the storm, as in sec_ids.c.
CountsStormKept(row, alive) ==
  LET counted(c, holds) == IF holds THEN Min({counts[c] + 1, Enough[c]}) ELSE 0
  IN [ulSat |-> counted("ulSat", UlFull(row)), dlSat |-> counted("dlSat", DlFull(row)),
      emptyStorm |-> counted("emptyStorm", Cond3b(row)),
      rachSustained |-> counted("rachSustained", Cond3c(row)),
      storm |-> IF Storming(row) THEN counted("storm", TRUE) ELSE counts.storm,
      rfSusp |-> counted("rfSusp", RfCollapse(row)), rf2 |-> counted("rf2", RfCollapse(row))]
CountsNext(row, alive) ==
  LET counted(c, holds) == IF holds THEN Min({counts[c] + 1, Enough[c]}) ELSE 0
  IN [ulSat |-> counted("ulSat", UlFull(row)), dlSat |-> counted("dlSat", DlFull(row)),
      emptyStorm |-> counted("emptyStorm", Cond3b(row)),
      rachSustained |-> counted("rachSustained", Cond3c(row)),
      storm |-> counted("storm", Storming(row) \/ alive),
      rfSusp |-> counted("rfSusp", RfCollapse(row)), rf2 |-> counted("rf2", RfCollapse(row))]

\* Rule 8: OFF to ON transitions of the last OnSpan seconds.
OnTimesNext(row, dt) ==
  Aged(onTimes, dt, OnSpan) \cup (IF BurstIsOn(row) /\ ~burstWasOn THEN {0} ELSE {})
BurstLeftNext(times, dt) ==
  LET again == IF Cardinality(times) >= 2 THEN BurstHold - Min(times) ELSE Unset
  IN Max({Expire(burstLeft, dt), again})

-----------------------------------------------------------------------------
\* The first rule that hits names the alert.
AlertType(row, c, alive, burst) ==
  LET hits(x) == c[x] >= Enough[x] IN
  IF hits("ulSat") THEN "ul_saturation"
  ELSE IF hits("dlSat") THEN "dl_saturation"
  ELSE IF hits("emptyStorm") \/ hits("rachSustained") \/ Cond3d(row) \/ alive
       THEN "rrc_storm"
  ELSE IF hits("rfSusp") THEN "radio_degradation_suspicion"
  ELSE IF burst THEN "periodic_burst_anomaly"
  ELSE "none"

\* Stage 2: the saturation's age runs on through gaps shorter than SatForget.
Saturated(alert) == alert \in {"ul_saturation", "dl_saturation"}
AgeNext(age, dt, limit) == Min({age + dt, limit})
SatAgeNext(alert, dt) ==
  IF satAge = Unset THEN (IF Saturated(alert) THEN 0 ELSE Unset)
  ELSE AgeNext(satAge, dt, SatPersist)
ForgetAgeNext(alert, dt) ==
  IF satAge = Unset \/ Saturated(alert) THEN Unset
  ELSE IF forgetAge = Unset THEN 0 ELSE AgeNext(forgetAge, dt, SatForget)
FlatLined(row, alert) ==
  \/ alert = "ul_saturation" /\ row.ul > 80 /\ IsFlat(Push(rolled.ul, row.ul))
  \/ alert = "dl_saturation" /\ row.dl > 80 /\ IsFlat(Push(rolled.dl, row.dl))
SaturationCritical(row, alert, dt) ==
  /\ Saturated(alert)
  /\ \/ SatAgeNext(alert, dt) >= SatPersist
     \/ SatAgeNext(alert, dt) >= SatFast /\ FlatLined(row, alert)

LongestGap == SatForget + Max(RowGaps)
Evidence(row) ==
  UlFull(row) \/ DlFull(row) \/ Storming(row) \/ RfCollapse(row) \/ BurstIsOn(row)

\* What a row writes, given the seconds left of the storm, the transitions, the
\* counters, the seconds left of the burst and the alert.
RowStep(row, dt, left, times, c, held, alert) ==
  LET critical == \/ c.storm >= Enough.storm \/ c.rf2 >= Enough.rf2
                  \/ held # Unset /\ Cardinality(times) >= 4
                  \/ SaturationCritical(row, alert, dt)
      forgotten == ForgetAgeNext(alert, dt) >= SatForget
  IN
  /\ counts' = c /\ rolled' = RolledNext(row)
  /\ triggers' = RecentTriggers(row, dt) /\ stormLeft' = left
  /\ prbBefore' = row.ul + row.dl
  /\ burstWasOn' = BurstIsOn(row) /\ onTimes' = times /\ burstLeft' = held
  /\ satAge' = IF forgotten THEN Unset ELSE SatAgeNext(alert, dt)
  /\ forgetAge' = IF forgotten THEN Unset ELSE ForgetAgeNext(alert, dt)
  /\ reported' = [severity |-> IF critical THEN 2 ELSE IF alert # "none" THEN 1 ELSE 0,
                  alert |-> alert]
  /\ calm' = IF Evidence(row) THEN 0
             ELSE Min({calm + dt, Max({StormHold, BurstHold}) + 1})
  /\ sinceSat' = IF Saturated(alert) THEN 0 ELSE Min({sinceSat + dt, LongestGap})

\* detect
DetectRow(row, dt) ==
  \E left \in {StormLeftNext(row, dt)}, times \in {OnTimesNext(row, dt)} :
    \E c \in {CountsNext(row, left # Unset)}, held \in {BurstLeftNext(times, dt)} :
      \E alert \in {AlertType(row, c, left # Unset, held # Unset)} :
        RowStep(row, dt, left, times, c, held, alert)

PortNext == \E row \in Rows, dt \in RowGaps : DetectRow(row, dt)

PortSpec == PortInit /\ [][PortNext]_portVars

-----------------------------------------------------------------------------
PortTypeOK ==
  /\ \A c \in DOMAIN Enough : counts[c] \in 0..Enough[c]
  /\ \A b \in DOMAIN rolled : Len(rolled[b]) <= History
  /\ triggers \subseteq 0..TriggerSpan /\ onTimes \subseteq 0..OnSpan
  /\ stormLeft \in Unset..StormHold /\ burstLeft \in Unset..BurstHold
  /\ satAge \in Unset..SatPersist /\ forgetAge \in Unset..(SatForget - 1)
  /\ reported.severity \in 0..2

(* A CRITICAL that names no alert rests on the row at hand: the count of    *)
(* storm rows may be at its limit when no storm rule has enough rows of its *)
(* own, but then this row still meets a storm condition.  In sec_ids.c, of  *)
(* which this is the port, the count alone is enough in a quiet cell.       *)
UnnamedIsStorm ==
  reported = [severity |-> 2, alert |-> "none"] => counts.storm = Enough.storm /\ calm = 0

(* The rules let go: when no row has met a rule's condition for as long as  *)
(* the longest hold, nothing is reported, whatever came before.             *)
CalmReported ==
  calm > Max({StormHold, BurstHold}) => reported = [severity |-> 0, alert |-> "none"]

(* The age that makes a saturation CRITICAL is that of one saturation: it   *)
(* goes on through short gaps, but time before a gap of SatForget, up to    *)
(* the distance of two rows, never counts.                                  *)
OneSaturation == satAge # Unset => sinceSat < LongestGap
==============================================================================
