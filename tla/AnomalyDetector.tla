---------------------------- MODULE AnomalyDetector ----------------------------
(***************************************************************************)
(* src/detection/detector.py: AnomalyDetector.detect, which puts the        *)
(* threshold rules of ThresholdDetector in front of an LSTM autoencoder.    *)
(* One step is one call.  The autoencoder is an oracle that answers only    *)
(* for a full buffer, and the buffer is its length: what is in it matters   *)
(* to the oracle alone.  Throughput is in kbps (the code: Mbps as float).   *)
(* Streak counters stop at Streak, the number they are compared with.       *)
(***************************************************************************)
EXTENDS Integers, Sequences

CONSTANTS
  Kpis,          \* KPI samples a call may bring
  SeqLen,        \* config detection.sequence_length
  RulesEnabled,  \* config detection.threshold_enabled
  DlLow          \* config dl_throughput.anomaly_low, 0 for unset

ASSUME DetectorAssumption ==
  /\ SeqLen \in Nat \ {0} /\ DlLow \in Nat /\ RulesEnabled \in BOOLEAN
  /\ Kpis \subseteq [rrc : Nat, attach : Nat, prb : 0..100, ul : Nat, dl : Nat,
                     snr : Nat, cqi : 0..15, handover : Nat]

VARIABLES
  model,                       \* lstm_model: none, unfitted (no threshold), fitted
  bufLen,                      \* len(_kpi_buffer)
  normalCount,                 \* _normal_count
  storm, ulFlood, dlFlood,     \* the *_consecutive counters
  verdict,                     \* the AnomalyResult of the last call
  rulesSinceFlush,             \* history: calls with a rule hit since the last flush
  ulPlausible, dlPlausible     \* history: calls in a row below 100 Mbps

streaks == <<storm, ulFlood, dlFlood>>
detVars == <<model, bufLen, normalCount, streaks, verdict,
             rulesSinceFlush, ulPlausible, dlPlausible>>

Streak == 3
NormalFlush == 3
Severities == [low |-> 1, medium |-> 2, high |-> 3, critical |-> 4]
\* method: what the result's details name as its cause.
Verdict(type, severity, method) ==
  [type |-> type, severity |-> severity, method |-> method]
Normal == Verdict("normal", Severities.low, "none")
Raised == Verdict("raised", 0, "none")    \* detect ended in an exception

AtMost(n, bound) == IF n > bound THEN bound ELSE n
Count(streak, holds) == IF holds THEN AtMost(streak + 1, Streak) ELSE 0

DetInit ==
  /\ model = "none" /\ bufLen = 0 /\ normalCount = 0
  /\ storm = 0 /\ ulFlood = 0 /\ dlFlood = 0
  /\ verdict = Normal
  /\ rulesSinceFlush = 0 /\ ulPlausible = 0 /\ dlPlausible = 0

-----------------------------------------------------------------------------
(* ThresholdDetector.detect                                                *)

MacLoad(k) == k.prb > 20 /\ k.ul < 100000 /\ k.dl < 100000
UlExtreme(k) == k.ul > 15000 /\ k.prb > 80 /\ k.cqi >= 15 /\ k.dl < 500
DlExtreme(k) == k.dl > 50000 /\ k.prb > 80 /\ k.ul < 500

StreakNext(streak, holds) == IF RulesEnabled THEN Count(streak, holds) ELSE streak

\* Rules in the order of the code, each with what it appends and when.
Rule(type, severity, holds) == [type |-> type, severity |-> severity, holds |-> holds]
Rules(k) ==
  << Rule("signaling_storm",
          IF k.rrc > 800 THEN Severities.critical ELSE Severities.high, k.rrc > 500),
     Rule("signaling_storm", Severities.high, k.attach > 50),
     Rule("signaling_storm", Severities.critical, StreakNext(storm, MacLoad(k)) >= Streak),
     Rule("jamming", Severities.critical, k.prb > 80 /\ k.snr < 13),
     Rule("uplink_flood", Severities.critical, StreakNext(ulFlood, UlExtreme(k)) >= Streak),
     Rule("downlink_flood", Severities.critical, StreakNext(dlFlood, DlExtreme(k)) >= Streak),
     Rule("throughput_anomaly", Severities.high, DlLow > 0 /\ k.dl < DlLow),
     Rule("ue_anomaly", Severities.medium, k.handover > 20) >>
Hits(k) ==
  LET rules == Rules(k) IN {i \in DOMAIN rules : RulesEnabled /\ rules[i].holds}

\* The first of the most severe hits: Python's sort is stable.
Primary(k) ==
  LET rules == Rules(k)
      hits == Hits(k)
      first == CHOOSE i \in hits : \A j \in hits :
                 \/ rules[j].severity < rules[i].severity
                 \/ rules[j].severity = rules[i].severity /\ i <= j
  IN Verdict(rules[first].type, rules[first].severity, "rules")

EvaluateStreaks(k) ==
  /\ storm' = StreakNext(storm, MacLoad(k))
  /\ ulFlood' = StreakNext(ulFlood, UlExtreme(k))
  /\ dlFlood' = StreakNext(dlFlood, DlExtreme(k))

-----------------------------------------------------------------------------
(* AnomalyDetector                                                         *)

\* _add_to_buffer
\* Mutant of Buffered: the oldest sample stays.
BufferedAll == bufLen + 1
Buffered == AtMost(bufLen + 1, SeqLen)
\* Mutant of BufferFull: a window two samples short is good enough.
BufferFullEarly == Buffered >= SeqLen - 2
BufferFull == Buffered >= SeqLen

Observe(k) ==
  /\ EvaluateStreaks(k)
  /\ ulPlausible' = Count(ulPlausible, k.ul < 100000)
  /\ dlPlausible' = Count(dlPlausible, k.dl < 100000)
  /\ UNCHANGED model

Flushes == normalCount + 1 >= NormalFlush

\* Neither a rule nor the autoencoder sees an anomaly.
Quiet ==
  /\ verdict' = Normal
  /\ bufLen' = IF Flushes THEN 0 ELSE Buffered
  /\ normalCount' = IF Flushes THEN 0 ELSE normalCount + 1
  /\ rulesSinceFlush' = IF Flushes THEN 0 ELSE rulesSinceFlush

DetectNormal(k) ==
  /\ BufferFull => model # "unfitted"
  /\ Observe(k) /\ Hits(k) = {}
  /\ Quiet

DetectByRule(k) ==
  /\ BufferFull => model # "unfitted"
  /\ Observe(k) /\ Hits(k) # {}
  /\ verdict' = Primary(k)
  /\ bufLen' = Buffered /\ normalCount' = 0
  /\ rulesSinceFlush' = AtMost(rulesSinceFlush + 1, SeqLen)

\* _detect_with_lstm: by window, by latest step or by share of steps.
DetectByLstm(k, scoreAbove3) ==
  /\ model = "fitted" /\ BufferFull
  /\ Observe(k) /\ Hits(k) = {}
  /\ verdict' = Verdict("unknown", IF scoreAbove3 THEN Severities.high
                                   ELSE Severities.medium, "lstm")
  /\ bufLen' = Buffered /\ normalCount' = 0
  /\ UNCHANGED rulesSinceFlush

\* is_anomaly raises without a threshold: the rules' hits are lost with it.
DetectRaises(k) ==
  /\ model = "unfitted" /\ BufferFull
  /\ Observe(k)
  /\ verdict' = Raised
  /\ bufLen' = Buffered
  /\ UNCHANGED <<normalCount, rulesSinceFlush>>

SetLstmModel(m) ==
  /\ model' = m
  /\ UNCHANGED <<bufLen, normalCount, streaks, verdict,
                 rulesSinceFlush, ulPlausible, dlPlausible>>

Detect(k) ==
  \/ DetectNormal(k)
  \/ DetectByRule(k)
  \/ \E scoreAbove3 \in BOOLEAN : DetectByLstm(k, scoreAbove3)
  \/ DetectRaises(k)

DetNext ==
  \/ \E k \in Kpis : Detect(k)
  \/ \E m \in {"unfitted", "fitted"} : SetLstmModel(m)

DetSpec == DetInit /\ [][DetNext]_detVars

-----------------------------------------------------------------------------
DetTypeOK ==
  /\ model \in {"none", "unfitted", "fitted"}
  /\ bufLen \in 0..SeqLen /\ normalCount \in 0..(NormalFlush - 1)
  /\ storm \in 0..Streak /\ ulFlood \in 0..Streak /\ dlFlood \in 0..Streak
  /\ rulesSinceFlush \in 0..SeqLen
  /\ ulPlausible \in 0..Streak /\ dlPlausible \in 0..Streak

(* The autoencoder never speaks first: a verdict of its own needs at least  *)
(* (SeqLen - NormalFlush) / NormalFlush rule hits since the buffer *)
(* was last flushed, for three quiet calls in a row empty it.  An anomaly   *)
(* that no rule sees is never reported, however long it lasts.              *)
LstmNeverFirst ==
  verdict.method = "lstm" => NormalFlush * (rulesSinceFlush + 1) >= SeqLen

(* A flood is reported as such only if the link carried 100 Mbps within its *)
(* three calls, or the storm heuristic, critical and earlier in the list,   *)
(* takes its place: its "no payload" limit is 100 Mbps.                     *)
FloodShadowed ==
  /\ verdict.type = "uplink_flood" => ulPlausible < Streak
  /\ verdict.type = "downlink_flood" => dlPlausible < Streak

(* What makes LstmNeverFirst inductive: every call since the flush was a    *)
(* rule hit or one of the at most two quiet calls around it, until the      *)
(* buffer is full.                                                          *)
BufferPaidByRules ==
  \/ bufLen <= NormalFlush * rulesSinceFlush + normalCount
  \/ bufLen = SeqLen /\ SeqLen <= NormalFlush * (rulesSinceFlush + 1)
==============================================================================
