----------------------------- MODULE SecIdsProofs -----------------------------
(***************************************************************************)
(* Proofs about the rule engine and its observer, for every sample set and  *)
(* every threshold in time: the types; a CRITICAL that names no alert comes *)
(* from the storm rule alone, saturation is confirmed by unbroken           *)
(* saturation only, the ring of transitions is exact, and quiet             *)
(* ends every rule but the storm's.                                         *)
(***************************************************************************)
EXTENDS SecIdsObserver, FiniteSetTheorems, SequenceTheorems, NaturalsInduction, TLAPS

\* The assumption on the constants, one by one.
LEMMA IdsConstants ==
  /\ Confirm \in Nat /\ Confirm > 0 /\ FastPath \in Nat /\ FastPath <= Confirm
  /\ Recovery \in Nat /\ Recovery > 0 /\ Span \in Nat /\ Span > 0
  /\ Hold \in Nat /\ Hold > 0 /\ DecayWin \in Nat
  /\ OnSlots \in Nat /\ OnSlots > 0 /\ VarRolling \in Nat \ {0}
  /\ RachHist \in Nat \ {0}
  /\ \A dt \in Gaps : dt \in Nat /\ dt > 0
<1>1. \A n \in Nat \ {0} : n > 0
  OBVIOUS
<1>2. /\ Confirm \in Nat \ {0} /\ FastPath \in Nat \ {0} /\ Recovery \in Nat \ {0}
      /\ Span \in Nat \ {0} /\ Hold \in Nat \ {0} /\ DecayWin \in Nat \ {0}
      /\ OnSlots \in Nat \ {0} /\ VarRolling \in Nat \ {0} /\ RachHist \in Nat \ {0}
  BY IdsTimeAssumption
<1> QED  BY <1>1, <1>2, IdsTimeAssumption

-----------------------------------------------------------------------------
(* What the operators return.                                              *)

\* A window counter stays within the number it is compared with.
LEMMA WindowsType ==
  ASSUME NEW holds, NEW enough \in Nat, NEW count \in 0..enough
  PROVE  InARow(holds, count, enough) \in 0..enough
BY DEF InARow

\* A rolling history keeps its element type, and its length once full.
LEMMA RollType ==
  ASSUME NEW S, NEW buf \in Seq(S), NEW x \in S, NEW size \in Nat \ {0}
  PROVE  /\ Roll(buf, x, size) \in Seq(S)
         /\ (Len(buf) = size) => (Len(Roll(buf, x, size)) = size)
<1>1. CASE Len(buf) < size
  <2>1. Append(buf, x) \in Seq(S)
    BY AppendProperties
  <2> QED  BY <1>1, <2>1 DEF Roll
<1>2. CASE ~(Len(buf) < size)
  <2>1. buf # <<>> /\ Len(buf) \in Nat
    BY <1>2
  <2> DEFINE rest == Tail(buf)
             longer == Append(rest, x)
  <2>2. rest \in Seq(S) /\ Len(rest) = Len(buf) - 1
    BY <2>1, HeadTailProperties
  <2>3. Roll(buf, x, size) = longer
    BY <1>2 DEF Roll
  <2> HIDE DEF rest
  <2>4. longer \in Seq(S) /\ Len(longer) = Len(rest) + 1
    BY <2>2, AppendProperties, Zenon
  <2> HIDE DEF longer
  <2> QED  BY <2>1, <2>2, <2>3, <2>4
<1> QED  BY <1>1, <1>2

\* The least element of a set of naturals.
LEMMA MinOfNaturals ==
  ASSUME NEW S, S \subseteq Nat, S # {}
  PROVE  Min(S) \in S /\ \A y \in S : Min(S) <= y
<1> DEFINE R == OpToRel(<, Nat)
<1>1. PICK x \in S : \A y \in S : ~(<<y, x>> \in R)
  BY NatLessThanWellFounded, WFMin
<1>2. ASSUME NEW y \in S PROVE x <= y
  <2>1. y \in Nat /\ x \in Nat
    OBVIOUS
  <2>2. y < x => <<y, x>> \in R
    BY <2>1 DEF OpToRel
  <2>3. ~(y < x)
    BY <1>1, <2>2
  <2> QED  BY <2>1, <2>3
<1> QED  BY <1>1, <1>2 DEF Min

LEMMA ModuloRange ==
  ASSUME NEW n \in Nat, n > 0, NEW h \in Int
  PROVE  h % n \in 0..(n - 1)
OBVIOUS

\* Every age stays within the ring's range.
LEMMA OnAgeType ==
  ASSUME IdsTypeOK, NEW m \in Samples, NEW dt \in Gaps
  PROVE  OnAgeNext(m, dt) \in [0..(OnSlots - 1) -> 0..(Span + 1)]
<1>1. Span \in Nat /\ dt \in Nat
  BY IdsConstants
<1>2. \A i \in 0..(OnSlots - 1) : onAge[i] \in 0..(Span + 1)
  BY DEF IdsTypeOK
<1>3. \A i \in 0..(OnSlots - 1) :
        (IF Transition(m) /\ i = onHead THEN 0
         ELSE IF onAge[i] + dt > Span THEN Span + 1 ELSE onAge[i] + dt) \in 0..(Span + 1)
  BY <1>1, <1>2
<1> QED  BY <1>3 DEF OnAgeNext

\* The head wraps within the ring.
LEMMA OnHeadType ==
  ASSUME IdsTypeOK, NEW m \in Samples
  PROVE  OnHeadNext(m) \in 0..(OnSlots - 1)
<1>1. OnSlots \in Nat /\ OnSlots > 0 /\ onHead \in 0..(OnSlots - 1)
  BY IdsConstants DEF IdsTypeOK
<1>2. \A h \in Int : h % OnSlots \in 0..(OnSlots - 1)
  BY <1>1, ModuloRange
<1> QED  BY <1>1, <1>2 DEF OnHeadNext

\* The scan returns slots of the ring.
LEMMA ValidSlotsType ==
  ASSUME IdsTypeOK, NEW m \in Samples, NEW dt \in Gaps
  PROVE  /\ ValidSlots(m, dt) \subseteq 0..(OnSlots - 1)
         /\ IsFiniteSet(ValidSlots(m, dt))
         /\ Cardinality(ValidSlots(m, dt)) \in 0..OnSlots
<1>1. OnSlots \in Nat /\ OnSlots > 0
  BY IdsConstants
<1>2. \A h \in Int : h % OnSlots \in 0..(OnSlots - 1)
  BY <1>1, ModuloRange
<1>3. OnHeadNext(m) \in Int /\ CountedOns(m) \in Int
  BY OnHeadType DEF CountedOns, IdsTypeOK
<1>4. \A k \in 0..(CountedOns(m) - 1) :
        (OnHeadNext(m) - 1 - k + OnSlots) % OnSlots \in 0..(OnSlots - 1)
  BY <1>1, <1>2, <1>3
<1>5. ValidSlots(m, dt) \subseteq 0..(OnSlots - 1)
  BY <1>4 DEF ValidSlots
<1>6. IsFiniteSet(0..(OnSlots - 1)) /\ Cardinality(0..(OnSlots - 1)) = OnSlots
  BY <1>1, FS_Interval
<1>7. IsFiniteSet(ValidSlots(m, dt)) /\ Cardinality(ValidSlots(m, dt)) <= OnSlots
  <2> DEFINE ring == 0..(OnSlots - 1)
             valid == ValidSlots(m, dt)
  <2>1. valid \in SUBSET ring /\ IsFiniteSet(ring) /\ Cardinality(ring) = OnSlots
    BY <1>5, <1>6
  <2> HIDE DEF ring, valid
  <2>2. IsFiniteSet(valid) /\ Cardinality(valid) <= OnSlots
    BY <2>1, FS_Subset
  <2> QED  BY <2>2 DEF valid
<1> QED  BY <1>1, <1>5, <1>7, FS_CardinalityType

\* The time an alert for transitions has left.
LEMMA ActiveForType ==
  ASSUME IdsTypeOK, NEW m \in Samples, NEW dt \in Gaps
  PROVE  ActiveForNext(ValidSlots(m, dt), m, dt) \in None..Hold
<1> DEFINE valid == ValidSlots(m, dt)
           ages == OnAgeNext(m, dt)
           left == IF activeFor < dt THEN None ELSE activeFor - dt
           again == IF Cardinality(valid) >= 2 THEN Hold - Min({ages[i] : i \in valid})
                    ELSE None
<1>0. dt \in Nat /\ Hold \in Nat /\ activeFor \in -1..Hold
  BY IdsConstants DEF IdsTypeOK, None
<1>1. left \in None..Hold
  BY <1>0 DEF None
<1>2. again \in Int /\ again <= Hold
  <2>1. CASE Cardinality(valid) >= 2
    <3>1. valid # {}
      BY <2>1, FS_EmptySet
    <3> DEFINE S == {ages[i] : i \in valid}
    <3>2. S \subseteq Nat /\ S # {}
      <4>1. \A i \in 0..(OnSlots - 1) : ages[i] \in Nat
        BY OnAgeType, IdsConstants
      <4> HIDE DEF ages
      <4> QED  BY <3>1, <4>1, ValidSlotsType
    <3>3. Min(S) \in Nat
      BY <3>2, MinOfNaturals
    <3> QED  BY <2>1, <3>3, IdsConstants
  <2>2. CASE ~(Cardinality(valid) >= 2)
    BY <2>2, IdsConstants DEF None
  <2> QED  BY <2>1, <2>2
<1>3. ActiveForNext(valid, m, dt) = IF left >= again THEN left ELSE again
  BY DEF ActiveForNext
<1> HIDE DEF left, again, valid
<1>4. left \in Int /\ None <= left /\ left <= Hold /\ None \in Int /\ Hold \in Int
  BY <1>1, IdsConstants DEF None
<1>5. (IF left >= again THEN left ELSE again) \in None..Hold
  BY <1>2, <1>4
<1> QED  BY <1>3, <1>5 DEF valid

\* A window is one pass over the tables with what the function has worked out.
LEMMA WindowIs ==
  ASSUME NEW m, NEW dt, IdsWindow(m, dt)
  PROVE  LET valid == ValidSlots(m, dt)
             active == ActiveForNext(valid, m, dt)
         IN  EngineStep(m, dt, valid, active, AlertOf(m, active))
BY Zenon DEF IdsWindow

\* A window keeps the types.
LEMMA IdsTypeWindow ==
  ASSUME IdsTypeOK, NEW m \in Samples, NEW dt \in Gaps, IdsWindow(m, dt)
  PROVE  IdsTypeOK'
<1>0. PICK slots, hold, named : EngineStep(m, dt, slots, hold, named)
  BY WindowIs
<1>1. /\ m.ul \in 0..100 /\ m.dl \in 0..100 /\ m.rach \in Nat
      /\ dt \in Nat /\ dt > 0
  BY IdsSampleAssumption, IdsConstants
<1> USE IdsConstants
<1>2. ulSat' \in 0..UlWindows /\ dlSat' \in 0..DlWindows
  BY WindowsType, <1>0 DEF EngineStep, UlSatNext, DlSatNext, IdsTypeOK, UlWindows, DlWindows
<1>3. sigStorm' \in 0..StormWindows /\ emptyStorm' \in 0..StormWindows
  BY WindowsType, <1>0 DEF EngineStep, SigStormNext, EmptyNext, IdsTypeOK, StormWindows
<1>4. bursts' \in 0..StormBursts
  <2>1. (IF sinceBurst > DecayWin THEN 0 ELSE bursts) \in 0..StormBursts
    BY DEF IdsTypeOK, StormBursts
  <2>2. StormBursts \in Nat
    BY DEF StormBursts
  <2>3. BurstsNext(m) \in 0..StormBursts
    BY <2>1, <2>2, WindowsType DEF BurstsNext, IdsTypeOK
  <2> QED  BY <2>3, <1>0 DEF EngineStep
<1>5. sinceBurst' \in 0..(DecayWin + 1)
  <2>1. /\ sinceBurst \in 0..(DecayWin + 1) /\ DecayWin + 1 \in Nat
        /\ (IF inBurst THEN 0 ELSE sinceBurst) \in 0..(DecayWin + 1)
    <3>1. sinceBurst \in 0..(DecayWin + 1) /\ DecayWin \in Nat
      BY DEF IdsTypeOK
    <3> QED  BY <3>1
  <2>2. SinceBurstNext(m) \in 0..(DecayWin + 1)
    <3> DEFINE last == DecayWin + 1
               count == IF inBurst THEN 0 ELSE sinceBurst
    <3>1. SinceBurstNext(m) =
            IF InBurstNext(m) THEN (IF inBurst THEN sinceBurst ELSE 0)
            ELSE InARow(TRUE, count, last)
      BY DEF SinceBurstNext
    <3>2. count \in 0..last /\ last \in Nat /\ sinceBurst \in 0..last /\ 0 \in 0..last
      BY <2>1
    <3> HIDE DEF last, count
    <3>3. InARow(TRUE, count, last) \in 0..last
      BY <3>2, WindowsType
    <3>4. SinceBurstNext(m) \in 0..last
      BY <3>1, <3>2, <3>3
    <3> QED  BY <3>4 DEF last
  <2> QED  BY <2>2, <1>0 DEF EngineStep
<1>6. inBurst' \in BOOLEAN /\ wasOn' \in BOOLEAN
  BY <1>0 DEF EngineStep, InBurstNext, BurstOn
<1>7. rfSusp' \in 0..RfConfirmWin
  BY WindowsType, <1>0 DEF EngineStep, RfSuspNext, IdsTypeOK, RfConfirmWin
<1>8. prevTotal' \in 0..200
  <2>1. \A a, b \in 0..100 : a + b \in 0..200
    OBVIOUS
  <2> QED  BY <1>1, <2>1, <1>0 DEF EngineStep
<1>9. ulBuf' \in Seq(0..100) /\ dlBuf' \in Seq(0..100)
  BY <1>1, RollType, <1>0 DEF EngineStep, IdsTypeOK
<1>10. rachBuf' \in [1..RachHist -> Nat]
  <2>0. rachBuf \in [1..RachHist -> Nat] /\ RachHist \in Nat \ {0}
    BY IdsConstants DEF IdsTypeOK
  <2>1. rachBuf \in Seq(Nat) /\ Len(rachBuf) = RachHist
    <3>1. \A n \in Nat : \A f \in [1..n -> Nat] : f \in Seq(Nat) /\ Len(f) = n
      OBVIOUS
    <3> QED  BY <2>0, <3>1
  <2>2. rachBuf' = Roll(rachBuf, m.rach, RachHist)
    BY WindowIs DEF EngineStep
  <2>3. rachBuf' \in Seq(Nat) /\ Len(rachBuf') = RachHist
    <3> DEFINE x == m.rach
    <3>1. x \in Nat /\ rachBuf' = Roll(rachBuf, x, RachHist)
      BY <1>1, <2>2
    <3> HIDE DEF x
    <3>2. Roll(rachBuf, x, RachHist) \in Seq(Nat)
      BY <2>0, <2>1, <3>1, RollType
    <3>3. Len(Roll(rachBuf, x, RachHist)) = RachHist
      <4> DEFINE N == Nat
      <4>1. rachBuf \in Seq(N) /\ x \in N
        BY <2>1, <3>1
      <4>2. RachHist \in Nat \ {0} /\ Len(rachBuf) = RachHist
        BY <2>0, <2>1
      <4> HIDE DEF N
      <4> QED  BY <4>1, <4>2, RollType
    <3> QED  BY <3>1, <3>2, <3>3
  <2> QED  BY <2>3
<1>11. onAge' \in [0..(OnSlots - 1) -> 0..(Span + 1)] /\ onHead' \in 0..(OnSlots - 1)
  BY OnAgeType, OnHeadType, WindowIs DEF EngineStep
<1>12. onCount' \in 0..OnSlots /\ activeFor' \in None..Hold
  BY ValidSlotsType, ActiveForType, WindowIs DEF EngineStep
<1>13. satFor' \in None..Confirm /\ recFor' \in None..Recovery
  <2>1. PICK alert : Saturation(alert, dt)
    BY WindowIs DEF EngineStep
  <2>2. SatDur(dt) \in 0..Confirm /\ (satFor # None => SatAge(dt) \in 0..Confirm)
    <3>1. Confirm \in Nat /\ satFor \in -1..Confirm
      BY IdsConstants DEF IdsTypeOK, None
    <3>2. satFor # None => SatAge(dt) \in 0..Confirm
      BY <1>1, <3>1 DEF SatAge, None
    <3> QED  BY <3>1, <3>2 DEF SatDur
  <2>3. RecDur(dt) \in Nat
    BY <1>1 DEF RecDur, IdsTypeOK, None
  <2>4. CASE SatActive(alert)
    BY <2>1, <2>2, <2>4 DEF Saturation, None
  <2>5. CASE ~SatActive(alert) /\ satFor # None
    BY <2>1, <2>2, <2>3, <2>5 DEF Saturation, None
  <2>6. CASE ~SatActive(alert) /\ satFor = None
    BY <2>1, <2>6 DEF Saturation, IdsTypeOK
  <2> QED  BY <2>4, <2>5, <2>6
<1>14. lastDetection' \in [severity : 0..2, stage1 : BOOLEAN, alert : IdsAlerts, early : BOOLEAN]
  <2>1. PICK valid, active, critical : Report(AlertOf(m, active), critical)
    BY WindowIs DEF EngineStep
  <2>2. AlertOf(m, active) \in IdsAlerts
    BY DEF AlertOf, IdsAlerts
  <2> HIDE DEF IdsAlerts
  <2> QED  BY <2>1, <2>2 DEF Report
<1> QED
  BY <1>2, <1>3, <1>4, <1>5, <1>6, <1>7, <1>8, <1>9, <1>10, <1>11, <1>12, <1>13, <1>14
     DEF IdsTypeOK

LEMMA IdsTypeInit == IdsInit => IdsTypeOK
<1> SUFFICES ASSUME IdsInit PROVE IdsTypeOK
  OBVIOUS
<1> USE IdsConstants
<1>1. <<>> \in Seq(0..100)
  OBVIOUS
<1>2. lastDetection \in [severity : 0..2, stage1 : BOOLEAN, alert : IdsAlerts, early : BOOLEAN]
  BY DEF IdsInit, IdsAlerts
<1>3. rachBuf \in [1..RachHist -> Nat] /\ onAge \in [0..(OnSlots - 1) -> 0..(Span + 1)]
  BY DEF IdsInit
<1>4. /\ ulSat \in 0..UlWindows /\ dlSat \in 0..DlWindows
      /\ sigStorm \in 0..StormWindows /\ emptyStorm \in 0..StormWindows
      /\ bursts \in 0..StormBursts /\ rfSusp \in 0..RfConfirmWin /\ prevTotal \in 0..200
  BY DEF IdsInit, UlWindows, DlWindows, StormWindows, StormBursts, RfConfirmWin
<1>5. /\ sinceBurst \in 0..(DecayWin + 1)
      /\ onHead \in 0..(OnSlots - 1) /\ onCount \in 0..OnSlots
  BY DEF IdsInit
<1>6. activeFor \in None..Hold /\ satFor \in None..Confirm /\ recFor \in None..Recovery
  BY DEF IdsInit, None
<1> QED
  BY <1>1, <1>2, <1>3, <1>4, <1>5, <1>6 DEF IdsInit, IdsTypeOK

LEMMA IdsTypeStep == IdsTypeOK /\ [IdsNext]_idsVars => IdsTypeOK'
<1>1. ASSUME IdsTypeOK, UNCHANGED idsVars PROVE IdsTypeOK'
  BY <1>1 DEF IdsTypeOK, idsVars, stage1Vars, stage2Vars
<1> QED  BY <1>1, IdsTypeWindow DEF IdsNext

\* The types of the rule engine's counters, histories and timers.
THEOREM IdsTypes == IdsSpec => []IdsTypeOK
BY IdsTypeInit, IdsTypeStep, PTL DEF IdsSpec
-----------------------------------------------------------------------------
(* Rule 7 and the storm rule.                                              *)

\* Why rule 7 is inert: a count can only begin after a window that was not
\* empty, and that window's total is replaced by the empty one's.
CollapseIsOver == rfSusp = 0 \/ (rfSusp = 1 /\ prevTotal < 5)

\* The strengthening: that fact, and the storm's monopoly.
IdsInv == prevTotal \in Nat /\ CollapseIsOver /\ OnlyStormLatches

LEMMA IdsInvInit == IdsInit => IdsInv
BY DEF IdsInit, IdsInv, CollapseIsOver, OnlyStormLatches

\* One window keeps the count of rule 7 below its threshold.
LEMMA WindowCollapse ==
  ASSUME NEW m \in Samples, NEW dt \in Gaps, prevTotal \in Nat, CollapseIsOver,
         IdsWindow(m, dt)
  PROVE  prevTotal' \in Nat /\ CollapseIsOver' /\ RfSuspNext(m) < RfWindows
<1>1. m.ul \in 0..100 /\ m.dl \in 0..100
  BY IdsSampleAssumption
<1>2. prevTotal' = m.ul + m.dl /\ rfSusp' = RfSuspNext(m)
  BY WindowIs DEF EngineStep
<1>3. prevTotal' \in Nat
  <2>1. \A a, b \in 0..100 : a + b \in Nat
    OBVIOUS
  <2>2. m.ul + m.dl \in Nat
    BY <1>1, <2>1
  <2>3. QED
    BY <1>2, <2>2
<1>4. CASE Collapse(m)
  <2>1. prevTotal > 40 /\ m.ul + m.dl < 5
    BY <1>4 DEF Collapse
  <2>2. rfSusp = 0
    BY <2>1 DEF CollapseIsOver
  <2>3. RfSuspNext(m) = 1
    BY <1>4, <2>2 DEF RfSuspNext, InARow, RfConfirmWin
  <2>4. QED
    BY <1>2, <1>3, <2>1, <2>3 DEF CollapseIsOver, RfWindows
<1>5. CASE ~Collapse(m)
  <2>1. RfSuspNext(m) = 0
    BY <1>5 DEF RfSuspNext, InARow
  <2>2. QED
    BY <1>2, <1>3, <2>1 DEF CollapseIsOver, RfWindows
<1>6. QED
  BY <1>4, <1>5

\* A window that is CRITICAL without an alert has a confirmed storm: the other
\* Stage 2 rules require a Stage 1 alert of their own.
LEMMA WindowStorm ==
  ASSUME NEW m \in Samples, NEW dt \in Gaps, RfSuspNext(m) < RfWindows,
         RfSuspNext(m) \in Nat, IdsWindow(m, dt)
  PROVE  OnlyStormLatches'
<1> DEFINE valid == ValidSlots(m, dt)
           active == ActiveForNext(valid, m, dt)
           alert == AlertOf(m, active)
           critical == Critical(alert, valid, active, m, dt)
<1>1. /\ bursts' = BurstsNext(m)
      /\ Report(alert, critical)
  BY WindowIs DEF EngineStep
<1>2. /\ lastDetection'.stage1 = (alert # "none")
      /\ lastDetection'.severity = 2 <=> critical
  BY <1>1 DEF Report
<1>3. ASSUME critical, alert = "none" PROVE BurstsNext(m) >= StormBursts
  <2>1. active = None
    BY <1>3 DEF AlertOf
  <2>2. ~BurstConfirmed(valid, active)
    BY <2>1 DEF BurstConfirmed
  <2>3. ~SatConfirmed(alert, m, dt)
    BY <1>3 DEF SatConfirmed, SatActive
  <2>4. ~(RfSuspNext(m) >= RfConfirmWin)
    BY DEF RfConfirmWin, RfWindows
  <2>5. QED
    BY <1>3, <2>2, <2>3, <2>4 DEF Critical
<1>4. QED
  BY <1>1, <1>2, <1>3 DEF OnlyStormLatches

LEMMA IdsInvStep == IdsInv /\ [IdsNext]_idsVars => IdsInv'
<1> SUFFICES ASSUME IdsInv, [IdsNext]_idsVars PROVE IdsInv'
  OBVIOUS
<1>1. ASSUME NEW m \in Samples, NEW dt \in Gaps, IdsWindow(m, dt) PROVE IdsInv'
  <2>1. prevTotal' \in Nat /\ CollapseIsOver' /\ RfSuspNext(m) < RfWindows
    BY <1>1, WindowCollapse DEF IdsInv
  <2>2. RfSuspNext(m) \in Nat
    BY <1>1, <2>1, WindowIs DEF CollapseIsOver, EngineStep
  <2>3. QED
    BY <1>1, <2>1, <2>2, WindowStorm DEF IdsInv
<1>2. CASE UNCHANGED idsVars
  BY <1>2 DEF IdsInv, CollapseIsOver, OnlyStormLatches, idsVars, stage1Vars
<1>3. QED
  BY <1>1, <1>2 DEF IdsNext

\* A CRITICAL without a Stage 1 alert comes from the storm rule alone: no other
\* rule can leave the monitor throttling for an attack it no longer names.
THEOREM CriticalWithoutAlertIsStorm == IdsSpec => []OnlyStormLatches
<1>1. IdsInv => OnlyStormLatches
  BY DEF IdsInv
<1>2. QED
  BY <1>1, IdsInvInit, IdsInvStep, PTL DEF IdsSpec

-----------------------------------------------------------------------------
(* The ring.  The slot k entries back from the head.                       *)
Back(h, k) == (h - k + OnSlots) % OnSlots

LEMMA ModuloSmall ==
  ASSUME NEW n \in Nat, n > 0, NEW x \in Int, 0 <= x, x < 2 * n
  PROVE  x % n = IF x < n THEN x ELSE x - n
OBVIOUS

LEMMA BackIs ==
  ASSUME NEW h \in 0..(OnSlots - 1), NEW k \in 1..OnSlots
  PROVE  /\ Back(h, k) = IF k <= h THEN h - k ELSE h - k + OnSlots
         /\ Back(h, k) \in 0..(OnSlots - 1)
<1>1. OnSlots \in Nat /\ OnSlots > 0
  BY IdsConstants
<1> DEFINE x == h - k + OnSlots
<1>2. x \in Int /\ 0 <= x /\ x < 2 * OnSlots
  BY <1>1
<1>3. Back(h, k) = IF x < OnSlots THEN x ELSE x - OnSlots
  <2> HIDE DEF x
  <2>1. x % OnSlots = IF x < OnSlots THEN x ELSE x - OnSlots
    BY <1>1, <1>2, ModuloSmall
  <2> QED  BY <2>1 DEF Back, x
<1> QED  BY <1>1, <1>3

\* As many slots as entries: going back no further than the ring is long, no
\* slot is met twice.
LEMMA SlotsCounted ==
  ASSUME NEW h \in 0..(OnSlots - 1), NEW c \in 0..OnSlots
  PROVE  Cardinality({Back(h, k) : k \in 1..c}) = c
<1> DEFINE S == {Back(h, k) : k \in 1..c}
           f == [k \in 1..c |-> Back(h, k)]
<1>0. OnSlots \in Nat
  BY IdsConstants
<1>1. IsFiniteSet(1..c) /\ Cardinality(1..c) = c
  BY <1>0, FS_Interval
<1>2. ASSUME NEW k \in 1..c, NEW l \in 1..c, Back(h, k) = Back(h, l) PROVE k = l
  <2>1. k \in 1..OnSlots /\ l \in 1..OnSlots
    BY <1>0
  <2>2. /\ Back(h, k) = IF k <= h THEN h - k ELSE h - k + OnSlots
        /\ Back(h, l) = IF l <= h THEN h - l ELSE h - l + OnSlots
    BY <2>1, BackIs
  <2>3. (IF k <= h THEN h - k ELSE h - k + OnSlots) = (IF l <= h THEN h - l ELSE h - l + OnSlots)
    BY <1>2, <2>2
  <2> QED  BY <1>0, <2>1, <2>3
<1>3. f \in Bijection(1..c, S)
  BY <1>2 DEF Bijection, Injection, Surjection, IsInjective
<1>4. ExistsBijection(1..c, S)
  BY <1>3 DEF ExistsBijection
<1> HIDE DEF S
<1>5. Cardinality(S) = Cardinality(1..c)
  BY <1>1, <1>4, FS_Bijection
<1> QED  BY <1>1, <1>5 DEF S

\* In an ascending sequence the elements up to a bound are the first so many.
LEMMA PrefixCounted ==
  ASSUME NEW q \in Seq(Nat), \A i, j \in 1..Len(q) : i < j => q[i] < q[j],
         NEW s \in Nat, NEW n, n = Cardinality({i \in DOMAIN q : q[i] <= s})
  PROVE  n \in 0..Len(q) /\ \A i \in 1..Len(q) : q[i] <= s <=> i <= n
<1> DEFINE size == Len(q)
           B == {l \in 0..size : \A i \in 1..size : i > l => q[i] > s}
           p == Min(B)
<1>1. size \in Nat /\ DOMAIN q = 1..size /\ \A i \in 1..size : q[i] \in Nat
  OBVIOUS
<1> HIDE DEF size
<1>2. size \in B /\ B \subseteq Nat
  BY <1>1
<1>3. p \in B /\ \A l \in B : p <= l
  BY <1>2, MinOfNaturals
<1> HIDE DEF p
<1>4. ASSUME NEW i \in 1..size, i <= p PROVE q[i] <= s
  <2> SUFFICES ASSUME q[i] > s PROVE FALSE
    BY <1>1
  <2>1. \A j \in 1..size : j > i - 1 => q[j] > s
    BY <1>1 DEF size
  <2>2. i - 1 \in B
    BY <1>1, <2>1
  <2> QED  BY <1>1, <1>3, <1>4, <2>2
<1>5. \A i \in 1..size : q[i] <= s <=> i <= p
  BY <1>1, <1>3, <1>4
<1>6. {i \in DOMAIN q : q[i] <= s} = 1..p
  BY <1>1, <1>3, <1>5
<1>7. p \in 0..size /\ Cardinality(1..p) = p
  BY <1>1, <1>3, FS_Interval
<1> QED  BY <1>5, <1>6, <1>7 DEF size

(* The transitions.  They are kept newest first, and no two are of one age. *)
NewestFirst ==
  /\ ons \in Seq(0..Span)
  /\ \A i, j \in 1..Len(ons) : i < j => ons[i] < ons[j]

\* The transitions of the last Span ticks before the old ones are dropped.
AllOns(m, dt) ==
  LET older == [i \in DOMAIN ons |-> ons[i] + dt]
  IN IF Transition(m) THEN <<0>> \o older ELSE older

Capped(age) == IF age > Span THEN Span + 1 ELSE age

LEMMA AllOnsIs ==
  ASSUME NewestFirst, NEW m \in Samples, NEW dt \in Gaps
  PROVE  /\ AllOns(m, dt) \in Seq(Nat)
         /\ Len(AllOns(m, dt)) = IF Transition(m) THEN Len(ons) + 1 ELSE Len(ons)
         /\ \A k \in 1..Len(AllOns(m, dt)) :
              AllOns(m, dt)[k] = IF ~Transition(m) THEN ons[k] + dt
                                 ELSE IF k = 1 THEN 0 ELSE ons[k - 1] + dt
<1> DEFINE older == [i \in DOMAIN ons |-> ons[i] + dt]
           new == <<0>>
           size == Len(ons)
<1>1. dt \in Nat /\ dt > 0 /\ Span \in Nat
  BY IdsConstants
<1>2. size \in Nat /\ DOMAIN ons = 1..size /\ \A i \in 1..size : ons[i] \in Nat
  BY <1>1 DEF NewestFirst
<1>3. older \in Seq(Nat) /\ Len(older) = size /\ \A i \in 1..size : older[i] = ons[i] + dt
  BY <1>1, <1>2
<1>4. new \in Seq(Nat) /\ Len(new) = 1 /\ new[1] = 0
  OBVIOUS
<1>5. AllOns(m, dt) = IF Transition(m) THEN new \o older ELSE older
  BY DEF AllOns
<1> HIDE DEF older, new, size
<1> DEFINE both == new \o older
<1>6. /\ both \in Seq(Nat) /\ Len(both) = Len(new) + Len(older)
      /\ \A i \in 1..(Len(new) + Len(older)) :
           both[i] = IF i <= Len(new) THEN new[i] ELSE older[i - Len(new)]
  BY <1>3, <1>4, ConcatProperties, Zenon
<1>7. both \in Seq(Nat) /\ Len(both) = size + 1
  BY <1>2, <1>3, <1>4, <1>6
<1>8. \A k \in 1..(size + 1) : both[k] = IF k = 1 THEN 0 ELSE ons[k - 1] + dt
  <2> TAKE k \in 1..(size + 1)
  <2>1. both[k] = IF k <= 1 THEN new[k] ELSE older[k - 1]
    BY <1>2, <1>3, <1>4, <1>6
  <2>2. k # 1 => k - 1 \in 1..size
    BY <1>2
  <2> QED  BY <1>2, <1>3, <1>4, <2>1, <2>2
<1> HIDE DEF both
<1> QED  BY <1>3, <1>5, <1>7, <1>8 DEF both, size

\* Whether or not the window brings a transition, the entries still counted
\* are, back from the head, the ages of the transitions, newest first.
LEMMA RingMeets ==
  ASSUME IdsTypeOK, NewestFirst, BurstRingExact, NEW m \in Samples, NEW dt \in Gaps,
         NEW all, all = AllOns(m, dt)
  PROVE  /\ CountedOns(m) = IF Len(all) < OnSlots THEN Len(all) ELSE OnSlots
         /\ \A k \in 1..CountedOns(m) :
              OnAgeNext(m, dt)[Back(OnHeadNext(m), k)] = Capped(all[k])
<1> DEFINE size == Len(ons)
           ages == OnAgeNext(m, dt)
           head == OnHeadNext(m)
<1>1. /\ OnSlots \in Nat /\ OnSlots > 0 /\ Span \in Nat /\ dt \in Nat /\ dt > 0
      /\ size \in Nat /\ onHead \in 0..(OnSlots - 1) /\ onCount \in 0..OnSlots
  BY IdsConstants DEF NewestFirst, IdsTypeOK
<1>2. onCount = IF size < OnSlots THEN size ELSE OnSlots
  BY DEF BurstRingExact
<1>3. \A k \in 1..onCount : onAge[Back(onHead, k)] = ons[k] /\ k \in 1..size /\ ons[k] \in Nat
  BY <1>1, <1>2 DEF BurstRingExact, Back, NewestFirst
<1>4. \A i \in 0..(OnSlots - 1) :
        ages[i] = IF Transition(m) /\ i = onHead THEN 0 ELSE Capped(onAge[i] + dt)
  BY DEF OnAgeNext, Capped
<1>5. CASE ~Transition(m)
  <2>1. CountedOns(m) = onCount /\ head = onHead
    BY <1>5 DEF CountedOns, OnHeadNext
  <2>2. Len(all) = size /\ \A k \in 1..size : all[k] = ons[k] + dt
    BY <1>5, AllOnsIs
  <2>3. ASSUME NEW k \in 1..onCount PROVE ages[Back(onHead, k)] = Capped(all[k])
    <3>1. Back(onHead, k) \in 0..(OnSlots - 1)
      BY <1>1, BackIs
    <3>2. onAge[Back(onHead, k)] = ons[k] /\ all[k] = ons[k] + dt
      BY <1>3, <2>2
    <3> HIDE DEF ages
    <3> QED  BY <1>4, <1>5, <3>1, <3>2
  <2> QED  BY <1>2, <2>1, <2>2, <2>3
<1>6. CASE Transition(m)
  <2>1. /\ CountedOns(m) = IF onCount < OnSlots THEN onCount + 1 ELSE onCount
        /\ head = (onHead + 1) % OnSlots
    BY <1>6 DEF CountedOns, OnHeadNext
  <2>2. head = IF onHead + 1 < OnSlots THEN onHead + 1 ELSE 0
    <3>1. onHead + 1 \in Int /\ 0 <= onHead + 1 /\ onHead + 1 < 2 * OnSlots
      BY <1>1
    <3>2. (onHead + 1) % OnSlots = IF onHead + 1 < OnSlots THEN onHead + 1
                                   ELSE onHead + 1 - OnSlots
      BY <1>1, <3>1, ModuloSmall
    <3> QED  BY <1>1, <2>1, <3>2
  <2>3. /\ Len(all) = size + 1
        /\ \A k \in 1..(size + 1) : all[k] = IF k = 1 THEN 0 ELSE ons[k - 1] + dt
    BY <1>6, AllOnsIs
  <2>4. head \in 0..(OnSlots - 1)
    BY <1>1, <2>2
  <2> HIDE DEF head, ages
  <2>5. CountedOns(m) = IF Len(all) < OnSlots THEN Len(all) ELSE OnSlots
    BY <1>1, <1>2, <2>1, <2>3
  <2>6. ASSUME NEW k \in 1..CountedOns(m) PROVE ages[Back(head, k)] = Capped(all[k])
    <3>1. k \in 1..OnSlots /\ k \in 1..(size + 1)
      BY <1>1, <1>2, <2>1
    <3>2. Back(head, k) = IF k <= head THEN head - k ELSE head - k + OnSlots
      BY <2>4, <3>1, BackIs
    <3>3. CASE k = 1
      <4>1. Back(head, k) = onHead
        BY <1>1, <2>2, <3>2, <3>3
      <4>2. ages[onHead] = 0
        BY <1>1, <1>4, <1>6
      <4>3. all[k] = 0
        BY <1>1, <2>3, <3>1, <3>3
      <4> QED  BY <1>1, <4>1, <4>2, <4>3 DEF Capped
    <3>4. CASE k # 1
      <4>1. k - 1 \in 1..onCount /\ k - 1 \in 1..OnSlots
        BY <1>1, <1>2, <2>1, <3>1, <3>4
      <4>2. Back(onHead, k - 1) = IF k - 1 <= onHead THEN onHead - (k - 1)
                                  ELSE onHead - (k - 1) + OnSlots
        BY <1>1, <4>1, BackIs
      <4>3. /\ Back(head, k) = Back(onHead, k - 1) /\ Back(head, k) # onHead
            /\ Back(head, k) \in 0..(OnSlots - 1)
        BY <1>1, <2>2, <3>1, <3>2, <3>4, <4>2
      <4>4. onAge[Back(head, k)] = ons[k - 1]
        BY <1>3, <4>1, <4>3
      <4>5. ages[Back(head, k)] = Capped(onAge[Back(head, k)] + dt)
        BY <1>4, <4>3
      <4>6. all[k] = ons[k - 1] + dt
        BY <2>3, <3>1, <3>4
      <4> QED  BY <4>4, <4>5, <4>6
    <3> QED  BY <3>3, <3>4
  <2> QED  BY <2>5, <2>6 DEF head, ages
<1> QED  BY <1>5, <1>6

\* So the scan finds the transitions of the last Span ticks, up to OnSlots.
LEMMA RingStep ==
  ASSUME IdsTypeOK, NewestFirst, BurstRingExact, NEW m \in Samples, NEW dt \in Gaps,
         ObserveWindow(m, dt)
  PROVE  NewestFirst' /\ BurstRingExact'
<1> DEFINE all == AllOns(m, dt)
           n == Cardinality({i \in DOMAIN all : all[i] <= Span})
           head == OnHeadNext(m)
           ages == OnAgeNext(m, dt)
           counted == CountedOns(m)
           scan == IF n < counted THEN n ELSE counted
<1>1. OnSlots \in Nat /\ OnSlots > 0 /\ Span \in Nat /\ dt \in Nat /\ dt > 0
  BY IdsConstants
<1>2. /\ onHead' = head /\ onAge' = ages /\ onCount' = Cardinality(ValidSlots(m, dt))
      /\ ons' = SubSeq(all, 1, n)
  BY WindowIs DEF ObserveWindow, EngineStep, OnsNext, AllOns
<1>3. /\ all \in Seq(Nat)
      /\ Len(all) = IF Transition(m) THEN Len(ons) + 1 ELSE Len(ons)
      /\ \A k \in 1..Len(all) : all[k] = IF ~Transition(m) THEN ons[k] + dt
                                         ELSE IF k = 1 THEN 0 ELSE ons[k - 1] + dt
  BY AllOnsIs
<1>4. /\ counted = IF Len(all) < OnSlots THEN Len(all) ELSE OnSlots
      /\ \A k \in 1..counted : ages[Back(head, k)] = Capped(all[k])
  BY RingMeets
<1>5. head \in 0..(OnSlots - 1)
  BY OnHeadType
<1>6. ValidSlots(m, dt) =
        {i \in {(head - 1 - k + OnSlots) % OnSlots : k \in 0..(counted - 1)} : ages[i] <= Span}
  BY DEF ValidSlots
<1> HIDE DEF all, head, ages, counted
<1>7. Len(all) \in Nat /\ Len(ons) \in Nat /\ \A k \in 1..Len(all) : all[k] \in Nat
  BY <1>3 DEF NewestFirst
<1>8. \A i, j \in 1..Len(all) : i < j => all[i] < all[j]
  <2>1. \A i \in 1..Len(ons) : ons[i] \in Nat
    BY <1>1 DEF NewestFirst
  <2>2. \A i, j \in 1..Len(ons) : i < j => ons[i] < ons[j]
    BY DEF NewestFirst
  <2> TAKE i, j \in 1..Len(all)
  <2>3. CASE ~Transition(m)
    BY <1>1, <1>3, <2>1, <2>2, <2>3
  <2>4. CASE Transition(m)
    <3>1. /\ all[i] = IF i = 1 THEN 0 ELSE ons[i - 1] + dt
          /\ all[j] = IF j = 1 THEN 0 ELSE ons[j - 1] + dt
      BY <1>3, <2>4
    <3>2. i # 1 => i - 1 \in 1..Len(ons)
      BY <1>3, <1>7, <2>4
    <3>3. j # 1 => j - 1 \in 1..Len(ons)
      BY <1>3, <1>7, <2>4
    <3>4. ASSUME i < j, i # 1 PROVE ons[i - 1] < ons[j - 1]
      BY <1>7, <2>2, <3>2, <3>3, <3>4
    <3> SUFFICES ASSUME i < j PROVE all[i] < all[j]
      OBVIOUS
    <3>5. j # 1 /\ ons[j - 1] \in Nat
      BY <1>7, <2>1, <3>3
    <3>6. CASE i = 1
      BY <1>1, <3>1, <3>5, <3>6
    <3>7. CASE i # 1
      <4>1. ons[i - 1] \in Nat /\ ons[i - 1] < ons[j - 1]
        BY <2>1, <3>2, <3>4, <3>7
      <4> QED  BY <1>1, <3>1, <3>5, <3>7, <4>1
    <3> QED  BY <3>6, <3>7
  <2> QED  BY <2>3, <2>4
<1>9. n \in 0..Len(all) /\ \A i \in 1..Len(all) : all[i] <= Span <=> i <= n
  BY <1>1, <1>3, <1>8, PrefixCounted
<1> HIDE DEF n
<1>10. /\ ons' \in Seq(0..Span) /\ Len(ons') = n
       /\ \A i \in 1..n : ons'[i] = all[i]
  <2>1. \A i \in 1..n : all[i] \in 0..Span
    BY <1>1, <1>7, <1>9
  <2>2. n \in Int /\ 1 \in Int /\ n - 1 + 1 = n /\ n >= 0
    BY <1>7, <1>9
  <2>3. /\ SubSeq(all, 1, n) \in Seq(0..Span)
        /\ Len(SubSeq(all, 1, n)) = IF 1 <= n THEN n - 1 + 1 ELSE 0
        /\ \A i \in 1..(n - 1 + 1) : SubSeq(all, 1, n)[i] = all[1 + i - 1]
    <3> DEFINE R == 0..Span
    <3>1. \A i \in 1..n : all[i] \in R
      BY <2>1
    <3> HIDE DEF R
    <3>2. /\ SubSeq(all, 1, n) \in Seq(R)
          /\ Len(SubSeq(all, 1, n)) = IF 1 <= n THEN n - 1 + 1 ELSE 0
          /\ \A i \in 1..(n - 1 + 1) : SubSeq(all, 1, n)[i] = all[1 + i - 1]
      BY <2>2, <3>1, SubSeqProperties
    <3> QED  BY <3>2 DEF R
  <2>4. \A i \in 1..n : 1 + i - 1 = i
    BY <2>2
  <2> QED  BY <1>2, <2>2, <2>3, <2>4
<1>11. NewestFirst'
  BY <1>7, <1>8, <1>9, <1>10 DEF NewestFirst
<1>12. counted \in 0..OnSlots /\ counted <= Len(all)
  BY <1>1, <1>4, <1>7
<1>13. ValidSlots(m, dt) = {Back(head, k) : k \in 1..scan}
  <2>1. {(head - 1 - k + OnSlots) % OnSlots : k \in 0..(counted - 1)}
          = {Back(head, k) : k \in 1..counted}
    <3>1. ASSUME NEW k \in 0..(counted - 1)
          PROVE  k + 1 \in 1..counted /\ (head - 1 - k + OnSlots) % OnSlots = Back(head, k + 1)
      <4>1. head - 1 - k + OnSlots = head - (k + 1) + OnSlots
        BY <1>1, <1>5, <1>12
      <4> QED  BY <1>12, <4>1 DEF Back
    <3>2. ASSUME NEW k \in 1..counted
          PROVE  k - 1 \in 0..(counted - 1)
                 /\ (head - 1 - (k - 1) + OnSlots) % OnSlots = Back(head, k)
      <4>1. head - 1 - (k - 1) + OnSlots = head - k + OnSlots
        BY <1>1, <1>5, <1>12
      <4> QED  BY <1>12, <4>1 DEF Back
    <3> QED  BY <3>1, <3>2
  <2>2. \A k \in 1..counted : ages[Back(head, k)] <= Span <=> k <= n
    BY <1>1, <1>4, <1>7, <1>9, <1>12 DEF Capped
  <2>3. 1..scan = {k \in 1..counted : k <= n}
    <3>1. scan \in Nat /\ counted \in Nat /\ n \in Nat
      BY <1>1, <1>7, <1>9, <1>12
    <3>2. CASE n < counted
      BY <3>1, <3>2
    <3>3. CASE ~(n < counted)
      BY <3>1, <3>3
    <3> QED  BY <3>2, <3>3
  <2> QED  BY <1>6, <2>1, <2>2, <2>3
<1>14. onCount' = scan /\ scan \in 0..OnSlots
  <2>1. scan \in 0..OnSlots
    BY <1>1, <1>7, <1>9, <1>12
  <2> HIDE DEF scan
  <2> QED  BY <1>2, <1>5, <1>13, <2>1, SlotsCounted
<1>15. onCount' = IF Len(ons') < OnSlots THEN Len(ons') ELSE OnSlots
  BY <1>1, <1>4, <1>7, <1>9, <1>10, <1>12, <1>14
<1>16. ASSUME NEW k \in 1..onCount' PROVE onAge'[Back(onHead', k)] = ons'[k]
  <2>1. k \in 1..counted /\ k \in 1..n /\ k \in 1..Len(all)
    BY <1>7, <1>9, <1>12, <1>14
  <2>2. all[k] <= Span /\ all[k] \in Nat
    BY <1>7, <1>9, <2>1
  <2> QED  BY <1>1, <1>2, <1>4, <1>10, <2>1, <2>2 DEF Capped
<1> QED  BY <1>11, <1>15, <1>16 DEF BurstRingExact, Back

-----------------------------------------------------------------------------
(* Saturation.  The direction that saturates now, and since when.          *)
SaturationHeld ==
  /\ ulHeld \in None..Confirm /\ dlHeld \in None..Confirm
  /\ ulSat > 0 => ulHeld >= 0
  /\ dlSat > 0 => dlHeld >= 0
  /\ ulSat = 0 \/ dlSat = 0

(* A start time is kept, and the recovery timer stopped, only while the    *)
(* direction it was taken for has held without a break.                    *)
TimerFromHeld ==
  satFor # None /\ recFor = None =>
    \/ ulSat >= UlWindows /\ ulHeld >= satFor
    \/ dlSat >= DlWindows /\ dlHeld >= satFor

LEMMA HeldIs ==
  ASSUME NEW holds, NEW held \in None..Confirm, NEW dt \in Gaps
  PROVE  /\ Held(holds, held, dt) \in None..Confirm
         /\ holds => Held(holds, held, dt) >= 0
         /\ holds /\ held >= 0 =>
              Held(holds, held, dt) = IF held + dt < Confirm THEN held + dt ELSE Confirm
<1>1. Confirm \in Nat /\ dt \in Nat
  BY IdsConstants
<1> QED  BY <1>1 DEF Held, None

\* One direction at a time, its counter and its history in step.
LEMMA HeldStep ==
  ASSUME IdsTypeOK, SaturationHeld, NEW m \in Samples, NEW dt \in Gaps, ObserveWindow(m, dt)
  PROVE  /\ SaturationHeld'
         /\ ulSat' >= UlWindows => UlSaturated(m) /\ ulSat > 0 /\ dlSat' = 0
         /\ dlSat' >= DlWindows => DlSaturated(m) /\ dlSat > 0 /\ ulSat' = 0
<1>1. m.ul \in Int /\ m.dl \in Int
  BY IdsSampleAssumption
<1>2. /\ ulSat' = InARow(UlSaturated(m), ulSat, UlWindows)
      /\ dlSat' = InARow(DlSaturated(m), dlSat, DlWindows)
      /\ ulHeld' = Held(UlSaturated(m), ulHeld, dt)
      /\ dlHeld' = Held(DlSaturated(m), dlHeld, dt)
  BY WindowIs DEF ObserveWindow, EngineStep, UlSatNext, DlSatNext
<1>3. ~(UlSaturated(m) /\ DlSaturated(m))
  BY <1>1 DEF UlSaturated, DlSaturated
<1>4. /\ ~UlSaturated(m) => ulSat' = 0
      /\ ~DlSaturated(m) => dlSat' = 0
      /\ ulSat' >= UlWindows => UlSaturated(m) /\ ulSat > 0
      /\ dlSat' >= DlWindows => DlSaturated(m) /\ dlSat > 0
  BY <1>2 DEF InARow, IdsTypeOK, UlWindows, DlWindows
<1>5. ulHeld' \in None..Confirm /\ dlHeld' \in None..Confirm
      /\ (UlSaturated(m) => ulHeld' >= 0) /\ (DlSaturated(m) => dlHeld' >= 0)
  BY <1>2, HeldIs DEF SaturationHeld
<1> QED  BY <1>3, <1>4, <1>5 DEF SaturationHeld

\* A window whose alert is saturation has saturated for at least as long as the
\* duration it is measured by.
LEMMA DurationHeld ==
  ASSUME IdsTypeOK, SaturationHeld, TimerFromHeld, NEW m \in Samples, NEW dt \in Gaps,
         ObserveWindow(m, dt)
  PROVE  /\ SatDur(dt) \in 0..Confirm
         /\ ulSat' >= UlWindows => ulHeld' >= SatDur(dt)
         /\ dlSat' >= DlWindows => dlHeld' >= SatDur(dt)
<1>1. Confirm \in Nat /\ dt \in Nat /\ dt > 0 /\ satFor \in -1..Confirm
  BY IdsConstants DEF IdsTypeOK, None
<1>2. /\ ulHeld' = Held(UlSaturated(m), ulHeld, dt) /\ ulHeld \in None..Confirm
      /\ dlHeld' = Held(DlSaturated(m), dlHeld, dt) /\ dlHeld \in None..Confirm
  BY DEF ObserveWindow, SaturationHeld
<1>3. SatDur(dt) \in 0..Confirm
  BY <1>1 DEF SatDur, SatAge, None
<1>4. CASE satFor = None \/ recFor # None
  <2>1. SatDur(dt) = 0
    BY <1>4 DEF SatDur
  <2>2. /\ ulSat' >= UlWindows => UlSaturated(m)
        /\ dlSat' >= DlWindows => DlSaturated(m)
    BY HeldStep
  <2> QED  BY <1>2, <1>3, <2>1, <2>2, HeldIs
<1>5. CASE satFor # None /\ recFor = None
  <2>1. SatDur(dt) = IF satFor + dt > Confirm THEN Confirm ELSE satFor + dt
    BY <1>5 DEF SatDur, SatAge
  <2>2. \/ ulSat >= UlWindows /\ ulHeld >= satFor
        \/ dlSat >= DlWindows /\ dlHeld >= satFor
    BY <1>5 DEF TimerFromHeld
  <2>3. ASSUME ulSat' >= UlWindows PROVE ulHeld' >= SatDur(dt)
    <3>1. UlSaturated(m) /\ ulSat > 0
      BY <2>3, HeldStep
    <3>2. ulHeld >= satFor /\ ulHeld >= 0
      BY <2>2, <3>1 DEF SaturationHeld, IdsTypeOK, DlWindows
    <3>3. ulHeld' = IF ulHeld + dt < Confirm THEN ulHeld + dt ELSE Confirm
      BY <1>2, <3>1, <3>2, HeldIs
    <3> QED  BY <1>1, <1>2, <2>1, <3>2, <3>3 DEF None
  <2>4. ASSUME dlSat' >= DlWindows PROVE dlHeld' >= SatDur(dt)
    <3>1. DlSaturated(m) /\ dlSat > 0
      BY <2>4, HeldStep
    <3>2. dlHeld >= satFor /\ dlHeld >= 0
      BY <2>2, <3>1 DEF SaturationHeld, IdsTypeOK, UlWindows
    <3>3. dlHeld' = IF dlHeld + dt < Confirm THEN dlHeld + dt ELSE Confirm
      BY <1>2, <3>1, <3>2, HeldIs
    <3> QED  BY <1>1, <1>2, <2>1, <3>2, <3>3 DEF None
  <2> QED  BY <1>3, <2>3, <2>4
<1> QED  BY <1>4, <1>5

LEMMA SaturationStep ==
  ASSUME IdsTypeOK, SaturationHeld, TimerFromHeld, NEW m \in Samples, NEW dt \in Gaps,
         RfSuspNext(m) < RfWindows, RfSuspNext(m) \in Nat, ObserveWindow(m, dt)
  PROVE  SaturationHeld' /\ TimerFromHeld' /\ SaturationSustained'
<1> DEFINE valid == ValidSlots(m, dt)
           active == ActiveForNext(valid, m, dt)
           alert == AlertOf(m, active)
           critical == Critical(alert, valid, active, m, dt)
           dur == SatDur(dt)
<1>1. /\ Saturation(alert, dt) /\ Report(alert, critical)
      /\ ulSat' = UlSatNext(m) /\ dlSat' = DlSatNext(m) /\ bursts' = BurstsNext(m)
      /\ activeFor' = active /\ onCount' = Cardinality(valid)
      /\ ulBuf' = Roll(ulBuf, m.ul, VarRolling) /\ dlBuf' = Roll(dlBuf, m.dl, VarRolling)
  BY WindowIs DEF ObserveWindow, EngineStep
<1>2. /\ alert = "ul_saturation" => ulSat' >= UlWindows
      /\ alert = "dl_saturation" => dlSat' >= DlWindows
  BY <1>1 DEF AlertOf
<1>3. /\ alert = "ul_saturation" => ulHeld' >= dur
      /\ alert = "dl_saturation" => dlHeld' >= dur
      /\ dur \in 0..Confirm
  BY <1>2, DurationHeld
<1>4. lastDetection'.alert = alert /\ (lastDetection'.severity = 2 <=> critical)
  BY <1>1 DEF Report
<1>5. Confirm \in Nat /\ FastPath \in Nat /\ FastPath <= Confirm
      /\ ulHeld' \in None..Confirm /\ dlHeld' \in None..Confirm
  BY IdsConstants, HeldStep DEF SaturationHeld
<1> HIDE DEF alert, critical, dur
<1>6. TimerFromHeld'
  <2> SUFFICES ASSUME satFor' # None, recFor' = None
               PROVE  \/ ulSat' >= UlWindows /\ ulHeld' >= satFor'
                      \/ dlSat' >= DlWindows /\ dlHeld' >= satFor'
    BY DEF TimerFromHeld
  <2>1. CASE SatActive(alert)
    <3>1. satFor' = dur
      BY <1>1, <2>1 DEF Saturation, dur
    <3> QED  BY <1>2, <1>3, <2>1, <3>1 DEF SatActive
  <2>2. CASE ~SatActive(alert)
    <3>1. CASE satFor # None
      <4>0. Recovery \in Nat /\ recFor \in -1..Recovery /\ dt \in Nat
        BY IdsConstants DEF IdsTypeOK, None
      <4>1. RecDur(dt) # None
        BY <4>0 DEF RecDur, None
      <4> QED  BY <1>1, <2>2, <3>1, <4>1 DEF Saturation
    <3>2. CASE satFor = None
      BY <1>1, <2>2, <3>2 DEF Saturation
    <3> QED  BY <3>1, <3>2
  <2> QED  BY <2>1, <2>2
<1>7. SaturationSustained'
  <2> SUFFICES ASSUME critical, ~(bursts' >= StormBursts),
                      ~(activeFor' # None /\ onCount' >= OnThreshold)
               PROVE  \/ /\ alert = "ul_saturation"
                         /\ ulHeld' >= (IF Flat(ulBuf') THEN FastPath ELSE Confirm)
                      \/ /\ alert = "dl_saturation"
                         /\ dlHeld' >= (IF Flat(dlBuf') THEN FastPath ELSE Confirm)
    BY <1>4 DEF SaturationSustained, StormConfirmed, CyclesConfirmed, Flat
  <2>1. SatConfirmed(alert, m, dt)
    <3>1. ~(RfSuspNext(m) >= RfConfirmWin)
      BY DEF RfConfirmWin, RfWindows
    <3>2. ~BurstConfirmed(valid, active)
      BY <1>1 DEF BurstConfirmed
    <3> QED  BY <1>1, <3>1, <3>2 DEF Critical, critical
  <2>2. /\ SatActive(alert)
        /\ \/ dur >= Confirm
           \/ dur >= FastPath /\ FlatLine(alert, m)
    BY <2>1 DEF SatConfirmed, dur
  <2>3. CASE alert = "ul_saturation"
    <3>1. ulHeld' >= dur /\ (FlatLine(alert, m) => Flat(ulBuf'))
      BY <1>1, <1>3, <2>3 DEF FlatLine
    <3> QED  BY <1>3, <1>5, <2>2, <2>3, <3>1 DEF None
  <2>4. CASE alert = "dl_saturation"
    <3>1. dlHeld' >= dur /\ (FlatLine(alert, m) => Flat(dlBuf'))
      BY <1>1, <1>3, <2>4 DEF FlatLine
    <3> QED  BY <1>3, <1>5, <2>2, <2>4, <3>1 DEF None
  <2> QED  BY <2>2, <2>3, <2>4 DEF SatActive
<1> QED  BY <1>6, <1>7, HeldStep

-----------------------------------------------------------------------------
(* Quiet.  Every transition that counts is at least as old as the quiet,   *)
(* so the hold it granted runs out with it.                                *)
QuietAges ==
  /\ quietFor \in 0..(Hold + 1)
  /\ \A i \in 0..(OnSlots - 1) : onAge[i] <= Span => quietFor <= onAge[i]
  /\ activeFor # None => activeFor + quietFor <= Hold

LEMMA QuietAgesStep ==
  ASSUME IdsTypeOK, QuietAges, NEW m \in Samples, NEW dt \in Gaps, ObserveWindow(m, dt)
  PROVE  QuietAges'
<1>0. m.ul \in Int
  BY IdsSampleAssumption
<1>1. /\ OnSlots \in Nat /\ Span \in Nat /\ Hold \in Nat /\ dt \in Nat /\ dt > 0
      /\ activeFor \in -1..Hold /\ quietFor \in 0..(Hold + 1)
  BY IdsConstants DEF IdsTypeOK, QuietAges, None
<1> DEFINE valid == ValidSlots(m, dt)
           ages == OnAgeNext(m, dt)
           S == {ages[i] : i \in valid}
<1>2. /\ onAge' = ages /\ activeFor' = ActiveForNext(valid, m, dt)
      /\ quietFor' = IF ~QuietSample(m) THEN 0
                     ELSE IF quietFor + dt > Hold THEN Hold + 1 ELSE quietFor + dt
  BY WindowIs DEF ObserveWindow, EngineStep
<1>3. quietFor' \in 0..(Hold + 1) /\ quietFor' <= quietFor + dt
      /\ (Transition(m) => quietFor' = 0)
  BY <1>0, <1>1, <1>2 DEF QuietSample, Transition, BurstOn
<1>4. ASSUME NEW i \in 0..(OnSlots - 1), ages[i] <= Span PROVE quietFor' <= ages[i]
  <2>0. onAge[i] \in 0..(Span + 1)
    BY DEF IdsTypeOK
  <2>1. onAge[i] \in Nat /\ (onAge[i] <= Span => quietFor <= onAge[i])
    BY <1>1, <2>0 DEF QuietAges
  <2>2. ages[i] = IF Transition(m) /\ i = onHead THEN 0
                  ELSE IF onAge[i] + dt > Span THEN Span + 1 ELSE onAge[i] + dt
    BY DEF OnAgeNext
  <2> HIDE DEF ages
  <2>3. CASE Transition(m) /\ i = onHead
    BY <1>3, <2>2, <2>3
  <2>4. CASE ~(Transition(m) /\ i = onHead)
    <3>1. onAge[i] + dt <= Span /\ ages[i] = onAge[i] + dt
      BY <1>1, <1>4, <2>1, <2>2, <2>4
    <3> QED  BY <1>1, <1>3, <2>1, <3>1
  <2> QED  BY <2>3, <2>4
<1>5. valid \subseteq 0..(OnSlots - 1) /\ \A i \in valid : ages[i] <= Span
  BY ValidSlotsType DEF ValidSlots
<1>6. \A i \in 0..(OnSlots - 1) : ages[i] \in Nat
  BY OnAgeType, <1>1
<1>7. ASSUME Cardinality(valid) >= 2 PROVE Min(S) \in Nat /\ quietFor' <= Min(S)
  <2>1. valid # {}
    BY <1>7, FS_EmptySet
  <2> HIDE DEF valid, ages
  <2>2. S # {} /\ S \subseteq Nat /\ \A s \in S : quietFor' <= s
    BY <1>4, <1>5, <1>6, <2>1
  <2> HIDE DEF S
  <2> QED  BY <2>2, MinOfNaturals
<1> DEFINE left == IF activeFor < dt THEN None ELSE activeFor - dt
           again == IF Cardinality(valid) >= 2 THEN Hold - Min(S) ELSE None
<1>8. activeFor' = IF left >= again THEN left ELSE again
  BY <1>2 DEF ActiveForNext
<1>9. left # None => left + quietFor' <= Hold
  <2>1. CASE activeFor < dt
    BY <2>1
  <2>2. CASE ~(activeFor < dt)
    <3>1. left = activeFor - dt /\ activeFor # None
      BY <1>1, <2>2 DEF None
    <3>2. activeFor + quietFor <= Hold
      BY <3>1 DEF QuietAges
    <3> HIDE DEF left
    <3>3. /\ left \in Int /\ quietFor' \in Int /\ quietFor \in Int /\ activeFor \in Int
          /\ dt \in Int /\ Hold \in Int /\ quietFor' <= quietFor + dt
      BY <1>1, <1>3, <3>1
    <3>4. \A q, p, a, d, h \in Int : q <= p + d /\ a + p <= h => (a - d) + q <= h
      OBVIOUS
    <3>5. (activeFor - dt) + quietFor' <= Hold
      BY <3>2, <3>3, <3>4
    <3> QED  BY <3>1, <3>5
  <2> QED  BY <2>1, <2>2
<1>10. again # None => again + quietFor' <= Hold
  BY <1>1, <1>3, <1>7
<1>11. activeFor' # None => activeFor' + quietFor' <= Hold
  <2> HIDE DEF left, again
  <2> QED  BY <1>8, <1>9, <1>10
<1> QED  BY <1>2, <1>3, <1>4, <1>11 DEF QuietAges

LEMMA QuietStep ==
  ASSUME IdsTypeOK, QuietAges, NEW m \in Samples, NEW dt \in Gaps,
         RfSuspNext(m) < RfWindows, RfSuspNext(m) \in Nat, ObserveWindow(m, dt)
  PROVE  CalmClears'
<1> SUFFICES ASSUME quietFor' > Hold PROVE lastDetection'.severity = 0 \/ bursts' >= StormBursts
  BY DEF CalmClears, StormConfirmed
<1> DEFINE valid == ValidSlots(m, dt)
           active == ActiveForNext(valid, m, dt)
           alert == AlertOf(m, active)
           critical == Critical(alert, valid, active, m, dt)
<1>1. /\ Hold \in Nat /\ RachHist \in Nat /\ m.ul \in 0..100 /\ m.dl \in 0..100
  BY IdsConstants, IdsSampleAssumption
<1>2. QuietSample(m)
  BY <1>1 DEF ObserveWindow
<1>3. active = None
  <2>1. QuietAges' /\ IdsTypeOK'
    BY QuietAgesStep, IdsTypeWindow DEF ObserveWindow
  <2>2. activeFor' = active
    BY WindowIs DEF ObserveWindow, EngineStep
  <2>3. active \in None..Hold /\ quietFor' \in 0..(Hold + 1)
        /\ (active # None => active + quietFor' <= Hold)
    BY <2>1, <2>2 DEF QuietAges, IdsTypeOK
  <2> HIDE DEF active
  <2>4. active \in -1..Hold /\ (active # -1 => active + quietFor' <= Hold)
    BY <2>3 DEF None
  <2>5. quietFor' \in Int /\ active \in Int /\ active >= -1 /\ quietFor' > Hold
    BY <1>1, <2>3, <2>4
  <2>6. \A a, q, h \in Int : a >= -1 /\ q > h /\ a + q <= h => a = -1
    OBVIOUS
  <2>7. ASSUME active # -1 PROVE FALSE
    <3>1. active + quietFor' <= Hold
      BY <2>4, <2>7
    <3>2. Hold \in Int
      BY <1>1
    <3> QED  BY <2>5, <2>6, <2>7, <3>1, <3>2
  <2> QED  BY <2>7 DEF None
<1>4. /\ bursts' = BurstsNext(m)
      /\ Report(alert, critical)
  BY WindowIs DEF ObserveWindow, EngineStep
<1>5. UlSatNext(m) = 0 /\ DlSatNext(m) = 0 /\ SigStormNext(m) = 0 /\ EmptyNext(m) = 0
  BY <1>1, <1>2 DEF QuietSample, UlSatNext, DlSatNext, SigStormNext, EmptyNext, InARow,
     UlSaturated, DlSaturated, SignallingLoad
<1>6. ~RachSpike(m) /\ ~InBurstNext(m)
  <2>1. ~(m.rach > 5) /\ ~(EmptyNext(m) >= StormWindows)
    BY <1>2, <1>5 DEF QuietSample, StormWindows
  <2> QED  BY <2>1 DEF RachSpike, InBurstNext
<1>7. alert = "none"
  BY <1>2, <1>3, <1>5, <1>6
     DEF AlertOf, QuietSample, UlWindows, DlWindows, StormWindows, RfWindows
<1>8. critical => bursts' >= StormBursts
  <2>1. ~BurstConfirmed(valid, active)
    BY <1>3 DEF BurstConfirmed
  <2>2. ~SatConfirmed(alert, m, dt)
    BY <1>7 DEF SatConfirmed, SatActive
  <2>3. ~(RfSuspNext(m) >= RfConfirmWin)
    BY DEF RfConfirmWin, RfWindows
  <2> QED  BY <1>4, <2>1, <2>2, <2>3 DEF Critical
<1> HIDE DEF alert, critical
<1> QED  BY <1>4, <1>7, <1>8 DEF Report

-----------------------------------------------------------------------------
(* The history variables only watch: the observer's steps are the engine's. *)
LEMMA ObserverInit == IdsObsInit => IdsInit
BY DEF IdsObsInit

LEMMA ObserverStep == [IdsObsNext]_idsObsVars => [IdsNext]_idsVars
BY DEF IdsObsNext, ObserveWindow, IdsNext, idsObsVars

LEMMA ObserverRefines == IdsObsSpec => IdsSpec
BY ObserverInit, ObserverStep, PTL DEF IdsObsSpec, IdsSpec

(* The inductive invariant of the observed engine.                         *)
HistoryInv ==
  /\ IdsTypeOK /\ IdsInv
  /\ SaturationHeld /\ TimerFromHeld /\ SaturationSustained
  /\ QuietAges /\ CalmClears
  /\ NewestFirst /\ BurstRingExact

LEMMA HistoryInit == IdsObsInit => HistoryInv
<1> SUFFICES ASSUME IdsObsInit PROVE HistoryInv
  OBVIOUS
<1>1. IdsInit /\ IdsTypeOK /\ IdsInv
  BY ObserverInit, IdsTypeInit, IdsInvInit
<1>2. SaturationHeld /\ TimerFromHeld /\ SaturationSustained
  BY <1>1, IdsConstants DEF IdsObsInit, IdsInit, SaturationHeld, TimerFromHeld, SaturationSustained, None
<1>3. QuietAges /\ CalmClears
  BY <1>1, IdsConstants DEF IdsObsInit, IdsInit, QuietAges, CalmClears
<1>4. ons = <<>> /\ Len(ons) = 0 /\ ons \in Seq(0..Span) /\ onCount = 0
  BY <1>1 DEF IdsObsInit, IdsInit
<1>5. NewestFirst /\ BurstRingExact
  BY <1>4, IdsConstants DEF NewestFirst, BurstRingExact
<1> QED  BY <1>1, <1>2, <1>3, <1>5 DEF HistoryInv

LEMMA HistoryStep == HistoryInv /\ [IdsObsNext]_idsObsVars => HistoryInv'
<1>1. ASSUME HistoryInv, NEW m \in Samples, NEW dt \in Gaps, ObserveWindow(m, dt)
      PROVE  HistoryInv'
  <2> USE <1>1 DEF HistoryInv
  <2>1. IdsWindow(m, dt)
    BY DEF ObserveWindow
  <2>2. IdsTypeOK' /\ IdsInv'
    BY <2>1, IdsTypeWindow, IdsInvStep DEF IdsNext
  <2>3. RfSuspNext(m) < RfWindows /\ RfSuspNext(m) \in Nat
    BY <2>1, WindowCollapse, WindowIs DEF IdsInv, CollapseIsOver, EngineStep
  <2>4. SaturationHeld' /\ TimerFromHeld' /\ SaturationSustained'
    BY <2>3, SaturationStep
  <2>5. QuietAges' /\ CalmClears'
    BY <2>3, QuietAgesStep, QuietStep
  <2>6. NewestFirst' /\ BurstRingExact'
    BY RingStep
  <2> QED  BY <2>2, <2>4, <2>5, <2>6
<1>2. ASSUME HistoryInv, UNCHANGED idsObsVars PROVE HistoryInv'
  <2>1. UNCHANGED idsVars /\ UNCHANGED <<ulHeld, dlHeld, ons, quietFor>>
    BY <1>2 DEF idsObsVars
  <2>2. IdsTypeOK' /\ IdsInv'
    BY <1>2, <2>1, IdsTypeStep, IdsInvStep DEF HistoryInv
  <2> USE <1>2, <2>1 DEF HistoryInv, idsVars, stage1Vars, stage2Vars
  <2>3. SaturationHeld' /\ TimerFromHeld'
    BY DEF SaturationHeld, TimerFromHeld
  <2>4. SaturationSustained' /\ CalmClears'
    BY DEF SaturationSustained, CalmClears, StormConfirmed, CyclesConfirmed, Flat
  <2>5. QuietAges' /\ NewestFirst' /\ BurstRingExact'
    BY DEF QuietAges, NewestFirst, BurstRingExact
  <2> QED  BY <2>2, <2>3, <2>4, <2>5
<1> QED  BY <1>1, <1>2 DEF IdsObsNext

\* Saturation alone confirms an attack only after its full time without a
\* break: no gap, change of direction or recovery timer lets earlier time count.
THEOREM ConfirmedAfterUnbroken == IdsObsSpec => []SaturationSustained
<1>1. HistoryInv => SaturationSustained
  BY DEF HistoryInv
<1> QED  BY <1>1, HistoryInit, HistoryStep, PTL DEF IdsObsSpec

\* The ring of rule 8 holds the transitions of the last Span ticks, whatever the
\* gaps between calls and however often the head has wrapped.
THEOREM RingIsExact == IdsObsSpec => []BurstRingExact
<1>1. HistoryInv => BurstRingExact
  BY DEF HistoryInv
<1> QED  BY <1>1, HistoryInit, HistoryStep, PTL DEF IdsObsSpec

\* A quiet cell is let go: after Hold of quiet nothing but the storm rule warns.
THEOREM QuietEndsAlerts == IdsObsSpec => []CalmClears
<1>1. HistoryInv => CalmClears
  BY DEF HistoryInv
<1> QED  BY <1>1, HistoryInit, HistoryStep, PTL DEF IdsObsSpec
==============================================================================
