--------------------------- MODULE EvaluationProofs ----------------------------
(***************************************************************************)
(* The evaluations of recorded rows, for every file.  One spike never       *)
(* alerts and the tables agree (DetectionEval).  A window is decided by its *)
(* UE's own rows, a latency counts from the onset and neither changes as    *)
(* the file grows (PerUeEval).  Every counting of the windows counts each   *)
(* of them once (RunEval, UeModelsEval, PerUeEval, FalseAlarms), and alerts *)
(* and episodes account for each other (FalseAlarms).  The searches for a   *)
(* threshold find the best they try, and it keeps what it promises when     *)
(* another script measures it (ThresholdSweep).                             *)
(***************************************************************************)
EXTENDS OfflineProofs, DetectionEval, PerUeEval, RunEval, FalseAlarms, UeModelsEval,
        ThresholdSweep

-----------------------------------------------------------------------------
\* Induction on the naturals, for a set of them in place of a predicate.
LEMMA AllNaturals ==
  ASSUME NEW P, 0 \in P, \A n \in Nat : n \in P => n + 1 \in P
  PROVE  \A n \in Nat : n \in P
<1> DEFINE Rest == Nat \ P
<1> SUFFICES ASSUME Rest # {} PROVE FALSE
  OBVIOUS
<1>1. Least(Rest) \in Rest /\ \A y \in Rest : Least(Rest) <= y
  BY LeastExists
<1>2. PICK n \in Rest : n = Least(Rest)
  BY <1>1
<1>3. n \in Nat /\ n # 0 /\ n - 1 \in Nat /\ n - 1 < n
  BY <1>2
<1>4. n - 1 \notin Rest
  BY <1>1, <1>2, <1>3
<1>5. (n - 1) + 1 \in P
  BY <1>3, <1>4
<1> QED  BY <1>2, <1>3, <1>5

-----------------------------------------------------------------------------
(* DetectionEval: the smoothed scores.                                      *)

\* The sums of the first scores, a function on 0..n.
IsSum(f, scores, n) ==
  f = [i \in 0..n |-> IF i = 0 THEN 0 ELSE f[i - 1] + scores[i]]

LEMMA SumExists ==
  ASSUME NEW scores
  PROVE  \A n \in Nat : \E f : IsSum(f, scores, n)
<1> DEFINE P == {n \in Nat : \E f : IsSum(f, scores, n)}
<1>1. 0 \in P
  <2>1. IsSum([i \in 0..0 |-> 0], scores, 0)
    BY DEF IsSum
  <2> QED  BY <2>1
<1>2. ASSUME NEW n \in Nat, n \in P PROVE n + 1 \in P
  <2>1. PICK f : IsSum(f, scores, n)
    BY <1>2
  <2> DEFINE g == [i \in 0..(n + 1) |-> IF i = n + 1 THEN f[n] + scores[n + 1] ELSE f[i]]
  <2>2. \A i \in 0..n : g[i] = f[i] /\ f[i] = IF i = 0 THEN 0 ELSE f[i - 1] + scores[i]
    BY <2>1 DEF IsSum
  <2>3. \A i \in 0..(n + 1) : g[i] = IF i = 0 THEN 0 ELSE g[i - 1] + scores[i]
    BY <2>2
  <2>4. g = [i \in 0..(n + 1) |-> g[i]]
    OBVIOUS
  <2> HIDE DEF g
  <2>5. IsSum(g, scores, n + 1)
    BY <2>3, <2>4 DEF IsSum
  <2> QED  BY <2>5
<1> HIDE DEF P
<1>3. \A n \in Nat : n \in P
  BY <1>1, <1>2, AllNaturals
<1> QED  BY <1>3 DEF P

\* Scores that are all at most the limit have a mean that is at most the limit.
LEMMA MeanOfLow ==
  ASSUME NEW scores \in Seq(Nat), Len(scores) = SmoothN, NEW limit \in Nat,
         \A i \in 1..SmoothN : scores[i] <= limit
  PROVE  ~MeanAbove(scores, limit)
<1>1. SmoothN \in Nat
  BY DetectionEvalAssumption
<1> DEFINE f == CHOOSE x : IsSum(x, scores, Len(scores))
<1>2. IsSum(f, scores, SmoothN)
  BY <1>1, SumExists
<1>3. ScoreSum(scores) = f[SmoothN]
  BY DEF ScoreSum, IsSum
<1> HIDE DEF f
<1> DEFINE P == {n \in Nat : n <= SmoothN => f[n] \in Nat /\ f[n] <= limit * n}
<1>4. 0 \in P
  BY <1>1, <1>2 DEF IsSum
<1>5. ASSUME NEW n \in Nat, n \in P PROVE n + 1 \in P
  <2> SUFFICES ASSUME n + 1 <= SmoothN PROVE f[n + 1] \in Nat /\ f[n + 1] <= limit * (n + 1)
    OBVIOUS
  <2>1. n <= SmoothN /\ n + 1 \in 0..SmoothN /\ n + 1 \in 1..SmoothN /\ (n + 1) - 1 = n
    BY <1>1
  <2>2. f[n + 1] = f[n] + scores[n + 1]
    BY <1>2, <2>1 DEF IsSum
  <2>3. scores[n + 1] \in Nat /\ scores[n + 1] <= limit
    BY <2>1, ElementOfSeq
  <2>4. f[n] \in Nat /\ f[n] <= limit * n
    BY <1>5, <2>1
  <2>5. limit * (n + 1) = limit * n + limit /\ limit * n \in Nat
    OBVIOUS
  <2> QED  BY <2>2, <2>3, <2>4, <2>5
<1> HIDE DEF P
<1>6. SmoothN \in P
  BY <1>1, <1>4, <1>5, AllNaturals
<1>7. limit * SmoothN \in Nat
  BY <1>1
<1> QED  BY <1>1, <1>3, <1>6, <1>7 DEF MeanAbove, P

(* A raw score above the threshold, in a row that is scored.               *)
HeldUp(m, i) ==
  i \in 1..Len(rowsSeen) /\ i > SeqWindow /\ rowsSeen[i].raw[m] > Thresh[m]

SmoothOK(m) ==
  LET scores == lstm[m].scores
      n == Len(rowsSeen)
  IN /\ lstm[m].filled = (IF n < SeqWindow THEN n ELSE SeqWindow)
     /\ scores \in Seq(Nat) /\ Len(scores) = SmoothN
     /\ \A k \in 1..SmoothN :
          /\ n <= SeqWindow => scores[k] = 0
          /\ scores[k] > Thresh[m] => HeldUp(m, n - SmoothN + k)

(* Each of the rows counted in sequence has such a score in its window.    *)
CountOK(m) ==
  /\ above[m] \in 0..Len(rowsSeen)
  /\ \A j \in 0..(above[m] - 1) :
       \E i \in (Len(rowsSeen) - j - SmoothN + 1)..(Len(rowsSeen) - j) : HeldUp(m, i)

SpikeInv ==
  /\ \A i \in DOMAIN rowsSeen : rowsSeen[i].raw \in [LstmModels -> Nat]
  /\ \E S : rowsSeen \in Seq(S)
  /\ DOMAIN above = LstmModels
  /\ ~ensemble => \A m \in LstmModels : above[m] = 0
  /\ \A m \in LstmModels : SmoothOK(m) /\ CountOK(m)
  /\ ensemble /\ rowsSeen # <<>> /\ rowsSeen[Len(rowsSeen)].stage2 = 1 =>
       \E m \in LstmModels : above[m] >= MinConsec

LEMMA DetectionConstants ==
  /\ SmoothN \in Nat /\ SmoothN > 0 /\ MinConsec \in Nat /\ MinConsec > 0
  /\ SeqWindow \in Nat /\ SeqWindow > 0 /\ MaxData \in Nat
  /\ \A m \in LstmModels : Thresh[m] \in Nat
<1>1. \A n \in Nat \ {0} : n \in Nat /\ n > 0
  OBVIOUS
<1>2. {SmoothN, MinConsec, SeqWindow, MaxData} \subseteq Nat \ {0} /\ Thresh \in [LstmModels -> Nat]
  BY DetectionEvalAssumption
<1> QED  BY <1>1, <1>2

LEMMA SpikeInit == DetEvalInit => SpikeInv
<1> SUFFICES ASSUME DetEvalInit PROVE SpikeInv
  OBVIOUS
<1>1. rowsSeen = <<>> /\ Len(rowsSeen) = 0 /\ rowsSeen \in Seq(Nat) /\ DOMAIN rowsSeen = {}
  BY EmptySeq DEF DetEvalInit
<1>2. DOMAIN above = LstmModels /\ \A m \in LstmModels : above[m] = 0
  BY DEF DetEvalInit
<1>3. ASSUME NEW m \in LstmModels PROVE SmoothOK(m) /\ CountOK(m)
  <2>1. PICK none : none = [i \in 1..SmoothN |-> 0]
    OBVIOUS
  <2>2. lstm[m] = [filled |-> 0, scores |-> none, count |-> 0, dur |-> 0]
    BY <2>1 DEF DetEvalInit
  <2>3. none \in Seq(Nat) /\ Len(none) = SmoothN /\ \A k \in 1..SmoothN : none[k] = 0
    BY <2>1, DetectionConstants
  <2>4. ~(0 > Thresh[m])
    BY DetectionConstants
  <2>5. SmoothOK(m)
    BY <1>1, <2>2, <2>3, <2>4, DetectionConstants DEF SmoothOK
  <2>6. CountOK(m)
    BY <1>1, <1>2 DEF CountOK
  <2> QED  BY <2>5, <2>6
<1> QED  BY <1>1, <1>2, <1>3 DEF SpikeInv

LEMMA SmoothedIs ==
  ASSUME NEW m \in LstmModels, SmoothOK(m), NEW row, row.raw[m] \in Nat
  PROVE  /\ Smoothed(m, row) \in Seq(Nat) /\ Len(Smoothed(m, row)) = SmoothN
         /\ \A k \in 1..SmoothN :
              Smoothed(m, row)[k] = IF k = SmoothN THEN row.raw[m] ELSE lstm[m].scores[k + 1]
<1> DEFINE scores == lstm[m].scores
           t == Tail(scores)
<1>1. scores \in Seq(Nat) /\ Len(scores) = SmoothN /\ SmoothN \in Nat /\ SmoothN > 0
  BY DetectionConstants DEF SmoothOK
<1> HIDE DEF scores
<1>2. t \in Seq(Nat) /\ Len(t) = SmoothN - 1 /\ \A k \in 1..(SmoothN - 1) : t[k] = scores[k + 1]
  <2>1. scores # <<>>
    BY <1>1, EmptySeq
  <2> QED  BY <1>1, <2>1, HeadTailProperties
<1> HIDE DEF t
<1>3. /\ Append(t, row.raw[m]) \in Seq(Nat) /\ Len(Append(t, row.raw[m])) = SmoothN
      /\ \A k \in 1..SmoothN : Append(t, row.raw[m])[k]
           = IF k = SmoothN THEN row.raw[m] ELSE t[k]
  BY <1>1, <1>2, AppendProperties
<1>4. \A k \in 1..SmoothN : k # SmoothN => k \in 1..(SmoothN - 1)
  BY <1>1
<1>5. Smoothed(m, row) = Append(t, row.raw[m])
  BY DEF Smoothed, t, scores
<1> QED  BY <1>2, <1>3, <1>4, <1>5 DEF scores

LEMMA SpikeStep == SpikeInv /\ [DetEvalNext]_detEvalVars => SpikeInv'
<1> SUFFICES ASSUME SpikeInv, [DetEvalNext]_detEvalVars PROVE SpikeInv'
  OBVIOUS
<1>1. CASE UNCHANGED detEvalVars
  <2>1. ensemble' = ensemble /\ lstm' = lstm /\ above' = above /\ rowsSeen' = rowsSeen
    BY <1>1 DEF detEvalVars
  <2>2. ASSUME NEW m \in LstmModels PROVE SmoothOK(m)' /\ CountOK(m)'
    <3>1. \A i : HeldUp(m, i)' <=> HeldUp(m, i)
      BY <2>1 DEF HeldUp
    <3> QED  BY <2>1, <3>1 DEF SpikeInv, SmoothOK, CountOK
  <2> QED  BY <2>1, <2>2 DEF SpikeInv
<1>2. ASSUME NEW row \in Dataset, EvaluateRow(row) PROVE SpikeInv'
  <2>0. PICK n : n = Len(rowsSeen)
    OBVIOUS
  <2>1. PICK ml : ml = IF ensemble THEN DualSeverity(row) ELSE LstmSeverity("a", row)
    OBVIOUS
  <2>2. PICK r : r = [label |-> row.label, stage1 |-> row.rule, stage2 |-> ml,
                      hybrid |-> IF row.rule > ml THEN row.rule ELSE ml, raw |-> row.raw]
    OBVIOUS
  <2>3. /\ rowsSeen' = Append(rowsSeen, r) /\ ensemble' = ensemble
        /\ lstm' = [m \in LstmModels |-> Updated(m, row)]
        /\ above' = IF ensemble THEN [m \in LstmModels |-> AboveNext(m, row)] ELSE above
    BY <1>2, <2>1, <2>2 DEF EvaluateRow
  <2>4. row.raw \in [LstmModels -> Nat] /\ r.raw = row.raw /\ r.stage2 = ml
    BY <2>2, DetectionEvalAssumption
  <2>5. PICK S : rowsSeen \in Seq(S)
    BY DEF SpikeInv
  <2>6. /\ rowsSeen \in Seq(S \cup {r}) /\ rowsSeen' \in Seq(S \cup {r})
        /\ n \in Nat /\ Len(rowsSeen') = n + 1 /\ rowsSeen'[n + 1] = r
        /\ \A i \in 1..n : rowsSeen'[i] = rowsSeen[i]
        /\ DOMAIN rowsSeen = 1..n /\ DOMAIN rowsSeen' = 1..(n + 1)
    <3>1. rowsSeen \in Seq(S \cup {r})
      BY <2>5, SeqMonotonic
    <3> QED  BY <2>0, <2>3, <3>1, AppendProperties, LenProperties
  <2>7. \A i \in DOMAIN rowsSeen' : rowsSeen'[i].raw \in [LstmModels -> Nat]
    BY <2>4, <2>6 DEF SpikeInv
  <2>8. ASSUME NEW m \in LstmModels
        PROVE  /\ \A i : HeldUp(m, i) => HeldUp(m, i)'
               /\ n >= SeqWindow /\ row.raw[m] > Thresh[m] => HeldUp(m, n + 1)'
    <3>1. HeldUp(m, n + 1)' <=>
            /\ n + 1 \in 1..Len(rowsSeen') /\ n + 1 > SeqWindow
            /\ rowsSeen'[n + 1].raw[m] > Thresh[m]
      BY DEF HeldUp
    <3>2. n + 1 \in 1..Len(rowsSeen') /\ rowsSeen'[n + 1].raw[m] = row.raw[m]
      BY <2>4, <2>6
    <3>3. n >= SeqWindow => n + 1 > SeqWindow
      BY <2>6, DetectionConstants
    <3>4. ASSUME NEW i, HeldUp(m, i) PROVE HeldUp(m, i)'
      <4>1. i \in 1..n /\ i > SeqWindow /\ rowsSeen[i].raw[m] > Thresh[m]
        BY <2>0, <3>4 DEF HeldUp
      <4>2. i \in 1..Len(rowsSeen') /\ rowsSeen'[i] = rowsSeen[i]
        BY <2>6, <4>1
      <4> QED  BY <4>1, <4>2 DEF HeldUp
    <3> QED  BY <3>1, <3>2, <3>3, <3>4
  <2>9. ASSUME NEW m \in LstmModels PROVE SmoothOK(m)' /\ above'[m] \in 0..(n + 1) /\ CountOK(m)'
    <3>1. /\ SmoothOK(m) /\ CountOK(m) /\ SmoothN \in Nat /\ SmoothN > 0 /\ SeqWindow \in Nat
          /\ SeqWindow > 0 /\ Thresh[m] \in Nat /\ row.raw[m] \in Nat
      BY <2>4, DetectionConstants DEF SpikeInv
    <3>2. /\ lstm[m].filled = (IF n < SeqWindow THEN n ELSE SeqWindow)
          /\ lstm[m].scores \in Seq(Nat) /\ Len(lstm[m].scores) = SmoothN
          /\ \A k \in 1..SmoothN :
               /\ n <= SeqWindow => lstm[m].scores[k] = 0
               /\ lstm[m].scores[k] > Thresh[m] => HeldUp(m, n - SmoothN + k)
      BY <2>0, <3>1 DEF SmoothOK
    <3>3. Filling(m) <=> n < SeqWindow
      BY <2>6, <3>1, <3>2 DEF Filling
    <3>4. lstm'[m] = Updated(m, row)
      BY <2>3
    <3>5. PICK sm : sm = Smoothed(m, row)
      OBVIOUS
    <3>6. /\ sm \in Seq(Nat) /\ Len(sm) = SmoothN
          /\ \A k \in 1..SmoothN :
               sm[k] = IF k = SmoothN THEN row.raw[m] ELSE lstm[m].scores[k + 1]
      BY <3>1, <3>5, SmoothedIs
    <3>7. n >= SeqWindow => \A k \in 1..SmoothN :
             sm[k] > Thresh[m] => HeldUp(m, (n + 1) - SmoothN + k)'
      <4> SUFFICES ASSUME n >= SeqWindow, NEW k \in 1..SmoothN, sm[k] > Thresh[m]
                   PROVE  HeldUp(m, (n + 1) - SmoothN + k)'
        OBVIOUS
      <4>1. CASE k = SmoothN
        <5>1. (n + 1) - SmoothN + k = n + 1 /\ sm[k] = row.raw[m]
          BY <2>6, <3>1, <3>6, <4>1
        <5> QED  BY <2>8, <5>1
      <4>2. CASE k # SmoothN
        <5>1. k + 1 \in 1..SmoothN /\ n - SmoothN + (k + 1) = (n + 1) - SmoothN + k
          BY <2>6, <3>1, <4>2
        <5>2. HeldUp(m, n - SmoothN + (k + 1))
          BY <3>2, <3>6, <4>2, <5>1
        <5> QED  BY <2>8, <5>1, <5>2
      <4> QED  BY <4>1, <4>2
    <3>8. SmoothOK(m)' <=>
            /\ lstm'[m].filled = (IF n + 1 < SeqWindow THEN n + 1 ELSE SeqWindow)
            /\ lstm'[m].scores \in Seq(Nat) /\ Len(lstm'[m].scores) = SmoothN
            /\ \A k \in 1..SmoothN :
                 /\ n + 1 <= SeqWindow => lstm'[m].scores[k] = 0
                 /\ lstm'[m].scores[k] > Thresh[m] => HeldUp(m, (n + 1) - SmoothN + k)'
      BY <2>6 DEF SmoothOK
    <3>9. SmoothOK(m)'
      <4>1. CASE n < SeqWindow
        <5>1. lstm'[m].filled = n + 1 /\ lstm'[m].scores = lstm[m].scores
          <6>1. Updated(m, row) = [lstm[m] EXCEPT !.filled = @ + 1]
            BY <3>3, <4>1 DEF Updated
          <6> QED  BY <3>2, <3>4, <4>1, <6>1
        <5>2. \A k \in 1..SmoothN : lstm'[m].scores[k] = 0
          BY <2>6, <3>1, <3>2, <4>1, <5>1, SMTT(30)
        <5>3. ~(0 > Thresh[m])
          BY <3>1
        <5> QED  BY <2>6, <3>1, <3>2, <3>8, <4>1, <5>1, <5>2, <5>3, SMTT(30)
      <4>2. CASE n >= SeqWindow
        <5>1. lstm'[m].filled = SeqWindow /\ lstm'[m].scores = sm
          BY <2>6, <3>1, <3>3, <3>4, <3>5, <4>2 DEF Updated
        <5>2. ~(n + 1 <= SeqWindow) /\ ~(n + 1 < SeqWindow)
          BY <2>6, <3>1, <4>2
        <5> QED  BY <3>6, <3>7, <3>8, <4>2, <5>1, <5>2
      <4> QED  BY <2>6, <3>1, <4>1, <4>2
    <3>10. /\ above[m] \in 0..n
           /\ \A j \in 0..(above[m] - 1) :
                \E i \in (n - j - SmoothN + 1)..(n - j) : HeldUp(m, i)
      BY <2>0, <3>1 DEF CountOK
    <3>11. CountOK(m)' <=>
             /\ above'[m] \in 0..(n + 1)
             /\ \A j \in 0..(above'[m] - 1) :
                  \E i \in ((n + 1) - j - SmoothN + 1)..((n + 1) - j) : HeldUp(m, i)'
      BY <2>6 DEF CountOK
    <3>12. CASE above'[m] = 0
      <4>1. 0..(0 - 1) = {}
        OBVIOUS
      <4> QED  BY <2>6, <3>9, <3>11, <3>12, <4>1
    <3>13. CASE above'[m] # 0
      <4>1. ensemble
        <5>1. ~ensemble => above'[m] = above[m] /\ above[m] = 0
          BY <2>3 DEF SpikeInv
        <5> QED  BY <5>1, <3>13
      <4>2. above'[m] = AboveNext(m, row)
        BY <2>3, <4>1
      <4>3. ~Filling(m) /\ MeanAbove(sm, Thresh[m]) /\ above'[m] = above[m] + 1
        BY <3>5, <3>13, <4>2 DEF AboveNext
      <4>4. \E k \in 1..SmoothN : ~(sm[k] <= Thresh[m])
        BY <3>1, <3>6, <4>3, MeanOfLow
      <4>5. PICK k \in 1..SmoothN : sm[k] > Thresh[m]
        BY <3>1, <3>6, <4>4, ElementOfSeq
      <4>6. HeldUp(m, (n + 1) - SmoothN + k)'
        BY <2>6, <3>1, <3>3, <3>7, <4>3, <4>5
      <4>7. ASSUME NEW j \in 0..above[m]
            PROVE  \E i \in ((n + 1) - j - SmoothN + 1)..((n + 1) - j) : HeldUp(m, i)'
        <5>1. CASE j = 0
          <6>1. (n + 1) - SmoothN + k \in ((n + 1) - 0 - SmoothN + 1)..((n + 1) - 0)
            BY <2>6, <3>1
          <6> QED  BY <4>6, <5>1, <6>1
        <5>2. CASE j # 0
          <6>1. j - 1 \in 0..(above[m] - 1) /\ n - (j - 1) = (n + 1) - j
            BY <2>6, <3>10, <5>2
          <6>2. PICK i \in (n - (j - 1) - SmoothN + 1)..(n - (j - 1)) : HeldUp(m, i)
            BY <3>10, <6>1
          <6> QED  BY <2>8, <6>1, <6>2
        <5> QED  BY <5>1, <5>2
      <4>8. above'[m] \in 0..(n + 1) /\ above'[m] - 1 = above[m]
        BY <2>6, <3>10, <4>3
      <4> QED  BY <3>9, <3>11, <4>7, <4>8
    <3> QED  BY <3>12, <3>13
  <2>10. DOMAIN above' = LstmModels /\ (~ensemble' => \A m \in LstmModels : above'[m] = 0)
    BY <2>3 DEF SpikeInv
  <2>11. ensemble' /\ rowsSeen'[Len(rowsSeen')].stage2 = 1 =>
           \E m \in LstmModels : above'[m] >= MinConsec
    <3>1. rowsSeen'[Len(rowsSeen')].stage2 = ml
      BY <2>4, <2>6
    <3>2. ensemble' => ml = DualSeverity(row) /\ \A m \in LstmModels : above'[m] = AboveNext(m, row)
      BY <2>1, <2>3
    <3> QED  BY <3>1, <3>2 DEF DualSeverity
  <2> QED  BY <2>6, <2>7, <2>9, <2>10, <2>11 DEF SpikeInv
<1> QED  BY <1>1, <1>2 DEF DetEvalNext

\* Two different members, so at least two of them.
LEMMA TwoMembers ==
  ASSUME NEW S, IsFiniteSet(S), NEW x \in S, NEW y \in S, x # y
  PROVE  Cardinality(S) >= 2
<1>1. IsFiniteSet({x}) /\ Cardinality({x}) = 1
  BY FS_Singleton
<1>2. IsFiniteSet({x} \cup {y}) /\ Cardinality({x} \cup {y}) = 2
  <2>1. y \notin {x}
    OBVIOUS
  <2>2. Cardinality({x} \cup {y}) = Cardinality({x}) + 1
    BY <1>1, <2>1, FS_AddElement
  <2> QED  BY <1>1, <2>2, FS_AddElement
<1>3. {x} \cup {y} \subseteq S
  OBVIOUS
<1>4. Cardinality({x} \cup {y}) <= Cardinality(S)
  BY <1>3, FS_Subset
<1>5. Cardinality(S) \in Nat
  BY FS_CardinalityType
<1> QED  BY <1>2, <1>4, <1>5

LEMMA SpikeInvEnough ==
  ASSUME SmoothN < MinConsec, SpikeInv PROVE NoAlertOnOneSpike
<1> DEFINE raised(m) == {i \in DOMAIN rowsSeen :
                     /\ i > SeqWindow /\ i > Len(rowsSeen) - (MinConsec + SmoothN - 1)
                     /\ rowsSeen[i].raw[m] > Thresh[m]}
<1>1. SUFFICES ASSUME ensemble, rowsSeen # <<>>, rowsSeen[Len(rowsSeen)].stage2 = 1
               PROVE  \E m \in LstmModels : Cardinality(raised(m)) >= 2
  BY DEF NoAlertOnOneSpike
<1>2. PICK m \in LstmModels : above[m] >= MinConsec
  BY <1>1 DEF SpikeInv
<1>3. PICK n : n = Len(rowsSeen)
  OBVIOUS
<1>4. n \in Nat /\ DOMAIN rowsSeen = 1..n
  <2>1. PICK S : rowsSeen \in Seq(S)
    BY DEF SpikeInv
  <2> QED  BY <1>3, <2>1, LenProperties
<1>5. CountOK(m)
  BY DEF SpikeInv
<1>6. above[m] \in 0..n /\ \A j \in 0..(above[m] - 1) :
        \E i \in (n - j - SmoothN + 1)..(n - j) : HeldUp(m, i)
  BY <1>3, <1>5 DEF CountOK
<1>7. SmoothN \in Nat /\ SmoothN > 0 /\ MinConsec \in Nat /\ MinConsec > 0
  BY DetectionConstants
<1>8. PICK i \in (n - 0 - SmoothN + 1)..(n - 0) : HeldUp(m, i)
  <2>1. 0 \in 0..(above[m] - 1)
    BY <1>2, <1>6, <1>7
  <2> QED  BY <1>6, <2>1
<1>9. PICK k \in (n - (MinConsec - 1) - SmoothN + 1)..(n - (MinConsec - 1)) : HeldUp(m, k)
  <2>1. MinConsec - 1 \in 0..(above[m] - 1)
    BY <1>2, <1>6, <1>7
  <2> QED  BY <1>6, <2>1
<1>10. k < i /\ k # i /\ i > n - (MinConsec + SmoothN - 1) /\ k > n - (MinConsec + SmoothN - 1)
  BY <1>4, <1>7
<1>11. i \in raised(m) /\ k \in raised(m)
  BY <1>3, <1>4, <1>8, <1>9, <1>10 DEF HeldUp
<1>12. IsFiniteSet(raised(m))
  <2>1. IsFiniteSet(1..n)
    BY <1>4, FS_Interval
  <2> QED  BY <1>4, <2>1, FS_Subset
<1> HIDE DEF raised
<1>13. Cardinality(raised(m)) >= 2
  BY <1>10, <1>11, <1>12, TwoMembers
<1> QED  BY <1>13

THEOREM OneSpikeNeverAlerts ==
  ASSUME SmoothN < MinConsec
  PROVE  DetEvalSpec => []NoAlertOnOneSpike
<1>1. DetEvalInit => SpikeInv
  BY SpikeInit
<1>2. SpikeInv /\ [DetEvalNext]_detEvalVars => SpikeInv'
  BY SpikeStep
<1>3. SpikeInv => NoAlertOnOneSpike
  BY SpikeInvEnough
<1> QED  BY <1>1, <1>2, <1>3, PTL DEF DetEvalSpec

EvaluatedRow ==
  {r \in [label : 0..5, stage1 : 0..2, stage2 : 0..2, hybrid : 0..2, raw : [LstmModels -> Nat]] :
     r.hybrid = IF r.stage1 > r.stage2 THEN r.stage1 ELSE r.stage2}
\* What a detector counts is of rows it has seen.
CountsRows(x, n, seen) ==
  /\ x = [filled |-> x.filled, scores |-> x.scores, count |-> x.count, dur |-> x.dur]
  /\ x.filled \in 0..SeqWindow /\ x.count \in 0..seen /\ x.dur \in 0..seen /\ n \in 0..seen
DetEvalInv ==
  /\ rowsSeen \in Seq(EvaluatedRow) /\ Len(rowsSeen) <= MaxData
  /\ DOMAIN above = LstmModels
  /\ \A m \in LstmModels : CountsRows(lstm[m], above[m], Len(rowsSeen))

LEMMA DetEvalConstants == MaxData \in Nat \ {0} /\ SeqWindow \in Nat \ {0}
BY DetectionEvalAssumption

\* A row adds one to a count or starts it again.
LEMMA CountsRowsKept ==
  ASSUME NEW m \in LstmModels, NEW row, NEW seen \in Nat,
         CountsRows(lstm[m], above[m], seen), NEW n \in {above[m], above[m] + 1, 0}
  PROVE  CountsRows(Updated(m, row), n, seen + 1)
<1> DEFINE x == lstm[m]
<1>1. /\ x = [filled |-> x.filled, scores |-> x.scores, count |-> x.count, dur |-> x.dur]
      /\ x.filled \in 0..SeqWindow /\ x.count \in 0..seen /\ x.dur \in 0..seen
      /\ above[m] \in 0..seen
  BY DEF CountsRows
<1>2. n \in 0..(seen + 1) /\ SeqWindow \in Nat /\ SeqWindow \in 0..SeqWindow
  BY <1>1, DetEvalConstants
<1>3. CASE Filling(m)
  <2>1. Updated(m, row) = [x EXCEPT !.filled = @ + 1] /\ x.filled < SeqWindow
    BY <1>3 DEF Updated, Filling
  <2> HIDE DEF x
  <2>2. [x EXCEPT !.filled = @ + 1]
          = [filled |-> x.filled + 1, scores |-> x.scores, count |-> x.count, dur |-> x.dur]
    BY <1>1
  <2> QED  BY <1>1, <1>2, <2>1, <2>2 DEF CountsRows
<1>4. CASE ~Filling(m)
  <2>1. PICK count : count = IF Anomalous(m, row) THEN x.count + 1 ELSE 0
    OBVIOUS
  <2>2. PICK dur : dur = IF Anomalous(m, row) /\ x.count > 0 THEN x.dur + 1 ELSE 0
    OBVIOUS
  <2>3. Updated(m, row)
          = [filled |-> SeqWindow, scores |-> Smoothed(m, row), count |-> count, dur |-> dur]
    BY <1>4, <2>1, <2>2 DEF Updated
  <2>4. count \in 0..(seen + 1) /\ dur \in 0..(seen + 1)
    BY <1>1, <2>1, <2>2
  <2> QED  BY <1>2, <2>3, <2>4 DEF CountsRows
<1> QED  BY <1>3, <1>4

LEMMA DetEvalInvHolds == DetEvalSpec => []DetEvalInv
<1>1. DetEvalInit => DetEvalInv
  <2> SUFFICES ASSUME DetEvalInit PROVE DetEvalInv
    OBVIOUS
  <2>1. rowsSeen \in Seq(EvaluatedRow) /\ Len(rowsSeen) = 0
    BY EmptySeq DEF DetEvalInit
  <2>2. DOMAIN above = LstmModels /\ \A m \in LstmModels : CountsRows(lstm[m], above[m], 0)
    <3>1. DOMAIN above = LstmModels /\ \A m \in LstmModels : above[m] = 0
      BY DEF DetEvalInit
    <3>2. PICK none : none = [i \in 1..SmoothN |-> 0]
      OBVIOUS
    <3>3. \A m \in LstmModels : lstm[m] = [filled |-> 0, scores |-> none, count |-> 0, dur |-> 0]
      BY <3>2 DEF DetEvalInit
    <3> QED  BY <3>1, <3>3, DetEvalConstants DEF CountsRows
  <2> QED  BY <2>1, <2>2, DetEvalConstants DEF DetEvalInv
<1>2. DetEvalInv /\ [DetEvalNext]_detEvalVars => DetEvalInv'
  <2> SUFFICES ASSUME DetEvalInv, [DetEvalNext]_detEvalVars PROVE DetEvalInv'
    OBVIOUS
  <2>1. CASE UNCHANGED detEvalVars
    BY <2>1 DEF detEvalVars, DetEvalInv
  <2>2. ASSUME NEW row \in Dataset, EvaluateRow(row) PROVE DetEvalInv'
    <3>1. PICK ml : ml = IF ensemble THEN DualSeverity(row) ELSE LstmSeverity("a", row)
      OBVIOUS
    <3>2. PICK r : r = [label |-> row.label, stage1 |-> row.rule, stage2 |-> ml,
                        hybrid |-> IF row.rule > ml THEN row.rule ELSE ml, raw |-> row.raw]
      OBVIOUS
    <3>3. /\ Len(rowsSeen) < MaxData /\ rowsSeen' = Append(rowsSeen, r)
          /\ lstm' = [m \in LstmModels |-> Updated(m, row)]
          /\ above' = IF ensemble THEN [m \in LstmModels |-> AboveNext(m, row)] ELSE above
      BY <2>2, <3>1, <3>2 DEF EvaluateRow
    <3>4. r \in EvaluatedRow
      <4>1. ml \in 0..2
        BY <3>1 DEF DualSeverity, LstmSeverity
      <4>2. row.label \in 0..5 /\ row.rule \in 0..2 /\ row.raw \in [LstmModels -> Nat]
        BY DetectionEvalAssumption
      <4> QED  BY <3>2, <4>1, <4>2 DEF EvaluatedRow
    <3>5. rowsSeen \in Seq(EvaluatedRow) /\ Len(rowsSeen) \in Nat
      BY LenProperties DEF DetEvalInv
    <3>6. rowsSeen' \in Seq(EvaluatedRow) /\ Len(rowsSeen') = Len(rowsSeen) + 1
      BY <3>3, <3>4, <3>5, AppendProperties
    <3>7. DOMAIN above' = LstmModels
      BY <3>3 DEF DetEvalInv
    <3>8. ASSUME NEW m \in LstmModels PROVE CountsRows(lstm'[m], above'[m], Len(rowsSeen'))
      <4>1. above'[m] \in {above[m], above[m] + 1, 0}
        BY <3>3 DEF AboveNext
      <4>2. lstm'[m] = Updated(m, row)
        BY <3>3
      <4>3. CountsRows(lstm[m], above[m], Len(rowsSeen))
        BY DEF DetEvalInv
      <4> QED  BY <3>5, <3>6, <4>1, <4>2, <4>3, CountsRowsKept
    <3>9. Len(rowsSeen') <= MaxData
      BY <3>3, <3>5, <3>6, DetEvalConstants
    <3> QED  BY <3>6, <3>7, <3>8, <3>9 DEF DetEvalInv, CountsRows
  <2> QED  BY <2>1, <2>2 DEF DetEvalNext
<1> QED  BY <1>1, <1>2, PTL DEF DetEvalSpec

LEMMA DetEvalTypes == DetEvalSpec => []DetEvalTypeOK
<1>1. DetEvalInv => DetEvalTypeOK
  <2> SUFFICES ASSUME DetEvalInv PROVE DetEvalTypeOK
    OBVIOUS
  <2>1. Len(rowsSeen) \in Nat /\ Len(rowsSeen) <= MaxData
    BY LenProperties DEF DetEvalInv
  <2>2. \A m \in LstmModels : CountsRows(lstm[m], above[m], Len(rowsSeen))
    BY DEF DetEvalInv
  <2>3. ASSUME NEW m \in LstmModels
        PROVE  /\ lstm[m].filled \in 0..SeqWindow
               /\ lstm[m].count \in 0..MaxData /\ lstm[m].dur \in 0..MaxData
               /\ above[m] \in 0..MaxData
    <3> DEFINE seen == Len(rowsSeen)
    <3>1. /\ lstm[m].filled \in 0..SeqWindow /\ lstm[m].count \in 0..seen
          /\ lstm[m].dur \in 0..seen /\ above[m] \in 0..seen
      BY <2>2 DEF CountsRows
    <3>2. seen \in Nat /\ MaxData \in Nat /\ seen <= MaxData
      BY <2>1, DetEvalConstants
    <3> HIDE DEF seen
    <3> QED  BY <3>1, <3>2
  <2> QED  BY <2>1, <2>3 DEF DetEvalTypeOK
<1> QED  BY <1>1, DetEvalInvHolds, PTL

(* The tables: rows counted by label.                                       *)
LEMMA CountedSplit ==
  ASSUME DetEvalInv, NEW p, NEW A, NEW B, NEW L, L = A \cup B, A \cap B = {}, NEW fired
  PROVE  /\ Counted(p, A, fired) \in Nat /\ Counted(p, B, fired) \in Nat
         /\ Counted(p, L, fired) = Counted(p, A, fired) + Counted(p, B, fired)
<1> DEFINE of(K) == {i \in DOMAIN rowsSeen :
                       rowsSeen[i].label \in K /\ (rowsSeen[i][p] >= 1) = fired}
<1>1. \A K : IsFiniteSet(of(K))
  <2>1. DOMAIN rowsSeen = 1..Len(rowsSeen) /\ Len(rowsSeen) \in Nat
    BY LenProperties DEF DetEvalInv
  <2>2. IsFiniteSet(DOMAIN rowsSeen)
    BY <2>1, FS_Interval
  <2> QED  BY <2>2, FS_Subset
<1>2. of(L) = of(A) \cup of(B) /\ of(A) \cap of(B) = {}
  OBVIOUS
<1>3. /\ Counted(p, A, fired) = Cardinality(of(A))
      /\ Counted(p, B, fired) = Cardinality(of(B))
      /\ Counted(p, L, fired) = Cardinality(of(L))
  BY DEF Counted
<1> HIDE DEF of
<1>4. Cardinality(of(A)) \in Nat /\ Cardinality(of(B)) \in Nat
  BY <1>1, FS_CardinalityType
<1>5. Cardinality(of(A) \cup of(B)) = Cardinality(of(A)) + Cardinality(of(B))
  <2>1. Cardinality(of(A) \cup of(B))
          = Cardinality(of(A)) + Cardinality(of(B)) - Cardinality(of(A) \cap of(B))
    BY <1>1, FS_Union
  <2>2. Cardinality(of(A) \cap of(B)) = 0
    BY <1>2, FS_EmptySet, Zenon
  <2> QED  BY <1>4, <2>1, <2>2
<1> QED  BY <1>2, <1>3, <1>4, <1>5

LEMMA CountedNext ==
  ASSUME DetEvalInv, NEW p, NEW fired, NEW A, NEW lbl, lbl \notin A, NEW L, L = A \cup {lbl}
  PROVE  /\ Counted(p, A, fired) \in Nat /\ Counted(p, {lbl}, fired) \in Nat
         /\ Counted(p, L, fired) = Counted(p, A, fired) + Counted(p, {lbl}, fired)
<1>1. PICK one : one = {lbl}
  OBVIOUS
<1>2. A \cap one = {} /\ L = A \cup one
  BY <1>1
<1> QED  BY <1>1, <1>2, CountedSplit

LEMMA CountedTo ==
  ASSUME DetEvalInv, NEW p, NEW fired, NEW k \in Nat
  PROVE  /\ Counted(p, 1..k, fired) \in Nat /\ Counted(p, {k + 1}, fired) \in Nat
         /\ Counted(p, 1..(k + 1), fired) = Counted(p, 1..k, fired) + Counted(p, {k + 1}, fired)
<1>1. PICK A : A = 1..k
  OBVIOUS
<1>2. PICK L : L = 1..(k + 1)
  OBVIOUS
<1>3. PICK lbl : lbl = k + 1
  OBVIOUS
<1>4. lbl \notin A /\ L = A \cup {lbl}
  BY <1>1, <1>2, <1>3
<1>5. /\ Counted(p, A, fired) \in Nat /\ Counted(p, {lbl}, fired) \in Nat
      /\ Counted(p, L, fired) = Counted(p, A, fired) + Counted(p, {lbl}, fired)
  BY <1>4, CountedNext
<1> QED  BY <1>1, <1>2, <1>3, <1>5, Zenon

LEMMA CountedByAttack ==
  ASSUME DetEvalInv, NEW p, NEW fired
  PROVE  Counted(p, 1..5, fired)
           = Counted(p, {1}, fired) + Counted(p, {2}, fired) + Counted(p, {3}, fired)
               + Counted(p, {4}, fired) + Counted(p, {5}, fired)
<1> DEFINE n(L) == Counted(p, L, fired)
<1>1. n(1..5) = n(1..4) + n({5}) /\ n(1..4) \in Nat /\ n({5}) \in Nat
  <2>1. 4 \in Nat /\ 4 + 1 = 5
    OBVIOUS
  <2> QED  BY <2>1, CountedTo, ZenonT(30)
<1>2. n(1..4) = n(1..3) + n({4}) /\ n(1..3) \in Nat /\ n({4}) \in Nat
  <2>1. 3 \in Nat /\ 3 + 1 = 4
    OBVIOUS
  <2> QED  BY <2>1, CountedTo, ZenonT(30)
<1>3. n(1..3) = n(1..2) + n({3}) /\ n(1..2) \in Nat /\ n({3}) \in Nat
  <2>1. 2 \in Nat /\ 2 + 1 = 3
    OBVIOUS
  <2> QED  BY <2>1, CountedTo, ZenonT(30)
<1>4. n(1..2) = n(1..1) + n({2}) /\ n(1..1) \in Nat /\ n({2}) \in Nat
  <2>1. 1 \in Nat /\ 1 + 1 = 2
    OBVIOUS
  <2> QED  BY <2>1, CountedTo, ZenonT(30)
<1>5. 1..1 = {1}
  OBVIOUS
<1> HIDE DEF n
<1>6. n(1..5) = n({1}) + n({2}) + n({3}) + n({4}) + n({5})
  BY <1>1, <1>2, <1>3, <1>4, <1>5
<1> QED  BY <1>6 DEF n

LEMMA BreakdownAgrees ==
  ASSUME DetEvalInv, NEW lbl
  PROVE  /\ Breakdown(lbl).either = Counted("hybrid", {lbl}, TRUE)
         /\ Breakdown(lbl).either + Breakdown(lbl).both = Breakdown(lbl).rule + Breakdown(lbl).lstm
<1> DEFINE fired(p) == {i \in DOMAIN rowsSeen : rowsSeen[i].label = lbl /\ rowsSeen[i][p] >= 1}
<1>1. DOMAIN rowsSeen = 1..Len(rowsSeen) /\ Len(rowsSeen) \in Nat
  BY LenProperties DEF DetEvalInv
<1>2. IsFiniteSet(fired("stage1")) /\ IsFiniteSet(fired("stage2"))
  <2>1. IsFiniteSet(DOMAIN rowsSeen)
    BY <1>1, FS_Interval
  <2> QED  BY <2>1, FS_Subset
<1>3. \A i \in DOMAIN rowsSeen :
        rowsSeen[i].hybrid >= 1 <=> rowsSeen[i].stage1 >= 1 \/ rowsSeen[i].stage2 >= 1
  <2> SUFFICES ASSUME NEW i \in DOMAIN rowsSeen
               PROVE  rowsSeen[i].hybrid >= 1
                        <=> rowsSeen[i].stage1 >= 1 \/ rowsSeen[i].stage2 >= 1
    OBVIOUS
  <2>1. rowsSeen[i] \in EvaluatedRow
    BY <1>1, ElementOfSeq DEF DetEvalInv
  <2> QED  BY <2>1 DEF EvaluatedRow
<1>4. fired("stage1") \cup fired("stage2") = fired("hybrid")
  BY <1>3
<1>5. Counted("hybrid", {lbl}, TRUE) = Cardinality(fired("hybrid"))
  <2>1. \A i \in DOMAIN rowsSeen :
          rowsSeen[i].label \in {lbl} /\ (rowsSeen[i]["hybrid"] >= 1) = TRUE
            <=> rowsSeen[i].label = lbl /\ rowsSeen[i]["hybrid"] >= 1
    <3> SUFFICES ASSUME NEW i \in DOMAIN rowsSeen
                 PROVE  (rowsSeen[i]["hybrid"] >= 1) \in BOOLEAN
      OBVIOUS
    <3>1. rowsSeen[i] \in EvaluatedRow
      BY <1>1, ElementOfSeq DEF DetEvalInv
    <3> QED  BY <3>1 DEF EvaluatedRow
  <2>2. {i \in DOMAIN rowsSeen :
           rowsSeen[i].label \in {lbl} /\ (rowsSeen[i]["hybrid"] >= 1) = TRUE} = fired("hybrid")
    BY <2>1
  <2> QED  BY <2>2 DEF Counted
<1>6. Breakdown(lbl) =
        [rule |-> Cardinality(fired("stage1")), lstm |-> Cardinality(fired("stage2")),
         both |-> Cardinality(fired("stage1") \cap fired("stage2")),
         either |-> Cardinality(fired("stage1") \cup fired("stage2"))]
  BY DEF Breakdown
<1> HIDE DEF fired
<1>7. /\ Breakdown(lbl).rule = Cardinality(fired("stage1"))
      /\ Breakdown(lbl).lstm = Cardinality(fired("stage2"))
      /\ Breakdown(lbl).both = Cardinality(fired("stage1") \cap fired("stage2"))
      /\ Breakdown(lbl).either = Cardinality(fired("stage1") \cup fired("stage2"))
  BY <1>6
<1>8. /\ Cardinality(fired("stage1") \cup fired("stage2"))
           = Cardinality(fired("stage1")) + Cardinality(fired("stage2"))
               - Cardinality(fired("stage1") \cap fired("stage2"))
      /\ Cardinality(fired("stage1")) \in Nat /\ Cardinality(fired("stage2")) \in Nat
      /\ Cardinality(fired("stage1") \cap fired("stage2")) \in Nat
  BY <1>2, FS_Union, FS_Intersection, FS_CardinalityType
<1>9. /\ Breakdown(lbl).either = Breakdown(lbl).rule + Breakdown(lbl).lstm - Breakdown(lbl).both
      /\ Breakdown(lbl).rule \in Nat /\ Breakdown(lbl).lstm \in Nat /\ Breakdown(lbl).both \in Nat
  BY <1>7, <1>8, Zenon
<1>10. \A b, r, l \in Nat : (r + l - b) + b = r + l
  OBVIOUS
<1>11. Breakdown(lbl).either + Breakdown(lbl).both = Breakdown(lbl).rule + Breakdown(lbl).lstm
  BY <1>9, <1>10
<1>12. Breakdown(lbl).either = Counted("hybrid", {lbl}, TRUE)
  BY <1>4, <1>5, <1>7
<1> QED  BY <1>11, <1>12

(* The tables of evaluate_detection are of the same rows: the attacks add   *)
(* up to the stage, each has the stage's false alarms, and what either      *)
(* stage finds is what the hybrid detects.                                  *)
THEOREM DetectionTables == DetEvalSpec => []TablesAgree
<1>1. DetEvalInv => TablesAgree
  <2> SUFFICES ASSUME DetEvalInv PROVE TablesAgree
    OBVIOUS
  <2>1. ASSUME NEW p \in Pipelines
        PROVE  /\ AttackMetrics(p, 1).tp + AttackMetrics(p, 2).tp + AttackMetrics(p, 3).tp
                    + AttackMetrics(p, 4).tp + AttackMetrics(p, 5).tp = StageMetrics(p).tp
               /\ AttackMetrics(p, 1).fn + AttackMetrics(p, 2).fn + AttackMetrics(p, 3).fn
                    + AttackMetrics(p, 4).fn + AttackMetrics(p, 5).fn = StageMetrics(p).fn
    BY CountedByAttack DEF AttackMetrics, StageMetrics
  <2>2. ASSUME NEW p \in Pipelines, NEW lbl \in 1..5
        PROVE  /\ AttackMetrics(p, lbl).fp = StageMetrics(p).fp
               /\ AttackMetrics(p, lbl).tn = StageMetrics(p).tn
    BY DEF AttackMetrics, StageMetrics
  <2> QED  BY <2>1, <2>2, BreakdownAgrees DEF TablesAgree
<1> QED  BY <1>1, DetEvalInvHolds, PTL

(***************************************************************************)
(* PerUeEval: sets of numbers in order.                                    *)
(***************************************************************************)
LEMMA PlaceInIs ==
  ASSUME NEW S, S \subseteq Int, IsFiniteSet(S)
  PROVE  /\ \A x \in S : PlaceIn(S, x) \in 1..Cardinality(S)
         /\ \A x, y \in S : x < y <=> PlaceIn(S, x) < PlaceIn(S, y)
         /\ \A k \in 1..Cardinality(S) : \E x \in S : PlaceIn(S, x) = k
         /\ Cardinality(S) \in Nat
<1> DEFINE upTo(x) == {z \in S : z <= x}
           n == Cardinality(S)
<1>1. n \in Nat
  BY FS_CardinalityType
<1>2. \A x : IsFiniteSet(upTo(x)) /\ Cardinality(upTo(x)) \in Nat /\ Cardinality(upTo(x)) <= n
  BY FS_Subset, FS_CardinalityType
<1>3. ASSUME NEW x \in S PROVE Cardinality(upTo(x)) >= 1
  <2>1. x \in upTo(x)
    OBVIOUS
  <2>2. upTo(x) # {}
    BY <2>1
  <2>3. Cardinality(upTo(x)) # 0
    BY <1>2, <2>2, FS_EmptySet
  <2> QED  BY <1>2, <2>3
<1>4. ASSUME NEW x \in S, NEW y \in S, x < y
      PROVE  Cardinality(upTo(x)) < Cardinality(upTo(y))
  <2>1. upTo(x) \subseteq upTo(y) /\ y \in upTo(y) /\ y \notin upTo(x)
    <3>1. \A a, b, z \in Int : a < b => (z <= a => z <= b) /\ ~(b <= a) /\ b <= b
      OBVIOUS
    <3>2. \A z \in S : z <= x => z <= y
      BY <1>4, <3>1
    <3>3. ~(y <= x) /\ y <= y
      BY <1>4, <3>1
    <3> QED  BY <3>2, <3>3
  <2>2. upTo(x) \in SUBSET upTo(y) /\ upTo(x) # upTo(y)
    BY <2>1
  <2> HIDE DEF upTo
  <2>3. /\ Cardinality(upTo(x)) <= Cardinality(upTo(y))
        /\ Cardinality(upTo(x)) # Cardinality(upTo(y))
    BY <1>2, <2>2, FS_Subset
  <2> QED  BY <1>2, <2>3
<1>5. \A x : PlaceIn(S, x) = Cardinality(upTo(x))
  BY DEF PlaceIn
<1> HIDE DEF upTo
<1>6. \A x \in S : PlaceIn(S, x) \in 1..n
  BY <1>1, <1>2, <1>3, <1>5
<1>7. \A x, y \in S : x < y <=> PlaceIn(S, x) < PlaceIn(S, y)
  <2> SUFFICES ASSUME NEW x \in S, NEW y \in S PROVE x < y <=> PlaceIn(S, x) < PlaceIn(S, y)
    OBVIOUS
  <2>1. x < y \/ x = y \/ y < x
    OBVIOUS
  <2>2. PlaceIn(S, x) \in Int /\ PlaceIn(S, y) \in Int
    BY <1>6
  <2>3. x < y => PlaceIn(S, x) < PlaceIn(S, y)
    BY <1>4, <1>5
  <2>4. y < x => PlaceIn(S, y) < PlaceIn(S, x)
    BY <1>4, <1>5
  <2> QED  BY <2>1, <2>2, <2>3, <2>4
<1> DEFINE f == [x \in S |-> PlaceIn(S, x)]
<1>8. f \in Surjection(S, 1..n)
  <2>1. f \in [S -> 1..n]
    BY <1>6
  <2>2. \A x, y \in S : f[x] = f[y] => x = y
    <3> SUFFICES ASSUME NEW x \in S, NEW y \in S, f[x] = f[y] PROVE x = y
      OBVIOUS
    <3>1. PlaceIn(S, x) = PlaceIn(S, y) /\ PlaceIn(S, x) \in Int
      BY <1>6
    <3>2. ~(x < y) /\ ~(y < x)
      BY <1>7, <3>1
    <3> QED  BY <3>2
  <2>3. f \in Injection(S, 1..n)
    BY <2>1, <2>2, Fun_IsInj
  <2>4. IsFiniteSet(1..n) /\ Cardinality(1..n) = n
    BY <1>1, FS_Interval
  <2> HIDE DEF f
  <2> QED  BY <2>3, <2>4, FS_Injection
<1>9. \A k \in 1..n : \E x \in S : PlaceIn(S, x) = k
  <2>1. \A k \in 1..n : \E x \in S : f[x] = k
    BY <1>8, Fun_SurjectionProperties DEF Surjection
  <2> QED  BY <2>1
<1> QED  BY <1>1, <1>6, <1>7, <1>9

LEMMA AscendingIs ==
  ASSUME NEW S, S \subseteq Int, IsFiniteSet(S)
  PROVE  /\ Ascending(S) \in Seq(S) /\ Len(Ascending(S)) = Cardinality(S)
         /\ Cardinality(S) \in Nat /\ DOMAIN Ascending(S) = 1..Cardinality(S)
         /\ \A k \in 1..Cardinality(S) : Ascending(S)[k] \in S /\ PlaceIn(S, Ascending(S)[k]) = k
         /\ \A x \in S : PlaceIn(S, x) \in 1..Cardinality(S) /\ Ascending(S)[PlaceIn(S, x)] = x
         /\ \A k, l \in 1..Cardinality(S) : k < l <=> Ascending(S)[k] < Ascending(S)[l]
<1> DEFINE n == Cardinality(S)
           a == Ascending(S)
<1>1. /\ \A x \in S : PlaceIn(S, x) \in 1..n
      /\ \A x, y \in S : x < y <=> PlaceIn(S, x) < PlaceIn(S, y)
      /\ \A k \in 1..n : \E x \in S : PlaceIn(S, x) = k
      /\ n \in Nat
  BY PlaceInIs
<1>2. a = [k \in 1..n |-> CHOOSE x \in S : PlaceIn(S, x) = k]
  BY DEF Ascending
<1> HIDE DEF n, a
<1>3. \A k \in 1..n : a[k] \in S /\ PlaceIn(S, a[k]) = k
  BY <1>1, <1>2
<1>4. a \in Seq(S) /\ Len(a) = n /\ DOMAIN a = 1..n
  <2>1. a \in [1..n -> S]
    BY <1>2, <1>3
  <2> QED  BY <1>1, <2>1, IsASeq, LenProperties
<1>5. \A x \in S : a[PlaceIn(S, x)] = x
  <2> SUFFICES ASSUME NEW x \in S PROVE a[PlaceIn(S, x)] = x
    OBVIOUS
  <2>1. PICK y : y = a[PlaceIn(S, x)]
    OBVIOUS
  <2>2. y \in S /\ PlaceIn(S, y) = PlaceIn(S, x) /\ PlaceIn(S, x) \in Int
    BY <1>1, <1>3, <2>1
  <2>3. ~(x < y) /\ ~(y < x)
    BY <1>1, <2>2
  <2>4. x \in Int /\ y \in Int
    BY <2>2
  <2> QED  BY <2>1, <2>3, <2>4
<1>6. \A k, l \in 1..n : k < l <=> a[k] < a[l]
  <2> SUFFICES ASSUME NEW k \in 1..n, NEW l \in 1..n PROVE k < l <=> a[k] < a[l]
    OBVIOUS
  <2>1. PICK x \in S, y \in S : x = a[k] /\ y = a[l] /\ PlaceIn(S, x) = k /\ PlaceIn(S, y) = l
    BY <1>3
  <2>2. x < y <=> PlaceIn(S, x) < PlaceIn(S, y)
    BY <1>1
  <2> QED  BY <2>1, <2>2
<1> QED  BY <1>1, <1>3, <1>4, <1>5, <1>6 DEF n, a

\* The first members are the members up to a bound.
MembersTo(S, t) == {y \in S : y <= t}
LEMMA AscendingPrefix ==
  ASSUME NEW S, S \subseteq Int, IsFiniteSet(S), NEW t \in Int
  PROVE  /\ IsFiniteSet(MembersTo(S, t)) /\ Cardinality(MembersTo(S, t)) = PlaceIn(S, t)
         /\ Cardinality(MembersTo(S, t)) \in Nat /\ Cardinality(MembersTo(S, t)) <= Cardinality(S)
         /\ \A x \in MembersTo(S, t) : PlaceIn(MembersTo(S, t), x) = PlaceIn(S, x)
         /\ \A k \in 1..Cardinality(MembersTo(S, t)) : Ascending(MembersTo(S, t))[k] = Ascending(S)[k]
<1> DEFINE T == MembersTo(S, t)
<1>0. T = {y \in S : y <= t}
  BY DEF MembersTo
<1> HIDE DEF T
<1>1. T \subseteq S /\ T \in SUBSET S
  BY <1>0
<1>2. IsFiniteSet(T) /\ Cardinality(T) <= Cardinality(S) /\ Cardinality(T) \in Nat
  BY <1>1, FS_Subset, FS_CardinalityType
<1>3. \A x \in T : PlaceIn(T, x) = PlaceIn(S, x)
  <2> SUFFICES ASSUME NEW x \in T PROVE PlaceIn(T, x) = PlaceIn(S, x)
    OBVIOUS
  <2>1. \A y \in Int : y <= x => y <= t
    BY <1>0
  <2>2. {y \in T : y <= x} = {y \in S : y <= x}
    BY <1>0, <2>1
  <2> QED  BY <2>2 DEF PlaceIn
<1>4. ASSUME NEW k \in 1..Cardinality(T) PROVE Ascending(T)[k] = Ascending(S)[k]
  <2>1. PICK x \in T : x = Ascending(T)[k] /\ PlaceIn(T, x) = k
    BY <1>1, <1>2, <1>4, AscendingIs
  <2>2. PlaceIn(S, x) = k /\ x \in S
    BY <1>1, <1>3, <2>1
  <2>3. Ascending(S)[PlaceIn(S, x)] = x
    BY <2>2, AscendingIs
  <2> QED  BY <2>1, <2>2, <2>3
<1>5. Cardinality(T) = PlaceIn(S, t)
  BY <1>0 DEF PlaceIn
<1> QED  BY <1>2, <1>3, <1>4, <1>5 DEF T

(* The offsets of blocks of given lengths. *)
LEMMA SumsGrow ==
  ASSUME NEW lens \in Seq(Nat), NEW off, IsSum(off, lens, Len(lens))
  PROVE  /\ \A b \in 0..Len(lens) : off[b] \in Nat
         /\ off[0] = 0
         /\ \A b \in 1..Len(lens) : off[b] = off[b - 1] + lens[b]
         /\ \A b, c \in 0..Len(lens) : b <= c => off[b] <= off[c]
         /\ \A p \in 1..off[Len(lens)] :
              \E b \in 1..Len(lens) : off[b - 1] < p /\ p <= off[b]
<1> DEFINE B == Len(lens)
<1>1. B \in Nat /\ \A b \in 1..B : lens[b] \in Nat
  BY LenProperties, ElementOfSeq
<1>2. off[0] = 0 /\ \A b \in 1..B : off[b] = off[b - 1] + lens[b]
  BY <1>1 DEF IsSum
<1> HIDE DEF B
<1>3. \A b \in 0..B : off[b] \in Nat
  <2> DEFINE P == {n \in Nat : n <= B => off[n] \in Nat}
  <2>1. 0 \in P
    BY <1>2
  <2>2. ASSUME NEW n \in Nat, n \in P PROVE n + 1 \in P
    <3> SUFFICES ASSUME n + 1 <= B PROVE off[n + 1] \in Nat
      OBVIOUS
    <3>1. n + 1 \in 1..B /\ (n + 1) - 1 = n /\ n <= B
      BY <1>1
    <3>2. off[n + 1] = off[n] + lens[n + 1] /\ lens[n + 1] \in Nat /\ off[n] \in Nat
      BY <1>1, <1>2, <2>2, <3>1
    <3> QED  BY <3>2
  <2> HIDE DEF P
  <2>3. \A n \in Nat : n \in P
    BY <2>1, <2>2, AllNaturals
  <2> QED  BY <1>1, <2>3 DEF P
<1>4. \A b, c \in 0..B : b <= c => off[b] <= off[c]
  <2> SUFFICES ASSUME NEW b \in 0..B PROVE \A c \in 0..B : b <= c => off[b] <= off[c]
    OBVIOUS
  <2> DEFINE P == {n \in Nat : b + n <= B => off[b] <= off[b + n]}
  <2>1. 0 \in P
    BY <1>3
  <2>2. ASSUME NEW n \in Nat, n \in P PROVE n + 1 \in P
    <3> SUFFICES ASSUME b + (n + 1) <= B PROVE off[b] <= off[b + (n + 1)]
      OBVIOUS
    <3>1. PICK m \in 1..B : m = b + (n + 1)
      BY <1>1
    <3>2. m - 1 = b + n /\ m - 1 \in 0..B
      BY <1>1, <3>1
    <3>3. /\ off[m] = off[m - 1] + lens[m] /\ lens[m] \in Nat /\ off[m - 1] \in Nat
          /\ off[b] \in Nat /\ off[b] <= off[m - 1]
      BY <1>1, <1>2, <1>3, <2>2, <3>2
    <3>4. off[b] <= off[m]
      BY <3>3
    <3> QED  BY <3>1, <3>4
  <2> HIDE DEF P
  <2>3. \A n \in Nat : n \in P
    BY <2>1, <2>2, AllNaturals
  <2> SUFFICES ASSUME NEW c \in 0..B, b <= c PROVE off[b] <= off[c]
    OBVIOUS
  <2>4. c - b \in Nat /\ b + (c - b) = c /\ c <= B
    BY <1>1
  <2>5. c - b \in P
    BY <2>3, <2>4
  <2>6. off[b] <= off[b + (c - b)]
    BY <2>4, <2>5 DEF P
  <2> QED  BY <2>4, <2>6
<1>5. ASSUME NEW p \in 1..off[B] PROVE \E b \in 1..B : off[b - 1] < p /\ p <= off[b]
  <2> DEFINE R == {b \in 0..B : p <= off[b]}
  <2>0. off[B] \in Nat
    BY <1>1, <1>3
  <2>1. R \subseteq Nat /\ B \in R
    BY <1>1, <2>0
  <2>2. PICK b \in R : \A c \in R : b <= c
    <3>1. R # {}
      BY <2>1
    <3> HIDE DEF R
    <3> QED  BY <2>1, <3>1, LeastExists
  <2>3. b # 0
    BY <1>2, <2>0
  <2>4. b \in 1..B /\ b - 1 \in 0..B /\ b - 1 < b /\ p <= off[b]
    BY <1>1, <2>3
  <2>5. b - 1 \notin R
    BY <2>2, <2>4
  <2>6. off[b - 1] < p
    BY <1>3, <2>0, <2>4, <2>5
  <2> QED  BY <2>4, <2>6
<1> QED  BY <1>2, <1>3, <1>4, <1>5 DEF B

\* The concatenations of the first blocks.
FlattensTo(f, seqs, n) ==
  f = [i \in 1..n |-> IF i = 1 THEN seqs[i] ELSE f[i - 1] \o seqs[i]]

LEMMA FlatExists ==
  ASSUME NEW seqs
  PROVE  \A n \in Nat : \E f : FlattensTo(f, seqs, n)
<1> DEFINE P == {n \in Nat : \E f : FlattensTo(f, seqs, n)}
<1>1. 0 \in P
  <2>1. \A f : FlattensTo([i \in 1..0 |-> 0], seqs, 0)
    BY DEF FlattensTo
  <2> QED  BY <2>1
<1>2. ASSUME NEW n \in Nat, n \in P PROVE n + 1 \in P
  <2>1. PICK f : FlattensTo(f, seqs, n)
    BY <1>2
  <2> DEFINE g == [i \in 1..(n + 1) |-> IF i = n + 1 THEN IF i = 1 THEN seqs[i] ELSE f[n] \o seqs[i]
                                        ELSE f[i]]
  <2>2. \A i \in 1..n : g[i] = f[i] /\ f[i] = IF i = 1 THEN seqs[i] ELSE f[i - 1] \o seqs[i]
    <3>1. \A i \in 1..n : f[i] = IF i = 1 THEN seqs[i] ELSE f[i - 1] \o seqs[i]
      BY <2>1, Zenon DEF FlattensTo
    <3>2. \A i \in 1..n : i \in 1..(n + 1) /\ i # n + 1
      OBVIOUS
    <3>3. \A i \in 1..n : g[i] = f[i]
      BY <3>2, Zenon
    <3> QED  BY <3>1, <3>3
  <2>3. ASSUME NEW i \in 1..(n + 1)
        PROVE  g[i] = IF i = 1 THEN seqs[i] ELSE g[i - 1] \o seqs[i]
    <3>1. CASE i = n + 1
      <4>1. i # 1 => i - 1 = n /\ n \in 1..n /\ g[n] = f[n]
        BY <3>1, <2>2
      <4> QED  BY <3>1, <4>1
    <3>2. CASE i # n + 1
      <4>1. i \in 1..n /\ (i # 1 => i - 1 \in 1..n)
        BY <3>2
      <4>2. g[i] = IF i = 1 THEN seqs[i] ELSE f[i - 1] \o seqs[i]
        BY <2>2, <4>1, Zenon
      <4>3. i # 1 => g[i - 1] = f[i - 1]
        BY <2>2, <4>1, Zenon
      <4> HIDE DEF g
      <4> QED  BY <4>2, <4>3, Zenon
    <3> QED  BY <3>1, <3>2
  <2>4. g = [i \in 1..(n + 1) |-> g[i]]
    OBVIOUS
  <2> HIDE DEF g
  <2>5. FlattensTo(g, seqs, n + 1)
    BY <2>3, <2>4 DEF FlattensTo
  <2> QED  BY <2>5
<1> HIDE DEF P
<1>3. \A n \in Nat : n \in P
  BY <1>1, <1>2, AllNaturals
<1> QED  BY <1>3 DEF P

LEMMA FlattenIs ==
  ASSUME NEW T, NEW seqs \in Seq(Seq(T)), NEW off,
         IsSum(off, [b \in 1..Len(seqs) |-> Len(seqs[b])], Len(seqs))
  PROVE  /\ FlattenSeq(seqs) \in Seq(T)
         /\ Len(FlattenSeq(seqs)) = off[Len(seqs)]
         /\ \A b \in 1..Len(seqs) : \A k \in 1..Len(seqs[b]) :
              FlattenSeq(seqs)[off[b - 1] + k] = seqs[b][k]
<1> DEFINE B == Len(seqs)
           lens == [b \in 1..B |-> Len(seqs[b])]
<1>1. B \in Nat /\ \A b \in 1..B : seqs[b] \in Seq(T) /\ Len(seqs[b]) \in Nat
  BY LenProperties, ElementOfSeq
<1>2. lens \in Seq(Nat) /\ Len(lens) = B
  BY <1>1, IsASeq, LenProperties
<1>3. /\ \A b \in 0..B : off[b] \in Nat
      /\ off[0] = 0
      /\ \A b \in 1..B : off[b] = off[b - 1] + Len(seqs[b])
      /\ \A b, c \in 0..B : b <= c => off[b] <= off[c]
  <2>1. IsSum(off, lens, Len(lens))
    BY <1>2
  <2>2. /\ \A b \in 0..B : off[b] \in Nat
        /\ off[0] = 0
        /\ \A b \in 1..B : off[b] = off[b - 1] + lens[b]
        /\ \A b, c \in 0..B : b <= c => off[b] <= off[c]
    BY <1>2, <2>1, SumsGrow, ZenonT(30)
  <2> QED  BY <2>2
<1> HIDE DEF lens
<1>4. CASE B = 0
  <2>1. FlattenSeq(seqs) = seqs /\ seqs = <<>>
    <3>1. Len(seqs) = 0
      BY <1>4
    <3>2. FlattenSeq(seqs) = seqs
      BY <3>1, Zenon DEF FlattenSeq
    <3> QED  BY <3>1, <3>2, EmptySeq
  <2>2. seqs \in Seq(T) /\ 1..B = {}
    BY <1>4, <2>1, EmptySeq
  <2> QED  BY <1>3, <1>4, <2>1, <2>2
<1>5. CASE B # 0
  <2> DEFINE f == CHOOSE x : FlattensTo(x, seqs, Len(seqs))
  <2>1. FlattensTo(f, seqs, B)
    BY <1>1, FlatExists
  <2>2. FlattenSeq(seqs) = f[B]
    BY <1>5 DEF FlattenSeq, FlattensTo
  <2> HIDE DEF f, B
  <2>3. f[1] = seqs[1] /\ \A i \in 2..B : f[i] = f[i - 1] \o seqs[i]
    <3>1. 1 \in 1..B /\ \A i \in 2..B : i \in 1..B /\ i # 1
      BY <1>1, <1>5
    <3> QED  BY <2>1, <3>1 DEF FlattensTo
  <2> DEFINE OK(n) == /\ f[n] \in Seq(T) /\ Len(f[n]) = off[n]
                      /\ \A b \in 1..n : \A k \in 1..Len(seqs[b]) : f[n][off[b - 1] + k] = seqs[b][k]
             P == {n \in Nat : n \in 1..B => OK(n)}
  <2>4. 0 \in P
    OBVIOUS
  <2>5. ASSUME NEW n \in Nat, n \in P PROVE n + 1 \in P
    <3> SUFFICES ASSUME n + 1 \in 1..B PROVE OK(n + 1)
      OBVIOUS
    <3>1. CASE n = 0
      <4>1. f[1] \in Seq(T) /\ off[1] = off[0] + Len(seqs[1]) /\ off[0] = 0 /\ 1 - 1 = 0
        BY <1>1, <1>3, <2>3, <3>1
      <4>2. Len(f[1]) = off[1]
        BY <1>1, <1>3, <2>3, <3>1, <4>1
      <4>3. \A b \in 1..1 : \A k \in 1..Len(seqs[b]) : f[1][off[b - 1] + k] = seqs[b][k]
        BY <2>3, <4>1
      <4> QED  BY <3>1, <4>1, <4>2, <4>3
    <3>2. CASE n # 0
      <4>1. n \in 1..B /\ n + 1 \in 2..B /\ (n + 1) - 1 = n
        BY <1>1, <3>2
      <4>2. OK(n)
        BY <2>5, <4>1
      <4>3. PICK s : s = seqs[n + 1]
        OBVIOUS
      <4>4. f[n + 1] = f[n] \o s /\ s \in Seq(T) /\ Len(s) \in Nat /\ off[n + 1] = off[n] + Len(s)
        BY <1>1, <1>3, <2>3, <4>1, <4>3
      <4>5. f[n] \in Seq(T) /\ Len(f[n]) = off[n] /\ off[n] \in Nat
        BY <1>3, <4>1, <4>2
      <4>6. /\ f[n + 1] \in Seq(T) /\ Len(f[n + 1]) = off[n + 1]
            /\ \A i \in 1..(off[n] + Len(s)) :
                 f[n + 1][i] = IF i <= off[n] THEN f[n][i] ELSE s[i - off[n]]
        BY <4>4, <4>5, ConcatProperties
      <4>7. ASSUME NEW b \in 1..(n + 1), NEW k \in 1..Len(seqs[b])
            PROVE  f[n + 1][off[b - 1] + k] = seqs[b][k]
        <5>1. CASE b = n + 1
          <6>1. off[b - 1] = off[n] /\ seqs[b] = s /\ k \in 1..Len(s)
            BY <4>1, <4>3, <5>1
          <6>2. off[n] + k \in 1..(off[n] + Len(s)) /\ ~(off[n] + k <= off[n])
                 /\ (off[n] + k) - off[n] = k
            BY <4>4, <4>5, <6>1, SMTT(30)
          <6> QED  BY <4>6, <6>1, <6>2
        <5>2. CASE b # n + 1
          <6>1. b \in 1..n /\ b - 1 \in 0..B /\ b \in 0..B /\ b \in 1..B /\ n \in 0..B /\ b <= n
            BY <1>1, <4>1, <5>2
          <6>2. f[n][off[b - 1] + k] = seqs[b][k]
            BY <4>2, <6>1
          <6>3. off[b] = off[b - 1] + Len(seqs[b]) /\ off[b] <= off[n] /\ off[b - 1] \in Nat
                /\ off[b] \in Nat /\ Len(seqs[b]) \in Nat
            BY <1>1, <1>3, <6>1
          <6>4. off[b - 1] + k <= off[n] /\ off[b - 1] + k \in 1..(off[n] + Len(s))
            <7>1. PICK x \in Nat : x = off[b - 1]
              BY <6>3
            <7>2. PICK y \in Nat : y = off[n]
              BY <4>5
            <7>3. PICK l \in Nat : l = Len(seqs[b])
              BY <6>3
            <7>4. k \in 1..l /\ x + l <= y
              BY <6>3, <7>1, <7>2, <7>3
            <7>5. PICK m \in Nat : m = Len(s)
              BY <4>4
            <7>6. k \in Nat /\ k >= 1 /\ k <= l
              BY <7>4
            <7>7. x + k <= y /\ x + k \in 1..(y + m)
              BY <7>4, <7>6
            <7> QED  BY <7>1, <7>2, <7>5, <7>7
          <6> QED  BY <4>6, <6>2, <6>4
        <5> QED  BY <5>1, <5>2
      <4> QED  BY <4>6, <4>7
    <3> QED  BY <3>1, <3>2
  <2> HIDE DEF P
  <2>6. B \in P
    BY <1>1, <2>4, <2>5, AllNaturals
  <2>7. B \in 1..B
    BY <1>1, <1>5
  <2>8. OK(B)
    BY <1>1, <2>6, <2>7 DEF P
  <2> QED  BY <2>2, <2>8 DEF B
<1> QED  BY <1>4, <1>5

LEMMA BlocksInOrder ==
  ASSUME NEW lens \in Seq(Nat), NEW off, IsSum(off, lens, Len(lens)),
         NEW b \in 1..Len(lens), NEW c \in 1..Len(lens),
         NEW k \in 1..lens[b], NEW l \in 1..lens[c], off[b - 1] + k <= off[c - 1] + l
  PROVE  b <= c /\ off[b - 1] + k \in 1..off[Len(lens)]
<1> DEFINE B == Len(lens)
<1>0. B \in Nat /\ lens[b] \in Nat /\ lens[c] \in Nat
  BY LenProperties, ElementOfSeq
<1>1. /\ \A i \in 0..B : off[i] \in Nat
      /\ \A i \in 1..B : off[i] = off[i - 1] + lens[i]
      /\ \A i, j \in 0..B : i <= j => off[i] <= off[j]
  BY SumsGrow
<1> HIDE DEF B
<1>2. /\ b \in 0..B /\ b - 1 \in 0..B /\ c \in 0..B /\ c - 1 \in 0..B /\ B \in 0..B
      /\ b \in Int /\ c \in Int /\ b \in 1..B /\ c \in 1..B
  BY <1>0 DEF B
<1>3. PICK x \in Nat, y \in Nat, m \in Nat : x = off[b - 1] /\ y = off[b] /\ m = lens[b] /\ y = x + m
  BY <1>0, <1>1, <1>2
<1>4. PICK u \in Nat, v \in Nat, n \in Nat : u = off[c - 1] /\ v = off[c] /\ n = lens[c] /\ v = u + n
  BY <1>0, <1>1, <1>2
<1>5. PICK z \in Nat : z = off[B] /\ y <= z
  <2>1. b <= B
    BY <1>2
  <2>2. off[b] <= off[B] /\ off[B] \in Nat
    BY <1>1, <1>2, <2>1
  <2> QED  BY <1>3, <2>2
<1>6. k \in 1..m /\ l \in 1..n /\ x + k <= u + l
  BY <1>3, <1>4
<1>7. b <= c
  <2> SUFFICES ASSUME b > c PROVE FALSE
    BY <1>2
  <2>1. c <= b - 1
    BY <1>2
  <2>2. v <= x
    BY <1>1, <1>2, <1>3, <1>4, <2>1
  <2>3. k >= 1 /\ l <= n /\ k \in Int /\ l \in Int
    BY <1>6
  <2>4. u + n <= x
    BY <1>4, <2>2
  <2>5. x + k <= u + l
    BY <1>6
  <2> QED  BY <2>3, <2>4, <2>5
<1>8. x + k \in 1..z
  <2>1. k >= 1 /\ k <= m /\ k \in Int
    BY <1>6
  <2>2. x + m <= z
    BY <1>3, <1>5
  <2> QED  BY <2>1, <2>2
<1> QED  BY <1>3, <1>5, <1>7, <1>8 DEF B

-----------------------------------------------------------------------------
(* The rows of a UE.                                                        *)
HasUes(rows) ==
  /\ \E T : rows \in Seq(T)
  /\ \A i \in DOMAIN rows : rows[i].ue \in Nat

LEMMA RowsAtIs ==
  ASSUME NEW T, NEW rows \in Seq(T), NEW P, P \subseteq DOMAIN rows
  PROVE  /\ P \subseteq Int /\ IsFiniteSet(P) /\ Cardinality(P) \in Nat
         /\ RowsAt(rows, P) \in Seq(T) /\ Len(RowsAt(rows, P)) = Cardinality(P)
         /\ DOMAIN RowsAt(rows, P) = 1..Cardinality(P)
         /\ \A k \in 1..Cardinality(P) :
              RowsAt(rows, P)[k] = rows[Ascending(P)[k]] /\ Ascending(P)[k] \in P
         /\ \A i \in P : /\ PlaceIn(P, i) \in 1..Cardinality(P)
                         /\ RowsAt(rows, P)[PlaceIn(P, i)] = rows[i]
<1>1. DOMAIN rows = 1..Len(rows) /\ Len(rows) \in Nat /\ \A i \in DOMAIN rows : rows[i] \in T
  BY LenProperties, ElementOfSeq
<1>2. P \subseteq Int /\ IsFiniteSet(P) /\ Cardinality(P) \in Nat
  <2>1. IsFiniteSet(DOMAIN rows) /\ DOMAIN rows \subseteq Int
    BY <1>1, FS_Interval
  <2> QED  BY <2>1, FS_Subset, FS_CardinalityType
<1> DEFINE n == Cardinality(P)
           a == Ascending(P)
<1>3. /\ DOMAIN a = 1..n /\ n \in Nat
      /\ \A k \in 1..n : a[k] \in P /\ PlaceIn(P, a[k]) = k
      /\ \A i \in P : PlaceIn(P, i) \in 1..n /\ a[PlaceIn(P, i)] = i
  BY <1>2, AscendingIs
<1>4. RowsAt(rows, P) = [k \in 1..n |-> rows[a[k]]]
  BY <1>3 DEF RowsAt
<1> HIDE DEF a, n
<1>5. RowsAt(rows, P) \in [1..n -> T]
  BY <1>1, <1>3, <1>4
<1>6. RowsAt(rows, P) \in Seq(T) /\ Len(RowsAt(rows, P)) = n /\ DOMAIN RowsAt(rows, P) = 1..n
  BY <1>3, <1>5, IsASeq, LenProperties
<1> QED  BY <1>2, <1>3, <1>4, <1>6 DEF a, n

LEMMA GroupIs ==
  ASSUME NEW rows, HasUes(rows), NEW ue
  PROVE  /\ PlacesOf(rows, ue) \subseteq Int /\ IsFiniteSet(PlacesOf(rows, ue))
         /\ Len(SplitByRnti(rows, ue)) = Cardinality(PlacesOf(rows, ue))
         /\ Cardinality(PlacesOf(rows, ue)) \in Nat
         /\ DOMAIN SplitByRnti(rows, ue) = 1..Cardinality(PlacesOf(rows, ue))
         /\ \E T : SplitByRnti(rows, ue) \in Seq(T) /\ rows \in Seq(T)
         /\ \A k \in 1..Cardinality(PlacesOf(rows, ue)) :
              /\ SplitByRnti(rows, ue)[k] = rows[Ascending(PlacesOf(rows, ue))[k]]
              /\ Ascending(PlacesOf(rows, ue))[k] \in PlacesOf(rows, ue)
         /\ \A i \in PlacesOf(rows, ue) :
              /\ PlaceIn(PlacesOf(rows, ue), i) \in 1..Cardinality(PlacesOf(rows, ue))
              /\ SplitByRnti(rows, ue)[PlaceIn(PlacesOf(rows, ue), i)] = rows[i]
<1>1. PICK T : rows \in Seq(T)
  BY DEF HasUes
<1>2. PICK P : P = PlacesOf(rows, ue)
  OBVIOUS
<1>3. P \subseteq DOMAIN rows
  BY <1>2 DEF PlacesOf
<1>4. SplitByRnti(rows, ue) = RowsAt(rows, P)
  BY <1>2 DEF SplitByRnti
<1>5. /\ P \subseteq Int /\ IsFiniteSet(P) /\ Cardinality(P) \in Nat
      /\ RowsAt(rows, P) \in Seq(T) /\ Len(RowsAt(rows, P)) = Cardinality(P)
      /\ DOMAIN RowsAt(rows, P) = 1..Cardinality(P)
      /\ \A k \in 1..Cardinality(P) :
           RowsAt(rows, P)[k] = rows[Ascending(P)[k]] /\ Ascending(P)[k] \in P
      /\ \A i \in P : /\ PlaceIn(P, i) \in 1..Cardinality(P)
                      /\ RowsAt(rows, P)[PlaceIn(P, i)] = rows[i]
  BY <1>1, <1>3, RowsAtIs
<1> QED  BY <1>1, <1>2, <1>4, <1>5, Zenon

LEMMA UesAre ==
  ASSUME NEW rows, HasUes(rows)
  PROVE  /\ UeSet(rows) \subseteq Nat /\ IsFiniteSet(UeSet(rows))
         /\ Cardinality(UeSet(rows)) \in Nat /\ Len(Ues(rows)) = Cardinality(UeSet(rows))
         /\ DOMAIN Ues(rows) = 1..Len(Ues(rows)) /\ Ues(rows) \in Seq(UeSet(rows))
         /\ \A b \in 1..Len(Ues(rows)) :
              Ues(rows)[b] \in UeSet(rows) /\ PlaceIn(UeSet(rows), Ues(rows)[b]) = b
         /\ \A ue \in UeSet(rows) :
              /\ PlaceIn(UeSet(rows), ue) \in 1..Len(Ues(rows))
              /\ Ues(rows)[PlaceIn(UeSet(rows), ue)] = ue
         /\ \A b, c \in 1..Len(Ues(rows)) : b < c <=> Ues(rows)[b] < Ues(rows)[c]
<1>1. PICK T : rows \in Seq(T)
  BY DEF HasUes
<1>2. DOMAIN rows = 1..Len(rows) /\ Len(rows) \in Nat
  BY <1>1, LenProperties
<1>3. IsFiniteSet(DOMAIN rows)
  BY <1>2, FS_Interval
<1> DEFINE f == [i \in DOMAIN rows |-> rows[i].ue]
<1>4. f \in Surjection(DOMAIN rows, UeSet(rows))
  <2>1. f \in [DOMAIN rows -> UeSet(rows)] /\ \A ue \in UeSet(rows) : \E i \in DOMAIN rows : f[i] = ue
    BY DEF UeSet
  <2> QED  BY <2>1, Fun_IsSurj
<1>5. IsFiniteSet(UeSet(rows))
  BY <1>3, <1>4, FS_Surjection
<1>6. UeSet(rows) \subseteq Nat /\ UeSet(rows) \subseteq Int
  BY DEF UeSet, HasUes
<1> QED  BY <1>5, <1>6, AscendingIs DEF Ues

(* A row's number among its UE's rows; the rows a window ends in.           *)
Nth(rows, i) == PlaceIn(PlacesOf(rows, rows[i].ue), i)
WindowRows(rows) == {i \in DOMAIN rows : Nth(rows, i) >= W}
BlockLen(group) == IF Len(group) >= W THEN Len(group) - W + 1 ELSE 0
\* The blocks of a pool have as many entries as the UEs have windows.
AreBlocks(seqs, rows) ==
  /\ \E T : seqs \in Seq(Seq(T))
  /\ Len(seqs) = Len(Ues(rows))
  /\ \A b \in 1..Len(seqs) : Len(seqs[b]) = BlockLen(SplitByRnti(rows, Ues(rows)[b]))
\* at: the row each entry of the pool is made from, in the order of the pool.
PoolOrder(at, n, rows) ==
  /\ at \in [1..n -> WindowRows(rows)]
  /\ \A i \in WindowRows(rows) : \E p \in 1..n : at[p] = i
  /\ \A p, q \in 1..n : p < q =>
       \/ rows[at[p]].ue < rows[at[q]].ue
       \/ rows[at[p]].ue = rows[at[q]].ue /\ at[p] < at[q]
BlockOf(rows, i) == PlaceIn(UeSet(rows), rows[i].ue)

LEMMA EvalConstants == W \in Nat /\ W > 0 /\ Threshold \in Nat /\ \A r \in DOMAIN Need : Need[r] \in Nat /\ Need[r] > 0
<1>1. \A n \in Nat \ {0} : n \in Nat /\ n > 0
  OBVIOUS
<1>2. W \in Nat \ {0} /\ Threshold \in Nat /\ \A r \in DOMAIN Need : Need[r] \in Nat \ {0}
  BY EvalAssumption
<1> QED  BY <1>1, <1>2

\* A row is the Nth of its UE.
LEMMA NthIs ==
  ASSUME NEW rows, HasUes(rows), NEW i \in DOMAIN rows, NEW ue, ue = rows[i].ue
  PROVE  /\ ue \in UeSet(rows) /\ i \in PlacesOf(rows, ue)
         /\ Nth(rows, i) = PlaceIn(PlacesOf(rows, ue), i)
         /\ Nth(rows, i) \in 1..Len(SplitByRnti(rows, ue))
         /\ SplitByRnti(rows, ue)[Nth(rows, i)] = rows[i]
         /\ Ascending(PlacesOf(rows, ue))[Nth(rows, i)] = i
<1>1. ue \in UeSet(rows) /\ i \in PlacesOf(rows, ue)
  BY DEF UeSet, PlacesOf
<1>2. Nth(rows, i) = PlaceIn(PlacesOf(rows, ue), i)
  BY DEF Nth
<1>3. PlacesOf(rows, ue) \subseteq Int /\ IsFiniteSet(PlacesOf(rows, ue))
  BY GroupIs
<1> QED  BY <1>1, <1>2, <1>3, GroupIs, AscendingIs

\* The same for some of the UEs, those with a window among them.
HoldsWindows(U, rows) ==
  U \subseteq UeSet(rows) /\ \A i \in WindowRows(rows) : rows[i].ue \in U
AreBlocksOf(seqs, rows, U) ==
  /\ \E T : seqs \in Seq(Seq(T))
  /\ Len(seqs) = Len(Ascending(U))
  /\ \A b \in 1..Len(seqs) : Len(seqs[b]) = BlockLen(SplitByRnti(rows, Ascending(U)[b]))

LEMMA SomeUesAre ==
  ASSUME NEW rows, HasUes(rows), NEW U, U \subseteq UeSet(rows)
  PROVE  /\ U \subseteq Nat /\ IsFiniteSet(U) /\ Cardinality(U) \in Nat
         /\ Len(Ascending(U)) = Cardinality(U) /\ DOMAIN Ascending(U) = 1..Len(Ascending(U))
         /\ \A b \in 1..Len(Ascending(U)) :
              Ascending(U)[b] \in U /\ PlaceIn(U, Ascending(U)[b]) = b
         /\ \A ue \in U :
              /\ PlaceIn(U, ue) \in 1..Len(Ascending(U))
              /\ Ascending(U)[PlaceIn(U, ue)] = ue
         /\ \A b, c \in 1..Len(Ascending(U)) : b < c <=> Ascending(U)[b] < Ascending(U)[c]
<1>1. UeSet(rows) \subseteq Nat /\ IsFiniteSet(UeSet(rows))
  BY UesAre
<1>2. U \subseteq Nat /\ U \subseteq Int /\ IsFiniteSet(U)
  BY <1>1, FS_Subset
<1> QED  BY <1>2, AscendingIs

LEMMA PoolPlacesOf ==
  ASSUME NEW rows, HasUes(rows), NEW U, HoldsWindows(U, rows), NEW seqs, AreBlocksOf(seqs, rows, U)
  PROVE  /\ \E T : FlattenSeq(seqs) \in Seq(T)
         /\ \E at : /\ PoolOrder(at, Len(FlattenSeq(seqs)), rows)
                    /\ \A p \in 1..Len(FlattenSeq(seqs)) :
                         /\ PlaceIn(U, rows[at[p]].ue) \in 1..Len(seqs)
                         /\ FlattenSeq(seqs)[p] = seqs[PlaceIn(U, rows[at[p]].ue)][Nth(rows, at[p]) - W + 1]
<1>0. U \subseteq UeSet(rows) /\ \A i \in WindowRows(rows) : rows[i].ue \in U
  BY DEF HoldsWindows
<1> DEFINE B == Len(seqs)
           lens == [b \in 1..B |-> Len(seqs[b])]
           flat == FlattenSeq(seqs)
<1>1. PICK T : seqs \in Seq(Seq(T))
  BY DEF AreBlocksOf
<1>2. B \in Nat /\ \A b \in 1..B : Len(seqs[b]) \in Nat
  BY <1>1, LenProperties, ElementOfSeq
<1>3. lens \in Seq(Nat) /\ Len(lens) = B /\ \A b \in 1..B : lens[b] = Len(seqs[b])
  BY <1>2, IsASeq, LenProperties
<1>4. PICK off : IsSum(off, lens, B)
  BY <1>2, SumExists
<1>5. /\ flat \in Seq(T) /\ Len(flat) = off[B]
      /\ \A b \in 1..B : \A k \in 1..Len(seqs[b]) : flat[off[b - 1] + k] = seqs[b][k]
  BY <1>1, <1>4, FlattenIs
<1> HIDE DEF lens, flat, B
<1>6. \A p \in 1..off[B] : \E b \in 1..B : off[b - 1] < p /\ p <= off[b]
  BY <1>3, <1>4, SumsGrow
<1>7. /\ \A b \in 0..B : off[b] \in Nat
      /\ \A b \in 1..B : off[b] = off[b - 1] + Len(seqs[b])
  BY <1>3, <1>4, SumsGrow
<1>8. /\ B = Len(Ascending(U))
      /\ \A b \in 1..B : Len(seqs[b]) = BlockLen(SplitByRnti(rows, Ascending(U)[b]))
  BY DEF AreBlocksOf, B
<1> DEFINE In(p, b, k) == b \in 1..B /\ k \in 1..Len(seqs[b]) /\ p = off[b - 1] + k
           row(b, k) == Ascending(PlacesOf(rows, Ascending(U)[b]))[k + W - 1]
<1>9. \A p \in 1..Len(flat) : \E b, k : In(p, b, k)
  <2> SUFFICES ASSUME NEW p \in 1..Len(flat) PROVE \E b, k : In(p, b, k)
    OBVIOUS
  <2>1. PICK b \in 1..B : off[b - 1] < p /\ p <= off[b]
    BY <1>5, <1>6
  <2>2. b - 1 \in 0..B /\ b \in 0..B
    BY <1>2
  <2>3. PICK x \in Nat, y \in Nat, m \in Nat : x = off[b - 1] /\ y = off[b] /\ m = Len(seqs[b]) /\ y = x + m
    BY <1>2, <1>7, <2>2
  <2>4. p \in Int /\ p - x \in 1..m /\ p = x + (p - x)
    BY <2>1, <2>3
  <2>5. In(p, b, p - x)
    BY <2>3, <2>4
  <2> QED  BY <2>5
<1>10. ASSUME NEW p, NEW q, NEW b, NEW k, NEW c, NEW l, In(p, b, k), In(q, c, l), p <= q
       PROVE  b <= c /\ p \in 1..Len(flat) /\ (b = c => k <= l)
  <2>1. b \in 1..Len(lens) /\ c \in 1..Len(lens) /\ k \in 1..lens[b] /\ l \in 1..lens[c]
        /\ off[b - 1] + k <= off[c - 1] + l /\ IsSum(off, lens, Len(lens))
    BY <1>3, <1>4, <1>10
  <2>2. b <= c /\ off[b - 1] + k \in 1..off[Len(lens)]
    BY <1>3, <2>1, BlocksInOrder
  <2>3. p \in 1..Len(flat)
    BY <1>3, <1>5, <1>10, <2>2
  <2>4. b = c => k <= l
    <3> SUFFICES ASSUME b = c PROVE k <= l
      OBVIOUS
    <3>1. PICK x \in Nat : x = off[b - 1]
      <4>1. b - 1 \in 0..B
        BY <1>2, <1>10
      <4> QED  BY <1>7, <4>1
    <3>2. x + k <= x + l /\ k \in Int /\ l \in Int
      BY <1>10, <3>1
    <3> QED  BY <3>2
  <2> QED  BY <2>2, <2>3, <2>4
<1>11. ASSUME NEW b, NEW k, b \in 1..B, k \in 1..Len(seqs[b])
       PROVE  /\ row(b, k) \in WindowRows(rows) /\ rows[row(b, k)].ue = Ascending(U)[b]
              /\ PlaceIn(U, rows[row(b, k)].ue) = b /\ Nth(rows, row(b, k)) = k + W - 1
  <2>1. PICK ue \in U : ue = Ascending(U)[b] /\ PlaceIn(U, ue) = b
    BY <1>8, <1>11, <1>0, SomeUesAre
  <2>2. PICK g : g = SplitByRnti(rows, ue)
    OBVIOUS
  <2>3. PICK n \in Nat : n = Cardinality(PlacesOf(rows, ue)) /\ n = Len(g)
    BY <2>2, GroupIs
  <2>4. W \in Nat /\ W > 0
    BY EvalConstants
  <2>5. k \in 1..BlockLen(g)
    BY <1>8, <1>11, <2>1, <2>2
  <2>6. k + W - 1 \in 1..n /\ k + W - 1 >= W
    BY <2>3, <2>4, <2>5 DEF BlockLen
  <2>7. PICK i : i = row(b, k)
    OBVIOUS
  <2>8. i = Ascending(PlacesOf(rows, ue))[k + W - 1]
    BY <2>1, <2>7
  <2>9. i \in PlacesOf(rows, ue) /\ PlaceIn(PlacesOf(rows, ue), i) = k + W - 1
    <3>1. PlacesOf(rows, ue) \subseteq Int /\ IsFiniteSet(PlacesOf(rows, ue))
      BY GroupIs
    <3> QED  BY <2>3, <2>6, <2>8, <3>1, AscendingIs
  <2>10. i \in DOMAIN rows /\ rows[i].ue = ue
    BY <2>9 DEF PlacesOf
  <2>11. Nth(rows, i) = k + W - 1 /\ PlaceIn(U, rows[i].ue) = b
    BY <2>1, <2>9, <2>10 DEF Nth
  <2> QED  BY <2>1, <2>6, <2>7, <2>10, <2>11 DEF WindowRows
<1> DEFINE at == [p \in 1..Len(flat) |-> CHOOSE i : \E b, k : In(p, b, k) /\ i = row(b, k)]
<1>12. ASSUME NEW p \in 1..Len(flat)
       PROVE  \E b, k : In(p, b, k) /\ at[p] = row(b, k)
  <2>1. \E i : \E b, k : In(p, b, k) /\ i = row(b, k)
    BY <1>9
  <2> QED  BY <2>1
<1> HIDE DEF at, row, In
<1>13. ASSUME NEW p, NEW b, NEW k, In(p, b, k)
       PROVE  b \in 1..B /\ k \in 1..Len(seqs[b]) /\ p = off[b - 1] + k
  BY <1>13 DEF In
<1>14. DOMAIN at = 1..Len(flat)
  BY DEF at
<1>15. at \in [1..Len(flat) -> WindowRows(rows)]
  <2>1. \A p \in 1..Len(flat) : at[p] \in WindowRows(rows)
    BY <1>11, <1>12, <1>13
  <2>2. at = [p \in 1..Len(flat) |-> at[p]]
    BY DEF at
  <2> QED  BY <2>1, <2>2
<1>16. ASSUME NEW i \in WindowRows(rows) PROVE \E p \in 1..Len(flat) : at[p] = i
  <2>1. i \in DOMAIN rows /\ Nth(rows, i) >= W
    BY DEF WindowRows
  <2>2. PICK ue : ue = rows[i].ue
    OBVIOUS
  <2>3. /\ ue \in U /\ Nth(rows, i) \in 1..Len(SplitByRnti(rows, ue))
        /\ Ascending(PlacesOf(rows, ue))[Nth(rows, i)] = i
    BY <1>0, <2>1, <2>2, NthIs
  <2>4. PICK b \in 1..B : b = PlaceIn(U, ue) /\ Ascending(U)[b] = ue
    BY <1>8, <2>3, <1>0, SomeUesAre
  <2>5. W \in Nat /\ W > 0
    BY EvalConstants
  <2>6. PICK n \in Nat : n = Len(SplitByRnti(rows, ue))
    BY GroupIs
  <2>7. PICK k \in Int : k = Nth(rows, i) - W + 1 /\ k + W - 1 = Nth(rows, i)
    BY <2>3, <2>5
  <2>8. k \in 1..Len(seqs[b])
    <3>1. Len(seqs[b]) = IF n >= W THEN n - W + 1 ELSE 0
      BY <1>8, <2>4, <2>6 DEF BlockLen
    <3> QED  BY <2>1, <2>3, <2>5, <2>6, <2>7, <3>1
  <2>9. PICK p : p = off[b - 1] + k
    OBVIOUS
  <2>10. In(p, b, k)
    BY <2>8, <2>9 DEF In
  <2>11. row(b, k) = i
    BY <2>3, <2>4, <2>7 DEF row
  <2>12. p \in Int
    <3>1. b - 1 \in 0..B
      BY <1>2
    <3>2. off[b - 1] \in Nat
      BY <1>7, <3>1
    <3> QED  BY <2>9, <3>2
  <2>13. p \in 1..Len(flat)
    <3>1. p <= p
      BY <2>12
    <3> QED  BY <1>10, <2>10, <3>1
  <2>14. PICK c, l : In(p, c, l) /\ at[p] = row(c, l)
    BY <1>12, <2>13
  <2>15. b = c /\ k = l
    <3>1. p <= p
      BY <2>12
    <3>2. b <= c /\ c <= b
      BY <1>10, <2>10, <2>14, <3>1
    <3>3. b \in Int /\ c \in Int /\ k \in Int /\ l \in Int
      BY <1>13, <2>10, <2>14
    <3>4. b = c
      BY <3>2, <3>3
    <3>5. k <= l /\ l <= k
      BY <1>10, <2>10, <2>14, <3>1, <3>4
    <3> QED  BY <3>3, <3>4, <3>5
  <2> QED  BY <2>11, <2>13, <2>14, <2>15
<1>17. ASSUME NEW p \in 1..Len(flat), NEW q \in 1..Len(flat), p < q
       PROVE  \/ rows[at[p]].ue < rows[at[q]].ue
              \/ rows[at[p]].ue = rows[at[q]].ue /\ at[p] < at[q]
  <2>1. PICK b, k : In(p, b, k) /\ at[p] = row(b, k)
    BY <1>12
  <2>2. PICK c, l : In(q, c, l) /\ at[q] = row(c, l)
    BY <1>12
  <2>3. p <= q /\ p # q
    BY <1>17
  <2>4. b <= c /\ (b = c => k <= l)
    BY <1>10, <2>1, <2>2, <2>3
  <2>5. b \in 1..B /\ c \in 1..B /\ k \in Int /\ l \in Int
    BY <1>13, <2>1, <2>2
  <2>6. rows[at[p]].ue = Ascending(U)[b] /\ rows[at[q]].ue = Ascending(U)[c]
    BY <1>11, <1>13, <2>1, <2>2
  <2>7. CASE b # c
    <3>1. b < c
      BY <2>4, <2>5, <2>7
    <3>2. b \in 1..Len(Ascending(U)) /\ c \in 1..Len(Ascending(U))
      BY <1>8, <2>5
    <3>3. Ascending(U)[b] < Ascending(U)[c]
      BY <3>1, <3>2, <1>0, SomeUesAre
    <3> QED  BY <2>6, <3>3
  <2>8. CASE b = c
    <3>1. k # l
      BY <1>13, <2>1, <2>2, <2>3, <2>8
    <3>2. k < l
      BY <2>4, <2>5, <2>8, <3>1
    <3>3. PICK ue : ue = Ascending(U)[b]
      OBVIOUS
    <3>4. /\ at[p] \in DOMAIN rows /\ at[q] \in DOMAIN rows
          /\ Nth(rows, at[p]) = k + W - 1 /\ Nth(rows, at[q]) = l + W - 1
      BY <1>11, <1>13, <2>1, <2>2 DEF WindowRows
    <3>5. Nth(rows, at[p]) < Nth(rows, at[q])
      BY <2>5, <3>2, <3>4, EvalConstants
    <3>6. /\ at[p] \in PlacesOf(rows, ue) /\ at[q] \in PlacesOf(rows, ue)
          /\ Nth(rows, at[p]) = PlaceIn(PlacesOf(rows, ue), at[p])
          /\ Nth(rows, at[q]) = PlaceIn(PlacesOf(rows, ue), at[q])
      BY <2>6, <2>8, <3>3, <3>4, NthIs
    <3>7. PlacesOf(rows, ue) \subseteq Int /\ IsFiniteSet(PlacesOf(rows, ue))
      BY GroupIs
    <3>8. at[p] < at[q]
      BY <3>5, <3>6, <3>7, PlaceInIs
    <3> QED  BY <2>6, <2>8, <3>8
  <2> QED  BY <2>7, <2>8
<1>18. ASSUME NEW p \in 1..Len(flat)
       PROVE  /\ PlaceIn(U, rows[at[p]].ue) \in 1..Len(seqs)
              /\ flat[p] = seqs[PlaceIn(U, rows[at[p]].ue)][Nth(rows, at[p]) - W + 1]
  <2>1. PICK b, k : In(p, b, k) /\ at[p] = row(b, k)
    BY <1>12
  <2>2. b \in 1..B /\ k \in 1..Len(seqs[b]) /\ p = off[b - 1] + k /\ k \in Int
    BY <1>13, <2>1
  <2>3. PlaceIn(U, rows[at[p]].ue) = b /\ Nth(rows, at[p]) = k + W - 1
    BY <1>11, <2>1, <2>2
  <2>4. (k + W - 1) - W + 1 = k
    BY <2>2, EvalConstants
  <2> QED  BY <1>5, <2>2, <2>3, <2>4 DEF B
<1> QED  BY <1>5, <1>15, <1>16, <1>17, <1>18 DEF PoolOrder, flat

LEMMA PoolPlaces ==
  ASSUME NEW rows, HasUes(rows), NEW seqs, AreBlocks(seqs, rows)
  PROVE  /\ \E T : FlattenSeq(seqs) \in Seq(T)
         /\ \E at : /\ PoolOrder(at, Len(FlattenSeq(seqs)), rows)
                    /\ \A p \in 1..Len(FlattenSeq(seqs)) :
                         /\ BlockOf(rows, at[p]) \in 1..Len(seqs)
                         /\ FlattenSeq(seqs)[p] = seqs[BlockOf(rows, at[p])][Nth(rows, at[p]) - W + 1]
<1>1. PICK U : U = UeSet(rows)
  OBVIOUS
<1>2. HoldsWindows(U, rows)
  BY <1>1 DEF HoldsWindows, WindowRows, UeSet
<1>3. AreBlocksOf(seqs, rows, U)
  BY <1>1 DEF AreBlocks, AreBlocksOf, Ues
<1>4. /\ \E T : FlattenSeq(seqs) \in Seq(T)
      /\ \E at : /\ PoolOrder(at, Len(FlattenSeq(seqs)), rows)
                 /\ \A p \in 1..Len(FlattenSeq(seqs)) :
                      /\ PlaceIn(U, rows[at[p]].ue) \in 1..Len(seqs)
                      /\ FlattenSeq(seqs)[p] = seqs[PlaceIn(U, rows[at[p]].ue)][Nth(rows, at[p]) - W + 1]
  BY <1>2, <1>3, PoolPlacesOf
<1> QED  BY <1>1, <1>4 DEF BlockOf

(* A rule's counter after the first rows of a group.                        *)
IsCount(f, group, r, n) ==
  f = [i \in 0..n |-> IF i = 0 THEN 0 ELSE IF r \in group[i].hits THEN f[i - 1] + 1 ELSE 0]

LEMMA CountExists ==
  ASSUME NEW group, NEW r
  PROVE  \A n \in Nat : \E f : IsCount(f, group, r, n)
<1> DEFINE P == {n \in Nat : \E f : IsCount(f, group, r, n)}
<1>1. 0 \in P
  <2>1. IsCount([i \in 0..0 |-> 0], group, r, 0)
    BY DEF IsCount
  <2> QED  BY <2>1
<1>2. ASSUME NEW n \in Nat, n \in P PROVE n + 1 \in P
  <2>1. PICK f : IsCount(f, group, r, n)
    BY <1>2
  <2> DEFINE g == [i \in 0..(n + 1) |->
                     IF i = n + 1 THEN IF r \in group[i].hits THEN f[n] + 1 ELSE 0 ELSE f[i]]
  <2>2. \A i \in 0..n :
          g[i] = f[i] /\ f[i] = IF i = 0 THEN 0 ELSE IF r \in group[i].hits THEN f[i - 1] + 1 ELSE 0
    BY <2>1 DEF IsCount
  <2>3. \A i \in 0..(n + 1) :
          g[i] = IF i = 0 THEN 0 ELSE IF r \in group[i].hits THEN g[i - 1] + 1 ELSE 0
    <3>1. g[n + 1] = IF r \in group[n + 1].hits THEN f[n] + 1 ELSE 0
      OBVIOUS
    <3>2. n \in 0..n /\ g[n] = f[n]
      BY <2>2
    <3>3. \A i \in 1..n : i - 1 \in 0..n /\ g[i - 1] = f[i - 1]
      BY <2>2
    <3> HIDE DEF g
    <3>4. \A i \in 0..n :
            g[i] = IF i = 0 THEN 0 ELSE IF r \in group[i].hits THEN g[i - 1] + 1 ELSE 0
      BY <2>2, <3>3
    <3>5. \A i \in 0..(n + 1) : i \in 0..n \/ (i = n + 1 /\ i # 0 /\ i - 1 = n)
      OBVIOUS
    <3> QED  BY <3>1, <3>2, <3>4, <3>5
  <2>4. g = [i \in 0..(n + 1) |-> g[i]]
    OBVIOUS
  <2> HIDE DEF g
  <2>5. IsCount(g, group, r, n + 1)
    BY <2>3, <2>4 DEF IsCount
  <2> QED  BY <2>5
<1> HIDE DEF P
<1>3. \A n \in Nat : n \in P
  BY <1>1, <1>2, AllNaturals
<1> QED  BY <1>3 DEF P

\* The counter is k or more when each of the last k rows met the condition.
LEMMA CountersAre ==
  ASSUME NEW group, NEW r \in DOMAIN Need, NEW n \in Nat, NEW k \in Nat, k > 0
  PROVE  /\ Counters(group, n)[r] \in Nat
         /\ Counters(group, n)[r] >= k
              <=> n >= k /\ \A j \in (n - k + 1)..n : r \in group[j].hits
<1> DEFINE f == CHOOSE x : IsCount(x, group, r, n)
<1>1. IsCount(f, group, r, n)
  BY CountExists
<1>2. Counters(group, n)[r] = f[n]
  BY DEF Counters, IsCount
<1> HIDE DEF f
<1>3. f[0] = 0 /\ \A i \in 1..n : f[i] = IF r \in group[i].hits THEN f[i - 1] + 1 ELSE 0
  BY <1>1 DEF IsCount
<1> DEFINE OK(m) == /\ f[m] \in Nat
                    /\ \A l \in Nat \ {0} :
                         f[m] >= l <=> m >= l /\ \A j \in (m - l + 1)..m : r \in group[j].hits
           P == {m \in Nat : m <= n => OK(m)}
<1>4. 0 \in P
  <2>1. \A l \in Nat \ {0} : ~(0 >= l)
    OBVIOUS
  <2> QED  BY <1>3, <2>1
<1>5. ASSUME NEW m \in Nat, m \in P PROVE m + 1 \in P
  <2> SUFFICES ASSUME m + 1 <= n PROVE OK(m + 1)
    OBVIOUS
  <2>1. m + 1 \in 1..n /\ (m + 1) - 1 = m /\ m <= n
    OBVIOUS
  <2>2. f[m + 1] = IF r \in group[m + 1].hits THEN f[m] + 1 ELSE 0
    BY <1>3, <2>1
  <2>3. OK(m)
    BY <1>5, <2>1
  <2>4. f[m + 1] \in Nat
    BY <2>2, <2>3
  <2>5. ASSUME NEW l \in Nat \ {0}
        PROVE  f[m + 1] >= l <=> m + 1 >= l /\ \A j \in ((m + 1) - l + 1)..(m + 1) : r \in group[j].hits
    <3>1. CASE r \notin group[m + 1].hits
      <4>1. m + 1 >= l => m + 1 \in ((m + 1) - l + 1)..(m + 1)
        OBVIOUS
      <4>2. ~(0 >= l)
        OBVIOUS
      <4> QED  BY <2>2, <3>1, <4>1, <4>2
    <3>2. CASE r \in group[m + 1].hits /\ l = 1
      <4>1. \A j \in ((m + 1) - 1 + 1)..(m + 1) : j = m + 1
        OBVIOUS
      <4>2. f[m + 1] = f[m] + 1 /\ f[m] \in Nat
        BY <2>2, <2>3, <3>2
      <4>3. f[m + 1] >= 1 /\ m + 1 >= 1
        BY <4>2
      <4> QED  BY <3>2, <4>1, <4>3
    <3>3. CASE r \in group[m + 1].hits /\ l # 1
      <4>1. l - 1 \in Nat \ {0}
        BY <3>3
      <4>2. f[m] >= l - 1 <=> m >= l - 1 /\ \A j \in (m - (l - 1) + 1)..m : r \in group[j].hits
        BY <2>3, <4>1
      <4>3. f[m + 1] = f[m] + 1 /\ f[m] \in Nat
        BY <2>2, <2>3, <3>3
      <4>4. f[m + 1] >= l <=> f[m] >= l - 1
        BY <4>3
      <4>5. m + 1 >= l <=> m >= l - 1
        OBVIOUS
      <4>6. m - (l - 1) + 1 = (m + 1) - l + 1
        OBVIOUS
      <4>7. \A j \in Int : j \in ((m + 1) - l + 1)..(m + 1)
                             <=> j \in ((m + 1) - l + 1)..m \/ (j = m + 1 /\ l >= 1)
        OBVIOUS
      <4>8. (\A j \in ((m + 1) - l + 1)..(m + 1) : r \in group[j].hits)
              <=> \A j \in ((m + 1) - l + 1)..m : r \in group[j].hits
        BY <3>3, <4>7
      <4> QED  BY <4>2, <4>4, <4>5, <4>6, <4>8
    <3> QED  BY <3>1, <3>2, <3>3
  <2> QED  BY <2>4, <2>5
<1> HIDE DEF P
<1>6. n \in P
  BY <1>4, <1>5, AllNaturals
<1>7. OK(n)
  BY <1>6 DEF P
<1> QED  BY <1>2, <1>7

\* As the other scripts put it: the last rows all met some rule's condition.
LEMMA RuleFiresIs ==
  ASSUME NEW group, NEW n \in Nat
  PROVE  RuleFires(group, n)
           <=> \E r \in DOMAIN Need :
                 n >= Need[r] /\ \A j \in (n - Need[r] + 1)..n : r \in group[j].hits
BY CountersAre, EvalConstants DEF RuleFires

-----------------------------------------------------------------------------
(* The pool: the rows with a window, UE by UE.                              *)
RowWindow(rows, i) == Window(SplitByRnti(rows, rows[i].ue), Nth(rows, i))

LEMMA RowWindowIs ==
  ASSUME NEW rows, HasUes(rows), NEW i \in DOMAIN rows
  PROVE  RowWindow(rows, i) =
           [ue |-> rows[i].ue, label |-> rows[i].label, ts |-> rows[i].ts,
            rule |-> RuleFires(SplitByRnti(rows, rows[i].ue), Nth(rows, i)),
            score |-> rows[i].score]
<1>1. SplitByRnti(rows, rows[i].ue)[Nth(rows, i)] = rows[i]
  BY NthIs
<1> QED  BY <1>1 DEF RowWindow, Window

LEMMA PoolIs ==
  ASSUME NEW rows, HasUes(rows)
  PROVE  /\ \E T : Pool(rows) \in Seq(T)
         /\ \E at : /\ PoolOrder(at, Len(Pool(rows)), rows)
                    /\ \A p \in 1..Len(Pool(rows)) : Pool(rows)[p] = RowWindow(rows, at[p])
<1> DEFINE B == Len(Ues(rows))
           group(b) == SplitByRnti(rows, Ues(rows)[b])
           seqs == [b \in DOMAIN Ues(rows) |-> Windows(group(b))]
           T == {Window(group(b), n) : b \in 1..B, n \in Int}
<1>1. B \in Nat /\ DOMAIN Ues(rows) = 1..B
  BY UesAre
<1>2. W \in Nat /\ W > 0
  BY EvalConstants
<1>3. ASSUME NEW b \in 1..B
      PROVE  /\ Windows(group(b)) \in Seq(T) /\ Len(Windows(group(b))) = BlockLen(group(b))
             /\ \A k \in 1..BlockLen(group(b)) : Windows(group(b))[k] = Window(group(b), k + W - 1)
  <2>1. Len(group(b)) \in Nat
    BY GroupIs
  <2>2. 1..(Len(group(b)) - W + 1) = 1..BlockLen(group(b)) /\ BlockLen(group(b)) \in Nat
    BY <1>2, <2>1 DEF BlockLen
  <2>3. Windows(group(b)) = [k \in 1..BlockLen(group(b)) |-> Window(group(b), k + W - 1)]
    BY <2>2 DEF Windows
  <2>4. \A k \in 1..BlockLen(group(b)) : k + W - 1 \in Int
    BY <1>2
  <2>5. \A k \in 1..BlockLen(group(b)) : Window(group(b), k + W - 1) \in T
    BY <2>4
  <2> HIDE DEF T, group
  <2>6. Windows(group(b)) \in [1..BlockLen(group(b)) -> T]
    BY <2>3, <2>5
  <2>7. Windows(group(b)) \in Seq(T) /\ Len(Windows(group(b))) = BlockLen(group(b))
    BY <2>2, <2>6, IsASeq, LenProperties
  <2> QED  BY <2>3, <2>7
<1> HIDE DEF T
<1>4. AreBlocks(seqs, rows)
  <2>1. seqs \in [1..B -> Seq(T)]
    BY <1>1, <1>3
  <2>2. seqs \in Seq(Seq(T)) /\ Len(seqs) = B
    BY <1>1, <2>1, IsASeq, LenProperties
  <2>3. \A b \in 1..B : Len(seqs[b]) = BlockLen(group(b))
    BY <1>1, <1>3
  <2> QED  BY <2>2, <2>3 DEF AreBlocks
<1>5. Pool(rows) = FlattenSeq(seqs)
  BY DEF Pool
<1>6. \A b \in 1..B : seqs[b] = Windows(group(b))
  BY <1>1
<1>7. Len(seqs) = B
  BY <1>4 DEF AreBlocks
<1> HIDE DEF seqs
<1>8. /\ \E S : FlattenSeq(seqs) \in Seq(S)
      /\ \E at : /\ PoolOrder(at, Len(FlattenSeq(seqs)), rows)
                    /\ \A p \in 1..Len(FlattenSeq(seqs)) :
                         /\ BlockOf(rows, at[p]) \in 1..Len(seqs)
                         /\ FlattenSeq(seqs)[p] = seqs[BlockOf(rows, at[p])][Nth(rows, at[p]) - W + 1]
  BY <1>4, PoolPlaces
<1>9. PICK at : /\ PoolOrder(at, Len(Pool(rows)), rows)
                /\ \A p \in 1..Len(Pool(rows)) :
                     /\ BlockOf(rows, at[p]) \in 1..B
                     /\ Pool(rows)[p] = seqs[BlockOf(rows, at[p])][Nth(rows, at[p]) - W + 1]
  BY <1>5, <1>7, <1>8
<1>10. ASSUME NEW p \in 1..Len(Pool(rows)) PROVE Pool(rows)[p] = RowWindow(rows, at[p])
  <2>1. PICK i : i = at[p]
    OBVIOUS
  <2>2. i \in DOMAIN rows /\ Nth(rows, i) >= W
    BY <1>9, <2>1 DEF PoolOrder, WindowRows
  <2>3. PICK ue : ue = rows[i].ue
    OBVIOUS
  <2>4. PICK b \in 1..B : b = BlockOf(rows, i) /\ Ues(rows)[b] = ue
    <3>1. ue \in UeSet(rows)
      BY <2>2, <2>3, NthIs
    <3> QED  BY <2>3, <3>1, UesAre DEF BlockOf
  <2>5. group(b) = SplitByRnti(rows, ue)
    BY <2>4
  <2>6. PICK k : k = Nth(rows, i) - W + 1
    OBVIOUS
  <2>7. Nth(rows, i) \in 1..Len(group(b)) /\ Len(group(b)) \in Nat
    BY <2>2, <2>3, <2>5, NthIs, GroupIs
  <2>8. k \in 1..BlockLen(group(b)) /\ k + W - 1 = Nth(rows, i)
    BY <1>2, <2>2, <2>6, <2>7, SMTT(30) DEF BlockLen
  <2>9. Pool(rows)[p] = Window(group(b), Nth(rows, i))
    BY <1>3, <1>6, <1>9, <2>1, <2>4, <2>6, <2>8
  <2> QED  BY <2>1, <2>3, <2>5, <2>9 DEF RowWindow
<1> QED  BY <1>5, <1>8, <1>9, <1>10

\* A beginning of the file.
IsBeginning(pre, rows) ==
  /\ HasUes(pre) /\ HasUes(rows) /\ Len(pre) <= Len(rows)
  /\ \A i \in DOMAIN pre : pre[i] = rows[i]

LEMMA DomainIs ==
  ASSUME NEW rows, HasUes(rows)
  PROVE  DOMAIN rows = 1..Len(rows) /\ Len(rows) \in Nat
<1>1. PICK T : rows \in Seq(T)
  BY DEF HasUes
<1> QED  BY <1>1, LenProperties

LEMMA BeginningGroup ==
  ASSUME NEW pre, NEW rows, IsBeginning(pre, rows), NEW ue
  PROVE  /\ Len(SplitByRnti(pre, ue)) = PlaceIn(PlacesOf(rows, ue), Len(pre))
         /\ Len(SplitByRnti(pre, ue)) <= Len(SplitByRnti(rows, ue))
         /\ \A k \in 1..Len(SplitByRnti(pre, ue)) : SplitByRnti(pre, ue)[k] = SplitByRnti(rows, ue)[k]
         /\ \A i \in PlacesOf(pre, ue) : PlaceIn(PlacesOf(pre, ue), i) = PlaceIn(PlacesOf(rows, ue), i)
<1> DEFINE inAll == PlacesOf(rows, ue)
           inPre == PlacesOf(pre, ue)
<1>1. /\ DOMAIN pre = 1..Len(pre) /\ DOMAIN rows = 1..Len(rows)
      /\ Len(pre) \in Nat /\ Len(rows) \in Nat /\ Len(pre) <= Len(rows)
      /\ \A i \in DOMAIN pre : pre[i] = rows[i]
  BY DomainIs DEF IsBeginning
<1>2. inPre = MembersTo(inAll, Len(pre))
  <2>1. inPre = {y \in inAll : y <= Len(pre)}
    BY <1>1 DEF PlacesOf
  <2> QED  BY <2>1 DEF MembersTo
<1>3. inAll \subseteq Int /\ IsFiniteSet(inAll) /\ Len(SplitByRnti(rows, ue)) = Cardinality(inAll)
  BY GroupIs DEF IsBeginning
<1>4. Len(SplitByRnti(pre, ue)) = Cardinality(inPre)
  BY GroupIs DEF IsBeginning
<1> HIDE DEF inAll, inPre
<1>5. /\ Cardinality(inPre) = PlaceIn(inAll, Len(pre))
      /\ Cardinality(inPre) \in Nat /\ Cardinality(inPre) <= Cardinality(inAll)
      /\ \A x \in inPre : PlaceIn(inPre, x) = PlaceIn(inAll, x)
      /\ \A k \in 1..Cardinality(inPre) : Ascending(inPre)[k] = Ascending(inAll)[k]
  <2>1. PICK t \in Nat : t = Len(pre)
    BY <1>1
  <2>2. PICK a : a = inAll /\ inPre = MembersTo(a, t)
    BY <1>2, <2>1
  <2>3. a \subseteq Int /\ IsFiniteSet(a) /\ t \in Int
    BY <1>3, <2>1, <2>2
  <2> QED  BY <2>1, <2>2, <2>3, AscendingPrefix
<1>6. Cardinality(inAll) \in Nat
  BY <1>3, FS_CardinalityType
<1>7. ASSUME NEW k \in 1..Cardinality(inPre)
      PROVE  SplitByRnti(pre, ue)[k] = SplitByRnti(rows, ue)[k]
  <2>1. k \in 1..Cardinality(inAll)
    BY <1>5, <1>6
  <2>2. SplitByRnti(rows, ue)[k] = rows[Ascending(inAll)[k]]
    BY <2>1, GroupIs DEF inAll, IsBeginning
  <2>3. SplitByRnti(pre, ue)[k] = pre[Ascending(inPre)[k]] /\ Ascending(inPre)[k] \in DOMAIN pre
    <3>1. SplitByRnti(pre, ue)[k] = pre[Ascending(inPre)[k]] /\ Ascending(inPre)[k] \in PlacesOf(pre, ue)
      BY GroupIs DEF inPre, IsBeginning
    <3> QED  BY <3>1 DEF PlacesOf
  <2> QED  BY <1>1, <1>5, <2>2, <2>3
<1> QED  BY <1>3, <1>4, <1>5, <1>7 DEF inAll, inPre

\* What fires after n rows does not depend on the rows after them.
LEMMA RuleFiresSame ==
  ASSUME NEW g, NEW h, NEW n \in Nat, \A k \in 1..n : g[k] = h[k]
  PROVE  RuleFires(g, n) = RuleFires(h, n)
<1>1. ASSUME NEW r \in DOMAIN Need, n >= Need[r]
      PROVE  (\A j \in (n - Need[r] + 1)..n : r \in g[j].hits)
               <=> \A j \in (n - Need[r] + 1)..n : r \in h[j].hits
  <2>1. \A j \in (n - Need[r] + 1)..n : j \in 1..n
    BY <1>1, EvalConstants
  <2> QED  BY <2>1
<1>2. RuleFires(g, n) <=> RuleFires(h, n)
  BY <1>1, RuleFiresIs
<1>3. RuleFires(g, n) \in BOOLEAN /\ RuleFires(h, n) \in BOOLEAN
  BY DEF RuleFires
<1> QED  BY <1>2, <1>3

LEMMA BeginningWindow ==
  ASSUME NEW pre, NEW rows, IsBeginning(pre, rows), NEW i \in DOMAIN pre
  PROVE  Nth(rows, i) = Nth(pre, i) /\ RowWindow(rows, i) = RowWindow(pre, i)
<1>1. pre[i] = rows[i] /\ i \in DOMAIN rows /\ HasUes(pre) /\ HasUes(rows)
  BY DomainIs DEF IsBeginning
<1>2. PICK ue : ue = rows[i].ue /\ ue = pre[i].ue
  BY <1>1
<1>3. Nth(rows, i) = Nth(pre, i) /\ Nth(pre, i) \in 1..Len(SplitByRnti(pre, ue))
  <2>1. /\ Nth(rows, i) = PlaceIn(PlacesOf(rows, ue), i)
        /\ Nth(pre, i) = PlaceIn(PlacesOf(pre, ue), i)
        /\ i \in PlacesOf(pre, ue) /\ Nth(pre, i) \in 1..Len(SplitByRnti(pre, ue))
    BY <1>1, <1>2, NthIs
  <2> QED  BY <2>1, BeginningGroup
<1>4. PICK n : n = Nth(pre, i)
  OBVIOUS
<1>5. n \in Nat /\ n <= Len(SplitByRnti(pre, ue)) /\ Len(SplitByRnti(pre, ue)) \in Nat
  BY <1>1, <1>3, <1>4, GroupIs
<1>6. \A k \in 1..n : SplitByRnti(pre, ue)[k] = SplitByRnti(rows, ue)[k]
  <2>1. \A k \in 1..n : k \in 1..Len(SplitByRnti(pre, ue))
    BY <1>5
  <2> QED  BY <2>1, BeginningGroup
<1>7. RuleFires(SplitByRnti(pre, ue), n) = RuleFires(SplitByRnti(rows, ue), n)
  BY <1>5, <1>6, RuleFiresSame
<1>8. RowWindow(rows, i) = [ue |-> rows[i].ue, label |-> rows[i].label, ts |-> rows[i].ts,
                            rule |-> RuleFires(SplitByRnti(rows, ue), n), score |-> rows[i].score]
  BY <1>1, <1>2, <1>3, <1>4, RowWindowIs
<1>9. RowWindow(pre, i) = [ue |-> pre[i].ue, label |-> pre[i].label, ts |-> pre[i].ts,
                           rule |-> RuleFires(SplitByRnti(pre, ue), n), score |-> pre[i].score]
  BY <1>1, <1>2, <1>4, RowWindowIs
<1> QED  BY <1>1, <1>3, <1>7, <1>8, <1>9

-----------------------------------------------------------------------------
(* The file: a row's second is its place.                                   *)
CsvRow == [ue : Nat, label : Nat, hits : SUBSET DOMAIN Need, score : Nat, ts : Nat]
Stamped(rows) ==
  /\ rows \in Seq(CsvRow)
  /\ \A i \in DOMAIN rows : rows[i].ts = i
CsvInv == EvalTypeOK /\ Stamped(csv)

LEMMA StampedHasUes ==
  ASSUME NEW rows, Stamped(rows)
  PROVE  /\ HasUes(rows) /\ \A i \in DOMAIN rows : rows[i] \in CsvRow
         /\ DOMAIN rows = 1..Len(rows) /\ Len(rows) \in Nat
<1>1. rows \in Seq(CsvRow) /\ DOMAIN rows = 1..Len(rows) /\ Len(rows) \in Nat
  BY LenProperties DEF Stamped
<1>2. \A i \in DOMAIN rows : rows[i] \in CsvRow
  BY <1>1, ElementOfSeq
<1> HIDE DEF CsvRow
<1>3. \E T : rows \in Seq(T)
  BY <1>1
<1> QED  BY <1>1, <1>2, <1>3 DEF HasUes, CsvRow

LEMMA CsvInvHolds == EvalSpec => []CsvInv
<1>1. EvalInit => CsvInv
  <2> SUFFICES ASSUME EvalInit PROVE CsvInv
    OBVIOUS
  <2>1. csv = <<>> /\ Len(csv) = 0 /\ csv \in Seq(CsvRow) /\ DOMAIN csv = {}
    BY EmptySeq DEF EvalInit
  <2> QED  BY <2>1, EvalAssumption DEF CsvInv, EvalTypeOK, Stamped, CsvRow
<1>2. CsvInv /\ [EvalNext]_csv => CsvInv'
  <2> SUFFICES ASSUME CsvInv, [EvalNext]_csv PROVE CsvInv'
    OBVIOUS
  <2>1. PICK n \in Nat : /\ csv \in Seq(CsvRow) /\ n = Len(csv) /\ n <= MaxRows /\ DOMAIN csv = 1..n
                         /\ \A i \in 1..n : csv[i].ts = i
    BY LenProperties DEF CsvInv, EvalTypeOK, Stamped
  <2>2. ASSUME NEW kind \in RowKinds, Record(kind) PROVE CsvInv'
    <3>1. PICK row : row = [ue |-> kind.ue, label |-> kind.label, hits |-> kind.hits,
                            score |-> kind.score, ts |-> n + 1]
      OBVIOUS
    <3>2. row \in CsvRow /\ row.ts = n + 1
      BY <2>1, <3>1, EvalAssumption DEF CsvRow
    <3>3. csv' = Append(csv, row) /\ n < MaxRows
      BY <2>1, <2>2, <3>1 DEF Record
    <3>4. /\ csv' \in Seq(CsvRow) /\ Len(csv') = n + 1 /\ DOMAIN csv' = 1..(n + 1)
          /\ csv'[n + 1] = row /\ \A i \in 1..n : csv'[i] = csv[i]
      BY <2>1, <3>2, <3>3, AppendProperties, LenProperties
    <3>5. \A i \in 1..(n + 1) : csv'[i].ts = i
      BY <2>1, <3>2, <3>4
    <3>6. n + 1 <= MaxRows
      BY <3>3, EvalAssumption
    <3> QED  BY <3>4, <3>5, <3>6 DEF CsvInv, EvalTypeOK, Stamped, CsvRow
  <2>3. CASE csv' = csv
    BY <2>3 DEF CsvInv, EvalTypeOK, Stamped
  <2> QED  BY <2>2, <2>3 DEF EvalNext
<1> QED  BY <1>1, <1>2, PTL DEF EvalSpec

LEMMA CsvTypes == EvalSpec => []EvalTypeOK
<1>1. CsvInv => EvalTypeOK
  BY DEF CsvInv
<1> QED  BY <1>1, CsvInvHolds, PTL

\* The windows of the pool in terms of their rows.
LEMMA PoolStamped ==
  ASSUME NEW rows, Stamped(rows), NEW w, w = Pool(rows)
  PROVE  /\ \E T : w \in Seq(T)
         /\ DOMAIN w = 1..Len(w) /\ Len(w) \in Nat
         /\ \A p \in 1..Len(w) :
              /\ w[p].ts \in WindowRows(rows) /\ w[p] = RowWindow(rows, w[p].ts)
              /\ w[p].ts \in DOMAIN rows /\ w[p].ts \in 1..Len(rows)
              /\ w[p].ue = rows[w[p].ts].ue /\ w[p].label = rows[w[p].ts].label
              /\ w[p].score = rows[w[p].ts].score
              /\ w[p].ue \in Nat /\ w[p].label \in Nat /\ w[p].score \in Nat
         /\ \A i \in WindowRows(rows) : \E p \in 1..Len(w) : w[p].ts = i
         /\ \A p, q \in 1..Len(w) :
              p < q => w[p].ue < w[q].ue \/ (w[p].ue = w[q].ue /\ w[p].ts < w[q].ts)
<1>1. /\ HasUes(rows) /\ \A i \in DOMAIN rows : rows[i] \in CsvRow /\ rows[i].ts = i
      /\ DOMAIN rows = 1..Len(rows)
  BY StampedHasUes DEF Stamped
<1>2. PICK T : w \in Seq(T)
  BY <1>1, PoolIs
<1>3. PICK at : /\ PoolOrder(at, Len(w), rows)
                /\ \A p \in 1..Len(w) : w[p] = RowWindow(rows, at[p])
  BY <1>1, PoolIs
<1>4. ASSUME NEW p \in 1..Len(w)
      PROVE  /\ at[p] \in WindowRows(rows) /\ at[p] \in DOMAIN rows
             /\ w[p].ts = at[p] /\ w[p].ue = rows[at[p]].ue /\ w[p].label = rows[at[p]].label
             /\ w[p].score = rows[at[p]].score
  <2>1. at[p] \in WindowRows(rows) /\ at[p] \in DOMAIN rows
    BY <1>3 DEF PoolOrder, WindowRows
  <2> QED  BY <1>1, <1>3, <2>1, RowWindowIs
<1>5. \A i \in WindowRows(rows) : \E p \in 1..Len(w) : at[p] = i
  BY <1>3 DEF PoolOrder
<1>6. \A p, q \in 1..Len(w) : p < q =>
        rows[at[p]].ue < rows[at[q]].ue \/ (rows[at[p]].ue = rows[at[q]].ue /\ at[p] < at[q])
  BY <1>3 DEF PoolOrder
<1>7. DOMAIN w = 1..Len(w) /\ Len(w) \in Nat
  BY <1>2, LenProperties
<1>8. \A i \in DOMAIN rows : rows[i].ue \in Nat /\ rows[i].label \in Nat /\ rows[i].score \in Nat
  BY <1>1 DEF CsvRow
<1>9. ASSUME NEW p \in 1..Len(w)
      PROVE  /\ w[p].ts \in WindowRows(rows) /\ w[p] = RowWindow(rows, w[p].ts)
             /\ w[p].ts \in DOMAIN rows /\ w[p].ts \in 1..Len(rows)
             /\ w[p].ue = rows[w[p].ts].ue /\ w[p].label = rows[w[p].ts].label
             /\ w[p].score = rows[w[p].ts].score
             /\ w[p].ue \in Nat /\ w[p].label \in Nat /\ w[p].score \in Nat
  <2>1. PICK i : i = at[p]
    OBVIOUS
  <2>2. w[p].ts = i /\ i \in WindowRows(rows) /\ i \in DOMAIN rows /\ w[p] = RowWindow(rows, i)
    BY <1>3, <1>4, <2>1
  <2> QED  BY <1>1, <1>4, <1>8, <2>1, <2>2
<1>10. \A p \in 1..Len(w) : w[p].ts = at[p]
  BY <1>4
<1>11. \A i \in WindowRows(rows) : \E p \in 1..Len(w) : w[p].ts = i
  BY <1>5, <1>10
<1>12. \A p, q \in 1..Len(w) :
              p < q => w[p].ue < w[q].ue \/ (w[p].ue = w[q].ue /\ w[p].ts < w[q].ts)
  BY <1>4, <1>6
<1> QED  BY <1>2, <1>7, <1>9, <1>11, <1>12

(* A window's rule decision is the UE's own last rows (evaluate_per_ue_v2). *)
LEMMA InvOwnRows == CsvInv => RulesOnOwnRows
<1> SUFFICES ASSUME CsvInv, NEW i \in DOMAIN Pool(csv)
             PROVE  LET w == Pool(csv)
                        own == SplitByRnti(SubSeq(csv, 1, w[i].ts), w[i].ue)
                    IN w[i].rule <=>
                         \E r \in DOMAIN Need :
                           /\ Len(own) >= Need[r]
                           /\ \A j \in 0..(Need[r] - 1) : r \in own[Len(own) - j].hits
  BY DEF RulesOnOwnRows
<1>1. PICK w : w = Pool(csv)
  OBVIOUS
<1>2. Stamped(csv)
  BY DEF CsvInv
<1>3. PICK t \in 1..Len(csv) : t = w[i].ts /\ w[i] = RowWindow(csv, t) /\ w[i].ue = csv[t].ue
  <2>1. i \in 1..Len(w)
    BY <1>1, <1>2, PoolStamped
  <2>2. w[i].ts \in 1..Len(csv) /\ w[i] = RowWindow(csv, w[i].ts) /\ w[i].ue = csv[w[i].ts].ue
    BY <1>1, <1>2, <2>1, PoolStamped
  <2> QED  BY <2>2
<1>4. PICK pre : pre = SubSeq(csv, 1, t)
  OBVIOUS
<1>5. HasUes(csv) /\ csv \in Seq(CsvRow) /\ Len(csv) \in Nat /\ DOMAIN csv = 1..Len(csv)
  BY <1>2, StampedHasUes DEF Stamped
<1>6. pre \in Seq(CsvRow) /\ Len(pre) = t /\ DOMAIN pre = 1..t /\ \A k \in 1..t : pre[k] = csv[k]
  <2>1. 1 \in 1..(Len(csv) + 1) /\ t \in 0..Len(csv) /\ 1 \in Int /\ 1 <= t + 1 /\ t - 1 + 1 = t
    BY <1>5
  <2>2. pre \in Seq(CsvRow) /\ Len(pre) = t /\ \A k \in 1..t : pre[k] = csv[k]
    BY <1>4, <1>5, <2>1, SubSeqProperties
  <2> QED  BY <2>2, LenProperties
<1>7. IsBeginning(pre, csv)
  <2>1. \A k \in 1..t : k \in DOMAIN csv /\ pre[k].ue \in Nat
    <3>1. \A k \in 1..t : k \in 1..Len(csv)
      BY <1>5
    <3>2. \A k \in DOMAIN csv : csv[k].ue \in Nat
      BY <1>5 DEF HasUes
    <3> QED  BY <1>5, <1>6, <3>1, <3>2
  <2> HIDE DEF CsvRow
  <2>2. HasUes(pre)
    BY <1>6, <2>1 DEF HasUes
  <2> QED  BY <1>5, <1>6, <2>2 DEF IsBeginning
<1>8. PICK own : own = SplitByRnti(pre, csv[t].ue)
  OBVIOUS
<1>9. Len(own) = Nth(csv, t)
  <2>1. Len(own) = PlaceIn(PlacesOf(csv, csv[t].ue), t)
    BY <1>6, <1>7, <1>8, BeginningGroup
  <2> QED  BY <2>1 DEF Nth
<1>10. PICK n \in Nat : n = Len(own)
  BY <1>7, <1>8, GroupIs DEF IsBeginning
<1>11. w[i].rule = RuleFires(SplitByRnti(csv, csv[t].ue), n)
  <2>1. RowWindow(csv, t).rule = RuleFires(SplitByRnti(csv, csv[t].ue), Nth(csv, t))
    BY <1>5, RowWindowIs
  <2> QED  BY <1>3, <1>9, <1>10, <2>1
<1>12. \A k \in 1..n : own[k] = SplitByRnti(csv, csv[t].ue)[k]
  BY <1>7, <1>8, <1>10, BeginningGroup
<1>13. w[i].rule = RuleFires(own, n)
  BY <1>11, <1>12, RuleFiresSame
<1>14. ASSUME NEW r \in DOMAIN Need
       PROVE  (\A j \in (n - Need[r] + 1)..n : r \in own[j].hits)
                <=> \A j \in 0..(Need[r] - 1) : r \in own[n - j].hits
  <2>1. PICK m \in Nat : m = Need[r]
    BY EvalConstants
  <2>2. /\ \A j \in 0..(m - 1) : n - j \in (n - m + 1)..n
        /\ \A j \in (n - m + 1)..n : n - j \in 0..(m - 1) /\ n - (n - j) = j
    OBVIOUS
  <2> QED  BY <2>1, <2>2
<1>15. w[i].rule <=> \E r \in DOMAIN Need :
                       n >= Need[r] /\ \A j \in 0..(Need[r] - 1) : r \in own[n - j].hits
  BY <1>13, <1>14, RuleFiresIs
<1>16. own = SplitByRnti(SubSeq(csv, 1, w[i].ts), w[i].ue)
  BY <1>3, <1>4, <1>8
<1> QED  BY <1>1, <1>10, <1>15, <1>16

THEOREM OwnRows == EvalSpec => []RulesOnOwnRows
BY CsvInvHolds, InvOwnRows, PTL

(* Attacks in terms of the rows: the first window row of one, and the first *)
(* of its rows in which a configuration fires.                              *)
UeWindows(rows, ue) == {i \in WindowRows(rows) : rows[i].ue = ue}
FiresAt(v, c) == CASE c = "rule" -> v.rule
                   [] c = "ml" -> v.score > Threshold
                   [] c = "hybrid" -> v.rule \/ v.score > Threshold
Alert(rows, c, i) == FiresAt(RowWindow(rows, i), c)
Attacked(rows, a, e) ==
  /\ a \in WindowRows(rows) /\ e \in UeWindows(rows, rows[a].ue)
  /\ a <= e /\ rows[a].label > 0
  /\ \A j \in UeWindows(rows, rows[a].ue) : a <= j /\ j <= e => rows[j].label = rows[a].label
Onset(rows, a) ==
  \A b \in UeWindows(rows, rows[a].ue) :
    b < a /\ (\A j \in UeWindows(rows, rows[a].ue) : ~(b < j /\ j < a)) => rows[b].label # rows[a].label
DetectedFrom(rows, c, a, e) ==
  /\ Attacked(rows, a, e) /\ Onset(rows, a) /\ Alert(rows, c, e)
  /\ \A j \in UeWindows(rows, rows[a].ue) : a <= j /\ j < e => ~Alert(rows, c, j)

\* The windows of one UE, in the pool, are side by side and in the order of their rows.
LEMMA PoolBetween ==
  ASSUME NEW rows, Stamped(rows), NEW w, w = Pool(rows),
         NEW p \in 1..Len(w), NEW r \in 1..Len(w), w[p].ue = w[r].ue, p <= r
  PROVE  /\ \A q \in p..r : /\ q \in 1..Len(w) /\ w[q].ue = w[p].ue
                            /\ w[p].ts <= w[q].ts /\ w[q].ts <= w[r].ts
         /\ p < r => w[p].ts < w[r].ts
<1>1. \A q \in 1..Len(w) : w[q].ue \in Nat /\ w[q].ts \in 1..Len(rows)
  BY PoolStamped
<1>2. Len(w) \in Nat /\ Len(rows) \in Nat
  BY PoolStamped, StampedHasUes
<1>3. \A x, y \in 1..Len(w) :
        x < y => w[x].ue < w[y].ue \/ (w[x].ue = w[y].ue /\ w[x].ts < w[y].ts)
  BY PoolStamped, SMTT(30)
<1>4. ASSUME NEW q \in p..r
      PROVE  /\ q \in 1..Len(w) /\ w[q].ue = w[p].ue
             /\ w[p].ts <= w[q].ts /\ w[q].ts <= w[r].ts
  <2>1. q \in 1..Len(w)
    BY <1>2
  <2>2. PICK up \in Nat, uq \in Nat, tp \in Nat, tq \in Nat, tr \in Nat :
          /\ up = w[p].ue /\ up = w[r].ue /\ uq = w[q].ue
          /\ tp = w[p].ts /\ tq = w[q].ts /\ tr = w[r].ts
    <3>1. \A x \in 1..Len(rows) : x \in Nat
      BY <1>2
    <3> QED  BY <1>1, <2>1, <3>1
  <2>3. p < q => up < uq \/ (up = uq /\ tp < tq)
    BY <1>3, <2>1, <2>2
  <2>4. q < r => uq < up \/ (uq = up /\ tq < tr)
    BY <1>3, <2>1, <2>2
  <2>5. (p < q \/ p = q) /\ (q < r \/ q = r)
    BY <1>2
  <2>6. p = q => tp = tq /\ up = uq
    BY <2>2
  <2>7. q = r => tq = tr /\ up = uq
    BY <2>2
  <2>8. uq = up /\ tp <= tq /\ tq <= tr
    BY <2>3, <2>4, <2>5, <2>6, <2>7
  <2> QED  BY <2>1, <2>2, <2>8
<1>5. p < r => w[p].ts < w[r].ts
  <2>1. PICK up \in Nat, tp \in Nat, tr \in Nat :
          up = w[p].ue /\ up = w[r].ue /\ tp = w[p].ts /\ tr = w[r].ts
    <3>1. \A x \in 1..Len(rows) : x \in Nat
      BY <1>2
    <3> QED  BY <1>1, <3>1
  <2>2. p < r => up < up \/ tp < tr
    BY <1>3, <2>1
  <2> QED  BY <2>1, <2>2
<1> QED  BY <1>4, <1>5

\* Rows of one UE and their places in the pool.
LEMMA PoolTo ==
  ASSUME NEW rows, Stamped(rows), NEW w, w = Pool(rows),
         NEW p \in 1..Len(w), NEW j \in UeWindows(rows, w[p].ue)
  PROVE  \E q \in 1..Len(w) : /\ w[q].ts = j /\ w[q].ue = w[p].ue
                              /\ w[p].ts <= j => p <= q
                              /\ j <= w[p].ts => q <= p
<1>1. PICK q \in 1..Len(w) : w[q].ts = j
  BY PoolStamped DEF UeWindows
<1>2. w[q].ue = rows[j].ue
  BY <1>1, PoolStamped
<1>3. w[q].ue = w[p].ue
  BY <1>2 DEF UeWindows
<1>4. Len(w) \in Nat /\ Len(rows) \in Nat
  BY PoolStamped, StampedHasUes
<1>5. PICK tp \in Nat, tq \in Nat : tp = w[p].ts /\ tq = w[q].ts
  <2>1. w[p].ts \in 1..Len(rows) /\ w[q].ts \in 1..Len(rows)
    BY PoolStamped
  <2>2. \A x \in 1..Len(rows) : x \in Nat
    BY <1>4
  <2> QED  BY <2>1, <2>2
<1>6. p < q => tp < tq
  <2>1. p < q => p <= q
    BY <1>4
  <2> QED  BY <1>3, <1>5, <2>1, PoolBetween
<1>7. q < p => tq < tp
  <2>1. q < p => q <= p
    BY <1>4
  <2> QED  BY <1>3, <1>5, <2>1, PoolBetween
<1>8. (tp <= tq => p <= q) /\ (tq <= tp => q <= p)
  BY <1>4, <1>6, <1>7
<1> QED  BY <1>1, <1>3, <1>5, <1>8

LEMMA MinIs ==
  ASSUME NEW S, S \subseteq Int, NEW m \in S, \A x \in S : m <= x
  PROVE  Min(S) = m
<1>1. \A x \in S : (\A y \in S : x <= y) => x = m
  <2> SUFFICES ASSUME NEW x \in S, \A y \in S : x <= y PROVE x = m
    OBVIOUS
  <2>1. x <= m /\ m <= x /\ x \in Int /\ m \in Int
    OBVIOUS
  <2> QED  BY <2>1
<1>2. Min(S) = CHOOSE x \in S : \A y \in S : x <= y
  BY DEF Min
<1> QED  BY <1>1, <1>2

LEMMA FiresAre ==
  ASSUME NEW rows, Stamped(rows), NEW w, w = Pool(rows), NEW c \in Configs
  PROVE  \A p \in 1..Len(w) : Fires(w, c)[p] <=> Alert(rows, c, w[p].ts)
<1>1. ASSUME NEW p \in 1..Len(w)
      PROVE  Fires(w, c)[p] <=> Alert(rows, c, w[p].ts)
  <2>1. DOMAIN w = 1..Len(w) /\ w[p] = RowWindow(rows, w[p].ts)
    BY PoolStamped
  <2>2. Fires(w, c)[p] = FiresAt(w[p], c)
    BY <2>1 DEF Fires, FiresAt, Configs
  <2> QED  BY <2>1, <2>2 DEF Alert
<1> QED  BY <1>1

\* The run of windows of one UE and label that begins at a window.
LEMMA SegmentFrom ==
  ASSUME NEW rows, Stamped(rows), NEW w, w = Pool(rows),
         NEW p \in 1..Len(w), w[p].label > 0,
         p > 1 => ~SameAttack(w, p - 1, p),
         NEW r \in 1..Len(w), p <= r, \A q \in p..r : SameAttack(w, p, q)
  PROVE  \E last \in 1..Len(w) : r <= last /\ <<p, last>> \in AttackSegments(w)
<1>1. PICK n \in Nat : n = Len(w) /\ DOMAIN w = 1..n
  BY PoolStamped
<1> DEFINE After == {y \in Nat : p < y /\ (y = n + 1 \/ (y <= n /\ ~SameAttack(w, y, p)))}
<1>2. After \subseteq Nat /\ n + 1 \in After
  BY <1>1
<1>3. PICK y \in After : \A z \in After : y <= z
  BY <1>2, LeastExists
<1>4. y \in Nat /\ p < y /\ y <= n + 1 /\ (y <= n => ~SameAttack(w, y, p))
  BY <1>1
<1>5. \A q \in p..(y - 1) : SameAttack(w, p, q)
  <2> SUFFICES ASSUME NEW q \in p..(y - 1) PROVE SameAttack(w, p, q)
    OBVIOUS
  <2>1. q = p \/ (p < q /\ q < y /\ q \in Nat /\ q <= n)
    BY <1>1, <1>4
  <2>2. CASE q = p
    BY <2>2 DEF SameAttack
  <2>3. CASE p < q /\ q < y /\ q \in Nat /\ q <= n
    <3>1. q \notin After
      BY <1>3, <1>4, <2>3
    <3>2. SameAttack(w, q, p)
      BY <2>3, <3>1
    <3> QED  BY <3>2 DEF SameAttack
  <2> QED  BY <2>1, <2>2, <2>3
<1>6. r <= y - 1
  <2> SUFFICES ASSUME y <= r PROVE FALSE
    BY <1>1, <1>4
  <2>1. y \in p..r /\ y <= n
    BY <1>1, <1>4
  <2>2. SameAttack(w, p, y) /\ ~SameAttack(w, y, p)
    BY <1>4, <2>1
  <2> QED  BY <2>2 DEF SameAttack
<1>7. PICK last \in 1..n : last = y - 1
  BY <1>1, <1>4
<1>8. last < n => ~SameAttack(w, last + 1, p)
  BY <1>1, <1>4, <1>7
<1>9. <<p, last>> \in AttackSegments(w)
  <2>1. p <= last /\ p \in DOMAIN w /\ last \in DOMAIN w
    BY <1>1, <1>4, <1>7
  <2>2. \A q \in p..last : SameAttack(w, p, q)
    BY <1>5, <1>7
  <2>3. last < Len(w) => ~SameAttack(w, last + 1, p)
    BY <1>1, <1>8
  <2> HIDE DEF After
  <2> QED  BY <2>1, <2>2, <2>3 DEF AttackSegments
<1> QED  BY <1>1, <1>6, <1>7, <1>9

LatencyOf(rows, a, e) == <<rows[a].label, e - a, a>>

\* Every latency is that of an attack, from its first window to the first that fires.
LEMMA LatencyHasAttack ==
  ASSUME NEW rows, Stamped(rows), NEW w, w = Pool(rows), NEW c \in Configs,
         NEW l \in DetectionLatency(w, Fires(w, c))
  PROVE  \E a \in WindowRows(rows) : \E e \in WindowRows(rows) :
           DetectedFrom(rows, c, a, e) /\ l = LatencyOf(rows, a, e)
<1>1. /\ DOMAIN w = 1..Len(w)
      /\ \A p \in 1..Len(w) :
              /\ w[p].ts \in WindowRows(rows) /\ w[p] = RowWindow(rows, w[p].ts)
              /\ w[p].ts \in DOMAIN rows /\ w[p].ts \in 1..Len(rows)
              /\ w[p].ue = rows[w[p].ts].ue /\ w[p].label = rows[w[p].ts].label
              /\ w[p].ue \in Nat /\ w[p].label \in Nat
  BY PoolStamped
<1>2. Len(w) \in Nat /\ Len(rows) \in Nat
  BY PoolStamped, StampedHasUes
<1>3. PICK s \in AttackSegments(w) :
        /\ \E i \in s[1]..s[2] : Fires(w, c)[i]
        /\ l = <<w[s[1]].label, w[Min({i \in s[1]..s[2] : Fires(w, c)[i]})].ts - w[s[1]].ts, w[s[1]].ts>>
  BY DEF DetectionLatency
<1>4. PICK p \in 1..Len(w), last \in 1..Len(w) :
        /\ p = s[1] /\ last = s[2] /\ p <= last /\ w[p].label > 0
        /\ \A j \in p..last : SameAttack(w, p, j)
        /\ p > 1 => ~SameAttack(w, p - 1, p)
  <2>1. /\ s \in (1..Len(w)) \X (1..Len(w))
        /\ s[1] <= s[2] /\ w[s[1]].label > 0
        /\ \A j \in s[1]..s[2] : SameAttack(w, s[1], j)
        /\ s[1] > 1 => ~SameAttack(w, s[1] - 1, s[1])
    BY <1>1 DEF AttackSegments
  <2>2. PICK x \in 1..Len(w), y \in 1..Len(w) : x = s[1] /\ y = s[2]
    BY <2>1
  <2> QED  BY <2>1, <2>2
<1> DEFINE Firing == {i \in p..last : Fires(w, c)[i]}
<1>5. Firing \subseteq Nat /\ Firing # {}
  BY <1>2, <1>3, <1>4
<1>6. PICK m \in Firing : \A i \in Firing : m <= i
  BY <1>5, LeastExists
<1>7. Min({i \in s[1]..s[2] : Fires(w, c)[i]}) = m
  <2>1. Firing \subseteq Int
    BY <1>5
  <2>2. Min(Firing) = m
    BY <1>6, <2>1, MinIs
  <2> QED  BY <1>4, <2>2
<1>8. /\ m \in 1..Len(w) /\ p <= m /\ m <= last /\ Fires(w, c)[m]
      /\ \A i \in p..last : i < m => ~Fires(w, c)[i]
  <2>1. m \in p..last /\ Fires(w, c)[m]
    OBVIOUS
  <2>2. \A i \in p..last : i < m => ~Fires(w, c)[i]
    <3> SUFFICES ASSUME NEW i \in p..last, i < m, Fires(w, c)[i] PROVE FALSE
      OBVIOUS
    <3>1. i \in Firing
      OBVIOUS
    <3>2. m <= i /\ m \in Int /\ i \in Int
      BY <1>6, <2>1, <3>1
    <3> QED  BY <3>2
  <2> HIDE DEF Firing
  <2> QED  BY <1>2, <2>1, <2>2
<1> HIDE DEF Firing
<1>9. PICK a \in 1..Len(rows), e \in 1..Len(rows) : a = w[p].ts /\ e = w[m].ts
  BY <1>1, <1>4, <1>8
<1>10. /\ a \in WindowRows(rows) /\ e \in WindowRows(rows)
       /\ w[p].ue = rows[a].ue /\ w[p].label = rows[a].label
       /\ w[m].ue = rows[e].ue /\ w[m].label = rows[e].label
  BY <1>1, <1>8, <1>9
<1>11. l = LatencyOf(rows, a, e)
  BY <1>3, <1>4, <1>7, <1>9, <1>10 DEF LatencyOf
<1>12. w[p].ue = w[m].ue /\ w[p].label = w[m].label
  <2>1. m \in p..last
    BY <1>2, <1>4, <1>8
  <2> QED  BY <1>4, <2>1 DEF SameAttack
<1>13. /\ \A q \in p..m : /\ q \in 1..Len(w) /\ w[q].ue = w[p].ue
                          /\ w[p].ts <= w[q].ts /\ w[q].ts <= w[m].ts
       /\ p < m => w[p].ts < w[m].ts
  BY <1>8, <1>12, PoolBetween
<1>14. a <= e
  <2>1. p \in p..m
    BY <1>8
  <2>2. w[p].ts <= w[m].ts
    BY <1>13, <2>1
  <2> QED  BY <1>9, <2>2
\* A window row of the UE from a to e, and its place.
<1>15. ASSUME NEW j \in UeWindows(rows, rows[a].ue), a <= j, j <= e
       PROVE  \E q \in p..m : w[q].ts = j /\ w[q].label = rows[j].label
  <2>1. j \in UeWindows(rows, w[p].ue) /\ j \in UeWindows(rows, w[m].ue)
    BY <1>10, <1>12
  <2>2. PICK q \in 1..Len(w) : w[q].ts = j /\ p <= q
    BY <1>9, <1>15, <2>1, PoolTo
  <2>3. PICK x \in 1..Len(w) : w[x].ts = j /\ x <= m /\ w[x].ue = w[m].ue
    BY <1>8, <1>9, <1>15, <2>1, PoolTo, SMTT(30)
  <2>4. q = x
    <3>1. w[q].ue = rows[j].ue /\ w[x].ue = rows[j].ue
      BY <1>1, <2>2, <2>3
    <3>2. q < x => w[q].ts < w[x].ts
      <4>1. q < x => q <= x
        BY <1>2
      <4> QED  BY <3>1, <4>1, PoolBetween
    <3>3. x < q => w[x].ts < w[q].ts
      <4>1. x < q => x <= q
        BY <1>2
      <4> QED  BY <3>1, <4>1, PoolBetween
    <3>4. j \in Nat
      BY <1>1, <1>2, <2>2
    <3>5. ~(j < j)
      BY <3>4
    <3>6. ~(q < x) /\ ~(x < q)
      BY <2>2, <2>3, <3>2, <3>3, <3>5
    <3> QED  BY <1>2, <3>6
  <2>5. q \in p..m
    BY <1>2, <2>2, <2>3, <2>4
  <2> QED  BY <1>1, <2>2, <2>5
<1>16. Attacked(rows, a, e)
  <2>1. e \in UeWindows(rows, rows[a].ue)
    BY <1>10, <1>12 DEF UeWindows
  <2>2. rows[a].label > 0
    BY <1>4, <1>10
  <2>3. ASSUME NEW j \in UeWindows(rows, rows[a].ue), a <= j, j <= e
        PROVE  rows[j].label = rows[a].label
    <3>1. PICK q \in p..m : w[q].ts = j /\ w[q].label = rows[j].label
      BY <1>15, <2>3
    <3>2. q \in p..last
      BY <1>2, <1>8
    <3> QED  BY <1>4, <1>10, <3>1, <3>2 DEF SameAttack
  <2> QED  BY <1>10, <1>14, <2>1, <2>2, <2>3 DEF Attacked
<1>17. ASSUME NEW j \in UeWindows(rows, rows[a].ue), a <= j, j < e
       PROVE  ~Alert(rows, c, j)
  <2>1. j \in Nat
    <3>1. j \in 1..Len(rows)
      BY StampedHasUes DEF UeWindows, WindowRows
    <3> QED  BY <1>2, <3>1
  <2>2. j <= e
    BY <1>17, <2>1
  <2>3. PICK q \in p..m : w[q].ts = j
    BY <1>15, <1>17, <2>2
  <2>4. q # m
    BY <1>9, <1>17, <2>1, <2>3
  <2>5. q \in p..last /\ q < m /\ q \in 1..Len(w)
    BY <1>2, <1>8, <2>4
  <2>6. ~Fires(w, c)[q]
    BY <1>8, <2>5
  <2> QED  BY <2>3, <2>5, <2>6, FiresAre
<1>18. Onset(rows, a)
  <2> SUFFICES ASSUME NEW b \in UeWindows(rows, rows[a].ue), b < a,
                      \A j \in UeWindows(rows, rows[a].ue) : ~(b < j /\ j < a)
               PROVE  rows[b].label # rows[a].label
    BY DEF Onset
  <2>1. b \in 1..Len(rows) /\ b \in Nat /\ b <= a
    <3>1. b \in 1..Len(rows)
      BY StampedHasUes DEF UeWindows, WindowRows
    <3> QED  BY <1>2, <3>1
  <2>2. PICK q \in 1..Len(w) : w[q].ts = b /\ w[q].ue = w[p].ue /\ q <= p
    <3>1. b \in UeWindows(rows, w[p].ue) /\ b <= w[p].ts
      BY <1>9, <1>10, <2>1
    <3> QED  BY <3>1, PoolTo
  <2>3. q # p
    BY <1>9, <2>1, <2>2
  <2>4. q < p /\ p - 1 \in q..p /\ p > 1
    BY <1>2, <2>2, <2>3
  <2>5. p - 1 \in 1..Len(w) /\ w[p - 1].ue = w[p].ue /\ w[q].ts <= w[p - 1].ts
    BY <2>2, <2>4, PoolBetween
  <2>6. w[p - 1].ts < w[p].ts
    <3>1. p - 1 < p /\ p - 1 <= p
      BY <1>2
    <3> QED  BY <2>5, <3>1, PoolBetween
  <2>7. PICK t \in 1..Len(rows) : t = w[p - 1].ts /\ t \in WindowRows(rows)
                                  /\ w[p - 1].ue = rows[t].ue /\ w[p - 1].label = rows[t].label
    BY <1>1, <2>5
  <2>8. t \in UeWindows(rows, rows[a].ue)
    BY <1>10, <2>5, <2>7 DEF UeWindows
  <2>9. b <= t /\ t < a
    BY <1>9, <2>2, <2>5, <2>6, <2>7
  <2>10. t = b
    BY <1>2, <2>1, <2>8, <2>9
  <2>11. w[p - 1].label # w[p].label
    BY <1>4, <2>4, <2>5 DEF SameAttack
  <2> QED  BY <1>10, <2>7, <2>10, <2>11
<1>19. Alert(rows, c, e)
  BY <1>8, <1>9, FiresAre
<1>20. DetectedFrom(rows, c, a, e)
  BY <1>16, <1>17, <1>18, <1>19 DEF DetectedFrom
<1> QED  BY <1>10, <1>11, <1>20

\* And every attack that is detected has its latency.
LEMMA AttackHasLatency ==
  ASSUME NEW rows, Stamped(rows), NEW w, w = Pool(rows), NEW c \in Configs,
         NEW a, NEW e, DetectedFrom(rows, c, a, e)
  PROVE  LatencyOf(rows, a, e) \in DetectionLatency(w, Fires(w, c))
<1>1. /\ DOMAIN w = 1..Len(w)
      /\ \A p \in 1..Len(w) :
              /\ w[p].ts \in WindowRows(rows) /\ w[p] = RowWindow(rows, w[p].ts)
              /\ w[p].ts \in DOMAIN rows /\ w[p].ts \in 1..Len(rows)
              /\ w[p].ue = rows[w[p].ts].ue /\ w[p].label = rows[w[p].ts].label
              /\ w[p].ue \in Nat /\ w[p].label \in Nat
  BY PoolStamped
<1>2. Len(w) \in Nat /\ Len(rows) \in Nat
  BY PoolStamped, StampedHasUes
<1>3. /\ a \in WindowRows(rows) /\ e \in UeWindows(rows, rows[a].ue) /\ e \in WindowRows(rows)
      /\ a <= e /\ rows[a].label > 0 /\ rows[e].ue = rows[a].ue
      /\ \A j \in UeWindows(rows, rows[a].ue) : a <= j /\ j <= e => rows[j].label = rows[a].label
  BY DEF DetectedFrom, Attacked, UeWindows
<1>4. PICK p \in 1..Len(w) : w[p].ts = a
  BY <1>3, PoolStamped, SMTT(30)
<1>5. w[p].ue = rows[a].ue /\ w[p].label = rows[a].label
  BY <1>1, <1>4
<1>6. PICK m \in 1..Len(w) : w[m].ts = e /\ w[m].ue = w[p].ue /\ p <= m
  <2>1. e \in UeWindows(rows, w[p].ue) /\ w[p].ts <= e
    BY <1>3, <1>4, <1>5
  <2> QED  BY <2>1, PoolTo
<1>7. \A q \in p..m : /\ q \in 1..Len(w) /\ w[q].ue = w[p].ue
                      /\ w[p].ts <= w[q].ts /\ w[q].ts <= w[m].ts
  BY <1>6, PoolBetween
<1>8. \A q \in p..m : w[q].ts \in UeWindows(rows, rows[a].ue) /\ SameAttack(w, p, q)
  <2> SUFFICES ASSUME NEW q \in p..m
               PROVE  w[q].ts \in UeWindows(rows, rows[a].ue) /\ SameAttack(w, p, q)
    OBVIOUS
  <2>1. PICK j \in WindowRows(rows) : j = w[q].ts /\ w[q].ue = rows[j].ue /\ w[q].label = rows[j].label
    BY <1>1, <1>7
  <2>2. j \in UeWindows(rows, rows[a].ue) /\ a <= j /\ j <= e
    BY <1>4, <1>5, <1>6, <1>7, <2>1 DEF UeWindows
  <2>3. w[q].label = w[p].label
    BY <1>3, <1>5, <2>1, <2>2
  <2> QED  BY <1>7, <2>1, <2>2, <2>3 DEF SameAttack
<1>9. p > 1 => ~SameAttack(w, p - 1, p)
  <2> SUFFICES ASSUME p > 1, SameAttack(w, p - 1, p) PROVE FALSE
    OBVIOUS
  <2>1. p - 1 \in 1..Len(w) /\ p - 1 <= p /\ p - 1 < p
    BY <1>2
  <2>2. w[p - 1].ue = w[p].ue /\ w[p - 1].label = w[p].label
    BY DEF SameAttack
  <2>3. PICK b \in 1..Len(rows) : b = w[p - 1].ts /\ b \in WindowRows(rows)
                                  /\ w[p - 1].ue = rows[b].ue /\ w[p - 1].label = rows[b].label
    BY <1>1, <2>1
  <2>4. b < a
    BY <1>4, <2>1, <2>2, <2>3, PoolBetween
  <2>5. b \in UeWindows(rows, rows[a].ue)
    BY <1>5, <2>2, <2>3 DEF UeWindows
  <2>6. rows[b].label = rows[a].label
    BY <1>5, <2>2, <2>3
  <2>7. PICK j \in UeWindows(rows, rows[a].ue) : b < j /\ j < a
    BY <2>4, <2>5, <2>6 DEF DetectedFrom, Onset
  <2>8. j \in 1..Len(rows)
    BY StampedHasUes DEF UeWindows, WindowRows
  <2>9. j \in UeWindows(rows, w[p].ue) /\ j <= w[p].ts /\ j \in UeWindows(rows, w[p - 1].ue)
    BY <1>1, <1>2, <1>4, <1>5, <2>2, <2>7, <2>8
  <2>10. PICK q \in 1..Len(w) : w[q].ts = j /\ w[q].ue = w[p].ue /\ q <= p
    BY <2>9, PoolTo, SMTT(30)
  <2>11. q # p /\ q # p - 1
    <3>1. ~(j < j)
      BY <1>2, <2>8
    <3> QED  BY <1>4, <2>3, <2>7, <2>10, <3>1
  <2>12. q <= p - 1
    BY <1>2, <2>10, <2>11
  <2>13. w[q].ts <= w[p - 1].ts
    <3>1. p - 1 \in q..(p - 1)
      BY <1>2, <2>12
    <3> QED  BY <2>1, <2>2, <2>10, <2>12, <3>1, PoolBetween
  <2>14. j <= b
    BY <2>3, <2>10, <2>13
  <2> QED  BY <1>2, <2>7, <2>8, <2>14
<1>10. PICK last \in 1..Len(w) : m <= last /\ <<p, last>> \in AttackSegments(w)
  <2>1. w[p].label > 0
    BY <1>3, <1>5
  <2> QED  BY <1>6, <1>8, <1>9, <2>1, SegmentFrom
<1>11. Fires(w, c)[m] /\ m \in p..last
  <2>1. Alert(rows, c, e)
    BY DEF DetectedFrom
  <2>2. Fires(w, c)[m]
    BY <1>6, <2>1, FiresAre
  <2> QED  BY <1>2, <1>6, <1>10, <2>2
<1>12. Min({i \in p..last : Fires(w, c)[i]}) = m
  <2>1. PICK Firing : Firing = {i \in p..last : Fires(w, c)[i]}
    OBVIOUS
  <2>2. m \in Firing
    BY <1>11, <2>1
  <2>3. ASSUME NEW i \in Firing PROVE m <= i
    <3> SUFFICES ASSUME i < m PROVE FALSE
      BY <2>1, <2>3
    <3>1. i \in p..m /\ Fires(w, c)[i] /\ i \in 1..Len(w) /\ i <= m
      BY <1>2, <2>1, <2>3
    <3>2. Alert(rows, c, w[i].ts)
      BY <3>1, FiresAre
    <3>3. w[i].ts \in UeWindows(rows, rows[a].ue) /\ a <= w[i].ts
      BY <1>4, <1>7, <1>8, <3>1
    <3>4. w[i].ts < w[m].ts
      <4>1. w[i].ue = w[m].ue
        BY <1>6, <1>7, <3>1
      <4> QED  BY <3>1, <4>1, PoolBetween
    <3>5. \A j \in UeWindows(rows, rows[a].ue) : a <= j /\ j < e => ~Alert(rows, c, j)
      BY DEF DetectedFrom
    <3> QED  BY <1>6, <3>2, <3>3, <3>4, <3>5
  <2>4. Firing \subseteq Int
    BY <2>1
  <2> QED  BY <2>1, <2>2, <2>3, <2>4, MinIs
<1>13. LatencyOf(rows, a, e) = <<w[p].label, w[m].ts - w[p].ts, w[p].ts>>
  BY <1>4, <1>5, <1>6 DEF LatencyOf
<1>14. \E s \in AttackSegments(w) :
         /\ \E i \in s[1]..s[2] : Fires(w, c)[i]
         /\ LatencyOf(rows, a, e) =
              <<w[s[1]].label, w[Min({i \in s[1]..s[2] : Fires(w, c)[i]})].ts - w[s[1]].ts, w[s[1]].ts>>
  <2>1. PICK s \in AttackSegments(w) : s = <<p, last>>
    BY <1>10
  <2>2. s[1] = p /\ s[2] = last
    BY <2>1
  <2>3. \E i \in s[1]..s[2] : Fires(w, c)[i]
    BY <1>11, <2>2
  <2> QED  BY <1>12, <1>13, <2>2, <2>3
<1> QED  BY <1>14 DEF DetectionLatency

LEMMA BeginningRows ==
  ASSUME NEW pre, NEW rows, IsBeginning(pre, rows), HasUes(pre), HasUes(rows)
  PROVE  /\ \A i \in WindowRows(pre) : i \in WindowRows(rows) /\ pre[i] = rows[i]
                                       /\ RowWindow(rows, i) = RowWindow(pre, i)
                                       /\ i \in 1..Len(pre)
         /\ \A i \in WindowRows(rows) : i <= Len(pre) => i \in WindowRows(pre)
         /\ \A i \in WindowRows(rows) : i \in 1..Len(rows)
<1>1. /\ DOMAIN pre = 1..Len(pre) /\ DOMAIN rows = 1..Len(rows)
      /\ Len(pre) \in Nat /\ Len(rows) \in Nat /\ Len(pre) <= Len(rows)
      /\ \A i \in DOMAIN pre : pre[i] = rows[i]
  BY DomainIs DEF IsBeginning
<1>2. \A i \in DOMAIN pre : Nth(rows, i) = Nth(pre, i) /\ RowWindow(rows, i) = RowWindow(pre, i)
  BY BeginningWindow
<1>3. ASSUME NEW i \in WindowRows(pre)
      PROVE  i \in WindowRows(rows) /\ pre[i] = rows[i]
             /\ RowWindow(rows, i) = RowWindow(pre, i) /\ i \in 1..Len(pre)
  <2>1. i \in DOMAIN pre /\ Nth(pre, i) >= W
    BY DEF WindowRows
  <2>2. i \in DOMAIN rows
    BY <1>1, <2>1
  <2> QED  BY <1>1, <1>2, <2>1, <2>2 DEF WindowRows
<1>4. ASSUME NEW i \in WindowRows(rows)
      PROVE  i \in 1..Len(rows) /\ (i <= Len(pre) => i \in WindowRows(pre))
  <2>1. i \in DOMAIN rows /\ Nth(rows, i) >= W
    BY DEF WindowRows
  <2>2. i <= Len(pre) => i \in DOMAIN pre
    BY <1>1, <2>1
  <2> QED  BY <1>1, <1>2, <2>1, <2>2 DEF WindowRows
<1> QED  BY <1>3, <1>4

\* What is detected in a beginning of the file is detected in the file.
LEMMA DetectedStands ==
  ASSUME NEW pre, NEW rows, IsBeginning(pre, rows), HasUes(pre), HasUes(rows),
         NEW c, NEW a, NEW e, DetectedFrom(pre, c, a, e)
  PROVE  DetectedFrom(rows, c, a, e) /\ LatencyOf(rows, a, e) = LatencyOf(pre, a, e)
<1>1. PICK n \in Nat : n = Len(pre)
  BY DomainIs
<1>2. PICK m \in Nat : m = Len(rows)
  BY DomainIs
<1>3. /\ a \in WindowRows(pre) /\ e \in WindowRows(pre) /\ pre[e].ue = pre[a].ue
      /\ a <= e /\ pre[a].label > 0
      /\ \A j \in UeWindows(pre, pre[a].ue) : a <= j /\ j <= e => pre[j].label = pre[a].label
  BY DEF DetectedFrom, Attacked, UeWindows
<1>4. /\ a \in WindowRows(rows) /\ e \in WindowRows(rows) /\ a \in 1..n /\ e \in 1..n
      /\ pre[a] = rows[a] /\ pre[e] = rows[e]
  BY <1>1, <1>3, BeginningRows
<1>5. PICK ue : ue = pre[a].ue /\ ue = rows[a].ue
  BY <1>4
\* The windows of the UE up to e are the same.
<1>6. ASSUME NEW j, j <= e
      PROVE  /\ j \in UeWindows(rows, ue) => j \in UeWindows(pre, ue)
             /\ j \in UeWindows(pre, ue) => j \in UeWindows(rows, ue)
  <2>1. j \in WindowRows(rows) => j <= Len(pre)
    <3> SUFFICES ASSUME j \in WindowRows(rows) PROVE j <= n
      BY <1>1
    <3>1. j \in 1..m
      BY <1>2, BeginningRows
    <3> QED  BY <1>4, <1>6, <3>1
  <2>2. (j \in WindowRows(rows) => j \in WindowRows(pre)) /\ (j \in WindowRows(pre) => j \in WindowRows(rows))
    BY <2>1, BeginningRows
  <2>3. j \in WindowRows(pre) => pre[j] = rows[j]
    BY BeginningRows
  <2> QED  BY <2>2, <2>3 DEF UeWindows
<1>7. \A j \in UeWindows(pre, ue) : pre[j] = rows[j] /\ RowWindow(rows, j) = RowWindow(pre, j)
                                    /\ j \in Nat
  BY <1>1, BeginningRows DEF UeWindows
<1>8. \A j \in UeWindows(rows, ue) : j \in Nat
  BY <1>2, BeginningRows DEF UeWindows
<1>9. Attacked(rows, a, e)
  <2>1. e \in UeWindows(rows, rows[a].ue)
    BY <1>3, <1>4, <1>5 DEF UeWindows
  <2>2. ASSUME NEW j \in UeWindows(rows, ue), a <= j, j <= e PROVE rows[j].label = rows[a].label
    <3>1. j \in UeWindows(pre, ue)
      BY <1>6, <2>2
    <3> QED  BY <1>3, <1>4, <1>5, <1>7, <2>2, <3>1
  <2>3. rows[a].label > 0
    BY <1>3, <1>4
  <2> QED  BY <1>3, <1>4, <1>5, <2>1, <2>2, <2>3 DEF Attacked
<1>10. Onset(rows, a)
  <2> SUFFICES ASSUME NEW b \in UeWindows(rows, ue), b < a,
                      \A j \in UeWindows(rows, ue) : ~(b < j /\ j < a)
               PROVE  rows[b].label # rows[a].label
    BY <1>5 DEF Onset
  <2>1. b <= e
    BY <1>3, <1>4, <1>8
  <2>2. b \in UeWindows(pre, ue)
    BY <1>6, <2>1
  <2>3. ASSUME NEW j \in UeWindows(pre, ue), b < j, j < a PROVE FALSE
    <3>1. j <= e
      BY <1>3, <1>4, <1>7, <2>3
    <3>2. j \in UeWindows(rows, ue)
      BY <1>6, <3>1
    <3> QED  BY <2>3, <3>2
  <2>4. pre[b].label # pre[a].label
    BY <1>5, <2>2, <2>3 DEF DetectedFrom, Onset
  <2> QED  BY <1>4, <1>7, <2>2, <2>4
<1>11. \A j \in UeWindows(rows, ue) : a <= j /\ j < e => ~Alert(rows, c, j)
  <2> SUFFICES ASSUME NEW j \in UeWindows(rows, ue), a <= j, j < e PROVE ~Alert(rows, c, j)
    OBVIOUS
  <2>1. j <= e
    BY <1>4, <1>8
  <2>2. j \in UeWindows(pre, ue)
    BY <1>6, <2>1
  <2>3. ~Alert(pre, c, j)
    BY <1>5, <2>2 DEF DetectedFrom
  <2> QED  BY <1>7, <2>2, <2>3 DEF Alert
<1>12. Alert(rows, c, e)
  <2>1. Alert(pre, c, e)
    BY DEF DetectedFrom
  <2>2. RowWindow(rows, e) = RowWindow(pre, e)
    BY <1>3, BeginningRows
  <2> QED  BY <2>1, <2>2 DEF Alert
<1>13. LatencyOf(rows, a, e) = LatencyOf(pre, a, e)
  BY <1>4 DEF LatencyOf
<1> QED  BY <1>5, <1>9, <1>10, <1>11, <1>12, <1>13 DEF DetectedFrom

LEMMA PoolStands ==
  ASSUME NEW pre, NEW rows, IsBeginning(pre, rows), Stamped(pre), Stamped(rows)
  PROVE  /\ ToSet(Pool(pre)) \subseteq ToSet(Pool(rows))
         /\ \A c \in Configs : Results(pre)[c].detection \subseteq Results(rows)[c].detection
<1>1. HasUes(pre) /\ HasUes(rows)
  BY StampedHasUes
<1>2. PICK v, w : v = Pool(pre) /\ w = Pool(rows)
  OBVIOUS
<1>3. ASSUME NEW x \in ToSet(v) PROVE x \in ToSet(w)
  <2>1. PICK p \in DOMAIN v : x = v[p]
    BY DEF ToSet
  <2>2. p \in 1..Len(v)
    BY <1>2, PoolStamped
  <2>3. PICK i \in WindowRows(pre) : i = v[p].ts /\ v[p] = RowWindow(pre, i)
    BY <1>2, <2>2, PoolStamped
  <2>4. i \in WindowRows(rows) /\ RowWindow(rows, i) = RowWindow(pre, i)
    BY <1>1, BeginningRows
  <2>5. PICK q \in 1..Len(w) : w[q].ts = i
    BY <1>2, <2>4, PoolStamped
  <2>6. w[q] = RowWindow(rows, w[q].ts) /\ DOMAIN w = 1..Len(w)
    BY <1>2, PoolStamped
  <2>7. q \in DOMAIN w /\ x = w[q]
    BY <2>1, <2>3, <2>4, <2>5, <2>6
  <2> QED  BY <2>7 DEF ToSet
<1>4. ASSUME NEW c \in Configs
      PROVE  Results(pre)[c].detection \subseteq Results(rows)[c].detection
  <2>1. /\ Results(pre)[c].detection = DetectionLatency(v, Fires(v, c))
        /\ Results(rows)[c].detection = DetectionLatency(w, Fires(w, c))
    BY <1>2 DEF Results, Entry
  <2>2. ASSUME NEW l \in DetectionLatency(v, Fires(v, c))
        PROVE  l \in DetectionLatency(w, Fires(w, c))
    <3>1. PICK a \in WindowRows(pre), e \in WindowRows(pre) :
            DetectedFrom(pre, c, a, e) /\ l = LatencyOf(pre, a, e)
      BY <1>2, LatencyHasAttack
    <3>2. DetectedFrom(rows, c, a, e) /\ LatencyOf(rows, a, e) = l
      BY <1>1, <3>1, DetectedStands
    <3> QED  BY <1>2, <3>2, AttackHasLatency
  <2> QED  BY <2>1, <2>2
<1> QED  BY <1>2, <1>3, <1>4

(* Verdicts and latencies stand as the file grows (evaluate_per_ue_v2).      *)
THEOREM VerdictsStay == EvalSpec => VerdictsStand
<1>1. CsvInv /\ CsvInv' /\ [EvalNext]_csv =>
        [IsStrictPrefix(csv, csv') =>
           /\ ToSet(Pool(csv)) \subseteq ToSet(Pool(csv'))
           /\ \A c \in Configs : Results(csv)[c].detection \subseteq Results(csv')[c].detection]_csv
  <2> SUFFICES ASSUME CsvInv, CsvInv', NEW kind \in RowKinds, Record(kind)
               PROVE  /\ ToSet(Pool(csv)) \subseteq ToSet(Pool(csv'))
                      /\ \A c \in Configs : Results(csv)[c].detection \subseteq Results(csv')[c].detection
    BY DEF EvalNext
  <2>1. PICK pre, rows : pre = csv /\ rows = csv'
    OBVIOUS
  <2>2. Stamped(pre) /\ Stamped(rows)
    BY <2>1 DEF CsvInv
  <2>3. PICK row : rows = Append(pre, row)
    BY <2>1 DEF Record
  <2>4. HasUes(pre) /\ HasUes(rows) /\ Len(pre) \in Nat /\ DOMAIN pre = 1..Len(pre)
    BY <2>2, StampedHasUes
  <2>5. PICK T : pre \in Seq(T)
    BY <2>4 DEF HasUes
  <2>6. Len(rows) = Len(pre) + 1 /\ \A i \in 1..Len(pre) : rows[i] = pre[i]
    <3>1. PICK U : U = T \cup {row}
      OBVIOUS
    <3>2. pre \in Seq(U) /\ row \in U
      BY <2>5, <3>1, SeqMonotonic
    <3> QED  BY <2>3, <3>2, AppendProperties
  <2>7. IsBeginning(pre, rows)
    BY <2>4, <2>6 DEF IsBeginning
  <2>8. /\ ToSet(Pool(pre)) \subseteq ToSet(Pool(rows))
        /\ \A c \in Configs : Results(pre)[c].detection \subseteq Results(rows)[c].detection
    BY <2>2, <2>7, PoolStands
  <2> QED  BY <2>1, <2>8
<1> QED  BY <1>1, CsvInvHolds, PTL DEF EvalSpec, VerdictsStand

\* The rows of the UE that is reported at ts, and the place of that row among them.
OwnOf(rows, ts) ==
  LET first == CHOOSE i \in DOMAIN rows : rows[i].ts = ts
  IN SplitByRnti(rows, rows[first].ue)
PlaceAt(rows, ts) == CHOOSE i \in DOMAIN OwnOf(rows, ts) : OwnOf(rows, ts)[i].ts = ts

LEMMA OwnIs ==
  ASSUME NEW rows, Stamped(rows), NEW t \in DOMAIN rows
  PROVE  OwnOf(rows, t) = SplitByRnti(rows, rows[t].ue) /\ PlaceAt(rows, t) = Nth(rows, t)
<1>1. HasUes(rows) /\ \A i \in DOMAIN rows : rows[i].ts = i
  BY StampedHasUes DEF Stamped
<1>2. (CHOOSE i \in DOMAIN rows : rows[i].ts = t) = t
  BY <1>1
<1>3. PICK own : own = SplitByRnti(rows, rows[t].ue)
  OBVIOUS
<1>4. OwnOf(rows, t) = own
  BY <1>2, <1>3 DEF OwnOf
<1>5. PICK P : P = PlacesOf(rows, rows[t].ue)
  OBVIOUS
<1>6. /\ P \subseteq Int /\ IsFiniteSet(P) /\ DOMAIN own = 1..Cardinality(P)
      /\ \A k \in 1..Cardinality(P) : own[k] = rows[Ascending(P)[k]] /\ Ascending(P)[k] \in P
  BY <1>1, <1>3, <1>5, GroupIs
<1>7. \A k \in 1..Cardinality(P) : PlaceIn(P, Ascending(P)[k]) = k
  BY <1>6, AscendingIs
<1>8. \A i \in P : i \in DOMAIN rows
  BY <1>5 DEF PlacesOf
<1>9. PICK n : n = Nth(rows, t)
  OBVIOUS
<1>10. n = PlaceIn(P, t) /\ n \in 1..Cardinality(P) /\ own[n] = rows[t]
  <2>1. Nth(rows, t) = PlaceIn(P, t) /\ t \in P
    BY <1>1, <1>5, NthIs
  <2>2. own[Nth(rows, t)] = rows[t]
    BY <1>1, <1>3, NthIs
  <2>3. PlaceIn(P, t) \in 1..Cardinality(P)
    BY <1>6, <2>1, AscendingIs
  <2> QED  BY <1>9, <2>1, <2>2, <2>3
<1>11. \A k \in 1..Cardinality(P) : own[k].ts = t => k = n
  <2> SUFFICES ASSUME NEW k \in 1..Cardinality(P), own[k].ts = t PROVE k = n
    OBVIOUS
  <2>1. PICK i \in P : i = Ascending(P)[k] /\ own[k] = rows[i]
    BY <1>6
  <2>2. i = t
    BY <1>1, <1>8, <2>1
  <2> QED  BY <1>7, <1>10, <2>1, <2>2
<1>12. own[n].ts = t
  BY <1>1, <1>10
<1>13. (CHOOSE k \in DOMAIN own : own[k].ts = t) = n
  BY <1>6, <1>10, <1>11, <1>12
<1>14. PlaceAt(rows, t) = n
  BY <1>4, <1>13 DEF PlaceAt
<1> QED  BY <1>3, <1>4, <1>9, <1>14

\* A row of a UE's group from its first window on.
LEMMA GroupRow ==
  ASSUME NEW rows, HasUes(rows), NEW ue, NEW k \in 1..Len(SplitByRnti(rows, ue)), k >= W
  PROVE  \E b \in UeWindows(rows, ue) : Nth(rows, b) = k /\ SplitByRnti(rows, ue)[k] = rows[b]
<1>1. PICK P : P = PlacesOf(rows, ue)
  OBVIOUS
<1>2. /\ P \subseteq Int /\ IsFiniteSet(P) /\ k \in 1..Cardinality(P)
      /\ SplitByRnti(rows, ue)[k] = rows[Ascending(P)[k]] /\ Ascending(P)[k] \in P
  BY <1>1, GroupIs
<1>3. PICK b : b = Ascending(P)[k]
  OBVIOUS
<1>4. PlaceIn(P, b) = k
  BY <1>2, <1>3, AscendingIs
<1>5. b \in DOMAIN rows /\ rows[b].ue = ue
  BY <1>1, <1>2, <1>3 DEF PlacesOf
<1>6. Nth(rows, b) = k
  BY <1>1, <1>4, <1>5 DEF Nth
<1>7. b \in UeWindows(rows, ue)
  BY <1>5, <1>6 DEF UeWindows, WindowRows
<1> QED  BY <1>2, <1>3, <1>6, <1>7

\* The rows of one UE are numbered in their order.
LEMMA NthOrder ==
  ASSUME NEW rows, HasUes(rows), NEW i \in DOMAIN rows, NEW j \in DOMAIN rows, rows[i].ue = rows[j].ue
  PROVE  (i < j <=> Nth(rows, i) < Nth(rows, j)) /\ Nth(rows, i) \in Nat /\ Nth(rows, j) \in Nat
<1>1. PICK P : P = PlacesOf(rows, rows[i].ue)
  OBVIOUS
<1>2. P \subseteq Int /\ IsFiniteSet(P)
  BY <1>1, GroupIs
<1>3. i \in P /\ j \in P /\ Nth(rows, i) = PlaceIn(P, i) /\ Nth(rows, j) = PlaceIn(P, j)
  BY <1>1, NthIs
<1>4. i < j <=> PlaceIn(P, i) < PlaceIn(P, j)
  BY <1>2, <1>3, PlaceInIs
<1>5. PlaceIn(P, i) \in 1..Cardinality(P) /\ PlaceIn(P, j) \in 1..Cardinality(P) /\ Cardinality(P) \in Nat
  BY <1>2, <1>3, PlaceInIs
<1>6. \A x \in 1..Cardinality(P) : x \in Nat
  BY <1>5
<1> QED  BY <1>3, <1>4, <1>5, <1>6

LEMMA FromOnset ==
  ASSUME NEW rows, Stamped(rows), NEW c \in Configs,
         NEW l \in DetectionLatency(Pool(rows), Fires(Pool(rows), c))
  PROVE  \/ PlaceAt(rows, l[3]) = W
         \/ OwnOf(rows, l[3])[PlaceAt(rows, l[3]) - 1].label # l[1]
<1>1. PICK a \in WindowRows(rows), e \in WindowRows(rows) :
        DetectedFrom(rows, c, a, e) /\ l = LatencyOf(rows, a, e)
  BY LatencyHasAttack
<1>2. l[1] = rows[a].label /\ l[3] = a
  BY <1>1 DEF LatencyOf
<1>3. HasUes(rows) /\ a \in DOMAIN rows /\ DOMAIN rows = 1..Len(rows) /\ Len(rows) \in Nat
  BY StampedHasUes DEF WindowRows
<1>4. PICK ue : ue = rows[a].ue
  OBVIOUS
<1>5. PICK own : own = SplitByRnti(rows, ue)
  OBVIOUS
<1>6. OwnOf(rows, a) = own /\ PlaceAt(rows, a) = Nth(rows, a)
  BY <1>3, <1>4, <1>5, OwnIs
<1>7. Len(own) \in Nat
  BY <1>3, <1>5, GroupIs
<1>8. PICK n \in 1..Len(own) : n = Nth(rows, a) /\ n >= W
  <2>1. Nth(rows, a) \in 1..Len(own)
    BY <1>3, <1>4, <1>5, NthIs
  <2> QED  BY <2>1 DEF WindowRows
<1>9. CASE n # W
  <2>1. n - 1 \in 1..Len(own) /\ n - 1 >= W
    BY <1>7, <1>8, <1>9, EvalConstants
  <2>2. PICK k : k = n - 1
    OBVIOUS
  <2>3. PICK b \in UeWindows(rows, ue) : Nth(rows, b) = k /\ own[k] = rows[b]
    BY <1>3, <1>5, <2>1, <2>2, GroupRow
  <2>4. b \in DOMAIN rows /\ rows[b].ue = ue
    BY DEF UeWindows, WindowRows
  <2>5. b < a
    <3>1. Nth(rows, b) < Nth(rows, a)
      BY <1>7, <1>8, <2>2, <2>3
    <3> QED  BY <1>3, <1>4, <2>4, <3>1, NthOrder
  <2>6. ASSUME NEW j \in UeWindows(rows, ue), b < j, j < a PROVE FALSE
    <3>1. j \in DOMAIN rows /\ rows[j].ue = ue
      BY DEF UeWindows, WindowRows
    <3>2. Nth(rows, b) < Nth(rows, j) /\ Nth(rows, j) \in Nat
      BY <1>3, <2>4, <2>6, <3>1, NthOrder
    <3>3. Nth(rows, j) < Nth(rows, a)
      BY <1>3, <1>4, <2>6, <3>1, NthOrder
    <3>4. PICK x \in Nat : x = Nth(rows, j)
      BY <3>2
    <3>5. k < x /\ x < n
      BY <1>8, <2>3, <3>2, <3>3, <3>4
    <3> QED  BY <1>7, <2>2, <3>5
  <2>7. rows[b].label # rows[a].label
    BY <1>1, <1>4, <2>5, <2>6 DEF DetectedFrom, Onset
  <2> QED  BY <1>2, <1>6, <1>8, <2>2, <2>3, <2>7
<1> QED  BY <1>2, <1>6, <1>8, <1>9

LEMMA AlertHasLatency ==
  ASSUME NEW rows, Stamped(rows), NEW c \in Configs, NEW w, w = Pool(rows),
         NEW p \in 1..Len(w), Fires(w, c)[p], w[p].label > 0
  PROVE  \E l \in DetectionLatency(w, Fires(w, c)) :
           /\ l[1] = w[p].label /\ l[3] + l[2] <= w[p].ts
           /\ OwnOf(rows, l[3])[1].ue = w[p].ue
           /\ \A j \in PlaceAt(rows, l[3])..PlaceAt(rows, w[p].ts) :
                OwnOf(rows, l[3])[j].label = w[p].label
<1>1. HasUes(rows) /\ DOMAIN rows = 1..Len(rows) /\ Len(rows) \in Nat
  BY StampedHasUes
<1>2. PICK t \in WindowRows(rows) : /\ t = w[p].ts /\ t \in 1..Len(rows)
                                    /\ w[p].ue = rows[t].ue /\ w[p].label = rows[t].label
  BY PoolStamped
<1>3. PICK ue : ue = rows[t].ue
  OBVIOUS
<1>4. \A j \in UeWindows(rows, ue) : j \in 1..Len(rows) /\ rows[j].ue = ue /\ j \in WindowRows(rows) /\ j \in Nat
  BY <1>1 DEF UeWindows, WindowRows
<1>5. Alert(rows, c, t) /\ rows[t].label > 0
  BY <1>2, FiresAre
<1>6. t \in UeWindows(rows, ue)
  BY <1>3 DEF UeWindows
<1> DEFINE Starts == {x \in UeWindows(rows, ue) : Attacked(rows, x, t)}
           \* An attacked row, spelled out.
           Same(x) == \A j \in UeWindows(rows, ue) : x <= j /\ j <= t => rows[j].label = rows[t].label
<1>7. ASSUME NEW x \in UeWindows(rows, ue), x <= t
      PROVE  Attacked(rows, x, t) <=> Same(x)
  <2>1. rows[x].ue = ue /\ x \in WindowRows(rows) /\ x \in Nat
    BY <1>4
  <2>2. Same(x) => rows[x].label = rows[t].label
    BY <1>7, <2>1
  <2>3. Attacked(rows, x, t) => rows[t].label = rows[x].label
    <3>1. t \in UeWindows(rows, rows[x].ue) /\ t <= t
      BY <1>2, <1>6, <2>1
    <3> QED  BY <1>7, <3>1 DEF Attacked
  <2> QED  BY <1>5, <1>6, <1>7, <2>1, <2>2, <2>3 DEF Attacked
<1>8. t \in Starts
  <2>1. Same(t)
    BY <1>2, <1>4
  <2>2. t <= t
    BY <1>2
  <2> QED  BY <1>6, <1>7, <2>1, <2>2
<1>9. Starts \subseteq Nat
  BY <1>4
<1>10. PICK a \in Starts : \A x \in Starts : a <= x
  BY <1>8, <1>9, LeastExists
<1>11. /\ a \in UeWindows(rows, ue) /\ Attacked(rows, a, t) /\ a <= t
       /\ a \in WindowRows(rows) /\ rows[a].ue = ue /\ a \in Nat /\ a \in DOMAIN rows
  BY <1>1, <1>4, <1>10 DEF Attacked
<1>12. Same(a) /\ rows[a].label = rows[t].label
  <2>1. a <= a
    BY <1>11
  <2> QED  BY <1>7, <1>11, <2>1
<1> HIDE DEF Same
<1>13. Onset(rows, a)
  <2> SUFFICES ASSUME NEW b \in UeWindows(rows, ue), b < a,
                      \A j \in UeWindows(rows, ue) : ~(b < j /\ j < a)
               PROVE  rows[b].label # rows[a].label
    BY <1>11 DEF Onset
  <2> SUFFICES ASSUME rows[b].label = rows[a].label PROVE FALSE
    OBVIOUS
  <2>1. b \in Nat /\ b <= t /\ ~(a <= b)
    BY <1>2, <1>4, <1>11
  <2>2. ASSUME NEW j \in UeWindows(rows, ue), b <= j, j <= t PROVE rows[j].label = rows[t].label
    <3>1. j \in Nat
      BY <1>4
    <3>2. j = b \/ a <= j
      BY <1>11, <2>1, <2>2, <3>1
    <3> QED  BY <1>12, <2>2, <3>2 DEF Same
  <2>3. Same(b)
    BY <2>2 DEF Same
  <2>4. b \in Starts
    BY <1>7, <2>1, <2>3
  <2> QED  BY <1>10, <2>1, <2>4
<1> HIDE DEF Starts
<1> DEFINE Firing == {x \in UeWindows(rows, ue) : a <= x /\ x <= t /\ Alert(rows, c, x)}
<1>14. t \in Firing /\ Firing \subseteq Nat
  BY <1>2, <1>4, <1>5, <1>6, <1>11
<1>15. PICK e \in Firing : \A x \in Firing : e <= x
  BY <1>14, LeastExists
<1>16. e \in UeWindows(rows, ue) /\ a <= e /\ e <= t /\ Alert(rows, c, e) /\ e \in Nat
  BY <1>14
<1>17. Attacked(rows, a, e)
  <2>1. ASSUME NEW j \in UeWindows(rows, ue), a <= j, j <= e PROVE rows[j].label = rows[a].label
    <3>1. j <= t
      BY <1>2, <1>4, <1>16, <2>1
    <3> QED  BY <1>12, <2>1, <3>1 DEF Same
  <2>2. rows[a].label > 0
    BY <1>5, <1>12
  <2> QED  BY <1>11, <1>16, <2>1, <2>2 DEF Attacked
<1>18. ASSUME NEW j \in UeWindows(rows, ue), a <= j, j < e, Alert(rows, c, j) PROVE FALSE
  <2>1. j \in Nat
    BY <1>4
  <2>2. j <= t
    BY <1>2, <1>16, <1>18, <2>1
  <2>3. j \in Firing
    BY <1>18, <2>2
  <2> QED  BY <1>15, <1>16, <1>18, <2>1, <2>3
<1> HIDE DEF Firing
<1>19. DetectedFrom(rows, c, a, e)
  BY <1>11, <1>13, <1>16, <1>17, <1>18 DEF DetectedFrom
<1>20. PICK l : l = LatencyOf(rows, a, e)
  OBVIOUS
<1>21. l \in DetectionLatency(w, Fires(w, c))
  BY <1>19, <1>20, AttackHasLatency
<1>22. l[1] = rows[a].label /\ l[2] = e - a /\ l[3] = a
  BY <1>20 DEF LatencyOf
<1>23. PICK own : own = SplitByRnti(rows, ue)
  OBVIOUS
<1>24. OwnOf(rows, a) = own /\ PlaceAt(rows, a) = Nth(rows, a) /\ PlaceAt(rows, t) = Nth(rows, t)
  BY <1>1, <1>2, <1>11, <1>23, OwnIs
<1>25. Len(own) \in Nat
  BY <1>1, <1>23, GroupIs
<1>26. PICK na \in 1..Len(own), nt \in 1..Len(own) : na = Nth(rows, a) /\ nt = Nth(rows, t) /\ na >= W
  <2>1. Nth(rows, a) \in 1..Len(own) /\ Nth(rows, a) >= W
    BY <1>1, <1>11, <1>23, NthIs DEF WindowRows
  <2>2. Nth(rows, t) \in 1..Len(own)
    BY <1>1, <1>2, <1>3, <1>23, NthIs
  <2> QED  BY <2>1, <2>2
<1>27. own[1].ue = ue
  <2>1. 1 \in 1..Cardinality(PlacesOf(rows, ue)) /\ own[1] = rows[Ascending(PlacesOf(rows, ue))[1]]
        /\ Ascending(PlacesOf(rows, ue))[1] \in PlacesOf(rows, ue)
    <3>1. PICK k : k = 1
      OBVIOUS
    <3>2. k \in 1..Cardinality(PlacesOf(rows, ue))
      <4>1. Len(own) = Cardinality(PlacesOf(rows, ue))
        BY <1>1, <1>23, GroupIs
      <4> QED  BY <1>25, <1>26, <3>1, <4>1
    <3> QED  BY <1>1, <1>23, <3>1, <3>2, GroupIs
  <2> QED  BY <2>1 DEF PlacesOf
<1>28. ASSUME NEW j \in na..nt PROVE own[j].label = rows[t].label
  <2>1. j \in 1..Len(own) /\ j >= W
    BY <1>25, <1>26, EvalConstants
  <2>2. PICK b \in UeWindows(rows, ue) : Nth(rows, b) = j /\ own[j] = rows[b]
    BY <1>1, <1>23, <2>1, GroupRow
  <2>3. b \in DOMAIN rows /\ rows[b].ue = ue /\ b \in Nat
    BY <1>1, <1>4
  <2>4. ~(b < a)
    <3>1. b < a => Nth(rows, b) < Nth(rows, a)
      BY <1>1, <1>11, <2>3, NthOrder
    <3> QED  BY <1>25, <1>26, <2>1, <2>2, <3>1
  <2>5. ~(t < b)
    <3>1. t < b => Nth(rows, t) < Nth(rows, b)
      BY <1>1, <1>2, <1>3, <2>3, NthOrder
    <3> QED  BY <1>25, <1>26, <2>1, <2>2, <3>1
  <2>6. a <= b /\ b <= t
    BY <1>2, <1>11, <2>3, <2>4, <2>5
  <2> QED  BY <1>12, <2>2, <2>6 DEF Same
<1>29. l[3] + l[2] <= t
  BY <1>2, <1>11, <1>16, <1>22
<1> QED  BY <1>2, <1>3, <1>12, <1>21, <1>22, <1>24, <1>26, <1>27, <1>28, <1>29, SMTT(30)

(* A latency counts from the onset, and every alert has one.                *)
LEMMA InvLatencyFromOnset == CsvInv => LatencyFromOnset
<1> SUFFICES ASSUME CsvInv PROVE LatencyFromOnset
  OBVIOUS
<1>1. PICK rows : rows = csv
  OBVIOUS
<1>2. PICK w : w = Pool(rows)
  OBVIOUS
<1>3. Stamped(rows) /\ DOMAIN w = 1..Len(w)
  BY <1>1, <1>2, PoolStamped DEF CsvInv
<1>4. "hybrid" \in Configs
  BY DEF Configs
<1>5. \A l \in DetectionLatency(w, Fires(w, "hybrid")) :
         PlaceAt(csv, l[3]) = W \/ OwnOf(csv, l[3])[PlaceAt(csv, l[3]) - 1].label # l[1]
  BY <1>1, <1>2, <1>3, <1>4, FromOnset
<1>6. \A p \in DOMAIN w : Fires(w, "hybrid")[p] /\ w[p].label > 0 =>
        \E l \in DetectionLatency(w, Fires(w, "hybrid")) :
           /\ l[1] = w[p].label /\ l[3] + l[2] <= w[p].ts
           /\ OwnOf(csv, l[3])[1].ue = w[p].ue
           /\ \A j \in PlaceAt(csv, l[3])..PlaceAt(csv, w[p].ts) :
                OwnOf(csv, l[3])[j].label = w[p].label
  BY <1>1, <1>2, <1>3, <1>4, AlertHasLatency
<1>7. \A l \in DetectionLatency(Pool(csv), Fires(Pool(csv), "hybrid")) :
         PlaceAt(csv, l[3]) = W \/ OwnOf(csv, l[3])[PlaceAt(csv, l[3]) - 1].label # l[1]
  BY <1>1, <1>2, <1>5
<1>8. \A p \in DOMAIN Pool(csv) : Fires(Pool(csv), "hybrid")[p] /\ Pool(csv)[p].label > 0 =>
        \E l \in DetectionLatency(Pool(csv), Fires(Pool(csv), "hybrid")) :
           /\ l[1] = Pool(csv)[p].label /\ l[3] + l[2] <= Pool(csv)[p].ts
           /\ OwnOf(csv, l[3])[1].ue = Pool(csv)[p].ue
           /\ \A j \in PlaceAt(csv, l[3])..PlaceAt(csv, Pool(csv)[p].ts) :
                OwnOf(csv, l[3])[j].label = Pool(csv)[p].label
  BY <1>1, <1>2, <1>6
<1> HIDE DEF Configs
<1> QED  BY <1>7, <1>8, Zenon DEF LatencyFromOnset, PlaceAt, OwnOf

THEOREM LatencyCounts == EvalSpec => []LatencyFromOnset
BY CsvInvHolds, InvLatencyFromOnset, PTL

(***************************************************************************)
(* Sums over the UEs.                                                      *)
(***************************************************************************)
LEMMA SumOfIs ==
  ASSUME NEW s, Len(s) \in Nat
  PROVE  \E off : IsSum(off, s, Len(s)) /\ SumOf(s) = off[Len(s)]
<1> DEFINE f == CHOOSE x : IsSum(x, s, Len(s))
<1>1. IsSum(f, s, Len(s))
  BY SumExists
<1>2. SumOf(s) = f[Len(s)]
  BY DEF SumOf, IsSum
<1> QED  BY <1>1, <1>2

\* There is only one sum.
LEMMA SumIsOne ==
  ASSUME NEW s, NEW n \in Nat, NEW f, NEW g, IsSum(f, s, n), IsSum(g, s, n)
  PROVE  f[n] = g[n]
<1> DEFINE P == {k \in Nat : k <= n => f[k] = g[k]}
<1>1. 0 \in P
  BY DEF IsSum
<1>2. ASSUME NEW k \in Nat, k \in P PROVE k + 1 \in P
  <2> SUFFICES ASSUME k + 1 <= n PROVE f[k + 1] = g[k + 1]
    OBVIOUS
  <2>1. k + 1 \in 0..n /\ k + 1 # 0 /\ (k + 1) - 1 = k /\ k <= n
    OBVIOUS
  <2>2. f[k + 1] = f[k] + s[k + 1] /\ g[k + 1] = g[k] + s[k + 1]
    BY <2>1 DEF IsSum
  <2> QED  BY <1>2, <2>1, <2>2
<1> HIDE DEF P
<1>3. \A k \in Nat : k \in P
  BY <1>1, <1>2, AllNaturals
<1> QED  BY <1>3 DEF P

LEMMA SumOfTo ==
  ASSUME NEW s \in Seq(Nat), NEW off, IsSum(off, s, Len(s))
  PROVE  SumOf(s) = off[Len(s)] /\ SumOf(s) \in Nat
<1>1. Len(s) \in Nat
  BY LenProperties
<1>2. PICK f : IsSum(f, s, Len(s)) /\ SumOf(s) = f[Len(s)]
  BY <1>1, SumOfIs
<1>3. f[Len(s)] = off[Len(s)]
  BY <1>1, <1>2, SumIsOne
<1>4. Len(s) \in 0..Len(s)
  BY <1>1
<1>5. off[Len(s)] \in Nat
  BY <1>4, SumsGrow
<1> QED  BY <1>2, <1>3, <1>5

\* Sums of sequences that are related entry by entry.
LEMMA SumsAdd ==
  ASSUME NEW n \in Nat, NEW a, NEW b, NEW c, a \in Seq(Nat), b \in Seq(Nat), c \in Seq(Nat),
         Len(a) = n, Len(b) = n, Len(c) = n, \A i \in 1..n : a[i] = b[i] + c[i]
  PROVE  SumOf(a) = SumOf(b) + SumOf(c) /\ SumOf(b) \in Nat /\ SumOf(c) \in Nat
<1>1. PICK fa, fb, fc : IsSum(fa, a, n) /\ IsSum(fb, b, n) /\ IsSum(fc, c, n)
  BY SumExists
<1>2. /\ SumOf(a) = fa[n] /\ SumOf(b) = fb[n] /\ SumOf(c) = fc[n]
      /\ SumOf(b) \in Nat /\ SumOf(c) \in Nat
  BY <1>1, SumOfTo
<1>3. \A i \in 0..n : fa[i] \in Nat /\ fb[i] \in Nat /\ fc[i] \in Nat
  BY <1>1, SumsGrow
<1>4. \A i \in 1..n : a[i] \in Nat /\ b[i] \in Nat /\ c[i] \in Nat
  BY ElementOfSeq
<1>5. fa[0] = 0 /\ fb[0] = 0 /\ fc[0] = 0
  BY <1>1, SumsGrow
<1> DEFINE P == {k \in Nat : k <= n => fa[k] = fb[k] + fc[k]}
<1>6. 0 \in P
  BY <1>5
<1>7. ASSUME NEW k \in Nat, k \in P PROVE k + 1 \in P
  <2> SUFFICES ASSUME k + 1 <= n PROVE fa[k + 1] = fb[k + 1] + fc[k + 1]
    OBVIOUS
  <2>1. k + 1 \in 1..n /\ k \in 0..n /\ (k + 1) - 1 = k /\ k <= n
    OBVIOUS
  <2>2. /\ fa[k + 1] = fa[k] + a[k + 1] /\ fb[k + 1] = fb[k] + b[k + 1]
        /\ fc[k + 1] = fc[k] + c[k + 1]
    <3>1. PICK m \in 1..n : m = k + 1 /\ m - 1 = k
      BY <2>1
    <3>2. fa[m] = fa[m - 1] + a[m]
      BY <1>1, SMTT(30) DEF IsSum
    <3>3. fb[m] = fb[m - 1] + b[m]
      BY <1>1, SMTT(30) DEF IsSum
    <3>4. fc[m] = fc[m - 1] + c[m]
      BY <1>1 DEF IsSum
    <3> QED  BY <3>1, <3>2, <3>3, <3>4
  <2>3. PICK xa \in Nat, xb \in Nat, xc \in Nat, ya \in Nat, yb \in Nat, yc \in Nat :
          /\ xa = fa[k] /\ xb = fb[k] /\ xc = fc[k]
          /\ ya = a[k + 1] /\ yb = b[k + 1] /\ yc = c[k + 1]
    BY <1>3, <1>4, <2>1
  <2>4. xa = xb + xc /\ ya = yb + yc
    BY <1>7, <2>1, <2>3
  <2>5. xa + ya = (xb + yb) + (xc + yc)
    BY <2>4
  <2> QED  BY <2>2, <2>3, <2>5
<1> HIDE DEF P
<1>8. \A k \in Nat : k \in P
  BY <1>6, <1>7, AllNaturals
<1>9. fa[n] = fb[n] + fc[n]
  BY <1>8 DEF P
<1> QED  BY <1>2, <1>9

LEMMA SumLeast ==
  ASSUME NEW s \in Seq(Nat), NEW i \in 1..Len(s)
  PROVE  s[i] <= SumOf(s)
<1>1. Len(s) \in Nat /\ s[i] \in Nat
  BY LenProperties, ElementOfSeq
<1>2. PICK off : IsSum(off, s, Len(s))
  BY <1>1, SumExists
<1>3. SumOf(s) = off[Len(s)] /\ SumOf(s) \in Nat
  BY <1>2, SumOfTo
<1>4. i - 1 \in 0..Len(s) /\ i \in 0..Len(s) /\ Len(s) \in 0..Len(s) /\ i <= Len(s)
  BY <1>1
<1>5. off[i] = off[i - 1] + s[i] /\ off[i - 1] \in Nat /\ off[i] \in Nat /\ off[i] <= off[Len(s)]
  BY <1>2, <1>4, SumsGrow
<1>6. PICK x \in Nat, y \in Nat, z \in Nat : x = off[i - 1] /\ y = s[i] /\ z = off[Len(s)] /\ x + y <= z
  BY <1>1, <1>3, <1>5
<1>7. y <= z
  BY <1>6
<1> QED  BY <1>3, <1>6, <1>7

\* Counts of the parts of a finite set, part by part.
LEMMA SumOfParts ==
  ASSUME NEW D, IsFiniteSet(D), NEW lens \in Seq(Nat), NEW part,
         \A i \in D : part[i] \in 1..Len(lens),
         \A b \in 1..Len(lens) : lens[b] = Cardinality({i \in D : part[i] = b})
  PROVE  SumOf(lens) = Cardinality(D)
<1>1. PICK n \in Nat : n = Len(lens)
  BY LenProperties
<1>2. PICK off : IsSum(off, lens, n)
  BY SumExists
<1>3. /\ SumOf(lens) = off[n] /\ off[0] = 0
      /\ \A b \in 1..n : off[b] = off[b - 1] + lens[b]
  BY <1>1, <1>2, SumOfTo, SumsGrow
<1> DEFINE upTo(k) == {i \in D : part[i] <= k}
           in(k) == {i \in D : part[i] = k}
           P == {k \in Nat : k <= n => off[k] = Cardinality(upTo(k))}
<1>4. \A k : IsFiniteSet(upTo(k)) /\ IsFiniteSet(in(k))
  BY FS_Subset
<1>5. 0 \in P
  <2>1. upTo(0) = {}
    BY <1>1
  <2>2. Cardinality(upTo(0)) = 0
    BY <2>1, FS_EmptySet
  <2> QED  BY <1>3, <2>2
<1>6. ASSUME NEW k \in Nat, k \in P PROVE k + 1 \in P
  <2> HIDE DEF upTo, in
  <2> SUFFICES ASSUME k + 1 <= n PROVE off[k + 1] = Cardinality(upTo(k + 1))
    OBVIOUS
  <2> USE DEF upTo, in
  <2>1. k + 1 \in 1..n /\ (k + 1) - 1 = k /\ k <= n
    OBVIOUS
  <2>2. off[k + 1] = off[k] + lens[k + 1] /\ lens[k + 1] = Cardinality(in(k + 1))
    BY <1>1, <1>3, <2>1
  <2>3. upTo(k + 1) = upTo(k) \cup in(k + 1) /\ upTo(k) \cap in(k + 1) = {}
    <3>1. \A i \in D : part[i] \in 1..n
      BY <1>1
    <3>2. ASSUME NEW i \in D
          PROVE  (part[i] <= k + 1 <=> part[i] <= k \/ part[i] = k + 1) /\ ~(part[i] <= k /\ part[i] = k + 1)
      <4>1. PICK x \in 1..n : x = part[i]
        BY <3>1
      <4>2. (x <= k + 1 <=> x <= k \/ x = k + 1) /\ ~(x <= k /\ x = k + 1)
        OBVIOUS
      <4> QED  BY <4>1, <4>2
    <3> QED  BY <3>2
  <2>4. PICK A, B, C : A = upTo(k) /\ B = in(k + 1) /\ C = upTo(k + 1)
    BY Zenon
  <2>5. IsFiniteSet(A) /\ IsFiniteSet(B)
    BY <1>4, <2>4
  <2>6. C = A \cup B /\ A \cap B = {}
    BY <2>3, <2>4
  <2>7. Cardinality(C) = Cardinality(A) + Cardinality(B)
    <3>1. Cardinality(A \cup B) = Cardinality(A) + Cardinality(B) - Cardinality(A \cap B)
      BY <2>5, FS_Union
    <3>2. Cardinality(A \cap B) = 0
      BY <2>6, FS_EmptySet, Zenon
    <3>3. Cardinality(A) \in Nat /\ Cardinality(B) \in Nat
      BY <2>5, FS_CardinalityType
    <3> QED  BY <2>6, <3>1, <3>2, <3>3
  <2>8. off[k] = Cardinality(A)
    BY <1>6, <2>1, <2>4
  <2> HIDE DEF upTo, in
  <2> QED  BY <2>2, <2>4, <2>7, <2>8
<1> HIDE DEF P
<1>7. \A k \in Nat : k \in P
  BY <1>5, <1>6, AllNaturals
<1>8. off[n] = Cardinality(upTo(n))
  BY <1>7 DEF P
<1>9. upTo(n) = D
  BY <1>1
<1> HIDE DEF upTo, in
<1> QED  BY <1>3, <1>8, <1>9

\* The pool has a window for each row of a UE from its W-th on.
LEMMA PoolLength ==
  ASSUME NEW rows, HasUes(rows), NEW B, B = Len(Ues(rows)), NEW lens,
         lens = [b \in DOMAIN Ues(rows) |-> BlockLen(SplitByRnti(rows, Ues(rows)[b]))]
  PROVE  /\ lens \in Seq(Nat) /\ Len(lens) = B /\ B \in Nat
         /\ Len(Pool(rows)) = SumOf(lens)
<1> DEFINE group(b) == SplitByRnti(rows, Ues(rows)[b])
           seqs == [b \in DOMAIN Ues(rows) |-> Windows(group(b))]
           T == {Window(group(b), n) : b \in 1..B, n \in Int}
<1>1. B \in Nat /\ DOMAIN Ues(rows) = 1..B
  BY UesAre
<1>2. W \in Nat /\ W > 0
  BY EvalConstants
<1>3. ASSUME NEW b \in 1..B
      PROVE  /\ Windows(group(b)) \in Seq(T) /\ Len(Windows(group(b))) = BlockLen(group(b))
             /\ BlockLen(group(b)) \in Nat
  <2>1. Len(group(b)) \in Nat
    BY GroupIs
  <2>2. 1..(Len(group(b)) - W + 1) = 1..BlockLen(group(b)) /\ BlockLen(group(b)) \in Nat
    BY <1>2, <2>1 DEF BlockLen
  <2>3. Windows(group(b)) = [k \in 1..BlockLen(group(b)) |-> Window(group(b), k + W - 1)]
    BY <2>2 DEF Windows
  <2>4. \A k \in 1..BlockLen(group(b)) : k + W - 1 \in Int
    BY <1>2
  <2>5. \A k \in 1..BlockLen(group(b)) : Window(group(b), k + W - 1) \in T
    BY <2>4
  <2> HIDE DEF T, group
  <2>6. Windows(group(b)) \in [1..BlockLen(group(b)) -> T]
    BY <2>3, <2>5
  <2>7. Windows(group(b)) \in Seq(T) /\ Len(Windows(group(b))) = BlockLen(group(b))
    BY <2>2, <2>6, IsASeq, LenProperties
  <2> QED  BY <2>2, <2>7
<1> HIDE DEF T
<1>4. lens \in Seq(Nat) /\ Len(lens) = B /\ \A b \in 1..B : lens[b] = BlockLen(group(b))
  BY <1>1, <1>3, IsASeq, LenProperties
<1>5. seqs \in Seq(Seq(T)) /\ Len(seqs) = B /\ \A b \in 1..B : seqs[b] = Windows(group(b))
  <2>1. seqs \in [1..B -> Seq(T)]
    BY <1>1, <1>3
  <2> QED  BY <1>1, <2>1, IsASeq, LenProperties
<1>6. Pool(rows) = FlattenSeq(seqs)
  BY DEF Pool
<1>7. \A b \in 1..B : lens[b] = Len(seqs[b])
  BY <1>3, <1>4, <1>5
<1> HIDE DEF seqs, group
<1>8. [b \in 1..Len(seqs) |-> Len(seqs[b])] = lens
  <2>1. lens = [b \in 1..B |-> lens[b]]
    BY <1>1
  <2> QED  BY <1>5, <1>7, <2>1
<1>9. PICK off : IsSum(off, lens, B)
  BY <1>1, SumExists
<1>10. Len(FlattenSeq(seqs)) = off[B]
  BY <1>5, <1>8, <1>9, FlattenIs
<1>11. SumOf(lens) = off[B]
  BY <1>4, <1>9, SumOfTo
<1> QED  BY <1>1, <1>4, <1>6, <1>10, <1>11

\* Labels in a window of a group.
LabelsIn(g, i) == {g[j].label : j \in i..(i + W - 1)}
LEMMA LabelsFinite ==
  ASSUME NEW g, NEW i \in Int
  PROVE  IsFiniteSet(LabelsIn(g, i))
<1>1. W \in Nat
  BY EvalConstants
<1>2. IsFiniteSet(i..(i + W - 1))
  BY <1>1, FS_Interval
<1> DEFINE f == [j \in i..(i + W - 1) |-> g[j].label]
<1>3. f \in Surjection(i..(i + W - 1), LabelsIn(g, i))
  <2>1. f \in [i..(i + W - 1) -> LabelsIn(g, i)]
        /\ \A l \in LabelsIn(g, i) : \E j \in i..(i + W - 1) : f[j] = l
    BY DEF LabelsIn
  <2> QED  BY <2>1, Fun_IsSurj
<1> QED  BY <1>2, <1>3, FS_Surjection

\* Two labels that differ among numbered ones, so two next to each other.
LEMMA NeighboursDiffer ==
  ASSUME NEW n \in Nat, NEW g, NEW i \in 1..n, NEW j \in 1..n, g[i] # g[j]
  PROVE  \E k \in 1..n : k + 1 <= n /\ g[k] # g[k + 1]
<1> SUFFICES ASSUME \A k \in 1..n : k + 1 <= n => g[k] = g[k + 1] PROVE FALSE
  OBVIOUS
<1> DEFINE P == {m \in Nat : m + 1 <= n => g[m + 1] = g[1]}
<1>1. 0 \in P
  OBVIOUS
<1>2. ASSUME NEW m \in Nat, m \in P PROVE m + 1 \in P
  <2> SUFFICES ASSUME (m + 1) + 1 <= n PROVE g[(m + 1) + 1] = g[1]
    OBVIOUS
  <2>1. m + 1 \in 1..n /\ m + 1 <= n
    OBVIOUS
  <2> QED  BY <1>2, <2>1
<1> HIDE DEF P
<1>3. \A m \in Nat : m \in P
  BY <1>1, <1>2, AllNaturals
<1>4. ASSUME NEW x \in 1..n PROVE g[x] = g[1]
  <2>1. x - 1 \in Nat /\ (x - 1) + 1 = x /\ x <= n
    OBVIOUS
  <2>2. PICK m \in Nat : m = x - 1 /\ m + 1 = x
    BY <2>1
  <2>3. m + 1 <= n => g[m + 1] = g[1]
    BY <1>3 DEF P
  <2> QED  BY <2>1, <2>2, <2>3
<1> QED  BY <1>4

LEMMA MixedInIs ==
  ASSUME NEW g, Len(g) \in Nat
  PROVE  /\ MixedIn(g) \in Nat /\ MixedIn(g) <= BlockLen(g) /\ BlockLen(g) \in Nat
         /\ W > 1 /\ Len(g) >= W /\ (\E i, j \in 1..Len(g) : g[i].label # g[j].label)
              => MixedIn(g) > 0
<1>1. W \in Nat /\ W > 0
  BY EvalConstants
<1> DEFINE all == 1..(Len(g) - W + 1)
<1>2. IsFiniteSet(all) /\ Cardinality(all) = BlockLen(g) /\ BlockLen(g) \in Nat
  <2>1. PICK n \in Nat, k \in Nat : n = Len(g) /\ k = W
    BY <1>1
  <2>2. BlockLen(g) = IF n >= k THEN n - k + 1 ELSE 0
    BY <2>1 DEF BlockLen
  <2>3. IsFiniteSet(1..(n - k + 1)) /\ Cardinality(1..(n - k + 1)) = BlockLen(g)
    <3>1. n - k + 1 \in Int
      OBVIOUS
    <3>2. IsFiniteSet(1..(n - k + 1))
          /\ Cardinality(1..(n - k + 1)) = IF 1 > n - k + 1 THEN 0 ELSE (n - k + 1) - 1 + 1
      BY <3>1, FS_Interval
    <3> QED  BY <2>2, <3>2
  <2> QED  BY <2>1, <2>2, <2>3
<1>3. PICK mixed : mixed = {i \in all : Cardinality(LabelsIn(g, i)) > 1}
  OBVIOUS
<1>4. MixedIn(g) = Cardinality(mixed)
  BY <1>3 DEF MixedIn, LabelsIn
<1>5. IsFiniteSet(mixed) /\ MixedIn(g) \in Nat /\ MixedIn(g) <= BlockLen(g)
  BY <1>2, <1>3, <1>4, FS_Subset, FS_CardinalityType
<1>6. ASSUME W > 1, Len(g) >= W, NEW i \in 1..Len(g), NEW j \in 1..Len(g), g[i].label # g[j].label
      PROVE  MixedIn(g) > 0
  <2> DEFINE labels == [k \in 1..Len(g) |-> g[k].label]
  <2>1. PICK k \in 1..Len(g) : k + 1 <= Len(g) /\ labels[k] # labels[k + 1]
    <3>1. labels[i] # labels[j]
      BY <1>6
    <3> HIDE DEF labels
    <3> QED  BY <3>1, NeighboursDiffer
  <2>2. k + 1 \in 1..Len(g)
    BY <2>1
  <2>3. g[k].label # g[k + 1].label
    BY <2>1, <2>2
  <2> HIDE DEF labels
  <2>4. PICK s \in all : k \in s..(s + W - 1) /\ k + 1 \in s..(s + W - 1)
    <3>1. CASE k <= Len(g) - W + 1
      <4>1. k \in all /\ k \in k..(k + W - 1) /\ k + 1 \in k..(k + W - 1)
        BY <1>1, <1>6, <3>1
      <4> QED  BY <4>1
    <3>2. CASE ~(k <= Len(g) - W + 1)
      <4>1. PICK s : s = Len(g) - W + 1
        OBVIOUS
      <4>2. s \in all /\ k \in s..(s + W - 1) /\ k + 1 \in s..(s + W - 1)
        BY <1>1, <1>6, <2>1, <3>2, <4>1
      <4> QED  BY <4>2
    <3> QED  BY <3>1, <3>2
  <2>5. PICK x, y : x = g[k].label /\ y = g[k + 1].label
    OBVIOUS
  <2>6. x \in LabelsIn(g, s) /\ y \in LabelsIn(g, s) /\ x # y
    BY <2>3, <2>4, <2>5 DEF LabelsIn
  <2>7. IsFiniteSet(LabelsIn(g, s)) /\ Cardinality(LabelsIn(g, s)) \in Nat
    BY <1>1, LabelsFinite, FS_CardinalityType
  <2>8. Cardinality(LabelsIn(g, s)) >= 2
    BY <2>6, <2>7, TwoMembers
  <2>9. s \in mixed
    BY <1>3, <2>7, <2>8
  <2>10. Cardinality(mixed) # 0
    BY <1>5, <2>9, FS_EmptySet
  <2> QED  BY <1>4, <1>5, <2>10
<1> QED  BY <1>2, <1>5, <1>6

LEMMA InvMixed ==
  ASSUME W > 1, CsvInv
  PROVE  MixedOfScored
<1>1. PICK rows : rows = csv
  OBVIOUS
<1>2. HasUes(rows)
  BY <1>1, StampedHasUes DEF CsvInv
<1> DEFINE B == Len(Ues(rows))
           group(b) == SplitByRnti(rows, Ues(rows)[b])
           lens == [b \in DOMAIN Ues(rows) |-> BlockLen(group(b))]
           ms == [b \in DOMAIN Ues(rows) |-> MixedIn(group(b))]
           rs == [b \in DOMAIN Ues(rows) |-> BlockLen(group(b)) - MixedIn(group(b))]
<1>3. lens \in Seq(Nat) /\ Len(lens) = B /\ B \in Nat /\ Len(Pool(rows)) = SumOf(lens)
  BY <1>2, PoolLength
<1>4. DOMAIN Ues(rows) = 1..B
  BY <1>2, UesAre
<1>5. \A b \in 1..B : Len(group(b)) \in Nat
  BY <1>2, GroupIs
<1>6. \A b \in 1..B : MixedIn(group(b)) \in Nat /\ MixedIn(group(b)) <= BlockLen(group(b))
                      /\ BlockLen(group(b)) \in Nat
  BY <1>5, MixedInIs
<1>7. MixedByRnti(rows) = [mixed |-> SumOf(ms), total |-> SumOf(lens)]
  <2>1. MixedByRnti(rows).mixed = SumOf(ms) /\ MixedByRnti(rows) = [mixed |-> MixedByRnti(rows).mixed, total |-> MixedByRnti(rows).total]
    BY DEF MixedByRnti, Total
  <2>2. PICK all : /\ all = [b \in DOMAIN Ues(rows) |-> IF Len(group(b)) < W THEN 0 ELSE Len(group(b)) - W + 1]
                   /\ MixedByRnti(rows).total = SumOf(all)
    BY DEF MixedByRnti, Total
  <2>3. all = lens
    <3>1. ASSUME NEW b \in 1..B
          PROVE  (IF Len(group(b)) < W THEN 0 ELSE Len(group(b)) - W + 1) = BlockLen(group(b))
      BY <1>5, EvalConstants DEF BlockLen
    <3> HIDE DEF group
    <3> QED  BY <1>4, <2>2, <3>1
  <2> QED  BY <2>1, <2>2, <2>3
<1>8. MixedByRnti(rows).mixed = SumOf(ms) /\ MixedByRnti(rows).total = SumOf(lens)
  BY <1>7
<1>9. ms \in Seq(Nat) /\ Len(ms) = B /\ rs \in Seq(Nat) /\ Len(rs) = B
  <2>1. ms \in [1..B -> Nat]
    BY <1>4, <1>6
  <2>2. rs \in [1..B -> Nat]
    BY <1>4, <1>6
  <2> HIDE DEF ms, rs, B
  <2> QED  BY <1>3, <2>1, <2>2, IsASeq, LenProperties
<1>10. \A b \in 1..B : lens[b] = ms[b] + rs[b]
  BY <1>4, <1>6
<1>11. SumOf(lens) = SumOf(ms) + SumOf(rs) /\ SumOf(ms) \in Nat /\ SumOf(rs) \in Nat
  <2> HIDE DEF ms, rs, lens, B
  <2> QED  BY <1>3, <1>9, <1>10, SumsAdd, ZenonT(30)
<1>12. SumOf(ms) <= SumOf(lens)
  <2> HIDE DEF ms, rs, lens
  <2> QED  BY <1>11
<1>13. ASSUME NEW ue \in UeSet(rows), Len(SplitByRnti(rows, ue)) >= W,
              \E i, j \in DOMAIN SplitByRnti(rows, ue) :
                SplitByRnti(rows, ue)[i].label # SplitByRnti(rows, ue)[j].label
       PROVE  SumOf(ms) > 0
  <2>1. PICK b \in 1..B : Ues(rows)[b] = ue
    BY <1>2, UesAre
  <2>2. PICK g : g = SplitByRnti(rows, ue) /\ g = group(b)
    BY <2>1
  <2>3. Len(g) \in Nat /\ DOMAIN g = 1..Len(g)
    BY <1>2, <2>2, GroupIs
  <2>4. MixedIn(g) > 0
    BY <1>13, <2>2, <2>3, MixedInIs
  <2>5. ms[b] = MixedIn(g)
    BY <1>4, <2>2
  <2> HIDE DEF ms, B, group
  <2>6. b \in 1..Len(ms)
    BY <1>9
  <2>7. ms[b] <= SumOf(ms)
    BY <1>9, <2>6, SumLeast
  <2>8. ms[b] \in Nat
    BY <1>9, <2>6, ElementOfSeq
  <2> QED  BY <1>11, <2>4, <2>5, <2>7, <2>8
<1> HIDE DEF ms, lens, rs
<1> QED  BY <1>1, <1>3, <1>8, <1>12, <1>13 DEF MixedOfScored

(***************************************************************************)
(* Counts of windows as counts of the rows they end in.                    *)
(***************************************************************************)
LEMMA SameSize ==
  ASSUME NEW S, NEW T, IsFiniteSet(T), NEW f \in [S -> T],
         \A x, y \in S : f[x] = f[y] => x = y,
         \A t \in T : \E x \in S : f[x] = t
  PROVE  IsFiniteSet(S) /\ Cardinality(S) = Cardinality(T)
<1>1. f \in Bijection(S, T)
  BY Fun_IsSurj, Fun_IsBij
<1>2. ExistsBijection(S, T)
  BY <1>1 DEF ExistsBijection
<1>3. ExistsBijection(T, S)
  BY <1>2, Fun_ExistsBijSymmetric
<1> QED  BY <1>3, FS_Bijection

LEMMA CountParts ==
  ASSUME NEW S, IsFiniteSet(S), NEW P
  PROVE  /\ Cardinality(S) = Cardinality(S \cap P) + Cardinality(S \ P)
         /\ Cardinality(S \cap P) \in Nat /\ Cardinality(S \ P) \in Nat /\ Cardinality(S) \in Nat
         /\ IsFiniteSet(S \cap P) /\ IsFiniteSet(S \ P)
<1>1. IsFiniteSet(S \cap P) /\ IsFiniteSet(S \ P)
  BY FS_Subset
<1>2. /\ Cardinality(S \cap P) \in Nat /\ Cardinality(S \ P) \in Nat /\ Cardinality(S) \in Nat
  BY <1>1, FS_CardinalityType
<1>3. Cardinality(S \ P) = Cardinality(S) - Cardinality(S \cap P)
  BY FS_Difference
<1> QED  BY <1>1, <1>2, <1>3

LEMMA WindowsFinite ==
  ASSUME NEW rows, Stamped(rows), NEW S, S \subseteq WindowRows(rows)
  PROVE  IsFiniteSet(S)
<1>1. DOMAIN rows = 1..Len(rows) /\ Len(rows) \in Nat
  BY StampedHasUes
<1>2. IsFiniteSet(DOMAIN rows)
  BY <1>1, FS_Interval
<1>3. S \subseteq DOMAIN rows
  BY DEF WindowRows
<1> QED  BY <1>2, <1>3, FS_Subset

LEMMA CountWindows ==
  ASSUME NEW rows, Stamped(rows), NEW w, w = Pool(rows), NEW S, S \subseteq WindowRows(rows),
         NEW C, C = {p \in DOMAIN w : w[p].ts \in S}
  PROVE  IsFiniteSet(C) /\ Cardinality(C) = Cardinality(S) /\ Cardinality(C) \in Nat
<1>1. DOMAIN w = 1..Len(w) /\ Len(w) \in Nat
  BY PoolStamped
<1>2. \A i \in WindowRows(rows) : \E p \in 1..Len(w) : w[p].ts = i
  BY PoolStamped
<1>3. \A p, q \in 1..Len(w) : w[p].ts = w[q].ts => p = q
  <2> SUFFICES ASSUME NEW p \in 1..Len(w), NEW q \in 1..Len(w), w[p].ts = w[q].ts, p < q
               PROVE  FALSE
    BY <1>1
  <2>1. w[p].ue < w[q].ue \/ (w[p].ue = w[q].ue /\ w[p].ts < w[q].ts)
    BY PoolStamped
  <2>2. /\ w[p].ue = rows[w[p].ts].ue /\ w[q].ue = rows[w[q].ts].ue
        /\ w[p].ue \in Nat /\ w[p].ts \in 1..Len(rows)
    BY PoolStamped
  <2>3. w[p].ts \in Nat
    BY <2>2, StampedHasUes
  <2>4. PICK u \in Nat, t \in Nat : u = w[p].ue /\ u = w[q].ue /\ t = w[p].ts /\ t = w[q].ts
    BY <2>2, <2>3
  <2> QED  BY <2>1, <2>4
<1> DEFINE f == [p \in C |-> w[p].ts]
<1>4. f \in [C -> S]
  OBVIOUS
<1>5. \A x, y \in C : f[x] = f[y] => x = y
  BY <1>1, <1>3
<1>6. \A t \in S : \E x \in C : f[x] = t
  BY <1>1, <1>2
<1>7. IsFiniteSet(S)
  BY WindowsFinite
<1> HIDE DEF f
<1>8. IsFiniteSet(C) /\ Cardinality(C) = Cardinality(S)
  BY <1>4, <1>5, <1>6, <1>7, SameSize
<1> QED  BY <1>8, FS_CardinalityType

\* The rows a window of which ends, by decision and by attack.
Told(rows, c, fired, attack) ==
  {i \in WindowRows(rows) : (Alert(rows, c, i) <=> fired) /\ ((rows[i].label > 0) <=> attack)}

LEMMA FiresBoolean ==
  ASSUME NEW rows, Stamped(rows), NEW w, w = Pool(rows), NEW c \in Configs
  PROVE  \A p \in DOMAIN w : Fires(w, c)[p] \in BOOLEAN
<1>1. DOMAIN w = 1..Len(w) /\ Len(w) \in Nat /\ HasUes(rows)
  BY PoolStamped, StampedHasUes
<1>2. \A p \in 1..Len(w) : w[p] = RowWindow(rows, w[p].ts) /\ w[p].ts \in DOMAIN rows
  BY PoolStamped
<1>3. ASSUME NEW p \in 1..Len(w) PROVE w[p].rule \in BOOLEAN
  <2>1. w[p].rule = RuleFires(SplitByRnti(rows, rows[w[p].ts].ue), Nth(rows, w[p].ts))
    BY <1>1, <1>2, RowWindowIs
  <2>2. RuleFires(SplitByRnti(rows, rows[w[p].ts].ue), Nth(rows, w[p].ts)) \in BOOLEAN
    BY DEF RuleFires
  <2> QED  BY <2>1, <2>2
<1>4. c = "rule" \/ c = "ml" \/ c = "hybrid"
  BY DEF Configs
<1>5. ASSUME NEW p \in DOMAIN w PROVE Fires(w, c)[p] \in BOOLEAN
  <2>1. CASE c = "rule"
    <3>1. Fires(w, c)[p] = w[p].rule
      BY <2>1 DEF Fires
    <3> QED  BY <1>1, <1>3, <3>1
  <2>2. CASE c = "ml"
    <3>1. Fires(w, c)[p] = (w[p].score > Threshold)
      BY <2>2 DEF Fires
    <3> QED  BY <3>1
  <2>3. CASE c = "hybrid"
    <3>1. Fires(w, c)[p] = (w[p].rule \/ w[p].score > Threshold)
      BY <2>3 DEF Fires
    <3> QED  BY <3>1
  <2> QED  BY <1>4, <2>1, <2>2, <2>3
<1> QED  BY <1>5

LEMMA ConfusionIs ==
  ASSUME NEW rows, Stamped(rows), NEW w, w = Pool(rows), NEW c \in Configs
  PROVE  ConfusionMatrix(w, Fires(w, c)) =
           [tp |-> Cardinality(Told(rows, c, TRUE, TRUE)), fp |-> Cardinality(Told(rows, c, TRUE, FALSE)),
            tn |-> Cardinality(Told(rows, c, FALSE, FALSE)), fn |-> Cardinality(Told(rows, c, FALSE, TRUE))]
<1>1. PICK fires : fires = Fires(w, c)
  OBVIOUS
<1> DEFINE count(fired, attack) ==
             Cardinality({i \in DOMAIN w : fires[i] = fired /\ (w[i].label > 0) = attack})
<1>2. ASSUME NEW fired \in BOOLEAN, NEW attack \in BOOLEAN
      PROVE  count(fired, attack) = Cardinality(Told(rows, c, fired, attack))
  <2>1. \A p \in DOMAIN w : fires[p] \in BOOLEAN
    BY <1>1, FiresBoolean
  <2>2. \A p \in DOMAIN w : fires[p] <=> Alert(rows, c, w[p].ts)
    BY <1>1, FiresAre, PoolStamped
  <2>3. \A p \in DOMAIN w : w[p].ts \in WindowRows(rows) /\ w[p].label = rows[w[p].ts].label
    BY PoolStamped
  <2>4. PICK S : S = Told(rows, c, fired, attack)
    OBVIOUS
  <2>5. S \subseteq WindowRows(rows)
    BY <2>4 DEF Told
  <2>6. ASSUME NEW p \in DOMAIN w
        PROVE  w[p].ts \in S <=> fires[p] = fired /\ (w[p].label > 0) = attack
    <3>1. w[p].ts \in S <=> (Alert(rows, c, w[p].ts) <=> fired) /\ ((rows[w[p].ts].label > 0) <=> attack)
      BY <2>3, <2>4 DEF Told
    <3>2. (fires[p] = fired) <=> (Alert(rows, c, w[p].ts) <=> fired)
      BY <2>1, <2>2
    <3> QED  BY <2>3, <3>1, <3>2
  <2>7. {i \in DOMAIN w : fires[i] = fired /\ (w[i].label > 0) = attack} = {p \in DOMAIN w : w[p].ts \in S}
    BY <2>6
  <2>8. PICK C : C = {p \in DOMAIN w : w[p].ts \in S}
    OBVIOUS
  <2>9. Cardinality(C) = Cardinality(S)
    BY <2>5, <2>8, CountWindows
  <2> QED  BY <2>4, <2>7, <2>8, <2>9
<1>3. ConfusionMatrix(w, fires) = [tp |-> count(TRUE, TRUE), fp |-> count(TRUE, FALSE),
                                   tn |-> count(FALSE, FALSE), fn |-> count(FALSE, TRUE)]
  BY DEF ConfusionMatrix
<1> HIDE DEF count
<1>4. /\ count(TRUE, TRUE) = Cardinality(Told(rows, c, TRUE, TRUE))
      /\ count(TRUE, FALSE) = Cardinality(Told(rows, c, TRUE, FALSE))
      /\ count(FALSE, FALSE) = Cardinality(Told(rows, c, FALSE, FALSE))
      /\ count(FALSE, TRUE) = Cardinality(Told(rows, c, FALSE, TRUE))
  BY <1>2
<1> QED  BY <1>1, <1>3, <1>4

LabelRows(rows, l) == {i \in WindowRows(rows) : rows[i].label = l}

LEMMA PerClassIs ==
  ASSUME NEW rows, Stamped(rows), NEW w, w = Pool(rows), NEW c \in Configs,
         NEW l \in DOMAIN PerClassRecall(w, Fires(w, c)),
         NEW S, S = LabelRows(rows, l)
  PROVE  /\ l \in Nat /\ l > 0 /\ \E i \in WindowRows(rows) : rows[i].label = l
         /\ PerClassRecall(w, Fires(w, c))[l] =
              <<Cardinality({i \in S : Alert(rows, c, i)}), Cardinality(S)>>
<1>1. PICK fires : fires = Fires(w, c)
  OBVIOUS
<1>2. DOMAIN PerClassRecall(w, fires) = {w[i].label : i \in DOMAIN w} \ {0}
  BY DEF PerClassRecall
<1>3. PICK p \in DOMAIN w : l = w[p].label /\ l # 0
  BY <1>1, <1>2
<1>4. \A q \in DOMAIN w : /\ w[q].ts \in WindowRows(rows) /\ w[q].label = rows[w[q].ts].label
                          /\ w[q].label \in Nat
  BY PoolStamped
<1>5. PICK class : class = {i \in DOMAIN w : w[i].label = l}
  OBVIOUS
<1>6. PerClassRecall(w, fires)[l] = <<Cardinality({i \in class : fires[i]}), Cardinality(class)>>
  BY <1>1, <1>2, <1>5 DEF PerClassRecall
<1>7. class = {q \in DOMAIN w : w[q].ts \in S}
  BY <1>4, <1>5 DEF LabelRows
<1>8. Cardinality(class) = Cardinality(S)
  <2>1. S \subseteq WindowRows(rows)
    BY DEF LabelRows
  <2> QED  BY <1>7, <2>1, CountWindows
<1>9. \A q \in DOMAIN w : fires[q] <=> Alert(rows, c, w[q].ts)
  BY <1>1, FiresAre, PoolStamped
<1>10. PICK A : A = {i \in S : Alert(rows, c, i)}
  OBVIOUS
<1>11. {i \in class : fires[i]} = {q \in DOMAIN w : w[q].ts \in A}
  BY <1>7, <1>9, <1>10
<1>12. PICK C : C = {q \in DOMAIN w : w[q].ts \in A}
  OBVIOUS
<1>13. A \subseteq WindowRows(rows)
  BY <1>10 DEF LabelRows
<1>14. Cardinality(C) = Cardinality(A)
  BY <1>12, <1>13, CountWindows
<1>15. PerClassRecall(w, fires)[l] = <<Cardinality(A), Cardinality(S)>>
  BY <1>6, <1>8, <1>11, <1>12, <1>14
<1>16. l \in Nat /\ l > 0 /\ \E i \in WindowRows(rows) : rows[i].label = l
  BY <1>3, <1>4
<1> QED  BY <1>1, <1>10, <1>15, <1>16

(***************************************************************************)
(* The dashboard's evaluation.                                             *)
(***************************************************************************)
LEMMA PlaceOfIs ==
  ASSUME NEW rows, Stamped(rows), NEW i \in DOMAIN rows
  PROVE  /\ PlaceOf(rows, i) = Nth(rows, i) /\ Nth(rows, i) \in Nat
         /\ IsWindow(rows, i) <=> i \in WindowRows(rows)
<1>1. HasUes(rows) /\ DOMAIN rows = 1..Len(rows) /\ Len(rows) \in Nat
  BY StampedHasUes
<1>2. {j \in 1..i : rows[j].ue = rows[i].ue} = {y \in PlacesOf(rows, rows[i].ue) : y <= i}
  BY <1>1 DEF PlacesOf
<1>3. PlaceOf(rows, i) = Nth(rows, i)
  BY <1>2 DEF PlaceOf, Nth, PlaceIn
<1>4. Nth(rows, i) \in 1..Len(SplitByRnti(rows, rows[i].ue))
  BY <1>1, NthIs
<1>5. Len(SplitByRnti(rows, rows[i].ue)) \in Nat
  BY <1>1, GroupIs
<1>6. Nth(rows, i) \in Nat
  BY <1>4, <1>5
<1> QED  BY <1>3, <1>6 DEF IsWindow, WindowRows

LEMMA PredictedIs ==
  ASSUME NEW rows, Stamped(rows), NEW c \in Configs, NEW i \in WindowRows(rows)
  PROVE  i \in Predicted(rows, c) <=> Alert(rows, c, i)
<1>1. i \in DOMAIN rows /\ HasUes(rows)
  BY StampedHasUes DEF WindowRows
<1>2. IsWindow(rows, i) /\ PlaceOf(rows, i) = Nth(rows, i)
  BY <1>1, PlaceOfIs
<1> DEFINE rule == RuleFires(SplitByRnti(rows, rows[i].ue), Nth(rows, i))
           ml == rows[i].score > Threshold
<1>3. RuleSev(rows, i) = IF rule THEN 1 ELSE 0
  BY <1>2 DEF RuleSev
<1>4. MlSev(rows, i) = IF ml THEN 1 ELSE 0
  BY <1>2 DEF MlSev
<1>5. RowWindow(rows, i).rule = rule /\ RowWindow(rows, i).score = rows[i].score
  BY <1>1, RowWindowIs
<1>6. i \in Predicted(rows, c) <=> FinalByMode(rows, c)[i] >= 1
  BY <1>1 DEF Predicted
<1> HIDE DEF rule, ml
<1>7. CASE c = "rule"
  <2>1. FinalByMode(rows, c)[i] = RuleSev(rows, i)
    BY <1>1, <1>7 DEF FinalByMode
  <2>2. Alert(rows, c, i) <=> rule
    BY <1>5, <1>7 DEF Alert, FiresAt
  <2> QED  BY <1>3, <1>6, <2>1, <2>2
<1>8. CASE c = "ml"
  <2>1. FinalByMode(rows, c)[i] = MlSev(rows, i)
    BY <1>1, <1>8 DEF FinalByMode
  <2>2. Alert(rows, c, i) <=> ml
    BY <1>5, <1>8 DEF Alert, FiresAt, ml
  <2> QED  BY <1>4, <1>6, <2>1, <2>2
<1>9. CASE c = "hybrid"
  <2>1. FinalByMode(rows, c)[i] = Max({RuleSev(rows, i), MlSev(rows, i)})
    BY <1>1, <1>9 DEF FinalByMode
  <2>2. Alert(rows, c, i) <=> rule \/ ml
    BY <1>5, <1>9 DEF Alert, FiresAt, ml
  <2>3. PICK x, y : x = RuleSev(rows, i) /\ y = MlSev(rows, i)
    OBVIOUS
  <2>4. x \in 0..1 /\ y \in 0..1 /\ (x = 1 <=> rule) /\ (y = 1 <=> ml)
    BY <1>3, <1>4, <2>3
  <2>5. Max({x, y}) >= 1 <=> x = 1 \/ y = 1
    <3>1. \E m \in {x, y} : \A n \in {x, y} : m >= n
      BY <2>4
    <3>2. Max({x, y}) \in {x, y} /\ \A n \in {x, y} : Max({x, y}) >= n
      BY <3>1 DEF Max
    <3> QED  BY <2>4, <3>2
  <2> QED  BY <1>6, <2>1, <2>2, <2>3, <2>4, <2>5
<1> QED  BY <1>7, <1>8, <1>9 DEF Configs

ClassRows(rows, target) ==
  {i \in WindowRows(rows) : IF target = 0 THEN rows[i].label > 0 ELSE rows[i].label = target}

Caught(rows, c, S) == {i \in S : Alert(rows, c, i)}
Missed(rows, c, S) == {i \in S : ~Alert(rows, c, i)}

LEMMA MetricsAre ==
  ASSUME NEW rows, Stamped(rows), NEW c \in Configs, NEW filter,
         NEW pos, pos = ClassRows(rows, Target(rows, filter))
  PROVE  /\ Metrics(rows, Predicted(rows, c), filter) =
              [tp |-> Cardinality(Caught(rows, c, pos)),
               fp |-> Cardinality(Told(rows, c, TRUE, FALSE)),
               tn |-> Cardinality(Told(rows, c, FALSE, FALSE)),
               fn |-> Cardinality(Missed(rows, c, pos))]
         /\ Cardinality(pos) = Cardinality(Caught(rows, c, pos))
                                 + Cardinality(Missed(rows, c, pos))
         /\ pos \subseteq WindowRows(rows)
<1>1. \A i \in DOMAIN rows : IsWindow(rows, i) <=> i \in WindowRows(rows)
  BY PlaceOfIs
<1>2. WindowRows(rows) \subseteq DOMAIN rows /\ \A i \in DOMAIN rows : rows[i].label \in Nat
  BY StampedHasUes DEF WindowRows, CsvRow
<1>3. PICK pred : pred = Predicted(rows, c)
  OBVIOUS
<1>4. \A i \in WindowRows(rows) : i \in pred <=> Alert(rows, c, i)
  BY <1>3, PredictedIs
<1>5. Positive(rows, filter) = pos
  BY <1>1, <1>2 DEF Positive, ClassRows
<1>6. PICK benign : benign = {i \in DOMAIN rows : IsWindow(rows, i) /\ rows[i].label = 0}
  OBVIOUS
<1>7. benign = {i \in WindowRows(rows) : rows[i].label = 0}
  BY <1>1, <1>2, <1>6
<1>8. Metrics(rows, pred, filter) =
        [tp |-> Cardinality(pos \cap pred), fp |-> Cardinality(benign \cap pred),
         tn |-> Cardinality(benign) - Cardinality(benign \cap pred),
         fn |-> Cardinality(pos) - Cardinality(pos \cap pred)]
  BY <1>5, <1>6 DEF Metrics
<1>9. pos \subseteq WindowRows(rows) /\ benign \subseteq WindowRows(rows)
  BY <1>7 DEF ClassRows
<1>10. IsFiniteSet(pos) /\ IsFiniteSet(benign)
  BY <1>9, WindowsFinite
<1>11. /\ Cardinality(pos) = Cardinality(pos \cap pred) + Cardinality(pos \ pred)
       /\ Cardinality(pos \cap pred) \in Nat /\ Cardinality(pos \ pred) \in Nat
  BY <1>10, CountParts
<1>12. /\ Cardinality(benign) = Cardinality(benign \cap pred) + Cardinality(benign \ pred)
       /\ Cardinality(benign \cap pred) \in Nat /\ Cardinality(benign \ pred) \in Nat
  BY <1>10, CountParts
<1>13. /\ pos \cap pred = Caught(rows, c, pos)
       /\ pos \ pred = Missed(rows, c, pos)
  BY <1>4, <1>9 DEF Caught, Missed
<1>14. /\ benign \cap pred = Told(rows, c, TRUE, FALSE)
       /\ benign \ pred = Told(rows, c, FALSE, FALSE)
  BY <1>2, <1>4, <1>7 DEF Told
<1>15. /\ Cardinality(benign) - Cardinality(benign \cap pred) = Cardinality(benign \ pred)
       /\ Cardinality(pos) - Cardinality(pos \cap pred) = Cardinality(pos \ pred)
  BY <1>11, <1>12
<1> QED  BY <1>3, <1>8, <1>9, <1>11, <1>13, <1>14, <1>15

LEMMA DashboardCounts ==
  ASSUME NEW rows, Stamped(rows), NEW w, w = Pool(rows), NEW c \in Configs
  PROVE  /\ Metrics(rows, Predicted(rows, c), 0) = ConfusionMatrix(w, Fires(w, c))
         /\ \A l \in DOMAIN PerClassRecall(w, Fires(w, c)) :
              LET one == Metrics(rows, Predicted(rows, c), l) IN
              /\ <<one.tp, one.tp + one.fn>> = PerClassRecall(w, Fires(w, c))[l]
              /\ one.fp = ConfusionMatrix(w, Fires(w, c)).fp
              /\ Target(rows, l) = l /\ l > 0 /\ l \in Nat
<1>1. \A i \in WindowRows(rows) : i \in DOMAIN rows /\ rows[i].label \in Nat
  BY StampedHasUes DEF WindowRows, CsvRow
<1>2. Metrics(rows, Predicted(rows, c), 0) = ConfusionMatrix(w, Fires(w, c))
  <2>1. Target(rows, 0) = 0
    BY DEF Target
  <2>2. PICK pos : pos = ClassRows(rows, 0)
    OBVIOUS
  <2>3. Metrics(rows, Predicted(rows, c), 0) =
              [tp |-> Cardinality(Caught(rows, c, pos)),
               fp |-> Cardinality(Told(rows, c, TRUE, FALSE)),
               tn |-> Cardinality(Told(rows, c, FALSE, FALSE)),
               fn |-> Cardinality(Missed(rows, c, pos))]
    <3>1. pos = ClassRows(rows, Target(rows, 0))
      BY <2>1, <2>2
    <3> QED  BY <3>1, MetricsAre
  <2>4. /\ Caught(rows, c, pos) = Told(rows, c, TRUE, TRUE)
        /\ Missed(rows, c, pos) = Told(rows, c, FALSE, TRUE)
    BY <1>1, <2>2 DEF ClassRows, Told, Caught, Missed
  <2> QED  BY <2>3, <2>4, ConfusionIs
<1>3. ASSUME NEW l \in DOMAIN PerClassRecall(w, Fires(w, c)),
             NEW one, one = Metrics(rows, Predicted(rows, c), l)
      PROVE  /\ <<one.tp, one.tp + one.fn>> = PerClassRecall(w, Fires(w, c))[l]
             /\ one.fp = ConfusionMatrix(w, Fires(w, c)).fp
             /\ Target(rows, l) = l /\ l > 0 /\ l \in Nat
  <2>1. PICK S : S = LabelRows(rows, l)
    OBVIOUS
  <2>2. /\ l \in Nat /\ l > 0 /\ \E i \in WindowRows(rows) : rows[i].label = l
        /\ PerClassRecall(w, Fires(w, c))[l] =
             <<Cardinality(Caught(rows, c, S)), Cardinality(S)>>
    BY <2>1, PerClassIs DEF Caught
  <2>3. Target(rows, l) = l
    BY <1>1, <2>2 DEF Target
  <2>4. S = ClassRows(rows, Target(rows, l))
    BY <2>1, <2>2, <2>3 DEF ClassRows, LabelRows
  <2>5. /\ Metrics(rows, Predicted(rows, c), l) =
              [tp |-> Cardinality(Caught(rows, c, S)),
               fp |-> Cardinality(Told(rows, c, TRUE, FALSE)),
               tn |-> Cardinality(Told(rows, c, FALSE, FALSE)),
               fn |-> Cardinality(Missed(rows, c, S))]
        /\ Cardinality(S) = Cardinality(Caught(rows, c, S))
                              + Cardinality(Missed(rows, c, S))
    BY <2>4, MetricsAre
  <2>6. /\ one.tp = Cardinality(Caught(rows, c, S))
        /\ one.fp = Cardinality(Told(rows, c, TRUE, FALSE))
        /\ one.fn = Cardinality(Missed(rows, c, S))
    BY <1>3, <2>5
  <2>7. ConfusionMatrix(w, Fires(w, c)).fp = Cardinality(Told(rows, c, TRUE, FALSE))
    <3>1. PICK m : m = ConfusionMatrix(w, Fires(w, c))
      OBVIOUS
    <3>2. m = [tp |-> Cardinality(Told(rows, c, TRUE, TRUE)), fp |-> Cardinality(Told(rows, c, TRUE, FALSE)),
               tn |-> Cardinality(Told(rows, c, FALSE, FALSE)), fn |-> Cardinality(Told(rows, c, FALSE, TRUE))]
      BY <3>1, ConfusionIs
    <3> QED  BY <3>1, <3>2
  <2> QED  BY <2>2, <2>3, <2>5, <2>6, <2>7
<1> QED  BY <1>2, <1>3

\* The rows that end a window of the UE, in order.
OwnWindows(rows, ue) ==
  SubSeq(RntiGroup(rows, ue), W, Len(RntiGroup(rows, ue)))

InOrderOf(wi, m, rows, ue) ==
  /\ m \in Nat /\ DOMAIN wi = 1..m
  /\ \A k \in 1..m : wi[k] \in UeWindows(rows, ue)
  /\ \A i \in UeWindows(rows, ue) : \E k \in 1..m : wi[k] = i
  /\ \A k, l \in 1..m : k < l <=> wi[k] < wi[l]

LEMMA OwnWindowsAre ==
  ASSUME NEW rows, Stamped(rows), NEW ue
  PROVE  \E m : InOrderOf(OwnWindows(rows, ue), m, rows, ue)
<1>1. HasUes(rows) /\ DOMAIN rows = 1..Len(rows) /\ Len(rows) \in Nat
  BY StampedHasUes
<1>2. PICK P : P = PlacesOf(rows, ue)
  OBVIOUS
<1>3. P \subseteq Int /\ IsFiniteSet(P)
  BY <1>1, <1>2, GroupIs
<1>4. PICK group : group = RntiGroup(rows, ue)
  OBVIOUS
<1>5. group = Ascending(P)
  BY <1>2, <1>4 DEF RntiGroup
<1>6. PICK n \in Nat : n = Cardinality(P)
  BY <1>3, FS_CardinalityType
<1>7. /\ group \in Seq(P) /\ Len(group) = n
      /\ \A k \in 1..n : group[k] \in P /\ PlaceIn(P, group[k]) = k
      /\ \A x \in P : PlaceIn(P, x) \in 1..n /\ group[PlaceIn(P, x)] = x
      /\ \A k, l \in 1..n : k < l <=> group[k] < group[l]
  BY <1>3, <1>5, <1>6, AscendingIs
<1>8. W \in Nat /\ W > 0
  BY EvalConstants
<1>9. PICK m \in Nat : m = IF W <= n THEN n - W + 1 ELSE 0
  <2>1. (IF W <= n THEN n - W + 1 ELSE 0) \in Nat
    BY <1>8
  <2> QED  BY <2>1
<1>10. PICK wi : wi = OwnWindows(rows, ue)
  OBVIOUS
<1>11. wi = SubSeq(group, W, n)
  BY <1>4, <1>7, <1>10 DEF OwnWindows
<1>12. /\ wi \in Seq(P) /\ Len(wi) = m
       /\ \A k \in 1..m : wi[k] = group[W + k - 1] /\ W + k - 1 \in 1..n
  <2>1. \A i \in W..n : group[i] \in P
    BY <1>7, <1>8
  <2>2. /\ wi \in Seq(P) /\ Len(wi) = IF W <= n THEN n - W + 1 ELSE 0
        /\ \A k \in 1..(n - W + 1) : wi[k] = group[W + k - 1]
    BY <1>8, <1>11, <2>1, SubSeqProperties
  <2>3. \A k \in 1..m : k \in 1..(n - W + 1) /\ W + k - 1 \in 1..n
    BY <1>8, <1>9
  <2> QED  BY <1>9, <2>2, <2>3
<1>13. DOMAIN wi = 1..m
  BY <1>12, LenProperties
<1>14. \A i \in P : i \in DOMAIN rows /\ rows[i].ue = ue /\ Nth(rows, i) = PlaceIn(P, i)
  BY <1>2 DEF PlacesOf, Nth
<1>15. ASSUME NEW k \in 1..m PROVE wi[k] \in UeWindows(rows, ue)
  <2>1. PICK j \in 1..n : j = W + k - 1 /\ wi[k] = group[j] /\ j >= W
    BY <1>8, <1>12
  <2>2. wi[k] \in P /\ PlaceIn(P, wi[k]) = j
    BY <1>7, <2>1
  <2> QED  BY <1>14, <2>1, <2>2 DEF UeWindows, WindowRows
<1>16. ASSUME NEW i \in UeWindows(rows, ue) PROVE \E k \in 1..m : wi[k] = i
  <2>1. i \in DOMAIN rows /\ rows[i].ue = ue /\ Nth(rows, i) >= W
    BY DEF UeWindows, WindowRows
  <2>2. i \in P
    BY <1>2, <2>1 DEF PlacesOf
  <2>3. PICK j \in 1..n : j = PlaceIn(P, i) /\ group[j] = i /\ j >= W
    BY <1>7, <1>14, <2>1, <2>2
  <2>4. PICK k \in 1..m : j = W + k - 1
    <3>1. j - W + 1 \in 1..m /\ j = W + (j - W + 1) - 1
      BY <1>8, <1>9, <2>3
    <3> QED  BY <3>1
  <2> QED  BY <1>12, <2>3, <2>4
<1>17. ASSUME NEW k \in 1..m, NEW l \in 1..m PROVE k < l <=> wi[k] < wi[l]
  <2>1. PICK x \in 1..n, y \in 1..n : x = W + k - 1 /\ y = W + l - 1 /\ wi[k] = group[x] /\ wi[l] = group[y]
    BY <1>12
  <2>2. k < l <=> x < y
    BY <1>8, <2>1
  <2> QED  BY <1>7, <2>1, <2>2
<1>18. InOrderOf(wi, m, rows, ue)
  BY <1>13, <1>15, <1>16, <1>17 DEF InOrderOf
<1> QED  BY <1>10, <1>18

\* Where the stretch of equal labels that ends in the kth begins.
Stretch(f, k) == {s \in 1..k : \A j \in s..k : f[j] = f[k]}
LEMMA StretchStart ==
  ASSUME NEW f, NEW k \in Nat, k > 0, NEW s, s = Min(Stretch(f, k))
  PROVE  /\ s \in 1..k /\ \A j \in s..k : f[j] = f[k]
         /\ s > 1 => f[s - 1] # f[k]
         /\ \A r \in 1..k : (\A j \in r..k : f[j] = f[k]) /\ (r > 1 => f[r - 1] # f[k]) => r = s
<1>1. PICK S : S = Stretch(f, k)
  OBVIOUS
<1>2. \A x : x \in S <=> x \in 1..k /\ \A j \in x..k : f[j] = f[k]
  BY <1>1 DEF Stretch
<1>3. k \in S /\ S \subseteq Nat
  BY <1>2
<1>4. PICK least \in S : \A y \in S : least <= y
  BY <1>3, LeastExists
<1>5. s = least
  BY <1>1, <1>3, <1>4, MinIs
<1>6. s \in 1..k /\ \A j \in s..k : f[j] = f[k]
  BY <1>2, <1>4, <1>5
<1>7. ASSUME NEW r \in 1..k, r > 1, r - 1 \notin S, r \in S PROVE f[r - 1] # f[k]
  <2> SUFFICES ASSUME f[r - 1] = f[k] PROVE FALSE
    OBVIOUS
  <2>1. PICK q \in 1..k : q = r - 1
    BY <1>7
  <2>2. \A j \in q..k : f[j] = f[k]
    <3>1. \A j \in q..k : j = q \/ j \in r..k
      BY <2>1
    <3>2. \A j \in r..k : f[j] = f[k]
      BY <1>2, <1>7
    <3> QED  BY <2>1, <3>1, <3>2
  <2>3. q \in S
    BY <1>2, <2>2
  <2> QED  BY <1>7, <2>1, <2>3
<1>8. s > 1 => f[s - 1] # f[k]
  <2>1. ASSUME s > 1 PROVE s - 1 \notin S
    <3>1. ~(s <= s - 1)
      BY <1>6
    <3> QED  BY <1>4, <1>5, <3>1
  <2> QED  BY <1>4, <1>5, <1>6, <1>7, <2>1
<1>9. ASSUME NEW r \in 1..k, \A j \in r..k : f[j] = f[k], r > 1 => f[r - 1] # f[k]
      PROVE  r = s
  <2>1. s <= r
    BY <1>2, <1>4, <1>5, <1>9
  <2>2. ASSUME s < r PROVE FALSE
    <3>1. PICK q \in s..k : q = r - 1
      BY <1>6, <2>2
    <3>2. f[q] = f[k] /\ r > 1
      BY <1>6, <2>2, <3>1
    <3> QED  BY <1>9, <3>1, <3>2
  <2> QED  BY <1>6, <2>1, <2>2
<1> QED  BY <1>6, <1>8, <1>9

LabelsOf(rows, wi, m) == [k \in 1..m |-> rows[wi[k]].label]

\* An attack detected, in terms of the UE's windows.
LEMMA DetectedIs ==
  ASSUME NEW rows, Stamped(rows), NEW c \in Configs, NEW ue, NEW m, NEW wi,
         InOrderOf(wi, m, rows, ue), NEW lab, lab = LabelsOf(rows, wi, m),
         NEW s \in 1..m, NEW k \in 1..m
  PROVE  DetectedFrom(rows, c, wi[s], wi[k])
           <=> /\ s <= k /\ lab[k] > 0 /\ \A j \in s..k : lab[j] = lab[k]
               /\ s > 1 => lab[s - 1] # lab[k]
               /\ Alert(rows, c, wi[k]) /\ \A j \in s..(k - 1) : ~Alert(rows, c, wi[j])
<1>1. /\ m \in Nat /\ \A i \in 1..m : wi[i] \in UeWindows(rows, ue)
      /\ \A i \in UeWindows(rows, ue) : \E j \in 1..m : wi[j] = i
      /\ \A i, l \in 1..m : i < l <=> wi[i] < wi[l]
  BY DEF InOrderOf
<1>2. \A i \in 1..m : /\ wi[i] \in WindowRows(rows) /\ rows[wi[i]].ue = ue /\ wi[i] \in 1..Len(rows)
                      /\ rows[wi[i]].label \in Nat /\ lab[i] = rows[wi[i]].label
  BY <1>1, StampedHasUes DEF UeWindows, WindowRows, CsvRow, LabelsOf
<1>3. Len(rows) \in Nat
  BY StampedHasUes
<1>4. \A i, l \in 1..m : i <= l <=> wi[i] <= wi[l]
  <2>1. ASSUME NEW i \in 1..m, NEW l \in 1..m PROVE i <= l <=> wi[i] <= wi[l]
    <3>1. l < i <=> wi[l] < wi[i]
      BY <1>1
    <3>2. wi[i] \in Int /\ wi[l] \in Int
      BY <1>2, <1>3
    <3> QED  BY <3>1, <3>2
  <2> QED  BY <2>1
<1>5. UeWindows(rows, rows[wi[s]].ue) = UeWindows(rows, ue)
  BY <1>2
<1>6. Attacked(rows, wi[s], wi[k])
        <=> s <= k /\ lab[k] > 0 /\ \A j \in s..k : lab[j] = lab[k]
  <2>1. ASSUME Attacked(rows, wi[s], wi[k])
        PROVE  s <= k /\ lab[k] > 0 /\ \A j \in s..k : lab[j] = lab[k]
    <3>1. s <= k
      BY <1>4, <2>1 DEF Attacked
    <3>2. ASSUME NEW j \in s..k PROVE lab[j] = lab[s]
      <4>1. j \in 1..m /\ s <= j /\ j <= k
        BY <1>1
      <4>2. wi[s] <= wi[j] /\ wi[j] <= wi[k] /\ wi[j] \in UeWindows(rows, ue)
        BY <1>1, <1>4, <4>1
      <4>3. rows[wi[j]].label = rows[wi[s]].label
        BY <1>5, <2>1, <4>2 DEF Attacked
      <4> QED  BY <1>2, <4>1, <4>3
    <3>3. k \in s..k
      BY <3>1
    <3>4. lab[k] = lab[s] /\ lab[s] > 0
      BY <1>2, <2>1, <3>2, <3>3 DEF Attacked
    <3> QED  BY <3>1, <3>2, <3>4
  <2>2. ASSUME s <= k, lab[k] > 0, \A j \in s..k : lab[j] = lab[k]
        PROVE  Attacked(rows, wi[s], wi[k])
    <3>1. lab[s] = lab[k] /\ wi[s] <= wi[k]
      BY <1>4, <2>2
    <3>2. ASSUME NEW i \in UeWindows(rows, ue), wi[s] <= i, i <= wi[k]
          PROVE  rows[i].label = rows[wi[s]].label
      <4>1. PICK j \in 1..m : wi[j] = i
        BY <1>1
      <4>2. s <= j /\ j <= k
        BY <1>4, <3>2, <4>1
      <4>3. lab[j] = lab[k]
        BY <2>2, <4>2
      <4> QED  BY <1>2, <3>1, <4>1, <4>3
    <3> QED  BY <1>1, <1>2, <1>5, <2>2, <3>1, <3>2 DEF Attacked
  <2> QED  BY <2>1, <2>2
<1>7. Onset(rows, wi[s]) <=> (s > 1 => lab[s - 1] # lab[s])
  <2>1. ASSUME Onset(rows, wi[s]), s > 1 PROVE lab[s - 1] # lab[s]
    <3>1. PICK q \in 1..m : q = s - 1 /\ q < s
      <4>1. s - 1 \in 1..m /\ s - 1 < s
        BY <1>1, <2>1
      <4> QED  BY <4>1
    <3>2. wi[q] \in UeWindows(rows, ue) /\ wi[q] < wi[s]
      BY <1>1, <3>1
    <3>3. \A j \in UeWindows(rows, ue) : ~(wi[q] < j /\ j < wi[s])
      <4>1. ASSUME NEW j \in UeWindows(rows, ue), wi[q] < j, j < wi[s] PROVE FALSE
        <5>1. PICK x \in 1..m : wi[x] = j
          BY <1>1
        <5>2. q < x /\ x < s
          BY <1>1, <4>1, <5>1
        <5> QED  BY <3>1, <5>2
      <4> QED  BY <4>1
    <3>4. rows[wi[q]].label # rows[wi[s]].label
      BY <1>5, <2>1, <3>2, <3>3 DEF Onset
    <3> QED  BY <1>2, <3>1, <3>4
  <2>2. ASSUME s > 1 => lab[s - 1] # lab[s] PROVE Onset(rows, wi[s])
    <3>1. ASSUME NEW b \in UeWindows(rows, ue), b < wi[s],
                 \A j \in UeWindows(rows, ue) : ~(b < j /\ j < wi[s])
          PROVE  rows[b].label # rows[wi[s]].label
      <4>1. PICK x \in 1..m : wi[x] = b
        BY <1>1
      <4>2. x < s
        BY <1>1, <3>1, <4>1
      <4>3. PICK q \in 1..m : q = s - 1 /\ q < s
        <5>1. s - 1 \in 1..m /\ s - 1 < s
          BY <1>1, <4>2
        <5> QED  BY <5>1
      <4>4. x = q
        <5>1. ~(wi[x] < wi[q] /\ wi[q] < wi[s])
          BY <1>1, <3>1, <4>1
        <5>2. ~(x < q)
          BY <1>1, <4>3, <5>1
        <5> QED  BY <4>2, <4>3, <5>2
      <4>5. lab[q] # lab[s]
        BY <2>2, <4>2, <4>3
      <4> QED  BY <1>2, <4>1, <4>4, <4>5
    <3> QED  BY <1>5, <3>1 DEF Onset
  <2> QED  BY <2>1, <2>2
<1>8. s <= k => ((\A j \in UeWindows(rows, ue) : wi[s] <= j /\ j < wi[k] => ~Alert(rows, c, j))
                   <=> \A j \in s..(k - 1) : ~Alert(rows, c, wi[j]))
  <2> SUFFICES ASSUME s <= k
               PROVE  (\A j \in UeWindows(rows, ue) : wi[s] <= j /\ j < wi[k] => ~Alert(rows, c, j))
                        <=> \A j \in s..(k - 1) : ~Alert(rows, c, wi[j])
    OBVIOUS
  <2>1. \A j \in 1..m : j \in s..(k - 1) <=> wi[s] <= wi[j] /\ wi[j] < wi[k]
    <3>1. ASSUME NEW j \in 1..m PROVE j \in s..(k - 1) <=> wi[s] <= wi[j] /\ wi[j] < wi[k]
      <4>1. (s <= j <=> wi[s] <= wi[j]) /\ (j < k <=> wi[j] < wi[k])
        BY <1>1, <1>4
      <4> QED  BY <4>1
    <3> QED  BY <3>1
  <2>2. \A j \in s..(k - 1) : j \in 1..m
    BY <1>1
  <2> QED  BY <1>1, <2>1, <2>2
<1> QED  BY <1>5, <1>6, <1>7, <1>8 DEF DetectedFrom

StartOf(rows, wi, k) == Min({s \in 1..k : \A j \in s..k : rows[wi[j]].label = rows[wi[k]].label})
ChosenAt(rows, filter, i) == rows[i].label # 0 /\ Target(rows, filter) \in {0, rows[i].label}

OwnLatencies(rows, pred, filter, wi) ==
  {<<rows[wi[k]].label, rows[wi[k]].ts - rows[wi[StartOf(rows, wi, k)]].ts,
     rows[wi[StartOf(rows, wi, k)]].ts>> :
      k \in {j \in DOMAIN wi :
               /\ ChosenAt(rows, filter, wi[j]) /\ wi[j] \in pred
               /\ \A i \in StartOf(rows, wi, j)..(j - 1) : ~(wi[i] \in pred)}}

LEMMA GroupLatenciesAre ==
  ASSUME NEW rows, Stamped(rows), NEW c \in Configs, NEW ue, NEW filter
  PROVE  \A l : l \in GroupLatencies(rows, Predicted(rows, c), filter, ue)
                  <=> \E a, e \in UeWindows(rows, ue) :
                        /\ DetectedFrom(rows, c, a, e) /\ ChosenAt(rows, filter, a)
                        /\ l = LatencyOf(rows, a, e)
<1>1. PICK wi, m : wi = OwnWindows(rows, ue) /\ InOrderOf(wi, m, rows, ue)
  BY OwnWindowsAre
<1>2. /\ m \in Nat /\ DOMAIN wi = 1..m /\ \A i \in 1..m : wi[i] \in UeWindows(rows, ue)
      /\ \A i \in UeWindows(rows, ue) : \E j \in 1..m : wi[j] = i
  BY <1>1 DEF InOrderOf
<1>3. \A i \in UeWindows(rows, ue) : i \in WindowRows(rows) /\ rows[i].ts = i /\ rows[i].label \in Nat
  BY StampedHasUes DEF UeWindows, WindowRows, CsvRow, Stamped
<1>4. PICK pred : pred = Predicted(rows, c)
  OBVIOUS
<1>5. \A i \in UeWindows(rows, ue) : i \in pred <=> Alert(rows, c, i)
  BY <1>3, <1>4, PredictedIs
<1>6. PICK lab : lab = LabelsOf(rows, wi, m)
  OBVIOUS
<1>7. PICK K : K = {k \in DOMAIN wi :
                      /\ ChosenAt(rows, filter, wi[k]) /\ wi[k] \in pred
                      /\ \A i \in StartOf(rows, wi, k)..(k - 1) : wi[i] \notin pred}
  OBVIOUS
<1>8. GroupLatencies(rows, pred, filter, ue) =
        {<<rows[wi[k]].label, rows[wi[k]].ts - rows[wi[StartOf(rows, wi, k)]].ts,
           rows[wi[StartOf(rows, wi, k)]].ts>> : k \in K}
  <2>1. GroupLatencies(rows, pred, filter, ue) = OwnLatencies(rows, pred, filter, OwnWindows(rows, ue))
    BY DEF GroupLatencies, OwnLatencies, OwnWindows, StartOf, ChosenAt
  <2>2. {k \in DOMAIN wi :
           /\ ChosenAt(rows, filter, wi[k]) /\ wi[k] \in pred
           /\ \A i \in StartOf(rows, wi, k)..(k - 1) : ~(wi[i] \in pred)} = K
    BY <1>7
  <2> QED  BY <1>1, <2>1, <2>2 DEF OwnLatencies
<1>9. ASSUME NEW k \in 1..m
      PROVE  StartOf(rows, wi, k) = Min(Stretch(lab, k))
  <2>1. \A j \in 1..k : j \in 1..m /\ lab[j] = rows[wi[j]].label
    BY <1>2, <1>6 DEF LabelsOf
  <2>2. k \in 1..k /\ \A s \in 1..k : \A j \in s..k : j \in 1..k
    BY <1>2
  <2>3. {s \in 1..k : \A j \in s..k : rows[wi[j]].label = rows[wi[k]].label} = Stretch(lab, k)
    BY <2>1, <2>2 DEF Stretch
  <2> QED  BY <2>3 DEF StartOf
<1>10. ASSUME NEW k \in 1..m, NEW s, s = StartOf(rows, wi, k)
       PROVE  /\ s \in 1..m /\ s <= k
              /\ DetectedFrom(rows, c, wi[s], wi[k])
                   <=> /\ lab[k] > 0 /\ wi[k] \in pred /\ \A i \in s..(k - 1) : wi[i] \notin pred
              /\ lab[s] = lab[k]
              /\ <<rows[wi[k]].label, rows[wi[k]].ts - rows[wi[s]].ts, rows[wi[s]].ts>>
                   = <<lab[k], wi[k] - wi[s], wi[s]>>
  <2>1. k \in Nat /\ k > 0
    BY <1>2
  <2>2. s = Min(Stretch(lab, k))
    BY <1>9, <1>10
  <2>3. s \in 1..k /\ (\A j \in s..k : lab[j] = lab[k]) /\ (s > 1 => lab[s - 1] # lab[k])
    BY <2>1, <2>2, StretchStart
  <2>4. s \in 1..m /\ s <= k /\ s \in s..k
    BY <1>2, <2>3
  <2>5. DetectedFrom(rows, c, wi[s], wi[k])
           <=> /\ s <= k /\ lab[k] > 0 /\ \A j \in s..k : lab[j] = lab[k]
               /\ s > 1 => lab[s - 1] # lab[k]
               /\ Alert(rows, c, wi[k]) /\ \A j \in s..(k - 1) : ~Alert(rows, c, wi[j])
    BY <1>1, <1>6, <2>4, DetectedIs
  <2>6. \A j \in s..(k - 1) : wi[j] \in pred <=> Alert(rows, c, wi[j])
    <3>1. \A j \in s..(k - 1) : j \in 1..m
      BY <1>2, <2>4
    <3> QED  BY <1>2, <1>5, <3>1
  <2>7. wi[k] \in pred <=> Alert(rows, c, wi[k])
    BY <1>2, <1>5
  <2>8. DetectedFrom(rows, c, wi[s], wi[k])
          <=> lab[k] > 0 /\ wi[k] \in pred /\ \A i \in s..(k - 1) : wi[i] \notin pred
    BY <2>3, <2>4, <2>5, <2>6, <2>7
  <2>9. rows[wi[k]].ts = wi[k] /\ rows[wi[s]].ts = wi[s] /\ rows[wi[k]].label = lab[k]
    BY <1>2, <1>3, <1>6, <2>4 DEF LabelsOf
  <2> QED  BY <2>3, <2>4, <2>8, <2>9
<1>11. \A k \in 1..m : ChosenAt(rows, filter, wi[k]) <=> lab[k] # 0 /\ Target(rows, filter) \in {0, lab[k]}
  BY <1>6 DEF ChosenAt, LabelsOf
<1>12. \A k \in 1..m : lab[k] \in Nat /\ lab[k] = rows[wi[k]].label
  BY <1>2, <1>3, <1>6 DEF LabelsOf
<1>13. ASSUME NEW l, l \in GroupLatencies(rows, pred, filter, ue)
       PROVE  \E a, e \in UeWindows(rows, ue) :
                        /\ DetectedFrom(rows, c, a, e) /\ ChosenAt(rows, filter, a)
                        /\ l = LatencyOf(rows, a, e)
  <2>1. PICK k \in K : l = <<rows[wi[k]].label, rows[wi[k]].ts - rows[wi[StartOf(rows, wi, k)]].ts,
                             rows[wi[StartOf(rows, wi, k)]].ts>>
    BY <1>8, <1>13
  <2>2. PICK s : s = StartOf(rows, wi, k)
    OBVIOUS
  <2>3. /\ k \in 1..m /\ ChosenAt(rows, filter, wi[k]) /\ wi[k] \in pred
        /\ \A i \in s..(k - 1) : wi[i] \notin pred
    BY <1>2, <1>7, <2>2
  <2>4. /\ s \in 1..m /\ lab[s] = lab[k]
        /\ DetectedFrom(rows, c, wi[s], wi[k])
             <=> lab[k] > 0 /\ wi[k] \in pred /\ \A i \in s..(k - 1) : wi[i] \notin pred
        /\ l = <<lab[k], wi[k] - wi[s], wi[s]>>
    BY <1>10, <2>1, <2>2, <2>3
  <2>5. lab[k] > 0 /\ ChosenAt(rows, filter, wi[s])
    BY <1>11, <1>12, <2>3, <2>4
  <2>6. DetectedFrom(rows, c, wi[s], wi[k])
    BY <2>3, <2>4, <2>5
  <2>7. l = LatencyOf(rows, wi[s], wi[k])
    BY <1>12, <2>4 DEF LatencyOf
  <2>8. PICK a, e : a = wi[s] /\ e = wi[k]
    OBVIOUS
  <2>9. a \in UeWindows(rows, ue) /\ e \in UeWindows(rows, ue)
    BY <1>2, <2>3, <2>4, <2>8
  <2> QED  BY <2>5, <2>6, <2>7, <2>8, <2>9
<1>14. ASSUME NEW l, NEW a \in UeWindows(rows, ue), NEW e \in UeWindows(rows, ue),
              DetectedFrom(rows, c, a, e), ChosenAt(rows, filter, a), l = LatencyOf(rows, a, e)
       PROVE  l \in GroupLatencies(rows, pred, filter, ue)
  <2>1. PICK s \in 1..m, k \in 1..m : a = wi[s] /\ e = wi[k]
    BY <1>2
  <2>2. /\ s <= k /\ lab[k] > 0 /\ \A j \in s..k : lab[j] = lab[k]
        /\ s > 1 => lab[s - 1] # lab[k]
    <3>1. DetectedFrom(rows, c, wi[s], wi[k])
      BY <1>14, <2>1
    <3> QED  BY <1>1, <1>6, <3>1, DetectedIs
  <2>3. k \in Nat /\ k > 0 /\ s \in 1..k
    BY <1>2, <2>2
  <2>4. PICK t : t = Min(Stretch(lab, k))
    OBVIOUS
  <2>5. \A r \in 1..k : (\A j \in r..k : lab[j] = lab[k]) /\ (r > 1 => lab[r - 1] # lab[k]) => r = t
    BY <2>3, <2>4, StretchStart
  <2>6. s = t
    BY <2>2, <2>3, <2>5
  <2>7. s = StartOf(rows, wi, k)
    BY <1>9, <2>4, <2>6
  <2>8. /\ lab[s] = lab[k]
        /\ DetectedFrom(rows, c, wi[s], wi[k])
             <=> lab[k] > 0 /\ wi[k] \in pred /\ \A i \in s..(k - 1) : wi[i] \notin pred
        /\ <<rows[wi[k]].label, rows[wi[k]].ts - rows[wi[s]].ts, rows[wi[s]].ts>>
             = <<lab[k], wi[k] - wi[s], wi[s]>>
    BY <1>10, <2>7
  <2>9. ChosenAt(rows, filter, wi[k])
    BY <1>11, <1>14, <2>1, <2>8
  <2>10. k \in K
    BY <1>2, <1>7, <1>14, <2>1, <2>7, <2>8, <2>9
  <2>11. l = <<lab[k], wi[k] - wi[s], wi[s]>>
    BY <1>12, <1>14, <2>1, <2>8 DEF LatencyOf
  <2>12. l = <<rows[wi[k]].label, rows[wi[k]].ts - rows[wi[StartOf(rows, wi, k)]].ts,
                             rows[wi[StartOf(rows, wi, k)]].ts>>
    BY <2>7, <2>8, <2>11
  <2> QED  BY <1>8, <2>10, <2>12
<1> QED  BY <1>4, <1>13, <1>14

LEMMA DashboardLatencies ==
  ASSUME NEW rows, Stamped(rows), NEW w, w = Pool(rows), NEW c \in Configs, NEW filter
  PROVE  Evaluate(rows, c, filter).latencies =
           {l \in DetectionLatency(w, Fires(w, c)) : Target(rows, filter) \in {0, l[1]}}
<1>1. PICK pred : pred = Predicted(rows, c)
  OBVIOUS
<1>2. Evaluate(rows, c, filter).latencies
        = UNION {GroupLatencies(rows, pred, filter, ue) : ue \in UeSet(rows)}
  BY <1>1 DEF Evaluate
<1>3. ASSUME NEW ue \in UeSet(rows), NEW l \in GroupLatencies(rows, pred, filter, ue)
      PROVE  l \in DetectionLatency(w, Fires(w, c)) /\ Target(rows, filter) \in {0, l[1]}
  <2>1. PICK a, e \in UeWindows(rows, ue) :
                        /\ DetectedFrom(rows, c, a, e) /\ ChosenAt(rows, filter, a)
                        /\ l = LatencyOf(rows, a, e)
    BY <1>1, <1>3, GroupLatenciesAre
  <2>2. l \in DetectionLatency(w, Fires(w, c))
    BY <2>1, AttackHasLatency
  <2>3. l[1] = rows[a].label
    BY <2>1 DEF LatencyOf
  <2> QED  BY <2>1, <2>2, <2>3 DEF ChosenAt
<1>4. ASSUME NEW l \in DetectionLatency(w, Fires(w, c)), Target(rows, filter) \in {0, l[1]}
      PROVE  \E ue \in UeSet(rows) : l \in GroupLatencies(rows, pred, filter, ue)
  <2>1. PICK a \in WindowRows(rows), e \in WindowRows(rows) :
           DetectedFrom(rows, c, a, e) /\ l = LatencyOf(rows, a, e)
    BY LatencyHasAttack
  <2>2. PICK ue : ue = rows[a].ue
    OBVIOUS
  <2>3. a \in DOMAIN rows /\ ue \in UeSet(rows)
    BY <2>2 DEF WindowRows, UeSet
  <2>4. a \in UeWindows(rows, ue) /\ e \in UeWindows(rows, ue)
    BY <2>1, <2>2 DEF UeWindows, DetectedFrom, Attacked
  <2>5. rows[a].label > 0 /\ rows[a].label \in Nat
    BY <2>1, <2>3, StampedHasUes DEF DetectedFrom, Attacked, CsvRow
  <2>6. l[1] = rows[a].label
    BY <2>1 DEF LatencyOf
  <2>7. ChosenAt(rows, filter, a)
    BY <1>4, <2>5, <2>6 DEF ChosenAt
  <2>8. l \in GroupLatencies(rows, pred, filter, ue)
    BY <1>1, <2>1, <2>4, <2>7, GroupLatenciesAre
  <2> QED  BY <2>3, <2>8
<1> QED  BY <1>2, <1>3, <1>4

LEMMA InvDashboard == CsvInv => DashboardAgrees
<1> SUFFICES ASSUME CsvInv PROVE DashboardAgrees
  OBVIOUS
<1>1. PICK rows : rows = csv
  OBVIOUS
<1>2. Stamped(rows)
  BY <1>1 DEF CsvInv
<1>3. PICK w : w = Pool(rows)
  OBVIOUS
<1>4. ASSUME NEW c \in Configs
      PROVE  LET offline == Results(rows)[c]
                 online == Evaluate(rows, c, 0)
             IN /\ online.metrics = offline.cm /\ online.latencies = offline.detection
                /\ \A class \in DOMAIN offline.perClass :
                     LET one == Evaluate(rows, c, class) IN
                     /\ <<one.metrics.tp, one.metrics.tp + one.metrics.fn>> = offline.perClass[class]
                     /\ one.metrics.fp = offline.cm.fp
                     /\ one.latencies = {l \in offline.detection : l[1] = class}
  <2>1. PICK fires, latencies, recall, cm :
          /\ fires = Fires(w, c) /\ latencies = DetectionLatency(w, fires)
          /\ recall = PerClassRecall(w, fires) /\ cm = ConfusionMatrix(w, fires)
    OBVIOUS
  <2>2. /\ Results(rows)[c].cm = cm /\ Results(rows)[c].detection = latencies
        /\ Results(rows)[c].perClass = recall
    BY <1>3, <2>1 DEF Results, Entry
  <2>3. \A f : Evaluate(rows, c, f).metrics = Metrics(rows, Predicted(rows, c), f)
    BY DEF Evaluate
  <2>4. \A f : Evaluate(rows, c, f).latencies = {l \in latencies : Target(rows, f) \in {0, l[1]}}
    BY <1>2, <1>3, <2>1, DashboardLatencies
  <2>5. Target(rows, 0) = 0
    BY DEF Target
  <2>6. /\ Metrics(rows, Predicted(rows, c), 0) = cm
        /\ \A l \in DOMAIN recall :
              LET one == Metrics(rows, Predicted(rows, c), l) IN
              /\ <<one.tp, one.tp + one.fn>> = recall[l]
              /\ one.fp = cm.fp
              /\ Target(rows, l) = l /\ l > 0 /\ l \in Nat
    BY <1>2, <1>3, <2>1, DashboardCounts
  <2>7. Evaluate(rows, c, 0).latencies = latencies
    BY <2>4, <2>5
  <2>8. ASSUME NEW class \in DOMAIN recall
        PROVE  /\ <<Evaluate(rows, c, class).metrics.tp, Evaluate(rows, c, class).metrics.tp + Evaluate(rows, c, class).metrics.fn>> = recall[class]
               /\ Evaluate(rows, c, class).metrics.fp = cm.fp
               /\ Evaluate(rows, c, class).latencies = {l \in latencies : l[1] = class}
    <3>1. Target(rows, class) = class /\ class > 0 /\ class \in Nat
      BY <2>6
    <3>2. {l \in latencies : Target(rows, class) \in {0, l[1]}} = {l \in latencies : l[1] = class}
      BY <3>1
    <3> QED  BY <2>3, <2>4, <2>6, <3>2
  <2> QED  BY <2>2, <2>3, <2>6, <2>7, <2>8
<1> QED  BY <1>1, <1>4 DEF DashboardAgrees

(***************************************************************************)
(* The first evaluation of the per-UE models.                              *)
(***************************************************************************)
LEMMA UnsplitAre ==
  ASSUME NEW rows, HasUes(rows), NEW mix
  PROVE  /\ DOMAIN UnsplitScores(rows, mix) = 1..BlockLen(rows)
         /\ Len(UnsplitScores(rows, mix)) = BlockLen(rows) /\ BlockLen(rows) \in Nat
         /\ DOMAIN AlignLabels(rows) = 1..BlockLen(rows)
         /\ \A i \in 1..BlockLen(rows) :
              /\ i + W - 1 \in 1..Len(rows)
              /\ UnsplitScores(rows, mix)[i] =
                   IF \A j \in i..(i + W - 1) : rows[j].ue = rows[i + W - 1].ue
                   THEN rows[i + W - 1].score ELSE mix
              /\ AlignLabels(rows)[i] = rows[i + W - 1].label
<1>1. PICK n \in Nat, k \in Nat : n = Len(rows) /\ k = W /\ k > 0
  BY DomainIs, EvalConstants
<1>2. 1..(Len(rows) - W + 1) = 1..BlockLen(rows) /\ BlockLen(rows) \in Nat
  BY <1>1 DEF BlockLen
<1>3. \A i \in 1..BlockLen(rows) : i + W - 1 \in 1..Len(rows)
  BY <1>1 DEF BlockLen
<1> DEFINE score(i) == IF \A j \in i..(i + W - 1) : rows[j].ue = rows[i + W - 1].ue
                       THEN rows[i + W - 1].score ELSE mix
<1>4. UnsplitScores(rows, mix) = [i \in 1..BlockLen(rows) |-> score(i)]
  BY <1>2 DEF UnsplitScores
<1>5. AlignLabels(rows) = [i \in 1..BlockLen(rows) |-> rows[i + W - 1].label]
  BY <1>2 DEF AlignLabels
<1>6. PICK s : s = UnsplitScores(rows, mix)
  OBVIOUS
<1> DEFINE T == {s[i] : i \in 1..BlockLen(rows)}
<1>7. s \in [1..BlockLen(rows) -> T]
  BY <1>4, <1>6
<1> HIDE DEF T, score
<1>8. Len(s) = BlockLen(rows)
  <2>1. s \in Seq(T)
    BY <1>2, <1>7, IsASeq
  <2>2. DOMAIN s = 1..Len(s) /\ Len(s) \in Nat
    BY <2>1, LenProperties
  <2> QED  BY <1>2, <1>7, <2>2
<1>9. \A i \in 1..BlockLen(rows) : UnsplitScores(rows, mix)[i] = score(i)
  BY <1>4
<1>10. DOMAIN UnsplitScores(rows, mix) = 1..BlockLen(rows)
  BY <1>4
<1> QED  BY <1>2, <1>3, <1>5, <1>6, <1>8, <1>9, <1>10 DEF score

\* The groups have all the rows.
LEMMA GroupsSum ==
  ASSUME NEW rows, HasUes(rows), NEW lens,
         lens = [b \in DOMAIN Ues(rows) |-> Len(SplitByRnti(rows, Ues(rows)[b]))]
  PROVE  lens \in Seq(Nat) /\ Len(lens) = Len(Ues(rows)) /\ SumOf(lens) = Len(rows)
<1>1. PICK B \in Nat : B = Len(Ues(rows)) /\ DOMAIN Ues(rows) = 1..B
  BY UesAre
<1>2. ASSUME NEW b \in 1..B
      PROVE  /\ lens[b] = Cardinality(PlacesOf(rows, Ues(rows)[b])) /\ lens[b] \in Nat
  BY <1>1, GroupIs
<1>3. lens \in Seq(Nat) /\ Len(lens) = B
  <2>1. lens \in [1..B -> Nat]
    BY <1>1, <1>2
  <2>2. lens \in Seq(Nat)
    BY <2>1, IsASeq
  <2>3. DOMAIN lens = 1..Len(lens) /\ Len(lens) \in Nat
    BY <2>2, LenProperties
  <2> QED  BY <2>1, <2>2, <2>3
<1>4. DOMAIN rows = 1..Len(rows) /\ Len(rows) \in Nat
  BY DomainIs
<1>5. PICK D : D = DOMAIN rows
  OBVIOUS
<1>6. IsFiniteSet(D) /\ Cardinality(D) = Len(rows)
  <2>1. PICK n \in Nat : n = Len(rows)
    BY <1>4
  <2>2. IsFiniteSet(1..n) /\ Cardinality(1..n) = IF 1 > n THEN 0 ELSE n - 1 + 1
    BY FS_Interval
  <2>3. D = 1..n
    BY <1>4, <1>5, <2>1
  <2> QED  BY <2>1, <2>2, <2>3, SMTT(30)
<1>7. PICK part : part = [i \in D |-> BlockOf(rows, i)]
  OBVIOUS
<1>8. ASSUME NEW i \in D
      PROVE  /\ part[i] \in 1..B
             /\ \A b \in 1..B : part[i] = b <=> rows[i].ue = Ues(rows)[b]
  <2>1. rows[i].ue \in UeSet(rows)
    BY <1>5, <1>8 DEF UeSet
  <2>2. /\ PlaceIn(UeSet(rows), rows[i].ue) \in 1..B
        /\ Ues(rows)[PlaceIn(UeSet(rows), rows[i].ue)] = rows[i].ue
        /\ \A b \in 1..B : PlaceIn(UeSet(rows), Ues(rows)[b]) = b
    BY <1>1, <2>1, UesAre
  <2>3. part[i] = PlaceIn(UeSet(rows), rows[i].ue)
    BY <1>7, <1>8 DEF BlockOf
  <2> QED  BY <2>2, <2>3
<1>9. ASSUME NEW b \in 1..B PROVE lens[b] = Cardinality({i \in D : part[i] = b})
  <2>1. PlacesOf(rows, Ues(rows)[b]) = {i \in D : part[i] = b}
    BY <1>5, <1>8 DEF PlacesOf
  <2> QED  BY <1>2, <2>1
<1>10. SumOf(lens) = Cardinality(D)
  <2>1. \A i \in D : part[i] \in 1..Len(lens)
    BY <1>3, <1>8
  <2>2. \A b \in 1..Len(lens) : lens[b] = Cardinality({i \in D : part[i] = b})
    BY <1>3, <1>9
  <2> QED  BY <1>3, <1>6, <2>1, <2>2, SumOfParts
<1> QED  BY <1>1, <1>3, <1>6, <1>10

LEMMA InvUnsplitCounts == CsvInv => UnsplitCounts
<1> SUFFICES ASSUME CsvInv PROVE UnsplitCounts
  OBVIOUS
<1>1. PICK rows : rows = csv
  OBVIOUS
<1>2. HasUes(rows)
  BY <1>1, StampedHasUes DEF CsvInv
<1> DEFINE group(b) == SplitByRnti(rows, Ues(rows)[b])
<1>3. PICK B \in Nat : B = Len(Ues(rows)) /\ DOMAIN Ues(rows) = 1..B
  BY <1>2, UesAre
<1>4. PICK lens, alls, mins :
        /\ lens = [b \in DOMAIN Ues(rows) |-> BlockLen(group(b))]
        /\ alls = [b \in DOMAIN Ues(rows) |-> Len(group(b))]
        /\ mins = [b \in DOMAIN Ues(rows) |-> Min({W - 1, Len(group(b))})]
  OBVIOUS
<1>5. lens \in Seq(Nat) /\ Len(lens) = B /\ Len(Pool(rows)) = SumOf(lens)
  BY <1>2, <1>3, <1>4, PoolLength
<1>6. alls \in Seq(Nat) /\ Len(alls) = B /\ SumOf(alls) = Len(rows)
  BY <1>2, <1>3, <1>4, GroupsSum
<1>7. PICK k \in Nat : k = W /\ k > 0
  BY EvalConstants
<1>8. ASSUME NEW b \in 1..B
      PROVE  /\ alls[b] = lens[b] + mins[b] /\ mins[b] \in Nat
  <2>1. PICK n \in Nat : n = Len(group(b))
    BY <1>2, GroupIs
  <2>2. Min({k - 1, n}) = IF n < k THEN n ELSE k - 1
    <3>1. PICK x \in Int : x = k - 1
      BY <1>7
    <3>2. PICK S : S = {x, n}
      OBVIOUS
    <3>5. x \in S /\ n \in S /\ S \subseteq Int
      BY <3>2
    <3>3. CASE n < k
      <4>1. \A y \in S : n <= y
        BY <3>1, <3>2, <3>3
      <4>2. Min(S) = n
        BY <3>5, <4>1, MinIs
      <4> QED  BY <3>1, <3>2, <3>3, <4>2
    <3>4. CASE ~(n < k)
      <4>1. \A y \in S : x <= y
        BY <3>1, <3>2, <3>4
      <4>2. Min(S) = x
        BY <3>5, <4>1, MinIs
      <4> QED  BY <3>1, <3>2, <3>4, <4>2
    <3> QED  BY <3>3, <3>4
  <2>3. lens[b] = IF n >= k THEN n - k + 1 ELSE 0
    BY <1>3, <1>4, <1>7, <2>1 DEF BlockLen
  <2>4. alls[b] = n /\ mins[b] = Min({k - 1, n})
    BY <1>3, <1>4, <1>7, <2>1
  <2> QED  BY <1>7, <2>2, <2>3, <2>4
<1> HIDE DEF group
<1>9. mins \in Seq(Nat) /\ Len(mins) = B
  <2>1. mins \in [1..B -> Nat]
    BY <1>3, <1>4, <1>8
  <2>2. mins \in Seq(Nat)
    BY <2>1, IsASeq
  <2>3. DOMAIN mins = 1..Len(mins) /\ Len(mins) \in Nat
    BY <2>2, LenProperties
  <2> QED  BY <2>1, <2>2, <2>3
<1>10. SumOf(alls) = SumOf(lens) + SumOf(mins) /\ SumOf(lens) \in Nat /\ SumOf(mins) \in Nat
  <2>1. \A b \in 1..B : alls[b] = lens[b] + mins[b]
    BY <1>8
  <2>2. PICK x, y, z : x = alls /\ y = lens /\ z = mins
    OBVIOUS
  <2>3. x \in Seq(Nat) /\ y \in Seq(Nat) /\ z \in Seq(Nat) /\ Len(x) = B /\ Len(y) = B /\ Len(z) = B
        /\ \A b \in 1..B : x[b] = y[b] + z[b]
    BY <1>5, <1>6, <1>9, <2>1, <2>2
  <2>4. SumOf(x) = SumOf(y) + SumOf(z) /\ SumOf(y) \in Nat /\ SumOf(z) \in Nat
    BY <2>3, SumsAdd, ZenonT(30)
  <2> QED  BY <2>2, <2>4
<1>11. Total(LAMBDA g : Min({W - 1, Len(g)}), rows) = SumOf(mins)
  BY <1>4 DEF Total, group
<1>12. Len(UnsplitScores(rows, 0)) = BlockLen(rows)
  BY <1>2, UnsplitAre
<1>13. PICK p \in Nat, q \in Nat, n \in Nat :
         p = SumOf(lens) /\ q = SumOf(mins) /\ n = Len(rows) /\ n = p + q
  BY <1>6, <1>10
<1>14. BlockLen(rows) = IF n >= k THEN n - k + 1 ELSE 0
  BY <1>7, <1>13 DEF BlockLen
<1>15. Len(UnsplitScores(rows, 0)) - Len(Pool(rows))
         = IF n < k THEN -p ELSE q - (k - 1)
  <2>1. PICK x \in Nat : x = BlockLen(rows)
    BY <1>7, <1>14
  <2>2. x - p = IF n < k THEN -p ELSE q - (k - 1)
    BY <1>7, <1>13, <1>14, <2>1
  <2> QED  BY <1>5, <1>12, <1>13, <2>1, <2>2
<1>16. Len(UnsplitScores(rows, 0)) - Len(Pool(rows))
         = IF Len(rows) < W THEN -Len(Pool(rows))
           ELSE Total(LAMBDA g : Min({W - 1, Len(g)}), rows) - (W - 1)
  BY <1>5, <1>7, <1>11, <1>13, <1>15
<1> QED  BY <1>1, <1>16 DEF UnsplitCounts

OfOneUe(g, ue) ==
  /\ HasUes(g)
  /\ \A i \in DOMAIN g : g[i].ue = ue /\ g[i].label \in Nat /\ g[i].score \in Nat

LEMMA GroupOfOneUe ==
  ASSUME NEW rows, Stamped(rows), NEW ue
  PROVE  OfOneUe(SplitByRnti(rows, ue), ue)
<1>1. HasUes(rows) /\ \A i \in DOMAIN rows : rows[i] \in CsvRow
  BY StampedHasUes
<1>2. PICK g : g = SplitByRnti(rows, ue)
  OBVIOUS
<1>3. PICK P : P = PlacesOf(rows, ue)
  OBVIOUS
<1>4. /\ DOMAIN g = 1..Cardinality(P) /\ \E T : g \in Seq(T)
      /\ \A k \in 1..Cardinality(P) : g[k] = rows[Ascending(P)[k]] /\ Ascending(P)[k] \in P
  BY <1>1, <1>2, <1>3, GroupIs
<1>5. \A i \in P : i \in DOMAIN rows /\ rows[i].ue = ue
  BY <1>3 DEF PlacesOf
<1>6. \A k \in DOMAIN g : g[k] \in CsvRow /\ g[k].ue = ue
  BY <1>1, <1>4, <1>5
<1> QED  BY <1>2, <1>4, <1>6 DEF OfOneUe, HasUes, CsvRow

LEMMA OneUeWindows ==
  ASSUME NEW g, NEW ue, OfOneUe(g, ue)
  PROVE  WindowRows(g) = {i \in 1..Len(g) : i >= W}
<1>1. HasUes(g) /\ \A i \in DOMAIN g : g[i].ue = ue
  BY DEF OfOneUe
<1>2. PICK n \in Nat : n = Len(g) /\ DOMAIN g = 1..n
  BY <1>1, DomainIs
<1>3. ASSUME NEW i \in 1..n PROVE Nth(g, i) = i
  <2>1. {y \in PlacesOf(g, g[i].ue) : y <= i} = 1..i
    BY <1>1, <1>2 DEF PlacesOf
  <2>2. IsFiniteSet(1..i) /\ Cardinality(1..i) = IF 1 > i THEN 0 ELSE i - 1 + 1
    BY FS_Interval
  <2>3. Nth(g, i) = Cardinality(1..i)
    BY <2>1 DEF Nth, PlaceIn
  <2> QED  BY <2>2, <2>3
<1> QED  BY <1>2, <1>3 DEF WindowRows

\* The windows of a pool that end in a row of S.
PlacesIn(at, n, S) == {p \in 1..n : at[p] \in S}

\* A set of rows, counted by the windows of the pool and by those of the file.
LEMMA CountPool ==
  ASSUME NEW g, NEW ue, OfOneUe(g, ue), NEW at, NEW n \in Nat, PoolOrder(at, n, g),
         NEW S, S \subseteq WindowRows(g)
  PROVE  Cardinality(PlacesIn(at, n, S)) = Cardinality(S) /\ IsFiniteSet(S)
<1>1. HasUes(g) /\ \A i \in DOMAIN g : g[i].ue = ue /\ g[i].ue \in Nat
  BY DEF OfOneUe, HasUes
<1>2. PICK len \in Nat : len = Len(g) /\ DOMAIN g = 1..len
  BY <1>1, DomainIs
<1>3. WindowRows(g) = {i \in 1..len : i >= W}
  BY <1>2, OneUeWindows
<1>4. IsFiniteSet(S)
  <2>1. IsFiniteSet(1..len)
    BY FS_Interval
  <2>2. S \subseteq 1..len
    BY <1>3
  <2> QED  BY <2>1, <2>2, FS_Subset
<1>5. PICK A : A = {p \in 1..n : at[p] \in S} /\ A = PlacesIn(at, n, S)
  BY DEF PlacesIn
<1>6. Cardinality(A) = Cardinality(S)
  <2> DEFINE f == [p \in A |-> at[p]]
  <2>1. f \in [A -> S]
    BY <1>5
  <2>2. \A x, y \in A : f[x] = f[y] => x = y
    <3> SUFFICES ASSUME NEW x \in A, NEW y \in A, at[x] = at[y], x # y PROVE FALSE
      OBVIOUS
    <3>1. x \in 1..n /\ y \in 1..n
      BY <1>5
    <3>2. \A p, q \in 1..n : p < q =>
            \/ g[at[p]].ue < g[at[q]].ue
            \/ g[at[p]].ue = g[at[q]].ue /\ at[p] < at[q]
      BY DEF PoolOrder
    <3>3. at[x] \in 1..len /\ at[y] \in 1..len
      BY <1>3, <3>1 DEF PoolOrder
    <3>4. PICK u \in Nat, t \in Nat : u = g[at[x]].ue /\ t = at[x]
      BY <1>1, <1>2, <3>3
    <3>5. CASE x < y
      BY <3>1, <3>2, <3>4, <3>5
    <3>6. CASE y < x
      BY <3>1, <3>2, <3>4, <3>6
    <3> QED  BY <3>1, <3>5, <3>6
  <2>3. \A t \in S : \E x \in A : f[x] = t
    BY <1>5 DEF PoolOrder
  <2> HIDE DEF f
  <2> QED  BY <1>4, <2>1, <2>2, <2>3, SameSize
<1> QED  BY <1>4, <1>5, <1>6

LEMMA CountBoth ==
  ASSUME NEW g, NEW ue, OfOneUe(g, ue), NEW at, NEW n \in Nat, PoolOrder(at, n, g),
         NEW S, S \subseteq WindowRows(g)
  PROVE  /\ Cardinality({i \in 1..BlockLen(g) : i + W - 1 \in S}) = Cardinality(S)
         /\ IsFiniteSet(S) /\ Cardinality(S) \in Nat
<1>1. HasUes(g) /\ \A i \in DOMAIN g : g[i].ue = ue /\ g[i].ue \in Nat
  BY DEF OfOneUe, HasUes
<1>2. PICK len \in Nat : len = Len(g) /\ DOMAIN g = 1..len
  BY <1>1, DomainIs
<1>3. WindowRows(g) = {i \in 1..len : i >= W}
  BY <1>2, OneUeWindows
<1>4. IsFiniteSet(S)
  BY CountPool
<1>7. PICK k \in Nat : k = W /\ k > 0
  BY EvalConstants
<1>8. BlockLen(g) = IF len >= k THEN len - k + 1 ELSE 0
  BY <1>2, <1>7 DEF BlockLen
<1>9. PICK b \in Nat : b = BlockLen(g)
  BY <1>7, <1>8
<1>10. PICK B : B = {i \in 1..b : i + k - 1 \in S}
  OBVIOUS
<1>11. Cardinality(B) = Cardinality(S)
  <2> DEFINE f == [i \in B |-> i + k - 1]
  <2>1. f \in [B -> S]
    BY <1>10
  <2>2. \A x, y \in B : f[x] = f[y] => x = y
    BY <1>7, <1>10
  <2>3. ASSUME NEW t \in S PROVE \E x \in B : f[x] = t
    <3>1. t \in 1..len /\ t >= k
      BY <1>3, <1>7
    <3>2. PICK x \in Int : x = t - k + 1
      BY <1>7, <3>1
    <3>3. x \in 1..b /\ x + k - 1 = t
      BY <1>7, <1>8, <1>9, <3>1, <3>2
    <3>4. x \in B
      BY <1>10, <3>3
    <3> QED  BY <3>3, <3>4
  <2> HIDE DEF f
  <2> QED  BY <1>4, <2>1, <2>2, <2>3, SameSize
<1>12. B = {i \in 1..BlockLen(g) : i + W - 1 \in S}
  BY <1>7, <1>9, <1>10
<1> QED  BY <1>4, <1>11, <1>12, FS_CardinalityType

\* The rows that end a window, by score and by attack.
AtLeastRows(g, high, attack) ==
  {i \in WindowRows(g) : ((g[i].score >= Threshold) <=> high) /\ ((g[i].label > 0) <=> attack)}
AboveRows(g, high, attack) ==
  {i \in WindowRows(g) : ((g[i].score > Threshold) <=> high) /\ ((g[i].label > 0) <=> attack)}

LEMMA FirstMetrics ==
  ASSUME NEW g, NEW ue, OfOneUe(g, ue), NEW at, NEW n \in Nat, PoolOrder(at, n, g)
  PROVE  /\ ComputeMetrics(UnsplitScores(g, 0), AlignLabels(g)) =
              [tp |-> Cardinality(AtLeastRows(g, TRUE, TRUE)),
               fp |-> Cardinality(AtLeastRows(g, TRUE, FALSE)),
               tn |-> Cardinality(AtLeastRows(g, FALSE, FALSE)),
               fn |-> Cardinality(AtLeastRows(g, FALSE, TRUE))]
         /\ \A l : (\E i \in LabelRows(g, l) : TRUE) =>
              PerLabelRecall(UnsplitScores(g, 0), AlignLabels(g))[l] =
                <<Cardinality({i \in LabelRows(g, l) : g[i].score >= Threshold}),
                  Cardinality(LabelRows(g, l))>>
<1>1. HasUes(g) /\ \A i \in DOMAIN g : g[i].ue = ue /\ g[i].label \in Nat /\ g[i].score \in Nat
  BY DEF OfOneUe
<1>2. PICK len \in Nat, k \in Nat : len = Len(g) /\ DOMAIN g = 1..len /\ k = W /\ k > 0
  BY <1>1, DomainIs, EvalConstants
<1>3. PICK b \in Nat : /\ b = BlockLen(g) /\ b = IF len >= k THEN len - k + 1 ELSE 0
  BY <1>1, <1>2, UnsplitAre DEF BlockLen
<1>4. PICK scores, labels : scores = UnsplitScores(g, 0) /\ labels = AlignLabels(g)
  OBVIOUS
<1>5. WindowRows(g) = {i \in 1..len : i >= k}
  BY <1>2, OneUeWindows
<1>6. ASSUME NEW i \in 1..b
      PROVE  /\ i + k - 1 \in WindowRows(g)
             /\ scores[i] = g[i + k - 1].score /\ labels[i] = g[i + k - 1].label
  <2>1. i + k - 1 \in 1..len /\ i + k - 1 >= k
    BY <1>2, <1>3
  <2>2. \A j \in i..(i + k - 1) : j \in 1..len
    BY <2>1
  <2>3. \A j \in i..(i + k - 1) : g[j].ue = g[i + k - 1].ue
    BY <1>1, <1>2, <2>1, <2>2
  <2>4. /\ scores[i] = IF \A j \in i..(i + k - 1) : g[j].ue = g[i + k - 1].ue
                       THEN g[i + k - 1].score ELSE 0
        /\ labels[i] = g[i + k - 1].label
    <3>1. i \in 1..BlockLen(g)
      BY <1>3
    <3>2. /\ UnsplitScores(g, 0)[i] =
                   IF \A j \in i..(i + W - 1) : g[j].ue = g[i + W - 1].ue
                   THEN g[i + W - 1].score ELSE 0
          /\ AlignLabels(g)[i] = g[i + W - 1].label
      BY <1>1, <3>1, UnsplitAre
    <3> QED  BY <1>2, <1>4, <3>2
  <2> QED  BY <1>5, <2>1, <2>3, <2>4
<1>7. DOMAIN scores = 1..b /\ DOMAIN labels = 1..b
  BY <1>1, <1>3, <1>4, UnsplitAre
<1> DEFINE count(high, attack) ==
             Cardinality({i \in DOMAIN scores :
                       (scores[i] >= Threshold) = high /\ (labels[i] > 0) = attack})
<1>8. ASSUME NEW high \in BOOLEAN, NEW attack \in BOOLEAN
      PROVE  count(high, attack) = Cardinality(AtLeastRows(g, high, attack))
  <2>1. PICK S : S = AtLeastRows(g, high, attack)
    OBVIOUS
  <2>2. S \subseteq WindowRows(g)
    BY <2>1 DEF AtLeastRows
  <2>3. Cardinality({i \in 1..b : i + k - 1 \in S}) = Cardinality(S)
    <3>1. Cardinality({i \in 1..BlockLen(g) : i + W - 1 \in S}) = Cardinality(S)
      BY <2>2, CountBoth
    <3> QED  BY <1>2, <1>3, <3>1
  <2>4. ASSUME NEW i \in 1..b
        PROVE  (scores[i] >= Threshold) = high /\ (labels[i] > 0) = attack <=> i + k - 1 \in S
    <3>1. PICK j \in WindowRows(g) : j = i + k - 1
      BY <1>6
    <3>2. scores[i] = g[j].score /\ labels[i] = g[j].label
      BY <1>6, <3>1
    <3>3. j \in S <=> ((g[j].score >= Threshold) <=> high) /\ ((g[j].label > 0) <=> attack)
      BY <2>1 DEF AtLeastRows
    <3> QED  BY <3>1, <3>2, <3>3
  <2>5. {i \in DOMAIN scores : (scores[i] >= Threshold) = high /\ (labels[i] > 0) = attack}
          = {i \in 1..b : i + k - 1 \in S}
    BY <1>7, <2>4
  <2> QED  BY <2>1, <2>3, <2>5
<1>9. ComputeMetrics(scores, labels) =
        [tp |-> count(TRUE, TRUE), fp |-> count(TRUE, FALSE),
         tn |-> count(FALSE, FALSE), fn |-> count(FALSE, TRUE)]
  BY DEF ComputeMetrics
<1> HIDE DEF count
<1>10. /\ count(TRUE, TRUE) = Cardinality(AtLeastRows(g, TRUE, TRUE))
       /\ count(TRUE, FALSE) = Cardinality(AtLeastRows(g, TRUE, FALSE))
       /\ count(FALSE, FALSE) = Cardinality(AtLeastRows(g, FALSE, FALSE))
       /\ count(FALSE, TRUE) = Cardinality(AtLeastRows(g, FALSE, TRUE))
  BY <1>8
<1>11. ASSUME NEW l, \E i \in LabelRows(g, l) : TRUE
       PROVE  PerLabelRecall(scores, labels)[l] =
                <<Cardinality({i \in LabelRows(g, l) : g[i].score >= Threshold}),
                  Cardinality(LabelRows(g, l))>>
  <2>1. PICK S : S = LabelRows(g, l)
    OBVIOUS
  <2>2. PICK H : H = {i \in S : g[i].score >= Threshold}
    OBVIOUS
  <2>3. S \subseteq WindowRows(g) /\ H \subseteq WindowRows(g)
    BY <2>1, <2>2 DEF LabelRows
  <2>4. PICK class : class = {i \in DOMAIN labels : labels[i] = l}
    OBVIOUS
  <2>5. class = {i \in 1..b : i + k - 1 \in S}
    BY <1>6, <1>7, <2>1, <2>4 DEF LabelRows
  <2>6. {i \in class : scores[i] >= Threshold} = {i \in 1..b : i + k - 1 \in H}
    BY <1>6, <2>2, <2>5
  <2>7. Cardinality({i \in 1..b : i + k - 1 \in S}) = Cardinality(S)
    <3>1. Cardinality({i \in 1..BlockLen(g) : i + W - 1 \in S}) = Cardinality(S)
      BY <2>3, CountBoth
    <3> QED  BY <1>2, <1>3, <3>1
  <2>8. Cardinality({i \in 1..b : i + k - 1 \in H}) = Cardinality(H)
    <3>1. Cardinality({i \in 1..BlockLen(g) : i + W - 1 \in H}) = Cardinality(H)
      BY <2>3, CountBoth
    <3> QED  BY <1>2, <1>3, <3>1
  <2>9. l \in {labels[i] : i \in DOMAIN labels}
    <3>1. PICK j \in S : TRUE
      BY <1>11, <2>1
    <3>2. j \in 1..len /\ j >= k /\ g[j].label = l
      BY <1>5, <2>1 DEF LabelRows
    <3>3. PICK i \in Int : i = j - k + 1
      BY <3>2
    <3>4. i \in 1..b /\ i + k - 1 = j
      BY <1>2, <1>3, <3>2, <3>3
    <3>5. labels[i] = l
      BY <1>6, <3>2, <3>4
    <3> QED  BY <1>7, <3>4, <3>5
  <2>10. PerLabelRecall(scores, labels)[l]
           = <<Cardinality({i \in class : scores[i] >= Threshold}), Cardinality(class)>>
    BY <2>4, <2>9 DEF PerLabelRecall
  <2> QED  BY <2>1, <2>2, <2>5, <2>6, <2>7, <2>8, <2>10
<1> QED  BY <1>4, <1>9, <1>10, <1>11

\* The rows and the windows that score the threshold.
RowsAtThreshold(g, S) == {i \in WindowRows(g) : g[i].score = Threshold /\ g[i].label \in S}
AtThreshold(w, S) == {i \in DOMAIN w : w[i].score = Threshold /\ w[i].label \in S}
AboveOf(g, l) == {i \in LabelRows(g, l) : g[i].score > Threshold}

LaterCounts(g, cm, recall) ==
  /\ cm = [tp |-> Cardinality(AboveRows(g, TRUE, TRUE)),
           fp |-> Cardinality(AboveRows(g, TRUE, FALSE)),
           tn |-> Cardinality(AboveRows(g, FALSE, FALSE)),
           fn |-> Cardinality(AboveRows(g, FALSE, TRUE))]
  /\ \A l \in DOMAIN recall :
       /\ recall[l] = <<Cardinality(AboveOf(g, l)), Cardinality(LabelRows(g, l))>>
       /\ \E i \in LabelRows(g, l) : TRUE

LEMMA LaterMetrics ==
  ASSUME NEW g, NEW ue, OfOneUe(g, ue), NEW at, NEW n \in Nat, PoolOrder(at, n, g),
         NEW w, DOMAIN w = 1..n, \A p \in 1..n : w[p] = RowWindow(g, at[p])
  PROVE  /\ LaterCounts(g, ConfusionMatrix(w, Fires(w, "ml")), PerClassRecall(w, Fires(w, "ml")))
         /\ \A S : Cardinality(AtThreshold(w, S))
                     = Cardinality(RowsAtThreshold(g, S))
<1>1. HasUes(g) /\ \A i \in DOMAIN g : g[i].ue = ue /\ g[i].label \in Nat /\ g[i].score \in Nat
  BY DEF OfOneUe
<1>2. n \in Nat /\ DOMAIN w = 1..n /\ PoolOrder(at, n, g)
  OBVIOUS
<1>3. ASSUME NEW p \in 1..n
      PROVE  at[p] \in WindowRows(g) /\ w[p].score = g[at[p]].score /\ w[p].label = g[at[p]].label
  <2>1. at[p] \in WindowRows(g)
    BY <1>2 DEF PoolOrder
  <2>2. at[p] \in DOMAIN g
    BY <2>1 DEF WindowRows
  <2>3. PICK i \in DOMAIN g : i = at[p]
    BY <2>2
  <2>4. RowWindow(g, i).score = g[i].score /\ RowWindow(g, i).label = g[i].label
    BY <1>1, RowWindowIs
  <2> QED  BY <1>2, <2>1, <2>3, <2>4
<1>4. \A i \in WindowRows(g) : \E p \in 1..n : at[p] = i
  BY <1>2 DEF PoolOrder
<1>5. PICK fires : fires = Fires(w, "ml")
  OBVIOUS
<1>6. \A p \in 1..n : fires[p] = (w[p].score > Threshold)
  BY <1>2, <1>5 DEF Fires
<1>7. ASSUME NEW S, S \subseteq WindowRows(g)
      PROVE  Cardinality(PlacesIn(at, n, S)) = Cardinality(S)
  BY <1>7, CountPool
<1> DEFINE count(fired, attack) ==
             Cardinality({i \in DOMAIN w : fires[i] = fired /\ (w[i].label > 0) = attack})
<1>8. ASSUME NEW fired \in BOOLEAN, NEW attack \in BOOLEAN
      PROVE  count(fired, attack) = Cardinality(AboveRows(g, fired, attack))
  <2>1. PICK S : S = AboveRows(g, fired, attack)
    OBVIOUS
  <2>2. S \subseteq WindowRows(g)
    BY <2>1 DEF AboveRows
  <2>3. ASSUME NEW p \in 1..n
        PROVE  fires[p] = fired /\ (w[p].label > 0) = attack <=> at[p] \in S
    <3>1. PICK j \in WindowRows(g) : j = at[p]
      BY <1>3
    <3>2. w[p].score = g[j].score /\ w[p].label = g[j].label
      BY <1>3, <3>1
    <3>3. j \in S <=> ((g[j].score > Threshold) <=> fired) /\ ((g[j].label > 0) <=> attack)
      BY <2>1 DEF AboveRows
    <3> QED  BY <1>6, <3>1, <3>2, <3>3
  <2>4. {i \in DOMAIN w : fires[i] = fired /\ (w[i].label > 0) = attack} = PlacesIn(at, n, S)
    BY <1>2, <2>3 DEF PlacesIn
  <2> QED  BY <1>7, <2>1, <2>2, <2>4
<1>9. ConfusionMatrix(w, fires) =
        [tp |-> count(TRUE, TRUE), fp |-> count(TRUE, FALSE),
         tn |-> count(FALSE, FALSE), fn |-> count(FALSE, TRUE)]
  BY DEF ConfusionMatrix
<1> HIDE DEF count
<1>10. /\ count(TRUE, TRUE) = Cardinality(AboveRows(g, TRUE, TRUE))
       /\ count(TRUE, FALSE) = Cardinality(AboveRows(g, TRUE, FALSE))
       /\ count(FALSE, FALSE) = Cardinality(AboveRows(g, FALSE, FALSE))
       /\ count(FALSE, TRUE) = Cardinality(AboveRows(g, FALSE, TRUE))
  BY <1>8
<1>11. ASSUME NEW l \in DOMAIN PerClassRecall(w, fires)
       PROVE  /\ PerClassRecall(w, fires)[l] =
                   <<Cardinality(AboveOf(g, l)),
                     Cardinality(LabelRows(g, l))>>
              /\ \E i \in LabelRows(g, l) : TRUE
  <2>1. PICK S : S = LabelRows(g, l)
    OBVIOUS
  <2>2. PICK H : H = {i \in S : g[i].score > Threshold} /\ H = AboveOf(g, l)
    BY <2>1 DEF AboveOf
  <2>3. S \subseteq WindowRows(g) /\ H \subseteq WindowRows(g)
    BY <2>1, <2>2 DEF LabelRows
  <2>4. PICK class : class = {i \in DOMAIN w : w[i].label = l}
    OBVIOUS
  <2>5. PerClassRecall(w, fires)[l] = <<Cardinality({i \in class : fires[i]}), Cardinality(class)>>
    BY <2>4 DEF PerClassRecall
  <2>6. class = PlacesIn(at, n, S)
    BY <1>2, <1>3, <2>1, <2>4 DEF LabelRows, PlacesIn
  <2>7. {i \in class : fires[i]} = PlacesIn(at, n, H)
    <3>1. \A p \in 1..n : at[p] \in S /\ fires[p] <=> at[p] \in H
      BY <1>3, <1>6, <2>2
    <3>2. \A p : p \in class <=> p \in 1..n /\ at[p] \in S
      BY <2>6 DEF PlacesIn
    <3> QED  BY <3>1, <3>2 DEF PlacesIn
  <2>8. Cardinality(class) = Cardinality(S) /\ Cardinality({i \in class : fires[i]}) = Cardinality(H)
    BY <1>7, <2>3, <2>6, <2>7
  <2>9. \E p \in DOMAIN w : w[p].label = l
    BY DEF PerClassRecall
  <2>10. \E i \in S : TRUE
    BY <1>2, <1>3, <2>1, <2>9 DEF LabelRows
  <2> QED  BY <2>1, <2>2, <2>5, <2>8, <2>10
<1>12. ASSUME NEW S
       PROVE  Cardinality(AtThreshold(w, S))
                = Cardinality(RowsAtThreshold(g, S))
  <2>1. PICK E : E = RowsAtThreshold(g, S)
    OBVIOUS
  <2>2. AtThreshold(w, S) = PlacesIn(at, n, E)
    BY <1>2, <1>3, <2>1 DEF PlacesIn, AtThreshold, RowsAtThreshold
  <2>3. E \subseteq WindowRows(g)
    BY <2>1 DEF RowsAtThreshold
  <2> QED  BY <1>7, <2>1, <2>2, <2>3
<1>13. PICK recall : recall = PerClassRecall(w, fires)
  OBVIOUS
<1>14. LaterCounts(g, ConfusionMatrix(w, fires), recall)
  BY <1>9, <1>10, <1>11, <1>13 DEF LaterCounts
<1> QED  BY <1>5, <1>12, <1>13, <1>14

\* A class counts as often at a score of the threshold as from it on, less as above it.
LEMMA FromThreshold ==
  ASSUME NEW g, NEW S, IsFiniteSet(S), NEW H, NEW A, NEW E,
         \A i \in S : g[i].score \in Nat,
         H = {i \in S : g[i].score >= Threshold}, A = {i \in S : g[i].score > Threshold},
         E = {i \in S : g[i].score = Threshold}
  PROVE  Cardinality(H) = Cardinality(A) + Cardinality(E)
<1>1. Threshold \in Nat
  BY EvalConstants
<1>2. H \cap A = A /\ H \ A = E
  BY <1>1
<1>3. IsFiniteSet(H)
  BY FS_Subset
<1>4. Cardinality(H) = Cardinality(H \cap A) + Cardinality(H \ A)
  BY <1>3, CountParts
<1> QED  BY <1>2, <1>4

LEMMA BenignAlone ==
  ASSUME NEW g, NEW ue, OfOneUe(g, ue)
  PROVE  BenignValidation(RowsAt(g, {i \in DOMAIN g : g[i].label = 0}), 0).tp = 0
<1>1. PICK P : P = {i \in DOMAIN g : g[i].label = 0}
  OBVIOUS
<1>2. PICK b : b = RowsAt(g, P)
  OBVIOUS
<1>3. PICK T : g \in Seq(T)
  BY DEF OfOneUe, HasUes
<1>4. /\ b \in Seq(T) /\ DOMAIN b = 1..Cardinality(P) /\ Len(b) = Cardinality(P)
      /\ \A k \in 1..Cardinality(P) : b[k] = g[Ascending(P)[k]] /\ Ascending(P)[k] \in P
  BY <1>1, <1>2, <1>3, RowsAtIs
<1>5. \A k \in 1..Len(b) : b[k].label = 0 /\ b[k].ue \in Nat
  BY <1>1, <1>4 DEF OfOneUe, HasUes
<1>6. HasUes(b)
  BY <1>4, <1>5 DEF HasUes
<1>7. PICK scores, labels : scores = UnsplitScores(b, 0) /\ labels = AlignLabels(b)
  OBVIOUS
<1>8. /\ DOMAIN scores = 1..BlockLen(b)
      /\ \A i \in 1..BlockLen(b) : i + W - 1 \in 1..Len(b) /\ labels[i] = b[i + W - 1].label
  BY <1>6, <1>7, UnsplitAre
<1>9. \A i \in DOMAIN scores : labels[i] = 0
  BY <1>5, <1>8
<1>10. {i \in DOMAIN scores : (scores[i] >= Threshold) = TRUE /\ (labels[i] > 0) = TRUE} = {}
  BY <1>9
<1>11. ComputeMetrics(scores, labels).tp = 0
  BY <1>10, FS_EmptySet DEF ComputeMetrics
<1> QED  BY <1>1, <1>2, <1>7, <1>11 DEF BenignValidation

\* What UnsplitAgrees says of the rows of one UE.
AgreesOn(rows, first, w, later) ==
  /\ first.metrics.tp + first.metrics.fn = later.cm.tp + later.cm.fn
  /\ first.metrics.fp
       = later.cm.fp + Cardinality({i \in DOMAIN w : w[i].score = Threshold /\ w[i].label \in {0}})
  /\ \A l \in DOMAIN later.perClass :
       first.per_label[l]
         = <<later.perClass[l][1]
               + Cardinality({i \in DOMAIN w : w[i].score = Threshold /\ w[i].label \in {l}}),
             later.perClass[l][2]>>
  /\ BenignValidation(RowsAt(rows, {i \in DOMAIN rows : rows[i].label = 0}), 0).tp = 0

LEMMA InvUnsplitAgrees == CsvInv => UnsplitAgrees
<1> SUFFICES ASSUME CsvInv, NEW ue \in UeSet(csv)
             PROVE  LET rows == SplitByRnti(csv, ue)
                        first == AttackPartial(rows, 0)
                        w == Pool(rows)
                        later == Entry(w, Fires(w, "ml"))
                        atThreshold(S) == Cardinality({i \in DOMAIN w : w[i].score = Threshold /\ w[i].label \in S})
                    IN /\ first.metrics.tp + first.metrics.fn = later.cm.tp + later.cm.fn
                       /\ first.metrics.fp = later.cm.fp + atThreshold({0})
                       /\ \A l \in DOMAIN later.perClass :
                            first.per_label[l] = <<later.perClass[l][1] + atThreshold({l}), later.perClass[l][2]>>
                       /\ BenignValidation(RowsAt(rows, {i \in DOMAIN rows : rows[i].label = 0}), 0).tp = 0
  BY DEF UnsplitAgrees
<1>1. PICK g : g = SplitByRnti(csv, ue)
  OBVIOUS
<1>2. OfOneUe(g, ue)
  <2>1. PICK rows : rows = csv
    OBVIOUS
  <2>2. Stamped(rows)
    BY <2>1 DEF CsvInv
  <2> QED  BY <1>1, <2>1, <2>2, GroupOfOneUe
<1>3. HasUes(g) /\ \A i \in DOMAIN g : g[i].ue = ue /\ g[i].label \in Nat /\ g[i].score \in Nat
  BY <1>2 DEF OfOneUe
<1>4. PICK w : w = Pool(g)
  OBVIOUS
<1>5. PICK T : w \in Seq(T)
  BY <1>3, <1>4, PoolIs
<1>6. PICK at : PoolOrder(at, Len(w), g) /\ \A p \in 1..Len(w) : w[p] = RowWindow(g, at[p])
  BY <1>3, <1>4, PoolIs
<1>7. Len(w) \in Nat /\ DOMAIN w = 1..Len(w)
  BY <1>5, LenProperties
<1>8. PICK first : first = AttackPartial(g, 0)
  OBVIOUS
<1>9. PICK cm, recall : cm = ConfusionMatrix(w, Fires(w, "ml")) /\ recall = PerClassRecall(w, Fires(w, "ml"))
  OBVIOUS
<1>10. /\ first.metrics = ComputeMetrics(UnsplitScores(g, 0), AlignLabels(g))
       /\ first.per_label = PerLabelRecall(UnsplitScores(g, 0), AlignLabels(g))
  BY <1>8 DEF AttackPartial
<1>11. /\ first.metrics = [tp |-> Cardinality(AtLeastRows(g, TRUE, TRUE)),
                           fp |-> Cardinality(AtLeastRows(g, TRUE, FALSE)),
                           tn |-> Cardinality(AtLeastRows(g, FALSE, FALSE)),
                           fn |-> Cardinality(AtLeastRows(g, FALSE, TRUE))]
       /\ \A l : (\E i \in LabelRows(g, l) : TRUE) =>
            first.per_label[l] = <<Cardinality({i \in LabelRows(g, l) : g[i].score >= Threshold}),
                                   Cardinality(LabelRows(g, l))>>
  BY <1>2, <1>6, <1>7, <1>10, FirstMetrics
<1>12. /\ cm = [tp |-> Cardinality(AboveRows(g, TRUE, TRUE)),
                fp |-> Cardinality(AboveRows(g, TRUE, FALSE)),
                tn |-> Cardinality(AboveRows(g, FALSE, FALSE)),
                fn |-> Cardinality(AboveRows(g, FALSE, TRUE))]
       /\ \A l \in DOMAIN recall :
            /\ recall[l] = <<Cardinality(AboveOf(g, l)),
                             Cardinality(LabelRows(g, l))>>
            /\ \E i \in LabelRows(g, l) : TRUE
       /\ \A S : Cardinality(AtThreshold(w, S))
                   = Cardinality(RowsAtThreshold(g, S))
  <2>1. PICK n \in Nat : n = Len(w)
    BY <1>7
  <2>2. /\ PoolOrder(at, n, g) /\ DOMAIN w = 1..n /\ \A p \in 1..n : w[p] = RowWindow(g, at[p])
    BY <1>6, <1>7, <2>1
  <2>3. /\ LaterCounts(g, ConfusionMatrix(w, Fires(w, "ml")), PerClassRecall(w, Fires(w, "ml")))
        /\ \A S : Cardinality(AtThreshold(w, S)) = Cardinality(RowsAtThreshold(g, S))
    BY <1>2, <2>1, <2>2, LaterMetrics
  <2>4. LaterCounts(g, cm, recall)
    BY <1>9, <2>3
  <2> QED  BY <2>3, <2>4 DEF LaterCounts
<1>13. \A S : S \subseteq WindowRows(g) => IsFiniteSet(S)
  BY <1>2, <1>6, <1>7, CountBoth
<1>14. \A i \in WindowRows(g) : i \in DOMAIN g /\ g[i].label \in Nat /\ g[i].score \in Nat
  BY <1>3 DEF WindowRows
<1>15. Threshold \in Nat
  BY EvalConstants
<1>16. first.metrics.tp + first.metrics.fn = cm.tp + cm.fn
  <2>1. PICK attacks : attacks = {i \in WindowRows(g) : g[i].label > 0}
    OBVIOUS
  <2>2. IsFiniteSet(attacks)
    BY <1>13, <2>1
  <2>3. PICK H, A : H = AtLeastRows(g, TRUE, TRUE) /\ A = AboveRows(g, TRUE, TRUE)
    OBVIOUS
  <2>4. attacks \cap H = H /\ attacks \ H = AtLeastRows(g, FALSE, TRUE)
    BY <2>1, <2>3 DEF AtLeastRows
  <2>5. attacks \cap A = A /\ attacks \ A = AboveRows(g, FALSE, TRUE)
    BY <2>1, <2>3 DEF AboveRows
  <2>6. Cardinality(attacks) = Cardinality(H) + Cardinality(AtLeastRows(g, FALSE, TRUE))
    BY <2>2, <2>4, CountParts
  <2>7. Cardinality(attacks) = Cardinality(A) + Cardinality(AboveRows(g, FALSE, TRUE))
    BY <2>2, <2>5, CountParts
  <2>8. PICK tp1, fn1 : tp1 = Cardinality(H) /\ fn1 = Cardinality(AtLeastRows(g, FALSE, TRUE))
    OBVIOUS
  <2>9. PICK tp2, fn2 : tp2 = Cardinality(A) /\ fn2 = Cardinality(AboveRows(g, FALSE, TRUE))
    OBVIOUS
  <2>10. first.metrics.tp = tp1 /\ first.metrics.fn = fn1
    BY <1>11, <2>3, <2>8
  <2>11. cm.tp = tp2 /\ cm.fn = fn2
    BY <1>12, <2>3, <2>9
  <2> QED  BY <2>6, <2>7, <2>8, <2>9, <2>10, <2>11
<1>17. first.metrics.fp = cm.fp + Cardinality(AtThreshold(w, {0}))
  <2>1. PICK S : S = {i \in WindowRows(g) : g[i].label = 0}
    OBVIOUS
  <2>2. IsFiniteSet(S)
    BY <1>13, <2>1
  <2>3. PICK H, A, E : /\ H = {i \in S : g[i].score >= Threshold} /\ A = {i \in S : g[i].score > Threshold}
                       /\ E = {i \in S : g[i].score = Threshold}
    OBVIOUS
  <2>4. Cardinality(H) = Cardinality(A) + Cardinality(E)
    BY <1>14, <2>1, <2>2, <2>3, FromThreshold
  <2>5. H = AtLeastRows(g, TRUE, FALSE) /\ A = AboveRows(g, TRUE, FALSE)
    BY <1>14, <2>1, <2>3 DEF AtLeastRows, AboveRows
  <2>6. E = RowsAtThreshold(g, {0})
    BY <2>1, <2>3 DEF RowsAtThreshold
  <2>7. first.metrics.fp = Cardinality(H)
    BY <1>11, <2>5
  <2>8. cm.fp = Cardinality(A)
    BY <1>12, <2>5
  <2>9. Cardinality(AtThreshold(w, {0})) = Cardinality(E)
    BY <1>12, <2>6
  <2> QED  BY <2>4, <2>7, <2>8, <2>9
<1>18. ASSUME NEW l \in DOMAIN recall
       PROVE  first.per_label[l] =
                <<recall[l][1] + Cardinality(AtThreshold(w, {l})), recall[l][2]>>
  <2>1. PICK S : S = LabelRows(g, l)
    OBVIOUS
  <2>2. S \subseteq WindowRows(g) /\ IsFiniteSet(S)
    BY <1>13, <2>1 DEF LabelRows
  <2>3. PICK H, A, E : /\ H = {i \in S : g[i].score >= Threshold} /\ A = {i \in S : g[i].score > Threshold}
                       /\ E = {i \in S : g[i].score = Threshold}
    OBVIOUS
  <2>4. Cardinality(H) = Cardinality(A) + Cardinality(E)
    BY <1>14, <2>2, <2>3, FromThreshold
  <2>5. E = RowsAtThreshold(g, {l})
    BY <2>1, <2>3 DEF LabelRows, RowsAtThreshold
  <2>6. recall[l] = <<Cardinality(A), Cardinality(S)>>
    BY <1>12, <2>1, <2>3 DEF AboveOf
  <2>7. first.per_label[l] = <<Cardinality(H), Cardinality(S)>>
    BY <1>11, <1>12, <2>1, <2>3
  <2>8. Cardinality(AtThreshold(w, {l})) = Cardinality(E)
    BY <1>12, <2>5
  <2> QED  BY <2>4, <2>6, <2>7, <2>8
<1>19. BenignValidation(RowsAt(g, {i \in DOMAIN g : g[i].label = 0}), 0).tp = 0
  BY <1>2, BenignAlone
<1>20. Entry(w, Fires(w, "ml")).cm = cm /\ Entry(w, Fires(w, "ml")).perClass = recall
  BY <1>9 DEF Entry
<1>21. \A S : AtThreshold(w, S) = {i \in DOMAIN w : w[i].score = Threshold /\ w[i].label \in S}
  BY DEF AtThreshold
<1>22. PICK later : later = Entry(w, Fires(w, "ml"))
  OBVIOUS
<1>23. first.metrics.tp + first.metrics.fn = later.cm.tp + later.cm.fn
  BY <1>16, <1>20, <1>22, Zenon
<1>24. first.metrics.fp
         = later.cm.fp + Cardinality({i \in DOMAIN w : w[i].score = Threshold /\ w[i].label \in {0}})
  BY <1>17, <1>20, <1>21, <1>22, Zenon
<1>25. \A l \in DOMAIN later.perClass :
         first.per_label[l]
           = <<later.perClass[l][1]
                 + Cardinality({i \in DOMAIN w : w[i].score = Threshold /\ w[i].label \in {l}}),
               later.perClass[l][2]>>
  BY <1>18, <1>20, <1>21, <1>22, Zenon
<1>26. AgreesOn(g, first, w, later)
  BY <1>19, <1>23, <1>24, <1>25, Zenon DEF AgreesOn
<1>27. LET rows == SplitByRnti(csv, ue)
       IN AgreesOn(rows, AttackPartial(rows, 0), Pool(rows), Entry(Pool(rows), Fires(Pool(rows), "ml")))
  BY <1>1, <1>4, <1>8, <1>22, <1>26, Zenon
<1> QED  BY <1>27, Zenon DEF AgreesOn

(* The account of false alarms (FalseAlarms): the benign windows are those  *)
(* of the pool in their order, closed up.                                   *)

BenignPlaces(w) == {i \in DOMAIN w : w[i].label = 0}
AreWindows(w) ==
  /\ \E T : w \in Seq(T)
  /\ \A p \in DOMAIN w : /\ w[p].label \in Nat /\ w[p].score \in Nat /\ w[p].rule \in BOOLEAN
                         /\ w[p].ue \in Nat /\ w[p].ts \in Nat

LEMMA PoolAreWindows ==
  ASSUME NEW rows, Stamped(rows)
  PROVE  AreWindows(Pool(rows))
<1>1. PICK w : w = Pool(rows)
  OBVIOUS
<1>2. DOMAIN w = 1..Len(w) /\ HasUes(rows) /\ \E T : w \in Seq(T)
  BY <1>1, PoolStamped, StampedHasUes
<1>3. ASSUME NEW p \in DOMAIN w
      PROVE  /\ w[p].label \in Nat /\ w[p].score \in Nat /\ w[p].rule \in BOOLEAN
             /\ w[p].ue \in Nat /\ w[p].ts \in Nat
  <2>1. /\ w[p].label \in Nat /\ w[p].score \in Nat /\ w[p].ue \in Nat
        /\ w[p] = RowWindow(rows, w[p].ts) /\ w[p].ts \in DOMAIN rows
    BY <1>1, <1>2, PoolStamped
  <2>2. w[p].ts \in Nat
    BY <2>1, StampedHasUes
  <2>3. PICK i \in DOMAIN rows : i = w[p].ts
    BY <2>1
  <2>4. RowWindow(rows, i).rule = RuleFires(SplitByRnti(rows, rows[i].ue), Nth(rows, i))
    BY <1>2, RowWindowIs
  <2>5. RuleFires(SplitByRnti(rows, rows[i].ue), Nth(rows, i)) \in BOOLEAN
    BY DEF RuleFires
  <2> QED  BY <2>1, <2>2, <2>3, <2>4, <2>5
<1> QED  BY <1>1, <1>2, <1>3 DEF AreWindows

LEMMA BenignIs ==
  ASSUME NEW w, AreWindows(w), NEW P, P = BenignPlaces(w), NEW b, b = Benign(w),
         NEW place, place = Ascending(P)
  PROVE  /\ IsFiniteSet(P) /\ Cardinality(P) \in Nat /\ P \subseteq DOMAIN w /\ P \subseteq Int
         /\ Len(b) = Cardinality(P) /\ DOMAIN b = 1..Cardinality(P) /\ AreWindows(b)
         /\ \A k \in 1..Cardinality(P) : b[k] = w[place[k]] /\ place[k] \in P
         /\ \A i \in P : PlaceIn(P, i) \in 1..Cardinality(P) /\ place[PlaceIn(P, i)] = i
         /\ \A k, l \in 1..Cardinality(P) : k < l <=> place[k] < place[l]
<1>1. PICK T : w \in Seq(T)
  BY DEF AreWindows
<1>2. P \subseteq DOMAIN w /\ b = RowsAt(w, P)
  BY DEF Benign, BenignPlaces
<1>3. /\ P \subseteq Int /\ IsFiniteSet(P) /\ Cardinality(P) \in Nat
      /\ b \in Seq(T) /\ Len(b) = Cardinality(P) /\ DOMAIN b = 1..Cardinality(P)
      /\ \A k \in 1..Cardinality(P) : b[k] = w[place[k]] /\ place[k] \in P
  BY <1>1, <1>2, RowsAtIs
<1>4. /\ \A i \in P : PlaceIn(P, i) \in 1..Cardinality(P) /\ place[PlaceIn(P, i)] = i
      /\ \A k, l \in 1..Cardinality(P) : k < l <=> place[k] < place[l]
  BY <1>3, AscendingIs
<1>5. AreWindows(b)
  BY <1>2, <1>3 DEF AreWindows
<1> QED  BY <1>2, <1>3, <1>4, <1>5

\* Benign windows are counted alike among themselves and among all.
FiredOf(w, fires, S) == {i \in S : fires[i]}

LEMMA BenignCounted ==
  ASSUME NEW w, AreWindows(w), NEW thr
  PROVE  Cardinality(FiredOf(Benign(w), HybridAt(Benign(w), thr), DOMAIN Benign(w)))
           = Cardinality(FiredOf(w, HybridAt(w, thr), BenignPlaces(w)))
<1>1. PICK P, b : P = BenignPlaces(w) /\ b = Benign(w)
  OBVIOUS
<1>2. PICK place : place = Ascending(P)
  OBVIOUS
<1>3. /\ IsFiniteSet(P) /\ Cardinality(P) \in Nat /\ P \subseteq DOMAIN w
      /\ DOMAIN b = 1..Cardinality(P)
      /\ \A k \in 1..Cardinality(P) : b[k] = w[place[k]] /\ place[k] \in P
      /\ \A i \in P : PlaceIn(P, i) \in 1..Cardinality(P) /\ place[PlaceIn(P, i)] = i
      /\ \A k, l \in 1..Cardinality(P) : k < l <=> place[k] < place[l]
  BY <1>1, <1>2, BenignIs
<1>4. PICK A, B : A = FiredOf(b, HybridAt(b, thr), DOMAIN b) /\ B = FiredOf(w, HybridAt(w, thr), P)
  OBVIOUS
<1>5. \A k : k \in A <=> k \in DOMAIN b /\ (b[k].rule \/ Exceeds(b[k].score, thr))
  BY <1>4 DEF FiredOf, HybridAt
<1>6. \A i : i \in B <=> i \in P /\ (w[i].rule \/ Exceeds(w[i].score, thr))
  BY <1>3, <1>4 DEF FiredOf, HybridAt
<1> DEFINE f == [k \in A |-> place[k]]
<1>7. f \in [A -> B]
  BY <1>3, <1>5, <1>6
<1>8. \A x, y \in A : f[x] = f[y] => x = y
  <2>1. \A x \in A : x \in 1..Cardinality(P)
    BY <1>3, <1>5
  <2>2. \A x, y \in 1..Cardinality(P) : place[x] = place[y] => ~(place[x] < place[y]) /\ ~(place[y] < place[x])
    <3> SUFFICES ASSUME NEW x \in 1..Cardinality(P), NEW y \in 1..Cardinality(P), place[x] = place[y]
                 PROVE  ~(place[x] < place[y]) /\ ~(place[y] < place[x])
      OBVIOUS
    <3>1. P \subseteq Int
      BY <1>1, <1>2, BenignIs
    <3>2. PICK i \in Int : i = place[x] /\ i = place[y]
      BY <1>3, <3>1
    <3> QED  BY <3>2
  <2> QED  BY <1>3, <2>1, <2>2
<1>9. \A t \in B : \E x \in A : f[x] = t
  <2> SUFFICES ASSUME NEW t \in B PROVE \E x \in A : f[x] = t
    OBVIOUS
  <2>1. PICK k \in 1..Cardinality(P) : place[k] = t
    BY <1>3, <1>6
  <2>2. k \in A
    BY <1>3, <1>5, <1>6, <2>1
  <2> QED  BY <2>1, <2>2
<1>10. IsFiniteSet(B)
  <2>1. B \subseteq P
    BY <1>6
  <2> QED  BY <1>3, <2>1, FS_Subset
<1> HIDE DEF f
<1>11. Cardinality(A) = Cardinality(B)
  BY <1>7, <1>8, <1>9, <1>10, SameSize
<1> QED  BY <1>1, <1>4, <1>11

LEMMA TalliesOf ==
  ASSUME NEW w, AreWindows(w), NEW thr, NEW fires, fires = HybridAt(w, thr),
         NEW c, c = Confusion(w, fires), NEW P, P = BenignPlaces(w)
  PROVE  /\ c = ConfusionMatrix(w, fires)
         /\ c.fp = Cardinality(FiredOf(w, fires, P)) /\ c.fp + c.tn = Cardinality(P)
<1>1. PICK T : w \in Seq(T)
  BY DEF AreWindows
<1>2. IsFiniteSet(DOMAIN w)
  <2>1. DOMAIN w = 1..Len(w) /\ Len(w) \in Nat
    BY <1>1, LenProperties
  <2> QED  BY <2>1, FS_Interval
<1>3. PICK Q : Q = {i \in DOMAIN w : w[i].label > 0}
  OBVIOUS
<1>4. P = {i \in DOMAIN w : w[i].label = 0}
  BY DEF BenignPlaces
<1>5. IsFiniteSet(P) /\ IsFiniteSet(Q)
  BY <1>2, <1>3, <1>4, FS_Subset
<1>6. PICK A, B : A = {i \in Q : fires[i]} /\ B = {i \in P : fires[i]}
  OBVIOUS
<1>7. \A i \in DOMAIN w : fires[i] \in BOOLEAN /\ w[i].label \in Nat
  BY DEF HybridAt, AreWindows
<1>8. /\ A = {i \in DOMAIN w : fires[i] = TRUE /\ (w[i].label > 0) = TRUE}
      /\ Q \ A = {i \in DOMAIN w : fires[i] = FALSE /\ (w[i].label > 0) = TRUE}
      /\ B = {i \in DOMAIN w : fires[i] = TRUE /\ (w[i].label > 0) = FALSE}
      /\ P \ B = {i \in DOMAIN w : fires[i] = FALSE /\ (w[i].label > 0) = FALSE}
  BY <1>3, <1>4, <1>6, <1>7
<1>9. /\ Cardinality(Q) = Cardinality(Q \cap A) + Cardinality(Q \ A)
      /\ Cardinality(Q \cap A) \in Nat /\ Cardinality(Q \ A) \in Nat
  BY <1>5, CountParts
<1>10. /\ Cardinality(P) = Cardinality(P \cap B) + Cardinality(P \ B)
       /\ Cardinality(P \cap B) \in Nat /\ Cardinality(P \ B) \in Nat
  BY <1>5, CountParts
<1>11. Q \cap A = A /\ P \cap B = B
  BY <1>6
<1>12. c = [tp |-> Cardinality(A), fn |-> Cardinality(Q) - Cardinality(A),
            fp |-> Cardinality(B), tn |-> Cardinality(P) - Cardinality(B)]
  BY <1>3, <1>4, <1>6 DEF Confusion
<1>13. PICK a \in Nat, b \in Nat, d \in Nat, e \in Nat :
         a = Cardinality(A) /\ b = Cardinality(B) /\ d = Cardinality(Q \ A) /\ e = Cardinality(P \ B)
  BY <1>9, <1>10, <1>11
<1>14. Cardinality(Q) - Cardinality(A) = d /\ Cardinality(P) - Cardinality(B) = e
       /\ b + e = Cardinality(P)
  <2>1. PICK q, p : q = Cardinality(Q) /\ p = Cardinality(P)
    OBVIOUS
  <2>2. q = a + d /\ p = b + e
    BY <1>9, <1>10, <1>11, <1>13, <2>1
  <2>3. q - a = d /\ p - b = e
    BY <2>2
  <2> QED  BY <1>13, <2>1, <2>2, <2>3
<1>15. c = [tp |-> a, fn |-> d, fp |-> b, tn |-> e]
  BY <1>12, <1>13, <1>14
<1>16. ConfusionMatrix(w, fires) = [tp |-> a, fp |-> b, tn |-> e, fn |-> d]
  BY <1>8, <1>13 DEF ConfusionMatrix
<1>17. Cardinality(FiredOf(w, fires, P)) = b
  BY <1>6, <1>13 DEF FiredOf
<1> QED  BY <1>14, <1>15, <1>16, <1>17

LEMMA InvTallies == CsvInv => TalliesAgree
<1> SUFFICES ASSUME CsvInv PROVE TalliesAgree
  OBVIOUS
<1>1. PICK w : w = Pool(csv)
  OBVIOUS
<1>2. AreWindows(w)
  <2>1. PICK rows : rows = csv
    OBVIOUS
  <2>2. Stamped(rows)
    BY <2>1 DEF CsvInv
  <2> QED  BY <1>1, <2>1, <2>2, PoolAreWindows
<1>3. PICK b : b = Benign(w)
  OBVIOUS
<1>4. PICK thr : thr = ThresholdOn(b)
  OBVIOUS
<1>5. PICK fires, P : fires = HybridAt(w, thr) /\ P = BenignPlaces(w)
  OBVIOUS
<1>6. PICK c : c = Confusion(w, fires)
  OBVIOUS
<1>7. /\ c = ConfusionMatrix(w, fires)
      /\ c.fp = Cardinality(FiredOf(w, fires, P)) /\ c.fp + c.tn = Cardinality(P)
  BY <1>2, <1>5, <1>6, TalliesOf
<1>8. Evaluated.confusion = c /\ Evaluated.fpr = FprReport(b, HybridAt(b, thr))
  BY <1>1, <1>3, <1>4, <1>5, <1>6 DEF Evaluated, EvaluateAtTarget
<1>9. FprReport(b, HybridAt(b, thr)).total = Len(b)
  BY DEF FprReport
<1>10. Len(b) = Cardinality(P)
  <2>1. PICK place : place = Ascending(P)
    OBVIOUS
  <2> QED  BY <1>2, <1>3, <1>5, <2>1, BenignIs
<1>11. FprReport(b, HybridAt(b, thr)).fired = Cardinality(FiredOf(b, HybridAt(b, thr), DOMAIN b))
  BY DEF FprReport, FiredOf
<1>12. Cardinality(FiredOf(b, HybridAt(b, thr), DOMAIN b)) = Cardinality(FiredOf(w, fires, P))
  BY <1>2, <1>3, <1>5, BenignCounted
<1> QED  BY <1>1, <1>3, <1>4, <1>5, <1>7, <1>8, <1>9, <1>10, <1>11, <1>12 DEF TalliesAgree

(* Each window is counted, once, by every counting of them: what the        *)
(* dashboard, the first evaluation, the second one and the account of false *)
(* alarms (testing_app.py, evaluate_ue_models.py, evaluate_per_ue_v2.py,    *)
(* eval_opsi_b.py) say of a file agrees as far as it should.                *)
THEOREM CountsHold ==
  ASSUME W > 1
  PROVE  EvalSpec => [](DashboardAgrees /\ UnsplitAgrees /\ UnsplitCounts /\ TalliesAgree /\ MixedOfScored)
<1>1. CsvInv => DashboardAgrees /\ UnsplitAgrees /\ UnsplitCounts /\ TalliesAgree /\ MixedOfScored
  BY InvDashboard, InvUnsplitAgrees, InvUnsplitCounts, InvTallies, InvMixed
<1> QED  BY <1>1, CsvInvHolds, PTL

LEMMA InvBenign ==
  ASSUME CsvInv, NEW w, w = Pool(csv), NEW b, b = Benign(w)
  PROVE  AreWindows(w) /\ AreWindows(b)
<1>1. AreWindows(w)
  <2>1. PICK rows : rows = csv
    OBVIOUS
  <2>2. Stamped(rows)
    BY <2>1 DEF CsvInv
  <2> QED  BY <2>1, <2>2, PoolAreWindows
<1>2. PICK P, place : P = BenignPlaces(w) /\ place = Ascending(P)
  OBVIOUS
<1> QED  BY <1>1, <1>2, BenignIs

\* The calibration set as Calibration has it.
CalibrationSet(b) == [i \in DOMAIN b |-> [rule |-> b[i].rule, score |-> b[i].score]]
FiredAt(b, thr) == {i \in DOMAIN b : HybridAt(b, thr)[i]}

LEMMA CalibrationSetIs ==
  ASSUME NEW b, AreWindows(b), NEW cal, cal = CalibrationSet(b)
  PROVE  /\ cal \in BenignWindows(1..Len(b)) /\ IsFiniteSet(1..Len(b)) /\ Len(b) \in Nat
         /\ Cardinality(1..Len(b)) = Len(b) /\ DOMAIN b = 1..Len(b)
         /\ \A thr : HybridFires(cal, thr) = FiredAt(b, thr)
         /\ \A thr : Within(cal, thr, TargetFpr)
                       <=> 1000 * Cardinality(FiredAt(b, thr)) <= TargetFpr * Len(b)
         /\ ThresholdOn(b) = CalibrateHybrid(cal, TargetFpr)
         /\ Scores(cal) = {x.score : x \in ToSet(b)}
<1>1. PICK T : b \in Seq(T)
  BY DEF AreWindows
<1>2. DOMAIN b = 1..Len(b) /\ Len(b) \in Nat
  BY <1>1, LenProperties
<1>3. \A i \in DOMAIN b : b[i].rule \in BOOLEAN /\ b[i].score \in Nat
  BY DEF AreWindows
<1>4. cal \in BenignWindows(1..Len(b))
  BY <1>2, <1>3 DEF CalibrationSet, BenignWindows
<1>5. IsFiniteSet(1..Len(b)) /\ Cardinality(1..Len(b)) = Len(b)
  <2>1. PICK n \in Nat : n = Len(b)
    BY <1>2
  <2>2. IsFiniteSet(1..n) /\ Cardinality(1..n) = IF 1 > n THEN 0 ELSE n - 1 + 1
    BY FS_Interval
  <2> QED  BY <2>1, <2>2, SMTT(30)
<1>6. ASSUME NEW thr PROVE HybridFires(cal, thr) = FiredAt(b, thr)
  BY DEF HybridFires, FiredAt, HybridAt, CalibrationSet
<1>7. DOMAIN cal = 1..Len(b)
  BY <1>2 DEF CalibrationSet
<1>8. ThresholdOn(b) = CalibrateHybrid(cal, TargetFpr)
  BY DEF ThresholdOn, CalibrationSet
<1>9. Scores(cal) = {x.score : x \in ToSet(b)}
  BY DEF Scores, CalibrationSet, ToSet
<1> QED  BY <1>2, <1>4, <1>5, <1>6, <1>7, <1>8, <1>9 DEF Within

LEMMA InvCalibrated == CsvInv => CalibratedLowest
<1> SUFFICES ASSUME CsvInv PROVE CalibratedLowest
  OBVIOUS
<1>1. PICK w : w = Pool(csv)
  OBVIOUS
<1>2. PICK b : b = Benign(w)
  OBVIOUS
<1>3. AreWindows(b)
  BY <1>1, <1>2, InvBenign
<1>4. PICK cal : cal = CalibrationSet(b)
  OBVIOUS
<1>5. PICK I : I = 1..Len(b)
  OBVIOUS
<1>6. /\ cal \in BenignWindows(I) /\ IsFiniteSet(I) /\ Len(b) \in Nat
      /\ DOMAIN b = 1..Len(b)
      /\ \A t : Within(cal, t, TargetFpr) <=> 1000 * Cardinality(FiredAt(b, t)) <= TargetFpr * Len(b)
      /\ ThresholdOn(b) = CalibrateHybrid(cal, TargetFpr)
      /\ Scores(cal) = {x.score : x \in ToSet(b)}
  BY <1>3, <1>4, <1>5, CalibrationSetIs
<1>7. PICK thr : thr = CalibrateHybrid(cal, TargetFpr)
  OBVIOUS
<1>8. TargetFpr \in Nat /\ TargetFpr < 1000
  BY FalseAlarmsAssumption
<1> DEFINE keeps(t) == 1000 * Cardinality(FiredAt(b, t)) <= TargetFpr * Len(b)
<1> SUFFICES ASSUME b # <<>>, Within(cal, Inf, TargetFpr)
             PROVE  /\ Within(cal, thr, TargetFpr)
                    /\ \A t \in Scores(cal) : Within(cal, t, TargetFpr) => thr # Inf /\ thr <= t
  <2>1. (b # <<>> /\ keeps(Inf) =>
           /\ keeps(ThresholdOn(b))
           /\ \A t \in {x.score : x \in ToSet(b)} : keeps(t) => ThresholdOn(b) # Inf /\ ThresholdOn(b) <= t)
         => CalibratedLowest
    BY <1>1, <1>2 DEF CalibratedLowest, FiredAt
  <2>2. \A t : keeps(t) <=> Within(cal, t, TargetFpr)
    BY <1>6
  <2>3. ThresholdOn(b) = thr /\ {x.score : x \in ToSet(b)} = Scores(cal)
    BY <1>6, <1>7
  <2> HIDE DEF keeps
  <2> QED  BY <2>1, <2>2, <2>3
<1>9. Within(cal, thr, TargetFpr)
  BY <1>6, <1>7, <1>8, CalibrationWithin
<1>10. I # {}
  <2>1. PICK T : b \in Seq(T)
    BY <1>3 DEF AreWindows
  <2>2. Len(b) # 0
    BY <2>1, EmptySeq
  <2> QED  BY <1>5, <1>6, <2>2
<1>11. \A t \in Scores(cal) : t \in Nat
  BY <1>6 DEF Scores, BenignWindows
<1>12. ASSUME NEW t \in Scores(cal), Within(cal, t, TargetFpr) PROVE thr # Inf /\ thr <= t
  <2>1. t \in Nat /\ t + 1 \in Nat /\ Exceeds(t + 1, t)
    BY <1>11 DEF Exceeds, Inf
  <2>2. PICK score \in Nat : score = t + 1
    BY <2>1
  <2>3. Exceeds(score, CalibrateHybrid(cal, TargetFpr))
    BY <1>6, <1>8, <1>10, <1>12, <2>1, <2>2, CalibrationBest
  <2>4. thr = Inf \/ thr \in Nat
    <3>1. Accepted(cal, TargetFpr) \subseteq Nat
      BY <1>11 DEF Accepted
    <3>2. Accepted(cal, TargetFpr) # {} => Least(Accepted(cal, TargetFpr)) \in Accepted(cal, TargetFpr)
      BY <3>1, LeastExists
    <3> QED  BY <1>7, <3>1, <3>2 DEF CalibrateHybrid
  <2>5. thr # Inf /\ score > thr
    BY <1>7, <2>3 DEF Exceeds
  <2> QED  BY <2>1, <2>2, <2>4, <2>5
<1> QED  BY <1>9, <1>12

-----------------------------------------------------------------------------
(* Episodes of the closed-up benign windows and of all.                     *)

LEMMA EpisodesOf ==
  ASSUME NEW w, AreWindows(w), NEW thr, NEW b, b = Benign(w),
         NEW false, false = [i \in DOMAIN w |-> w[i].label = 0 /\ HybridAt(w, thr)[i]],
         NEW gaps, gaps = {i \in DOMAIN w : i > 1 /\ w[i].label = 0 /\ w[i - 1].label > 0}
  PROVE  /\ CountEpisodes(b, HybridAt(b, thr)) <= CountEpisodes(w, false)
         /\ CountEpisodes(w, false) <= CountEpisodes(b, HybridAt(b, thr)) + Cardinality(gaps)
<1>1. PICK P : P = BenignPlaces(w)
  OBVIOUS
<1>2. PICK place : place = Ascending(P)
  OBVIOUS
<1>3. PICK n \in Nat : n = Cardinality(P)
  BY <1>1, <1>2, BenignIs
<1>4. /\ IsFiniteSet(P) /\ P \subseteq DOMAIN w /\ P \subseteq Int
      /\ DOMAIN b = 1..n
      /\ \A k \in 1..n : b[k] = w[place[k]] /\ place[k] \in P
      /\ \A i \in P : PlaceIn(P, i) \in 1..n /\ place[PlaceIn(P, i)] = i
      /\ \A k, l \in 1..n : k < l <=> place[k] < place[l]
  BY <1>1, <1>2, <1>3, BenignIs
<1>5. PICK T : w \in Seq(T)
  BY DEF AreWindows
<1>6. PICK len \in Nat : len = Len(w) /\ DOMAIN w = 1..len
  BY <1>5, LenProperties
<1>7. \A i : i \in P <=> i \in 1..len /\ w[i].label = 0
  BY <1>1, <1>6 DEF BenignPlaces
<1>8. \A i \in 1..len : w[i].label \in Nat
  BY <1>6 DEF AreWindows
<1>9. PICK fb, fw : fb = HybridAt(b, thr) /\ fw = HybridAt(w, thr)
  OBVIOUS
<1>10. \A k \in 1..n : fb[k] <=> fw[place[k]]
  BY <1>4, <1>6, <1>9 DEF HybridAt
<1>11. \A i \in 1..len : false[i] <=> w[i].label = 0 /\ fw[i]
  BY <1>6, <1>9
<1>12. PICK A, B : A = EpisodeStarts(b, fb) /\ B = EpisodeStarts(w, false)
  OBVIOUS
<1>13. \A k : k \in A <=> k \in 1..n /\ fb[k] /\ ~(k > 1 /\ fb[k - 1] /\ b[k - 1].ue = b[k].ue)
  BY <1>4, <1>12 DEF EpisodeStarts, SameRun
<1>14. \A i : i \in B <=> i \in 1..len /\ false[i] /\ ~(i > 1 /\ false[i - 1] /\ w[i - 1].ue = w[i].ue)
  BY <1>6, <1>12 DEF EpisodeStarts, SameRun
<1>15. \A i \in 1..len : i > 1 => i - 1 \in 1..len
  BY <1>6
<1>16. \A k \in 1..n : place[k] \in Int /\ place[k] \in 1..len
  BY <1>4, <1>7
<1>17. ASSUME NEW k \in A PROVE place[k] \in B
  <2>1. k \in 1..n /\ fb[k]
    BY <1>13
  <2>2. PICK i \in 1..len : i = place[k]
    BY <1>16, <2>1
  <2>3. w[i].label = 0 /\ fw[i] /\ w[i] = b[k]
    BY <1>4, <1>7, <1>10, <2>1, <2>2
  <2>4. ASSUME i > 1, false[i - 1], w[i - 1].ue = w[i].ue PROVE FALSE
    <3>1. PICK j \in 1..len : j = i - 1
      BY <1>15, <2>4
    <3>2. w[j].label = 0 /\ fw[j] /\ w[j].ue = w[i].ue
      BY <1>11, <2>4, <3>1
    <3>3. PICK l \in 1..n : place[l] = j
      BY <1>4, <1>7, <3>2
    <3>4. l < k
      BY <1>4, <2>1, <2>2, <3>1, <3>3
    <3>5. l = k - 1
      <4> SUFFICES ASSUME l # k - 1 PROVE FALSE
        OBVIOUS
      <4>1. PICK m \in 1..n : l < m /\ m < k
        <5>1. l + 1 \in 1..n /\ l < l + 1 /\ l + 1 < k
          BY <2>1, <3>3, <3>4
        <5> QED  BY <5>1
      <4>2. PICK pm \in Int : pm = place[m]
        BY <1>16
      <4>3. j < pm /\ pm < i
        BY <1>4, <2>1, <2>2, <3>3, <4>1, <4>2
      <4> QED  BY <3>1, <4>2, <4>3
    <3>6. k > 1 /\ fb[k - 1] /\ b[k - 1].ue = b[k].ue
      <4>1. fb[l] /\ b[l] = w[j]
        BY <1>4, <1>10, <3>2, <3>3
      <4> QED  BY <2>1, <2>3, <3>2, <3>3, <3>5, <4>1
    <3> QED  BY <1>13, <3>6
  <2> QED  BY <1>11, <1>14, <2>2, <2>3, <2>4
<1>18. ASSUME NEW i \in B, i \notin gaps PROVE \E k \in A : place[k] = i
  <2>1. i \in 1..len /\ w[i].label = 0 /\ fw[i]
    BY <1>11, <1>14
  <2>2. PICK k \in 1..n : place[k] = i
    BY <1>4, <1>7, <2>1
  <2>3. fb[k] /\ b[k] = w[i]
    BY <1>4, <1>10, <2>1, <2>2
  <2>4. ASSUME k > 1, fb[k - 1], b[k - 1].ue = b[k].ue PROVE FALSE
    <3>1. PICK l \in 1..n : l = k - 1
      BY <2>4
    <3>2. PICK j \in 1..len : j = place[l]
      BY <1>16
    <3>3. w[j].label = 0 /\ fw[j] /\ b[l] = w[j] /\ j < i
      BY <1>4, <1>7, <1>10, <2>2, <2>4, <3>1, <3>2
    <3>4. i > 1 /\ i - 1 \in 1..len
      BY <2>1, <3>2, <3>3
    <3>5. PICK h \in 1..len : h = i - 1
      BY <3>4
    <3>6. CASE w[h].label = 0
      <4>1. PICK m \in 1..n : place[m] = h
        BY <1>4, <1>7, <3>6
      <4>2. ~(l < m) \/ ~(m < k)
        BY <3>1
      <4>3. m < k
        BY <1>4, <2>1, <2>2, <3>5, <4>1
      <4>4. ~(m < l)
        <5> SUFFICES ASSUME m < l PROVE FALSE
          OBVIOUS
        <5>1. h < j
          BY <1>4, <3>2, <4>1
        <5> QED  BY <2>1, <3>2, <3>3, <3>5, <5>1
      <4>5. m = l
        BY <4>2, <4>3, <4>4
      <4>6. h = j
        BY <3>2, <4>1, <4>5
      <4>7. false[h] /\ w[h].ue = w[i].ue
        BY <1>11, <2>3, <2>4, <3>1, <3>3, <4>6
      <4> QED  BY <1>14, <3>4, <3>5, <4>7
    <3>7. CASE w[h].label # 0
      <4>1. w[h].label > 0
        BY <1>8, <3>7
      <4> QED  BY <1>6, <1>18, <2>1, <3>4, <3>5, <4>1
    <3> QED  BY <3>6, <3>7
  <2> QED  BY <1>13, <2>2, <2>3, <2>4
<1>19. IsFiniteSet(1..len) /\ IsFiniteSet(1..n)
  BY FS_Interval
<1>20. IsFiniteSet(A) /\ IsFiniteSet(B) /\ IsFiniteSet(gaps)
  <2>1. A \subseteq 1..n /\ B \subseteq 1..len /\ gaps \subseteq 1..len
    BY <1>6, <1>13, <1>14
  <2> QED  BY <1>19, <2>1, FS_Subset
<1>21. PICK C : C = {place[k] : k \in A}
  OBVIOUS
<1>22. IsFiniteSet(C) /\ Cardinality(C) = Cardinality(A) /\ C \subseteq B
  <2> DEFINE f == [k \in A |-> place[k]]
  <2>1. f \in [A -> C]
    BY <1>21
  <2>2. \A x, y \in A : f[x] = f[y] => x = y
    <3> SUFFICES ASSUME NEW x \in A, NEW y \in A, place[x] = place[y] PROVE x = y
      OBVIOUS
    <3>1. x \in 1..n /\ y \in 1..n
      BY <1>13
    <3>2. PICK p \in Int : p = place[x] /\ p = place[y]
      BY <1>16, <3>1
    <3>3. ~(x < y) /\ ~(y < x)
      BY <1>4, <3>1, <3>2
    <3> QED  BY <3>1, <3>3
  <2>3. \A t \in C : \E x \in A : f[x] = t
    BY <1>21
  <2>4. C \subseteq B
    BY <1>17, <1>21
  <2>5. IsFiniteSet(C)
    BY <1>20, <2>4, FS_Subset
  <2> HIDE DEF f
  <2>6. Cardinality(A) = Cardinality(C)
    BY <2>1, <2>2, <2>3, <2>5, SameSize
  <2> QED  BY <2>4, <2>5, <2>6
<1>23. /\ Cardinality(B) = Cardinality(B \cap C) + Cardinality(B \ C)
       /\ Cardinality(B \cap C) \in Nat /\ Cardinality(B \ C) \in Nat
  BY <1>20, CountParts
<1>24. B \cap C = C /\ B \ C \subseteq gaps
  BY <1>18, <1>21, <1>22
<1>25. Cardinality(B \ C) <= Cardinality(gaps) /\ Cardinality(gaps) \in Nat
  BY <1>20, <1>24, FS_Subset, FS_CardinalityType
<1>26. PICK nc \in Nat, nr \in Nat, ng \in Nat :
         nc = Cardinality(C) /\ nr = Cardinality(B \ C) /\ ng = Cardinality(gaps)
  BY <1>23, <1>24, <1>25
<1>27. Cardinality(A) = nc /\ Cardinality(B) = nc + nr /\ nr <= ng
  BY <1>22, <1>23, <1>24, <1>25, <1>26
<1>28. Cardinality(A) <= Cardinality(B) /\ Cardinality(B) <= Cardinality(A) + ng
  BY <1>26, <1>27
<1> QED  BY <1>9, <1>12, <1>26, <1>28 DEF CountEpisodes

LEMMA InvEpisodes == CsvInv => EpisodesAcrossAttacks
<1> SUFFICES ASSUME CsvInv PROVE EpisodesAcrossAttacks
  OBVIOUS
<1>1. PICK w : w = Pool(csv)
  OBVIOUS
<1>2. PICK b, thr : b = Benign(w) /\ thr = ThresholdOn(b)
  OBVIOUS
<1>3. AreWindows(w)
  BY <1>1, <1>2, InvBenign
<1>4. PICK false : false = [i \in DOMAIN w |-> w[i].label = 0 /\ HybridAt(w, thr)[i]]
  OBVIOUS
<1>5. PICK gaps : gaps = {i \in DOMAIN w : i > 1 /\ w[i].label = 0 /\ w[i - 1].label > 0}
  OBVIOUS
<1>6. /\ CountEpisodes(b, HybridAt(b, thr)) <= CountEpisodes(w, false)
      /\ CountEpisodes(w, false) <= CountEpisodes(b, HybridAt(b, thr)) + Cardinality(gaps)
  BY <1>2, <1>3, <1>4, <1>5, EpisodesOf
<1>7. Evaluated.fpr.episodes = CountEpisodes(b, HybridAt(b, thr))
  BY <1>1, <1>2 DEF Evaluated, EvaluateAtTarget, FprReport
<1> QED  BY <1>1, <1>2, <1>4, <1>5, <1>6, <1>7 DEF EpisodesAcrossAttacks

-----------------------------------------------------------------------------
(* Alerts and episodes: while an episode is open, the alerts given in it    *)
(* are at least a cooldown apart, so that as many as m of them are          *)
(* Cooldown * (m - 1) from its start to the last.                           *)

OrderedWindows(w) ==
  /\ AreWindows(w)
  /\ \A p, q \in DOMAIN w : p < q /\ w[p].ue = w[q].ue => w[p].ts < w[q].ts

Quotients(d) == [k \in DOMAIN d |-> d[k] \div Cooldown]
StartsTo(w, fires, i) == {k \in 1..i : k \in EpisodeStarts(w, fires)}

LEMMA DivCovers ==
  ASSUME NEW c \in Nat, c > 0, NEW d \in Nat, NEW m \in Nat, m > 0, d >= c * (m - 1)
  PROVE  m <= 1 + (d \div c) /\ d \div c \in Nat
<1>1. PICK q \in Int : q = d \div c
  OBVIOUS
<1>2. c * q <= d /\ d < c * q + c
  BY <1>1
<1>3. q >= 0
  <2> SUFFICES ASSUME q < 0 PROVE FALSE
    OBVIOUS
  <2>1. q + 1 <= 0
    OBVIOUS
  <2>2. c * (q + 1) <= 0
    BY <2>1
  <2> QED  BY <1>2, <2>2
<1>4. m - 1 <= q
  <2> SUFFICES ASSUME q + 1 <= m - 1 PROVE FALSE
    BY <1>1
  <2>1. PICK e \in Nat : e = (m - 1) - (q + 1)
    OBVIOUS
  <2>2. c * (m - 1) = c * (q + 1) + c * e
    BY <2>1
  <2>3. c * e >= 0
    OBVIOUS
  <2> QED  BY <1>2, <2>2, <2>3
<1> QED  BY <1>1, <1>3, <1>4

LEMMA SumOfAppend ==
  ASSUME NEW s \in Seq(Nat), NEW x \in Nat
  PROVE  SumOf(Append(s, x)) = SumOf(s) + x /\ SumOf(s) \in Nat /\ SumOf(Append(s, x)) \in Nat
<1>1. PICK t \in Seq(Nat) : t = Append(s, x)
  <2>1. Append(s, x) \in Seq(Nat)
    BY AppendProperties
  <2> QED  BY <2>1
<1>2. PICK n \in Nat : n = Len(s)
  BY LenProperties
<1>3. Len(t) = n + 1 /\ t[n + 1] = x /\ \A k \in 1..n : t[k] = s[k]
  BY <1>1, <1>2
<1>4. PICK f : IsSum(f, t, n + 1)
  <2>1. n + 1 \in Nat
    BY <1>2
  <2> QED  BY <2>1, SumExists
<1>5. PICK g : IsSum(g, s, n)
  BY <1>2, SumExists
<1>6. SumOf(t) = f[n + 1] /\ SumOf(t) \in Nat
  BY <1>3, <1>4, SumOfTo
<1>7. SumOf(s) = g[n] /\ SumOf(s) \in Nat
  BY <1>2, <1>5, SumOfTo
<1> DEFINE h == [i \in 0..n |-> f[i]]
<1>8. IsSum(h, s, n)
  <2>1. \A i \in 0..n : h[i] = IF i = 0 THEN 0 ELSE h[i - 1] + s[i]
    <3> SUFFICES ASSUME NEW i \in 0..n PROVE f[i] = IF i = 0 THEN 0 ELSE f[i - 1] + s[i]
      OBVIOUS
    <3>1. i \in 0..(n + 1)
      OBVIOUS
    <3>2. f[i] = IF i = 0 THEN 0 ELSE f[i - 1] + t[i]
      BY <1>4, <3>1 DEF IsSum
    <3> QED  BY <1>3, <3>2
  <2>2. h = [i \in 0..n |-> h[i]]
    OBVIOUS
  <2> HIDE DEF h
  <2> QED  BY <2>1, <2>2 DEF IsSum
<1>9. h[n] = f[n]
  OBVIOUS
<1> HIDE DEF h
<1>10. h[n] = g[n]
  BY <1>5, <1>8, SumIsOne
<1>11. f[n + 1] = f[n] + t[n + 1]
  <2>1. n + 1 \in 0..(n + 1) /\ n + 1 # 0 /\ (n + 1) - 1 = n
    OBVIOUS
  <2> QED  BY <1>4, <2>1 DEF IsSum
<1> QED  BY <1>1, <1>3, <1>6, <1>7, <1>9, <1>10, <1>11

LEMMA QuotientsAppend ==
  ASSUME NEW d \in Seq(Nat), NEW x \in Nat
  PROVE  /\ SumOf(Quotients(Append(d, x))) = SumOf(Quotients(d)) + (x \div Cooldown)
         /\ SumOf(Quotients(d)) \in Nat /\ Append(d, x) \in Seq(Nat) /\ Len(Append(d, x)) = Len(d) + 1
         /\ x \div Cooldown \in Nat
<1>1. PICK c \in Nat : c = Cooldown /\ c > 0
  BY FalseAlarmsAssumption
<1>2. \A y \in Nat : y \div c \in Nat
  <2> SUFFICES ASSUME NEW y \in Nat PROVE y \div c \in Nat
    OBVIOUS
  <2>1. PICK one \in Nat : one = 1
    OBVIOUS
  <2>2. y >= c * (one - 1) /\ one > 0
    BY <1>1, <2>1
  <2> QED  BY <1>1, <2>2, DivCovers
<1>3. PICK n \in Nat : n = Len(d) /\ DOMAIN d = 1..n
  BY LenProperties
<1>4. PICK t : t = Append(d, x)
  OBVIOUS
<1>5. /\ t \in Seq(Nat) /\ Len(t) = n + 1 /\ DOMAIN t = 1..(n + 1) /\ t[n + 1] = x
      /\ \A k \in 1..n : t[k] = d[k]
  BY <1>3, <1>4
<1>6. PICK qd : qd = Quotients(d)
  OBVIOUS
<1>7. qd = [k \in 1..n |-> d[k] \div c]
  BY <1>1, <1>3, <1>6 DEF Quotients
<1>8. qd \in Seq(Nat) /\ Len(qd) = n
  <2>1. \A k \in 1..n : d[k] \div c \in Nat
    <3>1. \A k \in 1..n : d[k] \in Nat
      BY <1>3, ElementOfSeq
    <3> QED  BY <1>2, <3>1
  <2>2. qd \in [1..n -> Nat]
    BY <1>7, <2>1
  <2> QED  BY <2>2
<1>9. PICK z \in Nat : z = x \div c
  BY <1>2
<1>10. Quotients(t) = Append(qd, z)
  <2>1. PICK qt : qt = Quotients(t)
    OBVIOUS
  <2>2. qt = [k \in 1..(n + 1) |-> t[k] \div c]
    BY <1>1, <1>5, <2>1 DEF Quotients
  <2>4. PICK qa : qa = Append(qd, z)
    OBVIOUS
  <2>5. /\ qa \in Seq(Nat) /\ Len(qa) = n + 1 /\ DOMAIN qa = 1..(n + 1) /\ qa[n + 1] = z
        /\ \A k \in 1..n : qa[k] = qd[k]
    BY <1>8, <1>9, <2>4
  <2>6. qa = [k \in 1..(n + 1) |-> qa[k]]
    BY <2>5
  <2>7. ASSUME NEW k \in 1..(n + 1) PROVE qa[k] = t[k] \div c
    <3>1. CASE k \in 1..n
      BY <1>5, <1>7, <2>5, <3>1
    <3>2. CASE k = n + 1
      BY <1>5, <1>9, <2>5, <3>2
    <3> QED  BY <3>1, <3>2
  <2> QED  BY <2>1, <2>2, <2>4, <2>6, <2>7
<1>11. SumOf(Append(qd, z)) = SumOf(qd) + z /\ SumOf(qd) \in Nat
  BY <1>8, SumOfAppend
<1> QED  BY <1>1, <1>3, <1>4, <1>5, <1>6, <1>9, <1>10, <1>11

\* Alerts m of the open episode, the last of which is m - 1 cooldowns after its start.
Spaced(w, s, i, G, m) ==
  m > 0 => \E j \in G : /\ s <= j /\ j <= i /\ w[j].ue = w[s].ue
                        /\ w[j].ts - w[s].ts >= Cooldown * (m - 1)
EpisodeInv(w, fires, i, a, G) ==
  /\ a.start \in 0..i /\ a.durations \in Seq(Nat)
  /\ i = 0 => a.start = 0
  /\ i > 0 => (a.start = 0 <=> ~fires[i])
  /\ a.start # 0 => w[a.start].ue = w[i].ue
  /\ Cardinality(StartsTo(w, fires, i)) = Len(a.durations) + IF a.start = 0 THEN 0 ELSE 1
  /\ G \subseteq 1..i
  /\ \E m \in Nat : /\ a.start = 0 => m = 0
                    /\ Cardinality(G) <= m + Len(a.durations) + SumOf(Quotients(a.durations))
                    /\ Spaced(w, a.start, i, G, m)
AlertsStep(w, fires, G, i) ==
  IF fires[i] /\ \A j \in G : w[j].ue = w[i].ue => w[i].ts - w[j].ts >= Cooldown
  THEN G \cup {i} ELSE G

LEMMA EpisodeInvFirst ==
  ASSUME NEW w, NEW fires
  PROVE  EpisodeInv(w, fires, 0, [start |-> 0, durations |-> <<>>], {})
<1>1. PICK a : a = [start |-> 0, durations |-> <<>>]
  OBVIOUS
<1>2. a.start = 0 /\ a.durations = <<>> /\ Len(a.durations) = 0 /\ a.durations \in Seq(Nat)
  BY <1>1
<1>3. StartsTo(w, fires, 0) = {}
  BY DEF StartsTo
<1>4. Cardinality({}) = 0
  BY FS_EmptySet
<1>5. SumOf(Quotients(a.durations)) \in Nat
  <2>1. 0 \in Nat
    OBVIOUS
  <2> QED  BY <1>2, <2>1, QuotientsAppend
<1>6. Spaced(w, a.start, 0, {}, 0)
  BY DEF Spaced
<1>7. a.start \in 0..0
  BY <1>2
<1>8. \E m \in Nat : /\ a.start = 0 => m = 0
                     /\ Cardinality({}) <= m + Len(a.durations) + SumOf(Quotients(a.durations))
                     /\ Spaced(w, a.start, 0, {}, m)
  <2>1. PICK q \in Nat : q = SumOf(Quotients(a.durations))
    BY <1>5
  <2>2. Cardinality({}) <= 0 + Len(a.durations) + q
    BY <1>2, <1>4, <2>1
  <2> QED  BY <1>6, <2>1, <2>2
<1>9. Cardinality(StartsTo(w, fires, 0)) = Len(a.durations) + IF a.start = 0 THEN 0 ELSE 1
  BY <1>2, <1>3, <1>4
<1>10. {} \subseteq 1..0 /\ ~(0 > 0)
  OBVIOUS
<1>11. EpisodeInv(w, fires, 0, a, {})
  BY <1>2, <1>7, <1>8, <1>9, <1>10, Zenon DEF EpisodeInv
<1> QED  BY <1>1, <1>11

LEMMA StartsGrow ==
  ASSUME NEW w, NEW fires, NEW i \in Nat
  PROVE  /\ i + 1 \in EpisodeStarts(w, fires) =>
              Cardinality(StartsTo(w, fires, i + 1)) = Cardinality(StartsTo(w, fires, i)) + 1
         /\ i + 1 \notin EpisodeStarts(w, fires) =>
              Cardinality(StartsTo(w, fires, i + 1)) = Cardinality(StartsTo(w, fires, i))
<1>1. PICK A, B : A = StartsTo(w, fires, i) /\ B = StartsTo(w, fires, i + 1)
  OBVIOUS
<1>2. IsFiniteSet(A) /\ i + 1 \notin A
  <2>1. A \subseteq 1..i
    BY <1>1 DEF StartsTo
  <2>2. IsFiniteSet(1..i)
    BY FS_Interval
  <2>3. i + 1 \notin 1..i
    OBVIOUS
  <2>4. IsFiniteSet(A)
    BY <2>1, <2>2, FS_Subset
  <2> QED  BY <2>1, <2>3, <2>4
<1>3. \A k : k \in 1..(i + 1) <=> k \in 1..i \/ k = i + 1
  OBVIOUS
<1>4. CASE i + 1 \in EpisodeStarts(w, fires)
  <2>1. B = A \cup {i + 1}
    BY <1>1, <1>3, <1>4 DEF StartsTo
  <2>2. Cardinality(B) = Cardinality(A) + 1
    BY <1>2, <2>1, FS_AddElement
  <2> QED  BY <1>1, <1>4, <2>2
<1>5. CASE i + 1 \notin EpisodeStarts(w, fires)
  <2>1. B = A
    BY <1>1, <1>3, <1>5 DEF StartsTo
  <2> QED  BY <1>1, <1>5, <2>1
<1> QED  BY <1>4, <1>5

\* An episode that ends leaves a duration in which its alerts fit.
LEMMA EpisodeEnds ==
  ASSUME NEW w, OrderedWindows(w), NEW i \in DOMAIN w, NEW s \in DOMAIN w, s <= i, i \in Nat, s \in Nat,
         w[s].ue = w[i].ue, NEW G, G \subseteq DOMAIN w, NEW m \in Nat, Spaced(w, s, i, G, m),
         NEW d, d = w[i].ts - w[s].ts
  PROVE  d \in Nat /\ m <= 1 + (d \div Cooldown) /\ d \div Cooldown \in Nat
<1>1. PICK c \in Nat : c = Cooldown /\ c > 0
  BY FalseAlarmsAssumption
<1>2. \A p \in DOMAIN w : w[p].ts \in Nat
  BY DEF OrderedWindows, AreWindows
<1>3. DOMAIN w \subseteq Nat
  <2>1. PICK T : w \in Seq(T)
    BY DEF OrderedWindows, AreWindows
  <2>2. DOMAIN w = 1..Len(w) /\ Len(w) \in Nat
    BY <2>1, LenProperties
  <2> QED  BY <2>2
<1>4. PICK ti \in Nat, ts \in Nat : ti = w[i].ts /\ ts = w[s].ts
  BY <1>2
<1>5. ts <= ti
  <2>1. CASE s = i
    BY <1>4, <2>1
  <2>2. CASE s < i
    BY <1>4, <2>2 DEF OrderedWindows
  <2> QED  BY <2>1, <2>2
<1>6. d \in Nat /\ d = ti - ts
  BY <1>4, <1>5
<1>7. CASE m = 0
  <2>1. PICK one \in Nat : one = 1
    OBVIOUS
  <2>2. d >= c * (one - 1) /\ one > 0
    BY <1>6, <2>1
  <2>3. d \div c \in Nat
    BY <1>1, <1>6, <2>2, DivCovers
  <2> QED  BY <1>1, <1>6, <1>7, <2>3
<1>8. CASE m > 0
  <2>1. PICK j \in G : s <= j /\ j <= i /\ w[j].ue = w[s].ue /\ w[j].ts - w[s].ts >= Cooldown * (m - 1)
    BY <1>8 DEF Spaced
  <2>2. PICK tj \in Nat : tj = w[j].ts
    BY <1>2
  <2>3. tj <= ti
    <3>1. j \in Nat /\ j \in DOMAIN w
      BY <1>3
    <3>2. CASE j = i
      BY <1>4, <2>2, <3>2
    <3>3. CASE j < i
      BY <1>4, <2>1, <2>2, <3>1, <3>3 DEF OrderedWindows
    <3> QED  BY <2>1, <3>1, <3>2, <3>3
  <2>4. PICK x \in Nat : x = c * (m - 1)
    <3>1. m - 1 \in Nat
      BY <1>8
    <3> QED  BY <3>1
  <2>5. tj - ts >= x
    BY <1>1, <1>4, <2>1, <2>2, <2>4
  <2>6. d >= x
    BY <1>6, <2>3, <2>5
  <2>7. m <= 1 + (d \div c) /\ d \div c \in Nat
    BY <1>1, <1>6, <1>8, <2>4, <2>6, DivCovers
  <2> QED  BY <1>1, <1>6, <2>7
<1> QED  BY <1>7, <1>8

\* The alert a window may add.
AlertAdded(w, fires, G, G2, k) ==
  /\ G2 \subseteq 1..k /\ G \subseteq G2
  /\ \/ G2 = G
     \/ /\ k \in G2 /\ Cardinality(G2) = Cardinality(G) + 1 /\ fires[k]
        /\ \A j \in G : w[j].ue = w[k].ue => w[k].ts - w[j].ts >= Cooldown
  /\ ~fires[k] => G2 = G

LEMMA AlertsStepIs ==
  ASSUME NEW w, NEW fires, NEW i \in Nat, NEW G, G \subseteq 1..i, NEW k, k = i + 1,
         NEW G2, G2 = AlertsStep(w, fires, G, k)
  PROVE  AlertAdded(w, fires, G, G2, k) /\ Cardinality(G) \in Nat /\ Cardinality(G2) \in Nat
<1>1. IsFiniteSet(G) /\ k \notin G
  <2>1. k \notin 1..i /\ IsFiniteSet(1..i)
    BY FS_Interval
  <2>2. IsFiniteSet(G)
    BY <2>1, FS_Subset
  <2> QED  BY <2>1, <2>2
<1>2. IsFiniteSet(G \cup {k}) /\ Cardinality(G \cup {k}) = Cardinality(G) + 1 /\ Cardinality(G) \in Nat
  BY <1>1, FS_AddElement, FS_CardinalityType
<1>3. \/ G2 = G
      \/ /\ G2 = G \cup {k} /\ fires[k]
         /\ \A j \in G : w[j].ue = w[k].ue => w[k].ts - w[j].ts >= Cooldown
  BY DEF AlertsStep
<1>4. ~fires[k] => G2 = G
  BY DEF AlertsStep
<1>5. \A x : x \in 1..i => x \in 1..k
  OBVIOUS
<1>6. k \in 1..k
  OBVIOUS
<1>7. CASE G2 = G
  BY <1>2, <1>4, <1>5, <1>7 DEF AlertAdded
<1>8. CASE /\ G2 = G \cup {k} /\ fires[k]
           /\ \A j \in G : w[j].ue = w[k].ue => w[k].ts - w[j].ts >= Cooldown
  <2>1. G2 \subseteq 1..k
    BY <1>5, <1>6, <1>8
  <2>2. G \subseteq G2 /\ k \in G2
    BY <1>8
  <2>3. Cardinality(G2) = Cardinality(G) + 1 /\ Cardinality(G2) \in Nat /\ Cardinality(G) \in Nat
    <3>1. PICK n \in Nat : n = Cardinality(G) /\ Cardinality(G \cup {k}) = n + 1
      BY <1>2
    <3>2. Cardinality(G2) = n + 1
      BY <1>8, <3>1, Zenon
    <3> QED  BY <3>1, <3>2
  <2> QED  BY <1>8, <2>1, <2>2, <2>3 DEF AlertAdded
<1> QED  BY <1>3, <1>7, <1>8

LEMMA AlertsOpen ==
  ASSUME NEW w, OrderedWindows(w), NEW fires, NEW i \in Nat, NEW G, G \subseteq 1..i, NEW k \in Nat, k = i + 1,
         k \in DOMAIN w, NEW G2, G2 = AlertsStep(w, fires, G, k), NEW b \in Nat, Cardinality(G) <= b
  PROVE  \E m \in Nat : Cardinality(G2) <= m + b /\ Spaced(w, k, k, G2, m)
<1>1. /\ Cardinality(G) \in Nat
      /\ G2 = G \/ (k \in G2 /\ Cardinality(G2) = Cardinality(G) + 1)
  <2>1. AlertAdded(w, fires, G, G2, k) /\ Cardinality(G) \in Nat
    BY AlertsStepIs
  <2> QED  BY <2>1 DEF AlertAdded
<1>2. CASE G2 = G
  <2>1. Spaced(w, k, k, G2, 0)
    BY DEF Spaced
  <2>2. Cardinality(G2) <= 0 + b
    BY <1>2
  <2> QED  BY <2>1, <2>2
<1>3. CASE k \in G2 /\ Cardinality(G2) = Cardinality(G) + 1
  <2>1. PICK t \in Nat : t = w[k].ts
    BY DEF OrderedWindows, AreWindows
  <2>2. Cooldown * (1 - 1) = 0
    BY FalseAlarmsAssumption
  <2>3. t - t >= Cooldown * (1 - 1)
    BY <2>1, <2>2
  <2>4. k \in G2 /\ k <= k
    BY <1>3
  <2>5. Spaced(w, k, k, G2, 1)
    BY <2>1, <2>3, <2>4 DEF Spaced
  <2>6. Cardinality(G2) <= 1 + b
    BY <1>1, <1>3
  <2> QED  BY <2>5, <2>6
<1> QED  BY <1>1, <1>2, <1>3

\* The episode that starts at s goes on in window k.
GoesOn(w, s, i, k, G) ==
  /\ OrderedWindows(w) /\ i \in DOMAIN w /\ s \in DOMAIN w /\ s <= i /\ s \in Nat
  /\ k \in DOMAIN w /\ k \in Nat /\ k = i + 1 /\ w[s].ue = w[i].ue /\ w[k].ue = w[i].ue
  /\ G \subseteq 1..i /\ G \subseteq DOMAIN w

\* All but b of the alerts are spaced.
SpacedBut(w, s, i, G, b) == \E m \in Nat : Cardinality(G) <= m + b /\ Spaced(w, s, i, G, m)

LEMMA AlertsGoOn ==
  ASSUME NEW w, NEW fires, NEW i \in Nat, NEW G, NEW k, NEW s, GoesOn(w, s, i, k, G),
         NEW G2, G2 = AlertsStep(w, fires, G, k), NEW b \in Nat, SpacedBut(w, s, i, G, b)
  PROVE  SpacedBut(w, s, k, G2, b)
<1> USE DEF GoesOn
<1> SUFFICES ASSUME NEW m \in Nat, Cardinality(G) <= m + b, Spaced(w, s, i, G, m)
             PROVE  \E m2 \in Nat : Cardinality(G2) <= m2 + b /\ Spaced(w, s, k, G2, m2)
  BY DEF SpacedBut
<1>1. /\ Cardinality(G) \in Nat /\ G \subseteq G2
      /\ \/ G2 = G
         \/ /\ k \in G2 /\ Cardinality(G2) = Cardinality(G) + 1
            /\ \A j \in G : w[j].ue = w[k].ue => w[k].ts - w[j].ts >= Cooldown
  <2>1. AlertAdded(w, fires, G, G2, k) /\ Cardinality(G) \in Nat
    BY AlertsStepIs
  <2> QED  BY <2>1 DEF AlertAdded
<1>2. CASE G2 = G
  <2>1. Spaced(w, s, k, G, m)
    <3> SUFFICES ASSUME m > 0
                 PROVE  \E j \in G : /\ s <= j /\ j <= k /\ w[j].ue = w[s].ue
                                     /\ w[j].ts - w[s].ts >= Cooldown * (m - 1)
      BY DEF Spaced
    <3>1. PICK j \in G : /\ s <= j /\ j <= i /\ w[j].ue = w[s].ue
                         /\ w[j].ts - w[s].ts >= Cooldown * (m - 1)
      BY DEF Spaced
    <3>2. j <= k
      <4>1. j \in 1..i
        BY <3>1
      <4> QED  BY <3>1, <4>1
    <3> QED  BY <3>1, <3>2
  <2> QED  BY <1>2, <2>1
<1>3. CASE /\ k \in G2 /\ Cardinality(G2) = Cardinality(G) + 1
           /\ \A j \in G : w[j].ue = w[k].ue => w[k].ts - w[j].ts >= Cooldown
  <2>1. PICK tk \in Nat, ts \in Nat : tk = w[k].ts /\ ts = w[s].ts
    BY DEF OrderedWindows, AreWindows
  <2>2. PICK c \in Nat : c = Cooldown /\ c > 0
    BY FalseAlarmsAssumption
  <2>3. PICK x \in Nat : x = c * m
    BY <2>2
  <2>4. tk - ts >= x
    <3>1. CASE m = 0
      <4>1. x = 0
        BY <2>2, <2>3, <3>1
      <4>2. ts < tk
        BY <2>1 DEF OrderedWindows
      <4> QED  BY <4>1, <4>2
    <3>2. CASE m > 0
      <4>1. PICK j \in G : /\ s <= j /\ j <= i /\ w[j].ue = w[s].ue
                           /\ w[j].ts - w[s].ts >= Cooldown * (m - 1)
        BY <3>2 DEF Spaced
      <4>2. PICK tj \in Nat : tj = w[j].ts
        BY DEF OrderedWindows, AreWindows
      <4>3. tk - tj >= c
        BY <1>3, <2>1, <2>2, <4>1, <4>2
      <4>4. PICK y \in Nat : y = c * (m - 1)
        <5>1. m - 1 \in Nat
          BY <3>2
        <5> QED  BY <2>2, <5>1
      <4>5. tj - ts >= y
        BY <2>1, <2>2, <4>1, <4>2, <4>4
      <4>6. x = y + c
        BY <2>2, <2>3, <4>4
      <4> QED  BY <4>3, <4>5, <4>6
    <3> QED  BY <3>1, <3>2
  <2>5. Cooldown * ((m + 1) - 1) = x
    BY <2>2, <2>3
  <2>6. k \in G2 /\ s <= k /\ k <= k /\ w[k].ue = w[s].ue
    BY <1>3
  <2>7. Spaced(w, s, k, G2, m + 1)
    <3>1. w[k].ts - w[s].ts >= Cooldown * ((m + 1) - 1)
      BY <2>1, <2>4, <2>5
    <3> QED  BY <2>6, <3>1 DEF Spaced
  <2>8. Cardinality(G2) <= (m + 1) + b /\ m + 1 \in Nat
    BY <1>1, <1>3
  <2> QED  BY <2>7, <2>8
<1> QED  BY <1>1, <1>2, <1>3

LEMMA EpisodeInvStep ==
  ASSUME NEW w, OrderedWindows(w), NEW fires, NEW i \in Nat, NEW k \in Nat, k = i + 1, k \in DOMAIN w,
         NEW a, NEW G, EpisodeInv(w, fires, i, a, G),
         NEW a2, a2 = EpisodeStep(w, fires, a, k), NEW G2, G2 = AlertsStep(w, fires, G, k)
  PROVE  EpisodeInv(w, fires, k, a2, G2)
<1>1. PICK s, D : s = a.start /\ D = a.durations
  OBVIOUS
<1>2. /\ s \in 0..i /\ D \in Seq(Nat) /\ (i = 0 => s = 0)
      /\ i > 0 => (s = 0 <=> ~fires[i])
      /\ s # 0 => w[s].ue = w[i].ue
      /\ Cardinality(StartsTo(w, fires, i)) = Len(D) + IF s = 0 THEN 0 ELSE 1
      /\ G \subseteq 1..i
  BY <1>1 DEF EpisodeInv
<1>3. PICK m \in Nat : /\ s = 0 => m = 0
                       /\ Cardinality(G) <= m + Len(D) + SumOf(Quotients(D))
                       /\ Spaced(w, s, i, G, m)
  BY <1>1 DEF EpisodeInv
<1>4. PICK len \in Nat : DOMAIN w = 1..len
  <2>1. PICK T : w \in Seq(T)
    BY DEF OrderedWindows, AreWindows
  <2> QED  BY <2>1, LenProperties
<1>5. \A p \in 1..i : p \in DOMAIN w /\ p \in Nat
  BY <1>4
<1>6. PICK L \in Nat, q \in Nat : L = Len(D) /\ q = SumOf(Quotients(D))
  <2>1. 0 \in Nat
    OBVIOUS
  <2>2. SumOf(Quotients(D)) \in Nat
    BY <1>2, <2>1, QuotientsAppend
  <2>3. Len(D) \in Nat
    BY <1>2, LenProperties
  <2> QED  BY <2>2, <2>3
<1>7. G2 \subseteq 1..k /\ Cardinality(G) \in Nat /\ (~fires[k] => G2 = G)
  <2>1. AlertAdded(w, fires, G, G2, k) /\ Cardinality(G) \in Nat
    BY <1>2, AlertsStepIs
  <2> QED  BY <2>1 DEF AlertAdded
<1>8. k - 1 = i /\ k > 0 /\ k \in 1..k /\ (k > 1 <=> i > 0) /\ ~(k = 0)
  OBVIOUS
<1>9. k \in EpisodeStarts(w, fires) <=> fires[k] /\ ~(i > 0 /\ fires[i] /\ w[i].ue = w[k].ue)
  BY <1>8 DEF EpisodeStarts, SameRun
<1>10. /\ k \in EpisodeStarts(w, fires) =>
            Cardinality(StartsTo(w, fires, k)) = Cardinality(StartsTo(w, fires, i)) + 1
       /\ k \notin EpisodeStarts(w, fires) =>
            Cardinality(StartsTo(w, fires, k)) = Cardinality(StartsTo(w, fires, i))
  BY StartsGrow
<1> DEFINE rest(s2, D2, m2) == /\ s2 = 0 => m2 = 0
                               /\ Cardinality(G2) <= m2 + Len(D2) + SumOf(Quotients(D2))
                               /\ Spaced(w, s2, k, G2, m2)
<1>11. ASSUME NEW s2 \in 0..k, NEW D2 \in Seq(Nat), a2.start = s2, a2.durations = D2,
              s2 = 0 <=> ~fires[k], s2 # 0 => w[s2].ue = w[k].ue,
              Cardinality(StartsTo(w, fires, k)) = Len(D2) + IF s2 = 0 THEN 0 ELSE 1,
              \E m2 \in Nat : rest(s2, D2, m2)
       PROVE  EpisodeInv(w, fires, k, a2, G2)
  BY <1>7, <1>8, <1>11, Zenon DEF EpisodeInv
<1> HIDE DEF rest
<1>12. ASSUME NEW s2, NEW D2, NEW m2 \in Nat, s2 = 0 => m2 = 0,
              Cardinality(G2) <= m2 + Len(D2) + SumOf(Quotients(D2)), Spaced(w, s2, k, G2, m2)
       PROVE  rest(s2, D2, m2)
  BY <1>12 DEF rest
<1>13. CASE s = 0
  <2>1. Cardinality(StartsTo(w, fires, i)) = L /\ m = 0 /\ Cardinality(G) <= L + q
    BY <1>2, <1>3, <1>6, <1>13
  <2>2. CASE fires[k]
    <3>1. a2.start = k /\ a2.durations = D
      BY <1>1, <1>13, <2>2 DEF EpisodeStep
    <3>2. k \in EpisodeStarts(w, fires)
      BY <1>2, <1>9, <1>13, <2>2
    <3>3. Cardinality(StartsTo(w, fires, k)) = Len(D) + IF k = 0 THEN 0 ELSE 1
      BY <1>6, <1>8, <1>10, <2>1, <3>2
    <3>4. PICK b \in Nat : b = L + q
      OBVIOUS
    <3>5. PICK m2 \in Nat : Cardinality(G2) <= m2 + b /\ Spaced(w, k, k, G2, m2)
      BY <1>2, <2>1, <3>4, AlertsOpen
    <3>6. Cardinality(G2) <= m2 + Len(D) + SumOf(Quotients(D))
      <4>1. m2 + b = m2 + L + q
        BY <3>4
      <4> QED  BY <1>6, <3>5, <4>1
    <3>7. rest(k, D, m2)
      BY <1>8, <1>12, <3>5, <3>6
    <3>8. k \in 0..k
      OBVIOUS
    <3> QED  BY <1>2, <1>8, <1>11, <2>2, <3>1, <3>3, <3>7, <3>8
  <2>3. CASE ~fires[k]
    <3>1. a2 = a
      BY <1>1, <1>13, <2>3 DEF EpisodeStep
    <3>2. Cardinality(StartsTo(w, fires, k)) = Len(D) + IF s = 0 THEN 0 ELSE 1
      BY <1>6, <1>9, <1>10, <1>13, <2>1, <2>3
    <3>3. Spaced(w, s, k, G2, 0)
      BY DEF Spaced
    <3>4. Cardinality(G2) <= 0 + Len(D) + SumOf(Quotients(D))
      BY <1>6, <1>7, <2>1, <2>3
    <3>5. rest(s, D, 0)
      BY <1>12, <3>3, <3>4
    <3>6. s \in 0..k
      BY <1>13
    <3> QED  BY <1>1, <1>2, <1>11, <1>13, <2>3, <3>1, <3>2, <3>5, <3>6
  <2> QED  BY <2>2, <2>3
<1>14. CASE s # 0
  <2>1. s \in 1..i /\ s \in DOMAIN w /\ s <= i /\ i \in 1..i /\ i > 0 /\ i \in DOMAIN w /\ s \in Nat
    BY <1>2, <1>5, <1>14
  <2>2. fires[i] /\ w[s].ue = w[i].ue /\ Cardinality(StartsTo(w, fires, i)) = L + 1
    BY <1>2, <1>6, <1>14, <2>1
  <2>3. G \subseteq DOMAIN w
    BY <1>2, <1>5
  <2>4. PICK d : d = w[i].ts - w[s].ts
    OBVIOUS
  <2>5. d \in Nat /\ m <= 1 + (d \div Cooldown) /\ d \div Cooldown \in Nat
    BY <1>3, <2>1, <2>2, <2>3, <2>4, EpisodeEnds
  <2>6. PICK D2 : D2 = Append(D, d)
    OBVIOUS
  <2>7. PICK z \in Nat : z = d \div Cooldown
    BY <2>5
  <2>8. SumOf(Quotients(D2)) = q + z /\ D2 \in Seq(Nat) /\ Len(D2) = L + 1
    BY <1>2, <1>6, <2>5, <2>6, <2>7, QuotientsAppend
  <2>9. Cardinality(G) <= (L + 1) + (q + z)
    <3>1. PICK g \in Nat : g = Cardinality(G)
      BY <1>7
    <3>2. g <= m + L + q /\ m <= 1 + z
      BY <1>3, <1>6, <2>5, <2>7, <3>1
    <3>3. g <= (L + 1) + (q + z)
      BY <3>2
    <3> QED  BY <3>1, <3>3
  <2>10. CASE fires[k] /\ w[k].ue = w[i].ue
    <3>1. a2 = a
      BY <1>1, <1>8, <1>14, <2>10 DEF EpisodeStep
    <3>2. Cardinality(StartsTo(w, fires, k)) = Len(D) + IF s = 0 THEN 0 ELSE 1
      BY <1>6, <1>9, <1>10, <1>14, <2>1, <2>2, <2>10
    <3>3. PICK b \in Nat : b = L + q
      OBVIOUS
    <3>4. Cardinality(G) <= m + b
      <4>1. m + b = m + L + q
        BY <3>3
      <4> QED  BY <1>3, <1>6, <4>1
    <3>5. PICK m2 \in Nat : Cardinality(G2) <= m2 + b /\ Spaced(w, s, k, G2, m2)
      <4>1. /\ s <= i /\ s \in Nat /\ s \in DOMAIN w /\ w[s].ue = w[i].ue /\ w[k].ue = w[i].ue
            /\ G \subseteq 1..i /\ G \subseteq DOMAIN w /\ i \in DOMAIN w
            /\ m \in Nat /\ Cardinality(G) <= m + b /\ Spaced(w, s, i, G, m)
        BY <1>2, <1>3, <2>1, <2>2, <2>3, <2>10, <3>4
      <4>2. GoesOn(w, s, i, k, G)
        BY <4>1 DEF GoesOn
      <4>3. SpacedBut(w, s, i, G, b)
        BY <4>1 DEF SpacedBut
      <4>4. SpacedBut(w, s, k, G2, b)
        BY <4>2, <4>3, AlertsGoOn
      <4> QED  BY <4>4 DEF SpacedBut
    <3>6. Cardinality(G2) <= m2 + Len(D) + SumOf(Quotients(D))
      <4>1. m2 + b = m2 + L + q
        BY <3>3
      <4> QED  BY <1>6, <3>5, <4>1
    <3>7. rest(s, D, m2)
      BY <1>12, <1>14, <3>5, <3>6
    <3>8. s \in 0..k
      BY <2>1
    <3> QED  BY <1>1, <1>2, <1>11, <1>14, <2>2, <2>10, <3>1, <3>2, <3>7, <3>8
  <2>11. CASE fires[k] /\ w[k].ue # w[i].ue
    <3>1. a2.start = k /\ a2.durations = D2
      BY <1>1, <1>8, <1>14, <2>4, <2>6, <2>11 DEF EpisodeStep
    <3>2. Cardinality(StartsTo(w, fires, k)) = Len(D2) + IF k = 0 THEN 0 ELSE 1
      BY <1>8, <1>9, <1>10, <2>2, <2>8, <2>11
    <3>3. PICK b \in Nat : b = (L + 1) + (q + z)
      OBVIOUS
    <3>4. PICK m2 \in Nat : Cardinality(G2) <= m2 + b /\ Spaced(w, k, k, G2, m2)
      BY <1>2, <2>9, <3>3, AlertsOpen
    <3>5. Cardinality(G2) <= m2 + Len(D2) + SumOf(Quotients(D2))
      <4>1. m2 + b = m2 + (L + 1) + (q + z)
        BY <3>3
      <4> QED  BY <2>8, <3>4, <4>1
    <3>6. rest(k, D2, m2)
      BY <1>8, <1>12, <3>4, <3>5
    <3>7. k \in 0..k
      OBVIOUS
    <3> QED  BY <1>8, <1>11, <2>8, <2>11, <3>1, <3>2, <3>6, <3>7
  <2>12. CASE ~fires[k]
    <3>1. a2.start = 0 /\ a2.durations = D2
      BY <1>1, <1>8, <1>14, <2>4, <2>6, <2>12 DEF EpisodeStep
    <3>2. Cardinality(StartsTo(w, fires, k)) = Len(D2) + IF 0 = 0 THEN 0 ELSE 1
      BY <1>9, <1>10, <2>2, <2>8, <2>12
    <3>3. Spaced(w, 0, k, G2, 0)
      BY DEF Spaced
    <3>4. Cardinality(G2) <= 0 + Len(D2) + SumOf(Quotients(D2))
      BY <1>7, <2>8, <2>9, <2>12
    <3>5. rest(0, D2, 0)
      BY <1>12, <3>3, <3>4
    <3>6. 0 \in 0..k
      OBVIOUS
    <3> QED  BY <1>11, <2>8, <2>12, <3>1, <3>2, <3>5, <3>6
  <2> QED  BY <2>10, <2>11, <2>12
<1> QED  BY <1>13, <1>14

IsEpisodes(acc, w, fires, n) ==
  acc = [i \in 0..n |-> IF i = 0 THEN [start |-> 0, durations |-> <<>>]
                        ELSE EpisodeStep(w, fires, acc[i - 1], i)]
IsGiven(given, w, fires, n) ==
  given = [i \in 0..n |-> IF i = 0 THEN {} ELSE AlertsStep(w, fires, given[i - 1], i)]

LEMMA EpisodesExist ==
  ASSUME NEW w, NEW fires
  PROVE  \A n \in Nat : \E f : IsEpisodes(f, w, fires, n)
<1> DEFINE P == {n \in Nat : \E f : IsEpisodes(f, w, fires, n)}
           base == [start |-> 0, durations |-> <<>>]
<1>1. 0 \in P
  <2>1. IsEpisodes([i \in 0..0 |-> base], w, fires, 0)
    BY DEF IsEpisodes
  <2> QED  BY <2>1
<1>2. ASSUME NEW n \in Nat, n \in P PROVE n + 1 \in P
  <2>1. PICK f : IsEpisodes(f, w, fires, n)
    BY <1>2
  <2> DEFINE g == [i \in 0..(n + 1) |-> IF i = n + 1 THEN EpisodeStep(w, fires, f[n], n + 1) ELSE f[i]]
  <2> HIDE DEF base
  <2>2. \A i \in 0..n : g[i] = f[i] /\ f[i] = IF i = 0 THEN base ELSE EpisodeStep(w, fires, f[i - 1], i)
    BY <2>1 DEF IsEpisodes, base
  <2>3. \A i \in 0..(n + 1) : g[i] = IF i = 0 THEN base ELSE EpisodeStep(w, fires, g[i - 1], i)
    BY <2>2
  <2>4. g = [i \in 0..(n + 1) |-> g[i]]
    OBVIOUS
  <2> HIDE DEF g
  <2>5. IsEpisodes(g, w, fires, n + 1)
    BY <2>3, <2>4 DEF IsEpisodes, base
  <2> QED  BY <2>5
<1> HIDE DEF P
<1>3. \A n \in Nat : n \in P
  BY <1>1, <1>2, AllNaturals
<1> QED  BY <1>3 DEF P

LEMMA GivenExists ==
  ASSUME NEW w, NEW fires
  PROVE  \A n \in Nat : \E f : IsGiven(f, w, fires, n)
<1> DEFINE P == {n \in Nat : \E f : IsGiven(f, w, fires, n)}
<1>1. 0 \in P
  <2>1. IsGiven([i \in 0..0 |-> {}], w, fires, 0)
    BY DEF IsGiven
  <2> QED  BY <2>1
<1>2. ASSUME NEW n \in Nat, n \in P PROVE n + 1 \in P
  <2>1. PICK f : IsGiven(f, w, fires, n)
    BY <1>2
  <2> DEFINE g == [i \in 0..(n + 1) |-> IF i = n + 1 THEN AlertsStep(w, fires, f[n], n + 1) ELSE f[i]]
  <2>2. \A i \in 0..n : g[i] = f[i] /\ f[i] = IF i = 0 THEN {} ELSE AlertsStep(w, fires, f[i - 1], i)
    <3>1. \A i \in 0..n : g[i] = f[i]
      OBVIOUS
    <3>2. f = [i \in 0..n |-> IF i = 0 THEN {} ELSE AlertsStep(w, fires, f[i - 1], i)]
      BY <2>1 DEF IsGiven
    <3>3. ASSUME NEW i \in 0..n PROVE f[i] = IF i = 0 THEN {} ELSE AlertsStep(w, fires, f[i - 1], i)
      <4> HIDE DEF g
      <4> QED  BY <3>2, Zenon
    <3> QED  BY <3>1, <3>3
  <2>3. \A i \in 0..(n + 1) : g[i] = IF i = 0 THEN {} ELSE AlertsStep(w, fires, g[i - 1], i)
    BY <2>2
  <2>4. g = [i \in 0..(n + 1) |-> g[i]]
    OBVIOUS
  <2> HIDE DEF g
  <2>5. IsGiven(g, w, fires, n + 1)
    BY <2>3, <2>4 DEF IsGiven
  <2> QED  BY <2>5
<1> HIDE DEF P
<1>3. \A n \in Nat : n \in P
  BY <1>1, <1>2, AllNaturals
<1> QED  BY <1>3 DEF P

LEMMA EpisodesAre ==
  ASSUME NEW w, OrderedWindows(w), NEW fires, NEW n \in Nat, n = Len(w)
  PROVE  \E acc, given :
           /\ IsEpisodes(acc, w, fires, n) /\ IsGiven(given, w, fires, n)
           /\ EpisodeDurations(w, fires) =
                (IF acc[n].start = 0 THEN acc[n].durations
                 ELSE Append(acc[n].durations, w[n].ts - w[acc[n].start].ts))
           /\ Alerts(w, fires) = given[n]
           /\ \A i \in 0..n : EpisodeInv(w, fires, i, acc[i], given[i])
<1>1. PICK acc : acc = CHOOSE f : IsEpisodes(f, w, fires, n)
  OBVIOUS
<1>2. PICK given : given = CHOOSE f : IsGiven(f, w, fires, n)
  OBVIOUS
<1>3. IsEpisodes(acc, w, fires, n)
  BY <1>1, EpisodesExist
<1>4. IsGiven(given, w, fires, n)
  BY <1>2, GivenExists
<1>5. EpisodeDurations(w, fires) =
        (IF acc[n].start = 0 THEN acc[n].durations
         ELSE Append(acc[n].durations, w[n].ts - w[acc[n].start].ts))
  BY <1>1 DEF EpisodeDurations, IsEpisodes
<1>6. Alerts(w, fires) = given[n]
  BY <1>2 DEF Alerts, IsGiven, AlertsStep
<1>7. PICK T : w \in Seq(T)
  BY DEF OrderedWindows, AreWindows
<1>8. DOMAIN w = 1..n
  BY <1>7, LenProperties
<1> DEFINE P == {i \in Nat : i <= n => EpisodeInv(w, fires, i, acc[i], given[i])}
<1>9. 0 \in P
  <2>1. acc[0] = [start |-> 0, durations |-> <<>>] /\ given[0] = {}
    BY <1>3, <1>4 DEF IsEpisodes, IsGiven
  <2> QED  BY <2>1, EpisodeInvFirst
<1>10. ASSUME NEW i \in Nat, i \in P PROVE i + 1 \in P
  <2> SUFFICES ASSUME i + 1 <= n PROVE EpisodeInv(w, fires, i + 1, acc[i + 1], given[i + 1])
    OBVIOUS
  <2>1. PICK k \in Nat : k = i + 1
    OBVIOUS
  <2>2. k \in 0..n /\ k # 0 /\ k - 1 = i /\ k \in DOMAIN w /\ i <= n
    BY <1>8, <2>1
  <2>3. acc[k] = EpisodeStep(w, fires, acc[i], k) /\ given[k] = AlertsStep(w, fires, given[i], k)
    BY <1>3, <1>4, <2>2 DEF IsEpisodes, IsGiven
  <2>4. PICK a, G : a = acc[i] /\ G = given[i]
    OBVIOUS
  <2>5. PICK a2, G2 : a2 = acc[k] /\ G2 = given[k]
    OBVIOUS
  <2>6. EpisodeInv(w, fires, i, a, G)
    BY <1>10, <2>2, <2>4
  <2>7. a2 = EpisodeStep(w, fires, a, k) /\ G2 = AlertsStep(w, fires, G, k)
    BY <2>3, <2>4, <2>5
  <2>8. EpisodeInv(w, fires, k, a2, G2)
    BY <2>1, <2>2, <2>6, <2>7, EpisodeInvStep
  <2> QED  BY <2>1, <2>5, <2>8
<1> HIDE DEF P
<1>11. \A i \in Nat : i \in P
  BY <1>9, <1>10, AllNaturals
<1>12. \A i \in 0..n : EpisodeInv(w, fires, i, acc[i], given[i])
  BY <1>11 DEF P
<1> QED  BY <1>3, <1>4, <1>5, <1>6, <1>12

LEMMA AlertsFitDurations ==
  ASSUME NEW w, OrderedWindows(w), NEW fires, NEW d, d = EpisodeDurations(w, fires)
  PROVE  /\ Len(d) = CountEpisodes(w, fires)
         /\ Cardinality(Alerts(w, fires)) <= Len(d) + SumOf(Quotients(d))
         /\ Cardinality({i \in DOMAIN w : fires[i]}) > 0 => Cardinality(Alerts(w, fires)) > 0
<1>1. PICK T : w \in Seq(T)
  BY DEF OrderedWindows, AreWindows
<1>2. PICK n \in Nat : n = Len(w) /\ DOMAIN w = 1..n
  BY <1>1, LenProperties
<1>3. PICK acc, given :
        /\ IsEpisodes(acc, w, fires, n) /\ IsGiven(given, w, fires, n)
        /\ d = (IF acc[n].start = 0 THEN acc[n].durations
                ELSE Append(acc[n].durations, w[n].ts - w[acc[n].start].ts))
        /\ Alerts(w, fires) = given[n]
        /\ \A i \in 0..n : EpisodeInv(w, fires, i, acc[i], given[i])
  BY <1>2, EpisodesAre
<1>4. PICK s, D, G : s = acc[n].start /\ D = acc[n].durations /\ G = given[n]
  OBVIOUS
<1>5. EpisodeInv(w, fires, n, acc[n], G)
  BY <1>3, <1>4
<1>6. /\ s \in 0..n /\ D \in Seq(Nat)
      /\ s # 0 => w[s].ue = w[n].ue
      /\ Cardinality(StartsTo(w, fires, n)) = Len(D) + IF s = 0 THEN 0 ELSE 1
      /\ G \subseteq 1..n
  BY <1>4, <1>5 DEF EpisodeInv
<1>7. PICK m \in Nat : /\ s = 0 => m = 0
                       /\ Cardinality(G) <= m + Len(D) + SumOf(Quotients(D))
                       /\ Spaced(w, s, n, G, m)
  BY <1>4, <1>5 DEF EpisodeInv
<1>8. StartsTo(w, fires, n) = EpisodeStarts(w, fires)
  <2>1. EpisodeStarts(w, fires) \subseteq 1..n
    BY <1>2 DEF EpisodeStarts
  <2> QED  BY <2>1 DEF StartsTo
<1>9. PICK L \in Nat, q \in Nat : L = Len(D) /\ q = SumOf(Quotients(D))
  <2>1. 0 \in Nat
    OBVIOUS
  <2>2. SumOf(Quotients(D)) \in Nat
    BY <1>6, <2>1, QuotientsAppend
  <2> QED  BY <1>6, <2>2, LenProperties
<1>10. Cardinality(G) \in Nat /\ IsFiniteSet(G)
  <2>1. IsFiniteSet(1..n)
    BY FS_Interval
  <2> QED  BY <1>6, <2>1, FS_Subset, FS_CardinalityType
<1>11. Len(d) = CountEpisodes(w, fires) /\ Cardinality(G) <= Len(d) + SumOf(Quotients(d))
  <2>1. CASE s = 0
    <3>1. d = D
      BY <1>3, <1>4, <2>1
    <3> QED  BY <1>6, <1>7, <1>8, <1>9, <2>1, <3>1 DEF CountEpisodes
  <2>2. CASE s # 0
    <3>1. s \in DOMAIN w /\ n \in DOMAIN w /\ s <= n /\ s \in Nat /\ w[s].ue = w[n].ue /\ G \subseteq DOMAIN w
      BY <1>2, <1>6, <2>2
    <3>2. PICK x : x = w[n].ts - w[s].ts
      OBVIOUS
    <3>3. x \in Nat /\ m <= 1 + (x \div Cooldown) /\ x \div Cooldown \in Nat
      BY <1>7, <3>1, <3>2, EpisodeEnds
    <3>4. d = Append(D, x)
      BY <1>3, <1>4, <2>2, <3>2
    <3>5. PICK z \in Nat : z = x \div Cooldown
      BY <3>3
    <3>6. SumOf(Quotients(d)) = q + z /\ Len(d) = L + 1
      BY <1>6, <1>9, <3>3, <3>4, <3>5, QuotientsAppend
    <3>7. PICK g \in Nat : g = Cardinality(G)
      BY <1>10
    <3>8. g <= m + L + q /\ m <= 1 + z
      BY <1>7, <1>9, <3>3, <3>5, <3>7
    <3>9. g <= (L + 1) + (q + z)
      BY <3>8
    <3>10. CountEpisodes(w, fires) = L + 1
      BY <1>6, <1>8, <1>9, <2>2 DEF CountEpisodes
    <3> QED  BY <3>6, <3>7, <3>9, <3>10
  <2> QED  BY <2>1, <2>2
<1>12. ASSUME NEW i \in DOMAIN w, fires[i], G = {} PROVE FALSE
  <2> DEFINE P == {k \in Nat : k <= n => \A j \in 0..n : j <= k => given[j] \subseteq given[k]}
  <2>1. \A k \in 1..n : given[k] = AlertsStep(w, fires, given[k - 1], k)
    <3> SUFFICES ASSUME NEW k \in 1..n PROVE given[k] = AlertsStep(w, fires, given[k - 1], k)
      OBVIOUS
    <3>1. k \in 0..n /\ k # 0
      OBVIOUS
    <3>2. given = [j \in 0..n |-> IF j = 0 THEN {} ELSE AlertsStep(w, fires, given[j - 1], j)]
      BY <1>3 DEF IsGiven
    <3>3. given[k] = IF k = 0 THEN {} ELSE AlertsStep(w, fires, given[k - 1], k)
      BY <3>1, <3>2, Zenon
    <3> QED  BY <3>1, <3>3
  <2>2. 0 \in P
    OBVIOUS
  <2>3. ASSUME NEW k \in Nat, k \in P PROVE k + 1 \in P
    <3> SUFFICES ASSUME k + 1 <= n, NEW j \in 0..n, j <= k + 1 PROVE given[j] \subseteq given[k + 1]
      OBVIOUS
    <3>1. k + 1 \in 1..n /\ (k + 1) - 1 = k /\ k <= n
      OBVIOUS
    <3>2. given[k + 1] = AlertsStep(w, fires, given[k], k + 1)
      BY <2>1, <3>1
    <3>3. given[k] \subseteq given[k + 1]
      BY <3>2 DEF AlertsStep
    <3>4. CASE j <= k
      BY <2>3, <3>1, <3>3, <3>4
    <3>5. CASE j = k + 1
      BY <3>5
    <3> QED  BY <3>4, <3>5
  <2> HIDE DEF P
  <2>4. \A k \in Nat : k \in P
    BY <2>2, <2>3, AllNaturals
  <2>5. n \in P
    BY <2>4
  <2>6. \A j \in 0..n : given[j] = {}
    <3>1. \A j \in 0..n : j <= n => given[j] \subseteq given[n]
      BY <2>5 DEF P
    <3>2. \A j \in 0..n : j <= n
      OBVIOUS
    <3>3. given[n] = {}
      BY <1>4, <1>12
    <3> QED  BY <3>1, <3>2, <3>3
  <2>7. PICK k \in 1..n : k = i
    BY <1>2
  <2>8. k \in 0..n /\ k - 1 \in 0..n
    OBVIOUS
  <2>9. given[k] = AlertsStep(w, fires, given[k - 1], k) /\ given[k - 1] = {} /\ given[k] = {}
    BY <2>1, <2>6, <2>8
  <2>10. k \in AlertsStep(w, fires, {}, k)
    BY <1>12, <2>7 DEF AlertsStep
  <2> QED  BY <2>9, <2>10
<1>13. Cardinality({i \in DOMAIN w : fires[i]}) > 0 => Cardinality(G) > 0
  <2> SUFFICES ASSUME Cardinality({i \in DOMAIN w : fires[i]}) > 0 PROVE Cardinality(G) > 0
    OBVIOUS
  <2>1. PICK F : F = {i \in DOMAIN w : fires[i]}
    OBVIOUS
  <2>2. Cardinality({}) = 0
    BY FS_EmptySet
  <2>3. F # {}
    BY <2>1, <2>2
  <2>4. G # {}
    BY <1>12, <2>1, <2>3
  <2> QED  BY <1>10, <2>4, FS_EmptySet
<1> QED  BY <1>3, <1>4, <1>11, <1>13

\* The pool of a file is in order within each UE, and so are its benign windows.
LEMMA BenignOrdered ==
  ASSUME NEW rows, Stamped(rows), NEW w, w = Pool(rows), NEW b, b = Benign(w)
  PROVE  OrderedWindows(b)
<1>1. AreWindows(w)
  BY PoolAreWindows
<1>2. PICK P : P = BenignPlaces(w)
  OBVIOUS
<1>3. PICK place : place = Ascending(P)
  OBVIOUS
<1>4. PICK n \in Nat : n = Cardinality(P)
  BY <1>1, <1>2, <1>3, BenignIs
<1>5. /\ P \subseteq DOMAIN w /\ DOMAIN b = 1..n /\ AreWindows(b)
      /\ \A k \in 1..n : b[k] = w[place[k]] /\ place[k] \in P
      /\ \A k, l \in 1..n : k < l <=> place[k] < place[l]
  BY <1>1, <1>2, <1>3, <1>4, BenignIs
<1>6. /\ DOMAIN w = 1..Len(w) /\ Len(w) \in Nat
      /\ \A p, q \in 1..Len(w) : p < q => w[p].ue < w[q].ue \/ (w[p].ue = w[q].ue /\ w[p].ts < w[q].ts)
      /\ \A p \in 1..Len(w) : w[p].ue \in Nat
  BY PoolStamped
<1>7. ASSUME NEW k \in 1..n, NEW l \in 1..n, k < l, b[k].ue = b[l].ue PROVE b[k].ts < b[l].ts
  <2>1. PICK p \in 1..Len(w), q \in 1..Len(w) : p = place[k] /\ q = place[l]
    BY <1>5, <1>6
  <2>2. p < q /\ b[k] = w[p] /\ b[l] = w[q]
    BY <1>5, <1>7, <2>1
  <2>3. PICK u \in Nat : u = w[p].ue /\ u = w[q].ue
    BY <1>6, <1>7, <2>2
  <2>4. u < u \/ w[p].ts < w[q].ts
    BY <1>6, <2>2, <2>3
  <2> QED  BY <2>2, <2>4
<1> QED  BY <1>5, <1>7 DEF OrderedWindows

LEMMA InvAlerts == CsvInv => AlertsExplained
<1> SUFFICES ASSUME CsvInv PROVE AlertsExplained
  OBVIOUS
<1>1. PICK w : w = Pool(csv)
  OBVIOUS
<1>2. PICK b, thr : b = Benign(w) /\ thr = ThresholdOn(b)
  OBVIOUS
<1>3. OrderedWindows(b)
  <2>1. PICK rows : rows = csv
    OBVIOUS
  <2>2. Stamped(rows)
    BY <2>1 DEF CsvInv
  <2> QED  BY <1>1, <1>2, <2>1, <2>2, BenignOrdered
<1>4. PICK fires : fires = HybridAt(b, thr)
  OBVIOUS
<1>5. PICK d : d = EpisodeDurations(b, fires)
  OBVIOUS
<1>6. /\ Len(d) = CountEpisodes(b, fires)
      /\ Cardinality(Alerts(b, fires)) <= Len(d) + SumOf(Quotients(d))
      /\ Cardinality({i \in DOMAIN b : fires[i]}) > 0 => Cardinality(Alerts(b, fires)) > 0
  BY <1>3, <1>5, AlertsFitDurations
<1>7. Evaluated.fpr = FprReport(b, fires)
  BY <1>1, <1>2, <1>4 DEF Evaluated, EvaluateAtTarget
<1>8. PICK r : r = Evaluated.fpr
  OBVIOUS
<1>9. /\ r.fired = Cardinality({i \in DOMAIN b : fires[i]}) /\ r.episodes = CountEpisodes(b, fires)
      /\ r.durations = d /\ r.alerts = Cardinality(Alerts(b, fires))
  BY <1>5, <1>7, <1>8 DEF FprReport
<1>10. SumOf([k \in DOMAIN r.durations |-> r.durations[k] \div Cooldown]) = SumOf(Quotients(d))
  BY <1>9 DEF Quotients
<1> QED  BY <1>6, <1>8, <1>9, <1>10 DEF AlertsExplained

(* Alerts and episodes account for each other and for the false alarms of   *)
(* any file (count_episodes, episode_durations_s, cooldown_alerts and       *)
(* fpr_report of eval_opsi_b.py), and the threshold the account is given at *)
(* is the lowest that keeps the target (calibrate_hybrid_threshold).        *)
THEOREM AlarmsHold == EvalSpec => [](AlertsExplained /\ EpisodesAcrossAttacks /\ CalibratedLowest)
<1>1. CsvInv => AlertsExplained /\ EpisodesAcrossAttacks /\ CalibratedLowest
  BY InvAlerts, InvEpisodes, InvCalibrated
<1> QED  BY <1>1, CsvInvHolds, PTL

-----------------------------------------------------------------------------
(* Sorted scores and their percentiles                                     *)

Permille == 0..1000

LEMMA SweepConstants ==
  /\ Percentiles \subseteq Permille /\ MaxFpr \in Nat /\ LinSteps \in Nat /\ LinSteps >= 2
  /\ Roq \in Nat /\ Roq > 0 /\ RoqRule \in DOMAIN Need /\ RoqNeed \in 1..Need[RoqRule]
  /\ SkippedRows \in Nat /\ CurrentThresh \in Nat
<1>1. \A n \in Nat \ {0, 1} : n \in Nat /\ n >= 2
  OBVIOUS
<1>2. \A n \in Nat \ {0} : n \in Nat /\ n > 0
  OBVIOUS
<1>3. \A n \in 0..1000 : n \in Nat
  OBVIOUS
<1> QED  BY <1>1, <1>2, <1>3, SweepAssumption DEF Permille

\* Places of s with a value below x, and up to x.
PlacesBelow(s, x) == {i \in DOMAIN s : s[i] < x}
PlacesUpTo(s, x) == {i \in DOMAIN s : s[i] <= x}
\* x is the value at place k of the sorted s.
AtPlace(s, k, x) ==
  /\ x \in ToSet(s) /\ Cardinality(PlacesBelow(s, x)) < k /\ Cardinality(PlacesUpTo(s, x)) >= k

LEMMA PlacesFinite ==
  ASSUME NEW s \in Seq(Nat), NEW P, P \subseteq DOMAIN s
  PROVE  IsFiniteSet(P) /\ Cardinality(P) \in Nat /\ Cardinality(P) <= Len(s)
<1>1. Len(s) \in Nat /\ DOMAIN s = 1..Len(s)
  BY LenProperties
<1>2. IsFiniteSet(1..Len(s)) /\ Cardinality(1..Len(s)) = Len(s)
  <2>1. PICK n \in Nat : n = Len(s)
    BY <1>1
  <2>2. IsFiniteSet(1..n) /\ Cardinality(1..n) = n
    BY FS_Interval
  <2> QED  BY <2>1, <2>2, SMTT(30)
<1> QED  BY <1>1, <1>2, FS_Subset, FS_CardinalityType

LEMMA SeqBounded ==
  ASSUME NEW s \in Seq(Nat)
  PROVE  \E m \in Nat : \A i \in 1..Len(s) : s[i] <= m
<1>1. Len(s) \in Nat /\ \A i \in 1..Len(s) : s[i] \in Nat
  BY LenProperties, ElementOfSeq
<1> DEFINE Q == {n \in Nat : n <= Len(s) => \E m \in Nat : \A i \in 1..n : s[i] <= m}
<1>2. 0 \in Q
  <2>1. \A i \in 1..0 : s[i] <= 0
    OBVIOUS
  <2> QED  BY <2>1
<1>3. ASSUME NEW n \in Nat, n \in Q PROVE n + 1 \in Q
  <2> SUFFICES ASSUME n + 1 <= Len(s) PROVE \E m \in Nat : \A i \in 1..(n + 1) : s[i] <= m
    OBVIOUS
  <2>1. PICK m \in Nat : \A i \in 1..n : s[i] <= m
    BY <1>1, <1>3
  <2>2. PICK y \in Nat : y = s[n + 1]
    BY <1>1
  <2>3. \A i \in 1..(n + 1) : i \in 1..n \/ i = n + 1
    OBVIOUS
  <2>4. \A i \in 1..(n + 1) : s[i] \in Nat
    BY <1>1
  <2>5. m + y \in Nat /\ \A i \in 1..(n + 1) : s[i] <= m + y
    BY <2>1, <2>2, <2>3, <2>4
  <2>6. PICK z \in Nat : z = m + y
    BY <2>5
  <2> QED  BY <2>5, <2>6
<1> HIDE DEF Q
<1>4. \A n \in Nat : n \in Q
  BY <1>2, <1>3, AllNaturals
<1>5. PICK n \in Nat : n = Len(s)
  BY <1>1
<1>6. n \in Q /\ n <= n
  BY <1>4, <1>5
<1> QED  BY <1>5, <1>6 DEF Q

LEMMA PlaceHasValue ==
  ASSUME NEW s \in Seq(Nat), NEW k \in 1..Len(s)
  PROVE  \E x : AtPlace(s, k, x)
<1>1. Len(s) \in Nat /\ DOMAIN s = 1..Len(s) /\ \A i \in 1..Len(s) : s[i] \in Nat
  BY LenProperties, ElementOfSeq
<1> DEFINE V == ToSet(s)
           H == {x \in V : Cardinality(PlacesUpTo(s, x)) >= k}
<1>2. \A i \in 1..Len(s) : s[i] \in V
  BY <1>1 DEF ToSet
<1>3. \A x \in V : x \in Nat /\ \E i \in 1..Len(s) : x = s[i]
  BY <1>1 DEF ToSet
<1>4. H # {}
  <2> DEFINE N == {m \in Nat : \A x \in V : x <= m}
  <2>4. PICK m \in Nat : \A i \in 1..Len(s) : s[i] <= m
    BY SeqBounded
  <2>5. V \subseteq Nat /\ s[k] \in V /\ s[k] <= m
    BY <1>2, <1>3, <2>4
  <2>6. PICK g \in V : \A y \in V : y <= m => y <= g
    BY <2>5, GreatestBelow
  <2>7. \A i \in 1..Len(s) : s[i] <= g
    BY <1>2, <2>4, <2>6
  <2>8. PlacesUpTo(s, g) = 1..Len(s)
    BY <1>1, <2>7 DEF PlacesUpTo
  <2>9. Cardinality(1..Len(s)) = Len(s)
    <3>1. PICK n \in Nat : n = Len(s)
      BY <1>1
    <3>2. Cardinality(1..n) = n
      BY FS_Interval
    <3> QED  BY <3>1, <3>2, SMTT(30)
  <2> QED  BY <1>1, <2>6, <2>8, <2>9
<1>5. PICK x \in H : \A y \in H : x <= y
  BY <1>3, <1>4, LeastExists
<1>6. Cardinality(PlacesBelow(s, x)) < k
  <2>1. CASE PlacesBelow(s, x) = {}
    BY <2>1, FS_EmptySet
  <2>2. CASE PlacesBelow(s, x) # {}
    <3>1. PICK i \in 1..Len(s) : s[i] < x
      BY <1>1, <2>2 DEF PlacesBelow
    <3>2. x \in Nat /\ x - 1 \in Nat /\ s[i] \in V /\ s[i] <= x - 1 /\ V \subseteq Nat
      BY <1>1, <1>2, <1>3, <1>5, <3>1
    <3>3. PICK y \in V : y <= x - 1 /\ \A z \in V : z <= x - 1 => z <= y
      BY <3>2, GreatestBelow
    <3>4. PlacesBelow(s, x) \subseteq PlacesUpTo(s, y)
      <4>1. ASSUME NEW j \in 1..Len(s), s[j] < x PROVE s[j] <= y
        BY <1>1, <1>2, <3>2, <3>3, <4>1
      <4> QED  BY <1>1, <4>1 DEF PlacesBelow, PlacesUpTo
    <3>5. PlacesUpTo(s, y) \subseteq DOMAIN s
      BY DEF PlacesUpTo
    <3>6. PlacesBelow(s, x) \subseteq DOMAIN s
      BY DEF PlacesBelow
    <3>7. Cardinality(PlacesBelow(s, x)) <= Cardinality(PlacesUpTo(s, y))
      BY <3>4, <3>5, FS_Subset, PlacesFinite
    <3>8. y \notin H
      BY <1>3, <1>5, <3>2, <3>3
    <3>9. Cardinality(PlacesUpTo(s, y)) \in Nat /\ Cardinality(PlacesBelow(s, x)) \in Nat
      BY <3>5, <3>6, PlacesFinite
    <3> QED  BY <3>3, <3>7, <3>8, <3>9
  <2> QED  BY <2>1, <2>2
<1> QED  BY <1>5, <1>6 DEF AtPlace

\* Sorting keeps the length and the values, and puts them in order.
LEMMA SortedIs ==
  ASSUME NEW s \in Seq(Nat)
  PROVE  /\ Sorted(s) \in Seq(Nat) /\ Len(Sorted(s)) = Len(s) /\ DOMAIN Sorted(s) = 1..Len(s)
         /\ \A k \in 1..Len(s) : AtPlace(s, k, Sorted(s)[k])
         /\ \A k, l \in 1..Len(s) : k <= l => Sorted(s)[k] <= Sorted(s)[l]
<1>1. Len(s) \in Nat /\ DOMAIN s = 1..Len(s) /\ \A i \in 1..Len(s) : s[i] \in Nat
  BY LenProperties, ElementOfSeq
<1>2. PICK t : t = Sorted(s)
  OBVIOUS
<1>3. t = [k \in 1..Len(s) |-> CHOOSE x \in ToSet(s) : Cardinality(PlacesBelow(s, x)) < k
                                                 /\ Cardinality(PlacesUpTo(s, x)) >= k]
  BY <1>1, <1>2 DEF Sorted, PlacesBelow, PlacesUpTo
<1>4. ASSUME NEW k \in 1..Len(s) PROVE AtPlace(s, k, t[k]) /\ t[k] \in Nat
  <2>1. \E x : AtPlace(s, k, x)
    BY PlaceHasValue
  <2>2. t[k] = CHOOSE x \in ToSet(s) : Cardinality(PlacesBelow(s, x)) < k
                                         /\ Cardinality(PlacesUpTo(s, x)) >= k
    BY <1>3
  <2>3. AtPlace(s, k, t[k])
    BY <2>1, <2>2, Zenon DEF AtPlace
  <2> QED  BY <1>1, <2>3 DEF AtPlace, ToSet
<1>5. t \in [1..Len(s) -> Nat]
  BY <1>3, <1>4
<1>6. t \in Seq(Nat) /\ Len(t) = Len(s) /\ DOMAIN t = 1..Len(s)
  BY <1>1, <1>5, IsASeq, LenProperties
<1>7. ASSUME NEW k \in 1..Len(s), NEW l \in 1..Len(s), k <= l PROVE t[k] <= t[l]
  <2>1. PICK x \in Nat, y \in Nat : x = t[k] /\ y = t[l]
    BY <1>4
  <2> SUFFICES ASSUME y < x PROVE FALSE
    BY <2>1
  <2>2. Cardinality(PlacesBelow(s, x)) < k /\ Cardinality(PlacesUpTo(s, y)) >= l
    BY <1>4, <2>1 DEF AtPlace
  <2>3. PlacesUpTo(s, y) \subseteq PlacesBelow(s, x) /\ PlacesBelow(s, x) \subseteq DOMAIN s
        /\ PlacesUpTo(s, y) \subseteq DOMAIN s
    BY <1>1 DEF PlacesUpTo, PlacesBelow
  <2>4. PICK a \in Nat, b \in Nat : a = Cardinality(PlacesUpTo(s, y)) /\ b = Cardinality(PlacesBelow(s, x))
    BY <2>3, PlacesFinite
  <2>5. a <= b
    BY <2>3, <2>4, PlacesFinite, FS_Subset
  <2> QED  BY <1>7, <2>2, <2>4, <2>5
<1> QED  BY <1>2, <1>4, <1>6, <1>7

LEMMA TimesGrows ==
  ASSUME NEW a \in Nat, NEW b \in Nat, a <= b, NEW c \in Nat
  PROVE  a * c <= b * c /\ a * c \in Nat /\ b * c \in Nat
<1>1. PICK d \in Nat : b = a + d
  <2>1. b - a \in Nat /\ b = a + (b - a)
    OBVIOUS
  <2> QED  BY <2>1
<1>2. b * c = a * c + d * c /\ d * c \in Nat /\ a * c \in Nat
  BY <1>1
<1> QED  BY <1>2

\* The place of percentile p among n scores: d whole ones and r in a thousand.
PercentilePlace(p, n, d, r) ==
  /\ d \in Nat /\ r \in Nat /\ r < 1000 /\ p * (n - 1) = 1000 * d + r /\ d + 1 <= n
  /\ d = (p * (n - 1)) \div 1000 /\ r = (p * (n - 1)) % 1000
InProportion(lower, upper, r) == 1000 * lower + r * (upper - lower)
UpperPlace(n, d) == IF d + 2 <= n THEN d + 2 ELSE n

LEMMA PlaceOfPercentile ==
  ASSUME NEW p \in Permille, NEW n \in Nat, n > 0
  PROVE  \E d, r \in Nat : PercentilePlace(p, n, d, r)
<1>1. n - 1 \in Nat /\ p \in Nat /\ p <= 1000
  BY DEF Permille
<1>2. p * (n - 1) <= 1000 * (n - 1) /\ p * (n - 1) \in Nat
  BY <1>1, TimesGrows
<1>3. PICK x \in Nat : x = p * (n - 1)
  BY <1>2
<1>4. x \div 1000 \in Nat /\ x % 1000 \in Nat /\ x % 1000 < 1000 /\ x = 1000 * (x \div 1000) + (x % 1000)
  OBVIOUS
<1>5. x \div 1000 <= n - 1
  BY <1>2, <1>3, <1>4
<1> QED  BY <1>3, <1>4, <1>5 DEF PercentilePlace

LEMMA InProportionIs ==
  ASSUME NEW l \in Nat, NEW u \in Nat, l <= u, NEW r \in Nat, r <= 1000
  PROVE  /\ InProportion(l, u, r) \in Nat
         /\ 1000 * l <= InProportion(l, u, r) /\ InProportion(l, u, r) <= 1000 * u
         /\ \A q \in Nat : r <= q => InProportion(l, u, r) <= InProportion(l, u, q)
<1>1. PICK d \in Nat : d = u - l
  <2>1. u - l \in Nat
    OBVIOUS
  <2> QED  BY <2>1
<1>2. r * d <= 1000 * d /\ r * d \in Nat
  BY TimesGrows
<1>3. \A q \in Nat : InProportion(l, u, q) = 1000 * l + q * d
  BY <1>1 DEF InProportion
<1>4. 1000 * d = 1000 * u - 1000 * l
  BY <1>1
<1>5. ASSUME NEW q \in Nat, r <= q PROVE InProportion(l, u, r) <= InProportion(l, u, q)
  <2>1. r * d <= q * d /\ q * d \in Nat
    BY <1>5, TimesGrows
  <2> QED  BY <1>2, <1>3, <2>1
<1> QED  BY <1>2, <1>3, <1>4, <1>5

ScoresAt(s, n, d, l, u) == l = s[d + 1] /\ u = s[UpperPlace(n, d)]

PercentileBetween(s, n, p, d, r, l, u) ==
  /\ Percentile(s, p) = (LinSteps - 1) * InProportion(l, u, r)
  /\ l \in Nat /\ u \in Nat /\ l <= u
  /\ d + 1 \in 1..n /\ UpperPlace(n, d) \in 1..n

\* Scores in order.
InOrderAll(s) == s \in Seq(Nat) /\ \A k, l \in 1..Len(s) : k <= l => s[k] <= s[l]

LEMMA PercentileIs ==
  ASSUME NEW s, InOrderAll(s), NEW n \in Nat, n = Len(s), n > 0, NEW p \in Permille, NEW d \in Nat, NEW r \in Nat,
         PercentilePlace(p, n, d, r), NEW l, NEW u, ScoresAt(s, n, d, l, u)
  PROVE  PercentileBetween(s, n, p, d, r, l, u)
<1>1. /\ d \in Nat /\ r \in Nat /\ d + 1 <= n
      /\ d = (p * (n - 1)) \div 1000 /\ r = (p * (n - 1)) % 1000
  BY DEF PercentilePlace
<1>2. Min({n, d + 2}) = UpperPlace(n, d)
  <2>1. PICK e \in Nat : e = d + 2
    BY <1>1
  <2>2. (n <= e => Min({n, e}) = n) /\ (e <= n => Min({n, e}) = e)
    BY MinOfTwo
  <2> QED  BY <1>1, <2>1, <2>2 DEF UpperPlace
<1>3. d + 1 \in 1..n /\ UpperPlace(n, d) \in 1..n /\ d + 1 <= UpperPlace(n, d)
  BY <1>1 DEF UpperPlace
<1>4. l \in Nat /\ u \in Nat /\ l <= u
  BY <1>3, ElementOfSeq DEF InOrderAll, ScoresAt
<1>5. Percentile(s, p) = (LinSteps - 1) * (1000 * l + r * (u - l))
  BY <1>1, <1>2 DEF Percentile, ScoresAt
<1> QED  BY <1>3, <1>4, <1>5 DEF InProportion, PercentileBetween

\* A higher percentile is no lower a score.
LEMMA PercentileGrows ==
  ASSUME NEW s, InOrderAll(s), Len(s) > 0, NEW p \in Permille, NEW q \in Permille, p <= q
  PROVE  /\ Percentile(s, p) \in Nat /\ Percentile(s, q) \in Nat
         /\ Percentile(s, p) <= Percentile(s, q)
<1>1. PICK n \in Nat : n = Len(s) /\ n > 0
  BY LenProperties DEF InOrderAll
<1>2. PICK d, r \in Nat : PercentilePlace(p, n, d, r)
  BY <1>1, PlaceOfPercentile
<1>3. PICK e, t \in Nat : PercentilePlace(q, n, e, t)
  BY <1>1, PlaceOfPercentile
<1>4. PICK l, u : ScoresAt(s, n, d, l, u)
  BY DEF ScoresAt
<1>5. PICK a, b : ScoresAt(s, n, e, a, b)
  BY DEF ScoresAt
<1>6. /\ Percentile(s, p) = (LinSteps - 1) * InProportion(l, u, r)
      /\ l \in Nat /\ u \in Nat /\ l <= u
      /\ d + 1 \in 1..n /\ UpperPlace(n, d) \in 1..n
  <2>1. PercentileBetween(s, n, p, d, r, l, u)
    BY <1>1, <1>2, <1>4, PercentileIs, ZenonT(30)
  <2> QED  BY <2>1 DEF PercentileBetween
<1>7. /\ Percentile(s, q) = (LinSteps - 1) * InProportion(a, b, t)
      /\ a \in Nat /\ b \in Nat /\ a <= b
      /\ e + 1 \in 1..n /\ UpperPlace(n, e) \in 1..n
  <2>1. PercentileBetween(s, n, q, e, t, a, b)
    BY <1>1, <1>3, <1>5, PercentileIs, ZenonT(30)
  <2> QED  BY <2>1 DEF PercentileBetween
<1>8. d \in Nat /\ r \in Nat /\ e \in Nat /\ t \in Nat /\ r <= 1000 /\ t <= 1000 /\ r < 1000 /\ t < 1000
  <2>1. d \in Nat /\ r \in Nat /\ r < 1000
    BY <1>2 DEF PercentilePlace
  <2>2. e \in Nat /\ t \in Nat /\ t < 1000
    BY <1>3 DEF PercentilePlace
  <2> QED  BY <2>1, <2>2
<1>9. 1000 * d + r <= 1000 * e + t
  <2>1. n - 1 \in Nat /\ p \in Nat /\ q \in Nat
    BY <1>1 DEF Permille
  <2>2. p * (n - 1) <= q * (n - 1)
    BY <2>1, TimesGrows
  <2> QED  BY <1>2, <1>3, <2>2 DEF PercentilePlace
<1>10. /\ InProportion(l, u, r) \in Nat /\ InProportion(a, b, t) \in Nat
       /\ 1000 * a <= InProportion(a, b, t) /\ InProportion(l, u, r) <= 1000 * u
       /\ r <= t => InProportion(l, u, r) <= InProportion(l, u, t)
  BY <1>6, <1>7, <1>8, InProportionIs
<1>11. InProportion(l, u, r) <= InProportion(a, b, t)
  <2>1. CASE d = e
    <3>1. r <= t /\ l = a /\ u = b
      BY <1>4, <1>5, <1>8, <1>9, <2>1 DEF ScoresAt
    <3> QED  BY <1>10, <3>1
  <2>2. CASE d < e
    <3>1. d + 2 <= e + 1 /\ e + 1 <= n /\ d + 2 \in 1..n /\ UpperPlace(n, d) = d + 2
      BY <1>1, <1>7, <1>8, <2>2 DEF UpperPlace
    <3>2. u <= a
      BY <1>1, <1>4, <1>5, <1>7, <3>1 DEF InOrderAll, ScoresAt
    <3>3. 1000 * u <= 1000 * a
      BY <1>6, <1>7, <3>2
    <3>4. PICK x \in Nat, y \in Nat : x = InProportion(l, u, r) /\ y = InProportion(a, b, t)
      BY <1>10
    <3>5. x <= 1000 * u /\ 1000 * u <= 1000 * a /\ 1000 * a <= y /\ 1000 * u \in Nat /\ 1000 * a \in Nat
      BY <1>6, <1>7, <1>10, <3>3, <3>4
    <3> QED  BY <3>4, <3>5
  <2>3. d <= e
    BY <1>8, <1>9
  <2> QED  BY <1>8, <2>1, <2>2, <2>3
<1>12. PICK x \in Nat, y \in Nat, c \in Nat :
          x = InProportion(l, u, r) /\ y = InProportion(a, b, t) /\ c = LinSteps - 1
  <2>1. LinSteps - 1 \in Nat
    BY SweepConstants
  <2> QED  BY <1>10, <2>1
<1>13. x * c <= y * c /\ x * c \in Nat /\ y * c \in Nat
  BY <1>11, <1>12, TimesGrows
<1>14. Percentile(s, p) = x * c /\ Percentile(s, q) = y * c
  <2>1. Percentile(s, p) = c * x /\ Percentile(s, q) = c * y
    BY <1>6, <1>7, <1>12
  <2>2. c * x = x * c /\ c * y = y * c
    OBVIOUS
  <2> QED  BY <2>1, <2>2
<1> QED  BY <1>13, <1>14

-----------------------------------------------------------------------------
(* The pools of the three scripts                                          *)

\* Windows of the UEs in U, one sequence for each.
LEMMA WindowBlocks ==
  ASSUME NEW rows, HasUes(rows), NEW U, U \subseteq UeSet(rows), NEW seqs,
         DOMAIN seqs = DOMAIN Ascending(U),
         \A b \in DOMAIN Ascending(U) :
           seqs[b] = [k \in 1..(Len(SplitByRnti(rows, Ascending(U)[b])) - W + 1) |-> seqs[b][k]],
         seqs = [b \in DOMAIN seqs |-> seqs[b]]
  PROVE  AreBlocksOf(seqs, rows, U)
<1>1. PICK B \in Nat : B = Len(Ascending(U)) /\ DOMAIN Ascending(U) = 1..B
  BY SomeUesAre
<1>2. W \in Nat /\ W > 0
  BY EvalConstants
<1> DEFINE group(b) == SplitByRnti(rows, Ascending(U)[b])
           T == {seqs[b][k] : b \in 1..B, k \in Int}
<1>3. ASSUME NEW b \in 1..B
      PROVE  seqs[b] \in Seq(T) /\ Len(seqs[b]) = BlockLen(group(b))
  <2>1. Len(group(b)) \in Nat
    BY GroupIs
  <2>2. PICK m \in Nat : m = BlockLen(group(b)) /\ 1..(Len(group(b)) - W + 1) = 1..m
    BY <1>2, <2>1 DEF BlockLen
  <2>3. PICK s : s = seqs[b]
    OBVIOUS
  <2>4. s = [k \in 1..m |-> s[k]]
    BY <1>1, <2>2, <2>3
  <2>5. \A k \in 1..m : s[k] \in T
    BY <2>3
  <2> HIDE DEF T
  <2>6. s \in [1..m -> T]
    BY <2>4, <2>5
  <2>7. s \in Seq(T) /\ Len(s) = m
    BY <2>6, IsASeq, LenProperties
  <2> QED  BY <2>2, <2>3, <2>7
<1> HIDE DEF T
<1>4. seqs \in [1..B -> Seq(T)]
  BY <1>1, <1>3
<1>5. seqs \in Seq(Seq(T)) /\ Len(seqs) = B
  BY <1>4, IsASeq, LenProperties
<1> QED  BY <1>1, <1>3, <1>5 DEF AreBlocksOf

\* Where the window that ends in a row is among those of its UE.
LEMMA WindowInBlock ==
  ASSUME NEW rows, HasUes(rows), NEW U, HoldsWindows(U, rows), NEW i \in WindowRows(rows),
         NEW ue, ue = rows[i].ue, NEW b, b = PlaceIn(U, ue), NEW k, k = Nth(rows, i) - W + 1
  PROVE  /\ b \in DOMAIN Ascending(U) /\ Ascending(U)[b] = ue
         /\ k \in 1..(Len(SplitByRnti(rows, ue)) - W + 1) /\ k + W - 1 = Nth(rows, i)
<1>1. i \in DOMAIN rows /\ Nth(rows, i) >= W
  BY DEF WindowRows
<1>2. ue \in U /\ U \subseteq UeSet(rows)
  BY DEF HoldsWindows
<1>3. b \in DOMAIN Ascending(U) /\ Ascending(U)[b] = ue
  BY <1>2, SomeUesAre
<1>4. PICK len \in Nat : len = Len(SplitByRnti(rows, ue))
  BY GroupIs
<1>5. PICK n \in 1..len : n = Nth(rows, i)
  BY <1>1, <1>4, NthIs
<1>6. W \in Nat /\ W > 0
  BY EvalConstants
<1>7. k \in 1..(len - W + 1) /\ k + W - 1 = n
  BY <1>1, <1>5, <1>6
<1> QED  BY <1>3, <1>4, <1>5, <1>7

LstmRowWindow(rows, i) == LstmWindow(SplitByRnti(rows, rows[i].ue), Nth(rows, i))
GruRowWindow(rows, i) == GruWindow(SplitByRnti(rows, rows[i].ue), Nth(rows, i))

LEMMA AllUesHoldWindows ==
  ASSUME NEW rows, HasUes(rows)
  PROVE  HoldsWindows(UeSet(rows), rows)
BY DEF HoldsWindows, WindowRows, UeSet

LEMMA LstmPoolIs ==
  ASSUME NEW rows, HasUes(rows)
  PROVE  /\ \E T : LstmPool(rows) \in Seq(T)
         /\ \E at : /\ PoolOrder(at, Len(LstmPool(rows)), rows)
                    /\ \A p \in 1..Len(LstmPool(rows)) : LstmPool(rows)[p] = LstmRowWindow(rows, at[p])
<1>1. PICK U : U = UeSet(rows)
  OBVIOUS
<1>2. HoldsWindows(U, rows) /\ U \subseteq UeSet(rows) /\ Ues(rows) = Ascending(U)
  BY <1>1, AllUesHoldWindows DEF Ues
<1>3. PICK seqs : seqs = [b \in DOMAIN Ascending(U) |-> LstmWindows(SplitByRnti(rows, Ascending(U)[b]))]
  OBVIOUS
<1>4. LstmPool(rows) = FlattenSeq(seqs)
  BY <1>2, <1>3 DEF LstmPool
<1>5. \A b \in DOMAIN Ascending(U) :
        seqs[b] = [k \in 1..(Len(SplitByRnti(rows, Ascending(U)[b])) - W + 1) |->
                     LstmWindow(SplitByRnti(rows, Ascending(U)[b]), k + W - 1)]
  BY <1>3 DEF LstmWindows
<1>6. AreBlocksOf(seqs, rows, U)
  <2>1. \A b \in DOMAIN Ascending(U) :
          seqs[b] = [k \in 1..(Len(SplitByRnti(rows, Ascending(U)[b])) - W + 1) |-> seqs[b][k]]
    BY <1>5
  <2>2. seqs = [b \in DOMAIN seqs |-> seqs[b]] /\ DOMAIN seqs = DOMAIN Ascending(U)
    BY <1>3
  <2> QED  BY <1>2, <2>1, <2>2, WindowBlocks
<1>7. /\ \E T : FlattenSeq(seqs) \in Seq(T)
      /\ \E at : /\ PoolOrder(at, Len(FlattenSeq(seqs)), rows)
                 /\ \A p \in 1..Len(FlattenSeq(seqs)) :
                      /\ PlaceIn(U, rows[at[p]].ue) \in 1..Len(seqs)
                      /\ FlattenSeq(seqs)[p] = seqs[PlaceIn(U, rows[at[p]].ue)][Nth(rows, at[p]) - W + 1]
  BY <1>2, <1>6, PoolPlacesOf
<1>8. PICK at : /\ PoolOrder(at, Len(LstmPool(rows)), rows)
                /\ \A p \in 1..Len(LstmPool(rows)) :
                     LstmPool(rows)[p] = seqs[PlaceIn(U, rows[at[p]].ue)][Nth(rows, at[p]) - W + 1]
  BY <1>4, <1>7
<1>9. ASSUME NEW p \in 1..Len(LstmPool(rows)) PROVE LstmPool(rows)[p] = LstmRowWindow(rows, at[p])
  <2>1. PICK i \in WindowRows(rows) : i = at[p]
    BY <1>8 DEF PoolOrder
  <2>2. PICK ue, b, k : ue = rows[i].ue /\ b = PlaceIn(U, ue) /\ k = Nth(rows, i) - W + 1
    OBVIOUS
  <2>3. /\ b \in DOMAIN Ascending(U) /\ Ascending(U)[b] = ue
        /\ k \in 1..(Len(SplitByRnti(rows, ue)) - W + 1) /\ k + W - 1 = Nth(rows, i)
    BY <1>2, <2>2, WindowInBlock
  <2>4. LstmPool(rows)[p] = seqs[b][k]
    BY <1>8, <2>1, <2>2
  <2>5. seqs[b] = [j \in 1..(Len(SplitByRnti(rows, ue)) - W + 1) |->
                     LstmWindow(SplitByRnti(rows, ue), j + W - 1)]
    BY <1>5, <2>3
  <2>6. seqs[b][k] = LstmWindow(SplitByRnti(rows, ue), k + W - 1)
    BY <2>3, <2>5
  <2> QED  BY <2>1, <2>2, <2>3, <2>4, <2>6 DEF LstmRowWindow
<1> QED  BY <1>4, <1>7, <1>8, <1>9

GruWindowsOf(group) == [k \in 1..(Len(group) - W + 1) |-> GruWindow(group, k + W - 1)]
LEMMA GruPoolIs ==
  ASSUME NEW rows, HasUes(rows)
  PROVE  /\ \E T : GruPool(rows) \in Seq(T)
         /\ \E at : /\ PoolOrder(at, Len(GruPool(rows)), rows)
                    /\ \A p \in 1..Len(GruPool(rows)) : GruPool(rows)[p] = GruRowWindow(rows, at[p])
<1>1. PICK U : U = UeSet(rows)
  OBVIOUS
<1>2. HoldsWindows(U, rows) /\ U \subseteq UeSet(rows) /\ Ues(rows) = Ascending(U)
  BY <1>1, AllUesHoldWindows DEF Ues
<1>3. PICK seqs : seqs = [b \in DOMAIN Ascending(U) |-> GruWindowsOf(SplitByRnti(rows, Ascending(U)[b]))]
  OBVIOUS
<1>4. GruPool(rows) = FlattenSeq(seqs)
  BY <1>2, <1>3 DEF GruPool, GruWindowsOf
<1>5. \A b \in DOMAIN Ascending(U) :
        seqs[b] = [k \in 1..(Len(SplitByRnti(rows, Ascending(U)[b])) - W + 1) |->
                     GruWindow(SplitByRnti(rows, Ascending(U)[b]), k + W - 1)]
  BY <1>3 DEF GruWindowsOf
<1>6. AreBlocksOf(seqs, rows, U)
  <2>1. \A b \in DOMAIN Ascending(U) :
          seqs[b] = [k \in 1..(Len(SplitByRnti(rows, Ascending(U)[b])) - W + 1) |-> seqs[b][k]]
    BY <1>5
  <2>2. seqs = [b \in DOMAIN seqs |-> seqs[b]] /\ DOMAIN seqs = DOMAIN Ascending(U)
    BY <1>3
  <2> QED  BY <1>2, <2>1, <2>2, WindowBlocks
<1>7. /\ \E T : FlattenSeq(seqs) \in Seq(T)
      /\ \E at : /\ PoolOrder(at, Len(FlattenSeq(seqs)), rows)
                 /\ \A p \in 1..Len(FlattenSeq(seqs)) :
                      /\ PlaceIn(U, rows[at[p]].ue) \in 1..Len(seqs)
                      /\ FlattenSeq(seqs)[p] = seqs[PlaceIn(U, rows[at[p]].ue)][Nth(rows, at[p]) - W + 1]
  BY <1>2, <1>6, PoolPlacesOf
<1>8. PICK at : /\ PoolOrder(at, Len(GruPool(rows)), rows)
                /\ \A p \in 1..Len(GruPool(rows)) :
                     GruPool(rows)[p] = seqs[PlaceIn(U, rows[at[p]].ue)][Nth(rows, at[p]) - W + 1]
  BY <1>4, <1>7
<1>9. ASSUME NEW p \in 1..Len(GruPool(rows)) PROVE GruPool(rows)[p] = GruRowWindow(rows, at[p])
  <2>1. PICK i \in WindowRows(rows) : i = at[p]
    BY <1>8 DEF PoolOrder
  <2>2. PICK ue, b, k : ue = rows[i].ue /\ b = PlaceIn(U, ue) /\ k = Nth(rows, i) - W + 1
    OBVIOUS
  <2>3. /\ b \in DOMAIN Ascending(U) /\ Ascending(U)[b] = ue
        /\ k \in 1..(Len(SplitByRnti(rows, ue)) - W + 1) /\ k + W - 1 = Nth(rows, i)
    BY <1>2, <2>2, WindowInBlock
  <2>4. GruPool(rows)[p] = seqs[b][k]
    BY <1>8, <2>1, <2>2
  <2>5. seqs[b] = [j \in 1..(Len(SplitByRnti(rows, ue)) - W + 1) |->
                     GruWindow(SplitByRnti(rows, ue), j + W - 1)]
    BY <1>5, <2>3
  <2>6. seqs[b][k] = GruWindow(SplitByRnti(rows, ue), k + W - 1)
    BY <2>3, <2>5
  <2> QED  BY <2>1, <2>2, <2>3, <2>4, <2>6 DEF GruRowWindow
<1> QED  BY <1>4, <1>7, <1>8, <1>9

\* The benign rows of the file.
LEMMA ValRowsAre ==
  ASSUME CsvInv, NEW v, v = ValRows
  PROVE  HasUes(v) /\ \A i \in DOMAIN v : v[i] \in CsvRow /\ v[i].label = 0
<1>1. PICK rows : rows = csv
  OBVIOUS
<1>2. PICK P : P = {i \in DOMAIN rows : rows[i].label = 0}
  OBVIOUS
<1>3. v = RowsAt(rows, P) /\ P \subseteq DOMAIN rows
  BY <1>1, <1>2 DEF ValRows
<1>4. Stamped(rows)
  BY <1>1 DEF CsvInv
<1>5. rows \in Seq(CsvRow) /\ \A i \in DOMAIN rows : rows[i] \in CsvRow
  BY <1>4, StampedHasUes DEF Stamped
<1>6. /\ v \in Seq(CsvRow) /\ DOMAIN v = 1..Cardinality(P)
      /\ \A k \in 1..Cardinality(P) : v[k] = rows[Ascending(P)[k]] /\ Ascending(P)[k] \in P
  BY <1>3, <1>5, RowsAtIs
<1>7. \A i \in DOMAIN v : v[i] \in CsvRow /\ v[i].label = 0
  BY <1>2, <1>3, <1>5, <1>6
<1>8. \A i \in DOMAIN v : v[i].ue \in Nat
  BY <1>7 DEF CsvRow
<1>9. \E T : v \in Seq(T)
  BY <1>6
<1> QED  BY <1>7, <1>8, <1>9 DEF HasUes

\* What the searches use of the windows of a pool.
PoolEntries(w) ==
  /\ \E T : w \in Seq(T)
  /\ \A p \in 1..Len(w) : w[p].score \in Nat /\ w[p].label \in Nat /\ w[p].rule \in BOOLEAN

LEMMA LstmEntries ==
  ASSUME NEW rows, HasUes(rows), \A i \in DOMAIN rows : rows[i] \in CsvRow
  PROVE  PoolEntries(LstmPool(rows)) /\ PoolEntries(GruPool(rows))
<1>1. \A i \in WindowRows(rows) :
        /\ SplitByRnti(rows, rows[i].ue)[Nth(rows, i)] = rows[i]
        /\ rows[i].score \in Nat /\ rows[i].label \in Nat
  BY NthIs DEF WindowRows, CsvRow
<1>2. PICK w : w = LstmPool(rows)
  OBVIOUS
<1>3. /\ \E T : w \in Seq(T)
      /\ \E at : PoolOrder(at, Len(w), rows) /\ \A p \in 1..Len(w) : w[p] = LstmRowWindow(rows, at[p])
  BY <1>2, LstmPoolIs
<1>4. ASSUME NEW p \in 1..Len(w)
      PROVE  w[p].score \in Nat /\ w[p].label \in Nat /\ w[p].rule \in BOOLEAN
  <2>1. PICK i \in WindowRows(rows) : w[p] = LstmRowWindow(rows, i)
    BY <1>3 DEF PoolOrder
  <2>2. PICK g, n : g = SplitByRnti(rows, rows[i].ue) /\ n = Nth(rows, i)
    OBVIOUS
  <2>3. g[n] = rows[i]
    BY <1>1, <2>2
  <2>4. w[p].score = g[n].score /\ w[p].label = g[n].label /\ w[p].rule = LstmRuleFires(g, n)
    BY <2>1, <2>2 DEF LstmRowWindow, LstmWindow
  <2>5. LstmRuleFires(g, n) \in BOOLEAN
    BY DEF LstmRuleFires
  <2> QED  BY <1>1, <2>3, <2>4, <2>5
<1>5. PICK v : v = GruPool(rows)
  OBVIOUS
<1>6. /\ \E T : v \in Seq(T)
      /\ \E at : PoolOrder(at, Len(v), rows) /\ \A p \in 1..Len(v) : v[p] = GruRowWindow(rows, at[p])
  BY <1>5, GruPoolIs
<1>7. ASSUME NEW p \in 1..Len(v)
      PROVE  v[p].score \in Nat /\ v[p].label \in Nat /\ v[p].rule \in BOOLEAN
  <2>1. PICK i \in WindowRows(rows) : v[p] = GruRowWindow(rows, i)
    BY <1>6 DEF PoolOrder
  <2>2. PICK g, n : g = SplitByRnti(rows, rows[i].ue) /\ n = Nth(rows, i)
    OBVIOUS
  <2>3. g[n] = rows[i]
    BY <1>1, <2>2
  <2>4. v[p].score = g[n].score /\ v[p].label = g[n].label /\ v[p].rule = GruRuleFires(g, n)
    BY <2>1, <2>2 DEF GruRowWindow, GruWindow
  <2>5. GruRuleFires(g, n) \in BOOLEAN
    BY DEF GruRuleFires
  <2> QED  BY <1>1, <2>3, <2>4, <2>5
<1> QED  BY <1>2, <1>3, <1>4, <1>5, <1>6, <1>7 DEF PoolEntries

LEMMA SortedScores ==
  ASSUME NEW w, \E T : w \in Seq(T), \A p \in 1..Len(w) : w[p].score \in Nat,
         NEW s, s = Sorted(ScoresOf(w))
  PROVE  /\ DOMAIN w = 1..Len(w) /\ Len(w) \in Nat /\ IsFiniteSet(DOMAIN w)
         /\ ScoresOf(w) \in Seq(Nat) /\ Len(ScoresOf(w)) = Len(w)
         /\ InOrderAll(s) /\ Len(s) = Len(w)
<1>1. PICK n \in Nat : n = Len(w) /\ DOMAIN w = 1..n
  BY LenProperties
<1>2. ScoresOf(w) = [i \in 1..n |-> w[i].score]
  BY <1>1 DEF ScoresOf
<1>3. ScoresOf(w) \in [1..n -> Nat]
  BY <1>1, <1>2
<1>4. ScoresOf(w) \in Seq(Nat) /\ Len(ScoresOf(w)) = n
  BY <1>3, IsASeq, LenProperties
<1>5. IsFiniteSet(1..n)
  BY FS_Interval
<1> QED  BY <1>1, <1>4, <1>5, SortedIs DEF InOrderAll

LEMMA DescendingIs ==
  /\ Cardinality(Percentiles) \in Nat /\ DOMAIN Descending(Percentiles) = 1..Cardinality(Percentiles)
  /\ \A k \in 1..Cardinality(Percentiles) : Descending(Percentiles)[k] \in Permille
  /\ \A k, l \in 1..Cardinality(Percentiles) :
       k < l <=> Descending(Percentiles)[l] < Descending(Percentiles)[k]
<1>1. Percentiles \subseteq Permille
  BY SweepConstants
<1>2. Percentiles \subseteq Int /\ IsFiniteSet(Percentiles)
  <2>1. PICK a \in Int, b \in Int : a = 0 /\ b = 1000
    OBVIOUS
  <2>2. PICK R : R = a..b
    OBVIOUS
  <2>3. IsFiniteSet(R) /\ R \subseteq Int
    BY <2>2, FS_Interval
  <2>4. Percentiles \subseteq R
    BY <1>1, <2>1, <2>2 DEF Permille
  <2> QED  BY <2>3, <2>4, FS_Subset
<1>3. PICK n \in Nat : n = Cardinality(Percentiles)
  BY <1>2, AscendingIs
<1>4. PICK a : a = Ascending(Percentiles)
  OBVIOUS
<1>5. (\A k \in 1..n : a[k] \in Percentiles) /\ \A k, l \in 1..n : k < l <=> a[k] < a[l]
  BY <1>2, <1>3, <1>4, AscendingIs
<1>6. PICK d : d = Descending(Percentiles)
  OBVIOUS
<1>7. d = [k \in 1..n |-> a[n + 1 - k]]
  BY <1>3, <1>4, <1>6 DEF Descending
<1>8. ASSUME NEW k \in 1..n PROVE d[k] = a[n + 1 - k] /\ d[k] \in Permille /\ n + 1 - k \in 1..n
  <2>1. n + 1 - k \in 1..n
    OBVIOUS
  <2>2. d[k] = a[n + 1 - k]
    BY <1>7
  <2> QED  BY <1>1, <1>5, <2>1, <2>2
<1>9. ASSUME NEW k \in 1..n, NEW l \in 1..n PROVE k < l <=> d[l] < d[k]
  <2>1. PICK x \in 1..n, y \in 1..n : x = n + 1 - k /\ y = n + 1 - l
    BY <1>8
  <2>2. k < l <=> y < x
    BY <2>1
  <2>3. y < x <=> a[y] < a[x]
    BY <1>5
  <2> QED  BY <1>8, <2>1, <2>2, <2>3
<1> QED  BY <1>3, <1>6, <1>7, <1>8, <1>9

-----------------------------------------------------------------------------
(* calibrate_threshold_remote: the best of what was tried is saved         *)

\* The windows whose score is above the threshold, and those a hybrid fires on.
HighScores(w, thresh) == {i \in DOMAIN w : Above(w[i], thresh)}
HighOrRule(w, thresh) == {i \in DOMAIN w : w[i].rule \/ Above(w[i], thresh)}

\* Of a try: its rates are counts of windows, and the hybrid's is not the lower one.
GoodTry(t) ==
  /\ t.thresh \in Nat /\ t.tolerated \subseteq {"lstm", "hybrid"}
  /\ "hybrid" \in t.tolerated => "lstm" \in t.tolerated
  /\ t.roq["lstm"] \in Nat /\ t.roq["hybrid"] \in Nat
GoodTries(tries) ==
  /\ DOMAIN tries = 1..Len(tries) /\ Len(tries) \in Nat
  /\ \A j \in 1..Len(tries) : GoodTry(tries[j])
  /\ \A j, k \in 1..Len(tries) : j <= k => tries[k].thresh <= tries[j].thresh

LEMMA CountsWithin ==
  ASSUME NEW S, IsFiniteSet(S), NEW A, NEW B, A \subseteq B, B \subseteq S
  PROVE  /\ Cardinality(A) \in Nat /\ Cardinality(B) \in Nat /\ Cardinality(A) <= Cardinality(B)
         /\ IsFiniteSet(A) /\ IsFiniteSet(B)
<1>1. IsFiniteSet(B)
  BY FS_Subset
<1>2. IsFiniteSet(A) /\ Cardinality(A) <= Cardinality(B)
  BY <1>1, FS_Subset
<1> QED  BY <1>1, <1>2, FS_CardinalityType

LEMMA LstmTriedIs ==
  ASSUME NEW val, IsFiniteSet(DOMAIN val), NEW attack, IsFiniteSet(DOMAIN attack),
         Len(val) \in Nat, NEW thresh \in Nat, NEW t, t = LstmTried(val, attack, thresh)
  PROVE  /\ GoodTry(t) /\ t.thresh = thresh
         /\ t.fpr["lstm"] = Cardinality(HighScores(val, thresh))
         /\ t.fpr["hybrid"] = Cardinality(HighOrRule(val, thresh))
<1>1. /\ t.thresh = thresh
      /\ t.fpr = [lstm |-> Cardinality(HighScores(val, thresh)),
                  hybrid |-> Cardinality(HighOrRule(val, thresh))]
      /\ t.roq["lstm"] = Cardinality({i \in DOMAIN attack : attack[i].label = Roq /\ Above(attack[i], thresh)})
      /\ t.roq["hybrid"] = Cardinality({i \in DOMAIN attack :
                              attack[i].label = Roq /\ (attack[i].rule \/ Above(attack[i], thresh))})
      /\ t.tolerated = {m \in {"lstm", "hybrid"} : 1000 * t.fpr[m] <= MaxFpr * Len(val)}
  BY DEF LstmTried, HowMany, HighScores, HighOrRule
<1>2. /\ HighScores(val, thresh) \subseteq HighOrRule(val, thresh)
      /\ HighOrRule(val, thresh) \subseteq DOMAIN val
  BY DEF HighScores, HighOrRule
<1>3. PICK a \in Nat, b \in Nat :
         a = Cardinality(HighScores(val, thresh)) /\ b = Cardinality(HighOrRule(val, thresh)) /\ a <= b
  BY <1>2, CountsWithin
<1>4. t.fpr["lstm"] = a /\ t.fpr["hybrid"] = b
  BY <1>1, <1>3
<1>5. PICK x \in Nat : x = MaxFpr * Len(val)
  BY SweepConstants
<1>6. t.tolerated \subseteq {"lstm", "hybrid"} /\ ("hybrid" \in t.tolerated => "lstm" \in t.tolerated)
  BY <1>1, <1>3, <1>4, <1>5
<1>7. t.roq["lstm"] \in Nat /\ t.roq["hybrid"] \in Nat
  <2>1. \A S : S \subseteq DOMAIN attack => Cardinality(S) \in Nat
    BY CountsWithin
  <2> QED  BY <1>1, <2>1
<1> QED  BY <1>1, <1>3, <1>4, <1>6, <1>7 DEF GoodTry

LEMMA LstmTriesAre ==
  ASSUME CsvInv, NEW tries, tries = LstmTries
  PROVE  /\ GoodTries(tries)
         /\ \A j \in 1..Len(tries) :
              \E thresh \in Nat : tries[j] = LstmTried(LstmVal, LstmAttack, thresh)
<1>1. PICK v : v = ValRows
  OBVIOUS
<1>2. PICK rows : rows = csv
  OBVIOUS
<1>3. /\ HasUes(v) /\ \A i \in DOMAIN v : v[i] \in CsvRow
  BY <1>1, ValRowsAre
<1>4. HasUes(rows) /\ \A i \in DOMAIN rows : rows[i] \in CsvRow
  BY <1>2, StampedHasUes DEF CsvInv
<1>5. PICK val, attack : val = LstmVal /\ attack = LstmAttack
  OBVIOUS
<1>6. PoolEntries(val) /\ PoolEntries(attack)
  BY <1>1, <1>2, <1>3, <1>4, <1>5, LstmEntries DEF LstmVal, LstmAttack
<1>7. PICK s : s = Sorted(ScoresOf(val))
  OBVIOUS
<1>8. /\ Len(val) \in Nat /\ IsFiniteSet(DOMAIN val) /\ InOrderAll(s) /\ Len(s) = Len(val)
      /\ val # <<>> => Len(s) > 0
  <2>1. /\ DOMAIN val = 1..Len(val) /\ Len(val) \in Nat /\ IsFiniteSet(DOMAIN val)
        /\ InOrderAll(s) /\ Len(s) = Len(val)
    BY <1>6, <1>7, SortedScores DEF PoolEntries
  <2>2. val # <<>> => Len(val) # 0
    BY <1>6, EmptySeq DEF PoolEntries
  <2> QED  BY <2>1, <2>2
<1>9. IsFiniteSet(DOMAIN attack)
  BY <1>6, SortedScores DEF PoolEntries
<1>10. PICK n, d : n = Cardinality(Percentiles) /\ d = Descending(Percentiles)
  OBVIOUS
<1>11. /\ n \in Nat /\ \A k \in 1..n : d[k] \in Permille
       /\ \A k, l \in 1..n : k < l <=> d[l] < d[k]
  BY <1>10, DescendingIs
<1>12. tries = IF val = <<>> \/ attack = <<>> THEN <<>>
               ELSE [i \in 1..n |-> LstmTried(val, attack, Percentile(s, d[i]))]
  BY <1>5, <1>7, <1>10 DEF LstmTries
<1>13. CASE val = <<>> \/ attack = <<>>
  <2>1. tries = <<>> /\ Len(tries) = 0 /\ DOMAIN tries = {} /\ 1..0 = {}
    BY <1>12, <1>13
  <2> QED  BY <2>1 DEF GoodTries
<1>14. CASE ~(val = <<>> \/ attack = <<>>)
  <2>1. tries = [i \in 1..n |-> LstmTried(val, attack, Percentile(s, d[i]))]
    BY <1>12, <1>14
  <2>2. DOMAIN tries = 1..n /\ Len(tries) = n
    BY <1>11, <2>1
  <2>3. ASSUME NEW i \in 1..n, NEW j \in 1..n, i <= j
        PROVE  /\ Percentile(s, d[i]) \in Nat /\ Percentile(s, d[j]) \in Nat
               /\ Percentile(s, d[j]) <= Percentile(s, d[i])
    <3>1. PICK p \in Permille, q \in Permille : p = d[j] /\ q = d[i]
      BY <1>11
    <3>2. p <= q
      BY <1>11, <2>3, <3>1 DEF Permille
    <3>3. Len(s) > 0 /\ InOrderAll(s)
      BY <1>8, <1>14
    <3>4. Percentile(s, p) \in Nat /\ Percentile(s, q) \in Nat /\ Percentile(s, p) <= Percentile(s, q)
      BY <3>2, <3>3, PercentileGrows
    <3> QED  BY <3>1, <3>4
  <2>4. ASSUME NEW i \in 1..n
        PROVE  /\ GoodTry(tries[i]) /\ tries[i].thresh = Percentile(s, d[i])
               /\ \E thresh \in Nat : tries[i] = LstmTried(val, attack, thresh)
    <3>1. PICK thresh \in Nat : thresh = Percentile(s, d[i])
      <4>1. i <= i
        OBVIOUS
      <4> QED  BY <2>3, <4>1
    <3>2. tries[i] = LstmTried(val, attack, thresh)
      BY <2>1, <3>1
    <3> QED  BY <1>8, <1>9, <3>1, <3>2, LstmTriedIs
  <2>5. \A i, j \in 1..n : i <= j => tries[j].thresh <= tries[i].thresh
    BY <2>3, <2>4
  <2> QED  BY <1>5, <1>11, <2>2, <2>4, <2>5 DEF GoodTries
<1> QED  BY <1>13, <1>14

\* j holds the best of the first i tries among those tolerated in mode m.
AllowedIn(tries, i, m) == \E k \in 1..i : m \in tries[k].tolerated
LeadsIn(tries, i, m, j) ==
  /\ j \in 1..i /\ m \in tries[j].tolerated
  /\ \A k \in 1..i : m \in tries[k].tolerated =>
        \/ tries[k].roq[m] < tries[j].roq[m]
        \/ tries[k].roq[m] = tries[j].roq[m] /\ tries[k].thresh <= tries[j].thresh
\* What is saved after i tries.
SavedBy(b, tries, i) ==
  \/ b = NothingSaved /\ ~AllowedIn(tries, i, "lstm")
  \/ \E j \in 1..i : /\ LeadsIn(tries, i, "lstm", j) /\ ~AllowedIn(tries, i, "hybrid")
                     /\ b = Chosen("lstm", tries[j])
  \/ \E j \in 1..i : LeadsIn(tries, i, "hybrid", j) /\ b = Chosen("hybrid", tries[j])

LEMMA ChosenIs ==
  ASSUME NEW m \in {"lstm", "hybrid"}, NEW t
  PROVE  /\ Chosen(m, t).mode = m /\ Chosen(m, t).roq = t.roq[m]
         /\ Chosen(m, t).thresh = t.thresh /\ Chosen(m, t).fpr = t.fpr[m]
         /\ Chosen(m, t) # NothingSaved /\ NothingSaved.mode = "none"
<1>1. /\ Chosen(m, t).mode = m /\ Chosen(m, t).roq = t.roq[m]
      /\ Chosen(m, t).thresh = t.thresh /\ Chosen(m, t).fpr = t.fpr[m]
  BY DEF Chosen
<1>2. NothingSaved.mode = "none" /\ m # "none"
  BY DEF NothingSaved
<1> QED  BY <1>1, <1>2

\* The last try leads if the leader before it finds fewer windows, and the
\* leader stays if it finds as many: thresholds fall.
LEMMA LeaderNext ==
  ASSUME NEW tries, GoodTries(tries), NEW i \in Nat, i + 1 <= Len(tries), NEW m \in {"lstm", "hybrid"}
  PROVE  /\ m \in tries[i + 1].tolerated /\ ~AllowedIn(tries, i, m) => LeadsIn(tries, i + 1, m, i + 1)
         /\ \A j \in 1..i : LeadsIn(tries, i, m, j) =>
              IF m \in tries[i + 1].tolerated /\ tries[i + 1].roq[m] > tries[j].roq[m]
              THEN LeadsIn(tries, i + 1, m, i + 1) ELSE LeadsIn(tries, i + 1, m, j)
<1>1. \A k \in 1..(i + 1) : k \in 1..i \/ k = i + 1
  OBVIOUS
<1>2. i + 1 \in 1..(i + 1) /\ \A k \in 1..i : k \in 1..(i + 1)
  OBVIOUS
<1>3. \A k \in 1..(i + 1) : /\ tries[k].roq[m] \in Nat /\ tries[k].thresh \in Nat
                            /\ tries[i + 1].thresh <= tries[k].thresh
  BY DEF GoodTries, GoodTry
<1>4. ASSUME m \in tries[i + 1].tolerated, ~AllowedIn(tries, i, m)
      PROVE  LeadsIn(tries, i + 1, m, i + 1)
  BY <1>1, <1>2, <1>3, <1>4 DEF AllowedIn, LeadsIn
<1>5. ASSUME NEW j \in 1..i, LeadsIn(tries, i, m, j)
      PROVE  IF m \in tries[i + 1].tolerated /\ tries[i + 1].roq[m] > tries[j].roq[m]
             THEN LeadsIn(tries, i + 1, m, i + 1) ELSE LeadsIn(tries, i + 1, m, j)
  <2>1. CASE m \in tries[i + 1].tolerated /\ tries[i + 1].roq[m] > tries[j].roq[m]
    <3>1. PICK x \in Nat, y \in Nat : x = tries[j].roq[m] /\ y = tries[i + 1].roq[m] /\ x < y
      BY <1>2, <1>3, <2>1
    <3>2. ASSUME NEW k \in 1..i, m \in tries[k].tolerated PROVE tries[k].roq[m] < y
      <4>1. PICK z \in Nat : z = tries[k].roq[m]
        BY <1>2, <1>3
      <4>2. z < x \/ z = x
        BY <1>5, <3>1, <3>2, <4>1 DEF LeadsIn
      <4> QED  BY <3>1, <4>1, <4>2
    <3>3. \A k \in 1..(i + 1) : m \in tries[k].tolerated =>
            \/ tries[k].roq[m] < tries[i + 1].roq[m]
            \/ tries[k].roq[m] = tries[i + 1].roq[m] /\ tries[k].thresh <= tries[i + 1].thresh
      <4>1. tries[i + 1].thresh <= tries[i + 1].thresh
        BY <1>2, <1>3
      <4> QED  BY <1>1, <3>1, <3>2, <4>1
    <3>4. LeadsIn(tries, i + 1, m, i + 1)
      BY <1>2, <2>1, <3>3 DEF LeadsIn
    <3> QED  BY <2>1, <3>4
  <2>2. CASE ~(m \in tries[i + 1].tolerated /\ tries[i + 1].roq[m] > tries[j].roq[m])
    <3>1. LeadsIn(tries, i + 1, m, j)
      BY <1>1, <1>2, <1>3, <1>5, <2>2 DEF LeadsIn
    <3> QED  BY <2>2, <3>1
  <2> QED  BY <2>1, <2>2
<1> QED  BY <1>4, <1>5

LEMMA SavedNext ==
  ASSUME NEW tries, GoodTries(tries), NEW i \in Nat, i + 1 <= Len(tries),
         NEW b, SavedBy(b, tries, i)
  PROVE  SavedBy(BetterOf(b, tries[i + 1]), tries, i + 1)
<1> DEFINE t == tries[i + 1]
           c == BetterOf(b, t)
<1>1. GoodTry(t)
  BY DEF GoodTries
<1>2. /\ i + 1 \in 1..(i + 1) /\ \A k \in 1..i : k \in 1..(i + 1)
      /\ \A k \in 1..(i + 1) : k \in 1..i \/ k = i + 1
  OBVIOUS
<1>3. \A m \in {"lstm", "hybrid"} :
        AllowedIn(tries, i + 1, m) <=> AllowedIn(tries, i, m) \/ m \in t.tolerated
  BY <1>2 DEF AllowedIn
<1>4. \A m \in {"lstm", "hybrid"} : m \in t.tolerated /\ ~AllowedIn(tries, i, m) =>
        LeadsIn(tries, i + 1, m, i + 1)
  BY LeaderNext
<1>5. \A m \in {"lstm", "hybrid"} : \A j \in 1..i : LeadsIn(tries, i, m, j) =>
        IF m \in t.tolerated /\ t.roq[m] > tries[j].roq[m]
        THEN LeadsIn(tries, i + 1, m, i + 1) ELSE LeadsIn(tries, i + 1, m, j)
  BY LeaderNext
<1>6. ~AllowedIn(tries, i, "lstm") => ~AllowedIn(tries, i, "hybrid")
  BY DEF AllowedIn, GoodTries, GoodTry
<1>7. /\ Chosen("lstm", t) # NothingSaved /\ Chosen("hybrid", t) # NothingSaved
      /\ t.roq.lstm = t.roq["lstm"] /\ t.roq.hybrid = t.roq["hybrid"]
  BY ChosenIs
<1>8. CASE b = NothingSaved /\ ~AllowedIn(tries, i, "lstm")
  <2>1. c = IF "hybrid" \in t.tolerated THEN Chosen("hybrid", t)
            ELSE IF "lstm" \in t.tolerated THEN Chosen("lstm", t) ELSE NothingSaved
    BY <1>8 DEF BetterOf
  <2>2. CASE "hybrid" \in t.tolerated
    BY <1>2, <1>4, <1>6, <1>8, <2>1, <2>2 DEF SavedBy
  <2>3. CASE "hybrid" \notin t.tolerated /\ "lstm" \in t.tolerated
    BY <1>2, <1>3, <1>4, <1>6, <1>8, <2>1, <2>3 DEF SavedBy
  <2>4. CASE "hybrid" \notin t.tolerated /\ "lstm" \notin t.tolerated
    BY <1>3, <1>8, <2>1, <2>4 DEF SavedBy
  <2> QED  BY <2>2, <2>3, <2>4
<1>9. ASSUME NEW j \in 1..i, LeadsIn(tries, i, "lstm", j), ~AllowedIn(tries, i, "hybrid"),
             b = Chosen("lstm", tries[j])
      PROVE  SavedBy(c, tries, i + 1)
  <2>1. b # NothingSaved /\ b.mode = "lstm" /\ b.roq = tries[j].roq["lstm"]
    BY <1>9, ChosenIs
  <2>2. c = IF "hybrid" \in t.tolerated THEN Chosen("hybrid", t)
            ELSE IF "lstm" \in t.tolerated /\ t.roq["lstm"] > tries[j].roq["lstm"] THEN Chosen("lstm", t) ELSE b
    BY <1>7, <2>1 DEF BetterOf
  <2>3. CASE "hybrid" \in t.tolerated
    BY <1>2, <1>4, <1>9, <2>2, <2>3 DEF SavedBy
  <2>4. CASE "hybrid" \notin t.tolerated /\ "lstm" \in t.tolerated /\ t.roq["lstm"] > tries[j].roq["lstm"]
    BY <1>2, <1>3, <1>5, <1>9, <2>2, <2>4 DEF SavedBy
  <2>5. CASE "hybrid" \notin t.tolerated /\ ~("lstm" \in t.tolerated /\ t.roq["lstm"] > tries[j].roq["lstm"])
    BY <1>2, <1>3, <1>5, <1>9, <2>2, <2>5 DEF SavedBy
  <2> QED  BY <2>3, <2>4, <2>5
<1>10. ASSUME NEW j \in 1..i, LeadsIn(tries, i, "hybrid", j), b = Chosen("hybrid", tries[j])
       PROVE  SavedBy(c, tries, i + 1)
  <2>1. b # NothingSaved /\ b.mode = "hybrid" /\ b.roq = tries[j].roq["hybrid"]
    BY <1>10, ChosenIs
  <2>2. c = IF "hybrid" \in t.tolerated /\ t.roq["hybrid"] > tries[j].roq["hybrid"] THEN Chosen("hybrid", t)
            ELSE b
    BY <1>7, <2>1 DEF BetterOf
  <2>3. CASE "hybrid" \in t.tolerated /\ t.roq["hybrid"] > tries[j].roq["hybrid"]
    BY <1>2, <1>5, <1>10, <2>2, <2>3 DEF SavedBy
  <2>4. CASE ~("hybrid" \in t.tolerated /\ t.roq["hybrid"] > tries[j].roq["hybrid"])
    BY <1>2, <1>5, <1>10, <2>2, <2>4 DEF SavedBy
  <2> QED  BY <2>3, <2>4
<1> QED  BY <1>8, <1>9, <1>10 DEF SavedBy

\* What the script has saved after each of n tries.
SavedStep(best, tries, i) == IF i = 0 THEN NothingSaved ELSE BetterOf(best[i - 1], tries[i])
IsBest(best, tries, n) == best = [i \in 0..n |-> SavedStep(best, tries, i)]

LEMMA BestExists ==
  ASSUME NEW tries
  PROVE  \A n \in Nat : \E best : IsBest(best, tries, n)
<1> DEFINE P == {n \in Nat : \E best : IsBest(best, tries, n)}
<1>1. 0 \in P
  <2>1. IsBest([i \in 0..0 |-> NothingSaved], tries, 0)
    BY DEF IsBest, SavedStep
  <2> QED  BY <2>1
<1>2. ASSUME NEW n \in Nat, n \in P PROVE n + 1 \in P
  <2>1. PICK f : IsBest(f, tries, n)
    BY <1>2
  <2> DEFINE g == [i \in 0..(n + 1) |-> IF i = n + 1 THEN BetterOf(f[n], tries[n + 1]) ELSE f[i]]
  <2>2. \A i \in 0..n : g[i] = f[i] /\ f[i] = IF i = 0 THEN NothingSaved ELSE BetterOf(f[i - 1], tries[i])
    <3>1. \A i \in 0..n : g[i] = f[i]
      OBVIOUS
    <3>2. ASSUME NEW i \in 0..n PROVE f[i] = SavedStep(f, tries, i)
      <4> HIDE DEF g
      <4>1. f = [k \in 0..n |-> SavedStep(f, tries, k)]
        BY <2>1 DEF IsBest
      <4> QED  BY <4>1, Zenon
    <3> QED  BY <3>1, <3>2 DEF SavedStep
  <2>3. \A i \in 0..(n + 1) : g[i] = IF i = 0 THEN NothingSaved ELSE BetterOf(g[i - 1], tries[i])
    BY <2>2
  <2>4. g = [i \in 0..(n + 1) |-> g[i]]
    OBVIOUS
  <2> HIDE DEF g
  <2>5. g = [i \in 0..(n + 1) |-> SavedStep(g, tries, i)]
    BY <2>3, <2>4 DEF SavedStep
  <2> QED  BY <2>5 DEF IsBest
<1> HIDE DEF P
<1>3. \A n \in Nat : n \in P
  BY <1>1, <1>2, AllNaturals
<1> QED  BY <1>3 DEF P

\* What is saved in the end is what SavedBy says of all the tries.
LEMMA SavedLstmIs ==
  ASSUME CsvInv
  PROVE  SavedBy(SavedLstm, LstmTries, Len(LstmTries))
<1>1. PICK tries : tries = LstmTries
  OBVIOUS
<1>2. GoodTries(tries)
  BY <1>1, LstmTriesAre
<1>3. PICK n \in Nat : n = Len(tries)
  BY <1>2 DEF GoodTries
<1>4. \E best : IsBest(best, tries, n)
  BY BestExists
<1> DEFINE best == CHOOSE f : f = [i \in 0..n |-> SavedStep(f, tries, i)]
<1>5. best = [i \in 0..n |-> SavedStep(best, tries, i)]
  BY <1>4 DEF IsBest
<1>6. SavedLstm = best[n]
  BY <1>1, <1>3 DEF SavedLstm, SavedStep
<1>7. PICK f : f = best
  OBVIOUS
<1>8. f = [i \in 0..n |-> SavedStep(f, tries, i)] /\ SavedLstm = f[n]
  BY <1>5, <1>6, <1>7
<1> HIDE DEF best
<1>9. ASSUME NEW i \in 0..n PROVE f[i] = SavedStep(f, tries, i)
  BY <1>8, Zenon
<1> DEFINE P == {i \in Nat : i <= n => SavedBy(f[i], tries, i)}
<1>10. 0 \in P
  <2>1. f[0] = NothingSaved
    BY <1>9 DEF SavedStep
  <2>2. ~AllowedIn(tries, 0, "lstm")
    BY DEF AllowedIn
  <2> QED  BY <2>1, <2>2 DEF SavedBy
<1>11. ASSUME NEW i \in Nat, i \in P PROVE i + 1 \in P
  <2> SUFFICES ASSUME i + 1 <= n PROVE SavedBy(f[i + 1], tries, i + 1)
    OBVIOUS
  <2>1. i + 1 \in 0..n /\ i + 1 # 0 /\ (i + 1) - 1 = i /\ i <= n
    OBVIOUS
  <2>2. f[i + 1] = BetterOf(f[i], tries[i + 1])
    BY <1>9, <2>1 DEF SavedStep
  <2>3. SavedBy(f[i], tries, i)
    BY <1>11, <2>1
  <2> QED  BY <1>2, <1>3, <2>2, <2>3, SavedNext
<1> HIDE DEF P
<1>12. \A i \in Nat : i \in P
  BY <1>10, <1>11, AllNaturals
<1>13. SavedBy(f[n], tries, n)
  BY <1>12 DEF P
<1> QED  BY <1>1, <1>3, <1>8, <1>13

LEMMA SavedIsBestHolds ==
  ASSUME CsvInv
  PROVE  SavedIsBest
<1>1. PICK tries, s : tries = LstmTries /\ s = SavedLstm
  OBVIOUS
<1>2. GoodTries(tries)
  BY <1>1, LstmTriesAre
<1>3. PICK n \in Nat : n = Len(tries)
  BY <1>2 DEF GoodTries
<1>4. SavedBy(s, tries, n)
  BY <1>1, <1>3, SavedLstmIs
<1>5. ToSet(tries) = {tries[i] : i \in 1..n}
  BY <1>2, <1>3 DEF ToSet, GoodTries
<1>6. PICK L, H : /\ L = {t \in ToSet(tries) : "lstm" \in t.tolerated}
                  /\ H = {t \in ToSet(tries) : "hybrid" \in t.tolerated}
  OBVIOUS
<1>7. /\ (L = {} <=> ~AllowedIn(tries, n, "lstm")) /\ (H = {} <=> ~AllowedIn(tries, n, "hybrid"))
      /\ \A t \in L \cup H : t \in ToSet(tries) /\ \E i \in 1..n : t = tries[i]
      /\ \A i \in 1..n : /\ "lstm" \in tries[i].tolerated <=> tries[i] \in L
                         /\ "hybrid" \in tries[i].tolerated <=> tries[i] \in H
  BY <1>5, <1>6 DEF AllowedIn
<1>8. SavedIsBest <=>
        /\ s = NothingSaved <=> L = {}
        /\ s # NothingSaved =>
             /\ s.mode = "hybrid" <=> H # {}
             /\ \E t \in {x \in ToSet(tries) : s.mode \in x.tolerated} : t.thresh = s.thresh
             /\ \A t \in {x \in ToSet(tries) : s.mode \in x.tolerated} :
                  t.roq[s.mode] < s.roq \/ (t.roq[s.mode] = s.roq /\ t.thresh <= s.thresh)
  BY <1>1, <1>6 DEF SavedIsBest
<1>9. ASSUME NEW m \in {"lstm", "hybrid"}, NEW j \in 1..n, LeadsIn(tries, n, m, j), s = Chosen(m, tries[j])
      PROVE  /\ s.mode = m /\ s # NothingSaved
             /\ \E t \in {x \in ToSet(tries) : s.mode \in x.tolerated} : t.thresh = s.thresh
             /\ \A t \in {x \in ToSet(tries) : s.mode \in x.tolerated} :
                  t.roq[s.mode] < s.roq \/ (t.roq[s.mode] = s.roq /\ t.thresh <= s.thresh)
  <2>1. s.mode = m /\ s # NothingSaved /\ s.roq = tries[j].roq[m] /\ s.thresh = tries[j].thresh
    BY <1>9, ChosenIs
  <2>2. tries[j] \in {x \in ToSet(tries) : s.mode \in x.tolerated}
    BY <1>5, <1>9, <2>1 DEF LeadsIn
  <2>3. ASSUME NEW t \in {x \in ToSet(tries) : s.mode \in x.tolerated}
        PROVE  t.roq[s.mode] < s.roq \/ (t.roq[s.mode] = s.roq /\ t.thresh <= s.thresh)
    <3>1. PICK k \in 1..n : t = tries[k]
      BY <1>5
    <3> QED  BY <1>9, <2>1, <2>3, <3>1 DEF LeadsIn
  <2> QED  BY <2>1, <2>2, <2>3
<1>10. CASE s = NothingSaved /\ ~AllowedIn(tries, n, "lstm")
  BY <1>7, <1>8, <1>10
<1>11. ASSUME NEW j \in 1..n, LeadsIn(tries, n, "lstm", j), ~AllowedIn(tries, n, "hybrid"),
              s = Chosen("lstm", tries[j])
       PROVE  SavedIsBest
  <2>1. AllowedIn(tries, n, "lstm")
    BY <1>11 DEF AllowedIn, LeadsIn
  <2> QED  BY <1>7, <1>8, <1>9, <1>11, <2>1
<1>12. ASSUME NEW j \in 1..n, LeadsIn(tries, n, "hybrid", j), s = Chosen("hybrid", tries[j])
       PROVE  SavedIsBest
  <2>1. AllowedIn(tries, n, "hybrid") /\ AllowedIn(tries, n, "lstm")
    BY <1>2, <1>3, <1>12 DEF AllowedIn, LeadsIn, GoodTries, GoodTry
  <2> QED  BY <1>7, <1>8, <1>9, <1>12, <2>1
<1> QED  BY <1>4, <1>10, <1>11, <1>12 DEF SavedBy

-----------------------------------------------------------------------------
(* sweep_gru_threshold: the least threshold tried that keeps the rate      *)

\* The rows with a score are those after the ones that fill the buffer.
LEMMA CellScoresAre ==
  ASSUME CsvInv, NEW scored, scored = CellScores
  PROVE  /\ scored \in Seq(CsvRow) /\ Len(scored) \in Nat
         /\ \A i \in 1..Len(scored) : i + SkippedRows \in DOMAIN csv /\ scored[i] = csv[i + SkippedRows]
         /\ \A i \in DOMAIN csv : i > SkippedRows => i - SkippedRows \in 1..Len(scored)
<1>0. PICK rows : rows = csv
  OBVIOUS
<1>1. PICK k \in Nat : rows = csv /\ k = SkippedRows
  BY <1>0, SweepConstants
<1>2. PICK n \in Nat : rows \in Seq(CsvRow) /\ n = Len(rows) /\ DOMAIN rows = 1..n
  BY <1>1, StampedHasUes DEF CsvInv, Stamped
<1>3. scored = SubSeq(rows, k + 1, n)
  BY <1>1, <1>2 DEF CellScores
<1>4. CASE k <= n
  <2>1. k + 1 \in 1..(n + 1) /\ n \in (k + 1 - 1)..n
    BY <1>4
  <2>2. /\ scored \in Seq(CsvRow) /\ Len(scored) = IF k + 1 <= n THEN n - (k + 1) + 1 ELSE 0
        /\ \A i \in 1..(n - (k + 1) + 1) : scored[i] = rows[k + 1 + i - 1]
    BY <1>2, <1>3, <2>1, SubSeqProperties
  <2>3. PICK len \in Nat : len = Len(scored) /\ len = n - k
    BY <1>4, <2>2
  <2>4. \A i \in 1..len : i + k \in 1..n /\ scored[i] = rows[i + k]
    BY <2>2, <2>3
  <2>5. \A i \in 1..n : i > k => i - k \in 1..len
    BY <2>3
  <2> QED  BY <1>1, <1>2, <2>2, <2>3, <2>4, <2>5
<1>5. CASE k > n
  <2>1. scored = <<>>
    BY <1>2, <1>3, <1>5
  <2>2. scored \in Seq(CsvRow) /\ Len(scored) = 0
    BY <2>1, EmptySeq
  <2>3. 1..0 = {} /\ \A i \in 1..n : ~(i > k)
    BY <1>5
  <2> QED  BY <1>1, <1>2, <2>2, <2>3
<1> QED  BY <1>4, <1>5

\* What is sought of the rows with a score.
ScoredRows(scored) == scored \in Seq(CsvRow)

\* Places that a shift takes into a finite set are no more than its members.
LEMMA ShiftCount ==
  ASSUME NEW A, A \subseteq Int, NEW B, IsFiniteSet(B), NEW k \in Int, \A i \in A : i + k \in B
  PROVE  IsFiniteSet(A) /\ Cardinality(A) <= Cardinality(B) /\ Cardinality(A) \in Nat /\ Cardinality(B) \in Nat
<1> DEFINE f == [i \in A |-> i + k]
<1>1. f \in [A -> B]
  OBVIOUS
<1>2. \A x, y \in A : f[x] = f[y] => x = y
  <2>1. \A x, y \in A : x \in Int /\ y \in Int /\ (x + k = y + k => x = y)
    OBVIOUS
  <2> QED  BY <2>1
<1>3. f \in Injection(A, B)
  BY <1>1, <1>2 DEF Injection, IsInjective
<1> QED  BY <1>3, FS_Injection, FS_CardinalityType

DetectedPlaces(scored, l, thr) ==
  {i \in DOMAIN scored : scored[i].label = l /\ Unit * scored[i].score >= thr}

LEMMA UnitIs == Unit \in Nat
<1>1. PICK k \in Nat : k = LinSteps - 1
  BY SweepConstants
<1>2. Unit = 1000 * k
  BY <1>1 DEF Unit
<1> QED  BY <1>2

LEMMA DetectedFalls ==
  ASSUME NEW scored, ScoredRows(scored), NEW l, NEW t \in Nat, NEW u \in Nat, t <= u
  PROVE  /\ Detected(scored, l, t) = Cardinality(DetectedPlaces(scored, l, t))
         /\ Detected(scored, l, u) <= Detected(scored, l, t)
         /\ Detected(scored, l, t) \in Nat /\ Detected(scored, l, u) \in Nat
<1>1. \A x \in Nat : Detected(scored, l, x) = Cardinality(DetectedPlaces(scored, l, x))
  BY DEF Detected, HowMany, DetectedPlaces
<1>2. PICK n \in Nat : n = Len(scored) /\ DOMAIN scored = 1..n
  BY LenProperties DEF ScoredRows
<1>3. \A i \in 1..n : scored[i].score \in Nat
  <2>1. \A i \in 1..n : scored[i] \in CsvRow
    BY <1>2, ElementOfSeq DEF ScoredRows
  <2> QED  BY <2>1 DEF CsvRow
<1>4. IsFiniteSet(1..n)
  BY FS_Interval
<1>5. PICK k \in Nat : k = Unit
  BY UnitIs
<1>6. \A i \in 1..n : k * scored[i].score \in Nat
  BY <1>3
<1>7. DetectedPlaces(scored, l, u) \subseteq DetectedPlaces(scored, l, t)
  <2> SUFFICES ASSUME NEW i \in DetectedPlaces(scored, l, u) PROVE i \in DetectedPlaces(scored, l, t)
    OBVIOUS
  <2>1. i \in 1..n /\ scored[i].label = l /\ Unit * scored[i].score >= u
    BY <1>2 DEF DetectedPlaces
  <2>2. PICK x \in Nat : x = Unit * scored[i].score
    BY <1>5, <1>6, <2>1
  <2>3. x >= t
    BY <2>1, <2>2
  <2> QED  BY <1>2, <2>1, <2>2, <2>3 DEF DetectedPlaces
<1>8. DetectedPlaces(scored, l, t) \subseteq 1..n
  BY <1>2 DEF DetectedPlaces
<1> QED  BY <1>1, <1>4, <1>7, <1>8, CountsWithin

\* The attacks of the scored rows, and what MinRecall multiplies a recall by.
ClassesOf(scored) == {r.label : r \in ToSet(scored)} \ {0}
ClassSize(scored, x) == HowMany(scored, LAMBDA r : r.label = x)
ProductStep(p, scored, l, x) ==
  IF x = 0 THEN 1
  ELSE (IF x \in ClassesOf(scored) \ {l} THEN ClassSize(scored, x) ELSE 1) * p[x - 1]
IsProduct(p, scored, l, n) == p = [x \in 0..n |-> ProductStep(p, scored, l, x)]
Others(scored, l, n) == (CHOOSE p : p = [x \in 0..n |-> ProductStep(p, scored, l, x)])[n]

LEMMA ClassesAre ==
  ASSUME NEW scored, ScoredRows(scored)
  PROVE  /\ ClassesOf(scored) \subseteq Nat
         /\ (\E r \in ToSet(scored) : r.label > 0) =>
              ClassesOf(scored) # {} /\ Max(ClassesOf(scored)) \in Nat
<1>1. PICK n \in Nat : n = Len(scored) /\ DOMAIN scored = 1..n
  BY LenProperties DEF ScoredRows
<1>2. \A i \in 1..n : scored[i].label \in Nat
  <2>1. \A i \in 1..n : scored[i] \in CsvRow
    BY <1>1, ElementOfSeq DEF ScoredRows
  <2> QED  BY <2>1 DEF CsvRow
<1>3. PICK C : C = ClassesOf(scored)
  OBVIOUS
<1>4. \A l \in C : l \in Nat /\ \E i \in 1..n : l = scored[i].label
  BY <1>1, <1>2, <1>3 DEF ClassesOf, ToSet
<1>5. ASSUME NEW r \in ToSet(scored), r.label > 0 PROVE C # {} /\ Max(C) \in Nat
  <2>1. r.label \in C /\ r.label \in Nat
    BY <1>1, <1>2, <1>3, <1>5 DEF ClassesOf, ToSet
  <2>2. PICK s : s = [i \in 1..n |-> scored[i].label]
    OBVIOUS
  <2>3. s \in Seq(Nat) /\ Len(s) = n
    <3>1. s \in [1..n -> Nat]
      BY <1>2, <2>2
    <3> QED  BY <3>1, IsASeq, LenProperties
  <2>4. PICK m \in Nat : \A i \in 1..n : s[i] <= m
    BY <2>3, SeqBounded
  <2>5. \A l \in C : l <= m
    BY <1>4, <2>2, <2>4
  <2>6. PICK g \in C : \A y \in C : y <= m => y <= g
    BY <1>4, <2>1, <2>5, GreatestBelow
  <2>7. g \in C /\ \A y \in C : g >= y
    BY <1>4, <2>5, <2>6
  <2>8. Max(C) \in C
    BY <2>7 DEF Max
  <2> QED  BY <1>4, <2>1, <2>8
<1> QED  BY <1>3, <1>4, <1>5

LEMMA HowManyIs ==
  ASSUME NEW scored, ScoredRows(scored)
  PROVE  \A l : ClassSize(scored, l) \in Nat
<1>1. PICK n \in Nat : n = Len(scored) /\ DOMAIN scored = 1..n
  BY LenProperties DEF ScoredRows
<1>2. IsFiniteSet(1..n)
  BY FS_Interval
<1>3. \A S : S \subseteq 1..n => Cardinality(S) \in Nat
  BY <1>2, CountsWithin
<1> QED  BY <1>1, <1>3 DEF HowMany, ClassSize

LEMMA ProductExists ==
  ASSUME NEW scored, NEW l
  PROVE  \A n \in Nat : \E p : IsProduct(p, scored, l, n)
<1> DEFINE P == {n \in Nat : \E p : IsProduct(p, scored, l, n)}
           Factor(x) == IF x \in ClassesOf(scored) \ {l} THEN ClassSize(scored, x) ELSE 1
<1>1. 0 \in P
  <2>1. IsProduct([x \in 0..0 |-> 1], scored, l, 0)
    BY DEF IsProduct, ProductStep
  <2> QED  BY <2>1
<1>2. ASSUME NEW n \in Nat, n \in P PROVE n + 1 \in P
  <2>1. PICK f : IsProduct(f, scored, l, n)
    BY <1>2
  <2> DEFINE g == [x \in 0..(n + 1) |-> IF x = n + 1 THEN Factor(n + 1) * f[n] ELSE f[x]]
  <2>2. \A x \in 0..n : g[x] = f[x] /\ f[x] = IF x = 0 THEN 1 ELSE Factor(x) * f[x - 1]
    <3>1. \A x \in 0..n : g[x] = f[x]
      OBVIOUS
    <3>2. ASSUME NEW x \in 0..n PROVE f[x] = ProductStep(f, scored, l, x)
      <4> HIDE DEF g
      <4>1. f = [k \in 0..n |-> ProductStep(f, scored, l, k)]
        BY <2>1 DEF IsProduct
      <4> QED  BY <4>1, Zenon
    <3> QED  BY <3>1, <3>2 DEF ProductStep
  <2> HIDE DEF Factor
  <2>3. \A x \in 0..(n + 1) : g[x] = IF x = 0 THEN 1 ELSE Factor(x) * g[x - 1]
    BY <2>2, SMTT(30)
  <2>4. g = [x \in 0..(n + 1) |-> g[x]]
    OBVIOUS
  <2> HIDE DEF g
  <2>5. g = [x \in 0..(n + 1) |-> ProductStep(g, scored, l, x)]
    BY <2>3, <2>4 DEF ProductStep, Factor
  <2> QED  BY <2>5 DEF IsProduct
<1> HIDE DEF P
<1>3. \A n \in Nat : n \in P
  BY <1>1, <1>2, AllNaturals
<1> QED  BY <1>3 DEF P

LEMMA OthersIs ==
  ASSUME NEW scored, ScoredRows(scored), NEW l, NEW n \in Nat
  PROVE  Others(scored, l, n) \in Nat
<1>1. \E p : IsProduct(p, scored, l, n)
  BY ProductExists
<1> DEFINE q == CHOOSE p : p = [x \in 0..n |-> ProductStep(p, scored, l, x)]
<1>2. q = [x \in 0..n |-> ProductStep(q, scored, l, x)]
  BY <1>1 DEF IsProduct
<1>3. PICK f : f = q
  OBVIOUS
<1>4. f = [x \in 0..n |-> ProductStep(f, scored, l, x)] /\ Others(scored, l, n) = f[n]
  BY <1>2, <1>3 DEF Others
<1> HIDE DEF q
<1>5. ASSUME NEW x \in 0..n PROVE f[x] = ProductStep(f, scored, l, x)
  BY <1>4, Zenon
<1> DEFINE P == {i \in Nat : i <= n => f[i] \in Nat}
<1>6. 0 \in P
  <2>1. 0 \in 0..n
    OBVIOUS
  <2>2. f[0] = 1
    BY <1>5, <2>1 DEF ProductStep
  <2> QED  BY <2>2
<1>7. ASSUME NEW i \in Nat, i \in P PROVE i + 1 \in P
  <2> SUFFICES ASSUME i + 1 <= n PROVE f[i + 1] \in Nat
    OBVIOUS
  <2>1. PICK y \in Nat : y = IF i + 1 \in ClassesOf(scored) \ {l} THEN ClassSize(scored, i + 1) ELSE 1
    BY HowManyIs
  <2>2. i + 1 \in 0..n /\ i + 1 # 0 /\ (i + 1) - 1 = i /\ i <= n
    OBVIOUS
  <2>3. f[i + 1] = y * f[i] /\ f[i] \in Nat
    BY <1>5, <1>7, <2>1, <2>2 DEF ProductStep
  <2> QED  BY <2>3
<1> HIDE DEF P
<1>8. n \in P
  BY <1>6, <1>7, AllNaturals
<1> QED  BY <1>4, <1>8 DEF P

LEMMA MinRecallIs ==
  ASSUME NEW scored, NEW thr, NEW C, C = ClassesOf(scored), NEW n, n = Max(C)
  PROVE  MinRecall(scored, thr) = Min({Detected(scored, l, thr) * Others(scored, l, n) : l \in C})
BY DEF MinRecall, Others, ProductStep, ClassSize, ClassesOf

\* A higher threshold does not have a higher recall.
LEMMA MinRecallFalls ==
  ASSUME NEW scored, ScoredRows(scored), \E r \in ToSet(scored) : r.label > 0,
         NEW t \in Nat, NEW u \in Nat, t <= u
  PROVE  /\ MinRecall(scored, t) \in Nat /\ MinRecall(scored, u) \in Nat
         /\ MinRecall(scored, u) <= MinRecall(scored, t)
<1>1. PICK C : C = ClassesOf(scored) /\ C \subseteq Nat /\ C # {}
  BY ClassesAre
<1>2. PICK n \in Nat : n = Max(C)
  BY <1>1, ClassesAre
<1> DEFINE Recalls(x) == {Detected(scored, l, x) * Others(scored, l, n) : l \in C}
<1>3. \A x \in Nat : MinRecall(scored, x) = Min(Recalls(x))
  BY <1>1, <1>2, MinRecallIs
<1>4. ASSUME NEW l \in C
      PROVE  /\ Detected(scored, l, t) * Others(scored, l, n) \in Nat
             /\ Detected(scored, l, u) * Others(scored, l, n) \in Nat
             /\ Detected(scored, l, u) * Others(scored, l, n) <= Detected(scored, l, t) * Others(scored, l, n)
  <2>1. PICK a \in Nat, b \in Nat : a = Detected(scored, l, u) /\ b = Detected(scored, l, t) /\ a <= b
    BY DetectedFalls
  <2>2. PICK c \in Nat : c = Others(scored, l, n)
    BY OthersIs
  <2>3. a * c <= b * c /\ a * c \in Nat /\ b * c \in Nat
    BY <2>1, TimesGrows
  <2> QED  BY <2>1, <2>2, <2>3
<1>5. Recalls(t) \subseteq Nat /\ Recalls(u) \subseteq Nat /\ Recalls(t) # {} /\ Recalls(u) # {}
  BY <1>1, <1>4
<1>6. \A S : S \subseteq Nat /\ S # {} => Min(S) \in S /\ \A y \in S : Min(S) <= y
  <2> SUFFICES ASSUME NEW S, S \subseteq Nat, S # {} PROVE Min(S) \in S /\ \A y \in S : Min(S) <= y
    OBVIOUS
  <2>1. Least(S) \in S /\ \A y \in S : Least(S) <= y
    BY LeastExists
  <2> QED  BY <2>1 DEF Min
<1>7. PICK T, U : T = Recalls(t) /\ U = Recalls(u)
  OBVIOUS
<1>8. Min(T) \in T /\ Min(U) \in U /\ (\A y \in U : Min(U) <= y) /\ T \subseteq Nat /\ U \subseteq Nat
  BY <1>5, <1>6, <1>7
<1>9. PICK l \in C : Min(T) = Detected(scored, l, t) * Others(scored, l, n)
  BY <1>7, <1>8
<1>10. PICK y \in U : y = Detected(scored, l, u) * Others(scored, l, n)
  BY <1>7
<1>11. Min(U) <= y /\ y <= Min(T) /\ Min(T) \in Nat /\ Min(U) \in Nat /\ y \in Nat
  BY <1>4, <1>8, <1>9, <1>10
<1>12. Min(U) <= Min(T)
  BY <1>11
<1> QED  BY <1>3, <1>7, <1>11, <1>12

NormalPlaces(scored) == {i \in DOMAIN scored : scored[i].label = 0}

LEMMA NormalScoresAre ==
  ASSUME NEW scored, ScoredRows(scored), NEW s, s = NormalScores(scored)
  PROVE  /\ InOrderAll(s) /\ Len(s) \in Nat /\ Len(s) = Cardinality(NormalPlaces(scored))
         /\ IsFiniteSet(NormalPlaces(scored))
         /\ s # <<>> => Len(s) > 0
<1>1. PICK P : P = NormalPlaces(scored) /\ P \subseteq DOMAIN scored
  BY DEF NormalPlaces
<1>2. PICK w : w = RowsAt(scored, P)
  OBVIOUS
<1>3. /\ w \in Seq(CsvRow) /\ Len(w) = Cardinality(P) /\ IsFiniteSet(P)
  BY <1>1, <1>2, RowsAtIs DEF ScoredRows
<1>4. s = Sorted(ScoresOf(w))
  BY <1>1, <1>2 DEF NormalScores, NormalPlaces
<1>5. \A p \in 1..Len(w) : w[p].score \in Nat
  <2>1. \A p \in 1..Len(w) : w[p] \in CsvRow
    BY <1>3, ElementOfSeq
  <2> QED  BY <2>1 DEF CsvRow
<1>6. InOrderAll(s) /\ Len(s) = Len(w) /\ Len(w) \in Nat
  <2>1. \E T : w \in Seq(T)
    BY <1>3
  <2> QED  BY <1>4, <1>5, <2>1, SortedScores
<1>7. s # <<>> => Len(s) > 0
  <2>1. s \in Seq(Nat)
    BY <1>6 DEF InOrderAll
  <2>2. s # <<>> => Len(s) \in Nat \ {0}
    BY <2>1, EmptySeq
  <2> QED  BY <2>2
<1> QED  BY <1>1, <1>3, <1>6, <1>7

LEMMA StepsAreNat ==
  ASSUME NEW scored, ScoredRows(scored), NormalScores(scored) # <<>>
  PROVE  SweepSteps(scored) \subseteq Nat
<1>1. PICK s : s = NormalScores(scored)
  OBVIOUS
<1>2. InOrderAll(s) /\ Len(s) > 0
  BY <1>1, NormalScoresAre
<1>3. PICK k \in Nat : k = LinSteps - 1 /\ k > 0
  BY SweepConstants
<1>4. PICK p \in Permille, q \in Permille : p = 300 /\ q = 999
  BY DEF Permille
<1>5. p <= q
  BY <1>4
<1>6. PICK a \in Nat, b \in Nat : a = Percentile(s, p) /\ b = Percentile(s, q) /\ a <= b
  BY <1>2, <1>5, PercentileGrows
<1>7. PICK lo, hi : lo = a \div k /\ hi = b \div k
  OBVIOUS
<1>8. lo \in Nat /\ hi \in Nat /\ lo <= hi
  <2>1. a \div k \in Nat /\ k * (a \div k) <= a /\ a < k * (a \div k) + k
    BY <1>3
  <2>2. b \div k \in Nat /\ k * (b \div k) <= b /\ b < k * (b \div k) + k
    BY <1>3
  <2>3. lo \in Nat /\ hi \in Nat
    BY <1>7, <2>1, <2>2
  <2>4. lo <= hi
    <3> SUFFICES ASSUME hi + 1 <= lo PROVE FALSE
      BY <2>3
    <3>1. (hi + 1) * k <= lo * k /\ (hi + 1) * k \in Nat /\ lo * k \in Nat
      <4>1. PICK h \in Nat : h = hi + 1
        BY <2>3
      <4>2. h * k <= lo * k /\ h * k \in Nat /\ lo * k \in Nat
        BY <2>3, <4>1, TimesGrows
      <4> QED  BY <4>1, <4>2
    <3>2. (hi + 1) * k = k * hi + k /\ lo * k = k * lo /\ k * hi \in Nat /\ k * lo \in Nat
      BY <2>3
    <3>3. k * lo <= a /\ b < k * hi + k
      BY <1>7, <2>1, <2>2
    <3> QED  BY <1>6, <3>1, <3>2, <3>3
  <2> QED  BY <2>3, <2>4
<1>9. PICK d \in Nat : d = hi - lo
  BY <1>8
<1>10. \A i \in Nat : k * lo + i * d \in Nat
  BY <1>8
<1>11. \A r \in Percentiles : Percentile(s, r) \in Nat
  <2> SUFFICES ASSUME NEW r \in Percentiles PROVE Percentile(s, r) \in Nat
    OBVIOUS
  <2>1. r \in Permille /\ r <= r
    BY SweepConstants DEF Permille
  <2> QED  BY <1>2, <2>1, PercentileGrows
<1>12. Unit * CurrentThresh \in Nat
  BY UnitIs, SweepConstants
<1>13. SweepSteps(scored) = {k * lo + i * d : i \in 0..k}
                              \cup {Percentile(s, r) : r \in Percentiles} \cup {Unit * CurrentThresh}
  BY <1>1, <1>3, <1>4, <1>6, <1>7, <1>9 DEF SweepSteps
<1> SUFFICES ASSUME NEW t \in SweepSteps(scored) PROVE t \in Nat
  OBVIOUS
<1>14. CASE \E i \in 0..k : t = k * lo + i * d
  <2>1. PICK i \in Nat : t = k * lo + i * d
    BY <1>14
  <2> QED  BY <1>10, <2>1
<1>15. CASE \E r \in Percentiles : t = Percentile(s, r)
  BY <1>11, <1>15
<1>16. CASE t = Unit * CurrentThresh
  BY <1>12, <1>16
<1> QED  BY <1>13, <1>14, <1>15, <1>16

KeptSteps(scored) == {t \in SweepSteps(scored) : Keeps(scored, t)}

LEMMA BestAre ==
  ASSUME NEW scored, ScoredRows(scored), NormalScores(scored) # <<>>,
         \E r \in ToSet(scored) : r.label > 0
  PROVE  /\ Best(scored) \subseteq KeptSteps(scored) /\ KeptSteps(scored) \subseteq Nat
         /\ KeptSteps(scored) # {} =>
              /\ Min(KeptSteps(scored)) \in Best(scored)
              /\ \A t \in KeptSteps(scored) : Min(KeptSteps(scored)) <= t
<1>1. PICK K : K = KeptSteps(scored) /\ K \subseteq Nat
  BY StepsAreNat DEF KeptSteps
<1>2. PICK recall : recall = [t \in K |-> MinRecall(scored, t)]
  OBVIOUS
<1>3. Best(scored) = {t \in K : \A u \in K : recall[u] <= recall[t]}
  BY <1>1, <1>2 DEF Best, KeptSteps
<1>4. ASSUME K # {} PROVE Min(K) \in Best(scored) /\ \A t \in K : Min(K) <= t
  <2>1. PICK m \in K : m = Least(K) /\ \A t \in K : m <= t
    BY <1>1, <1>4, LeastExists
  <2>2. Min(K) = m
    BY <1>1, <2>1, MinIs
  <2>3. \A u \in K : recall[u] <= recall[m]
    BY <1>1, <1>2, <2>1, MinRecallFalls
  <2> QED  BY <1>3, <2>1, <2>2, <2>3
<1> QED  BY <1>1, <1>3, <1>4

LEMMA SweptIs ==
  ASSUME NEW scored, ScoredRows(scored), NormalScores(scored) # <<>>,
         \E r \in ToSet(scored) : r.label > 0
  PROVE  Swept(scored) = IF KeptSteps(scored) = {} THEN -1 ELSE Min(KeptSteps(scored))
<1>1. PICK K, B : K = KeptSteps(scored) /\ B = Best(scored)
  OBVIOUS
<1>2. B \subseteq K /\ K \subseteq Nat /\ (K # {} => Min(K) \in B /\ \A t \in K : Min(K) <= t)
  BY <1>1, BestAre
<1>3. CASE K = {}
  BY <1>1, <1>2, <1>3 DEF Swept
<1>4. CASE K # {}
  <2>1. PICK m \in B : m = Min(K)
    BY <1>2, <1>4
  <2>2. B \subseteq Int /\ \A x \in B : m <= x
    BY <1>2, <1>4, <2>1
  <2>3. Min(B) = m
    BY <2>1, <2>2, MinIs
  <2> QED  BY <1>1, <1>4, <2>1, <2>3 DEF Swept
<1> QED  BY <1>3, <1>4

LEMMA SweepFindsLeastHolds ==
  ASSUME CsvInv
  PROVE  SweepFindsLeast
<1>1. PICK scored : scored = CellScores
  OBVIOUS
<1>2. ScoredRows(scored)
  BY <1>1, CellScoresAre DEF ScoredRows
<1> SUFFICES ASSUME NormalScores(scored) # <<>>, \E r \in ToSet(scored) : r.label > 0
             PROVE  Swept(scored) = IF KeptSteps(scored) = {} THEN -1 ELSE Min(KeptSteps(scored))
  BY <1>1 DEF SweepFindsLeast, KeptSteps
<1> QED  BY <1>2, SweptIs

LEMMA SweptRateKeptHolds ==
  ASSUME CsvInv
  PROVE  SweptRateKept
<1>1. PICK scored, rows, thr : scored = CellScores /\ rows = csv /\ thr = Swept(scored)
  OBVIOUS
<1>2. ScoredRows(scored)
  BY <1>1, CellScoresAre DEF ScoredRows
<1> SUFFICES ASSUME NormalScores(scored) # <<>>, \E r \in ToSet(scored) : r.label > 0, thr # -1
             PROVE  1000 * GruFpr(thr).fired <= MaxFpr * GruFpr(thr).normal
  BY <1>1 DEF SweptRateKept
<1>3. thr \in KeptSteps(scored) /\ thr \in Nat
  <2>1. KeptSteps(scored) # {} /\ thr = Min(KeptSteps(scored))
    BY <1>1, <1>2, SweptIs
  <2> QED  BY <1>2, <2>1, BestAre
<1>4. PICK k \in Nat : k = SkippedRows
  BY SweepConstants
<1>5. PICK n \in Nat : n = Len(rows) /\ DOMAIN rows = 1..n /\ rows \in Seq(CsvRow)
  BY <1>1, StampedHasUes DEF CsvInv, Stamped
<1>6. PICK m \in Nat : m = Len(scored) /\ DOMAIN scored = 1..m
  BY <1>2, LenProperties DEF ScoredRows
<1>7. /\ \A i \in 1..m : i + k \in 1..n /\ scored[i] = rows[i + k]
      /\ \A i \in 1..n : i > k => i - k \in 1..m
  BY <1>1, <1>4, <1>5, <1>6, CellScoresAre
<1>8. PICK F, D, N, A : /\ F = {i \in GruAlerts(thr) : rows[i].label = 0}
                        /\ D = DetectedPlaces(scored, 0, thr)
                        /\ N = NormalPlaces(scored)
                        /\ A = {i \in DOMAIN rows : rows[i].label = 0}
  OBVIOUS
<1>9. GruFpr(thr).fired = Cardinality(F) /\ GruFpr(thr).normal = Cardinality(A)
  BY <1>1, <1>8 DEF GruFpr, HowMany
<1>10. /\ Detected(scored, 0, thr) = Cardinality(D)
       /\ 1000 * Cardinality(D) <= MaxFpr * Len(NormalScores(scored))
       /\ Len(NormalScores(scored)) = Cardinality(N)
  <2>1. thr <= thr
    BY <1>3
  <2>2. Detected(scored, 0, thr) = Cardinality(D)
    BY <1>2, <1>3, <1>8, <2>1, DetectedFalls
  <2>3. 1000 * Detected(scored, 0, thr) <= MaxFpr * Len(NormalScores(scored))
    BY <1>3 DEF KeptSteps, Keeps
  <2> QED  BY <1>2, <1>8, <2>2, <2>3, NormalScoresAre
<1>11. IsFiniteSet(1..n) /\ IsFiniteSet(1..m)
  BY FS_Interval
<1>12. Cardinality(F) <= Cardinality(D) /\ Cardinality(F) \in Nat /\ Cardinality(D) \in Nat
  <2>1. PICK j \in Int : j = -k
    OBVIOUS
  <2>2. ASSUME NEW i \in F PROVE i \in Int /\ i + j \in D
    <3>1. i \in 3..Len(csv) /\ Flagged(i, thr) /\ rows[i].label = 0
      <4>1. i \in GruAlerts(thr) /\ rows[i].label = 0
        BY <1>8
      <4>2. i \in 3..n /\ \A x \in (i - 2)..i : Flagged(x, thr)
        BY <1>1, <1>5, <4>1 DEF GruAlerts
      <4>3. i \in (i - 2)..i
        BY <4>2
      <4> QED  BY <1>1, <1>5, <4>1, <4>2, <4>3
    <3>2. i \in 1..n /\ i > k /\ Unit * rows[i].score > thr
      BY <1>1, <1>4, <1>5, <3>1 DEF Flagged
    <3>3. i - k \in 1..m
      BY <1>7, <3>2
    <3>4. i + j = i - k /\ (i - k) + k = i
      BY <2>1, <3>2
    <3>5. scored[i - k] = rows[i]
      BY <1>7, <3>3, <3>4
    <3>6. PICK x \in Nat : x = Unit * rows[i].score
      <4>1. rows[i] \in CsvRow
        BY <1>5, <3>2, ElementOfSeq
      <4>2. rows[i].score \in Nat
        BY <4>1 DEF CsvRow
      <4> QED  BY <4>2, UnitIs
    <3>7. Unit * scored[i - k].score >= thr
      BY <1>3, <3>2, <3>5, <3>6
    <3> QED  BY <1>6, <1>8, <3>1, <3>2, <3>3, <3>4, <3>5, <3>7 DEF DetectedPlaces
  <2>3. IsFiniteSet(D)
    <3>1. D \subseteq 1..m
      BY <1>6, <1>8 DEF DetectedPlaces
    <3> QED  BY <1>11, <3>1, FS_Subset
  <2>4. F \subseteq Int /\ \A i \in F : i + j \in D
    BY <2>2
  <2> QED  BY <2>3, <2>4, ShiftCount
<1>13. Cardinality(N) <= Cardinality(A) /\ Cardinality(N) \in Nat /\ Cardinality(A) \in Nat
  <2>1. N \subseteq Int /\ \A i \in N : i + k \in A
    BY <1>5, <1>6, <1>7, <1>8 DEF NormalPlaces
  <2>2. IsFiniteSet(A)
    <3>1. A \subseteq 1..n
      BY <1>5, <1>8
    <3> QED  BY <1>11, <3>1, FS_Subset
  <2>3. PICK j \in Int : j = k
    OBVIOUS
  <2> QED  BY <2>1, <2>2, <2>3, ShiftCount
<1>14. PICK f \in Nat, d \in Nat, x \in Nat, y \in Nat, c \in Nat :
         f = Cardinality(F) /\ d = Cardinality(D) /\ x = Cardinality(N) /\ y = Cardinality(A) /\ c = MaxFpr
  BY <1>12, <1>13, SweepConstants
<1>15. x * c <= y * c /\ x * c \in Nat /\ y * c \in Nat
  <2>1. x <= y
    BY <1>13, <1>14
  <2> QED  BY <2>1, TimesGrows
<1>16. 1000 * d <= c * x
  BY <1>10, <1>14
<1>17. f <= d
  BY <1>12, <1>14
<1>18. c * x = x * c /\ c * y = y * c
  OBVIOUS
<1>19. 1000 * f <= c * y
  BY <1>15, <1>16, <1>17, <1>18
<1> QED  BY <1>9, <1>14, <1>19

-----------------------------------------------------------------------------
(* calibrate_threshold_gru: narrowing to the nineties changes nothing      *)

\* Pairs put one after the other.
PairsOf(n, x, y) == [b \in 1..n |-> <<x[b], y[b]>>]
PairsFrom(T, n, x, y) == \A b \in 1..n : x[b] \in T /\ y[b] \in T
PairsIn(s, n, x, y) == Len(s) = 2 * n /\ \A b \in 1..n : s[2 * b - 1] = x[b] /\ s[2 * b] = y[b]

LEMMA FlattenPairs ==
  ASSUME NEW T, NEW n \in Nat, NEW x, NEW y, PairsFrom(T, n, x, y),
         NEW s, s = FlattenSeq(PairsOf(n, x, y))
  PROVE  s \in Seq(T) /\ PairsIn(s, n, x, y)
<1>1. PICK seqs : seqs = [b \in 1..n |-> <<x[b], y[b]>>]
  OBVIOUS
<1>2. \A b \in 1..n : seqs[b] \in Seq(T) /\ Len(seqs[b]) = 2 /\ seqs[b][1] = x[b] /\ seqs[b][2] = y[b]
  BY <1>1 DEF PairsFrom
<1>3. seqs \in Seq(Seq(T)) /\ Len(seqs) = n
  <2>1. seqs \in [1..n -> Seq(T)]
    BY <1>1, <1>2
  <2> QED  BY <1>1, <2>1, IsASeq, LenProperties
<1>5. PICK lens : lens = [b \in 1..Len(seqs) |-> Len(seqs[b])]
  OBVIOUS
<1>4. PICK off : IsSum(off, lens, n)
  BY SumExists
<1>6. lens = [b \in 1..n |-> 2]
  BY <1>2, <1>3, <1>5
<1>7. off = [i \in 0..n |-> IF i = 0 THEN 0 ELSE off[i - 1] + lens[i]]
  BY <1>3, <1>4, <1>5 DEF IsSum
<1>8. \A i \in 0..n : off[i] = IF i = 0 THEN 0 ELSE off[i - 1] + 2
  BY <1>6, <1>7
<1> DEFINE P == {i \in Nat : i <= n => off[i] = 2 * i}
<1>9. 0 \in P
  <2>1. 0 \in 0..n
    OBVIOUS
  <2> QED  BY <1>8, <2>1
<1>10. ASSUME NEW i \in Nat, i \in P PROVE i + 1 \in P
  <2> SUFFICES ASSUME i + 1 <= n PROVE off[i + 1] = 2 * (i + 1)
    OBVIOUS
  <2>1. i + 1 \in 0..n /\ i + 1 # 0 /\ (i + 1) - 1 = i /\ i <= n
    OBVIOUS
  <2> QED  BY <1>8, <1>10, <2>1
<1> HIDE DEF P
<1>11. \A i \in Nat : i \in P
  BY <1>9, <1>10, AllNaturals
<1>12. \A i \in 0..n : off[i] = 2 * i
  BY <1>11 DEF P
<1>13. /\ FlattenSeq(seqs) \in Seq(T) /\ Len(FlattenSeq(seqs)) = off[n]
       /\ \A b \in 1..n : \A k \in 1..Len(seqs[b]) : FlattenSeq(seqs)[off[b - 1] + k] = seqs[b][k]
  <2>2. IsSum(off, [b \in 1..Len(seqs) |-> Len(seqs[b])], Len(seqs))
    BY <1>3, <1>4, <1>5
  <2>3. seqs \in Seq(Seq(T))
    BY <1>3
  <2>1. /\ FlattenSeq(seqs) \in Seq(T) /\ Len(FlattenSeq(seqs)) = off[Len(seqs)]
        /\ \A b \in 1..Len(seqs) : \A k \in 1..Len(seqs[b]) : FlattenSeq(seqs)[off[b - 1] + k] = seqs[b][k]
    BY <2>2, <2>3, FlattenIs
  <2> QED  BY <1>3, <2>1
<1>14. s = FlattenSeq(seqs)
  BY <1>1 DEF PairsOf
<1>15. ASSUME NEW b \in 1..n PROVE s[2 * b - 1] = x[b] /\ s[2 * b] = y[b]
  <2>1. b - 1 \in 0..n /\ off[b - 1] = 2 * (b - 1)
    BY <1>12
  <2>2. 1 \in 1..Len(seqs[b]) /\ 2 \in 1..Len(seqs[b])
    BY <1>2
  <2>3. s[off[b - 1] + 1] = x[b] /\ s[off[b - 1] + 2] = y[b]
    BY <1>2, <1>13, <1>14, <2>2
  <2>4. off[b - 1] + 1 = 2 * b - 1 /\ off[b - 1] + 2 = 2 * b
    BY <2>1
  <2> QED  BY <2>3, <2>4
<1>16. off[n] = 2 * n
  <2>1. n \in 0..n
    OBVIOUS
  <2> QED  BY <1>12, <2>1
<1> QED  BY <1>13, <1>14, <1>15, <1>16 DEF PairsIn

\* Of candidates: from the highest percentile down, the model alone first.
InTriedOrder(s) ==
  /\ \E T : s \in Seq(T)
  /\ \A i \in 1..Len(s) : s[i].rec \in Nat /\ s[i].p \in Nat
  /\ \A i, j \in 1..Len(s) : i <= j =>
       /\ s[j].p <= s[i].p
       /\ s[j].p = s[i].p /\ s[j].mode = "gru" => s[i].mode = "gru"

LEMMA OrderOfSome ==
  ASSUME NEW s, InTriedOrder(s), NEW P, P \subseteq DOMAIN s
  PROVE  /\ InTriedOrder(RowsAt(s, P)) /\ (RowsAt(s, P) # <<>> <=> P # {})
         /\ \A i \in P : \E k \in 1..Len(RowsAt(s, P)) : RowsAt(s, P)[k] = s[i]
         /\ \A k \in 1..Len(RowsAt(s, P)) : \E i \in P : RowsAt(s, P)[k] = s[i]
<1>1. PICK T : s \in Seq(T)
  BY DEF InTriedOrder
<1>2. PICK r : r = RowsAt(s, P)
  OBVIOUS
<1>3. P \subseteq Int /\ IsFiniteSet(P)
  BY <1>1, RowsAtIs
<1>4. PICK n \in Nat : n = Cardinality(P)
  BY <1>1, RowsAtIs
<1>5. /\ r \in Seq(T) /\ Len(r) = n
      /\ \A k \in 1..n : r[k] = s[Ascending(P)[k]] /\ Ascending(P)[k] \in P
      /\ \A i \in P : PlaceIn(P, i) \in 1..n /\ r[PlaceIn(P, i)] = s[i]
  BY <1>1, <1>2, <1>4, RowsAtIs
<1>6. PICK a : a = Ascending(P)
  OBVIOUS
<1>7. \A k, l \in 1..n : k < l <=> a[k] < a[l]
  BY <1>3, <1>4, <1>6, AscendingIs
<1>8. \A k \in 1..n : a[k] \in P /\ a[k] \in Int /\ a[k] \in 1..Len(s) /\ r[k] = s[a[k]]
  BY <1>1, <1>3, <1>5, <1>6, LenProperties
<1>9. \A k, l \in 1..n : k <= l => a[k] <= a[l]
  BY <1>7, <1>8
<1>10. InTriedOrder(r)
  <2>1. \E U : r \in Seq(U)
    BY <1>5
  <2>2. \A k \in 1..n : r[k].rec \in Nat /\ r[k].p \in Nat
    BY <1>8 DEF InTriedOrder
  <2>3. ASSUME NEW k \in 1..n, NEW l \in 1..n, k <= l
        PROVE  /\ r[l].p <= r[k].p
               /\ r[l].p = r[k].p /\ r[l].mode = "gru" => r[k].mode = "gru"
    <3>1. PICK i \in 1..Len(s), j \in 1..Len(s) : i = a[k] /\ j = a[l] /\ i <= j
      BY <1>8, <1>9, <2>3
    <3>2. /\ s[j].p <= s[i].p
          /\ s[j].p = s[i].p /\ s[j].mode = "gru" => s[i].mode = "gru"
      BY <3>1 DEF InTriedOrder
    <3> QED  BY <1>8, <3>1, <3>2
  <2> QED  BY <1>5, <2>1, <2>2, <2>3 DEF InTriedOrder
<1>11. r # <<>> <=> P # {}
  <2>1. r # <<>> <=> n # 0
    BY <1>5, EmptySeq
  <2>2. n # 0 <=> P # {}
    BY <1>3, <1>4, FS_EmptySet
  <2> QED  BY <2>1, <2>2
<1>12. \A i \in P : \E k \in 1..n : r[k] = s[i]
  BY <1>5
<1>13. \A k \in 1..n : \E i \in P : r[k] = s[i]
  BY <1>8
<1> QED  BY <1>2, <1>5, <1>10, <1>11, <1>12, <1>13

\* The place of the first candidate that detects most.
FirstAt(s, i) ==
  i \in 1..Len(s) /\ \A j \in 1..Len(s) : s[j].rec < s[i].rec \/ (s[j].rec = s[i].rec /\ j >= i)

LEMMA FirstBestIs ==
  ASSUME NEW s, InTriedOrder(s), s # <<>>
  PROVE  \E i \in 1..Len(s) : FirstAt(s, i) /\ FirstBest(s) = s[i]
<1>1. PICK T : s \in Seq(T)
  BY DEF InTriedOrder
<1>2. PICK n \in Nat : n = Len(s) /\ DOMAIN s = 1..n /\ n > 0
  BY <1>1, LenProperties, EmptySeq
<1>3. PICK q : q = [i \in 1..n |-> s[i].rec]
  OBVIOUS
<1>4. q \in Seq(Nat) /\ Len(q) = n /\ \A i \in 1..n : q[i] = s[i].rec /\ q[i] \in Nat
  <2>1. q \in [1..n -> Nat]
    BY <1>2, <1>3 DEF InTriedOrder
  <2> QED  BY <1>3, <2>1, IsASeq, LenProperties
<1>5. PICK m \in Nat : \A i \in 1..n : q[i] <= m
  BY <1>4, SeqBounded
<1>6. PICK R : R = {q[i] : i \in 1..n}
  OBVIOUS
<1>7. R \subseteq Nat /\ q[1] \in R /\ q[1] <= m /\ \A i \in 1..n : q[i] \in R
  BY <1>2, <1>4, <1>5, <1>6
<1>8. PICK g \in R : \A y \in R : y <= m => y <= g
  BY <1>7, GreatestBelow
<1>9. \A i \in 1..n : q[i] <= g
  BY <1>5, <1>7, <1>8
<1>10. PICK I : I = {i \in 1..n : q[i] = g}
  OBVIOUS
<1>11. I \subseteq Nat /\ I # {}
  BY <1>6, <1>10
<1>12. PICK i \in I : \A j \in I : i <= j
  BY <1>11, LeastExists
<1>13. FirstAt(s, i)
  <2>1. i \in 1..n /\ s[i].rec = g
    BY <1>4, <1>10
  <2>2. ASSUME NEW j \in 1..n PROVE s[j].rec < g \/ (s[j].rec = g /\ j >= i)
    <3>1. PICK x \in Nat, z \in Nat : x = s[j].rec /\ z = g /\ x <= z
      BY <1>4, <1>7, <1>9
    <3>2. x = z => j >= i
      BY <1>4, <1>10, <1>12, <2>1, <3>1
    <3> QED  BY <3>1, <3>2
  <2> QED  BY <1>2, <2>1, <2>2 DEF FirstAt
<1>14. FirstBest(s) = CHOOSE c \in ToSet(s) : \E k \in 1..n : s[k] = c /\ FirstAt(s, k)
  <2>1. \A c : \A k \in 1..n : s[k] = c /\ (\A j \in 1..n : s[j].rec < c.rec \/ (s[j].rec = c.rec /\ j >= k))
                 <=> s[k] = c /\ FirstAt(s, k)
    BY <1>2 DEF FirstAt
  <2>2. FirstBest(s) = CHOOSE c \in ToSet(s) : \E k \in 1..n :
                          s[k] = c /\ \A j \in 1..n : s[j].rec < c.rec \/ (s[j].rec = c.rec /\ j >= k)
    BY <1>2 DEF FirstBest
  <2> QED  BY <2>1, <2>2
<1>15. i \in 1..n /\ s[i] \in ToSet(s)
  BY <1>2, <1>10 DEF ToSet
<1>16. \E k \in 1..n : s[k] = FirstBest(s) /\ FirstAt(s, k)
  BY <1>13, <1>14, <1>15
<1> QED  BY <1>2, <1>16

\* A row of the table that a percentile gives: of the model alone, or with the rules.
GruRow(val, attack, scores, mode, p) ==
  [mode |-> mode, p |-> p, thresh |-> Percentile(scores, p),
   fpr |-> HowMany(val, LAMBDA z : Above(z, Percentile(scores, p)) \/ (mode = "hybrid" /\ z.rule)),
   rec |-> HowMany(attack, LAMBDA z : z.label > 0 /\ (Above(z, Percentile(scores, p)) \/ (mode = "hybrid" /\ z.rule)))]

LEMMA GruTriedIs ==
  ASSUME NEW val, NEW attack, NEW scores, NEW p
  PROVE  GruTried(val, attack, scores, p) =
           <<GruRow(val, attack, scores, "gru", p), GruRow(val, attack, scores, "hybrid", p)>>
BY DEF GruTried, GruRow

\* A pair at b: its percentile is d[b].
PairAt(x, y, d, b) ==
  /\ x[b].mode = "gru" /\ y[b].mode = "hybrid" /\ x[b].p = d[b] /\ y[b].p = d[b]
  /\ d[b] \in Nat /\ x[b].rec \in Nat /\ y[b].rec \in Nat

LEMMA PairOrder ==
  ASSUME NEW n \in Nat, NEW x, NEW y, NEW d, NEW T, NEW s \in Seq(T), PairsIn(s, n, x, y),
         \A b \in 1..n : PairAt(x, y, d, b),
         \A b, c \in 1..n : b < c <=> d[c] < d[b]
  PROVE  InTriedOrder(s)
<1>1. ASSUME NEW k \in 1..(2 * n)
      PROVE  \E b \in 1..n : \/ k = 2 * b - 1 /\ s[k] = x[b]
                             \/ k = 2 * b /\ s[k] = y[b]
  <2>1. PICK b \in Int : k = 2 * b - 1 \/ k = 2 * b
    <3>1. \E h \in Int : k = 2 * h \/ k = 2 * h + 1
      <4>1. k \div 2 \in Int /\ (k = 2 * (k \div 2) \/ k = 2 * (k \div 2) + 1)
        OBVIOUS
      <4> QED  BY <4>1
    <3>2. PICK h \in Int : k = 2 * h \/ k = 2 * h + 1
      BY <3>1
    <3>3. CASE k = 2 * h
      BY <3>3
    <3>4. CASE k = 2 * h + 1
      <4>1. h + 1 \in Int /\ k = 2 * (h + 1) - 1
        BY <3>4
      <4> QED  BY <4>1
    <3> QED  BY <3>2, <3>3, <3>4
  <2>2. b \in 1..n
    BY <2>1
  <2> QED  BY <2>1, <2>2 DEF PairsIn
<1>2. \A k \in 1..(2 * n) : s[k].rec \in Nat /\ s[k].p \in Nat
  <2> SUFFICES ASSUME NEW k \in 1..(2 * n) PROVE s[k].rec \in Nat /\ s[k].p \in Nat
    OBVIOUS
  <2>1. PICK b \in 1..n : s[k] = x[b] \/ s[k] = y[b]
    BY <1>1
  <2>2. PairAt(x, y, d, b)
    OBVIOUS
  <2> QED  BY <2>1, <2>2 DEF PairAt
<1>3. ASSUME NEW i \in 1..(2 * n), NEW j \in 1..(2 * n), i <= j
      PROVE  /\ s[j].p <= s[i].p
             /\ s[j].p = s[i].p /\ s[j].mode = "gru" => s[i].mode = "gru"
  <2>1. PICK b \in 1..n : \/ i = 2 * b - 1 /\ s[i] = x[b]
                          \/ i = 2 * b /\ s[i] = y[b]
    BY <1>1
  <2>2. PICK c \in 1..n : \/ j = 2 * c - 1 /\ s[j] = x[c]
                          \/ j = 2 * c /\ s[j] = y[c]
    BY <1>1
  <2>3. b <= c
    BY <1>3, <2>1, <2>2
  <2>4. PICK u \in Nat, v \in Nat : u = d[b] /\ v = d[c]
    BY DEF PairAt
  <2>5. s[i].p = u /\ s[j].p = v
    BY <2>1, <2>2, <2>4 DEF PairAt
  <2>6. v <= u /\ (u = v => b = c)
    <3>1. (b < c <=> v < u) /\ (c < b <=> u < v)
      BY <2>4
    <3> QED  BY <2>3, <3>1
  <2>7. ASSUME u = v, s[j].mode = "gru" PROVE s[i].mode = "gru"
    <3>1. b = c
      BY <2>6, <2>7
    <3>2. x[c].mode = "gru" /\ y[c].mode = "hybrid"
      BY DEF PairAt
    <3>3. s[j] = x[c] /\ j = 2 * c - 1
      BY <2>2, <2>7, <3>2
    <3>4. i = 2 * b - 1 /\ s[i] = x[b]
      BY <1>3, <2>1, <3>1, <3>3
    <3> QED  BY <3>1, <3>2, <3>4
  <2> QED  BY <2>5, <2>6, <2>7
<1>4. \E U : s \in Seq(U)
  OBVIOUS
<1> QED  BY <1>2, <1>3, <1>4 DEF InTriedOrder, PairsIn

LEMMA CandidatesAre ==
  ASSUME CsvInv, NEW c, c = GruCandidates
  PROVE  InTriedOrder(c) /\ HowMany(GruAttack, LAMBDA z : z.label > 0) \in Nat
<1>1. PICK val, attack, s, n, d : /\ val = GruVal /\ attack = GruAttack /\ s = Sorted(ScoresOf(val))
                                  /\ n = Cardinality(Percentiles) /\ d = Descending(Percentiles)
  OBVIOUS
<1>2. /\ n \in Nat /\ \A b \in 1..n : d[b] \in Permille /\ d[b] \in Nat
      /\ \A b, e \in 1..n : b < e <=> d[e] < d[b]
  <2>1. \A p \in Permille : p \in Nat
    BY DEF Permille
  <2> QED  BY <1>1, <2>1, DescendingIs
<1>3. PoolEntries(attack)
  <2>1. PICK rows : rows = csv
    OBVIOUS
  <2>2. HasUes(rows) /\ \A i \in DOMAIN rows : rows[i] \in CsvRow
    BY <2>1, StampedHasUes DEF CsvInv
  <2> QED  BY <1>1, <2>1, <2>2, LstmEntries DEF GruAttack
<1>4. \A S : S \subseteq DOMAIN attack => Cardinality(S) \in Nat
  <2>1. IsFiniteSet(DOMAIN attack)
    BY <1>3, SortedScores DEF PoolEntries
  <2> QED  BY <2>1, CountsWithin
<1>5. HowMany(attack, LAMBDA z : z.label > 0) \in Nat
  BY <1>4 DEF HowMany
<1> DEFINE x == [b \in 1..n |-> GruRow(val, attack, s, "gru", d[b])]
           y == [b \in 1..n |-> GruRow(val, attack, s, "hybrid", d[b])]
           T == {x[b] : b \in 1..n} \cup {y[b] : b \in 1..n}
           tried == FlattenSeq([b \in 1..n |-> GruTried(val, attack, s, d[b])])
<1>6. [b \in 1..n |-> GruTried(val, attack, s, d[b])] = [b \in 1..n |-> <<x[b], y[b]>>]
  BY GruTriedIs
<1>7. \A b \in 1..n : PairAt(x, y, d, b)
  <2> SUFFICES ASSUME NEW b \in 1..n PROVE PairAt(x, y, d, b)
    OBVIOUS
  <2>1. x[b] = GruRow(val, attack, s, "gru", d[b]) /\ y[b] = GruRow(val, attack, s, "hybrid", d[b])
    OBVIOUS
  <2>2. \A m : GruRow(val, attack, s, m, d[b]).rec \in Nat
    BY <1>4 DEF GruRow, HowMany
  <2>3. \A m : GruRow(val, attack, s, m, d[b]).mode = m /\ GruRow(val, attack, s, m, d[b]).p = d[b]
    BY DEF GruRow
  <2> HIDE DEF x, y
  <2> QED  BY <1>2, <2>1, <2>2, <2>3 DEF PairAt
<1>8. tried = FlattenSeq([b \in 1..n |-> <<x[b], y[b]>>])
  BY <1>6
<1>9. \A b \in 1..n : x[b] \in T /\ y[b] \in T
  OBVIOUS
<1> HIDE DEF x, y, T, tried
<1>10. PICK X, Y, U, t : X = x /\ Y = y /\ U = T /\ t = tried
  OBVIOUS
<1>11. InTriedOrder(t)
  <2>1. PairsFrom(U, n, X, Y)
    BY <1>9, <1>10 DEF PairsFrom
  <2>2. t = FlattenSeq(PairsOf(n, X, Y)) /\ n \in Nat
    BY <1>2, <1>8, <1>10 DEF PairsOf
  <2>3. t \in Seq(U) /\ PairsIn(t, n, X, Y)
    BY <2>1, <2>2, FlattenPairs
  <2>4. \A b \in 1..n : PairAt(X, Y, d, b)
    BY <1>7, <1>10
  <2> QED  BY <1>2, <2>3, <2>4, PairOrder
<1>13. PICK P : P = {i \in DOMAIN t : 1000 * t[i].fpr <= MaxFpr * Len(val)}
  OBVIOUS
<1>14. GruCandidates = IF val = <<>> \/ attack = <<>> THEN <<>>
                       ELSE RowsAt(tried, {i \in DOMAIN tried : 1000 * tried[i].fpr <= MaxFpr * Len(val)})
  BY <1>1 DEF GruCandidates, tried
<1>15. c = IF val = <<>> \/ attack = <<>> THEN <<>> ELSE RowsAt(t, P)
  BY <1>10, <1>13, <1>14
<1>16. InTriedOrder(RowsAt(t, P))
  <2>1. P \subseteq DOMAIN t
    BY <1>13
  <2> QED  BY <1>11, <2>1, OrderOfSome
<1>17. InTriedOrder(<<>>)
  <2>1. \E V : <<>> \in Seq(V)
    BY EmptySeq
  <2>2. Len(<<>>) = 0 /\ 1..0 = {}
    OBVIOUS
  <2> QED  BY <2>1, <2>2 DEF InTriedOrder
<1> QED  BY <1>1, <1>5, <1>15, <1>16, <1>17

LEMMA GruSavedIsBestHolds ==
  ASSUME CsvInv
  PROVE  GruSavedIsBest
<1>1. PICK c, best : c = GruCandidates /\ best = SavedGru
  OBVIOUS
<1>2. PICK attacks \in Nat : attacks = HowMany(GruAttack, LAMBDA z : z.label > 0)
  BY CandidatesAre
<1>3. InTriedOrder(c)
  BY <1>1, CandidatesAre
<1>4. PICK T : c \in Seq(T)
  BY <1>3 DEF InTriedOrder
<1>5. PICK n \in Nat : n = Len(c) /\ DOMAIN c = 1..n
  BY <1>4, LenProperties
<1> SUFFICES ASSUME best # NothingSaved, NEW k \in 1..n
             PROVE  /\ c[k].rec <= best.rec
                    /\ c[k].rec = best.rec => c[k].p <= best.p
                    /\ c[k].rec = best.rec /\ c[k].p = best.p /\ c[k].mode = "gru" => best.mode = "gru"
  <2>1. ToSet(c) = {c[k] : k \in 1..n}
    BY <1>5 DEF ToSet
  <2> QED  BY <1>1, <2>1 DEF GruSavedIsBest
<1>6. c # <<>> /\ best = GruPick(c)
  BY <1>1 DEF SavedGru
<1>7. PICK Q : Q = {i \in DOMAIN c : attacks > 0 /\ 10 * c[i].rec >= 9 * attacks}
  OBVIOUS
<1>8. PICK r : r = RowsAt(c, Q)
  OBVIOUS
<1>9. Nineties(c) = r
  BY <1>2, <1>7, <1>8 DEF Nineties
<1>10. PICK pool : pool = IF r # <<>> THEN r ELSE c
  OBVIOUS
<1>11. best = FirstBest(pool)
  BY <1>6, <1>9, <1>10 DEF GruPick
<1>12. /\ InTriedOrder(r) /\ (r # <<>> <=> Q # {})
       /\ \A i \in Q : \E l \in 1..Len(r) : r[l] = c[i]
       /\ \A l \in 1..Len(r) : \E i \in Q : r[l] = c[i]
  <2>1. Q \subseteq DOMAIN c
    BY <1>7
  <2> QED  BY <1>3, <1>8, <2>1, OrderOfSome
<1>13. InTriedOrder(pool) /\ pool # <<>>
  BY <1>3, <1>6, <1>10, <1>12
<1>14. PICK i \in 1..Len(pool) : FirstAt(pool, i) /\ best = pool[i]
  BY <1>11, <1>13, FirstBestIs
<1>15. best.rec \in Nat /\ best.p \in Nat /\ c[k].rec \in Nat /\ c[k].p \in Nat
  BY <1>3, <1>5, <1>13, <1>14 DEF InTriedOrder
<1>16. ASSUME c[k].rec >= best.rec PROVE \E j \in 1..Len(pool) : pool[j] = c[k]
  <2>1. CASE r = <<>>
    BY <1>5, <1>10, <2>1
  <2>2. CASE r # <<>>
    <3>1. pool = r
      BY <1>10, <2>2
    <3>2. PICK l \in Q : best = c[l]
      BY <1>12, <1>14, <3>1
    <3>3. attacks > 0 /\ 10 * best.rec >= 9 * attacks
      BY <1>7, <3>2
    <3>4. 10 * c[k].rec >= 9 * attacks
      BY <1>15, <1>16, <3>3
    <3>5. k \in Q
      BY <1>5, <1>7, <3>3, <3>4
    <3> QED  BY <1>12, <3>1, <3>5
  <2> QED  BY <2>1, <2>2
<1>17. ASSUME NEW j \in 1..Len(pool), pool[j] = c[k]
       PROVE  /\ c[k].rec <= best.rec
              /\ c[k].rec = best.rec => c[k].p <= best.p
              /\ c[k].rec = best.rec /\ c[k].p = best.p /\ c[k].mode = "gru" => best.mode = "gru"
  <2>1. c[k].rec < best.rec \/ (c[k].rec = best.rec /\ j >= i)
    BY <1>14, <1>17 DEF FirstAt
  <2>2. i <= j => /\ c[k].p <= best.p
                  /\ c[k].p = best.p /\ c[k].mode = "gru" => best.mode = "gru"
    BY <1>13, <1>14, <1>17 DEF InTriedOrder
  <2>3. PICK U : pool \in Seq(U)
    BY <1>13 DEF InTriedOrder
  <2>4. i \in Nat /\ j \in Nat
    BY <2>3, LenProperties
  <2> QED  BY <1>15, <2>1, <2>2, <2>4
<1>18. CASE c[k].rec >= best.rec
  BY <1>16, <1>17, <1>18
<1>19. CASE ~(c[k].rec >= best.rec)
  BY <1>15, <1>19
<1> QED  BY <1>18, <1>19

-----------------------------------------------------------------------------
(* Each search for a threshold returns the best of what it tried, whatever  *)
(* file it is given: calibrate_threshold_remote in its try loop,            *)
(* calibrate_threshold_gru in its two pools, sweep_gru_threshold in its     *)
(* search over the lowest recall.                                           *)
THEOREM SearchesHold == EvalSpec => [](SavedIsBest /\ GruSavedIsBest /\ SweepFindsLeast)
<1>1. CsvInv => SavedIsBest /\ GruSavedIsBest /\ SweepFindsLeast
  BY SavedIsBestHolds, GruSavedIsBestHolds, SweepFindsLeastHolds
<1> QED  BY <1>1, CsvInvHolds, PTL

(* The rate of false alarms that sweep_gru_threshold keeps holds when       *)
(* evaluate_gru measures it, on any file and at any bound.                  *)
THEOREM MeasuresHold == EvalSpec => []SweptRateKept
<1>1. CsvInv => SweptRateKept
  BY SweptRateKeptHolds
<1> QED  BY <1>1, CsvInvHolds, PTL
================================================================================
