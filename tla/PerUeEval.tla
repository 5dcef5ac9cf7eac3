------------------------------- MODULE PerUeEval -------------------------------
(***************************************************************************)
(* src/scripts/eval/evaluate_per_ue_v2.py: what the offline evaluation says *)
(* of a per-UE CSV, for every CSV of a few rows.  The file grows by a row   *)
(* at a time, the rows of several UEs interleaved, as the monitor writes    *)
(* it; each operator is a function of the rows so far.                      *)
(*                                                                          *)
(* A row carries what the evaluation derives from its features: hits, the   *)
(* rules whose condition it meets, and score, what the model scores the     *)
(* window that ends in it (each window ends in a row of its own).           *)
(***************************************************************************)
EXTENDS Integers, FiniteSets, SequencesExt

CONSTANTS
  RowKinds,   \* rows [ue, label, hits, score] the file may get
  W,          \* SEQ_LEN
  Need,       \* rows in a row that make a rule fire, by rule (_RULE_DEFS)
  Threshold,  \* of the ML model
  Cycle,      \* _XAPP_CYCLE_S
  MaxRows     \* bound on the rows of the file

ASSUME EvalAssumption ==
  /\ RowKinds \subseteq
       [ue : Nat, label : Nat, hits : SUBSET DOMAIN Need, score : Nat]
  /\ {W, Cycle, MaxRows} \subseteq Nat \ {0} /\ Threshold \in Nat
  /\ \A r \in DOMAIN Need : Need[r] \in Nat \ {0}

VARIABLE csv     \* rows, each with the second ts it was written in

EvalInit == csv = <<>>

Record(kind) ==
  /\ Len(csv) < MaxRows
  /\ csv' = Append(csv, [ue |-> kind.ue, label |-> kind.label, hits |-> kind.hits,
                         score |-> kind.score, ts |-> Len(csv) + 1])

EvalNext == \E kind \in RowKinds : Record(kind)

EvalSpec == EvalInit /\ [][EvalNext]_csv

-----------------------------------------------------------------------------
(* Rows and windows by UE                                                  *)

\* The numbers of a set in order, and the rows at given places; written out,
\* as are the sums, because the proofs are about them.
PlaceIn(S, x) == Cardinality({y \in S : y <= x})
Ascending(S) == [k \in 1..Cardinality(S) |-> CHOOSE x \in S : PlaceIn(S, x) = k]
RowsAt(rows, P) == LET places == Ascending(P) IN [k \in DOMAIN places |-> rows[places[k]]]
SumOf(s) == LET sum[i \in 0..Len(s)] == IF i = 0 THEN 0 ELSE sum[i - 1] + s[i] IN sum[Len(s)]

UeSet(rows) == {rows[i].ue : i \in DOMAIN rows}
Ues(rows) == Ascending(UeSet(rows))
PlacesOf(rows, ue) == {i \in DOMAIN rows : rows[i].ue = ue}
SplitByRnti(rows, ue) == RowsAt(rows, PlacesOf(rows, ue))

\* The counters of run_rule_engine after a group's first n rows.
Counters(group, n) ==
  [r \in DOMAIN Need |->
     LET counter[i \in 0..n] ==
           IF i = 0 THEN 0 ELSE IF r \in group[i].hits THEN counter[i - 1] + 1 ELSE 0
     IN counter[n]]
\* Mutant of RuleFires: the count has to be exceeded.
RuleFiresLate(group, n) == \E r \in DOMAIN Need : Counters(group, n)[r] > Need[r]
RuleFires(group, n) == \E r \in DOMAIN Need : Counters(group, n)[r] >= Need[r]

\* What the evaluation keeps of a UE: one entry a window, which takes label,
\* time and rule decision from the window's last row.
Window(group, n) ==
  [ue |-> group[n].ue, label |-> group[n].label, ts |-> group[n].ts,
   rule |-> RuleFires(group, n), score |-> group[n].score]
Windows(group) == [i \in 1..(Len(group) - W + 1) |-> Window(group, i + W - 1)]

\* _pool_per_rnti: one UE after the other, those with a window.
Pool(rows) ==
  FlattenSeq([i \in DOMAIN Ues(rows) |-> Windows(SplitByRnti(rows, Ues(rows)[i]))])

MixedIn(group) ==
  Cardinality({i \in 1..(Len(group) - W + 1) :
                 Cardinality({group[j].label : j \in i..(i + W - 1)}) > 1})
Total(f(_), rows) == SumOf([i \in DOMAIN Ues(rows) |-> f(SplitByRnti(rows, Ues(rows)[i]))])
\* count_mixed_windows_by_rnti
MixedByRnti(rows) ==
  [mixed |-> Total(MixedIn, rows),
   total |-> Total(LAMBDA g : IF Len(g) < W THEN 0 ELSE Len(g) - W + 1, rows)]

-----------------------------------------------------------------------------
(* Metrics of the windows w and what fires on them, a function of each      *)

Fires(w, config) ==
  LET ml(i) == w[i].score > Threshold
  IN [i \in DOMAIN w |-> CASE config = "rule" -> w[i].rule
                           [] config = "ml" -> ml(i)
                           [] config = "hybrid" -> w[i].rule \/ ml(i)]

ConfusionMatrix(w, fires) ==
  LET count(fired, attack) ==
        Cardinality({i \in DOMAIN w : fires[i] = fired /\ (w[i].label > 0) = attack})
  IN [tp |-> count(TRUE, TRUE), fp |-> count(TRUE, FALSE),
      tn |-> count(FALSE, FALSE), fn |-> count(FALSE, TRUE)]

\* compute_per_class_recall, as detected of all; a label without a name is
\* skipped there, and the datasets have none: their labels are 0..4.
PerClassRecall(w, fires) ==
  [l \in {w[i].label : i \in DOMAIN w} \ {0} |->
     LET class == {i \in DOMAIN w : w[i].label = l}
     IN <<Cardinality({i \in class : fires[i]}), Cardinality(class)>>]

\* main's loop over the validation file and compute_fpr_val: fired of all.
ValWindows(rows) ==
  LET groups == Ascending({ue \in UeSet(rows) : Len(SplitByRnti(rows, ue)) >= W})
  IN FlattenSeq([i \in DOMAIN groups |-> Windows(SplitByRnti(rows, groups[i]))])
ValFpr(w, fires) == <<Cardinality({i \in DOMAIN w : fires[i]}), Len(w)>>

\* Maximal runs of one attack label on one UE, as <<first, last>>.
SameAttack(w, i, j) == w[i].label = w[j].label /\ w[i].ue = w[j].ue
\* Mutant of AttackSegments: runs of neighbouring UEs are joined.
AttackSegmentsOfAll(w) ==
  {s \in (DOMAIN w) \X (DOMAIN w) :
     /\ s[1] <= s[2] /\ w[s[1]].label > 0
     /\ \A j \in s[1]..s[2] : w[j].label = w[s[1]].label
     /\ s[1] > 1 => w[s[1] - 1].label # w[s[1]].label
     /\ s[2] < Len(w) => w[s[2] + 1].label # w[s[1]].label}
AttackSegments(w) ==
  {s \in (DOMAIN w) \X (DOMAIN w) :
     /\ s[1] <= s[2] /\ w[s[1]].label > 0
     /\ \A j \in s[1]..s[2] : SameAttack(w, s[1], j)
     /\ s[1] > 1 => ~SameAttack(w, s[1] - 1, s[1])
     /\ s[2] < Len(w) => ~SameAttack(w, s[2] + 1, s[1])}

\* compute_detection_latency: <<class, seconds, segment start>> of the segments detected.
\* Mutant of DetectionLatency: up to the last alert.
DetectionLatencyLast(w, fires) ==
  {<<w[s[1]].label, w[Max({i \in s[1]..s[2] : fires[i]})].ts - w[s[1]].ts, w[s[1]].ts>> :
     s \in {x \in AttackSegments(w) : \E i \in x[1]..x[2] : fires[i]}}
DetectionLatency(w, fires) ==
  {<<w[s[1]].label, w[Min({i \in s[1]..s[2] : fires[i]})].ts - w[s[1]].ts, w[s[1]].ts>> :
     s \in {x \in AttackSegments(w) : \E i \in x[1]..x[2] : fires[i]}}
\* One cycle more for each.
MitigationLatency(latency) == {<<l[1], l[2] + Cycle, l[3]>> : l \in latency}

\* build_result_entry; main makes one for each configuration.
Entry(w, fires) ==
  [cm |-> ConfusionMatrix(w, fires),
   perClass |-> PerClassRecall(w, fires),
   detection |-> DetectionLatency(w, fires),
   mitigation |-> MitigationLatency(DetectionLatency(w, fires))]
Configs == {"rule", "ml", "hybrid"}
Results(rows) ==
  LET w == Pool(rows) IN [c \in Configs |-> Entry(w, Fires(w, c))]

-----------------------------------------------------------------------------
EvalTypeOK ==
  /\ csv \in Seq([ue : Nat, label : Nat, hits : SUBSET DOMAIN Need, score : Nat, ts : Nat])
  /\ Len(csv) <= MaxRows

(* A window's rule decision is the UE's own last rows: some rule's          *)
(* condition held on each of as many of them as it needs, windows or not,   *)
(* and no row of another UE, interleaved, ends or extends such a run.       *)
RulesOnOwnRows ==
  LET w == Pool(csv) IN
  \A i \in DOMAIN w :
    LET own == SplitByRnti(SubSeq(csv, 1, w[i].ts), w[i].ue)   \* row t has ts = t
    IN w[i].rule <=>
         \E r \in DOMAIN Need :
           /\ Len(own) >= Need[r]
           /\ \A j \in 0..(Need[r] - 1) : r \in own[Len(own) - j].hits

(* The mixed windows are counted over the windows that are scored.          *)
MixedOfScored ==
  /\ MixedByRnti(csv).total = Len(Pool(csv))
  /\ MixedByRnti(csv).mixed <= MixedByRnti(csv).total
  /\ \A ue \in UeSet(csv) :
       LET g == SplitByRnti(csv, ue) IN
       Len(g) >= W /\ (\E i, j \in DOMAIN g : g[i].label # g[j].label)
         => MixedByRnti(csv).mixed > 0

(* A latency counts from the row in which the attack began for the UE,      *)
(* unless that is one of its first W rows: the ones before its first window *)
(* are not seen, and the latency is short by as many seconds.  Every alert  *)
(* during an attack falls under the latency of that UE's attack.            *)
LatencyFromOnset ==
  LET w == Pool(csv)
      Own(ts) == LET first == CHOOSE i \in DOMAIN csv : csv[i].ts = ts
                 IN SplitByRnti(csv, csv[first].ue)
      At(ts) == CHOOSE i \in DOMAIN Own(ts) : Own(ts)[i].ts = ts
      latencies == DetectionLatency(w, Fires(w, "hybrid"))
  IN /\ \A l \in latencies : At(l[3]) = W \/ Own(l[3])[At(l[3]) - 1].label # l[1]
     /\ \A i \in DOMAIN w :
          Fires(w, "hybrid")[i] /\ w[i].label > 0 =>
            \E l \in latencies :
              /\ l[1] = w[i].label /\ l[3] + l[2] <= w[i].ts
              /\ Own(l[3])[1].ue = w[i].ue
              /\ \A j \in At(l[3])..At(w[i].ts) : Own(l[3])[j].label = w[i].label

(* What is found stays found: as the file grows, windows keep their verdict *)
(* and a detected segment its latency.                                      *)
VerdictsStand ==
  [][IsStrictPrefix(csv, csv') =>
       /\ ToSet(Pool(csv)) \subseteq ToSet(Pool(csv'))
       /\ \A c \in Configs :
            Results(csv)[c].detection \subseteq Results(csv')[c].detection]_csv
==============================================================================
