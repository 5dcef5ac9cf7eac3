---------------------------- MODULE ThresholdSweep ----------------------------
(***************************************************************************)
(* src/scripts/eval/calibrate_threshold_remote.py, calibrate_threshold_gru  *)
(* and sweep_gru_threshold: three scripts that try percentiles of benign    *)
(* scores as the threshold of a model and save or print the best.  Their    *)
(* attack file is csv, their validation file its benign rows.               *)
(*                                                                          *)
(* A percentile is in permille, a threshold in units of 1 / Unit.           *)
(***************************************************************************)
EXTENDS PerUeEval

CONSTANTS
  Percentiles,   \* tried, and so are the LinSteps of the third script
  LinSteps,
  MaxFpr,        \* 5 %, in permille
  Roq, RoqRule,  \* the class and the rule (R4) of the RoQ attack
  RoqNeed,       \* _RULE_DEFS of calibrate_threshold_remote has 8, not 10
  SkippedRows,   \* rows sweep_gru_threshold fills its buffer with
  CurrentThresh  \* of the GRU model it sweeps

ASSUME SweepAssumption ==
  /\ Percentiles \subseteq 0..1000 /\ MaxFpr \in 0..1000 /\ LinSteps \in Nat \ {0, 1}
  /\ Roq \in Nat \ {0} /\ RoqRule \in DOMAIN Need /\ RoqNeed \in 1..Need[RoqRule]
  /\ IsFiniteSet(DOMAIN Need)   \* _RULE_DEFS is a list
  /\ {SkippedRows, CurrentThresh} \subseteq Nat

ValRows == RowsAt(csv, {i \in DOMAIN csv : csv[i].label = 0})
Unit == 1000 * (LinSteps - 1)
Above(x, thresh) == Unit * x.score > thresh

\* np.percentile of sorted scores: between the two next to the place, in proportion.
Percentile(scores, p) ==
  LET s == scores
      place == p * (Len(s) - 1)
      lower == s[place \div 1000 + 1]
      upper == s[Min({Len(s), place \div 1000 + 2})]
  IN (LinSteps - 1) * (1000 * lower + (place % 1000) * (upper - lower))
ScoresOf(w) == [i \in DOMAIN w |-> w[i].score]
Descending(S) == [k \in 1..Cardinality(S) |-> Ascending(S)[Cardinality(S) + 1 - k]]
\* np.sort: at place k the value with fewer than k below it and at least k up to it.
Sorted(s) ==
  [k \in DOMAIN s |->
     CHOOSE x \in ToSet(s) : /\ Cardinality({i \in DOMAIN s : s[i] < x}) < k
                            /\ Cardinality({i \in DOMAIN s : s[i] <= x}) >= k]
HowMany(w, Test(_)) == Cardinality({i \in DOMAIN w : Test(w[i])})

-----------------------------------------------------------------------------
(* calibrate_threshold_remote.py                                           *)

LstmNeed == [Need EXCEPT ![RoqRule] = RoqNeed]
LstmRuleFires(group, n) ==
  \E r \in DOMAIN Need :
    /\ n >= LstmNeed[r] /\ \A j \in (n - LstmNeed[r] + 1)..n : r \in group[j].hits
LstmWindow(group, n) ==
  [label |-> group[n].label, rule |-> LstmRuleFires(group, n), score |-> group[n].score]
LstmWindows(group) == [i \in 1..(Len(group) - W + 1) |-> LstmWindow(group, i + W - 1)]
LstmPool(rows) ==
  FlattenSeq([i \in DOMAIN Ues(rows) |-> LstmWindows(SplitByRnti(rows, Ues(rows)[i]))])
LstmVal == LstmPool(ValRows)
LstmAttack == LstmPool(csv)

\* What a threshold gives, rates as counts of windows, and whether they are
\* within the bound.
LstmTried(val, attack, thresh) ==
  LET ml(x) == Above(x, thresh)
      hybrid(x) == x.rule \/ ml(x)
      fpr == [lstm |-> HowMany(val, ml), hybrid |-> HowMany(val, hybrid)]
  IN [thresh |-> thresh, fpr |-> fpr,
      tolerated |-> {m \in DOMAIN fpr : 1000 * fpr[m] <= MaxFpr * Len(val)},
      roq |-> [lstm |-> HowMany(attack, LAMBDA x : x.label = Roq /\ ml(x)),
               hybrid |-> HowMany(attack, LAMBDA x : x.label = Roq /\ hybrid(x))]]
\* From the highest percentile to the lowest; none when a file has no window:
\* the script raises.
LstmTries ==
  LET val == LstmVal
      attack == LstmAttack
      scores == Sorted(ScoresOf(val))
  IN IF val = <<>> \/ attack = <<>> THEN <<>>
     ELSE [i \in 1..Cardinality(Percentiles) |->
        LstmTried(val, attack, Percentile(scores, Descending(Percentiles)[i]))]

NothingSaved == [mode |-> "none"]
Chosen(mode, t) ==
  [mode |-> mode, thresh |-> t.thresh, fpr |-> t.fpr[mode], roq |-> t.roq[mode]]
BetterOf(best, t) ==
  IF "hybrid" \in t.tolerated
  THEN IF best = NothingSaved \/ best.mode = "lstm" \/ t.roq.hybrid > best.roq
       THEN Chosen("hybrid", t) ELSE best
  ELSE IF /\ "lstm" \in t.tolerated
          /\ best = NothingSaved \/ (best.mode = "lstm" /\ t.roq.lstm > best.roq)
       THEN Chosen("lstm", t) ELSE best
SavedLstm ==
  LET tries == LstmTries
      best[i \in 0..Len(tries)] == IF i = 0 THEN NothingSaved ELSE BetterOf(best[i - 1], tries[i])
  IN best[Len(tries)]

-----------------------------------------------------------------------------
(* calibrate_threshold_gru.py                                              *)

GruRuleFires(group, n) ==
  \E r \in DOMAIN Need : n >= Need[r] /\ \A j \in (n - Need[r] + 1)..n : r \in group[j].hits
GruWindow(group, n) ==
  [label |-> group[n].label, rule |-> GruRuleFires(group, n), score |-> group[n].score]
GruPool(rows) ==
  LET windows(g) == [i \in 1..(Len(g) - W + 1) |-> GruWindow(g, i + W - 1)]
  IN FlattenSeq([i \in DOMAIN Ues(rows) |-> windows(SplitByRnti(rows, Ues(rows)[i]))])
GruVal == GruPool(ValRows)
GruAttack == GruPool(csv)

\* A percentile gives the model alone, then with the rules; rec is of the
\* windows under attack.
GruTried(val, attack, scores, p) ==
  LET row(mode) ==
        LET thresh == Percentile(scores, p)
            fires(x) == Above(x, thresh) \/ (mode = "hybrid" /\ x.rule)
        IN [mode |-> mode, p |-> p, thresh |-> thresh, fpr |-> HowMany(val, fires),
            rec |-> HowMany(attack, LAMBDA x : x.label > 0 /\ fires(x))]
  IN <<row("gru"), row("hybrid")>>
\* Empty when a file has no window: the script raises.
GruCandidates ==
  LET val == GruVal
      attack == GruAttack
      scores == Sorted(ScoresOf(val))
      tried == FlattenSeq([i \in 1..Cardinality(Percentiles) |->
                             GruTried(val, attack, scores, Descending(Percentiles)[i])])
  IN IF val = <<>> \/ attack = <<>> THEN <<>>
     ELSE RowsAt(tried, {i \in DOMAIN tried : 1000 * tried[i].fpr <= MaxFpr * Len(val)})
\* max(pool, key = recall) takes the first.
FirstBest(pool) ==
  CHOOSE c \in ToSet(pool) : \E i \in DOMAIN pool :
    /\ pool[i] = c
    /\ \A j \in DOMAIN pool : pool[j].rec < c.rec \/ (pool[j].rec = c.rec /\ j >= i)
\* The nineties: candidates that detect nine windows of ten under attack.
Nineties(candidates) ==
  LET attacks == HowMany(GruAttack, LAMBDA x : x.label > 0)
  IN RowsAt(candidates, {i \in DOMAIN candidates :
                           attacks > 0 /\ 10 * candidates[i].rec >= 9 * attacks})
GruPick(candidates) ==
  FirstBest(IF Nineties(candidates) # <<>> THEN Nineties(candidates) ELSE candidates)
SavedGru ==
  LET candidates == GruCandidates
  IN IF candidates = <<>> THEN NothingSaved ELSE GruPick(candidates)

-----------------------------------------------------------------------------
(* sweep_gru_threshold.py: rows of the cell, whatever their UE             *)

\* The row that finds the buffer full is the first to be scored.
CellScores == SubSeq(csv, SkippedRows + 1, Len(csv))
NormalScores(scored) == Sorted(ScoresOf(RowsAt(scored, {i \in DOMAIN scored : scored[i].label = 0})))
SweepSteps(scored) ==
  LET normal == NormalScores(scored)
      lo == Percentile(normal, 300) \div (LinSteps - 1)
      hi == Percentile(normal, 999) \div (LinSteps - 1)
  IN {(LinSteps - 1) * lo + k * (hi - lo) : k \in 0..(LinSteps - 1)}
     \cup {Percentile(normal, p) : p \in Percentiles} \cup {Unit * CurrentThresh}
\* Rows of a class detected; the score may be the threshold itself.
Detected(scored, l, thr) ==
  HowMany(scored, LAMBDA r : r.label = l /\ Unit * r.score >= thr)
\* The lowest recall of a class, over a denominator common to all.
MinRecall(scored, thr) ==
  LET classes == {r.label : r \in ToSet(scored)} \ {0}
      n(l) == HowMany(scored, LAMBDA r : r.label = l)
      others(l) == LET product[x \in 0..Max(classes)] ==
                         IF x = 0 THEN 1
                         ELSE (IF x \in classes \ {l} THEN n(x) ELSE 1) * product[x - 1]
                   IN product[Max(classes)]
  IN Min({Detected(scored, l, thr) * others(l) : l \in classes})
\* Mutant of Keeps: the rate is taken over all rows.
KeepsOfAll(scored, thr) == 1000 * Detected(scored, 0, thr) <= MaxFpr * Len(scored)
Keeps(scored, thr) == 1000 * Detected(scored, 0, thr) <= MaxFpr * Len(NormalScores(scored))
Best(scored) ==
  LET recall == [t \in {u \in SweepSteps(scored) : Keeps(scored, u)} |-> MinRecall(scored, t)]
  IN {t \in DOMAIN recall : \A u \in DOMAIN recall : recall[u] <= recall[t]}
\* The first of the best thresholds, from low to high, or -1.
Swept(scored) == IF Best(scored) = {} THEN -1 ELSE Min(Best(scored))

\* evaluate_gru.py: GRUDetector at a threshold alerts on the third row in
\* sequence that exceeds it; a row that only fills the buffer is quiet.
Flagged(i, thr) == i > SkippedRows /\ Unit * csv[i].score > thr
GruAlerts(thr) == {i \in 3..Len(csv) : \A j \in (i - 2)..i : Flagged(j, thr)}
\* Its FPR is over all normal rows, scored or not.
GruFpr(thr) ==
  [fired |-> Cardinality({i \in GruAlerts(thr) : csv[i].label = 0}),
   normal |-> HowMany(csv, LAMBDA r : r.label = 0)]

-----------------------------------------------------------------------------
(* "maximize RoQ Recall under FPR <= 5.0%": the threshold saved keeps the   *)
(* rate in its mode; hybrid is the mode if any percentile allows it; of the *)
(* percentiles allowed in that mode none finds more RoQ windows and none    *)
(* that finds as many has a higher threshold.                               *)
SavedIsBest ==
  LET tries == ToSet(LstmTries)
      allowed(mode) == {t \in tries : mode \in t.tolerated}
      s == SavedLstm
  IN /\ s = NothingSaved <=> allowed("lstm") = {}
     /\ s # NothingSaved =>
            /\ s.mode = "hybrid" <=> allowed("hybrid") # {}
            /\ \E t \in allowed(s.mode) : t.thresh = s.thresh
            /\ \A t \in allowed(s.mode) :
                 t.roq[s.mode] < s.roq \/ (t.roq[s.mode] = s.roq /\ t.thresh <= s.thresh)

(* "with FPR<=5%": the threshold swept for the GRU keeps its rate of false  *)
(* alarms when evaluate_gru runs the model: it asks for three scores in a   *)
(* row above the threshold, and counts over all normal rows, those that     *)
(* only fill the buffer included.                                           *)
SweptRateKept ==
  LET scored == CellScores
      fpr == GruFpr(Swept(scored))
  IN NormalScores(scored) # <<>> /\ (\E r \in ToSet(scored) : r.label > 0) /\ Swept(scored) # -1 =>
       1000 * fpr.fired <= MaxFpr * fpr.normal

(* "maximize recall ... in [90, 100), ... else pick global best": narrowing *)
(* the pool to the nineties changes nothing, what is saved has the highest  *)
(* recall of all candidates; and at a percentile where the rules add        *)
(* nothing the model alone is preferred.                                    *)
GruSavedIsBest ==
  LET best == SavedGru IN
  best # NothingSaved =>
    \A c \in ToSet(GruCandidates) :
      /\ c.rec <= best.rec
      /\ c.rec = best.rec => c.p <= best.p
      /\ c.rec = best.rec /\ c.p = best.p /\ c.mode = "gru" => best.mode = "gru"

(* "maximise min recall across attacks, with FPR<=5%": recall only falls as *)
(* the threshold rises, so what the search over recalls finds is the least  *)
(* threshold tried that keeps the rate.                                     *)
SweepFindsLeast ==
  LET scored == CellScores
      kept == {t \in SweepSteps(scored) : Keeps(scored, t)}
  IN NormalScores(scored) # <<>> /\ (\E r \in ToSet(scored) : r.label > 0) =>
       Swept(scored) = IF kept = {} THEN -1 ELSE Min(kept)
==============================================================================
