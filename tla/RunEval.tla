-------------------------------- MODULE RunEval --------------------------------
(***************************************************************************)
(* src/observability/testing_app/testing_app.py: run_eval, the dashboard's  *)
(* own evaluation, written again from the start to mirror the offline one   *)
(* (PerUeEval) on the file it shows.  It works on arrays indexed by the     *)
(* rows of the file where the other pools UE after UE; the scores a row     *)
(* carries are the model's here too.                                        *)
(***************************************************************************)
EXTENDS PerUeEval

-----------------------------------------------------------------------------
(* _detect_rows: arrays over the rows of the file                          *)

\* The rows of row i's UE, as indices into the file.
RntiGroup(rows, ue) == Ascending(PlacesOf(rows, ue))
PlaceOf(rows, i) == Cardinality({j \in 1..i : rows[j].ue = rows[i].ue})

\* Mutant of IsWindow: counts from zero.
IsWindowLate(rows, i) == PlaceOf(rows, i) > W
IsWindow(rows, i) == PlaceOf(rows, i) >= W
\* RuleBasedUEIDS.detect on the UE's rows up to and with row i.
RuleSev(rows, i) ==
  IF RuleFires(SplitByRnti(rows, rows[i].ue), PlaceOf(rows, i)) THEN 1 ELSE 0
\* _batch_infer: 0 before the first window.
MlSev(rows, i) == IF IsWindow(rows, i) /\ rows[i].score > Threshold THEN 1 ELSE 0

\* _final_by_mode: np.maximum in the hybrid modes.
FinalByMode(rows, mode) ==
  [i \in DOMAIN rows |->
     CASE mode = "rule" -> RuleSev(rows, i)
       [] mode = "ml" -> MlSev(rows, i)
       [] mode = "hybrid" -> Max({RuleSev(rows, i), MlSev(rows, i)})]
Predicted(rows, mode) ==
  LET final == FinalByMode(rows, mode) IN {i \in DOMAIN rows : final[i] >= 1}

-----------------------------------------------------------------------------
(* run_eval: one class against benign, or all of them (filter 0)           *)

\* A class the file does not have falls back to all.
Target(rows, filter) ==
  IF \E i \in DOMAIN rows : rows[i].label = filter THEN filter ELSE 0
Positive(rows, filter) ==
  LET target == Target(rows, filter)
  IN {i \in DOMAIN rows :
        /\ IsWindow(rows, i)
        /\ IF target = 0 THEN rows[i].label > 0 ELSE rows[i].label = target}

Metrics(rows, pred, filter) ==
  LET benign == {i \in DOMAIN rows : IsWindow(rows, i) /\ rows[i].label = 0}
      pos == Positive(rows, filter)
      fired(S) == Cardinality(S \cap pred)
  IN [tp |-> fired(pos), fp |-> fired(benign),
      tn |-> Cardinality(benign) - fired(benign),
      fn |-> Cardinality(pos) - fired(pos)]

\* The while loop over a UE's windows: segments of the chosen class, each with
\* its first alert; a row of another class in between ends a segment.
GroupLatencies(rows, pred, filter, ue) ==
  LET group == RntiGroup(rows, ue)
      widxs == SubSeq(group, W, Len(group))
      label(j) == rows[widxs[j]].label
      chosen(j) == label(j) # 0 /\ Target(rows, filter) \in {0, label(j)}
      alert(j) == widxs[j] \in pred
      start(k) == Min({s \in 1..k : \A j \in s..k : label(j) = label(k)})
  IN {<<label(k), rows[widxs[k]].ts - rows[widxs[start(k)]].ts, rows[widxs[start(k)]].ts>> :
        k \in {j \in DOMAIN widxs :
                 chosen(j) /\ alert(j) /\ \A i \in start(j)..(j - 1) : ~alert(i)}}

Evaluate(rows, mode, filter) ==
  LET pred == Predicted(rows, mode)
  IN [metrics |-> Metrics(rows, pred, filter),
      latencies |-> UNION {GroupLatencies(rows, pred, filter, ue) : ue \in UeSet(rows)}]

-----------------------------------------------------------------------------
(* "Methodology mirrors evaluate_per_ue_v2.py": on the rows it is given the *)
(* dashboard counts the windows the offline evaluation counts, finds the    *)
(* same latencies, and for one class the recall of that class with all the  *)
(* false alarms.                                                            *)
DashboardAgrees ==
  \A mode \in Configs :
    LET offline == Results(csv)[mode]
        online == Evaluate(csv, mode, 0)
    IN /\ online.metrics = offline.cm /\ online.latencies = offline.detection
       /\ \A class \in DOMAIN offline.perClass :
            LET one == Evaluate(csv, mode, class) IN
            /\ <<one.metrics.tp, one.metrics.tp + one.metrics.fn>> = offline.perClass[class]
            /\ one.metrics.fp = offline.cm.fp
            /\ one.latencies = {l \in offline.detection : l[1] = class}
==============================================================================
