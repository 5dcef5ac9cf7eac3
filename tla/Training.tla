------------------------------- MODULE Training -------------------------------
(***************************************************************************)
(* src/scripts/train: the training scripts and the files they leave.  A     *)
(* script fits a scaler, trains epoch by epoch keeping the best weights,    *)
(* and writes model, losses and threshold files, each script in an order of *)
(* its own; it may be interrupted anywhere, in the middle of a write too,   *)
(* and run again.  Validation losses are inputs, NaN among them.            *)
(*                                                                          *)
(* Scripts: lstm and vae are train_lstm.py without and with --vae, gru is   *)
(* train_gru.py, lstm_ue and gru_ue are train_lstm_ue.py, train_gru_ue.py.  *)
(***************************************************************************)
EXTENDS Integers, Sequences

CONSTANTS
  Scripts,
  Loss,       \* the finite validation losses
  NaN,
  MinDelta,   \* EarlyStopping.min_delta
  Patience,   \* EarlyStopping.patience
  MaxEpochs,  \* --epochs
  MaxRuns     \* bound on the runs of scripts

PerUe == {"lstm_ue", "gru_ue"}      \* the scripts with EarlyStopping

ASSUME TrainingAssumption ==
  /\ Scripts \subseteq {"lstm", "vae", "gru"} \cup PerUe
  /\ Loss \subseteq Nat /\ NaN \notin Nat
  /\ {MinDelta, Patience, MaxEpochs, MaxRuns} \subseteq Nat \ {0}

VARIABLES
  job,          \* the running script: what it has in memory and has yet to do
  losses,       \* its val_losses
  files,        \* what the files hold, by model and kind
  runs,         \* runs begun; the number of the last one
  interrupted   \* models whose last run did not end

trainVars == <<job, losses, files, runs, interrupted>>

NoScript == "none"
NoLoss == -1
Missing == [run |-> 0, epoch |-> 0, scaler |-> 0, threshold |-> NoScript, full |-> FALSE]
Torn == [Missing EXCEPT !.run = -1]      \* a write cut short
Idle == [script |-> NoScript, todo |-> <<>>, best |-> NoLoss, kept |-> 0, counter |-> 0,
         scaler |-> 0, threshold |-> NoScript]

Models == {"cell_lstm", "cell_gru", "ue_lstm", "ue_gru"}
Kinds == {"scaler", "checkpoint", "model", "losses", "threshold"}
ModelOf(s) == CASE s \in {"lstm", "vae"} -> "cell_lstm"
                [] s = "gru" -> "cell_gru"
                [] s = "lstm_ue" -> "ue_lstm"
                [] s = "gru_ue" -> "ue_gru"
\* train_lstm.py keeps its scaler in models/scaler.pkl, which train_gru.py reads.
Shared == <<"cell_lstm", "scaler">>
FileOf(s, kind) == <<ModelOf(s), kind>>

\* What each main() does, in its order; "fit" is fit_threshold on the model.
LstmPlan == <<"scaler", "train", "model", "losses", "fit", "threshold">>
GruPlan == <<"scaler", "train", "losses", "fit", "model", "threshold">>
LstmUePlan == <<"scaler", "train", "losses", "model", "fit", "threshold">>
GruUePlan == <<"scaler", "train", "losses", "fit", "model", "threshold">>
Plan(s) == CASE s \in {"lstm", "vae"} -> LstmPlan
             [] s = "gru" -> GruPlan
             [] s = "lstm_ue" -> LstmUePlan
             [] s = "gru_ue" -> GruUePlan

At(step) == job.todo # <<>> /\ Head(job.todo) = step

TrainInit ==
  /\ job = Idle /\ losses = <<>> /\ runs = 0
  /\ files = [f \in Models \X Kinds |-> Missing]
  /\ interrupted = {}

Begin(s) ==
  /\ job = Idle /\ runs < MaxRuns
  /\ job' = [Idle EXCEPT !.script = s, !.todo = Plan(s)]
  /\ runs' = runs + 1
  /\ interrupted' = interrupted \cup {ModelOf(s)}
  /\ UNCHANGED <<losses, files>>

-----------------------------------------------------------------------------
(* The scaler: fitted on the training rows and stored before the training,  *)
(* or, in train_gru.py, the shared one if it has the features of the model. *)

\* Mutant of Reusable: the per-UE script keeps the scaler of an earlier run.
ReusableOfAny(s) ==
  IF s = "gru" THEN files[Shared] ELSE IF s = "gru_ue" THEN files[FileOf(s, "scaler")]
  ELSE Missing
Reusable(s) == IF s = "gru" THEN files[Shared] ELSE Missing

FitScaler(full) ==
  /\ At("scaler") /\ Reusable(job.script) # Torn
  /\ ~Reusable(job.script).full
  /\ full \/ job.script = "lstm" \/ job.script = "vae"         \* --num-features
  /\ files' = [files EXCEPT ![FileOf(job.script, "scaler")] =
                 [Missing EXCEPT !.run = runs, !.full = full]]
  /\ job' = [job EXCEPT !.todo = Tail(@), !.scaler = runs]
  /\ UNCHANGED <<losses, runs, interrupted>>

ReuseScaler ==
  /\ At("scaler") /\ Reusable(job.script).full
  /\ job' = [job EXCEPT !.todo = Tail(@), !.scaler = Reusable(job.script).run]
  /\ UNCHANGED <<losses, files, runs, interrupted>>

-----------------------------------------------------------------------------
(* The epochs.  EarlyStopping compares with val_loss > best - min_delta,    *)
(* which is false of NaN on either side: NaN counts as an improvement.      *)

Stale(v) == job.best # NoLoss /\ v # NaN /\ job.best # NaN /\ v > job.best - MinDelta
\* Mutant of Improves: a slightly worse loss counts as an improvement.
ImprovesWithin(v) ==
  IF job.script \in PerUe THEN ~Stale(v)
  ELSE v # NaN /\ (job.best = NoLoss \/ v < job.best + MinDelta)
Improves(v) ==
  IF job.script \in PerUe THEN ~Stale(v)
  ELSE v # NaN /\ (job.best = NoLoss \/ v < job.best)

StopsEarly == job.script \in PerUe /\ job.counter >= Patience
Trained == Len(losses) = MaxEpochs \/ StopsEarly

Saves(v) == Improves(v) /\ job.script \in PerUe

Epoch(v) ==
  /\ At("train") /\ ~Trained
  /\ losses' = Append(losses, v)
  /\ job' = IF Improves(v)
            THEN [job EXCEPT !.best = v, !.kept = Len(losses) + 1,
                             !.counter = 0]
            ELSE [job EXCEPT !.counter = IF job.script \in PerUe THEN @ + 1 ELSE 0]
  /\ files' = IF Saves(v)
              THEN [files EXCEPT ![FileOf(job.script, "checkpoint")] =
                      [Missing EXCEPT !.run = runs, !.epoch = Len(losses) + 1]]
              ELSE files
  /\ UNCHANGED <<runs, interrupted>>

\* The weights the script goes on with: the checkpoint's, the best state's, or
\* for want of one the last epoch's.
RestoredEpoch ==
  IF job.script \in PerUe THEN files[FileOf(job.script, "checkpoint")].epoch
  ELSE IF job.kept = 0 THEN Len(losses) ELSE job.kept

RestoreBest ==
  /\ At("train") /\ Trained
  /\ job' = [job EXCEPT !.todo = Tail(@), !.kept = RestoredEpoch,
                        !.threshold = IF job.script = "lstm" THEN "train" ELSE NoScript]
  /\ UNCHANGED <<losses, files, runs, interrupted>>

-----------------------------------------------------------------------------
(* The results                                                             *)

FitThreshold ==
  /\ At("fit")
  /\ job' = [job EXCEPT !.todo = Tail(@), !.threshold = "val"]
  /\ UNCHANGED <<losses, files, runs, interrupted>>

Result(kind) ==
  [run |-> runs, epoch |-> job.kept, full |-> FALSE,
   scaler |-> IF kind = "model" THEN job.scaler ELSE 0,
   threshold |-> IF kind = "losses" THEN NoScript ELSE job.threshold]

\* Writes a file and, with the last one, ends.
Write(kind) ==
  /\ At(kind)
  /\ files' = [files EXCEPT ![FileOf(job.script, kind)] = Result(kind)]
  /\ IF Tail(job.todo) = <<>>
     THEN /\ job' = Idle /\ losses' = <<>>
          /\ interrupted' = interrupted \ {ModelOf(job.script)}
     ELSE /\ job' = [job EXCEPT !.todo = Tail(@)]
          /\ UNCHANGED <<losses, interrupted>>
  /\ UNCHANGED runs

\* The file a step would be writing when it is cut short.
InWrite ==
  IF At("train") THEN {FileOf(s, "checkpoint") : s \in {job.script} \cap PerUe}
  ELSE {FileOf(job.script, k) : k \in {x \in Kinds : At(x) /\ ~Reusable(job.script).full}}

\* Interrupted, killed, out of memory, or a file that cannot be read.
Interrupt ==
  /\ job # Idle
  /\ \E torn \in SUBSET InWrite :
       files' = [f \in DOMAIN files |-> IF f \in torn THEN Torn ELSE files[f]]
  /\ job' = Idle /\ losses' = <<>>
  /\ UNCHANGED <<runs, interrupted>>

TrainNext ==
  \/ \E s \in Scripts : Begin(s)
  \/ \E full \in BOOLEAN : FitScaler(full)
  \/ ReuseScaler
  \/ \E v \in Loss \cup {NaN} : Epoch(v)
  \/ RestoreBest
  \/ FitThreshold
  \/ \E kind \in {"model", "losses", "threshold"} : Write(kind)
  \/ Interrupt

TrainSpec == TrainInit /\ [][TrainNext]_trainVars

-----------------------------------------------------------------------------
TrainTypeOK ==
  /\ job.script \in Scripts \cup {NoScript} /\ job.kept \in 0..MaxEpochs
  /\ job.best \in Loss \cup {NaN, NoLoss} /\ job.counter \in 0..Patience
  /\ losses \in Seq(Loss \cup {NaN}) /\ Len(losses) <= MaxEpochs
  /\ runs \in 0..MaxRuns
  /\ DOMAIN files = Models \X Kinds /\ interrupted \subseteq Models

\* Epochs with no NaN at or after them.
SinceNaN == {i \in DOMAIN losses : \A j \in i..Len(losses) : losses[j] # NaN}

(* The weights kept are as good as any seen, up to min_delta: over the whole *)
(* run where the best state is held in memory, but only since the last NaN   *)
(* where EarlyStopping holds it, for there a NaN epoch replaces the best     *)
(* checkpoint and the next finite one, however bad, replaces that.           *)
BestKept ==
  At("train") =>
    IF job.script \in PerUe
    THEN \A i \in SinceNaN : job.best \in Loss /\ losses[i] > job.best - MinDelta
    ELSE \A i \in DOMAIN losses :
           losses[i] # NaN => job.best \in Loss /\ losses[i] >= job.best

(* What is restored after training is the epoch whose loss is the best, on   *)
(* disk too: no checkpoint of an earlier run is taken for this one's.        *)
CheckpointIsBest ==
  At("train") /\ losses # <<>> /\ job.script \in PerUe =>
    /\ files[FileOf(job.script, "checkpoint")].run = runs
    /\ files[FileOf(job.script, "checkpoint")].epoch = job.kept
    /\ losses[job.kept] = job.best

(* A model whose last run ended has its losses, its threshold and, unless it *)
(* is the cell GRU, its scaler from that same run: runs that are interrupted *)
(* in between, and runs of other scripts, leave no mixed set behind.         *)
FilesOfOneRun ==
  \A m \in Models \ interrupted :
    LET run(kind) == files[<<m, kind>>].run IN
    /\ run("losses") = run("model") /\ run("threshold") = run("model")
    /\ m # "cell_gru" => run("scaler") = run("model")
    /\ run("model") > 0 => files[<<m, "threshold">>].threshold = "val"

(* The scaler the cell GRU was trained with is still in one of its two       *)
(* places, unless a later run has replaced it there: train_lstm.py replaces  *)
(* models/scaler.pkl at once, for a model it may never finish.               *)
ScalerLostToLaterRun ==
  LET gru == files[<<"cell_gru", "model">>]
      places == {files[Shared], files[<<"cell_gru", "scaler">>]}
  IN gru.run > 0 => \E f \in places : f.run = gru.scaler \/ f = Torn \/ f.run > gru.run
==============================================================================
