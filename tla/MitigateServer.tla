---------------------------- MODULE MitigateServer ----------------------------
(***************************************************************************)
(* xapp_sec_mitigate.c: the process that takes THROTTLE and RESTORE         *)
(* commands from one UNIX-socket client and turns each into an E2SM-RC      *)
(* control request, sent by a detached thread of its own.  The command's    *)
(* UE goes through the global g_ue_f1ap, which a thread reads when it       *)
(* builds its header, not when it is created.  The gNB is external: it      *)
(* keeps the PRB quota that the last control request gave each UE.          *)
(***************************************************************************)
EXTENDS Naturals, SequencesExt

CONSTANTS
  UE, DefaultUe, NoUe,
  MaxThreads,  \* bound: control threads alive at once
  MaxFaults    \* bound: process ends and failed control requests

VARIABLES
  phase,     \* "down", "starting" (listening, waiting for the DU), "serving"
  inq,       \* commands in the socket; live: their sender still reads replies
  acks,      \* replies in the socket
  gUe,       \* g_ue_f1ap
  handling,  \* the command acknowledged, its thread not created yet
  rcs,       \* control threads: the limit they carry, the UE in their header
  quota,     \* the gNB's PRB limit per UE
  faults     \* faults so far

serverVars == <<phase, inq, acks, gUe, handling, rcs, quota, faults>>

\* prb_limit classes: what THROTTLE (5) and RESTORE (100) ask for.
Low == 5
Full == 100
NoWork == 0

TypeOK ==
  /\ phase \in {"down", "starting", "serving"}
  /\ inq \in Seq([act : {"THROTTLE", "RESTORE"}, ue : UE, live : BOOLEAN])
  /\ acks \in Seq({"THROTTLE", "RESTORE"})
  /\ gUe \in UE
  /\ handling \in {NoWork, Low, Full}
  /\ rcs \in Seq([prb : {Low, Full}, hdr : UE \cup {NoUe}])
  /\ quota \in [UE -> {Low, Full}]
  /\ faults \in 0..MaxFaults

\* Both xApps are up: the start-up of the first is in Start and Serve.
Init ==
  /\ phase = "serving"
  /\ inq = <<>> /\ acks = <<>> /\ handling = NoWork /\ rcs = <<>>
  /\ gUe = DefaultUe
  /\ quota = [u \in UE |-> Full]
  /\ faults = 0

(* main: the socket listens before the process looks for the DU, so a      *)
(* client's connection and commands may wait there unread.                 *)
Start ==
  /\ phase = "down"
  /\ phase' = "starting" /\ gUe' = DefaultUe
  /\ UNCHANGED <<inq, acks, handling, rcs, quota, faults>>

Serve ==
  /\ phase = "starting"
  /\ phase' = "serving"
  /\ UNCHANGED <<inq, acks, gUe, handling, rcs, quota, faults>>

\* Mutant of PrbLimit: the comparison with the action's name inverted.
PrbLimitInverted(act) == IF act = "THROTTLE" THEN Full ELSE Low

\* Mutant of PrbLimit: the lower clamp applied to RESTORE as well.
PrbLimitAlwaysLow(act) == Low

\* The limit a command asks for after clamping; RESTORE always means 100.
PrbLimit(act) == IF act = "RESTORE" THEN Full ELSE Low

\* Mutant of Receive: the command's ue_id is not taken over.
ReceiveIgnoresUe ==
  /\ phase = "serving" /\ handling = NoWork /\ inq # <<>>
  /\ acks' = IF Head(inq).live THEN Append(acks, Head(inq).act) ELSE acks
  /\ handling' = PrbLimit(Head(inq).act)
  /\ inq' = Tail(inq)
  /\ UNCHANGED <<phase, gUe, rcs, quota, faults>>

(* ipc_recv_loop up to the reply: the UE becomes global, then the client   *)
(* is told the command is applied.                                         *)
Receive ==
  /\ phase = "serving" /\ handling = NoWork /\ inq # <<>>
  /\ gUe' = Head(inq).ue
  /\ acks' = IF Head(inq).live THEN Append(acks, Head(inq).act) ELSE acks
  /\ handling' = PrbLimit(Head(inq).act)
  /\ inq' = Tail(inq)
  /\ UNCHANGED <<phase, rcs, quota, faults>>

\* Mutant of Spawn: the thread reads the limit after it was reset.
SpawnAfterReset ==
  /\ handling # NoWork /\ Len(rcs) < MaxThreads
  /\ handling' = NoWork
  /\ rcs' = Append(rcs, [prb |-> handling', hdr |-> NoUe])
  /\ UNCHANGED <<phase, inq, acks, gUe, quota, faults>>

(* execute_rc_control: one detached thread per command. *)
Spawn ==
  /\ handling # NoWork /\ Len(rcs) < MaxThreads
  /\ rcs' = Append(rcs, [prb |-> handling, hdr |-> NoUe])
  /\ handling' = NoWork
  /\ UNCHANGED <<phase, inq, acks, gUe, quota, faults>>

(* rc_control_thread: build_ctrl_hdr reads g_ue_f1ap ... *)
BuildHeader(i) ==
  /\ rcs[i].hdr = NoUe
  /\ rcs' = [rcs EXCEPT ![i].hdr = gUe]
  /\ UNCHANGED <<phase, inq, acks, gUe, handling, quota, faults>>

(* ... and the request takes effect at the gNB. *)
ControlApplied(i) ==
  /\ rcs[i].hdr # NoUe
  /\ quota' = [quota EXCEPT ![rcs[i].hdr] = rcs[i].prb]
  /\ rcs' = RemoveAt(rcs, i)
  /\ UNCHANGED <<phase, inq, acks, gUe, handling, faults>>

(* No thread could be created, or the gNB refused, or nothing came back:   *)
(* logged at most.                                                         *)
ControlFails(i) ==
  /\ faults < MaxFaults
  /\ faults' = faults + 1
  /\ rcs' = RemoveAt(rcs, i)
  /\ UNCHANGED <<phase, inq, acks, gUe, handling, quota>>

(* The process ends, threads and unread commands with it. *)
Crash ==
  /\ phase # "down" /\ faults < MaxFaults
  /\ faults' = faults + 1
  /\ phase' = "down" /\ inq' = <<>> /\ handling' = NoWork /\ rcs' = <<>>
  /\ UNCHANGED <<acks, gUe, quota>>

ControlThread(i) == BuildHeader(i) \/ ControlApplied(i) \/ ControlFails(i)

ServerProgress == Start \/ Serve \/ Receive \/ Spawn

\* Nothing the mitigator has been given is still on its way to the gNB.
Settled == inq = <<>> /\ handling = NoWork /\ rcs = <<>>
==============================================================================
