----------------------------- MODULE MoniControl -----------------------------
(***************************************************************************)
(* The mitigation control of xapp_sec_moni.c: the E2 callback thread, which *)
(* turns detection results into requests, and the main loop, which sends    *)
(* THROTTLE and RESTORE to the mitigator over a UNIX socket.  The two share *)
(* g_pending_throttle, g_throttle_active, g_throttle_target_ue_id and       *)
(* g_last_ue_alert_ms without a lock: callbacks hold mtx against each       *)
(* other, the main loop takes no lock.  A step here is one atomic access:   *)
(* a callback first reads g_throttle_active and decides, and stores in a    *)
(* step of its own; the main loop's iteration is cut where it reads, sends, *)
(* waits for the ACK and stores.                                            *)
(*                                                                          *)
(* Time is counted in ticks of one main-loop sleep.  The code stores        *)
(* epoch milliseconds and compares differences with constants, so the model *)
(* keeps those differences ("ages"), counted up to the constant they are    *)
(* compared with.  Detection itself is abstract here: severity is what the  *)
(* detectors of the configured mode report, ueAttack the UEs whose per-UE   *)
(* pipeline reports an anomaly; both change at any time.                    *)
(***************************************************************************)
EXTENDS Integers, Sequences

CONSTANTS
  UE,          \* RNTIs that per-UE reports name
  DefaultUe,   \* initial g_throttle_target_ue_id
  NoUe,        \* no UE
  Cooldown,    \* THROTTLE_COOLDOWN_MS in ticks
  Grace,       \* RESTORE_GRACE_MS in ticks
  UeCalm,      \* THROTTLE_RESTORE_MS in ticks
  AckTicks,    \* ticks that may pass during one ACK wait
  CellEnabled, \* g_cell_enabled: FALSE with --no-cell
  MaxAcks,     \* bound: replies buffered in the socket
  MaxRestarts  \* bound: times the process is restarted

ASSUME UeAssumption == DefaultUe \in UE /\ NoUe \notin UE
ASSUME TimeAssumption ==
  /\ Cooldown \in Nat /\ Grace \in Nat \ {0} /\ UeCalm \in Nat \ {0}
  /\ Grace <= Cooldown
  /\ AckTicks \in Nat /\ AckTicks <= Cooldown
ASSUME BoundAssumption ==
  CellEnabled \in BOOLEAN /\ MaxAcks \in Nat /\ MaxRestarts \in Nat

VARIABLES
  active,       \* g_throttle_active
  pending,      \* g_pending_throttle: 0 none, 1 throttle, 2 restore
  target,       \* g_throttle_target_ue_id
  sinceCmd,     \* now - g_throttle_last_ms
  sinceUeAlert, \* now - g_last_ue_alert_ms
  sev0Age,      \* now - g_sev0_since_ms, NoTimer when that is 0
  pc,           \* where the main loop is
  iterAge,      \* now - now_ms, the clock the iteration works with
  cmd,          \* the last command this process issued
  link,         \* g_ipc_fd: "none" is -1, "broken" a socket whose peer is gone
  acks,         \* replies in the socket, not yet received
  cb,           \* the store the running callback has decided on
  severity,     \* what the enabled cell detectors report now
  ueAttack,     \* UEs the per-UE detectors find anomalous now
  restarts      \* restarts so far

mainVars == <<active, sinceCmd, sev0Age, pc, iterAge, cmd, link, acks>>
threat == <<severity, ueAttack>>
vars == <<active, pending, target, sinceCmd, sinceUeAlert, sev0Age, pc, iterAge,
          cmd, link, acks, cb, severity, ueAttack, restarts>>

NoTimer == -1
Actions == {"THROTTLE", "RESTORE"}
NoCmd == [act |-> "none", ue |-> NoUe]
Idle == [op |-> "idle", ue |-> NoUe]
Older(a, cap) == IF a < cap THEN a + 1 ELSE a

(* Type invariant of the control state of xapp_sec_moni. *)
TypeOK ==
  /\ active \in BOOLEAN
  /\ pending \in 0..2
  /\ target \in UE
  /\ sinceCmd \in 0..(Cooldown + 1)
  /\ sinceUeAlert \in 0..UeCalm
  /\ sev0Age \in NoTimer..Cooldown
  /\ pc \in {"sleep", "connect", "dispatch", "await", "commit", "clear",
             "grace", "graceElse"}
  /\ iterAge \in 0..AckTicks
  /\ cmd \in [act : Actions \cup {"none"}, ue : UE \cup {NoUe}]
  /\ link \in {"none", "open", "broken"}
  /\ acks \in Seq(Actions)
  /\ cb \in [op : {"idle", "throttle", "restore"}, ue : UE \cup {NoUe}]
  /\ severity \in 0..2
  /\ ueAttack \in SUBSET UE
  /\ restarts \in 0..MaxRestarts

-----------------------------------------------------------------------------
(* A fresh process: the clocks hold 0, the epoch, so every wait has long   *)
(* elapsed; main() tries to connect once before its loop.                  *)
Init ==
  /\ active = FALSE /\ pending = 0 /\ target = DefaultUe
  /\ sinceCmd = Cooldown + 1 /\ sinceUeAlert = UeCalm /\ sev0Age = NoTimer
  /\ pc = "sleep" /\ iterAge = 0 /\ cmd = NoCmd
  /\ link \in {"none", "open"} /\ acks = <<>> /\ cb = Idle
  /\ severity = 0 /\ ueAttack = {} /\ restarts = 0

-----------------------------------------------------------------------------
(* The detectors' view of the network changes; with --no-cell there is no  *)
(* cell detector.                                                          *)
SeverityChanges ==
  /\ CellEnabled
  /\ severity' \in (0..2) \ {severity}
  /\ UNCHANGED <<mainVars, pending, target, sinceUeAlert, cb, ueAttack, restarts>>

UeChanges(u) ==
  /\ ueAttack' = IF u \in ueAttack THEN ueAttack \ {u} ELSE ueAttack \cup {u}
  /\ UNCHANGED <<mainVars, pending, target, sinceUeAlert, cb, severity, restarts>>

(* sm_cb_kpm, Format 1 from the DU: the final severity, and with the        *)
(* g_throttle_active read here the request it will store.                   *)
FinalSev == IF CellEnabled THEN severity ELSE 0

\* Mutant of CellRequest: the comparison with the calm period inverted.
CellRequestWhileAlerted ==
  IF FinalSev = 2 /\ ~active THEN "throttle"
  ELSE IF FinalSev = 0 /\ active /\ sinceUeAlert < UeCalm THEN "restore"
  ELSE "idle"

CellRequest ==
  IF FinalSev = 2 /\ ~active THEN "throttle"
  ELSE IF FinalSev = 0 /\ active /\ sinceUeAlert >= UeCalm THEN "restore"
  ELSE "idle"

CellIndication ==
  /\ cb.op = "idle"
  /\ cb' = [op |-> CellRequest, ue |-> NoUe]
  /\ UNCHANGED <<mainVars, pending, target, sinceUeAlert, threat, restarts>>

(* sm_cb_kpm, Format 3, one UE: an anomalous UE restarts the per-UE calm    *)
(* clock, and an alert (the decision engine may hold it back) asks for a    *)
(* throttle when g_throttle_active reads 0.                                 *)
UeIndication(u, alert) ==
  /\ cb.op = "idle"
  /\ u \in ueAttack
  /\ sinceUeAlert' = 0
  /\ cb' = IF alert /\ ~active THEN [op |-> "throttle", ue |-> u] ELSE Idle
  /\ UNCHANGED <<mainVars, pending, target, threat, restarts>>

\* Mutant of StoreTarget: a cell request, which names no UE, stores one too.
StoreTargetOfAnyRequest ==
  /\ cb.op # "idle"
  /\ target' = cb.ue
  /\ cb' = [cb EXCEPT !.ue = NoUe]
  /\ UNCHANGED <<mainVars, pending, sinceUeAlert, threat, restarts>>

(* The stores of either callback; the per-UE one sets the target first. *)
StoreTarget ==
  /\ cb.ue # NoUe
  /\ target' = cb.ue
  /\ cb' = [cb EXCEPT !.ue = NoUe]
  /\ UNCHANGED <<mainVars, pending, sinceUeAlert, threat, restarts>>

StorePending ==
  /\ cb.op # "idle" /\ cb.ue = NoUe
  /\ pending' = IF cb.op = "throttle" THEN 1 ELSE 2
  /\ cb' = Idle
  /\ UNCHANGED <<mainVars, target, sinceUeAlert, threat, restarts>>

CallbackStores == StoreTarget \/ StorePending

-----------------------------------------------------------------------------
(* Time passes while the main thread sleeps or waits for an ACK; the rest  *)
(* of its iteration takes no time at this scale.                           *)
Tick ==
  /\ \/ pc = "sleep" /\ pc' = "connect" /\ UNCHANGED iterAge
     \/ pc = "await" /\ iterAge < AckTicks /\ iterAge' = iterAge + 1 /\ UNCHANGED pc
  /\ sinceCmd' = Older(sinceCmd, Cooldown + 1)
  /\ sinceUeAlert' = Older(sinceUeAlert, UeCalm)
  /\ sev0Age' = IF sev0Age = NoTimer THEN NoTimer ELSE Older(sev0Age, Grace)
  /\ UNCHANGED <<active, pending, target, cmd, link, acks, cb, threat, restarts>>

(* Reconnect when the descriptor is -1, then take now_ms. *)
Connect ==
  /\ pc = "connect"
  /\ link' \in IF link = "none" THEN {"none", "open"} ELSE {link}
  /\ pc' = "dispatch"
  /\ UNCHANGED <<active, pending, target, sinceCmd, sinceUeAlert, sev0Age, iterAge,
                 cmd, acks, cb, threat, restarts>>

\* Mutant of Issue: the descriptor stays set when send() fails.
IssueKeepsDeadSocket(act) ==
  /\ cmd' = [act |-> act, ue |-> target]
  /\ pc' = IF link = "open" THEN "await" ELSE "commit"
  /\ UNCHANGED <<active, pending, target, sinceCmd, sinceUeAlert, sev0Age, iterAge,
                 link, acks, cb, threat, restarts>>

(* ipc_send_mitigate up to send(): skipped without a connection, and a     *)
(* failed send closes the socket; neither is reported to the caller.       *)
Issue(act) ==
  /\ cmd' = [act |-> act, ue |-> target]
  /\ pc' = IF link = "open" THEN "await" ELSE "commit"
  /\ link' = IF link = "open" THEN "open" ELSE "none"
  /\ acks' = IF link = "open" THEN acks ELSE <<>>
  /\ UNCHANGED <<active, pending, target, sinceCmd, sinceUeAlert, sev0Age, iterAge,
                 cb, threat, restarts>>

\* Mutant of ThrottleDue: no cooldown.
ThrottleDueAtOnce == pending = 1 /\ ~active

ThrottleDue == pending = 1 /\ ~active /\ sinceCmd > Cooldown

DispatchThrottle == pc = "dispatch" /\ ThrottleDue /\ Issue("THROTTLE")

NoThrottle ==
  /\ pc = "dispatch" /\ ~ThrottleDue
  /\ pc' = "grace"
  /\ UNCHANGED <<active, pending, target, sinceCmd, sinceUeAlert, sev0Age, iterAge,
                 cmd, link, acks, cb, threat, restarts>>

(* ipc_send_mitigate after send(): one recv takes whatever is buffered,    *)
(* whichever command it answers, or nothing arrives in time.               *)
AckReceived ==
  /\ pc = "await" /\ acks # <<>>
  /\ acks' = <<>> /\ pc' = "commit"
  /\ UNCHANGED <<active, pending, target, sinceCmd, sinceUeAlert, sev0Age, iterAge,
                 cmd, link, cb, threat, restarts>>

AckTimeout ==
  /\ pc = "await" /\ acks = <<>>
  /\ pc' = "commit"
  /\ UNCHANGED <<active, pending, target, sinceCmd, sinceUeAlert, sev0Age, iterAge,
                 cmd, link, acks, cb, threat, restarts>>

\* Mutants of CommitCommand: the grace timer is not reset ...
CommitKeepsTimer ==
  /\ pc = "commit"
  /\ active' = (cmd.act = "THROTTLE")
  /\ sinceCmd' = iterAge
  /\ pc' = "clear"
  /\ UNCHANGED <<pending, target, sinceUeAlert, sev0Age, iterAge, cmd, link, acks,
                 cb, threat, restarts>>

\* ... and g_throttle_active is only set when the connection is up.
CommitWhenLinked ==
  /\ pc = "commit"
  /\ active' = (cmd.act = "THROTTLE" /\ link = "open")
  /\ sinceCmd' = iterAge
  /\ sev0Age' = NoTimer
  /\ pc' = "clear"
  /\ UNCHANGED <<pending, target, sinceUeAlert, iterAge, cmd, link, acks, cb,
                 threat, restarts>>

(* The caller's stores after the send, whatever became of the command. *)
CommitCommand ==
  /\ pc = "commit"
  /\ active' = (cmd.act = "THROTTLE")
  /\ sinceCmd' = iterAge
  /\ sev0Age' = NoTimer
  /\ pc' = "clear"
  /\ UNCHANGED <<pending, target, sinceUeAlert, iterAge, cmd, link, acks, cb,
                 threat, restarts>>

(* The last store of either branch; after a THROTTLE the same iteration    *)
(* goes on to the RESTORE branch.                                          *)
ClearPending ==
  /\ pc = "clear"
  /\ pending' = 0
  /\ pc' = IF cmd.act = "THROTTLE" THEN "grace" ELSE "sleep"
  /\ iterAge' = IF cmd.act = "THROTTLE" THEN iterAge ELSE 0
  /\ UNCHANGED <<active, target, sinceCmd, sinceUeAlert, sev0Age, cmd, link, acks,
                 cb, threat, restarts>>

-----------------------------------------------------------------------------
EndIteration == pc' = "sleep" /\ iterAge' = 0

GraceStarts ==
  /\ pc = "grace" /\ pending = 2 /\ active /\ sev0Age = NoTimer
  /\ sev0Age' = iterAge
  /\ EndIteration
  /\ UNCHANGED <<active, pending, target, sinceCmd, sinceUeAlert, cmd, link, acks,
                 cb, threat, restarts>>

GraceRuns ==
  /\ pc = "grace" /\ pending = 2 /\ active /\ sev0Age # NoTimer /\ sev0Age < Grace
  /\ EndIteration
  /\ UNCHANGED <<active, pending, target, sinceCmd, sinceUeAlert, sev0Age, cmd, link,
                 acks, cb, threat, restarts>>

DispatchRestore ==
  /\ pc = "grace" /\ pending = 2 /\ active /\ sev0Age # NoTimer /\ sev0Age >= Grace
  /\ Issue("RESTORE")

(* The other branch reads g_pending_throttle a second time. *)
NoRestore ==
  /\ pc = "grace" /\ ~(pending = 2 /\ active)
  /\ pc' = "graceElse"
  /\ UNCHANGED <<active, pending, target, sinceCmd, sinceUeAlert, sev0Age, iterAge,
                 cmd, link, acks, cb, threat, restarts>>

GraceElse ==
  /\ pc = "graceElse"
  /\ sev0Age' = IF pending # 2 THEN NoTimer ELSE sev0Age
  /\ EndIteration
  /\ UNCHANGED <<active, pending, target, sinceCmd, sinceUeAlert, cmd, link, acks,
                 cb, threat, restarts>>

-----------------------------------------------------------------------------
(* The mitigator at the other end: it replies, or its process ends. *)
PeerReplies(act) ==
  /\ link = "open" /\ Len(acks) < MaxAcks
  /\ acks' = Append(acks, act)
  /\ UNCHANGED <<active, pending, target, sinceCmd, sinceUeAlert, sev0Age, pc,
                 iterAge, cmd, link, cb, threat, restarts>>

PeerGone ==
  /\ link = "open"
  /\ link' = "broken"
  /\ UNCHANGED <<active, pending, target, sinceCmd, sinceUeAlert, sev0Age, pc,
                 iterAge, cmd, acks, cb, threat, restarts>>

(* SIGINT or a crash, and a new process.  Neither sends RESTORE: shutdown  *)
(* only closes the socket.                                                 *)
Restart ==
  /\ restarts < MaxRestarts
  /\ restarts' = restarts + 1
  /\ active' = FALSE /\ pending' = 0 /\ target' = DefaultUe
  /\ sinceCmd' = Cooldown + 1 /\ sinceUeAlert' = UeCalm /\ sev0Age' = NoTimer
  /\ pc' = "sleep" /\ iterAge' = 0 /\ cmd' = NoCmd
  /\ link' \in {"none", "open"} /\ acks' = <<>> /\ cb' = Idle
  /\ UNCHANGED threat

-----------------------------------------------------------------------------
MainStep ==
  \/ Connect \/ DispatchThrottle \/ NoThrottle
  \/ AckReceived \/ AckTimeout \/ CommitCommand \/ ClearPending
  \/ GraceStarts \/ GraceRuns \/ DispatchRestore \/ NoRestore \/ GraceElse

MainLoop == Tick \/ MainStep

Callback ==
  \/ CellIndication
  \/ \E u \in UE, alert \in BOOLEAN : UeIndication(u, alert)
  \/ CallbackStores

Environment ==
  \/ SeverityChanges
  \/ \E u \in UE : UeChanges(u)
  \/ \E act \in Actions : PeerReplies(act)
  \/ PeerGone
  \/ Restart

Next == MainLoop \/ Callback \/ Environment

Spec == Init /\ [][Next]_vars

(* The main loop runs as long as the process does and KPM reports are      *)
(* periodic; nothing is assumed of the mitigator or of detection.          *)
Fairness ==
  WF_vars(MainLoop) /\ WF_vars(CellIndication) /\ WF_vars(CallbackStores)

FairSpec == Spec /\ Fairness
-----------------------------------------------------------------------------
(* The cycle seen from outside: the command in flight or last sent gives   *)
(* the phase; its age is the iteration's until the main loop has stored    *)
(* g_throttle_last_ms; calm counts while a restore request stands, stored  *)
(* or about to be.                                                         *)
Sending == pc \in {"await", "commit"}

CyclePhase == IF cmd.act = "THROTTLE" THEN "throttled" ELSE "open"
CycleAge == IF Sending THEN iterAge ELSE sinceCmd
CycleCalm == active /\ (pending = 2 \/ cb.op = "restore")

Cycle == INSTANCE ThrottleCycle WITH
  phase <- CyclePhase, age <- CycleAge, calm <- CycleCalm

(* The unlocked handshake between callbacks and main loop still yields the *)
(* cycle of ThrottleCycle: commands alternate, no THROTTLE within the      *)
(* cooldown of the command before it, no RESTORE within the grace period   *)
(* of its THROTTLE or on a restore request left over from an earlier one.  *)
RefinesThrottleCycle == Cycle!Spec

(* What makes it so, at every step of either thread: the main loop's place *)
(* agrees with g_throttle_active, a grace timer belongs to the throttle    *)
(* that is on, and neither a stored nor a decided restore request survives *)
(* into the next THROTTLE, nor a throttle request over a restore.          *)
MainAgrees ==
  /\ Sending \/ pc = "clear" => cmd.act \in Actions
  /\ Sending /\ cmd.act = "THROTTLE" => ~active /\ pending # 2
  /\ Sending /\ cmd.act = "RESTORE" => active /\ pending = 2
  /\ ~Sending => (active <=> cmd.act = "THROTTLE")
  /\ pc \in {"sleep", "connect", "dispatch"} => iterAge = 0
  /\ ~Sending => iterAge <= sinceCmd

TimerOfThisThrottle ==
  /\ sev0Age # NoTimer => active /\ sev0Age <= sinceCmd
  /\ pc \in {"clear", "grace"} /\ iterAge # 0 => sev0Age = NoTimer

NoLeftoverRequest ==
  /\ cb.op = "restore" /\ ~active =>
       ~Sending /\ (pending # 1 \/ pc = "clear")
  /\ cb.op = "throttle" /\ active => pending # 2

ControlInv == MainAgrees /\ TimerOfThisThrottle /\ NoLeftoverRequest

(* A cell attack that the enabled detectors report from some point on is   *)
(* throttled again and again, if ever restored, whatever the mitigator,    *)
(* the per-UE alerts and stale requests do.                                *)
PersistentAttackThrottled ==
  <>[](FinalSev = 2) => []<>active

(* Once detection stays calm, the loop ends unthrottled and stays so, even *)
(* when a stale throttle request still fires after the attack.             *)
CalmReleases ==
  <>[](FinalSev = 0 /\ ueAttack = {}) => <>[]~active

(* A RESTORE names the UE that the THROTTLE before it named, so that no UE *)
(* is left at 5%; docs/PRD_Security_xApp.md says g_throttle_target_ue_id   *)
(* is locked while the mitigation is active.                               *)
RestoreNamesThrottledUe == [][DispatchRestore => target = cmd.ue]_vars
==============================================================================
