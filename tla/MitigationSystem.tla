--------------------------- MODULE MitigationSystem ---------------------------
(***************************************************************************)
(* The closed loop: the monitor's control (MoniControl), the mitigator     *)
(* (MitigateServer) and the gNB behind it, joined by the UNIX socket.      *)
(* What MoniControl leaves to its peer is here the mitigator's doing: a    *)
(* connection opens when the mitigator listens, a reply is the one its     *)
(* receive loop sends, and the peer is gone when its process ends.         *)
(***************************************************************************)
EXTENDS Integers, Sequences

CONSTANTS
  UE, DefaultUe, NoUe, Cooldown, Grace, UeCalm, AckTicks, CellEnabled,
  MaxAcks, MaxRestarts,
  MaxThreads, MaxFaults,
  MaxUnread,  \* bound: commands waiting unread in the socket
  Prompt      \* the mitigator and the RIC finish a command within a tick

ASSUME SystemUeAssumption == DefaultUe \in UE /\ NoUe \notin UE
ASSUME SystemTimeAssumption ==
  /\ Cooldown \in Nat /\ Grace \in Nat \ {0} /\ UeCalm \in Nat \ {0}
  /\ Grace <= Cooldown
  /\ AckTicks \in Nat /\ AckTicks <= Cooldown
ASSUME SystemBoundAssumption ==
  /\ {CellEnabled, Prompt} \subseteq BOOLEAN
  /\ {MaxAcks, MaxRestarts, MaxThreads, MaxFaults, MaxUnread} \subseteq Nat

VARIABLES
  active, pending, target, sinceCmd, sinceUeAlert, sev0Age, pc, iterAge, cmd,
  link, acks, cb, severity, ueAttack, restarts,
  phase, inq, gUe, handling, rcs, quota, faults

Moni == INSTANCE MoniControl
Server == INSTANCE MitigateServer

peerVars == <<phase, inq, gUe, handling, rcs, quota, faults>>
vars == <<Moni!vars, peerVars>>

(* Type invariant of both processes and the gNB together. *)
SystemTypeOK == Moni!TypeOK /\ Server!TypeOK

Listening == phase # "down"

Init ==
  /\ Moni!Init /\ Server!Init
  /\ link = "open"

-----------------------------------------------------------------------------
(* The main loop's steps that do not touch the socket's other end. *)
MainAlone ==
  /\ \/ Moni!NoThrottle \/ Moni!AckReceived \/ Moni!AckTimeout
     \/ Moni!CommitCommand \/ Moni!ClearPending \/ Moni!GraceStarts
     \/ Moni!GraceRuns \/ Moni!NoRestore \/ Moni!GraceElse
  /\ UNCHANGED peerVars

Detection ==
  /\ \/ Moni!Callback
     \/ Moni!SeverityChanges
     \/ \E u \in UE : Moni!UeChanges(u)
  /\ UNCHANGED peerVars

Tick ==
  /\ Prompt /\ phase = "serving" => Server!Settled
  /\ Moni!Tick
  /\ UNCHANGED peerVars

Connect ==
  /\ Moni!Connect
  /\ link' = IF link = "none" /\ Listening THEN "open" ELSE link
  /\ UNCHANGED peerVars

(* A command sent on an open connection is in the socket for good. *)
Dispatch ==
  /\ Len(inq) < MaxUnread
  /\ Moni!DispatchThrottle \/ Moni!DispatchRestore
  /\ inq' = IF link = "open"
            THEN Append(inq, [act |-> cmd'.act, ue |-> cmd'.ue, live |-> TRUE])
            ELSE inq
  /\ UNCHANGED <<phase, gUe, handling, rcs, quota, faults>>

(* A new monitor process; what the old one sent is still read, and         *)
(* answered to nobody.                                                     *)
MoniRestart ==
  /\ Moni!Restart
  /\ link' = IF Listening THEN "open" ELSE "none"
  /\ inq' = [i \in 1..Len(inq) |-> [inq[i] EXCEPT !.live = FALSE]]
  /\ UNCHANGED <<phase, gUe, handling, rcs, quota, faults>>

-----------------------------------------------------------------------------
moniRest == <<active, pending, target, sinceCmd, sinceUeAlert, sev0Age, pc,
              iterAge, cmd, cb, severity, ueAttack, restarts>>

ServerStep ==
  /\ Server!ServerProgress
  /\ Len(acks') <= MaxAcks
  /\ UNCHANGED <<moniRest, link>>

ControlStep ==
  /\ \E i \in 1..Len(rcs) : Server!ControlThread(i)
  /\ UNCHANGED <<moniRest, link>>

ServerCrash ==
  /\ Server!Crash
  /\ link' = IF link = "open" THEN "broken" ELSE link
  /\ UNCHANGED moniRest

-----------------------------------------------------------------------------
MoniLoop == Tick \/ Connect \/ Dispatch \/ MainAlone

Next == MoniLoop \/ Detection \/ MoniRestart \/ ServerStep \/ ControlStep \/ ServerCrash

Spec == Init /\ [][Next]_vars

(* The monitor's threads as in MoniControl; the mitigator reads its socket *)
(* and each control thread runs.  That an ended mitigator is started again *)
(* and finds its DU is the operator's doing: the properties about faults   *)
(* suppose it serves in the end and take nothing from this fairness.       *)
Fairness ==
  /\ WF_vars(MoniLoop)
  /\ WF_vars(Moni!CellIndication /\ UNCHANGED peerVars)
  /\ WF_vars(Moni!CallbackStores /\ UNCHANGED peerVars)
  /\ WF_vars(ServerStep)
  /\ WF_vars(ControlStep)

FairSpec == Spec /\ Fairness

-----------------------------------------------------------------------------
(* When everything sent has reached the gNB, the UE of the monitor's last  *)
(* command has the limit that command asked for: neither late replies, nor *)
(* control threads that run late and read a shared UE, nor the monitor's   *)
(* timeouts undo it, as long as commands are finished within a tick.       *)
LastCommandInForce ==
  Server!Settled /\ cmd.act # "none" => quota[cmd.ue] = Server!PrbLimit(cmd.act)

(* A cell attack that detection keeps reporting reaches the gNB as a       *)
(* throttle, again and again.                                              *)
AttackReachesGnb ==
  <>[](Moni!FinalSev = 2) => []<>(\E u \in UE : quota[u] = Server!Low)

(* Once detection stays calm, the UE of the last command ends with its     *)
(* full quota for good, whatever requests were still on their way then.    *)
CalmReachesGnb ==
  <>[](Moni!FinalSev = 0 /\ ueAttack = {})
    => <>[](cmd.act # "none" => quota[cmd.ue] = Server!Full)

(* After losses the loop works again: if the mitigator stays up and the    *)
(* monitor keeps issuing throttles, throttles keep reaching the gNB, since *)
(* a failed send makes the monitor reconnect.                              *)
LoopRecovers ==
  <>[](phase = "serving") /\ []<><<Moni!DispatchThrottle>>_vars
    => []<>(\E u \in UE : quota[u] = Server!Low)

(* A row of the mitigation log is written when a reply arrives; its action *)
(* is one that a reply confirmed.  The header written with the log says    *)
(* "one row per confirmed E2SM-RC control".                                *)
RowNamesItsReply ==
  [][Moni!AckReceived => \E i \in 1..Len(acks) : acks[i] = cmd.act]_vars

(* "Connection is attempted at startup and re-attempted each main-loop     *)
(* iteration if lost": with the mitigator back for good, the monitor does  *)
(* not stay on a dead socket.                                              *)
ReconnectsAfterLoss ==
  <>[](phase = "serving") => <>[](link # "broken")
==============================================================================
