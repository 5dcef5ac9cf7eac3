------------------------ MODULE MitigationSystemProofs ------------------------
(***************************************************************************)
(* The closed loop, for every set of UEs, all timings and bounds: what the *)
(* monitor promises against any peer (MoniControlProofs) it keeps against  *)
(* the mitigator, and with a mitigator that finishes a command within a    *)
(* tick the gNB ends with what the monitor last asked for.                 *)
(***************************************************************************)
EXTENDS MitigationSystem, SequenceTheorems, TLAPS

\* The monitor with its theorems.
Loop == INSTANCE MoniControlProofs

LEMMA LoopAssumptions ==
  Loop!UeAssumption /\ Loop!TimeAssumption /\ Loop!BoundAssumption
  BY SystemUeAssumption, SystemTimeAssumption, SystemBoundAssumption
  DEF Loop!UeAssumption, Loop!TimeAssumption, Loop!BoundAssumption

-----------------------------------------------------------------------------
(* The commands in the socket                                              *)

\* A command whose sender waits for a reply came over the connection there is.
LiveIsOpen == \A i \in 1..Len(inq) : inq[i].live => link = "open"

CommandType == [act : {"THROTTLE", "RESTORE"}, ue : UE, live : BOOLEAN]
SocketInv == inq \in Seq(CommandType) /\ LiveIsOpen

-----------------------------------------------------------------------------
(* Each step of the system is one of MoniControl, or leaves its variables. *)

LEMMA MainAloneMaps == MainAlone => Loop!Next
  BY DEF MainAlone, Loop!Next, Loop!MainLoop, Loop!MainStep, Loop!threat, Moni!threat,
         Moni!NoThrottle, Loop!NoThrottle, Moni!AckReceived, Loop!AckReceived,
         Moni!AckTimeout, Loop!AckTimeout, Moni!CommitCommand, Loop!CommitCommand,
         Moni!ClearPending, Loop!ClearPending, Moni!GraceStarts, Loop!GraceStarts,
         Moni!GraceRuns, Loop!GraceRuns, Moni!NoRestore, Loop!NoRestore,
         Moni!GraceElse, Loop!GraceElse, Moni!ThrottleDue, Loop!ThrottleDue,
         Moni!EndIteration, Loop!EndIteration, Moni!NoTimer, Loop!NoTimer

LEMMA DetectionMaps == Detection => Loop!Next
  BY DEF Detection, Loop!Next, Loop!Environment, Moni!Callback, Loop!Callback,
         Moni!CellIndication, Loop!CellIndication, Moni!CellRequest, Loop!CellRequest,
         Moni!FinalSev, Loop!FinalSev, Moni!UeIndication, Loop!UeIndication,
         Moni!CallbackStores, Loop!CallbackStores, Moni!StoreTarget, Loop!StoreTarget,
         Moni!StorePending, Loop!StorePending, Moni!Idle, Loop!Idle,
         Moni!SeverityChanges, Loop!SeverityChanges, Moni!UeChanges, Loop!UeChanges,
         Moni!mainVars, Loop!mainVars, Moni!threat, Loop!threat

LEMMA TickMaps == Tick => Loop!Next
  BY DEF Tick, Moni!Tick, Loop!Tick, Moni!Older, Loop!Older, Moni!NoTimer, Loop!NoTimer,
         Moni!threat, Loop!threat, Loop!Next, Loop!MainLoop

LEMMA ConnectMaps == Connect => Loop!Next
  BY DEF Connect, Moni!Connect, Loop!Connect, Moni!threat, Loop!threat,
         Loop!Next, Loop!MainLoop, Loop!MainStep

LEMMA DispatchMaps == Dispatch => Loop!Next
  BY DEF Dispatch, Moni!DispatchThrottle, Loop!DispatchThrottle, Moni!DispatchRestore,
         Loop!DispatchRestore, Moni!Issue, Loop!Issue, Moni!ThrottleDue, Loop!ThrottleDue,
         Moni!NoTimer, Loop!NoTimer, Moni!threat, Loop!threat,
         Loop!Next, Loop!MainLoop, Loop!MainStep

LEMMA RestartMaps == MoniRestart => Loop!Next
  BY DEF MoniRestart, Moni!Restart, Loop!Restart, Moni!NoTimer, Loop!NoTimer,
         Moni!NoCmd, Loop!NoCmd, Moni!Idle, Loop!Idle, Moni!threat, Loop!threat,
         Loop!Next, Loop!Environment

LEMMA ServerMaps ==
  ASSUME Loop!TypeOK, SocketInv, ServerStep
  PROVE  Loop!Next \/ UNCHANGED Loop!vars
<1>1. CASE Server!Start \/ Server!Serve \/ Server!Spawn
  <2>1. UNCHANGED acks
    BY <1>1 DEF Server!Start, Server!Serve, Server!Spawn
  <2> QED  BY <2>1 DEF ServerStep, moniRest, Loop!vars
<1>2. CASE Server!Receive
  <2>1. inq # <<>> /\ Head(inq) = inq[1] /\ 1 \in 1..Len(inq) /\ Head(inq) \in CommandType
    BY <1>2 DEF Server!Receive, SocketInv
  <2>2. CASE ~Head(inq).live
    <3>1. UNCHANGED acks
      BY <1>2, <2>2 DEF Server!Receive
    <3> QED  BY <3>1 DEF ServerStep, moniRest, Loop!vars
  <2>3. CASE Head(inq).live
    <3>1. acks' = Append(acks, Head(inq).act) /\ Head(inq).act \in {"THROTTLE", "RESTORE"}
      BY <1>2, <2>1, <2>3 DEF Server!Receive, CommandType
    <3>2. link = "open"
      BY <2>1, <2>3 DEF SocketInv, LiveIsOpen
    <3>3. acks \in Seq({"THROTTLE", "RESTORE"}) /\ Len(acks') <= MaxAcks
      BY DEF Loop!TypeOK, Loop!Actions, ServerStep
    <3>4. Len(acks) < MaxAcks
      BY <3>1, <3>3, SystemBoundAssumption
    <3>5. Loop!PeerReplies(Head(inq).act)
      BY <3>1, <3>2, <3>4 DEF Loop!PeerReplies, ServerStep, moniRest, Loop!threat
    <3> QED  BY <3>1, <3>5 DEF Loop!Next, Loop!Environment, Loop!Actions
  <2> QED  BY <2>2, <2>3
<1> QED  BY <1>1, <1>2 DEF ServerStep, Server!ServerProgress

LEMMA ControlMaps == ControlStep => UNCHANGED Loop!vars
  BY DEF ControlStep, moniRest, Loop!vars, Server!ControlThread, Server!BuildHeader,
         Server!ControlApplied, Server!ControlFails

LEMMA CrashMaps == ServerCrash => Loop!Next \/ UNCHANGED Loop!vars
<1> SUFFICES ASSUME ServerCrash PROVE Loop!Next \/ UNCHANGED Loop!vars
  OBVIOUS
<1>1. UNCHANGED <<moniRest, acks>> /\ link' = IF link = "open" THEN "broken" ELSE link
  BY DEF ServerCrash, Server!Crash
<1>2. CASE link = "open"
  <2>1. Loop!PeerGone
    BY <1>1, <1>2 DEF Loop!PeerGone, moniRest, Loop!threat
  <2> QED  BY <2>1 DEF Loop!Next, Loop!Environment
<1>3. CASE link # "open"
  BY <1>1, <1>3 DEF moniRest, Loop!vars
<1> QED  BY <1>2, <1>3

LEMMA StepMaps == Loop!TypeOK /\ SocketInv /\ [Next]_vars => [Loop!Next]_(Loop!vars)
<1> SUFFICES ASSUME Loop!TypeOK, SocketInv, [Next]_vars PROVE Loop!Next \/ UNCHANGED Loop!vars
  OBVIOUS
<1>1. CASE UNCHANGED vars
  BY <1>1 DEF vars, Moni!vars, Loop!vars
<1> QED
  BY <1>1, MainAloneMaps, DetectionMaps, TickMaps, ConnectMaps, DispatchMaps, RestartMaps,
     ServerMaps, ControlMaps, CrashMaps DEF Next, MoniLoop

LEMMA InitMaps == Init => Loop!Init /\ SocketInv
<1> SUFFICES ASSUME Init PROVE Loop!Init /\ SocketInv
  OBVIOUS
<1>1. Loop!Init
  BY DEF Init, Moni!Init, Loop!Init, Moni!NoTimer, Loop!NoTimer, Moni!NoCmd, Loop!NoCmd,
         Moni!Idle, Loop!Idle
<1>2. SocketInv
  BY DEF Init, Server!Init, SocketInv, LiveIsOpen
<1> QED  BY <1>1, <1>2

-----------------------------------------------------------------------------
(* What is in the socket                                                   *)

LEMMA SocketStep == Loop!TypeOK /\ SocketInv /\ [Next]_vars => SocketInv'
<1> SUFFICES ASSUME Loop!TypeOK, SocketInv, [Next]_vars PROVE SocketInv'
  OBVIOUS
<1> USE DEF SocketInv, LiveIsOpen
<1>1. CASE UNCHANGED <<inq, link>>
  BY <1>1
<1>2. CASE Connect
  <2>1. UNCHANGED inq /\ (link = "open" => link' = "open")
    BY <1>2 DEF Connect, peerVars
  <2> QED  BY <2>1
<1>3. CASE Dispatch
  <2>1. PICK act \in {"THROTTLE", "RESTORE"} : Moni!Issue(act)
    BY <1>3 DEF Dispatch, Moni!DispatchThrottle, Moni!DispatchRestore
  <2>2. CASE link = "open"
    <3> DEFINE c == [act |-> cmd'.act, ue |-> cmd'.ue, live |-> TRUE]
    <3>1. c \in CommandType
      BY <2>1 DEF Moni!Issue, CommandType, Loop!TypeOK
    <3>2. inq' = Append(inq, c) /\ link' = "open"
      BY <1>3, <2>1, <2>2 DEF Dispatch, Moni!Issue
    <3> HIDE DEF c
    <3>3. inq' \in Seq(CommandType)
      BY <3>1, <3>2
    <3> QED  BY <3>2, <3>3
  <2>3. CASE link # "open"
    <3>1. UNCHANGED inq
      BY <1>3, <2>3 DEF Dispatch
    <3> QED  BY <2>3, <3>1
  <2> QED  BY <2>2, <2>3
<1>4. CASE MoniRestart
  <2> DEFINE dead == [i \in 1..Len(inq) |-> [inq[i] EXCEPT !.live = FALSE]]
  <2>1. inq' = dead
    BY <1>4 DEF MoniRestart
  <2>2. ASSUME NEW i \in 1..Len(inq)
        PROVE  dead[i] \in CommandType /\ ~dead[i].live
    <3>1. inq[i] \in CommandType /\ dead[i] = [inq[i] EXCEPT !.live = FALSE]
      OBVIOUS
    <3> HIDE DEF dead
    <3> QED  BY <3>1 DEF CommandType
  <2>3. dead \in Seq(CommandType) /\ Len(dead) = Len(inq)
    BY <2>2, IsASeq
  <2> QED  BY <2>1, <2>2, <2>3
<1>5. CASE ServerStep /\ Server!Receive
  <2>1. inq # <<>> /\ inq' = Tail(inq) /\ link' = link
    BY <1>5 DEF ServerStep, Server!Receive
  <2>2. Tail(inq) \in Seq(CommandType) /\ Len(Tail(inq)) = Len(inq) - 1
        /\ \A i \in 1..Len(Tail(inq)) : Tail(inq)[i] = inq[i + 1]
    BY <2>1
  <2> QED  BY <2>1, <2>2
<1>6. CASE ServerCrash
  <2>1. inq' = <<>>
    BY <1>6 DEF ServerCrash, Server!Crash
  <2> QED  BY <2>1
<1>7. ServerStep /\ ~Server!Receive => UNCHANGED <<inq, link>>
  BY DEF ServerStep, Server!ServerProgress, Server!Start, Server!Serve, Server!Spawn
<1>8. ControlStep => UNCHANGED <<inq, link>>
  BY DEF ControlStep, Server!ControlThread, Server!BuildHeader, Server!ControlApplied,
         Server!ControlFails
<1>9. MainAlone => UNCHANGED <<inq, link>>
  BY DEF MainAlone, peerVars, Moni!NoThrottle, Moni!AckReceived, Moni!AckTimeout,
         Moni!CommitCommand, Moni!ClearPending, Moni!GraceStarts, Moni!GraceRuns,
         Moni!NoRestore, Moni!GraceElse
<1>10. Detection => UNCHANGED <<inq, link>>
  BY DEF Detection, peerVars, Moni!Callback, Moni!CellIndication, Moni!UeIndication,
         Moni!CallbackStores, Moni!StoreTarget, Moni!StorePending, Moni!SeverityChanges,
         Moni!UeChanges, Moni!mainVars
<1>11. Tick => UNCHANGED <<inq, link>>
  BY DEF Tick, peerVars, Moni!Tick
<1>12. CASE UNCHANGED vars
  <2>1. UNCHANGED <<inq, link>>
    BY <1>12 DEF vars, Moni!vars, peerVars
  <2> QED  BY <1>1, <2>1
<1> QED
  BY <1>1, <1>2, <1>3, <1>4, <1>5, <1>6, <1>7, <1>8, <1>9, <1>10, <1>11, <1>12
     DEF Next, MoniLoop

LEMMA InitLoopTypes == Init => Loop!TypeOK /\ Loop!ControlInv
  BY InitMaps, LoopAssumptions, Loop!InitTypeOK, Loop!InitControlInv

LEMMA LoopStep ==
  Loop!TypeOK /\ Loop!ControlInv /\ SocketInv /\ [Next]_vars
    => (Loop!TypeOK /\ Loop!ControlInv /\ SocketInv)'
  BY StepMaps, SocketStep, LoopAssumptions, Loop!StepTypeOK, Loop!StepControlInv

-----------------------------------------------------------------------------
(* The composed system implements the monitor's control against any peer:  *)
(* the mitigator connects, replies and ends as MoniControl allows for.     *)
THEOREM ImplementsMoniControl == Spec => Loop!Spec
  BY InitMaps, InitLoopTypes, LoopStep, StepMaps, PTL DEF Spec, Loop!Spec

(* So the handshake's invariant and the throttle cycle hold in the closed  *)
(* loop: THROTTLE and RESTORE alternate with cooldown and grace.           *)
THEOREM SystemKeepsCycle == Spec => []Loop!ControlInv /\ Loop!RefinesThrottleCycle
  BY ImplementsMoniControl, LoopAssumptions, Loop!HandshakeInvariant,
     Loop!ImplementsThrottleCycle, PTL

-----------------------------------------------------------------------------
(* Types of both processes                                                 *)

ThreadType == [prb : {Server!Low, Server!Full}, hdr : UE \cup {NoUe}]

ServerTypes ==
  /\ phase \in {"down", "starting", "serving"}
  /\ gUe \in UE /\ handling \in {Server!NoWork, Server!Low, Server!Full}
  /\ rcs \in Seq(ThreadType) /\ quota \in [UE -> {Server!Low, Server!Full}]
  /\ faults \in 0..MaxFaults

LEMMA RemoveAtType ==
  ASSUME NEW S, NEW s \in Seq(S), NEW i \in 1..Len(s)
  PROVE  Server!RemoveAt(s, i) \in Seq(S) /\ Len(Server!RemoveAt(s, i)) = Len(s) - 1
<1> DEFINE front == SubSeq(s, 1, i - 1)
           rest == SubSeq(s, i + 1, Len(s))
<1>1. front \in Seq(S) /\ Len(front) = i - 1
  OBVIOUS
<1>2. rest \in Seq(S) /\ Len(rest) = Len(s) - i
  OBVIOUS
<1>3. Server!RemoveAt(s, i) = front \o rest
  BY DEF Server!RemoveAt
<1> HIDE DEF front, rest
<1>4. front \o rest \in Seq(S) /\ Len(front \o rest) = Len(front) + Len(rest)
  BY <1>1, <1>2
<1> QED  BY <1>1, <1>2, <1>3, <1>4

LEMMA ControlThreadTypes ==
  ASSUME ServerTypes, NEW i \in 1..Len(rcs), Server!ControlThread(i)
  PROVE  ServerTypes'
<1> USE DEF ServerTypes
<1>1. rcs[i] \in ThreadType
  OBVIOUS
<1>2. CASE Server!BuildHeader(i)
  <2>1. rcs' = [rcs EXCEPT ![i].hdr = gUe] /\ UNCHANGED <<phase, gUe, handling, quota, faults>>
    BY <1>2 DEF Server!BuildHeader
  <2>2. [rcs[i] EXCEPT !.hdr = gUe] \in ThreadType
    BY <1>1 DEF ThreadType
  <2>3. rcs' = [rcs EXCEPT ![i] = [rcs[i] EXCEPT !.hdr = gUe]]
    BY <2>1
  <2>4. rcs' \in Seq(ThreadType)
    BY <2>2, <2>3
  <2> QED  BY <2>1, <2>4
<1>3. CASE Server!ControlApplied(i)
  <2>1. /\ quota' = [quota EXCEPT ![rcs[i].hdr] = rcs[i].prb]
        /\ rcs' = Server!RemoveAt(rcs, i) /\ UNCHANGED <<phase, gUe, handling, faults>>
    BY <1>3 DEF Server!ControlApplied
  <2>2. quota' \in [UE -> {Server!Low, Server!Full}]
    BY <1>1, <2>1 DEF ThreadType
  <2> QED  BY <2>1, <2>2, RemoveAtType
<1>4. CASE Server!ControlFails(i)
  <2>1. /\ faults < MaxFaults /\ faults' = faults + 1
        /\ rcs' = Server!RemoveAt(rcs, i) /\ UNCHANGED <<phase, gUe, handling, quota>>
    BY <1>4 DEF Server!ControlFails
  <2> QED  BY <2>1, RemoveAtType, SystemBoundAssumption
<1> QED  BY <1>2, <1>3, <1>4 DEF Server!ControlThread

LEMMA ServerTypesStep == SocketInv /\ ServerTypes /\ [Next]_vars => ServerTypes'
<1> SUFFICES ASSUME SocketInv, ServerTypes, [Next]_vars PROVE ServerTypes'
  OBVIOUS
<1> DEFINE mine == <<phase, gUe, handling, rcs, quota, faults>>
<1>1. CASE UNCHANGED mine
  BY <1>1 DEF ServerTypes
<1>2. CASE Server!Start \/ Server!Serve
  BY <1>2, SystemUeAssumption DEF Server!Start, Server!Serve, ServerTypes
<1>3. CASE Server!Receive
  <2>1. Head(inq) \in CommandType /\ gUe' = Head(inq).ue
        /\ handling' = Server!PrbLimit(Head(inq).act) /\ UNCHANGED <<phase, rcs, quota, faults>>
    BY <1>3 DEF Server!Receive, SocketInv
  <2> QED  BY <2>1 DEF Server!PrbLimit, CommandType, ServerTypes
<1>4. CASE Server!Spawn
  <2>1. /\ rcs' = Append(rcs, [prb |-> handling, hdr |-> NoUe]) /\ handling' = Server!NoWork
        /\ handling # Server!NoWork /\ UNCHANGED <<phase, gUe, quota, faults>>
    BY <1>4 DEF Server!Spawn
  <2>2. [prb |-> handling, hdr |-> NoUe] \in ThreadType
    BY <2>1 DEF ServerTypes, ThreadType
  <2>3. rcs' \in Seq(ThreadType)
    BY <2>1, <2>2 DEF ServerTypes
  <2> QED  BY <2>1, <2>3 DEF ServerTypes
<1>5. CASE ControlStep
  BY <1>5, ControlThreadTypes DEF ControlStep
<1>6. CASE ServerCrash
  BY <1>6, SystemBoundAssumption DEF ServerCrash, Server!Crash, ServerTypes
<1>7. MoniLoop \/ Detection \/ MoniRestart \/ UNCHANGED vars => UNCHANGED mine
  BY DEF MoniLoop, Tick, Connect, Dispatch, MainAlone, Detection, MoniRestart, peerVars, vars
<1> QED
  BY <1>1, <1>2, <1>3, <1>4, <1>5, <1>6, <1>7 DEF Next, ServerStep, Server!ServerProgress

LEMMA InitServerTypes == Init => ServerTypes
  BY SystemUeAssumption, SystemBoundAssumption DEF Init, Server!Init, ServerTypes

(* The types of both processes, the socket and the gNB.                    *)
THEOREM SystemTypes == Spec => []SystemTypeOK
<1>1. Loop!TypeOK /\ SocketInv /\ ServerTypes => SystemTypeOK
  <2> SUFFICES ASSUME Loop!TypeOK, SocketInv, ServerTypes PROVE SystemTypeOK
    OBVIOUS
  <2>1. Moni!TypeOK
    BY DEF Loop!TypeOK, Moni!TypeOK, Loop!Actions, Moni!Actions, Loop!NoTimer, Moni!NoTimer
  <2>2. Server!TypeOK
    BY DEF Server!TypeOK, ServerTypes, SocketInv, CommandType, ThreadType, Loop!TypeOK,
           Loop!Actions
  <2> QED  BY <2>1, <2>2 DEF SystemTypeOK
<1> QED
  BY <1>1, InitMaps, InitLoopTypes, InitServerTypes, LoopStep, ServerTypesStep, PTL DEF Spec

-----------------------------------------------------------------------------
(* A mitigator that is prompt and does not fail                            *)

\* Of the monitor's last command, unless it was a process before this one's.
Asks(prb, u) == cmd.act # "none" => prb = Server!PrbLimit(cmd.act) /\ u = cmd.ue

(* At most one command is on its way: in the socket, acknowledged, or with *)
(* its control thread.                                                     *)
Arrived == Server!Settled /\ (cmd.act # "none" => quota[cmd.ue] = Server!PrbLimit(cmd.act))
InSocket ==
  /\ Len(inq) = 1 /\ handling = Server!NoWork /\ rcs = <<>>
  /\ Asks(Server!PrbLimit(inq[1].act), inq[1].ue)
InHand == inq = <<>> /\ handling # Server!NoWork /\ rcs = <<>> /\ Asks(handling, gUe)
InThread ==
  /\ inq = <<>> /\ handling = Server!NoWork /\ Len(rcs) = 1
  /\ rcs[1].hdr \in {NoUe, gUe} /\ Asks(rcs[1].prb, gUe)
OneOnItsWay == Arrived \/ InSocket \/ InHand \/ InThread

(* The main loop sends only where the one before has arrived: its sleep    *)
(* comes between, or, for a RESTORE after a THROTTLE, the grace timer that *)
(* the THROTTLE has reset.                                                 *)
SendsWhenSettled ==
  /\ pc \in {"connect", "dispatch"} => Server!Settled
  /\ pc = "clear" => sev0Age = Moni!NoTimer
  /\ pc = "grace" /\ sev0Age # Moni!NoTimer => Server!Settled

PromptInv == phase = "serving" /\ link = "open" /\ SendsWhenSettled /\ OneOnItsWay

LEMMA InitPrompt == Init => PromptInv
<1> SUFFICES ASSUME Init PROVE PromptInv
  OBVIOUS
<1>1. Server!Settled /\ cmd.act = "none" /\ pc = "sleep" /\ phase = "serving" /\ link = "open"
  BY DEF Init, Server!Init, Moni!Init, Moni!NoCmd, Server!Settled
<1> QED  BY <1>1 DEF PromptInv, SendsWhenSettled, OneOnItsWay, Arrived

\* The steps that leave commands and gNB alone.
LEMMA QuietStep ==
  ASSUME PromptInv, UNCHANGED <<phase, link, inq, gUe, handling, rcs, quota, cmd>>,
         SendsWhenSettled'
  PROVE  PromptInv'
  BY DEF PromptInv, OneOnItsWay, Arrived, InSocket, InHand, InThread, Asks, Server!Settled

LEMMA LoopPrompt ==
  ASSUME Prompt, PromptInv, Tick \/ Connect \/ MainAlone
  PROVE  PromptInv'
<1>1. CASE Tick
  <2>1. /\ UNCHANGED <<phase, link, inq, gUe, handling, rcs, quota, cmd>>
        /\ Server!Settled /\ pc' \in {"connect", "await"}
    BY <1>1 DEF Tick, PromptInv, peerVars, Moni!Tick
  <2>2. SendsWhenSettled'
    BY <2>1 DEF SendsWhenSettled, Server!Settled
  <2> QED  BY <2>1, <2>2, QuietStep
<1>2. CASE Connect
  <2>1. /\ UNCHANGED <<phase, link, inq, gUe, handling, rcs, quota, cmd>>
        /\ pc = "connect" /\ pc' = "dispatch"
    BY <1>2 DEF Connect, PromptInv, peerVars, Moni!Connect
  <2>2. SendsWhenSettled'
    BY <2>1 DEF PromptInv, SendsWhenSettled, Server!Settled
  <2> QED  BY <2>1, <2>2, QuietStep
<1>3. CASE MainAlone
  <2>1. UNCHANGED <<phase, link, inq, gUe, handling, rcs, quota, cmd>>
    BY <1>3 DEF MainAlone, peerVars, Moni!NoThrottle, Moni!AckReceived, Moni!AckTimeout,
         Moni!CommitCommand, Moni!ClearPending, Moni!GraceStarts, Moni!GraceRuns,
         Moni!NoRestore, Moni!GraceElse
  <2>2. \/ pc = "dispatch" /\ pc' = "grace" /\ UNCHANGED sev0Age
        \/ pc' = "clear" /\ sev0Age' = Moni!NoTimer
        \/ pc = "clear" /\ pc' \in {"grace", "sleep"} /\ UNCHANGED sev0Age
        \/ pc' \in {"commit", "sleep", "graceElse"}
    BY <1>3 DEF MainAlone, Moni!NoThrottle, Moni!AckReceived, Moni!AckTimeout,
         Moni!CommitCommand, Moni!ClearPending, Moni!GraceStarts, Moni!GraceRuns,
         Moni!NoRestore, Moni!GraceElse, Moni!EndIteration
  <2>3. SendsWhenSettled'
    BY <2>1, <2>2 DEF PromptInv, SendsWhenSettled, Server!Settled
  <2> QED  BY <2>1, <2>3, QuietStep
<1> QED  BY <1>1, <1>2, <1>3

LEMMA DetectionPrompt ==
  ASSUME PromptInv, Detection
  PROVE  PromptInv'
<1>1. UNCHANGED <<phase, link, inq, gUe, handling, rcs, quota, cmd, pc, sev0Age>>
  BY DEF Detection, peerVars, Moni!Callback, Moni!CellIndication, Moni!UeIndication,
         Moni!CallbackStores, Moni!StoreTarget, Moni!StorePending, Moni!SeverityChanges,
         Moni!UeChanges, Moni!mainVars
<1>2. SendsWhenSettled'
  BY <1>1 DEF PromptInv, SendsWhenSettled, Server!Settled
<1> QED  BY <1>1, <1>2, QuietStep

LEMMA DispatchPrompt ==
  ASSUME Loop!TypeOK, PromptInv, Dispatch
  PROVE  PromptInv'
<1>1. PICK act \in {"THROTTLE", "RESTORE"} : Moni!Issue(act)
  BY DEF Dispatch, Moni!DispatchThrottle, Moni!DispatchRestore
<1>2. Server!Settled
  BY DEF Dispatch, Moni!DispatchThrottle, Moni!DispatchRestore, PromptInv, SendsWhenSettled
<1> DEFINE c == [act |-> cmd'.act, ue |-> cmd'.ue, live |-> TRUE]
<1>3. /\ inq' = Append(<<>>, c) /\ link' = "open" /\ pc' = "await"
      /\ UNCHANGED <<phase, gUe, handling, rcs, quota>>
  BY <1>1, <1>2 DEF Dispatch, Moni!Issue, PromptInv, Server!Settled
<1>4. c.act = cmd'.act /\ c.ue = cmd'.ue
  OBVIOUS
<1> HIDE DEF c
<1>5. Len(inq') = 1 /\ inq'[1] = c
  BY <1>3
<1>6. InSocket'
  BY <1>2, <1>3, <1>4, <1>5 DEF InSocket, Asks, Server!Settled, Server!PrbLimit, Server!Full,
     Server!Low, Server!NoWork
<1>7. SendsWhenSettled'
  BY <1>3 DEF SendsWhenSettled
<1> QED  BY <1>3, <1>6, <1>7 DEF PromptInv, OneOnItsWay

LEMMA RestartPrompt ==
  ASSUME SocketInv, PromptInv, MoniRestart
  PROVE  PromptInv'
<1>1. /\ UNCHANGED <<phase, gUe, handling, rcs, quota>> /\ link' = "open"
      /\ cmd'.act = "none" /\ pc' = "sleep"
  BY DEF MoniRestart, Moni!Restart, Moni!NoCmd, PromptInv, Listening
<1> DEFINE dead == [i \in 1..Len(inq) |-> [inq[i] EXCEPT !.live = FALSE]]
<1>2. inq' = dead
  BY DEF MoniRestart
<1>3. Len(dead) = Len(inq)
  BY DEF SocketInv
<1>4. Len(inq) = 0 => dead = <<>>
  BY <1>3, SocketInv DEF SocketInv
<1> HIDE DEF dead
<1>5. SendsWhenSettled'
  BY <1>1 DEF SendsWhenSettled
<1>6. OneOnItsWay'
  BY <1>1, <1>2, <1>3, <1>4 DEF PromptInv, OneOnItsWay, Arrived, InSocket, InHand, InThread,
     Asks, Server!Settled
<1> QED  BY <1>1, <1>5, <1>6 DEF PromptInv

LEMMA ServerPrompt ==
  ASSUME SocketInv, ServerTypes, PromptInv, ServerStep
  PROVE  PromptInv'
<1> USE DEF Server!NoWork, Server!Low, Server!Full
<1>1. UNCHANGED <<pc, sev0Age, cmd, link>>
  BY DEF ServerStep, moniRest
<1>2. CASE Server!Start \/ Server!Serve
  BY <1>2 DEF Server!Start, Server!Serve, PromptInv
<1>3. CASE Server!Receive
  <2>1. InSocket
    BY <1>3 DEF Server!Receive, PromptInv, OneOnItsWay, Arrived, InHand, InThread, Server!Settled
  <2>2. /\ Head(inq) = inq[1] /\ Tail(inq) = <<>> /\ handling' = Server!PrbLimit(inq[1].act)
        /\ gUe' = inq[1].ue /\ inq' = Tail(inq) /\ UNCHANGED <<phase, rcs, quota>>
    BY <1>3, <2>1 DEF Server!Receive, InSocket, SocketInv
  <2>3. InHand'
    BY <1>1, <2>1, <2>2 DEF InSocket, InHand, Asks, Server!PrbLimit
  <2>4. ~Server!Settled
    BY <1>3 DEF Server!Receive, Server!Settled
  <2>5. SendsWhenSettled'
    BY <1>1, <2>4 DEF PromptInv, SendsWhenSettled
  <2> QED  BY <1>1, <2>2, <2>3, <2>5 DEF PromptInv, OneOnItsWay
<1>4. CASE Server!Spawn
  <2>1. InHand
    BY <1>4 DEF Server!Spawn, PromptInv, OneOnItsWay, Arrived, InSocket, InThread, Server!Settled
  <2> DEFINE th == [prb |-> handling, hdr |-> NoUe]
  <2>2. rcs' = Append(<<>>, th) /\ handling' = Server!NoWork /\ UNCHANGED <<phase, inq, gUe, quota>>
    BY <1>4, <2>1 DEF Server!Spawn, InHand
  <2>3. th.prb = handling /\ th.hdr = NoUe
    OBVIOUS
  <2> HIDE DEF th
  <2>4. Len(rcs') = 1 /\ rcs'[1] = th
    BY <2>2
  <2>5. InThread'
    BY <1>1, <2>1, <2>2, <2>3, <2>4 DEF InHand, InThread, Asks, Server!PrbLimit
  <2>6. ~Server!Settled
    BY <1>4 DEF Server!Spawn, Server!Settled
  <2>7. SendsWhenSettled'
    BY <1>1, <2>6 DEF PromptInv, SendsWhenSettled
  <2> QED  BY <1>1, <2>2, <2>5, <2>7 DEF PromptInv, OneOnItsWay
<1> QED  BY <1>2, <1>3, <1>4 DEF ServerStep, Server!ServerProgress

LEMMA ControlPrompt ==
  ASSUME MaxFaults = 0, Loop!TypeOK, ServerTypes, PromptInv, ControlStep
  PROVE  PromptInv'
<1> PICK i \in 1..Len(rcs) : Server!ControlThread(i)
  BY DEF ControlStep
<1>a. rcs # <<>> /\ rcs[i] \in ThreadType
  BY DEF ServerTypes
<1>b. InThread
  BY <1>a DEF PromptInv, OneOnItsWay, Arrived, InSocket, InHand, Server!Settled
<1>c. i = 1
  BY <1>b DEF InThread
<1>1. InThread /\ i = 1 /\ rcs[1] \in ThreadType
  BY <1>a, <1>b, <1>c
<1>2. UNCHANGED <<pc, sev0Age, cmd, link>>
  BY DEF ControlStep, moniRest
<1>3. CASE Server!BuildHeader(i)
  <2>1. rcs' = [rcs EXCEPT ![1].hdr = gUe] /\ UNCHANGED <<phase, inq, gUe, handling, quota>>
    BY <1>1, <1>3 DEF Server!BuildHeader
  <2>2. Len(rcs') = 1 /\ rcs'[1].hdr = gUe /\ rcs'[1].prb = rcs[1].prb
    BY <1>1, <2>1 DEF InThread, ThreadType, ServerTypes
  <2>3. InThread'
    BY <1>1, <1>2, <2>1, <2>2 DEF InThread, Asks, Server!PrbLimit, Server!NoWork
  <2>4. ~Server!Settled
    BY <1>a DEF Server!Settled
  <2>5. SendsWhenSettled'
    BY <1>2, <2>4 DEF PromptInv, SendsWhenSettled
  <2> QED  BY <1>2, <2>1, <2>3, <2>5 DEF PromptInv, OneOnItsWay
<1>4. CASE Server!ControlApplied(i)
  <2>1. /\ quota' = [quota EXCEPT ![rcs[1].hdr] = rcs[1].prb] /\ rcs[1].hdr = gUe
        /\ rcs' = Server!RemoveAt(rcs, 1) /\ UNCHANGED <<phase, inq, gUe, handling>>
    BY <1>1, <1>4 DEF Server!ControlApplied, InThread
  <2>2. rcs' = <<>>
    <3>1. rcs' \in Seq(ThreadType) /\ Len(rcs') = Len(rcs) - 1
      BY <1>1, <2>1, RemoveAtType DEF ServerTypes
    <3>2. Len(rcs') = 0
      BY <1>1, <3>1 DEF InThread
    <3> QED  BY <3>1, <3>2, EmptySeq
  <2>3. quota'[gUe] = rcs[1].prb
    BY <2>1 DEF ServerTypes
  <2>4. Arrived'
    BY <1>1, <1>2, <2>1, <2>2, <2>3 DEF Arrived, InThread, Asks, Server!Settled, Server!PrbLimit
  <2>5. ~Server!Settled /\ Server!Settled'
    BY <1>a, <2>4 DEF Arrived, Server!Settled
  <2>6. SendsWhenSettled'
    BY <1>2, <2>5 DEF PromptInv, SendsWhenSettled
  <2> QED  BY <1>2, <2>1, <2>4, <2>6 DEF PromptInv, OneOnItsWay
<1>5. ~Server!ControlFails(i)
  BY DEF Server!ControlFails, ServerTypes
<1> QED  BY <1>3, <1>4, <1>5 DEF Server!ControlThread

LEMMA PromptStep ==
  ASSUME Prompt, MaxFaults = 0
  PROVE  Loop!TypeOK /\ SocketInv /\ ServerTypes /\ PromptInv /\ [Next]_vars => PromptInv'
<1> SUFFICES ASSUME Loop!TypeOK, SocketInv, ServerTypes, PromptInv, [Next]_vars
             PROVE  PromptInv'
  OBVIOUS
<1>1. CASE UNCHANGED vars
  <2>1. UNCHANGED <<phase, link, inq, gUe, handling, rcs, quota, cmd, pc, sev0Age>>
    BY <1>1 DEF vars, Moni!vars, peerVars
  <2>2. SendsWhenSettled'
    BY <2>1 DEF PromptInv, SendsWhenSettled, Server!Settled
  <2> QED  BY <2>1, <2>2, QuietStep
<1>2. ~ServerCrash
  BY DEF ServerCrash, Server!Crash, ServerTypes
<1> QED
  BY <1>1, <1>2, LoopPrompt, DetectionPrompt, DispatchPrompt, RestartPrompt, ServerPrompt,
     ControlPrompt DEF Next, MoniLoop

(* With a mitigator that finishes each command before the monitor's next   *)
(* iteration and does not fail, the gNB has what the monitor last asked    *)
(* for, whenever nothing is on its way to it: for any UEs, timings,        *)
(* detections, late replies and restarts of the monitor.                   *)
THEOREM PromptMitigatorObeys ==
  ASSUME Prompt, MaxFaults = 0
  PROVE  Spec => []LastCommandInForce
<1>1. PromptInv => LastCommandInForce
  BY DEF PromptInv, OneOnItsWay, Arrived, InSocket, InHand, InThread, LastCommandInForce,
     Server!Settled
<1>2. Loop!TypeOK /\ SocketInv /\ ServerTypes /\ PromptInv /\ [Next]_vars => PromptInv'
  BY PromptStep
<1> QED
  BY <1>1, <1>2, InitPrompt, InitMaps, InitLoopTypes, InitServerTypes, LoopStep,
     ServerTypesStep, PTL DEF Spec
===============================================================================
