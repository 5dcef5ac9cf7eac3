-------------------------- MODULE MoniControlProofs --------------------------
(***************************************************************************)
(* What MoniControl guarantees for every set of UEs and every length of    *)
(* the cooldown, the grace period and the ACK wait: its type invariant,    *)
(* the inductive invariant ControlInv of the unlocked handshake, and that  *)
(* it implements ThrottleCycle.                                            *)
(***************************************************************************)
EXTENDS MoniControl, TLAPS

LEMMA InitTypeOK == Init => TypeOK
<1> SUFFICES ASSUME Init PROVE TypeOK
  OBVIOUS
<1>1. /\ NoCmd \in [act : Actions \cup {"none"}, ue : UE \cup {NoUe}]
      /\ Idle \in [op : {"idle", "throttle", "restore"}, ue : UE \cup {NoUe}]
      /\ <<>> \in Seq(Actions)
  BY DEF NoCmd, Idle
<1>2. /\ sinceCmd \in 0..(Cooldown + 1) /\ sinceUeAlert \in 0..UeCalm
      /\ sev0Age \in NoTimer..Cooldown /\ iterAge \in 0..AckTicks
      /\ restarts \in 0..MaxRestarts
  BY TimeAssumption, BoundAssumption DEF Init, NoTimer
<1>3. active \in BOOLEAN /\ target \in UE /\ ueAttack \in SUBSET UE
  BY UeAssumption DEF Init
<1>4. /\ pending \in 0..2 /\ severity \in 0..2
      /\ pc \in {"sleep", "connect", "dispatch", "await", "commit", "clear",
                 "grace", "graceElse"}
      /\ link \in {"none", "open", "broken"}
  BY DEF Init
<1>5. /\ cmd \in [act : Actions \cup {"none"}, ue : UE \cup {NoUe}]
      /\ cb \in [op : {"idle", "throttle", "restore"}, ue : UE \cup {NoUe}]
      /\ acks \in Seq(Actions)
  BY <1>1 DEF Init
<1>6. QED
  BY <1>2, <1>3, <1>4, <1>5 DEF TypeOK

\* The main loop's steps keep the types.
LEMMA MainLoopTypeOK == TypeOK /\ MainLoop => TypeOK'
<1> SUFFICES ASSUME TypeOK, MainLoop PROVE TypeOK'
  OBVIOUS
<1> USE UeAssumption, TimeAssumption, BoundAssumption
    DEF TypeOK, NoTimer, Actions, threat
<1>1. CASE Tick
  BY <1>1 DEF Tick, Older
<1>2. CASE Connect
  BY <1>2 DEF Connect
<1>3. CASE DispatchThrottle
  BY <1>3 DEF DispatchThrottle, Issue
<1>4. CASE NoThrottle
  BY <1>4 DEF NoThrottle
<1>5. CASE AckReceived
  BY <1>5 DEF AckReceived
<1>6. CASE AckTimeout
  BY <1>6 DEF AckTimeout
<1>7. CASE CommitCommand
  BY <1>7 DEF CommitCommand
<1>8. CASE ClearPending
  BY <1>8 DEF ClearPending
<1>9. CASE GraceStarts
  BY <1>9 DEF GraceStarts, EndIteration
<1>10. CASE GraceRuns
  BY <1>10 DEF GraceRuns, EndIteration
<1>11. CASE DispatchRestore
  BY <1>11 DEF DispatchRestore, Issue
<1>12. CASE NoRestore
  BY <1>12 DEF NoRestore
<1>13. CASE GraceElse
  BY <1>13 DEF GraceElse, EndIteration
<1>14. QED
  BY <1>1, <1>2, <1>3, <1>4, <1>5, <1>6, <1>7, <1>8, <1>9, <1>10, <1>11, <1>12,
     <1>13 DEF MainLoop, MainStep

\* So do the callbacks' steps.
LEMMA CallbackTypeOK == TypeOK /\ Callback => TypeOK'
<1> SUFFICES ASSUME TypeOK, Callback PROVE TypeOK'
  OBVIOUS
<1> USE UeAssumption, TimeAssumption DEF TypeOK, threat, mainVars
<1>1. CASE CellIndication
  BY <1>1 DEF CellIndication, CellRequest
<1>2. ASSUME NEW u \in UE, NEW alert \in BOOLEAN, UeIndication(u, alert)
      PROVE TypeOK'
  BY <1>2 DEF UeIndication, Idle
<1>3. CASE StoreTarget
  BY <1>3 DEF StoreTarget
<1>4. CASE StorePending
  BY <1>4 DEF StorePending, Idle
<1>5. QED
  BY <1>1, <1>2, <1>3, <1>4 DEF Callback, CallbackStores

\* And what happens around the process.
LEMMA EnvironmentTypeOK == TypeOK /\ Environment => TypeOK'
<1> SUFFICES ASSUME TypeOK, Environment PROVE TypeOK'
  OBVIOUS
<1> USE UeAssumption, TimeAssumption, BoundAssumption
    DEF TypeOK, threat, mainVars
<1>1. CASE SeverityChanges
  BY <1>1 DEF SeverityChanges
<1>2. ASSUME NEW u \in UE, UeChanges(u) PROVE TypeOK'
  BY <1>2 DEF UeChanges
<1>3. ASSUME NEW act \in Actions, PeerReplies(act) PROVE TypeOK'
  BY <1>3 DEF PeerReplies
<1>4. CASE PeerGone
  BY <1>4 DEF PeerGone
<1>5. CASE Restart
  <2>1. /\ NoCmd \in [act : Actions \cup {"none"}, ue : UE \cup {NoUe}]
        /\ Idle \in [op : {"idle", "throttle", "restore"}, ue : UE \cup {NoUe}]
        /\ <<>> \in Seq(Actions)
    BY DEF NoCmd, Idle
  <2>2. /\ sinceCmd' \in 0..(Cooldown + 1) /\ sinceUeAlert' \in 0..UeCalm
        /\ sev0Age' \in NoTimer..Cooldown /\ iterAge' \in 0..AckTicks
        /\ restarts' \in 0..MaxRestarts
    BY <1>5 DEF Restart, NoTimer
  <2>3. active' \in BOOLEAN /\ target' \in UE
    BY <1>5 DEF Restart
  <2>4. /\ cmd' \in [act : Actions \cup {"none"}, ue : UE \cup {NoUe}]
        /\ cb' \in [op : {"idle", "throttle", "restore"}, ue : UE \cup {NoUe}]
        /\ acks' \in Seq(Actions)
    BY <1>5, <2>1 DEF Restart
  <2>5. pending' \in 0..2 /\ link' \in {"none", "open", "broken"} /\ pc' = "sleep"
    BY <1>5 DEF Restart
  <2>6. QED
    BY <1>5, <2>2, <2>3, <2>4, <2>5 DEF Restart
<1>6. QED
  BY <1>1, <1>2, <1>3, <1>4, <1>5 DEF Environment

LEMMA StepTypeOK == TypeOK /\ [Next]_vars => TypeOK'
<1> SUFFICES ASSUME TypeOK, [Next]_vars PROVE TypeOK'
  OBVIOUS
<1>1. CASE UNCHANGED vars
  BY <1>1 DEF TypeOK, vars
<1>2. QED
  BY <1>1, MainLoopTypeOK, CallbackTypeOK, EnvironmentTypeOK DEF Next

(* Type correctness of the control state. *)
THEOREM TypeCorrect == Spec => []TypeOK
  BY InitTypeOK, StepTypeOK, PTL DEF Spec

-----------------------------------------------------------------------------
LEMMA InitControlInv == Init => ControlInv
<1> SUFFICES ASSUME Init PROVE ControlInv
  OBVIOUS
<1>1. cmd.act = "none" /\ cb.op = "idle"
  BY DEF Init, NoCmd, Idle
<1>2. QED
  BY <1>1, TimeAssumption
  DEF Init, ControlInv, MainAgrees, TimerOfThisThrottle, NoLeftoverRequest,
      Sending, NoTimer

\* Time passes: a running grace timer never overtakes the age of its throttle.
LEMMA TickControlInv == TypeOK /\ ControlInv /\ Tick => ControlInv'
<1> SUFFICES ASSUME TypeOK, ControlInv, Tick PROVE ControlInv'
  OBVIOUS
<1> USE TimeAssumption DEF Tick, Older, TypeOK, NoTimer, Sending
<1>1. MainAgrees'
  BY DEF ControlInv, MainAgrees
<1>2. TimerOfThisThrottle'
  BY DEF ControlInv, TimerOfThisThrottle, MainAgrees
<1>3. NoLeftoverRequest'
  BY DEF ControlInv, NoLeftoverRequest
<1>4. QED
  BY <1>1, <1>2, <1>3 DEF ControlInv

\* The main loop's other steps.
LEMMA MainLoopControlInv == TypeOK /\ ControlInv /\ MainLoop => ControlInv'
<1> SUFFICES ASSUME TypeOK, ControlInv, MainLoop PROVE ControlInv'
  OBVIOUS
<1> USE DEF ControlInv, MainAgrees, TimerOfThisThrottle, NoLeftoverRequest,
            Sending, NoTimer
<1>1. CASE Tick
  BY <1>1, TickControlInv
<1>2. CASE Connect
  BY <1>2 DEF Connect
<1>3. CASE DispatchThrottle
  <2>1. /\ pending' = 1 /\ ~active' /\ cmd'.act = "THROTTLE"
        /\ pc' \in {"await", "commit"}
        /\ UNCHANGED <<sev0Age, sinceCmd, iterAge, cb>>
    BY <1>3 DEF DispatchThrottle, ThrottleDue, Issue
  <2>2. cb.op # "restore" /\ pc = "dispatch" /\ ~active
    BY <1>3 DEF DispatchThrottle, ThrottleDue
  <2>3. QED
    BY <2>1, <2>2 DEF Actions
<1>4. CASE NoThrottle
  BY <1>4 DEF NoThrottle, TypeOK
<1>5. CASE AckReceived
  BY <1>5 DEF AckReceived
<1>6. CASE AckTimeout
  BY <1>6 DEF AckTimeout
<1>7. CASE CommitCommand
  <2>1. /\ sinceCmd' = iterAge /\ sev0Age' = -1 /\ pc = "commit" /\ pc' = "clear"
        /\ UNCHANGED <<pending, cmd, cb, iterAge>>
    BY <1>7 DEF CommitCommand
  <2>2. iterAge \in Int /\ sinceCmd \in Int
    BY TimeAssumption DEF TypeOK
  <2>3. CASE cmd.act = "THROTTLE"
    <3>1. active' /\ ~active /\ pending # 2
      BY <1>7, <2>1, <2>3 DEF CommitCommand
    <3>2. QED
      BY <2>1, <2>2, <2>3, <3>1 DEF Actions
  <2>4. CASE cmd.act = "RESTORE"
    <3>1. ~active' /\ active /\ pending = 2
      BY <1>7, <2>1, <2>4 DEF CommitCommand
    <3>2. QED
      BY <2>1, <2>2, <2>4, <3>1 DEF Actions
  <2>5. QED
    BY <2>1, <2>3, <2>4 DEF Actions
<1>8. CASE ClearPending
  <2>1. CASE cmd.act = "THROTTLE"
    BY <1>8, <2>1 DEF ClearPending
  <2>2. CASE cmd.act # "THROTTLE"
    <3>1. 0 <= sinceCmd
      BY TimeAssumption DEF TypeOK
    <3>2. QED
      BY <1>8, <2>2, <3>1 DEF ClearPending
  <2>3. QED
    BY <2>1, <2>2
<1>9. CASE GraceStarts
  <2>1. 0 <= sinceCmd /\ iterAge <= sinceCmd
    BY <1>9, TimeAssumption DEF TypeOK, GraceStarts
  <2>2. QED
    BY <1>9, <2>1 DEF GraceStarts, EndIteration
<1>10. CASE GraceRuns
  <2>1. 0 <= sinceCmd
    BY TimeAssumption DEF TypeOK
  <2>2. QED
    BY <1>10, <2>1 DEF GraceRuns, EndIteration
<1>11. CASE DispatchRestore
  <2>1. /\ pending' = 2 /\ active' /\ cmd'.act = "RESTORE" /\ pc = "grace" /\ active
        /\ pc' \in {"await", "commit"}
        /\ UNCHANGED <<sev0Age, sinceCmd, iterAge, cb, pending, active>>
    BY <1>11 DEF DispatchRestore, Issue
  <2>2. QED
    BY <2>1 DEF Actions
<1>12. CASE NoRestore
  BY <1>12 DEF NoRestore
<1>13. CASE GraceElse
  <2>1. 0 <= sinceCmd
    BY TimeAssumption DEF TypeOK
  <2>2. QED
    BY <1>13, <2>1 DEF GraceElse, EndIteration
<1>14. QED
  BY <1>1, <1>2, <1>3, <1>4, <1>5, <1>6, <1>7, <1>8, <1>9, <1>10, <1>11, <1>12,
     <1>13 DEF MainLoop, MainStep

\* The callbacks' steps: a decision taken before the main loop moved on is
\* stored only where it does no harm.
LEMMA CallbackControlInv == TypeOK /\ ControlInv /\ Callback => ControlInv'
<1> SUFFICES ASSUME TypeOK, ControlInv, Callback PROVE ControlInv'
  OBVIOUS
<1> USE DEF ControlInv, MainAgrees, TimerOfThisThrottle, NoLeftoverRequest,
            Sending, mainVars
<1>1. CASE CellIndication
  <2>1. cb' = [op |-> CellRequest, ue |-> NoUe] /\ UNCHANGED <<mainVars, pending>>
    BY <1>1 DEF CellIndication
  <2>2. /\ CellRequest = "throttle" => ~active
        /\ CellRequest = "restore" => active
    BY DEF CellRequest
  <2>3. QED
    BY <2>1, <2>2
<1>2. ASSUME NEW u \in UE, NEW alert \in BOOLEAN, UeIndication(u, alert)
      PROVE ControlInv'
  <2>1. cb'.op # "restore" /\ (cb'.op = "throttle" => ~active)
    BY <1>2 DEF UeIndication, Idle
  <2>2. QED
    BY <1>2, <2>1 DEF UeIndication
<1>3. CASE StoreTarget
  <2>1. cb'.op = cb.op
    BY <1>3 DEF StoreTarget, TypeOK
  <2>2. QED
    BY <1>3, <2>1 DEF StoreTarget
<1>4. CASE StorePending
  <2>1. /\ cb'.op = "idle" /\ UNCHANGED mainVars
        /\ pending' = IF cb.op = "throttle" THEN 1 ELSE 2
    BY <1>4 DEF StorePending, Idle
  <2>2. cb.op \in {"throttle", "restore"}
    BY <1>4 DEF StorePending, TypeOK
  <2>3. QED
    BY <2>1, <2>2 DEF Actions
<1>5. QED
  BY <1>1, <1>2, <1>3, <1>4 DEF Callback, CallbackStores

LEMMA EnvironmentControlInv == TypeOK /\ ControlInv /\ Environment => ControlInv'
<1> SUFFICES ASSUME TypeOK, ControlInv, Environment PROVE ControlInv'
  OBVIOUS
<1> USE DEF ControlInv, MainAgrees, TimerOfThisThrottle, NoLeftoverRequest,
            Sending, mainVars
<1>1. CASE SeverityChanges
  BY <1>1 DEF SeverityChanges
<1>2. ASSUME NEW u \in UE, UeChanges(u) PROVE ControlInv'
  BY <1>2 DEF UeChanges
<1>3. ASSUME NEW act \in Actions, PeerReplies(act) PROVE ControlInv'
  BY <1>3 DEF PeerReplies
<1>4. CASE PeerGone
  BY <1>4 DEF PeerGone
<1>5. CASE Restart
  <2>1. /\ ~active' /\ pc' = "sleep" /\ iterAge' = 0 /\ sev0Age' = NoTimer
        /\ cmd'.act = "none" /\ cb'.op = "idle" /\ sinceCmd' = Cooldown + 1
    BY <1>5 DEF Restart, NoCmd, Idle
  <2>2. QED
    BY <2>1, TimeAssumption DEF NoTimer
<1>6. QED
  BY <1>1, <1>2, <1>3, <1>4, <1>5 DEF Environment

LEMMA StepControlInv == TypeOK /\ ControlInv /\ [Next]_vars => ControlInv'
<1> SUFFICES ASSUME TypeOK, ControlInv, [Next]_vars PROVE ControlInv'
  OBVIOUS
<1>1. CASE UNCHANGED vars
  BY <1>1 DEF vars, ControlInv, MainAgrees, TimerOfThisThrottle,
     NoLeftoverRequest, Sending
<1>2. QED
  BY <1>1, MainLoopControlInv, CallbackControlInv, EnvironmentControlInv DEF Next

(* The handshake invariant: the main loop's place agrees with               *)
(* g_throttle_active, g_sev0_since_ms belongs to the throttle that is on,   *)
(* and no request outlives the cycle it was made for.                       *)
THEOREM HandshakeInvariant == Spec => []ControlInv
<1>1. Init => TypeOK /\ ControlInv
  BY InitTypeOK, InitControlInv
<1>2. TypeOK /\ ControlInv /\ [Next]_vars => (TypeOK /\ ControlInv)'
  BY StepTypeOK, StepControlInv
<1>3. QED
  BY <1>1, <1>2, PTL DEF Spec

-----------------------------------------------------------------------------
LEMMA InitCycle == Init => Cycle!Init
<1> SUFFICES ASSUME Init PROVE Cycle!Init
  OBVIOUS
<1>1. CyclePhase = "open" /\ CycleAge = Cooldown + 1 /\ CycleCalm = FALSE
  BY DEF Init, NoCmd, Sending, CyclePhase, CycleAge, CycleCalm
<1>2. QED
  BY <1>1 DEF Cycle!Init

\* Steps that leave all three alone.
LEMMA CycleStutters ==
  ASSUME UNCHANGED <<CyclePhase, CycleAge, CycleCalm>>
  PROVE  [Cycle!Next]_(Cycle!vars)
  BY DEF Cycle!vars

LEMMA TickCycle ==
  ASSUME TypeOK, Tick PROVE [Cycle!Next]_(Cycle!vars)
<1> USE TimeAssumption DEF Tick, Older, TypeOK, Sending
<1>1. UNCHANGED <<CyclePhase, CycleCalm>>
  BY DEF CyclePhase, CycleCalm
<1>2. CycleAge' = IF CycleAge <= Cooldown THEN CycleAge + 1 ELSE CycleAge
  BY DEF CycleAge
<1>3. QED
  BY <1>1, <1>2 DEF Cycle!Next, Cycle!Tick

LEMMA ThrottleCycleStep ==
  ASSUME TypeOK, ControlInv, DispatchThrottle PROVE Cycle!Throttle
<1> USE DEF DispatchThrottle, ThrottleDue, Issue
<1>1. CyclePhase = "open" /\ CyclePhase' = "throttled"
  BY DEF ControlInv, MainAgrees, Sending, CyclePhase
<1>2. CycleAge > Cooldown /\ CycleAge' = 0
  BY DEF ControlInv, MainAgrees, Sending, CycleAge
<1>3. CycleCalm' = FALSE
  BY DEF CycleCalm
<1>4. QED
  BY <1>1, <1>2, <1>3 DEF Cycle!Throttle

LEMMA RestoreCycleStep ==
  ASSUME TypeOK, ControlInv, DispatchRestore PROVE Cycle!Restore
<1> USE DEF DispatchRestore, Issue
<1>1. CyclePhase = "throttled" /\ CyclePhase' = "open"
  BY DEF ControlInv, MainAgrees, Sending, CyclePhase
<1>2. CycleCalm /\ CycleCalm' = CycleCalm
  BY DEF CycleCalm
<1>3. CycleAge >= Grace
  BY TimeAssumption
  DEF ControlInv, TimerOfThisThrottle, Sending, CycleAge, TypeOK, NoTimer
<1>4. CycleAge' = 0
  BY DEF ControlInv, TimerOfThisThrottle, Sending, CycleAge
<1>5. QED
  BY <1>1, <1>2, <1>3, <1>4 DEF Cycle!Restore

\* Once the main loop has stored what it sent, the cycle goes on as before,
\* but for the restore request that is used up.
LEMMA CommitCycle ==
  ASSUME TypeOK, ControlInv, CommitCommand PROVE [Cycle!Next]_(Cycle!vars)
<1>1. UNCHANGED <<CyclePhase, CycleAge>>
  BY DEF CommitCommand, CyclePhase, CycleAge, Sending
<1>2. CASE cmd.act = "THROTTLE"
  <2>1. ~CycleCalm /\ ~CycleCalm'
    BY <1>2 DEF CommitCommand, ControlInv, MainAgrees, NoLeftoverRequest, Sending,
       CycleCalm
  <2>2. CycleCalm' = CycleCalm
    BY <2>1 DEF CycleCalm
  <2>3. QED
    BY <1>1, <2>2, CycleStutters
<1>3. CASE cmd.act # "THROTTLE"
  <2>1. CycleCalm' = FALSE
    BY <1>3 DEF CommitCommand, CycleCalm
  <2>2. QED
    BY <1>1, <2>1 DEF Cycle!Next, Cycle!ForgetCalm
<1>4. QED
  BY <1>2, <1>3

LEMMA ClearCycle ==
  ASSUME TypeOK, ControlInv, ClearPending PROVE [Cycle!Next]_(Cycle!vars)
<1>1. UNCHANGED <<CyclePhase, CycleAge>>
  BY DEF ClearPending, CyclePhase, CycleAge, Sending
<1>2. CASE active /\ cb.op = "restore"
  <2>1. CycleCalm /\ CycleCalm'
    BY <1>2 DEF ClearPending, CycleCalm
  <2>2. CycleCalm' = CycleCalm
    BY <2>1 DEF CycleCalm
  <2>3. QED
    BY <1>1, <2>2, CycleStutters
<1>3. CASE ~(active /\ cb.op = "restore")
  <2>1. CycleCalm' = FALSE
    BY <1>3 DEF ClearPending, CycleCalm
  <2>2. QED
    BY <1>1, <2>1 DEF Cycle!Next, Cycle!ForgetCalm
<1>4. QED
  BY <1>2, <1>3

LEMMA MainLoopCycle ==
  ASSUME TypeOK, ControlInv, MainLoop PROVE [Cycle!Next]_(Cycle!vars)
<1> USE DEF CyclePhase, CycleAge, CycleCalm, Sending
<1>1. CASE Tick
  BY <1>1, TickCycle
<1>2. CASE Connect
  BY <1>2, CycleStutters DEF Connect
<1>3. CASE DispatchThrottle
  BY <1>3, ThrottleCycleStep DEF Cycle!Next
<1>4. CASE NoThrottle
  BY <1>4, CycleStutters DEF NoThrottle
<1>5. CASE AckReceived
  BY <1>5, CycleStutters DEF AckReceived
<1>6. CASE AckTimeout
  BY <1>6, CycleStutters DEF AckTimeout
<1>7. CASE CommitCommand
  BY <1>7, CommitCycle
<1>8. CASE ClearPending
  BY <1>8, ClearCycle
<1>9. CASE GraceStarts
  BY <1>9, CycleStutters DEF GraceStarts, EndIteration
<1>10. CASE GraceRuns
  BY <1>10, CycleStutters DEF GraceRuns, EndIteration
<1>11. CASE DispatchRestore
  BY <1>11, RestoreCycleStep DEF Cycle!Next
<1>12. CASE NoRestore
  BY <1>12, CycleStutters DEF NoRestore
<1>13. CASE GraceElse
  BY <1>13, CycleStutters DEF GraceElse, EndIteration
<1>14. QED
  BY <1>1, <1>2, <1>3, <1>4, <1>5, <1>6, <1>7, <1>8, <1>9, <1>10, <1>11, <1>12,
     <1>13 DEF MainLoop, MainStep

\* A callback that reads calm while the throttle is on is ObserveCalm; while
\* a RESTORE is in flight its request changes nothing.
LEMMA CellCycle ==
  ASSUME TypeOK, ControlInv, CellIndication PROVE [Cycle!Next]_(Cycle!vars)
<1>1. UNCHANGED <<CyclePhase, CycleAge, active, pending>> /\ cb.op = "idle"
  BY DEF CellIndication, mainVars, CyclePhase, CycleAge, Sending
<1>2. CASE cb'.op = "restore"
  <2>1. active
    BY <1>2 DEF CellIndication, CellRequest
  <2>2. CycleCalm' = TRUE
    BY <1>1, <1>2, <2>1 DEF CycleCalm
  <2>3. CASE Sending
    <3>1. CycleCalm = TRUE
      BY <2>1, <2>3 DEF ControlInv, MainAgrees, Actions, CycleCalm
    <3>2. QED
      BY <1>1, <2>2, <3>1, CycleStutters
  <2>4. CASE ~Sending
    <3>1. CyclePhase = "throttled"
      BY <2>1, <2>4 DEF ControlInv, MainAgrees, CyclePhase
    <3>2. QED
      BY <1>1, <2>2, <3>1 DEF Cycle!Next, Cycle!ObserveCalm
  <2>5. QED
    BY <2>3, <2>4
<1>3. CASE cb'.op # "restore"
  <2>1. CycleCalm' = CycleCalm
    BY <1>1, <1>3 DEF CycleCalm
  <2>2. QED
    BY <1>1, <2>1, CycleStutters
<1>4. QED
  BY <1>2, <1>3

LEMMA StoresCycle ==
  ASSUME TypeOK, ControlInv, CallbackStores PROVE [Cycle!Next]_(Cycle!vars)
<1>1. UNCHANGED <<CyclePhase, CycleAge, active>>
  BY DEF CallbackStores, StoreTarget, StorePending, mainVars, CyclePhase, CycleAge,
         Sending
<1>2. CycleCalm' = CycleCalm
  <2>1. CASE StoreTarget
    <3>1. cb'.op = cb.op /\ pending' = pending
      BY <2>1 DEF StoreTarget, TypeOK
    <3>2. QED
      BY <1>1, <3>1 DEF CycleCalm
  <2>2. CASE StorePending
    <3>1. cb'.op = "idle"
      BY <2>2 DEF StorePending, Idle
    <3>2. CASE cb.op = "throttle"
      BY <1>1, <2>2, <3>1, <3>2 DEF StorePending, ControlInv, NoLeftoverRequest,
                                    CycleCalm
    <3>3. CASE cb.op = "restore"
      BY <1>1, <2>2, <3>1, <3>3 DEF StorePending, CycleCalm
    <3>4. QED
      BY <2>2, <3>2, <3>3 DEF StorePending, TypeOK
  <2>3. QED
    BY <2>1, <2>2 DEF CallbackStores
<1>3. QED
  BY <1>1, <1>2, CycleStutters

LEMMA CallbackCycle ==
  ASSUME TypeOK, ControlInv, Callback PROVE [Cycle!Next]_(Cycle!vars)
<1>1. CASE CellIndication
  BY <1>1, CellCycle
<1>2. ASSUME NEW u \in UE, NEW alert \in BOOLEAN, UeIndication(u, alert)
      PROVE [Cycle!Next]_(Cycle!vars)
  <2>1. UNCHANGED <<CyclePhase, CycleAge>>
    BY <1>2 DEF UeIndication, mainVars, CyclePhase, CycleAge, Sending
  <2>2. CycleCalm' = CycleCalm
    BY <1>2 DEF UeIndication, mainVars, Idle, CycleCalm
  <2>3. QED
    BY <2>1, <2>2, CycleStutters
<1>3. CASE CallbackStores
  BY <1>3, StoresCycle
<1>4. QED
  BY <1>1, <1>2, <1>3 DEF Callback

LEMMA EnvironmentCycle ==
  ASSUME TypeOK, ControlInv, Environment PROVE [Cycle!Next]_(Cycle!vars)
<1> USE DEF CyclePhase, CycleAge, CycleCalm, Sending, mainVars
<1>1. CASE SeverityChanges
  BY <1>1, CycleStutters DEF SeverityChanges
<1>2. ASSUME NEW u \in UE, UeChanges(u) PROVE [Cycle!Next]_(Cycle!vars)
  BY <1>2, CycleStutters DEF UeChanges
<1>3. ASSUME NEW act \in Actions, PeerReplies(act) PROVE [Cycle!Next]_(Cycle!vars)
  BY <1>3, CycleStutters DEF PeerReplies
<1>4. CASE PeerGone
  BY <1>4, CycleStutters DEF PeerGone
<1>5. CASE Restart
  <2>1. CyclePhase' = "open" /\ CycleAge' = Cooldown + 1 /\ CycleCalm' = FALSE
    BY <1>5 DEF Restart, NoCmd
  <2>2. QED
    BY <2>1 DEF Cycle!Next, Cycle!Restart
<1>6. QED
  BY <1>1, <1>2, <1>3, <1>4, <1>5 DEF Environment

LEMMA StepCycle ==
  ASSUME TypeOK, ControlInv, [Next]_vars PROVE [Cycle!Next]_(Cycle!vars)
<1>1. CASE UNCHANGED vars
  <2>1. UNCHANGED <<CyclePhase, CycleAge, CycleCalm>>
    BY <1>1 DEF vars, CyclePhase, CycleAge, CycleCalm, Sending
  <2>2. QED
    BY <2>1, CycleStutters
<1>2. QED
  BY <1>1, MainLoopCycle, CallbackCycle, EnvironmentCycle DEF Next

(* xapp_sec_moni's control implements ThrottleCycle: every step of the two  *)
(* unlocked threads, the socket and restarts is a step of the cycle or      *)
(* leaves it alone.                                                         *)
THEOREM ImplementsThrottleCycle == Spec => RefinesThrottleCycle
<1>1. Init => Cycle!Init
  BY InitCycle
<1>2. TypeOK /\ ControlInv /\ [Next]_vars => [Cycle!Next]_(Cycle!vars)
  BY StepCycle
<1>3. QED
  BY <1>1, <1>2, TypeCorrect, HandshakeInvariant, PTL
  DEF Spec, RefinesThrottleCycle, Cycle!Spec
==============================================================================
