---------------------------- MODULE ThrottleCycle ----------------------------
(***************************************************************************)
(* What the closed mitigation loop of xapp_sec_moni promises, seen from    *)
(* outside: THROTTLE and RESTORE commands alternate, a THROTTLE comes more *)
(* than Cooldown ticks after the command before it, and a RESTORE comes no *)
(* sooner than Grace ticks after its THROTTLE and only after detection has *)
(* reported calm while that throttle was on.  How the callback thread and  *)
(* the main loop agree on it (g_pending_throttle, g_throttle_active,       *)
(* g_sev0_since_ms) is MoniControl's business.                             *)
(***************************************************************************)
EXTENDS Naturals

CONSTANTS Cooldown,  \* THROTTLE_COOLDOWN_MS, in ticks
          Grace      \* RESTORE_GRACE_MS, in ticks

VARIABLES phase,  \* "open" or "throttled": the last command of this process
          age,    \* ticks since that command, counted up to Cooldown + 1
          calm    \* detection was calm during this throttle, and still counts

vars == <<phase, age, calm>>

TypeOK ==
  /\ phase \in {"open", "throttled"}
  /\ age \in 0..(Cooldown + 1)
  /\ calm \in BOOLEAN

\* No command was ever sent: g_throttle_last_ms is 0, the epoch.
Init == phase = "open" /\ age = Cooldown + 1 /\ calm = FALSE

Throttle ==
  /\ phase = "open" /\ age > Cooldown
  /\ phase' = "throttled" /\ age' = 0 /\ calm' = FALSE

ObserveCalm ==
  /\ phase = "throttled"
  /\ calm' = TRUE
  /\ UNCHANGED <<phase, age>>

\* A request for RESTORE may be dropped again; it never appears by itself.
ForgetCalm ==
  /\ calm' = FALSE
  /\ UNCHANGED <<phase, age>>

Restore ==
  /\ phase = "throttled" /\ calm /\ age >= Grace
  /\ phase' = "open" /\ age' = 0
  /\ UNCHANGED calm

Tick ==
  /\ age' = IF age <= Cooldown THEN age + 1 ELSE age
  /\ UNCHANGED <<phase, calm>>

\* The process ends and starts again: what it knew of a throttle is gone.
Restart == phase' = "open" /\ age' = Cooldown + 1 /\ calm' = FALSE

Next == Throttle \/ ObserveCalm \/ ForgetCalm \/ Restore \/ Tick \/ Restart

Spec == Init /\ [][Next]_vars
==============================================================================
