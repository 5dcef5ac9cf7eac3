--------------------------- MODULE CollapseObserver ---------------------------
(***************************************************************************)
(* The rule engine with one more history variable: for how many windows the *)
(* cell has been as rule 7's comment describes, its PRBs in use fallen from *)
(* above 40% to below 5% at once, and nothing scheduled since.             *)
(***************************************************************************)
EXTENDS MCSecIds

VARIABLE collapsedFor  \* windows since the collapse, itself included; 0: none

collapseVars == <<idsObsVars, collapsedFor>>

Idle(m) == m.ul + m.dl < 5 /\ m.delay < 1

CollapseInit == IdsObsInit /\ collapsedFor = 0

CollapseNext ==
  \E m \in Samples, dt \in Gaps :
    /\ ObserveWindow(m, dt)
    /\ collapsedFor' = InARow(Idle(m) /\ (collapsedFor > 0 \/ prevTotal > 40),
                              collapsedFor, RfConfirmWin)

CollapseSpec == CollapseInit /\ [][CollapseNext]_collapseVars

-----------------------------------------------------------------------------
(* "PRB total sebelumnya > 40% -> tiba-tiba collapse < 5%" (rule 7), with   *)
(* "Sudden collapse sustained" as the condition of its CRITICAL: a collapse *)
(* that lasts is reported from its second window on, and is CRITICAL from   *)
(* its fifth on.                                                            *)
CollapseReported ==
  /\ collapsedFor >= RfWindows => lastDetection.severity > 0
  /\ collapsedFor >= RfConfirmWin => lastDetection.severity = 2
==============================================================================
