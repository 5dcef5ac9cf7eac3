---------------------------- MODULE GraceObserver ----------------------------
(***************************************************************************)
(* MoniControl with one history variable: for how long the cell detectors' *)
(* reports to the callback have all been calm.                             *)
(***************************************************************************)
EXTENDS MoniControl

VARIABLE calmFor  \* ticks since a report above severity 0, counted to Grace

obsVars == <<vars, calmFor>>

ObsInit == Init /\ calmFor = Grace

ObsNext ==
  \/ CellIndication /\ calmFor' = IF FinalSev > 0 THEN 0 ELSE calmFor
  \/ Tick /\ calmFor' = Older(calmFor, Grace)
  \/ /\ \/ MainStep \/ CallbackStores \/ Environment
        \/ \E u \in UE, alert \in BOOLEAN : UeIndication(u, alert)
     /\ UNCHANGED calmFor

ObsSpec == ObsInit /\ [][ObsNext]_obsVars

(* RESTORE is sent after a grace period in which severity stayed 0:        *)
(* mitigate_ipc.h says of RESTORE_GRACE_MS that "moni waits this long at   *)
(* severity==0 before sending RESTORE".                                    *)
RestoreAfterCalmGrace == [][DispatchRestore => calmFor >= Grace]_obsVars
==============================================================================
