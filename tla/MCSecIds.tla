------------------------------- MODULE MCSecIds -------------------------------
(***************************************************************************)
(* Samples for SecIds: a quiet cell, floods in one direction (one value    *)
(* each, and a second one for the uplink so that its history need not be   *)
(* flat), a window of empty indications in a collapsed cell, and a busy    *)
(* cell with RACH attempts and delay.                                      *)
(***************************************************************************)
EXTENDS SecIdsObserver

QuietCell == [ul |-> 10, dl |-> 10, empty |-> 0, rach |-> 0, delay |-> 0,
              slowRlc |-> FALSE, cqi |-> 15]
UlFlood == [QuietCell EXCEPT !.ul = 90, !.dl = 5]
UlFlood2 == [UlFlood EXCEPT !.ul = 85]
DlFlood == [QuietCell EXCEPT !.dl = 90]
Collapsed == [QuietCell EXCEPT !.ul = 0, !.dl = 0, !.empty = 2]
Contended == [QuietCell EXCEPT !.ul = 25, !.dl = 20, !.rach = 10, !.delay = 150,
                               !.slowRlc = TRUE, !.cqi = 3]

MCSamples == {QuietCell, UlFlood, UlFlood2, DlFlood, Collapsed, Contended}
MCGaps == {1, 2}
==============================================================================
