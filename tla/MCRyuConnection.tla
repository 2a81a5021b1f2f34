--------------------------- MODULE MCRyuConnection ---------------------------
(***************************************************************************)
(* RyuConnection for TLC: as the deployment sets a connection up, and with *)
(* an echo thread and an older switch.                                     *)
(***************************************************************************)
EXTENDS RyuConnection

Deployed == [echo |-> 0, version |-> 4, packets |-> 2, sends |-> 2, news |-> 0]
Replaced == [echo |-> 0, version |-> 4, packets |-> 1, sends |-> 1, news |-> 1]
Echoing == [echo |-> 1, version |-> 3, packets |-> 0, sends |-> 1, news |-> 0]
MCSetups == {Deployed, Replaced, Echoing}
=============================================================================
