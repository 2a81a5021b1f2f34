----------------------------- MODULE MCTopology -----------------------------
(***************************************************************************)
(* Cable plans for TLC: two switches with one cable, and three switches of *)
(* which two at a time are connected.                                      *)
(***************************************************************************)
EXTENDS Topology

CONSTANTS A, B, C

a1 == <<A, 1>>
b1 == <<B, 1>>
c1 == <<C, 1>>

TwoPorts == {a1, b1}
ThreePorts == {a1, b1, c1}
Plan(p, q) == [x \in {p, q} |-> IF x = p THEN q ELSE p]
Pulled == {Plan(a1, b1), << >>}
Moved == {Plan(a1, b1), Plan(b1, c1)}

(***************************************************************************)
(* A host that is seen at one port, that of the other side of the cable    *)
(* being like it.                                                          *)
(***************************************************************************)
OnePort == {b1}

(***************************************************************************)
(* A change of the link from a1 is announced in the end.  The one from b1  *)
(* is the same with the names of the switches exchanged.                   *)
(***************************************************************************)
LinksNotified == LinkNotified(a1)
LinksForgotten == LinkForgotten(a1)
=============================================================================
