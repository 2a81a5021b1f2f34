---------------------------- MODULE TopologyFeed ----------------------------
(***************************************************************************)
(* What the topology discovery of Ryu promises to the applications that    *)
(* observe it (EventSwitchEnter, EventSwitchLeave, EventLinkAdd,           *)
(* EventLinkDelete): switches and links are announced when they were not   *)
(* there and withdrawn when they were, and a link is announced only while  *)
(* the switches at both its ends are.  A link may outlive its switches:    *)
(* the withdrawal of a link whose reverse was never seen comes later.      *)
(***************************************************************************)
EXTENDS Integers

CONSTANTS
  AllSwitches,  \* the switches that may be announced
  AllLinks,     \* the links that may be announced
  SwitchesOf(_) \* the two switches of a link

VARIABLES entered, announced

Enter(s) == s \notin entered /\ entered' = entered \cup {s} /\ UNCHANGED announced

Leave(s) ==
  /\ s \in entered /\ entered' = entered \ {s}
  /\ announced' \subseteq announced
  /\ \A l \in announced \ announced' : s \in SwitchesOf(l)

(***************************************************************************)
(* A new link may take the place of an old one.                            *)
(***************************************************************************)
LinkAdd(l) ==
  /\ l \notin announced /\ SwitchesOf(l) \subseteq entered
  /\ \E old \in SUBSET announced : announced' = (announced \ old) \cup {l}
  /\ UNCHANGED entered

LinkDelete == announced' \subseteq announced /\ UNCHANGED entered

Next == \/ \E s \in AllSwitches : Enter(s) \/ Leave(s)
        \/ \E l \in AllLinks : LinkAdd(l)
        \/ LinkDelete

Spec == entered = {} /\ announced = {} /\ [][Next]_<<entered, announced>>
=============================================================================
