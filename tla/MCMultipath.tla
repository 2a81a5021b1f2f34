---------------------------- MODULE MCMultipath -----------------------------
(***************************************************************************)
(* Networks for TLC.  Ports 1 and 2 of a switch are those of the daemon,   *)
(* hosts are plugged into port 3, or port 9 for a second host.             *)
(***************************************************************************)
EXTENDS Multipath

CONSTANTS A, B, C, D, ha, hb, hc

Both(S) == S \cup {Rev(l) : l \in S}
Network(switches, cables, homes, talks) ==
  [switches |-> switches, cables |-> Both(cables), home |-> homes,
   talks |-> talks, speed |-> [s \in switches |-> 1000000],
   noise |-> {}, known |-> TRUE, changes |-> 0, events |-> 1]
Ends == ha :> <<A, 3>> @@ hb :> <<B, 3>>

(***************************************************************************)
(* Two switches that come up; the same with changes; two paths; three      *)
(* hosts that want to talk to each other; and two hosts at one switch.     *)
(***************************************************************************)
Pair == [Network({A, B}, {<<A, 4, B, 4>>}, Ends, {<<ha, hb>>}) EXCEPT !.known = FALSE]
Unstable == [Pair EXCEPT !.changes = 2, !.events = 2]
Ring == [Network({A, B, C, D}, {<<A, 4, C, 4>>, <<A, 5, D, 4>>, <<B, 4, C, 5>>, <<B, 5, D, 5>>},
                 Ends, {<<ha, hb>>}) EXCEPT !.noise = {"LLDP", "IPv6", "IPv4"}]
Line == Network({A, B, C}, {<<A, 4, C, 4>>, <<C, 5, B, 4>>}, Ends @@ hc :> <<C, 3>>,
                {<<ha, hb>>, <<hc, ha>>, <<hc, hb>>, <<hb, ha>>})
Single == Network({A}, {}, ha :> <<A, 3>> @@ hb :> <<A, 9>>, {<<ha, hb>>})

MCNetworks == {Unstable, Ring, Line, Single}
MCPair == {Pair}
=============================================================================
