--------------------------- MODULE TopologyProofs ---------------------------
(***************************************************************************)
(* The books of the topology discovery, for any number of switches, ports  *)
(* and events: hosts are kept off the links, the two books of the links    *)
(* agree with each other and with what the events have told, the ports     *)
(* that are probed are those of the switches, and the events keep the      *)
(* promises of TopologyFeed.  All but the first hold only as long as no    *)
(* cable is moved to another port (OnePlan).                               *)
(***************************************************************************)
EXTENDS Topology, SequenceTheorems, TLAPS

(***************************************************************************)
(* Cables are pulled out and put in again where they were.                 *)
(***************************************************************************)
OnePlan == \A c, d \in Cabling : \A p \in DOMAIN c \cap DOMAIN d : c[p] = d[p]

Plugged(p, q) == \E c \in Cabling : p \in DOMAIN c /\ q = c[p]

LEMMA PluggedIsSymmetric ==
  ASSUME NEW p, NEW q, Plugged(p, q)
  PROVE  Plugged(q, p) /\ p \in Ports /\ q \in Ports
<1>1. PICK c \in Cabling : p \in DOMAIN c /\ q = c[p]
  BY DEF Plugged
<1>2. q \in DOMAIN c /\ c[q] = p /\ DOMAIN c \subseteq Ports
  BY <1>1, TopologyConstants
<1> QED BY <1>1, <1>2 DEF Plugged

LEMMA PluggedIsUnique ==
  ASSUME OnePlan, NEW p, NEW q, NEW r, Plugged(p, q), Plugged(p, r)
  PROVE  q = r
<1>1. PICK c \in Cabling : p \in DOMAIN c /\ q = c[p]
  BY DEF Plugged
<1>2. PICK d \in Cabling : p \in DOMAIN d /\ r = d[p]
  BY DEF Plugged
<1> QED BY <1>1, <1>2 DEF OnePlan

-----------------------------------------------------------------------------
IsSeq(q) == \E T : q \in Seq(T)

(***************************************************************************)
(* The queue of events loses its first or gets a last one.                 *)
(***************************************************************************)
LEMMA SeqTail ==
  ASSUME NEW q, IsSeq(q), q # << >>
  PROVE  /\ IsSeq(Tail(q)) /\ Head(q) = q[1] /\ Len(q) \in Nat /\ Len(q) >= 1
         /\ Len(Tail(q)) = Len(q) - 1
         /\ \A i \in 1..(Len(q) - 1) : Tail(q)[i] = q[i + 1]
<1>1. PICK T : q \in Seq(T)
  BY DEF IsSeq
<1>2. /\ Tail(q) \in Seq(T) /\ Head(q) = q[1] /\ Len(q) \in Nat /\ Len(q) >= 1
      /\ Len(Tail(q)) = Len(q) - 1
      /\ \A i \in 1..(Len(q) - 1) : Tail(q)[i] = q[i + 1]
  BY <1>1
<1> QED BY <1>2 DEF IsSeq

LEMMA SeqAppend ==
  ASSUME NEW q, IsSeq(q), NEW e
  PROVE  /\ IsSeq(Append(q, e)) /\ Len(q) \in Nat /\ Len(Append(q, e)) = Len(q) + 1
         /\ \A i \in 1..Len(q) : Append(q, e)[i] = q[i]
         /\ Append(q, e)[Len(q) + 1] = e
<1>1. PICK T : q \in Seq(T)
  BY DEF IsSeq
<1> DEFINE U == T \cup {e}
<1>2. q \in Seq(U)
  <2>1. \A i \in 1..Len(q) : q[i] \in U
    BY <1>1
  <2>2. q = [i \in 1..Len(q) |-> q[i]] /\ Len(q) \in Nat
    BY <1>1
  <2> HIDE DEF U
  <2> QED BY <2>1, <2>2
<1>3. e \in U
  OBVIOUS
<1> HIDE DEF U
<1>4. /\ Append(q, e) \in Seq(U) /\ Len(q) \in Nat /\ Len(Append(q, e)) = Len(q) + 1
      /\ \A i \in 1..Len(q) : Append(q, e)[i] = q[i]
      /\ Append(q, e)[Len(q) + 1] = e
  BY <1>2, <1>3
<1> QED BY <1>4 DEF IsSeq

-----------------------------------------------------------------------------
LEMMA LinkEnds ==
  ASSUME NEW p, NEW q
  PROVE  /\ Link(p, q)[1] = p /\ Link(p, q)[2] = q
         /\ \A a, b : Link(p, q) = Link(a, b) <=> p = a /\ q = b
BY DEF Link

(***************************************************************************)
(* What takes down ports never adds a link.                                *)
(***************************************************************************)
LEMMA LinkDownsShrinks ==
  ASSUME NEW S, NEW known, LinkDowns(S, known)
  PROVE  DOMAIN links' \subseteq DOMAIN links
BY DEF LinkDowns, Without, Restrict

(***************************************************************************)
(* A step of link_loop takes one link down, or fails on it, or only has to *)
(* do with the age of the reverse link.                                    *)
(***************************************************************************)
TakesDown(l) ==
  /\ DOMAIN links' = DOMAIN links \ {l} /\ _map' = Unmapped(l)
  /\ view' = [view EXCEPT !.links = @ \ {l}]

FailsOn(l) ==
  /\ ~(l \in DOMAIN links /\ l[1] \in DOMAIN _map)
  /\ DOMAIN links' = DOMAIN links \ {l} /\ UNCHANGED <<_map, view>>

LEMMA LoopTakesDown ==
  ASSUME LinkLoop
  PROVE  \/ \E l \in DOMAIN links : TakesDown(l)
         \/ \E l : FailsOn(l)
         \/ DOMAIN links' = DOMAIN links /\ UNCHANGED <<_map, view>>
<1>1. ASSUME NEW l, NEW r, NEW known, DOMAIN known = DOMAIN links, link_down(l, r, known)
      PROVE  (l \in DOMAIN links /\ TakesDown(l)) \/ FailsOn(l)
  <2>1. DOMAIN links' = DOMAIN links \ {l}
    BY <1>1 DEF link_down, Without, Restrict
  <2>2. CASE l \in DOMAIN known /\ l[1] \in DOMAIN _map
    BY <1>1, <2>1, <2>2 DEF link_down, TakesDown
  <2>3. CASE ~(l \in DOMAIN known /\ l[1] \in DOMAIN _map)
    BY <1>1, <2>1, <2>3 DEF link_down, FailsOn
  <2> QED BY <2>2, <2>3
<1>2. CASE LinkLoopStarts
  <2>1. PICK l \in deleted :
          link_down(l, [Idle EXCEPT !.deleted = deleted, !.todo = deleted], links)
    BY <1>2 DEF LinkLoopStarts
  <2> QED BY <1>1, <2>1
<1>3. CASE LinkLoopGoesOn
  <2> DEFINE known == CheckedEarly(Link(round.link[2], round.link[1]))
  <2>1. DOMAIN known = DOMAIN links
    BY DEF CheckedEarly
  <2>2. \/ \E l \in round.todo : link_down(l, round, known)
        \/ links' = known /\ UNCHANGED <<_map, view>>
    BY <1>3 DEF LinkLoopGoesOn
  <2> HIDE DEF known
  <2> QED BY <1>1, <2>1, <2>2
<1> QED BY <1>2, <1>3 DEF LinkLoop

-----------------------------------------------------------------------------
(***************************************************************************)
(* Hosts are kept off the links: HostsAtEdge is inductive as it is.        *)
(***************************************************************************)
LEMMA HostsShrink ==
  ASSUME HostsAtEdge, DOMAIN links' \subseteq DOMAIN links,
         DOMAIN hosts' \subseteq DOMAIN hosts, \A h \in DOMAIN hosts' : hosts'[h] = hosts[h]
  PROVE  HostsAtEdge'
BY DEF HostsAtEdge

LEMMA HostsLldp ==
  ASSUME HostsAtEdge, lldp_packet_in_handler
  PROVE  HostsAtEdge'
<1> DEFINE src == Head(queue).src
           dst == Head(queue).dst
           old == IF src \in DOMAIN _map /\ _map[src] # dst THEN {Link(src, _map[src])} ELSE {}
           known == DOMAIN links \ old
           link == Link(src, dst)
<1>1. CASE UNCHANGED <<links, hosts>>
  BY <1>1 DEF HostsAtEdge
<1>2. CASE /\ BothThere(src, dst)
           /\ links' = With(Without(links, old), link, "fresh")
           /\ hosts' = IF link \in known THEN hosts
                       ELSE Restrict(hosts, {h \in DOMAIN hosts : IsEdgePort(hosts[h], known)})
  <2>1. DOMAIN links' = known \cup {link}
    BY <1>2 DEF With, Without, Restrict
  <2>2. /\ DOMAIN hosts' \subseteq DOMAIN hosts
        /\ \A h \in DOMAIN hosts' : hosts'[h] = hosts[h]
        /\ link \notin known => \A h \in DOMAIN hosts' : IsEdgePort(hosts[h], known)
    BY <1>2 DEF Restrict
  <2>3. src # dst
    BY <1>2 DEF BothThere
  <2> HIDE DEF src, dst, old, known
  <2>4. SUFFICES ASSUME NEW l \in DOMAIN links', Link(l[2], l[1]) \in DOMAIN links',
                        NEW h \in DOMAIN hosts'
                 PROVE  hosts[h] \notin {l[1], l[2]}
    BY <2>2 DEF HostsAtEdge
  <2>5. CASE l \in known /\ Link(l[2], l[1]) \in known
    <3>1. known \subseteq DOMAIN links
      BY DEF known
    <3> QED BY <2>2, <2>5, <3>1 DEF HostsAtEdge
  <2>6. CASE link \notin known /\ l = link
    <3>1. l[1] = src /\ l[2] = dst
      BY <2>6, LinkEnds
    <3>2. Link(dst, src) \in known
      BY <2>1, <2>3, <2>4, <3>1, LinkEnds
    <3>3. hosts[h] \notin {dst, src}
      BY <2>2, <2>6, <3>2, LinkEnds DEF IsEdgePort
    <3> QED BY <3>1, <3>3
  <2>7. CASE link \notin known /\ l \in known /\ Link(l[2], l[1]) = link
    <3>1. l[2] = src /\ l[1] = dst
      BY <2>7, LinkEnds
    <3> QED BY <2>2, <2>7 DEF IsEdgePort
  <2> QED BY <2>1, <2>4, <2>5, <2>6, <2>7
<1> QED BY <1>1, <1>2 DEF lldp_packet_in_handler

LEMMA HostsNext ==
  ASSUME HostsAtEdge, [Next]_vars
  PROVE  HostsAtEdge'
<1>1. CASE lldp_packet_in_handler
  BY <1>1, HostsLldp
<1>2. CASE host_discovery_packet_in_handler
  <2> DEFINE p == Head(queue).from
  <2>1. CASE hosts' = hosts
    BY <1>2, <2>1 DEF host_discovery_packet_in_handler, HostsAtEdge
  <2>2. CASE hosts' = With(hosts, Host, p) /\ IsEdgePort(p, DOMAIN links)
    <3>1. \A h \in DOMAIN hosts' : hosts'[h] = p \/ (h \in DOMAIN hosts /\ hosts'[h] = hosts[h])
      BY <2>2 DEF With
    <3>2. links' = links /\ \A l \in DOMAIN links : p \notin {l[1], l[2]}
      BY <1>2, <2>2 DEF host_discovery_packet_in_handler, IsEdgePort
    <3> HIDE DEF p
    <3> QED BY <3>1, <3>2 DEF HostsAtEdge
  <2> QED BY <1>2, <2>1, <2>2 DEF host_discovery_packet_in_handler
<1>3. CASE hosts' = hosts /\ DOMAIN links' \subseteq DOMAIN links
  BY <1>3, HostsShrink
<1>4. CASE SwitchDead
  BY <1>4, <1>3, LinkDownsShrinks DEF SwitchDead
<1>5. CASE PortDelete
  BY <1>5, <1>3, LinkDownsShrinks DEF PortDelete
<1>6. CASE PortModify
  BY <1>6, <1>3, LinkDownsShrinks DEF PortModify
<1>7. CASE LinkLoop
  <2>1. hosts' = hosts
    BY <1>7 DEF LinkLoop, LinkLoopStarts, LinkLoopGoesOn
  <2>2. DOMAIN links' \subseteq DOMAIN links
    BY <1>7, LoopTakesDown DEF TakesDown, FailsOn
  <2> QED BY <1>3, <2>1, <2>2
<1>8. CASE SwitchMain \/ PortAdd \/ UNCHANGED vars
  BY <1>8, <1>3 DEF SwitchMain, PortAdd, vars, state
<1>9. ASSUME NEW l, LinkAges(l)
      PROVE  HostsAtEdge'
  BY <1>9, <1>3 DEF LinkAges
<1>10. CASE Recable \/ \E s \in Switches : SwitchConnects(s) \/ SwitchDrops(s) \/ ControllerNotices(s)
  BY <1>10, <1>3 DEF Recable, SwitchConnects, SwitchDrops, ControllerNotices, state
<1>11. CASE \/ \E p \in Ports : PortChanges(p) \/ send_lldp_packet(p) \/ LldpArrives(p)
            \/ \E p \in HostPorts : HostFrame(p)
  BY <1>11, <1>3 DEF PortChanges, send_lldp_packet, LldpArrives, HostFrame, state
<1> QED BY <1>1, <1>2, <1>4, <1>5, <1>6, <1>7, <1>8, <1>9, <1>10, <1>11 DEF Next, Handlers

(***************************************************************************)
(* No host is believed to be at a link that is known in both directions,   *)
(* for any cabling, also when cables are moved and ports change unseen:    *)
(* lldp_packet_in_handler removes the hosts when the second direction is   *)
(* found, and host_discovery_packet_in_handler asks _is_edge_port.         *)
(***************************************************************************)
THEOREM HostsKeptOffLinks == Spec => []HostsAtEdge
<1>1. Init => HostsAtEdge
  BY DEF Init, HostsAtEdge
<1> QED BY <1>1, HostsNext, PTL DEF Spec

-----------------------------------------------------------------------------
(***************************************************************************)
(* What is always true of the events that wait, of the packets on the      *)
(* cables and of the connections.                                          *)
(***************************************************************************)
EventOK(e) ==
  /\ e.s \in Switches
  /\ e.type = "main" => DOMAIN e.ports \subseteq PortsOf(e.s) /\ e.n \in Nat \ {0}
  /\ e.type = "dead" => e.n \in Nat \ {0}
  /\ e.type \in {"add", "delete", "modify"} => e.port \in PortsOf(e.s)
  /\ e.type = "lldp" => Plugged(e.src, e.dst)

QueueOK(q) == IsSeq(q) /\ \A i \in 1..Len(q) : EventOK(q[i])
AirOK == cable \in Cabling /\ \A l \in air : Plugged(l[1], l[2])
ConnOK ==
  /\ conn \in [Switches -> [n : Nat, last : Nat]]
  /\ open \in [Switches -> SUBSET Nat]
  /\ \A s \in Switches :
       /\ conn[s].n \in {0, conn[s].last}
       /\ conn[s].n # 0 => conn[s].n \in open[s]
       /\ \A n \in open[s] : n # 0 /\ n <= conn[s].last
PortStateOK ==
  /\ DOMAIN port_state = DOMAIN dps
  /\ \A s \in DOMAIN port_state : DOMAIN port_state[s] \subseteq PortsOf(s)
  /\ DOMAIN dps \subseteq Switches
  /\ \A s \in DOMAIN dps : dps[s] \in Nat \ {0}

WorldInv == QueueOK(queue) /\ AirOK /\ ConnOK /\ PortStateOK

LEMMA QueueTail ==
  ASSUME NEW q, QueueOK(q), q # << >>
  PROVE  QueueOK(Tail(q)) /\ EventOK(Head(q))
<1>1. /\ IsSeq(Tail(q)) /\ Head(q) = q[1] /\ Len(q) \in Nat /\ Len(q) >= 1
      /\ Len(Tail(q)) = Len(q) - 1
      /\ \A i \in 1..(Len(q) - 1) : Tail(q)[i] = q[i + 1]
  BY SeqTail DEF QueueOK
<1>2. EventOK(Head(q))
  BY <1>1 DEF QueueOK
<1>3. ASSUME NEW i \in 1..Len(Tail(q)) PROVE EventOK(Tail(q)[i])
  <2>1. i + 1 \in 1..Len(q) /\ Tail(q)[i] = q[i + 1]
    BY <1>1
  <2> QED BY <2>1 DEF QueueOK
<1> QED BY <1>1, <1>2, <1>3 DEF QueueOK

LEMMA QueueAppend ==
  ASSUME NEW q, QueueOK(q), NEW e, EventOK(e)
  PROVE  QueueOK(Append(q, e))
<1>1. /\ IsSeq(Append(q, e)) /\ Len(q) \in Nat /\ Len(Append(q, e)) = Len(q) + 1
      /\ \A i \in 1..Len(q) : Append(q, e)[i] = q[i]
      /\ Append(q, e)[Len(q) + 1] = e
  BY SeqAppend DEF QueueOK
<1>2. ASSUME NEW i \in 1..Len(Append(q, e)) PROVE EventOK(Append(q, e)[i])
  <2>1. CASE i = Len(q) + 1
    BY <1>1, <2>1
  <2>2. CASE i \in 1..Len(q)
    BY <1>1, <2>2 DEF QueueOK
  <2> QED BY <1>1, <2>1, <2>2
<1> QED BY <1>1, <1>2 DEF QueueOK

LEMMA WorldInit == Init => WorldInv
BY DEF Init, WorldInv, QueueOK, AirOK, ConnOK, PortStateOK, IsSeq

LEMMA WorldConnects ==
  ASSUME WorldInv, NEW s \in Switches, SwitchConnects(s)
  PROVE  WorldInv'
<1> DEFINE e == [type |-> "main", s |-> s, n |-> conn[s].last + 1, ports |-> Shape(s)]
<1>1. conn[s].last \in Nat
  BY DEF WorldInv, ConnOK
<1>2. DOMAIN Shape(s) \subseteq PortsOf(s)
  BY DEF Shape
<1>3. EventOK(e)
  BY <1>1, <1>2 DEF EventOK
<1>4. queue' = Append(queue, e)
  BY DEF SwitchConnects
<1>5. QueueOK(queue')
  BY <1>3, <1>4, QueueAppend DEF WorldInv
<1>6. ConnOK'
  BY <1>1 DEF WorldInv, ConnOK, SwitchConnects
<1> QED BY <1>5, <1>6 DEF WorldInv, SwitchConnects, AirOK, PortStateOK, state

LEMMA WorldDrops ==
  ASSUME WorldInv, NEW s \in Switches, SwitchDrops(s)
  PROVE  WorldInv'
<1>1. ConnOK'
  BY DEF WorldInv, ConnOK, SwitchDrops
<1> QED BY <1>1 DEF WorldInv, SwitchDrops, AirOK, PortStateOK, state

LEMMA WorldNotices ==
  ASSUME WorldInv, NEW s \in Switches, ControllerNotices(s)
  PROVE  WorldInv'
<1>1. PICK n \in open[s] \ {conn[s].n} :
         /\ open' = [open EXCEPT ![s] = @ \ {n}]
         /\ queue' = Append(queue, [type |-> "dead", s |-> s, n |-> n])
  BY DEF ControllerNotices
<1>2. n \in Nat \ {0}
  BY DEF WorldInv, ConnOK
<1>3. EventOK([type |-> "dead", s |-> s, n |-> n])
  BY <1>2 DEF EventOK
<1>4. QueueOK(queue')
  BY <1>1, <1>3, QueueAppend DEF WorldInv
<1>5. ConnOK'
  BY <1>1 DEF WorldInv, ConnOK, ControllerNotices
<1> QED BY <1>4, <1>5 DEF WorldInv, ControllerNotices, AirOK, PortStateOK, state

LEMMA WorldPortChanges ==
  ASSUME WorldInv, NEW p \in Ports, PortChanges(p)
  PROVE  WorldInv'
<1>1. QueueOK(queue')
  <2>1. CASE queue' = queue
    BY <2>1 DEF WorldInv
  <2>2. ASSUME NEW new,
               queue' = Append(queue, [type |-> Reason(phys[p], new), s |-> p[1], n |-> conn[p[1]].n,
                                       port |-> p, down |-> new = "down"])
        PROVE  QueueOK(queue')
    <3> DEFINE e == [type |-> Reason(phys[p], new), s |-> p[1], n |-> conn[p[1]].n,
                     port |-> p, down |-> new = "down"]
    <3>1. e.s = p[1] /\ e.port = p /\ e.type \in {"add", "delete", "modify"}
      BY DEF Reason
    <3>2. p[1] \in Switches /\ p \in PortsOf(p[1])
      BY TopologyConstants DEF PortsOf
    <3>3. queue' = Append(queue, e)
      BY <2>2
    <3> HIDE DEF e
    <3>4. EventOK(e)
      BY <3>1, <3>2 DEF EventOK
    <3> QED BY <3>3, <3>4, QueueAppend DEF WorldInv
  <2> QED BY <2>1, <2>2 DEF PortChanges
<1> QED BY <1>1 DEF WorldInv, PortChanges, AirOK, ConnOK, PortStateOK, state

LEMMA WorldHostFrame ==
  ASSUME WorldInv, NEW p \in HostPorts, HostFrame(p)
  PROVE  WorldInv'
<1> DEFINE e == [type |-> "host", s |-> p[1], n |-> conn[p[1]].n, from |-> p]
<1>1. EventOK(e)
  BY TopologyConstants DEF EventOK
<1>2. queue' = Append(queue, e)
  BY DEF HostFrame
<1>3. QueueOK(queue')
  BY <1>1, <1>2, QueueAppend DEF WorldInv
<1> QED BY <1>3 DEF WorldInv, HostFrame, AirOK, ConnOK, PortStateOK, state, world

LEMMA WorldLldp ==
  ASSUME WorldInv, NEW p \in Ports, send_lldp_packet(p) \/ LldpArrives(p)
  PROVE  WorldInv'
<1>1. CASE send_lldp_packet(p)
  <2>1. \A l \in air' : l \in air \/ (l = Link(p, cable[p]) /\ p \in DOMAIN cable)
    BY <1>1 DEF send_lldp_packet, Sends
  <2>2. AirOK'
    BY <1>1, <2>1, LinkEnds DEF send_lldp_packet, WorldInv, AirOK, Plugged
  <2> QED BY <1>1, <2>2 DEF WorldInv, send_lldp_packet, ConnOK, PortStateOK
<1>2. CASE LldpArrives(p)
  <2>1. PICK l \in air :
          /\ l[1] = p
          /\ air' = air \ {l}
          /\ queue' = IF Reports(l[2])
                      THEN Append(queue, [type |-> "lldp", s |-> l[2][1],
                                          n |-> conn[l[2][1]].n, src |-> p, dst |-> l[2]])
                      ELSE queue
    BY <1>2 DEF LldpArrives
  <2>2. Plugged(p, l[2])
    BY <2>1 DEF WorldInv, AirOK
  <2>3. l[2][1] \in Switches
    BY <2>2, PluggedIsSymmetric, TopologyConstants
  <2> DEFINE e == [type |-> "lldp", s |-> l[2][1], n |-> conn[l[2][1]].n, src |-> p, dst |-> l[2]]
  <2>4. EventOK(e)
    BY <2>2, <2>3 DEF EventOK
  <2>5. queue' = queue \/ queue' = Append(queue, e)
    BY <2>1
  <2> HIDE DEF e
  <2>6. QueueOK(queue')
    BY <2>4, <2>5, QueueAppend DEF WorldInv
  <2>7. AirOK'
    BY <1>2, <2>1 DEF WorldInv, AirOK, LldpArrives
  <2> QED BY <1>2, <2>6, <2>7 DEF WorldInv, LldpArrives, ConnOK, PortStateOK, state
<1> QED BY <1>1, <1>2

LEMMA WorldHandlers ==
  ASSUME WorldInv, Handlers
  PROVE  WorldInv'
<1>1. queue # << >> /\ queue' = Tail(queue)
  BY DEF Handlers, SwitchMain, SwitchDead, PortAdd, PortDelete, PortModify,
         lldp_packet_in_handler, host_discovery_packet_in_handler, Event
<1>2. QueueOK(queue') /\ EventOK(Head(queue))
  BY <1>1, QueueTail DEF WorldInv
<1>3. UNCHANGED world
  BY DEF Handlers, SwitchMain, SwitchDead, PortAdd, PortDelete, PortModify,
         lldp_packet_in_handler, host_discovery_packet_in_handler
<1>4. AirOK' /\ ConnOK'
  BY <1>3 DEF WorldInv, AirOK, ConnOK, world
<1> DEFINE e == Head(queue)
<1>5. PortStateOK'
  <2>1. CASE SwitchMain
    <3>1. /\ e.type = "main" /\ e.n \in Nat \ {0} /\ DOMAIN e.ports \subseteq PortsOf(e.s)
          /\ e.s \in Switches
      BY <1>2, <2>1 DEF SwitchMain, Event, EventOK
    <3>2. /\ dps' = With(dps, e.s, e.n)
          /\ port_state' = IF e.s \in DOMAIN port_state THEN port_state
                           ELSE With(port_state, e.s, e.ports)
      BY <2>1 DEF SwitchMain
    <3> HIDE DEF e
    <3>3. DOMAIN dps' \subseteq Switches /\ \A s \in DOMAIN dps' : dps'[s] \in Nat \ {0}
      BY <3>1, <3>2 DEF WorldInv, PortStateOK, With
    <3>4. \A s \in DOMAIN port_state' : DOMAIN port_state'[s] \subseteq PortsOf(s)
      BY <3>1, <3>2 DEF WorldInv, PortStateOK, With
    <3>5. DOMAIN port_state' = DOMAIN dps'
      BY <3>2 DEF WorldInv, PortStateOK, With
    <3> QED BY <3>3, <3>4, <3>5 DEF PortStateOK
  <2>2. CASE SwitchDead
    <3>1. \/ UNCHANGED <<dps, port_state>>
          \/ dps' = Without(dps, {e.s}) /\ port_state' = Without(port_state, {e.s})
      BY <2>2 DEF SwitchDead
    <3> HIDE DEF e
    <3> QED BY <3>1 DEF WorldInv, PortStateOK, Without, Restrict
  <2>3. CASE PortAdd \/ PortDelete \/ PortModify
    <3>1. e.port \in PortsOf(e.s)
      BY <1>2, <2>3 DEF PortAdd, PortDelete, PortModify, Event, EventOK
    <3>2. /\ dps' = dps
          /\ \/ port_state' = port_state
             \/ port_state' = [port_state EXCEPT ![e.s] = With(@, e.port, e.down)]
             \/ port_state' = [port_state EXCEPT ![e.s] = Without(@, {e.port})]
      BY <2>3 DEF PortAdd, PortDelete, PortModify
    <3> HIDE DEF e
    <3> QED BY <3>1, <3>2 DEF WorldInv, PortStateOK, With, Without, Restrict
  <2>4. CASE lldp_packet_in_handler \/ host_discovery_packet_in_handler
    BY <2>4 DEF lldp_packet_in_handler, host_discovery_packet_in_handler, WorldInv, PortStateOK
  <2> QED BY <2>1, <2>2, <2>3, <2>4 DEF Handlers
<1> QED BY <1>2, <1>4, <1>5 DEF WorldInv

LEMMA WorldNext ==
  ASSUME WorldInv, [Next]_vars
  PROVE  WorldInv'
<1>1. CASE Handlers
  BY <1>1, WorldHandlers
<1>2. CASE LinkLoop \/ (\E l \in Ports \X Ports : LinkAges(l)) \/ UNCHANGED vars
  BY <1>2 DEF LinkLoop, LinkLoopStarts, LinkLoopGoesOn, LinkAges, vars, state, world, WorldInv,
              AirOK, ConnOK, PortStateOK
<1>3. CASE Recable
  BY <1>3 DEF Recable, state, WorldInv, AirOK, ConnOK, PortStateOK
<1>4. CASE \E s \in Switches : SwitchConnects(s) \/ SwitchDrops(s) \/ ControllerNotices(s)
  BY <1>4, WorldConnects, WorldDrops, WorldNotices
<1>5. CASE \E p \in Ports : PortChanges(p) \/ send_lldp_packet(p) \/ LldpArrives(p)
  BY <1>5, WorldPortChanges, WorldLldp
<1>6. CASE \E p \in HostPorts : HostFrame(p)
  BY <1>6, WorldHostFrame
<1> QED BY <1>1, <1>2, <1>3, <1>4, <1>5, <1>6 DEF Next

-----------------------------------------------------------------------------
(***************************************************************************)
(* With one cable plan a peer is always the port at the other end of the   *)
(* cable, so that two ports that have each other's link are each other's   *)
(* peers.                                                                  *)
(***************************************************************************)
MapWired == \A p \in DOMAIN _map : Plugged(p, _map[p])
ViewOK == view = [switches |-> view.switches, links |-> view.links]
BooksInv == ViewOK /\ MapWired /\ MapMatchesLinks /\ EventsTellAll

LEMMA LinkIsMapped ==
  ASSUME MapMatchesLinks
  PROVE  /\ \A l \in DOMAIN links : l[1] \in DOMAIN _map /\ l[2] = _map[l[1]] /\ l = Link(l[1], l[2])
         /\ \A p \in DOMAIN _map : Link(p, _map[p]) \in DOMAIN links
<1>1. ASSUME NEW l \in DOMAIN links
      PROVE  l[1] \in DOMAIN _map /\ l[2] = _map[l[1]] /\ l = Link(l[1], l[2])
  <2>1. PICK p \in DOMAIN _map : l = Link(p, _map[p])
    BY DEF MapMatchesLinks
  <2> QED BY <2>1, LinkEnds
<1> QED BY <1>1 DEF MapMatchesLinks

(***************************************************************************)
(* The converse, to establish MapMatchesLinks point by point.              *)
(***************************************************************************)
LEMMA MappedIsMatched ==
  ASSUME NEW L, NEW m,
         \A l \in L : l[1] \in DOMAIN m /\ l = Link(l[1], m[l[1]]),
         \A p \in DOMAIN m : Link(p, m[p]) \in L
  PROVE  L = {Link(p, m[p]) : p \in DOMAIN m}
OBVIOUS

LEMMA PeersAreMutual ==
  ASSUME OnePlan, MapWired, NEW p \in DOMAIN _map, _map[p] \in DOMAIN _map
  PROVE  _map[_map[p]] = p
<1>1. Plugged(p, _map[p]) /\ Plugged(_map[p], _map[_map[p]])
  BY DEF MapWired
<1>2. Plugged(_map[p], p)
  BY <1>1, PluggedIsSymmetric
<1> QED BY <1>1, <1>2, PluggedIsUnique

(***************************************************************************)
(* What _link_down takes out of the one book it takes out of the other,    *)
(* and tells.                                                              *)
(***************************************************************************)
LEMMA DownInBothBooks ==
  ASSUME OnePlan, BooksInv, NEW S
  PROVE  LET gone == LinksFrom(Linked(S)) IN
         /\ \A l \in DOMAIN links :
              /\ l \in gone \cup Reversed(gone) <=> l[1] \in Linked(S) \cup Peers(S)
              /\ l \in gone \cup Reversed(gone) <=> l \in Withdrawn(S)
<1> DEFINE gone == LinksFrom(Linked(S))
<1>1. SUFFICES ASSUME NEW l \in DOMAIN links
               PROVE  /\ l \in gone \cup Reversed(gone) <=> l[1] \in Linked(S) \cup Peers(S)
                      /\ l \in gone \cup Reversed(gone) <=> l \in Withdrawn(S)
  OBVIOUS
<1>2. l[1] \in DOMAIN _map /\ l[2] = _map[l[1]] /\ l = Link(l[1], l[2])
  BY LinkIsMapped DEF BooksInv
<1>3. Linked(S) \subseteq DOMAIN _map
  BY DEF Linked
<1>4. l \in gone <=> l[1] \in Linked(S)
  BY <1>2, LinkEnds DEF LinksFrom
<1>5. l \in Reversed(gone) => l[1] \in Peers(S)
  <2>1. ASSUME l \in Reversed(gone) PROVE l[1] \in Peers(S)
    <3>1. PICK k \in gone : l = Link(k[2], k[1])
      BY <2>1 DEF Reversed
    <3>2. PICK p \in Linked(S) : k = Link(p, _map[p])
      BY <3>1 DEF LinksFrom
    <3>3. l[1] = _map[p]
      BY <3>1, <3>2, LinkEnds
    <3> QED BY <3>3 DEF Peers
  <2> QED BY <2>1
<1>6. l[1] \in Peers(S) => l \in Reversed(gone)
  <2>1. ASSUME l[1] \in Peers(S) PROVE l \in Reversed(gone)
    <3>1. PICK p \in Linked(S) : l[1] = _map[p]
      BY <2>1 DEF Peers
    <3>2. l[2] = p
      BY <1>2, <1>3, <3>1, PeersAreMutual DEF BooksInv
    <3>3. Link(p, _map[p]) \in gone
      BY DEF LinksFrom
    <3>4. l = Link(Link(p, _map[p])[2], Link(p, _map[p])[1])
      BY <1>2, <3>1, <3>2, LinkEnds
    <3> QED BY <3>3, <3>4 DEF Reversed
  <2> QED BY <2>1
<1>7. l \in LinksFrom(Peers(S) \cap DOMAIN _map) <=> l[1] \in Peers(S)
  BY <1>2, LinkEnds DEF LinksFrom
<1> HIDE DEF gone
<1>8. l \in Withdrawn(S) <=> l \in gone \/ l \in LinksFrom(Peers(S) \cap DOMAIN _map)
  BY DEF Withdrawn, gone
<1> QED BY <1>4, <1>5, <1>6, <1>7, <1>8

LEMMA BooksLinkDowns ==
  ASSUME OnePlan, BooksInv, NEW S, NEW known, LinkDowns(S, known), DOMAIN dps' = known
  PROVE  BooksInv'
<1> DEFINE gone == LinksFrom(Linked(S))
           L == gone \cup Reversed(gone)
           P == Linked(S) \cup Peers(S)
<1>1. /\ DOMAIN links' = DOMAIN links \ L
      /\ DOMAIN _map' = DOMAIN _map \ P
      /\ \A p \in DOMAIN _map' : _map'[p] = _map[p]
      /\ view'.switches = known /\ view'.links = view.links \ Withdrawn(S)
  BY DEF LinkDowns, Without, Restrict
<1>2. \A l \in DOMAIN links : (l \in L <=> l[1] \in P) /\ (l \in L <=> l \in Withdrawn(S))
  BY DownInBothBooks
<1> HIDE DEF gone, L, P
<1>3. MapWired'
  BY <1>1 DEF MapWired, BooksInv
<1>4. \A l \in DOMAIN links' : l[1] \in DOMAIN _map' /\ l = Link(l[1], _map'[l[1]])
  BY <1>1, <1>2, LinkIsMapped DEF BooksInv
<1>5. ASSUME NEW p \in DOMAIN _map' PROVE Link(p, _map'[p]) \in DOMAIN links'
  <2>1. p \in DOMAIN _map /\ p \notin P /\ _map'[p] = _map[p]
    BY <1>1
  <2>2. Link(p, _map[p]) \in DOMAIN links
    BY <2>1, LinkIsMapped DEF BooksInv
  <2>3. Link(p, _map[p]) \notin L
    BY <1>2, <2>1, <2>2, LinkEnds
  <2> QED BY <1>1, <2>1, <2>2, <2>3
<1>6. DOMAIN links' = {Link(p, _map'[p]) : p \in DOMAIN _map'}
  BY <1>4, <1>5, MappedIsMatched
<1>7. MapMatchesLinks'
  BY <1>6 DEF MapMatchesLinks, BooksInv
<1>8. EventsTellAll'
  BY <1>1, <1>2 DEF EventsTellAll, BooksInv
<1>9. ViewOK'
  BY DEF LinkDowns, ViewOK
<1> QED BY <1>3, <1>7, <1>8, <1>9 DEF BooksInv

LEMMA BooksLldp ==
  ASSUME OnePlan, BooksInv, WorldInv, lldp_packet_in_handler
  PROVE  BooksInv'
<1> DEFINE src == Head(queue).src
           dst == Head(queue).dst
           old == IF src \in DOMAIN _map /\ _map[src] # dst THEN {Link(src, _map[src])} ELSE {}
           known == DOMAIN links \ old
           link == Link(src, dst)
<1>1. Plugged(src, dst)
  <2>1. EventOK(Head(queue)) /\ Head(queue).type = "lldp"
    BY QueueTail DEF WorldInv, lldp_packet_in_handler, Event
  <2> QED BY <2>1 DEF EventOK
<1>2. old = {}
  BY <1>1, PluggedIsUnique DEF BooksInv, MapWired
<1>3. UNCHANGED dps
  BY DEF lldp_packet_in_handler
<1>4. CASE UNCHANGED <<links, _map, view>>
  BY <1>3, <1>4 DEF BooksInv, ViewOK, MapWired, MapMatchesLinks, EventsTellAll
<1>5. CASE /\ links' = With(Without(links, old), link, "fresh")
           /\ _map' = With(_map, src, dst)
           /\ view' = [view EXCEPT !.links = IF link \in known THEN @ \ old ELSE (@ \ old) \cup {link}]
  <2>1. /\ DOMAIN links' = DOMAIN links \cup {link}
        /\ DOMAIN _map' = DOMAIN _map \cup {src} /\ _map'[src] = dst
        /\ \A p \in DOMAIN _map : p # src => _map'[p] = _map[p]
    BY <1>2, <1>5 DEF With, Without, Restrict
  <2>2. src \in DOMAIN _map => _map[src] = dst
    BY <1>2
  <2>3. /\ view'.switches = view.switches /\ view'.links = view.links \cup {link}
        /\ ViewOK'
    <3>1. ViewOK /\ view.links = DOMAIN links
      BY DEF BooksInv, EventsTellAll
    <3>2. \/ link \in view.links /\ view' = [view EXCEPT !.links = @ \ old]
          \/ view' = [view EXCEPT !.links = (@ \ old) \cup {link}]
      BY <1>2, <1>5, <3>1
    <3> HIDE DEF link, old
    <3> QED BY <1>2, <3>1, <3>2 DEF ViewOK
  <2>4. link[1] = src /\ link[2] = dst /\ link = Link(src, dst)
    BY LinkEnds
  <2> HIDE DEF src, dst, old, known, link
  <2>5. \A p \in DOMAIN _map : _map'[p] = _map[p]
    BY <2>1, <2>2
  <2>6. MapWired'
    BY <1>1, <2>1, <2>5 DEF BooksInv, MapWired
  <2>7. \A l \in DOMAIN links' : l[1] \in DOMAIN _map' /\ l = Link(l[1], _map'[l[1]])
    BY <2>1, <2>4, <2>5, LinkIsMapped DEF BooksInv
  <2>8. \A p \in DOMAIN _map' : Link(p, _map'[p]) \in DOMAIN links'
    BY <2>1, <2>4, <2>5, LinkIsMapped DEF BooksInv
  <2>9. MapMatchesLinks'
    BY <1>3, <2>7, <2>8, MappedIsMatched DEF BooksInv, MapMatchesLinks
  <2>10. EventsTellAll'
    BY <1>3, <2>1, <2>3 DEF BooksInv, EventsTellAll
  <2> QED BY <2>3, <2>6, <2>9, <2>10 DEF BooksInv
<1> QED BY <1>4, <1>5 DEF lldp_packet_in_handler

(***************************************************************************)
(* Links in the books have different sources, which have a peer: link_loop *)
(* takes them out of both books, and if a link is no longer there, out of  *)
(* none.                                                                   *)
(***************************************************************************)
LEMMA BooksLinkLoop ==
  ASSUME BooksInv, LinkLoop
  PROVE  BooksInv'
<1>1. UNCHANGED dps
  BY DEF LinkLoop, LinkLoopStarts, LinkLoopGoesOn
<1>2. CASE DOMAIN links' = DOMAIN links /\ UNCHANGED <<_map, view>>
  BY <1>1, <1>2 DEF BooksInv, ViewOK, MapWired, MapMatchesLinks, EventsTellAll
<1>3. ASSUME NEW d \in DOMAIN links, TakesDown(d) PROVE BooksInv'
  <2>1. /\ DOMAIN links' = DOMAIN links \ {d}
        /\ view'.switches = view.switches /\ view'.links = view.links \ {d}
        /\ ViewOK'
    BY <1>3 DEF TakesDown, BooksInv, ViewOK
  <2>2. /\ DOMAIN _map' = DOMAIN _map \ {d[1]}
        /\ \A p \in DOMAIN _map' : _map'[p] = _map[p]
    BY <1>3 DEF TakesDown, Unmapped, Without, Restrict
  <2>3. MapWired'
    BY <2>2 DEF BooksInv, MapWired
  <2>4. ASSUME NEW l \in DOMAIN links' PROVE l[1] \in DOMAIN _map' /\ l = Link(l[1], _map'[l[1]])
    <3>1. l \in DOMAIN links /\ l # d
      BY <2>1
    <3>2. l[1] # d[1]
      BY <3>1, LinkIsMapped DEF BooksInv
    <3>3. l[1] \in DOMAIN _map'
      BY <2>2, <3>1, <3>2, LinkIsMapped DEF BooksInv
    <3> QED BY <2>2, <3>1, <3>3, LinkIsMapped DEF BooksInv
  <2>5. ASSUME NEW p \in DOMAIN _map' PROVE Link(p, _map'[p]) \in DOMAIN links'
    <3>1. p \in DOMAIN _map /\ _map'[p] = _map[p] /\ p # d[1]
      BY <2>2
    <3>2. Link(p, _map[p]) \in DOMAIN links
      BY <3>1, LinkIsMapped DEF BooksInv
    <3>3. Link(p, _map[p]) # d
      BY <3>1, LinkEnds
    <3> QED BY <2>1, <3>1, <3>2, <3>3
  <2>6. MapMatchesLinks'
    BY <2>4, <2>5, MappedIsMatched DEF MapMatchesLinks
  <2>7. EventsTellAll'
    BY <1>1, <2>1 DEF BooksInv, EventsTellAll
  <2> QED BY <2>1, <2>3, <2>6, <2>7 DEF BooksInv
<1>4. ASSUME NEW d, FailsOn(d) PROVE BooksInv'
  <2>1. d \notin DOMAIN links
    BY <1>4, LinkIsMapped DEF FailsOn, BooksInv
  <2> QED BY <1>2, <1>4, <2>1 DEF FailsOn
<1> QED BY <1>2, <1>3, <1>4, LoopTakesDown

LEMMA BooksKept ==
  ASSUME BooksInv, UNCHANGED _map, DOMAIN links' = DOMAIN links,
         ViewOK', view'.links = view.links, view'.switches = DOMAIN dps'
  PROVE  BooksInv'
BY DEF BooksInv, MapWired, MapMatchesLinks, EventsTellAll

LEMMA BooksNext ==
  ASSUME OnePlan, BooksInv, WorldInv, [Next]_vars
  PROVE  BooksInv'
<1> DEFINE e == Head(queue)
<1>0. view.switches = DOMAIN dps /\ ViewOK
  BY DEF BooksInv, EventsTellAll
<1>1. CASE UNCHANGED <<dps, links, _map, view>>
  BY <1>0, <1>1, BooksKept DEF ViewOK
<1>2. CASE SwitchMain
  <2>1. /\ UNCHANGED <<_map, links>>
        /\ dps' = With(dps, e.s, e.n) /\ view' = [view EXCEPT !.switches = @ \cup {e.s}]
    BY <1>2 DEF SwitchMain
  <2> HIDE DEF e
  <2>2. DOMAIN dps' = DOMAIN dps \cup {e.s}
    BY <2>1 DEF With
  <2>3. view'.links = view.links /\ view'.switches = view.switches \cup {e.s} /\ ViewOK'
    BY <1>0, <2>1 DEF ViewOK
  <2> QED BY <1>0, <2>1, <2>2, <2>3, BooksKept
<1>3. CASE SwitchDead
  <2>1. CASE \E S : LinkDowns(S, view.switches \ {e.s}) /\ dps' = Without(dps, {e.s})
    <3>1. PICK S : LinkDowns(S, view.switches \ {e.s}) /\ dps' = Without(dps, {e.s})
      BY <2>1
    <3>2. DOMAIN dps' = view.switches \ {e.s}
      BY <1>0, <3>1 DEF Without, Restrict
    <3> QED BY <3>1, <3>2, BooksLinkDowns
  <2> QED BY <1>1, <1>3, <2>1 DEF SwitchDead
<1>4. CASE PortDelete \/ PortModify
  <2>1. CASE \E S : LinkDowns(S, view.switches)
    <3>1. PICK S : LinkDowns(S, view.switches)
      BY <2>1
    <3>2. UNCHANGED dps
      BY <1>4 DEF PortDelete, PortModify
    <3> QED BY <1>0, <3>1, <3>2, BooksLinkDowns
  <2> QED BY <1>1, <1>4, <2>1 DEF PortDelete, PortModify
<1>5. CASE PortAdd \/ host_discovery_packet_in_handler
  BY <1>1, <1>5 DEF PortAdd, host_discovery_packet_in_handler
<1>6. CASE lldp_packet_in_handler
  BY <1>6, BooksLldp
<1>7. CASE LinkLoop
  BY <1>7, BooksLinkLoop
<1>8. ASSUME NEW l, LinkAges(l) PROVE BooksInv'
  BY <1>0, <1>8, BooksKept DEF LinkAges, ViewOK
<1>9. CASE \/ Recable
           \/ \E s \in Switches : SwitchConnects(s) \/ SwitchDrops(s) \/ ControllerNotices(s)
  BY <1>1, <1>9 DEF Recable, SwitchConnects, SwitchDrops, ControllerNotices, state
<1>10. CASE \/ \E p \in Ports : PortChanges(p) \/ send_lldp_packet(p) \/ LldpArrives(p)
            \/ \E p \in HostPorts : HostFrame(p)
  BY <1>1, <1>10 DEF PortChanges, send_lldp_packet, LldpArrives, HostFrame, state
<1>11. CASE UNCHANGED vars
  BY <1>1, <1>11 DEF vars, state
<1> QED BY <1>2, <1>3, <1>4, <1>5, <1>6, <1>7, <1>8, <1>9, <1>10, <1>11 DEF Next, Handlers

LEMMA BooksInvariant ==
  ASSUME OnePlan
  PROVE  Spec => [](WorldInv /\ BooksInv)
<1>1. Init => BooksInv
  BY DEF Init, BooksInv, ViewOK, MapWired, MapMatchesLinks, EventsTellAll
<1>2. WorldInv /\ BooksInv /\ [Next]_vars => (WorldInv /\ BooksInv)'
  BY WorldNext, BooksNext
<1> QED BY <1>1, <1>2, WorldInit, PTL DEF Spec

(***************************************************************************)
(* As long as no cable is moved, the two books of LinkState agree, also    *)
(* when link_loop works off a list of links that handlers have changed in  *)
(* the meantime (link_down, port_deleted, update_link).                    *)
(***************************************************************************)
THEOREM BooksAgree ==
  ASSUME OnePlan
  PROVE  Spec => []MapMatchesLinks
<1>1. WorldInv /\ BooksInv => MapMatchesLinks
  BY DEF BooksInv
<1> QED BY <1>1, BooksInvariant, PTL

(***************************************************************************)
(* As long as no cable is moved, who has followed the events knows the     *)
(* switches and links that a request would return.                         *)
(***************************************************************************)
THEOREM ObserversKnowAll ==
  ASSUME OnePlan
  PROVE  Spec => []EventsTellAll
<1>1. WorldInv /\ BooksInv => EventsTellAll
  BY DEF BooksInv
<1> QED BY <1>1, BooksInvariant, PTL

-----------------------------------------------------------------------------
(***************************************************************************)
(* What the discovery knows of a switch (its connection and its ports, or  *)
(* nothing), what it will know when it has handled the events that wait,   *)
(* and what an event makes of it.                                          *)
(***************************************************************************)
Nothing == [n |-> 0, P |-> {}]
Now(s) == IF s \in DOMAIN dps THEN [n |-> dps[s], P |-> DOMAIN port_state[s]] ELSE Nothing
Present(s) == {p \in PortsOf(s) : phys[p] # "absent"}
AtLast(s) == IF conn[s].last \in open[s] THEN [n |-> conn[s].last, P |-> Present(s)] ELSE Nothing

After(e, s, k) ==
  IF e.s # s THEN k
  ELSE IF e.type = "main" THEN [n |-> e.n, P |-> IF k.n = 0 THEN DOMAIN e.ports ELSE k.P]
  ELSE IF e.type = "dead" THEN IF k.n = e.n THEN Nothing ELSE k
  ELSE IF k.n = 0 THEN k
  ELSE IF e.type \in {"add", "modify"} THEN [n |-> k.n, P |-> k.P \cup {e.port}]
  ELSE IF e.type = "delete" THEN [n |-> k.n, P |-> k.P \ {e.port}]
  ELSE k

(***************************************************************************)
(* A port that is modified is known when the event is handled.             *)
(***************************************************************************)
Expected(e, s, k) == e.s = s /\ e.type = "modify" /\ k.n # 0 => e.port \in k.P

Replay(q, s, a, z) ==
  \E f : /\ f[1] = a /\ f[Len(q) + 1] = z
         /\ \A i \in 1..Len(q) : f[i + 1] = After(q[i], s, f[i]) /\ Expected(q[i], s, f[i])

(***************************************************************************)
(* With ports that change only while the controller can hear of it, the    *)
(* events that wait lead from what is known to what is the case.           *)
(***************************************************************************)
ReplayInv == \A s \in Switches : Replay(queue, s, Now(s), AtLast(s))
TrackInv ==
  /\ DOMAIN port_state = DOMAIN dps
  /\ \A p : p \in DOMAIN ports <=> HasPort(p)
  /\ \A l \in DOMAIN links : l[1] \in DOMAIN ports
  /\ ReplayInv

LEMMA ReplayTail ==
  ASSUME NEW q, IsSeq(q), q # << >>, NEW s, NEW a, NEW z, Replay(q, s, a, z)
  PROVE  Replay(Tail(q), s, After(Head(q), s, a), z) /\ Expected(Head(q), s, a)
<1>1. /\ Head(q) = q[1] /\ Len(q) \in Nat /\ Len(q) >= 1 /\ Len(Tail(q)) = Len(q) - 1
      /\ \A i \in 1..(Len(q) - 1) : Tail(q)[i] = q[i + 1]
  BY SeqTail
<1>2. PICK f : /\ f[1] = a /\ f[Len(q) + 1] = z
               /\ \A i \in 1..Len(q) : f[i + 1] = After(q[i], s, f[i]) /\ Expected(q[i], s, f[i])
  BY DEF Replay
<1>3. f[1 + 1] = After(q[1], s, f[1]) /\ Expected(q[1], s, f[1])
  <2>1. 1 \in 1..Len(q)
    BY <1>1
  <2> QED BY <1>2, <2>1
<1> DEFINE g == [i \in 1..Len(q) |-> f[i + 1]]
<1>4. g[1] = After(Head(q), s, a) /\ Expected(Head(q), s, a)
  BY <1>1, <1>2, <1>3
<1>5. g[Len(Tail(q)) + 1] = z
  <2>1. Len(Tail(q)) + 1 \in 1..Len(q) /\ (Len(Tail(q)) + 1) + 1 = Len(q) + 1
    BY <1>1
  <2> QED BY <1>2, <2>1
<1>6. ASSUME NEW i \in 1..Len(Tail(q))
      PROVE  g[i + 1] = After(Tail(q)[i], s, g[i]) /\ Expected(Tail(q)[i], s, g[i])
  <2>1. i + 1 \in 1..Len(q) /\ i \in 1..Len(q) /\ Tail(q)[i] = q[i + 1]
    BY <1>1
  <2>2. f[(i + 1) + 1] = After(q[i + 1], s, f[i + 1]) /\ Expected(q[i + 1], s, f[i + 1])
    BY <1>2, <2>1
  <2> QED BY <2>1, <2>2
<1> HIDE DEF g
<1>7. Replay(Tail(q), s, After(Head(q), s, a), z)
  BY <1>4, <1>5, <1>6 DEF Replay
<1> QED BY <1>4, <1>7

LEMMA ReplayAppend ==
  ASSUME NEW q, IsSeq(q), NEW s, NEW a, NEW z, Replay(q, s, a, z), NEW e, Expected(e, s, z)
  PROVE  Replay(Append(q, e), s, a, After(e, s, z))
<1>1. /\ Len(q) \in Nat /\ Len(Append(q, e)) = Len(q) + 1
      /\ \A i \in 1..Len(q) : Append(q, e)[i] = q[i]
      /\ Append(q, e)[Len(q) + 1] = e
  BY SeqAppend
<1>2. PICK f : /\ f[1] = a /\ f[Len(q) + 1] = z
               /\ \A i \in 1..Len(q) : f[i + 1] = After(q[i], s, f[i]) /\ Expected(q[i], s, f[i])
  BY DEF Replay
<1> DEFINE g == [i \in 1..(Len(q) + 2) |-> IF i = Len(q) + 2 THEN After(e, s, z) ELSE f[i]]
<1>3. \A i \in 1..(Len(q) + 1) : g[i] = f[i]
  BY <1>1
<1>4. g[Len(q) + 2] = After(e, s, z)
  BY <1>1
<1> HIDE DEF g
<1>5. g[1] = a
  BY <1>1, <1>2, <1>3
<1>6. ASSUME NEW i \in 1..Len(Append(q, e))
      PROVE  /\ g[i + 1] = After(Append(q, e)[i], s, g[i])
             /\ Expected(Append(q, e)[i], s, g[i])
  <2>1. CASE i = Len(q) + 1
    <3>1. g[i] = z /\ i + 1 = Len(q) + 2 /\ Append(q, e)[i] = e
      BY <1>1, <1>2, <1>3, <2>1
    <3> QED BY <1>4, <3>1
  <2>2. CASE i \in 1..Len(q)
    <3>1. /\ g[i] = f[i] /\ g[i + 1] = f[i + 1] /\ Append(q, e)[i] = q[i]
      BY <1>1, <1>3, <2>2
    <3> QED BY <1>2, <2>2, <3>1
  <2> QED BY <1>1, <2>1, <2>2
<1>7. g[Len(Append(q, e)) + 1] = After(e, s, z)
  <2>1. Len(Append(q, e)) + 1 = Len(q) + 2
    BY <1>1
  <2> QED BY <1>4, <2>1
<1> QED BY <1>5, <1>6, <1>7 DEF Replay

(***************************************************************************)
(* The handlers do with what is known what After says.                     *)
(***************************************************************************)
LEMMA TrackHandles ==
  ASSUME WorldInv, TrackInv, queue # << >>, queue' = Tail(queue), UNCHANGED world,
         \A s \in Switches : Now(s)' = After(Head(queue), s, Now(s))
  PROVE  ReplayInv'
<1>1. SUFFICES ASSUME NEW s \in Switches
               PROVE  Replay(queue', s, Now(s)', AtLast(s)')
  BY DEF ReplayInv
<1>2. AtLast(s)' = AtLast(s)
  BY DEF AtLast, Present, world
<1>3. Replay(queue, s, Now(s), AtLast(s)) /\ IsSeq(queue)
  BY DEF TrackInv, ReplayInv, WorldInv, QueueOK
<1>4. Replay(Tail(queue), s, After(Head(queue), s, Now(s)), AtLast(s))
  BY <1>3, ReplayTail
<1> QED BY <1>2, <1>4

LEMMA HeadExpected ==
  ASSUME WorldInv, TrackInv, queue # << >>
  PROVE  EventOK(Head(queue)) /\ Expected(Head(queue), Head(queue).s, Now(Head(queue).s))
<1>1. EventOK(Head(queue)) /\ IsSeq(queue)
  BY QueueTail DEF WorldInv, QueueOK
<1>2. Head(queue).s \in Switches
  BY <1>1 DEF EventOK
<1>3. Replay(queue, Head(queue).s, Now(Head(queue).s), AtLast(Head(queue).s))
  BY <1>2 DEF TrackInv, ReplayInv
<1> QED BY <1>1, <1>3, ReplayTail

LEMMA NowKept ==
  ASSUME NEW s, UNCHANGED <<dps, port_state>>
  PROVE  Now(s)' = Now(s)
BY DEF Now

LEMMA LinkDownsCuts ==
  ASSUME BooksInv, NEW S, NEW known, LinkDowns(S, known)
  PROVE  \A l \in DOMAIN links' : l \in DOMAIN links /\ l[1] \notin S
<1> DEFINE gone == LinksFrom(Linked(S))
<1>1. DOMAIN links' = DOMAIN links \ (gone \cup Reversed(gone))
  BY DEF LinkDowns, Without, Restrict
<1>2. ASSUME NEW l \in DOMAIN links, l[1] \in S PROVE l \in gone
  <2>1. l[1] \in DOMAIN _map /\ l = Link(l[1], _map[l[1]])
    BY LinkIsMapped DEF BooksInv
  <2> QED BY <1>2, <2>1 DEF LinksFrom, Linked
<1> HIDE DEF gone
<1> QED BY <1>1, <1>2

LEMMA TrackMain ==
  ASSUME WorldInv, TrackInv, SwitchMain
  PROVE  TrackInv'
<1> DEFINE e == Head(queue)
<1>1. /\ queue # << >> /\ e.type = "main" /\ queue' = Tail(queue) /\ UNCHANGED world
      /\ dps' = With(dps, e.s, e.n) /\ links' = links
      /\ port_state' = IF e.s \in DOMAIN port_state THEN port_state ELSE With(port_state, e.s, e.ports)
      /\ ports' = IF e.s \in DOMAIN dps THEN ports ELSE PortsAdded(port_state'[e.s])
  BY DEF SwitchMain, Event
<1>2. /\ e.n \in Nat \ {0} /\ DOMAIN e.ports \subseteq PortsOf(e.s)
  BY <1>1, HeadExpected DEF EventOK
<1> HIDE DEF e
<1>3. DOMAIN port_state = DOMAIN dps /\ \A s \in DOMAIN dps : dps[s] \in Nat \ {0}
  BY DEF TrackInv, WorldInv, PortStateOK
<1>4. DOMAIN port_state' = DOMAIN dps' /\ DOMAIN dps' = DOMAIN dps \cup {e.s}
  BY <1>1, <1>3 DEF With
<1>5. \A s : s # e.s /\ s \in DOMAIN dps => port_state'[s] = port_state[s] /\ dps'[s] = dps[s]
  BY <1>1, <1>3 DEF With
<1>6. dps'[e.s] = e.n
  BY <1>1 DEF With
<1>7. e.s \in DOMAIN dps => port_state' = port_state /\ ports' = ports
  BY <1>1, <1>3
<1>8. e.s \notin DOMAIN dps => /\ port_state'[e.s] = e.ports
                               /\ DOMAIN ports' = DOMAIN ports \cup DOMAIN e.ports
  BY <1>1, <1>3 DEF With, PortsAdded
<1>9. \A p : p \in DOMAIN ports' <=> HasPort(p)'
  <2>1. CASE e.s \in DOMAIN dps
    <3>1. DOMAIN dps' = DOMAIN dps
      BY <1>4, <2>1
    <3> QED BY <1>7, <2>1, <3>1 DEF TrackInv, HasPort
  <2>2. CASE e.s \notin DOMAIN dps
    <3>1. SUFFICES ASSUME NEW p PROVE p \in DOMAIN ports' <=> HasPort(p)'
      OBVIOUS
    <3>2. p \in DOMAIN e.ports => p[1] = e.s
      BY <1>2 DEF PortsOf
    <3>3. p \in DOMAIN ports <=> p[1] \in DOMAIN dps /\ p \in DOMAIN port_state[p[1]]
      BY DEF TrackInv, HasPort
    <3>4. HasPort(p)' <=> p[1] \in DOMAIN dps' /\ p \in DOMAIN port_state'[p[1]]
      BY DEF HasPort
    <3> QED BY <1>4, <1>5, <1>8, <2>2, <3>2, <3>3, <3>4
  <2> QED BY <2>1, <2>2
<1>10. \A l \in DOMAIN links' : l[1] \in DOMAIN ports'
  BY <1>1, <1>7, <1>8 DEF TrackInv
<1>11. ASSUME NEW s \in Switches PROVE Now(s)' = After(e, s, Now(s))
  <2>1. CASE s # e.s
    BY <1>4, <1>5, <2>1 DEF Now, After
  <2>2. CASE s = e.s /\ s \in DOMAIN dps
    <3>1. Now(s) = [n |-> dps[s], P |-> DOMAIN port_state[s]] /\ Now(s).n # 0
      BY <1>3, <2>2 DEF Now
    <3>2. Now(s)' = [n |-> e.n, P |-> DOMAIN port_state[s]]
      BY <1>4, <1>6, <1>7, <2>2 DEF Now
    <3> QED BY <1>1, <2>2, <3>1, <3>2 DEF After
  <2>3. CASE s = e.s /\ s \notin DOMAIN dps
    <3>1. Now(s).n = 0
      BY <2>3 DEF Now, Nothing
    <3>2. Now(s)' = [n |-> e.n, P |-> DOMAIN e.ports]
      BY <1>4, <1>6, <1>8, <2>3 DEF Now
    <3> QED BY <1>1, <2>3, <3>1, <3>2 DEF After
  <2> QED BY <2>1, <2>2, <2>3
<1>12. ReplayInv'
  BY <1>1, <1>11, TrackHandles DEF e
<1> QED BY <1>4, <1>9, <1>10, <1>12 DEF TrackInv

LEMMA TrackDead ==
  ASSUME WorldInv, BooksInv, TrackInv, SwitchDead
  PROVE  TrackInv'
<1> DEFINE e == Head(queue)
<1>1. /\ queue # << >> /\ e.type = "dead" /\ queue' = Tail(queue) /\ UNCHANGED world
  BY DEF SwitchDead, Event
<1>2. e.n \in Nat \ {0}
  BY <1>1, HeadExpected DEF EventOK
<1>3. DOMAIN port_state = DOMAIN dps /\ \A s \in DOMAIN dps : dps[s] \in Nat \ {0}
  BY DEF TrackInv, WorldInv, PortStateOK
<1>4. CASE e.s \notin DOMAIN dps \/ dps[e.s] # e.n
  <2>1. UNCHANGED <<dps, port_state, ports, links>>
    BY <1>4 DEF SwitchDead
  <2> HIDE DEF e
  <2>2. ASSUME NEW s \in Switches PROVE Now(s)' = After(e, s, Now(s))
    <3>1. Now(s)' = Now(s)
      BY <2>1, NowKept
    <3>2. s = e.s => Now(s).n # e.n
      BY <1>2, <1>4 DEF Now, Nothing
    <3> QED BY <1>1, <3>1, <3>2 DEF After
  <2>3. ReplayInv'
    BY <1>1, <2>2, TrackHandles DEF e
  <2> QED BY <2>1, <2>3 DEF TrackInv, HasPort
<1>5. CASE e.s \in DOMAIN dps /\ dps[e.s] = e.n
  <2> DEFINE mine == DOMAIN port_state[e.s]
  <2>1. mine \ DOMAIN ports = {}
    <3>1. \A p \in mine : p[1] = e.s
      BY <1>3, <1>5 DEF WorldInv, PortStateOK, PortsOf
    <3> QED BY <1>5, <3>1 DEF TrackInv, HasPort
  <2>2. /\ dps' = Without(dps, {e.s}) /\ port_state' = Without(port_state, {e.s})
        /\ ports' = Without(ports, mine)
        /\ LinkDowns(mine, view.switches \ {e.s})
    BY <1>5, <2>1 DEF SwitchDead
  <2> HIDE DEF e, mine
  <2>3. /\ DOMAIN dps' = DOMAIN dps \ {e.s} /\ DOMAIN port_state' = DOMAIN dps \ {e.s}
        /\ DOMAIN ports' = DOMAIN ports \ mine
        /\ \A s \in DOMAIN dps' : dps'[s] = dps[s] /\ port_state'[s] = port_state[s]
    BY <1>3, <2>2 DEF Without, Restrict
  <2>4. ASSUME NEW p PROVE p \in DOMAIN ports' <=> HasPort(p)'
    <3>1. p \in DOMAIN ports <=> p[1] \in DOMAIN dps /\ p \in DOMAIN port_state[p[1]]
      BY DEF TrackInv, HasPort
    <3>2. HasPort(p)' <=> p[1] \in DOMAIN dps' /\ p \in DOMAIN port_state'[p[1]]
      BY DEF HasPort
    <3>3. p \in mine => p[1] = e.s
      BY <1>3, <1>5 DEF WorldInv, PortStateOK, PortsOf, mine
    <3>4. p[1] = e.s /\ p \in DOMAIN ports => p \in mine
      BY <3>1 DEF mine
    <3> QED BY <2>3, <3>1, <3>2, <3>3, <3>4
  <2>5. \A l \in DOMAIN links' : l[1] \in DOMAIN ports'
    BY <2>2, <2>3, LinkDownsCuts DEF TrackInv
  <2>6. ASSUME NEW s \in Switches PROVE Now(s)' = After(e, s, Now(s))
    <3>1. CASE s # e.s
      BY <2>3, <3>1 DEF Now, After
    <3>2. CASE s = e.s
      <4>1. Now(s).n = e.n
        BY <1>5, <3>2 DEF Now
      <4>2. Now(s)' = Nothing
        BY <2>3, <3>2 DEF Now
      <4> QED BY <1>1, <3>2, <4>1, <4>2 DEF After
    <3> QED BY <3>1, <3>2
  <2>7. ReplayInv'
    BY <1>1, <2>6, TrackHandles DEF e
  <2> QED BY <2>3, <2>4, <2>5, <2>7 DEF TrackInv
<1> QED BY <1>4, <1>5

(***************************************************************************)
(* The three kinds of port changes.                                        *)
(***************************************************************************)
LEMMA TrackPort ==
  ASSUME WorldInv, TrackInv, queue # << >>, queue' = Tail(queue), UNCHANGED <<dps, world>>,
         Head(queue).type \in {"add", "delete", "modify"},
         Head(queue).s \in DOMAIN dps,
         DOMAIN port_state' = DOMAIN port_state,
         DOMAIN port_state'[Head(queue).s] =
           IF Head(queue).type = "delete" THEN DOMAIN port_state[Head(queue).s] \ {Head(queue).port}
           ELSE DOMAIN port_state[Head(queue).s] \cup {Head(queue).port},
         \A s \in DOMAIN dps : s # Head(queue).s => port_state'[s] = port_state[s],
         DOMAIN ports' = IF Head(queue).type = "delete" THEN DOMAIN ports \ {Head(queue).port}
                         ELSE DOMAIN ports \cup {Head(queue).port},
         \A l \in DOMAIN links' : l[1] \in DOMAIN ports'
  PROVE  TrackInv'
<1> DEFINE e == Head(queue)
<1>1. e.port[1] = e.s
  BY HeadExpected DEF EventOK, PortsOf
<1>2. DOMAIN port_state = DOMAIN dps /\ dps[e.s] # 0
  BY DEF TrackInv, WorldInv, PortStateOK
<1> HIDE DEF e
<1>3. ASSUME NEW s \in Switches PROVE Now(s)' = After(e, s, Now(s))
  <2>1. CASE s # e.s
    BY <2>1 DEF Now, After, e
  <2>2. CASE s = e.s
    <3>1. Now(s) = [n |-> dps[s], P |-> DOMAIN port_state[s]] /\ Now(s).n # 0
      BY <1>2, <2>2 DEF Now, e
    <3>2. Now(s)' = [n |-> dps[s], P |-> DOMAIN port_state'[s]]
      BY <2>2 DEF Now, e
    <3>3. Now(s).n = dps[s] /\ Now(s).P = DOMAIN port_state[s]
      BY <3>1
    <3>4. CASE e.type = "delete"
      <4>1. After(e, s, Now(s)) = [n |-> Now(s).n, P |-> Now(s).P \ {e.port}]
        BY <2>2, <3>1, <3>4 DEF After
      <4> QED BY <2>2, <3>2, <3>3, <3>4, <4>1 DEF e
    <3>5. CASE e.type \in {"add", "modify"}
      <4>1. After(e, s, Now(s)) = [n |-> Now(s).n, P |-> Now(s).P \cup {e.port}]
        BY <2>2, <3>1, <3>5 DEF After
      <4> QED BY <2>2, <3>2, <3>3, <3>5, <4>1 DEF e
    <3> QED BY <3>4, <3>5 DEF e
  <2> QED BY <2>1, <2>2
<1>4. ReplayInv'
  BY <1>3, TrackHandles DEF e
<1>5. ASSUME NEW p PROVE p \in DOMAIN ports' <=> HasPort(p)'
  <2>1. p \in DOMAIN ports <=> p[1] \in DOMAIN dps /\ p \in DOMAIN port_state[p[1]]
    BY DEF TrackInv, HasPort
  <2>2. HasPort(p)' <=> p[1] \in DOMAIN dps /\ p \in DOMAIN port_state'[p[1]]
    BY DEF HasPort
  <2>3. CASE p[1] = e.s
    BY <2>1, <2>2, <2>3 DEF e
  <2>4. CASE p[1] # e.s
    BY <1>1, <2>1, <2>2, <2>4 DEF e
  <2> QED BY <2>3, <2>4
<1> QED BY <1>2, <1>4, <1>5 DEF TrackInv

LEMMA TrackPortChange ==
  ASSUME WorldInv, BooksInv, TrackInv, PortAdd \/ PortDelete \/ PortModify
  PROVE  TrackInv'
<1> DEFINE e == Head(queue)
<1>1. /\ queue # << >> /\ e.type \in {"add", "delete", "modify"} /\ queue' = Tail(queue)
      /\ UNCHANGED <<dps, world>>
  BY DEF PortAdd, PortDelete, PortModify, Event
<1>2. e.port[1] = e.s
  BY <1>1, HeadExpected DEF EventOK, PortsOf
<1>3. DOMAIN port_state = DOMAIN dps /\ \A p : p \in DOMAIN ports <=> HasPort(p)
  BY DEF TrackInv
<1>4. CASE UNCHANGED <<port_state, ports, links>> /\ \A s \in Switches : After(e, s, Now(s)) = Now(s)
  <2>1. \A s \in Switches : Now(s)' = After(e, s, Now(s))
    BY <1>1, <1>4, NowKept
  <2>2. ReplayInv'
    BY <1>1, <2>1, TrackHandles
  <2> QED BY <1>1, <1>4, <2>2 DEF TrackInv, HasPort
<1>5. CASE e.s \notin DOMAIN dps
  <2>1. UNCHANGED <<port_state, ports, links>>
    BY <1>2, <1>3, <1>5 DEF PortAdd, PortDelete, PortModify, HasPort
  <2> HIDE DEF e
  <2>2. \A s \in Switches : After(e, s, Now(s)) = Now(s)
    BY <1>1, <1>5 DEF After, Now, Nothing
  <2> QED BY <1>4, <2>1, <2>2
<1>6. CASE PortAdd /\ e.s \in DOMAIN dps
  <2>1. /\ e.type = "add" /\ links' = links
        /\ port_state' = [port_state EXCEPT ![e.s] = With(@, e.port, e.down)]
        /\ ports' = PortAdded(ports, e.port, e.down)
    BY <1>3, <1>6 DEF PortAdd, Event
  <2> HIDE DEF e
  <2>2. /\ DOMAIN port_state' = DOMAIN port_state
        /\ DOMAIN port_state'[e.s] = DOMAIN port_state[e.s] \cup {e.port}
        /\ \A s \in DOMAIN dps : s # e.s => port_state'[s] = port_state[s]
    BY <1>3, <1>6, <2>1 DEF With
  <2>3. DOMAIN ports' = DOMAIN ports \cup {e.port}
    BY <2>1 DEF PortAdded, With
  <2>4. \A l \in DOMAIN links' : l[1] \in DOMAIN ports'
    BY <2>1, <2>3 DEF TrackInv
  <2> QED BY <1>1, <1>6, <2>1, <2>2, <2>3, <2>4, TrackPort DEF e
<1>7. CASE PortModify /\ e.s \in DOMAIN dps
  <2>1. e.type = "modify" /\ e.port \in DOMAIN port_state[e.s]
    <3>1. e.type = "modify" /\ Expected(e, e.s, Now(e.s))
      BY <1>1, <1>7, HeadExpected DEF PortModify, Event
    <3>2. Now(e.s).n # 0 /\ Now(e.s).P = DOMAIN port_state[e.s]
      BY <1>7 DEF Now, WorldInv, PortStateOK
    <3> QED BY <3>1, <3>2 DEF Expected
  <2>2. e.port \in DOMAIN ports
    BY <1>2, <1>3, <1>7, <2>1 DEF HasPort
  <2>3. /\ port_state' = [port_state EXCEPT ![e.s] = With(@, e.port, e.down)]
        /\ ports' = [ports EXCEPT ![e.port].is_down = e.down]
        /\ \E S : LinkDowns(S, view.switches)
    BY <1>3, <1>7, <2>2 DEF PortModify
  <2> HIDE DEF e
  <2>4. /\ DOMAIN port_state' = DOMAIN port_state
        /\ DOMAIN port_state'[e.s] = DOMAIN port_state[e.s] \cup {e.port}
        /\ \A s \in DOMAIN dps : s # e.s => port_state'[s] = port_state[s]
    BY <1>3, <1>7, <2>3 DEF With
  <2>5. DOMAIN ports' = DOMAIN ports \cup {e.port}
    BY <2>2, <2>3
  <2>6. \A l \in DOMAIN links' : l[1] \in DOMAIN ports'
    BY <2>3, <2>5, LinkDownsCuts DEF TrackInv
  <2> QED BY <1>1, <1>7, <2>1, <2>4, <2>5, <2>6, TrackPort DEF e
<1>8. CASE PortDelete /\ e.s \in DOMAIN dps /\ HasPort(e.port)
  <2>1. /\ e.type = "delete"
        /\ ports' = Without(ports, {e.port})
        /\ port_state' = [port_state EXCEPT ![e.s] = Without(@, {e.port})]
        /\ LinkDowns({e.port}, view.switches)
    BY <1>3, <1>8 DEF PortDelete, Event
  <2> HIDE DEF e
  <2>2. /\ DOMAIN port_state' = DOMAIN port_state
        /\ DOMAIN port_state'[e.s] = DOMAIN port_state[e.s] \ {e.port}
        /\ \A s \in DOMAIN dps : s # e.s => port_state'[s] = port_state[s]
    BY <1>3, <1>8, <2>1 DEF Without, Restrict
  <2>3. DOMAIN ports' = DOMAIN ports \ {e.port}
    BY <2>1 DEF Without, Restrict
  <2>4. \A l \in DOMAIN links' : l[1] \in DOMAIN ports'
    BY <2>1, <2>3, LinkDownsCuts DEF TrackInv
  <2> QED BY <1>1, <1>8, <2>1, <2>2, <2>3, <2>4, TrackPort DEF e
<1>9. CASE PortDelete /\ e.s \in DOMAIN dps /\ ~HasPort(e.port)
  <2>1. UNCHANGED <<port_state, ports, links>> /\ e.type = "delete"
    BY <1>9 DEF PortDelete, Event
  <2>2. e.port \notin DOMAIN port_state[e.s]
    BY <1>2, <1>9 DEF HasPort
  <2> HIDE DEF e
  <2>3. ASSUME NEW s \in Switches PROVE After(e, s, Now(s)) = Now(s)
    <3>1. CASE s # e.s
      BY <3>1 DEF After
    <3>2. CASE s = e.s
      <4>1. Now(s) = [n |-> dps[s], P |-> DOMAIN port_state[s]]
        BY <1>9, <3>2 DEF Now
      <4>2. (DOMAIN port_state[s]) \ {e.port} = DOMAIN port_state[s]
        BY <2>2, <3>2
      <4> QED BY <2>1, <3>2, <4>1, <4>2 DEF After
    <3> QED BY <3>1, <3>2
  <2> QED BY <1>4, <2>1, <2>3
<1> QED BY <1>5, <1>6, <1>7, <1>8, <1>9

LEMMA TrackPackets ==
  ASSUME WorldInv, TrackInv, lldp_packet_in_handler \/ host_discovery_packet_in_handler
  PROVE  TrackInv'
<1> DEFINE e == Head(queue)
           src == e.src
           dst == e.dst
<1>1. /\ queue # << >> /\ e.type \in {"lldp", "host"} /\ queue' = Tail(queue)
      /\ UNCHANGED <<dps, port_state, world>>
  BY DEF lldp_packet_in_handler, host_discovery_packet_in_handler, Event
<1>2. \A s \in Switches : Now(s)' = After(e, s, Now(s))
  <2> HIDE DEF e
  <2> QED BY <1>1, NowKept DEF After
<1>3. ReplayInv'
  BY <1>1, <1>2, TrackHandles
<1>4. DOMAIN ports' = DOMAIN ports
  BY DEF lldp_packet_in_handler, host_discovery_packet_in_handler, LldpReceived
<1>5. \A l \in DOMAIN links' : l \in DOMAIN links \/ (l = Link(src, dst) /\ HasPort(src))
  <2>1. CASE links' = links
    BY <2>1
  <2>2. CASE BothThere(src, dst) /\ \E old : links' = With(Without(links, old), Link(src, dst), "fresh")
    BY <2>2 DEF BothThere, With, Without, Restrict
  <2> QED BY <2>1, <2>2 DEF lldp_packet_in_handler, host_discovery_packet_in_handler
<1>6. \A l \in DOMAIN links' : l[1] \in DOMAIN ports'
  <2> HIDE DEF e, src, dst
  <2> QED BY <1>4, <1>5, LinkEnds DEF TrackInv
<1> QED BY <1>1, <1>3, <1>4, <1>6 DEF TrackInv, HasPort

(***************************************************************************)
(* What happens in the network changes what will be known as the event     *)
(* about it says.                                                          *)
(***************************************************************************)
LEMMA TrackAppends ==
  ASSUME WorldInv, TrackInv, UNCHANGED <<dps, port_state, ports, links>>,
         NEW e, queue' = Append(queue, e),
         \A s \in Switches : AtLast(s)' = After(e, s, AtLast(s)) /\ Expected(e, s, AtLast(s))
  PROVE  TrackInv'
<1>1. ASSUME NEW s \in Switches PROVE Replay(queue', s, Now(s)', AtLast(s)')
  <2>1. Now(s)' = Now(s)
    BY NowKept
  <2>2. Replay(queue, s, Now(s), AtLast(s)) /\ IsSeq(queue)
    BY DEF TrackInv, ReplayInv, WorldInv, QueueOK
  <2>3. Replay(Append(queue, e), s, Now(s), After(e, s, AtLast(s)))
    BY <2>2, ReplayAppend
  <2> QED BY <2>1, <2>3
<1>2. ReplayInv'
  BY <1>1 DEF ReplayInv
<1> QED BY <1>2 DEF TrackInv, HasPort

LEMMA TrackKept ==
  ASSUME TrackInv, UNCHANGED <<dps, port_state, queue>>, DOMAIN ports' = DOMAIN ports,
         DOMAIN links' \subseteq DOMAIN links,
         \A s \in Switches : AtLast(s)' = AtLast(s)
  PROVE  TrackInv'
<1>1. ReplayInv'
  BY NowKept DEF TrackInv, ReplayInv
<1> QED BY <1>1 DEF TrackInv, HasPort

LEMMA TrackConnects ==
  ASSUME WorldInv, TrackInv, NEW s \in Switches, SwitchConnects(s)
  PROVE  TrackInv'
<1> DEFINE last == conn[s].last
           e == [type |-> "main", s |-> s, n |-> last + 1, ports |-> Shape(s)]
<1>1. conn \in [Switches -> [n : Nat, last : Nat]] /\ open \in [Switches -> SUBSET Nat]
  BY DEF WorldInv, ConnOK
<1>2. /\ queue' = Append(queue, e) /\ phys' = phys
      /\ conn'[s].last = last + 1 /\ last + 1 \in open'[s] /\ last \in Nat
      /\ \A t \in Switches : t # s => conn'[t] = conn[t] /\ open'[t] = open[t]
  BY <1>1 DEF SwitchConnects
<1>3. e.s = s /\ e.type = "main" /\ e.n = last + 1 /\ DOMAIN e.ports = Present(s)
  BY DEF Shape, Present
<1> HIDE DEF e, last
<1>4. ASSUME NEW t \in Switches
      PROVE  AtLast(t)' = After(e, t, AtLast(t)) /\ Expected(e, t, AtLast(t))
  <2>1. Present(t)' = Present(t)
    BY <1>2 DEF Present
  <2>2. Expected(e, t, AtLast(t))
    BY <1>3 DEF Expected
  <2>3. CASE t # s
    BY <1>2, <1>3, <2>1, <2>2, <2>3 DEF AtLast, After
  <2>4. CASE t = s
    <3>1. AtLast(s)' = [n |-> last + 1, P |-> Present(s)]
      BY <1>2, <2>1, <2>4 DEF AtLast
    <3>2. AtLast(s).n # 0 => AtLast(s).P = Present(s)
      BY DEF AtLast, Nothing
    <3>3. After(e, s, AtLast(s)) = [n |-> last + 1, P |-> Present(s)]
      BY <1>3, <3>2 DEF After
    <3> QED BY <2>2, <2>4, <3>1, <3>3
  <2> QED BY <2>3, <2>4
<1> QED BY <1>2, <1>4, TrackAppends DEF SwitchConnects, state

LEMMA TrackNotices ==
  ASSUME WorldInv, TrackInv, NEW s \in Switches, ControllerNotices(s)
  PROVE  TrackInv'
<1>1. PICK n \in open[s] \ {conn[s].n} :
         /\ open' = [open EXCEPT ![s] = @ \ {n}]
         /\ queue' = Append(queue, [type |-> "dead", s |-> s, n |-> n])
  BY DEF ControllerNotices
<1> DEFINE e == [type |-> "dead", s |-> s, n |-> n]
<1>2. /\ queue' = Append(queue, e) /\ phys' = phys /\ conn' = conn
      /\ open'[s] = open[s] \ {n} /\ n # 0
      /\ \A t \in Switches : t # s => open'[t] = open[t]
  BY <1>1 DEF ControllerNotices, WorldInv, ConnOK
<1>3. e.s = s /\ e.type = "dead" /\ e.n = n
  OBVIOUS
<1> HIDE DEF e
<1>4. ASSUME NEW t \in Switches
      PROVE  AtLast(t)' = After(e, t, AtLast(t)) /\ Expected(e, t, AtLast(t))
  <2>1. Present(t)' = Present(t)
    BY <1>2 DEF Present
  <2>2. Expected(e, t, AtLast(t))
    BY <1>3 DEF Expected
  <2>3. CASE t # s
    BY <1>2, <1>3, <2>1, <2>2, <2>3 DEF AtLast, After
  <2>4. CASE t = s /\ n = conn[s].last
    <3>1. AtLast(s)' = Nothing
      BY <1>2, <2>4 DEF AtLast
    <3>2. AtLast(s).n = n
      BY <1>1, <2>4 DEF AtLast
    <3>3. After(e, s, AtLast(s)) = Nothing
      BY <1>3, <3>2 DEF After
    <3> QED BY <2>2, <2>4, <3>1, <3>3
  <2>5. CASE t = s /\ n # conn[s].last
    <3>1. AtLast(s)' = AtLast(s)
      BY <1>2, <2>1, <2>5 DEF AtLast
    <3>2. AtLast(s).n # n
      BY <1>2, <2>5 DEF AtLast, Nothing
    <3>3. After(e, s, AtLast(s)) = AtLast(s)
      BY <1>3, <3>2 DEF After
    <3> QED BY <2>2, <2>5, <3>1, <3>3
  <2> QED BY <2>3, <2>4, <2>5
<1> QED BY <1>2, <1>4, TrackAppends DEF ControllerNotices, state

LEMMA TrackPortChanges ==
  ASSUME ~Blind, WorldInv, TrackInv, DOMAIN phys = Ports, NEW p \in Ports, PortChanges(p)
  PROVE  TrackInv'
<1> DEFINE s == p[1]
<1>1. PICK new \in {"up", "down", "absent"} \ {phys[p]} :
        /\ phys' = [phys EXCEPT ![p] = new]
        /\ queue' = IF conn[s].n = 0 THEN queue
                    ELSE Append(queue, [type |-> Reason(phys[p], new), s |-> s, n |-> conn[s].n,
                                        port |-> p, down |-> new = "down"])
  BY DEF PortChanges
<1>2. s \in Switches /\ p \in PortsOf(s) /\ \A t : t # s => p \notin PortsOf(t)
  BY TopologyConstants DEF PortsOf
<1>3. UNCHANGED <<dps, port_state, ports, links, conn, open>>
  BY DEF PortChanges, state
<1>4. \A t : t # s => Present(t)' = Present(t)
  <2>1. \A q \in Ports : q # p => phys'[q] = phys[q]
    BY <1>1
  <2> QED BY <1>2, <2>1 DEF Present, PortsOf
<1>5. phys'[p] = new /\ \A q \in PortsOf(s) : q # p => phys'[q] = phys[q]
  BY <1>1, <1>2 DEF PortsOf
<1>6. CASE conn[s].n = 0
  <2>1. open[s] = {} /\ queue' = queue
    BY <1>1, <1>6 DEF PortChanges
  <2>2. \A t \in Switches : AtLast(t)' = AtLast(t)
    BY <1>3, <1>4, <2>1 DEF AtLast
  <2> QED BY <1>3, <2>1, <2>2, TrackKept
<1>7. CASE conn[s].n # 0
  <2> DEFINE e == [type |-> Reason(phys[p], new), s |-> s, n |-> conn[s].n,
                   port |-> p, down |-> new = "down"]
  <2>1. /\ queue' = Append(queue, e) /\ e.s = s /\ e.port = p
        /\ e.type = Reason(phys[p], new)
    BY <1>1, <1>7
  <2>2. AtLast(s) = [n |-> conn[s].last, P |-> Present(s)] /\ conn[s].last # 0
    BY <1>2, <1>7 DEF WorldInv, ConnOK, AtLast
  <2>3. AtLast(s)' = [n |-> conn[s].last, P |-> Present(s)']
    BY <1>2, <1>3, <1>7 DEF WorldInv, ConnOK, AtLast
  <2> HIDE DEF e, s
  <2>4. ASSUME NEW t \in Switches
        PROVE  AtLast(t)' = After(e, t, AtLast(t)) /\ Expected(e, t, AtLast(t))
    <3>1. CASE t # s
      BY <1>3, <1>4, <2>1, <3>1 DEF AtLast, After, Expected
    <3>2. CASE t = s
      <4>1. AtLast(s).n = conn[s].last /\ AtLast(s).P = Present(s) /\ AtLast(s).n # 0
        BY <2>2
      <4>2. CASE phys[p] = "absent"
        <5>1. e.type = "add" /\ new # "absent"
          BY <1>1, <2>1, <4>2 DEF Reason
        <5>2. Present(s)' = Present(s) \cup {p}
          BY <1>2, <1>5, <5>1 DEF Present
        <5>3. After(e, s, AtLast(s)) = [n |-> conn[s].last, P |-> Present(s) \cup {p}]
          BY <2>1, <4>1, <5>1 DEF After
        <5> QED BY <2>3, <3>2, <5>1, <5>2, <5>3 DEF Expected
      <4>3. CASE phys[p] # "absent" /\ new = "absent"
        <5>1. e.type = "delete"
          BY <2>1, <4>3 DEF Reason
        <5>2. Present(s)' = Present(s) \ {p}
          BY <1>2, <1>5, <4>3 DEF Present
        <5>3. After(e, s, AtLast(s)) = [n |-> conn[s].last, P |-> Present(s) \ {p}]
          BY <2>1, <4>1, <5>1 DEF After
        <5> QED BY <2>3, <3>2, <5>1, <5>2, <5>3 DEF Expected
      <4>4. CASE phys[p] # "absent" /\ new # "absent"
        <5>1. e.type = "modify"
          BY <2>1, <4>4 DEF Reason
        <5>2. Present(s)' = Present(s) /\ p \in Present(s)
          BY <1>2, <1>5, <4>4 DEF Present
        <5>3. After(e, s, AtLast(s)) = [n |-> conn[s].last, P |-> Present(s) \cup {p}]
          BY <2>1, <4>1, <5>1 DEF After
        <5>4. Present(s) \cup {p} = Present(s)
          BY <5>2
        <5> QED BY <2>1, <2>3, <3>2, <4>1, <5>2, <5>3, <5>4 DEF Expected
      <4> QED BY <4>2, <4>3, <4>4
    <3> QED BY <3>1, <3>2
  <2> QED BY <1>3, <2>1, <2>4, TrackAppends
<1> QED BY <1>6, <1>7

(***************************************************************************)
(* Packets are events that leave what is known of the switches alone.      *)
(***************************************************************************)
LEMMA TrackFrames ==
  ASSUME WorldInv, TrackInv, NEW p,
         send_lldp_packet(p) \/ LldpArrives(p) \/ HostFrame(p)
  PROVE  TrackInv'
<1>1. UNCHANGED <<dps, port_state, links, open, conn, phys>> /\ DOMAIN ports' = DOMAIN ports
  BY DEF send_lldp_packet, LldpArrives, HostFrame, state, world
<1>2. \A s \in Switches : AtLast(s)' = AtLast(s)
  BY <1>1 DEF AtLast, Present
<1>3. CASE queue' = queue
  BY <1>1, <1>2, <1>3, TrackKept
<1>4. ASSUME NEW e, e.type \in {"lldp", "host"}, queue' = Append(queue, e), ports' = ports
      PROVE  TrackInv'
  <2>1. \A s \in Switches : AtLast(s)' = After(e, s, AtLast(s)) /\ Expected(e, s, AtLast(s))
    BY <1>2, <1>4 DEF After, Expected
  <2> QED BY <1>1, <1>4, <2>1, TrackAppends
<1>5. CASE send_lldp_packet(p)
  BY <1>3, <1>5 DEF send_lldp_packet
<1>6. CASE LldpArrives(p)
  <2>1. PICK l \in air :
          queue' = IF Reports(l[2])
                   THEN Append(queue, [type |-> "lldp", s |-> l[2][1],
                                       n |-> conn[l[2][1]].n, src |-> p, dst |-> l[2]])
                   ELSE queue
    BY <1>6 DEF LldpArrives
  <2>2. ports' = ports
    BY <1>6 DEF LldpArrives, state
  <2> DEFINE e == [type |-> "lldp", s |-> l[2][1], n |-> conn[l[2][1]].n, src |-> p, dst |-> l[2]]
  <2>3. (queue' = queue \/ queue' = Append(queue, e)) /\ e.type = "lldp"
    BY <2>1
  <2> HIDE DEF e
  <2> QED BY <1>3, <1>4, <2>2, <2>3
<1>7. CASE HostFrame(p)
  <2> DEFINE e == [type |-> "host", s |-> p[1], n |-> conn[p[1]].n, from |-> p]
  <2>1. queue' = Append(queue, e) /\ e.type = "host" /\ ports' = ports
    BY <1>7 DEF HostFrame, state
  <2> HIDE DEF e
  <2> QED BY <1>4, <2>1
<1> QED BY <1>5, <1>6, <1>7

PhysOK == DOMAIN phys = Ports

LEMMA TrackNext ==
  ASSUME ~Blind, WorldInv, BooksInv, PhysOK, TrackInv, [Next]_vars
  PROVE  TrackInv' /\ PhysOK'
<1>0. PhysOK'
  BY DEF PhysOK, Next, Handlers, SwitchMain, SwitchDead, PortAdd, PortDelete, PortModify,
         lldp_packet_in_handler, host_discovery_packet_in_handler, LinkLoop, LinkLoopStarts,
         LinkLoopGoesOn, Recable, LinkAges,
         SwitchConnects, SwitchDrops, ControllerNotices, PortChanges, send_lldp_packet,
         LldpArrives, HostFrame, vars, world
<1> SUFFICES TrackInv'
  BY <1>0
<1>1. CASE SwitchMain
  BY <1>1, TrackMain
<1>2. CASE SwitchDead
  BY <1>2, TrackDead
<1>3. CASE PortAdd \/ PortDelete \/ PortModify
  BY <1>3, TrackPortChange
<1>4. CASE lldp_packet_in_handler \/ host_discovery_packet_in_handler
  BY <1>4, TrackPackets
<1>5. CASE /\ UNCHANGED <<dps, port_state, queue, ports, phys, open>>
           /\ DOMAIN links' \subseteq DOMAIN links
           /\ \A s \in Switches : conn'[s].last = conn[s].last
  <2>1. \A s \in Switches : AtLast(s)' = AtLast(s)
    BY <1>5 DEF AtLast, Present
  <2> QED BY <1>5, <2>1, TrackKept
<1>6. CASE LinkLoop
  <2>1. DOMAIN links' \subseteq DOMAIN links
    BY <1>6, LoopTakesDown DEF TakesDown, FailsOn
  <2> QED BY <1>5, <1>6, <2>1 DEF LinkLoop, LinkLoopStarts, LinkLoopGoesOn, world
<1>7. CASE Recable
  BY <1>5, <1>7 DEF Recable, state
<1>8. ASSUME NEW l, LinkAges(l) PROVE TrackInv'
  BY <1>5, <1>8 DEF LinkAges, world
<1>9. ASSUME NEW s \in Switches, SwitchDrops(s) PROVE TrackInv'
  BY <1>5, <1>9 DEF SwitchDrops, state, WorldInv, ConnOK
<1>10. CASE \E s \in Switches : SwitchConnects(s) \/ ControllerNotices(s)
  BY <1>10, TrackConnects, TrackNotices
<1>11. CASE \E p \in Ports : PortChanges(p)
  BY <1>11, TrackPortChanges DEF PhysOK
<1>12. CASE \E p : send_lldp_packet(p) \/ LldpArrives(p) \/ HostFrame(p)
  BY <1>12, TrackFrames
<1>13. CASE UNCHANGED vars
  BY <1>5, <1>13 DEF vars, state, world
<1> QED BY <1>1, <1>2, <1>3, <1>4, <1>6, <1>7, <1>8, <1>9, <1>10, <1>11, <1>12, <1>13
        DEF Next, Handlers

LEMMA TrackedPorts ==
  ASSUME WorldInv, TrackInv
  PROVE  PortsTracked
<1>1. \A s \in DOMAIN dps : \A p \in DOMAIN port_state[s] : p[1] = s
  BY DEF WorldInv, PortStateOK, TrackInv, PortsOf
<1>2. DOMAIN ports = UNION {DOMAIN port_state[s] : s \in DOMAIN dps}
  <2>1. ASSUME NEW p \in DOMAIN ports PROVE \E s \in DOMAIN dps : p \in DOMAIN port_state[s]
    BY DEF TrackInv, HasPort
  <2>2. ASSUME NEW s \in DOMAIN dps, NEW p \in DOMAIN port_state[s] PROVE p \in DOMAIN ports
    BY <1>1, <2>2 DEF TrackInv, HasPort
  <2> QED BY <2>1, <2>2
<1> QED BY <1>2 DEF PortsTracked, TrackInv

(***************************************************************************)
(* As long as no cable is moved and ports change only while their switch   *)
(* can report it, LLDP packets are sent to just the ports of the switches  *)
(* that are there, and every link can be timed out.                        *)
(***************************************************************************)
THEOREM PortsAreTracked ==
  ASSUME OnePlan, ~Blind
  PROVE  Spec => []PortsTracked
<1>1. Init => TrackInv /\ PhysOK
  <2>1. ASSUME Init PROVE ReplayInv
    <3>1. SUFFICES ASSUME NEW s \in Switches PROVE Replay(queue, s, Now(s), AtLast(s))
      BY DEF ReplayInv
    <3>2. Now(s) = Nothing /\ AtLast(s) = Nothing
      BY <2>1 DEF Init, Now, AtLast
    <3>3. Len(queue) = 0
      BY <2>1 DEF Init
    <3> DEFINE f == [i \in {1} |-> Nothing]
    <3>4. f[1] = Nothing /\ f[0 + 1] = Nothing /\ 1..0 = {}
      OBVIOUS
    <3> HIDE DEF f
    <3> QED BY <3>2, <3>3, <3>4 DEF Replay
  <2> QED BY <2>1 DEF Init, TrackInv, PhysOK, HasPort
<1>2. (WorldInv /\ BooksInv) /\ (TrackInv /\ PhysOK) /\ [Next]_vars => (TrackInv /\ PhysOK)'
  BY TrackNext
<1>3. (WorldInv /\ BooksInv) /\ (TrackInv /\ PhysOK) => PortsTracked
  BY TrackedPorts
<1> QED BY <1>1, <1>2, <1>3, BooksInvariant, PTL DEF Spec

-----------------------------------------------------------------------------
(***************************************************************************)
(* The links that are withdrawn when ports of a switch go down start or    *)
(* end at that switch.                                                     *)
(***************************************************************************)
LEMMA WithdrawnAtSwitch ==
  ASSUME OnePlan, BooksInv, NEW s, NEW S, \A p \in S : p[1] = s,
         NEW l \in view.links, l \in Withdrawn(S)
  PROVE  s \in SwitchesOf(l)
<1>1. l \in DOMAIN links
  BY DEF BooksInv, EventsTellAll
<1>2. l[1] \in DOMAIN _map /\ l[2] = _map[l[1]]
  BY <1>1, LinkIsMapped DEF BooksInv
<1>3. l[1] \in Linked(S) \cup Peers(S)
  BY <1>1, DownInBothBooks
<1>4. CASE l[1] \in Linked(S)
  BY <1>4 DEF Linked, SwitchesOf
<1>5. CASE l[1] \in Peers(S)
  <2>1. PICK p \in Linked(S) : l[1] = _map[p]
    BY <1>5 DEF Peers
  <2>2. p \in S /\ p \in DOMAIN _map
    BY DEF Linked
  <2>3. l[2] = p
    BY <1>2, <2>1, <2>2, PeersAreMutual DEF BooksInv
  <2> QED BY <2>2, <2>3 DEF SwitchesOf
<1> QED BY <1>3, <1>4, <1>5

LEMMA FeedMain ==
  ASSUME WorldInv, BooksInv, SwitchMain
  PROVE  Feed!Next \/ UNCHANGED <<view.switches, view.links>>
<1> DEFINE e == Head(queue)
<1>1. e.s \in Switches
  <2>1. EventOK(Head(queue))
    BY QueueTail DEF WorldInv, SwitchMain, Event
  <2> QED BY <2>1 DEF EventOK
<1>2. view' = [view EXCEPT !.switches = @ \cup {e.s}]
  BY DEF SwitchMain
<1> HIDE DEF e
<1>3. view'.links = view.links /\ view'.switches = view.switches \cup {e.s}
  BY <1>2 DEF BooksInv, ViewOK
<1>4. CASE e.s \in view.switches
  BY <1>3, <1>4
<1>5. CASE e.s \notin view.switches
  <2>1. Feed!Enter(e.s)
    BY <1>3, <1>5 DEF Feed!Enter
  <2> QED BY <1>1, <2>1 DEF Feed!Next
<1> QED BY <1>4, <1>5

LEMMA FeedDead ==
  ASSUME OnePlan, WorldInv, BooksInv, SwitchDead
  PROVE  Feed!Next \/ UNCHANGED <<view.switches, view.links>>
<1> DEFINE e == Head(queue)
<1>1. e.s \in Switches
  <2>1. EventOK(Head(queue))
    BY QueueTail DEF WorldInv, SwitchDead, Event
  <2> QED BY <2>1 DEF EventOK
<1>2. CASE view' = view
  BY <1>2
<1>3. ASSUME e.s \in DOMAIN dps, NEW S, S \subseteq DOMAIN port_state[e.s],
             LinkDowns(S, view.switches \ {e.s})
      PROVE  Feed!Next
  <2>1. \A p \in S : p[1] = e.s
    BY <1>3 DEF WorldInv, PortStateOK, PortsOf
  <2>2. view'.switches = view.switches \ {e.s} /\ view'.links = view.links \ Withdrawn(S)
    BY <1>3 DEF LinkDowns
  <2>3. e.s \in view.switches
    BY <1>3 DEF BooksInv, EventsTellAll
  <2> HIDE DEF e
  <2>4. \A l \in view.links : l \in Withdrawn(S) => e.s \in SwitchesOf(l)
    BY <2>1, WithdrawnAtSwitch
  <2>5. \A l \in view.links \ view'.links : e.s \in SwitchesOf(l)
    BY <2>2, <2>4
  <2>6. Feed!Leave(e.s)
    BY <2>2, <2>3, <2>5 DEF Feed!Leave
  <2> QED BY <1>1, <2>6 DEF Feed!Next
<1>4. CASE e.s \notin DOMAIN dps \/ dps[e.s] # e.n
  BY <1>2, <1>4 DEF SwitchDead
<1>5. CASE e.s \in DOMAIN dps /\ dps[e.s] = e.n
  <2>1. PICK S \in SUBSET (DOMAIN port_state[e.s] \ (DOMAIN port_state[e.s] \ DOMAIN ports)) :
          LinkDowns(S, view.switches \ {e.s})
    BY <1>5 DEF SwitchDead
  <2> QED BY <1>3, <1>5, <2>1
<1> QED BY <1>4, <1>5

LEMMA FeedLldp ==
  ASSUME OnePlan, WorldInv, BooksInv, lldp_packet_in_handler
  PROVE  Feed!Next \/ UNCHANGED <<view.switches, view.links>>
<1> DEFINE src == Head(queue).src
           dst == Head(queue).dst
           old == IF src \in DOMAIN _map /\ _map[src] # dst THEN {Link(src, _map[src])} ELSE {}
           known == DOMAIN links \ old
           link == Link(src, dst)
<1>1. Plugged(src, dst)
  <2>1. EventOK(Head(queue)) /\ Head(queue).type = "lldp"
    BY QueueTail DEF WorldInv, lldp_packet_in_handler, Event
  <2> QED BY <2>1 DEF EventOK
<1>2. old = {}
  BY <1>1, PluggedIsUnique DEF BooksInv, MapWired
<1>3. CASE view' = view
  BY <1>3
<1>4. CASE /\ BothThere(src, dst)
           /\ view' = [view EXCEPT !.links = IF link \in known THEN @ \ old ELSE (@ \ old) \cup {link}]
  <2>1. view.links = DOMAIN links /\ view.switches = DOMAIN dps /\ ViewOK
    BY DEF BooksInv, EventsTellAll
  <2>2. known = view.links
    BY <1>2, <2>1
  <2>3. src[1] \in view.switches /\ dst[1] \in view.switches
    BY <1>4, <2>1 DEF BothThere, HasPort
  <2>4. link \in Ports \X Ports /\ SwitchesOf(link) = {src[1], dst[1]}
    BY <1>1, PluggedIsSymmetric DEF Link, SwitchesOf
  <2>5. view' = [view EXCEPT !.links = IF link \in known THEN @ \ old ELSE (@ \ old) \cup {link}]
    BY <1>4
  <2> HIDE DEF src, dst, old, known, link
  <2>6. CASE link \in view.links
    <3>1. view' = [view EXCEPT !.links = view.links]
      BY <1>2, <2>2, <2>5, <2>6
    <3>2. view'.switches = view.switches /\ view'.links = view.links
      BY <2>1, <3>1 DEF ViewOK
    <3> QED BY <3>2
  <2>7. CASE link \notin view.links
    <3>1. view' = [view EXCEPT !.links = view.links \cup {link}]
      BY <1>2, <2>2, <2>5, <2>7
    <3>2. view'.switches = view.switches /\ view'.links = view.links \cup {link}
      BY <2>1, <3>1 DEF ViewOK
    <3>3. view'.links = (view.links \ {}) \cup {link} /\ {} \in SUBSET view.links
      BY <3>2
    <3>4. Feed!LinkAdd(link)
      BY <2>3, <2>4, <2>7, <3>2, <3>3 DEF Feed!LinkAdd
    <3> QED BY <2>4, <3>4 DEF Feed!Next
  <2> QED BY <2>6, <2>7
<1> QED BY <1>3, <1>4 DEF lldp_packet_in_handler

LEMMA FeedShrinks ==
  ASSUME view'.switches = view.switches, view'.links \subseteq view.links
  PROVE  Feed!Next
BY DEF Feed!Next, Feed!LinkDelete

LEMMA FeedNext ==
  ASSUME OnePlan, WorldInv, BooksInv, [Next]_vars
  PROVE  Feed!Next \/ UNCHANGED <<view.switches, view.links>>
<1>1. CASE SwitchMain
  BY <1>1, FeedMain
<1>2. CASE SwitchDead
  BY <1>2, FeedDead
<1>3. CASE lldp_packet_in_handler
  BY <1>3, FeedLldp
<1>4. CASE view' = view
  BY <1>4
<1>5. CASE PortDelete \/ PortModify
  <2>1. CASE \E S : LinkDowns(S, view.switches)
    BY <2>1, FeedShrinks DEF LinkDowns
  <2> QED BY <1>4, <1>5, <2>1 DEF PortDelete, PortModify
<1>6. CASE LinkLoop
  <2>1. CASE view' = view
    BY <1>4, <2>1
  <2>2. CASE \E l : TakesDown(l)
    <3>1. view'.switches = view.switches /\ view'.links \subseteq view.links
      BY <2>2 DEF TakesDown, BooksInv, ViewOK
    <3> QED BY <3>1, FeedShrinks
  <2> QED BY <1>6, <2>1, <2>2, LoopTakesDown DEF FailsOn
<1>7. CASE PortAdd \/ host_discovery_packet_in_handler \/ Recable
  BY <1>4, <1>7 DEF PortAdd, host_discovery_packet_in_handler, Recable, state
<1>8. CASE \/ \E s \in Switches : SwitchConnects(s) \/ SwitchDrops(s) \/ ControllerNotices(s)
           \/ \E l \in Ports \X Ports : LinkAges(l)
  BY <1>4, <1>8 DEF SwitchConnects, SwitchDrops, ControllerNotices, LinkAges, state
<1>9. CASE \/ \E p \in Ports : PortChanges(p) \/ send_lldp_packet(p) \/ LldpArrives(p)
           \/ \E p \in HostPorts : HostFrame(p)
  BY <1>4, <1>9 DEF PortChanges, send_lldp_packet, LldpArrives, HostFrame, state
<1>10. CASE UNCHANGED vars
  BY <1>4, <1>10 DEF vars, state
<1> QED BY <1>1, <1>2, <1>3, <1>5, <1>6, <1>7, <1>8, <1>9, <1>10 DEF Next, Handlers

(***************************************************************************)
(* As long as no cable is moved, the events of the topology discovery keep *)
(* the promises of TopologyFeed: EventSwitchEnter is Enter,                *)
(* EventSwitchLeave with the links that go with the switch is Leave, a new *)
(* link is LinkAdd, and ports and links that go down are LinkDelete.       *)
(***************************************************************************)
THEOREM DiscoveryKeepsPromises ==
  ASSUME OnePlan
  PROVE  Spec => FeedSpec
<1>1. Init => view.switches = {} /\ view.links = {}
  BY DEF Init
<1>2. WorldInv /\ BooksInv /\ [Next]_vars => [Feed!Next]_<<view.switches, view.links>>
  BY FeedNext
<1> QED BY <1>1, <1>2, BooksInvariant, PTL DEF Spec, FeedSpec, Feed!Spec

=============================================================================
