----------------------------- MODULE Multipath ------------------------------
(***************************************************************************)
(* The controller application (ryu_multipath.py, ProjectController) among  *)
(* the things it works with: the topology events of Ryu, one OpenFlow      *)
(* channel to each switch, the flow tables at the other end of it, and the *)
(* hosts whose ARP packets make it install paths.                          *)
(*                                                                         *)
(* A host has one MAC and one IP address, so a host stands for both.  At   *)
(* an edge switch port 1 leads to the WISPR daemon and port 2 comes from   *)
(* it.                                                                     *)
(***************************************************************************)
EXTENDS Integers, SequencesExt

CONSTANTS
  Networks,    \* the networks we look at
  MAX_PATHS, MAX_GROUP,
  MaxWire,     \* bound: frames between the switches; the rest is lost
  MaxChan      \* bound: messages in a channel before another packet is handled

VARIABLE net   \* the network, which stays the same

(***************************************************************************)
(* What makes up a network.  A cable is <<s1, p1, s2, p2>>, and is listed  *)
(* in both directions.                                                     *)
(***************************************************************************)
Switches == net.switches     \* datapath ids
Home == net.home             \* Home[h] = <<s, p>>: host h is plugged into port p of s
Hosts == DOMAIN Home
Cables == net.cables
Speed == net.speed           \* Speed[s]: the curr_speed that the ports of s report
Talks == net.talks           \* the pairs <<a, b>> such that a wants to talk to b
Noise == net.noise           \* kinds of frames other than ARP that hosts send
Known == net.known           \* whether it has been discovered before we start
MaxChanges == net.changes    \* bound: connections and cables that go away or come back
MaxEvents == net.events      \* bound: length of the event queue of the application

Rev(l) == <<l[3], l[4], l[1], l[2]>>
PortNumbers == Nat \ 0..2    \* the ports of cables and hosts; 0 is no port

ASSUME MultipathConstants ==
  /\ \A x \in Networks :
       /\ IsFiniteSet(x.switches) /\ IsFiniteSet(x.cables)
       /\ x.cables \subseteq x.switches \X PortNumbers \X x.switches \X PortNumbers
       /\ \A l \in x.cables : l[1] # l[3] /\ Rev(l) \in x.cables
       /\ \A l, m \in x.cables : (l[1] = m[1] /\ l[2] = m[2]) => l = m
       /\ \A h \in DOMAIN x.home : /\ x.home[h] \in x.switches \X PortNumbers
                                   /\ \A l \in x.cables : x.home[h] # <<l[1], l[2]>>
       /\ x.talks \subseteq (DOMAIN x.home) \X (DOMAIN x.home)
       /\ x.noise \subseteq {"LLDP", "IPv6", "IPv4"}
       /\ x.known \in BOOLEAN /\ x.speed \in [x.switches -> Nat]
       /\ x.changes \in Nat /\ x.events \in Nat
  /\ MAX_PATHS \in 1..15 /\ MAX_GROUP \in Nat

VARIABLES
  hosts,          \* hosts[h]: the switch and the port where h was first seen
  arp_table,      \* the hosts whose MAC address is known
  timeDict,       \* timeDict[h]: the hosts for which paths to h are done
  datapath_list,  \* datapath_list[s]: the connection of s that is used
  adjacency,      \* adjacency[<<s, t>>]: the port of s that leads to t
  G,              \* the graph: its nodes and its edges, in both directions
  bandwidths,     \* the switches that have reported the speed of their ports
  events,         \* the queue of the application (RyuApp.events)
  conn,           \* conn[s]: [n: the number of its connections so far, live]
  up,             \* the cables that work
  links,          \* the links that the topology discovery has announced
  chan,           \* chan[s]: the messages on their way to s
  tables,         \* tables[s]: the flow entries of s
  wire,           \* the frames that are about to enter a switch
  resolved,       \* the pairs <<a, b>> such that a got an ARP reply from b
  routes,         \* history: the last installation for each pair of hosts
  changes

app == <<hosts, arp_table, timeDict, datapath_list, adjacency, G, bandwidths>>
fabric == <<net, conn, up, links, tables, changes>>
vars == <<app, events, fabric, chan, wire, resolved, routes>>

-----------------------------------------------------------------------------
(***************************************************************************)
(* Frames carry a type, the hosts they are from and to, and an ARP opcode  *)
(* or a VLAN id.                                                           *)
(***************************************************************************)
Frame(type, a, b, x) == [type |-> type, src |-> a, dst |-> b, x |-> x]

(***************************************************************************)
(* A flow entry matches a port and a type with addresses; the one against  *)
(* IPv6 matches the type alone and is dealt with in Lookup.  ARP entries   *)
(* do not look at the opcode.                                              *)
(***************************************************************************)
Rule(p, type, a, b, x, out) == [match |-> <<p, type, a, b, x>>, out |-> out]
NoIPv6 == [match |-> <<0, "IPv6">>, out |-> -1]

(***************************************************************************)
(* add_flow, seen from the table: an entry with the same match and         *)
(* priority is replaced.                                                   *)
(***************************************************************************)
Overwrite(table, rules) ==
  {r \in table : \A n \in rules : n.match # r.match} \cup rules

(***************************************************************************)
(* The entries for a frame; none means that it goes to the controller      *)
(* (_switch_features_handler).                                             *)
(***************************************************************************)
Lookup(s, p, f) ==
  LET x == IF f.type = "VLAN" THEN f.x ELSE 0 IN
  {r \in tables[s] : \/ r.match = <<p, f.type, f.src, f.dst, x>>
                     \/ r = NoIPv6 /\ f.type = "IPv6"}

-----------------------------------------------------------------------------
(***************************************************************************)
(* get_paths: networkx yields the simple paths in order of their length,   *)
(* and those of equal length in an order we do not rely on.                *)
(***************************************************************************)
Edges(path) == {<<path[i], path[i + 1]>> : i \in 1..(Len(path) - 1)}
SimplePaths(s, t) ==
  {p \in UNION {[1..n -> G.nodes] : n \in 1..Cardinality(G.nodes)} :
     /\ p[1] = s /\ p[Len(p)] = t
     /\ Edges(p) \subseteq G.edges
     /\ IsInjective(p)}
get_paths(s, t) ==
  IF s = t THEN {<< <<s>> >>}
  ELSE LET all == SimplePaths(s, t)
       IN {ps \in UNION {[1..n -> all] : n \in 0..MAX_PATHS} :
             /\ IsInjective(ps)
             /\ Len(ps) < MAX_PATHS => ToSet(ps) = all
             /\ \A i \in 1..(Len(ps) - 1) : Len(ps[i]) <= Len(ps[i + 1])
             /\ \A p \in all \ ToSet(ps), i \in DOMAIN ps : Len(ps[i]) <= Len(p)}

(***************************************************************************)
(* get_path_cost and get_link_cost raise an exception for an edge without  *)
(* a port at either end, and for a port whose speed is zero.               *)
(***************************************************************************)
HasCost(path) ==
  \A e \in Edges(path) : /\ {e, <<e[2], e[1]>>} \subseteq DOMAIN adjacency
                         /\ \A s \in ToSet(e) : s \in bandwidths => Speed[s] # 0

(***************************************************************************)
(* add_ports_to_paths: the ports by which a path enters and leaves each of *)
(* its switches.                                                           *)
(***************************************************************************)
add_ports_to_paths(path, first_port, last_port) ==
  [i \in DOMAIN path |->
    <<IF i = 1 THEN first_port ELSE adjacency[<<path[i], path[i - 1]>>],
      IF i = Len(path) THEN last_port ELSE adjacency[<<path[i], path[i + 1]>>]>>]

(***************************************************************************)
(* The VLAN ids of path number k: one per group, from 0x1001 for the       *)
(* packets and from 0x1101 for their copies.                               *)
(***************************************************************************)
Vlans(k, base) == {base + k - 1 + 16 * x : x \in 0..MAX_GROUP}
vlan == 4097
mirrIorvlan == 4353

(***************************************************************************)
(* The ARP entries gone wrong: none for the way back.                      *)
(***************************************************************************)
ArpOneWay(a, b, io) == {Rule(io[1], "ARP", a, b, 0, io[2])}

ArpRules(a, b, io) == {Rule(io[1], "ARP", a, b, 0, io[2]), Rule(io[2], "ARP", b, a, 0, io[1])}

(***************************************************************************)
(* IPv4 goes to the daemon from the host's side and to the host from the   *)
(* daemon's side.  The entry for ICMP at the source does what the one for  *)
(* IPv4 does and is left out.                                              *)
(***************************************************************************)
EdgeRules(a, b, io, i, n) ==
  IF i = 1 THEN {Rule(io[1], "IPv4", a, b, 0, 1), Rule(2, "IPv4", b, a, 0, io[1])}
  ELSE IF i = n THEN {Rule(2, "IPv4", a, b, 0, io[2]), Rule(io[2], "IPv4", b, a, 0, 1)}
  ELSE {}

(***************************************************************************)
(* The entries for tagged packets gone wrong: the way back is the way      *)
(* there, port by port.                                                    *)
(***************************************************************************)
TagRulesNotReversed(a, b, io, i, n, vlans) ==
  LET src == i = 1
      dst == i = n /\ ~src
      in == IF src THEN 2 ELSE io[1]
      out == IF dst THEN 1 ELSE io[2]
  IN UNION {{Rule(in, "VLAN", a, b, v, out), Rule(in, "VLAN", b, a, v, out)} : v \in vlans}

(***************************************************************************)
(* The entries for tagged packets at switch i of n.                        *)
(***************************************************************************)
TagRules(a, b, io, i, n, vlans) ==
  LET src == i = 1
      dst == i = n /\ ~src
  IN UNION {{Rule(IF src THEN 2 ELSE io[1], "VLAN", a, b, v, IF dst THEN 1 ELSE io[2]),
             Rule(IF dst THEN 2 ELSE io[2], "VLAN", b, a, v, IF src THEN 1 ELSE io[1])}
              : v \in vlans}

(***************************************************************************)
(* What install_paths sends to switch s, in its order: for each path the   *)
(* entries of the path and then those of the path its copies take.  The    *)
(* entries one loop sends to one switch travel as one message.             *)
(***************************************************************************)
Batches(s, a, b, paths, ports, mirror) ==
  LET n(k) == Len(paths[k])
      At(k) == {i \in DOMAIN paths[k] : paths[k][i] = s}
      Own(k) == UNION {(IF k = 1 THEN ArpRules(a, b, ports[k][i]) ELSE {})
                         \cup EdgeRules(a, b, ports[k][i], i, n(k))
                         \cup TagRules(a, b, ports[k][i], i, n(k), Vlans(k, vlan)) : i \in At(k)}
      Copy(k) == LET m == mirror[k] IN
                 UNION {TagRules(a, b, ports[m][i], i, n(m), Vlans(k, mirrIorvlan)) : i \in At(m)}
      All == [j \in 1..(2 * Len(paths)) |->
                IF j % 2 = 1 THEN Own((j + 1) \div 2) ELSE Copy(j \div 2)]
      busy == {j \in DOMAIN All : All[j] # {}}
  IN [i \in 1..Cardinality(busy) |->
       UNION {All[j] : j \in {j \in busy : Cardinality({k \in busy : k <= j}) = i}}]

-----------------------------------------------------------------------------
(***************************************************************************)
(* Frames on the move (external: Open vSwitch and the hosts).  A frame     *)
(* never leaves by the port it came in by.  A host answers an ARP request  *)
(* that asks for it.  The daemons and the other hosts ignore ARP.          *)
(***************************************************************************)
OFPP_FLOOD == 0
PortsOf(s) == {l[2] : l \in {l \in Cables : l[1] = s}}
              \cup {Home[h][2] : h \in {h \in Hosts : Home[h][1] = s}}
OutPorts(s, in_port, out) == (IF out = OFPP_FLOOD THEN PortsOf(s) ELSE {out}) \ {in_port}

At(place, f) == [at |-> place, f |-> f]
Fit(w, new) ==
  {w \cup n : n \in {n \in SUBSET new :
     \/ n = new /\ Cardinality(w \cup new) <= MaxWire
     \/ Cardinality(w \cup new) > MaxWire /\ Cardinality(w \cup n) = MaxWire}}

Emit(s, ports, f, rest) ==
  LET onward == {At(<<l[3], l[4]>>, f) : l \in {l \in up : l[1] = s /\ l[2] \in ports}}
      here == {h \in Hosts : Home[h][1] = s /\ Home[h][2] \in ports /\ f.dst = h /\ f.type = "ARP"}
      answers == {At(Home[h], Frame("ARP", h, f.src, "REPLY")) :
                    h \in {h \in here : f.x = "REQUEST"}}
  IN /\ wire' \in Fit(rest, onward \cup answers)
     /\ resolved' = resolved \cup {<<h, f.src>> : h \in {h \in here : f.x = "REPLY"}}

(***************************************************************************)
(* Datapath.send_msg: what is sent on a connection that is no longer the   *)
(* one of the switch is discarded.                                         *)
(***************************************************************************)
Accepts(s, n) == conn[s].live /\ conn[s].n = n
Mods(rules) == [kind |-> "mods", rules |-> rules]
PacketOut(in_port, out, f) == [kind |-> "out", in_port |-> in_port, out |-> out, f |-> f]

-----------------------------------------------------------------------------
TopologyEvent(type, x, n) == [type |-> type, x |-> x, n |-> n]
Room == Len(events) < MaxEvents

(***************************************************************************)
(* ProjectController.__init__.  When Known holds we start where the        *)
(* application has handled the first events of every switch and cable.     *)
(***************************************************************************)
Init ==
  /\ net \in Networks
  /\ hosts = << >> /\ arp_table = {} /\ timeDict = [h \in Hosts |-> {}]
  /\ events = << >>
  /\ up = Cables
  /\ chan = [s \in Switches |-> << >>]
  /\ tables = [s \in Switches |-> {}]
  /\ wire = {} /\ resolved = {} /\ routes = << >> /\ changes = 0
  /\ \/ /\ ~Known
        /\ datapath_list = << >> /\ adjacency = << >> /\ bandwidths = {}
        /\ G = [nodes |-> {}, edges |-> {}]
        /\ conn = [s \in Switches |-> [n |-> 0, live |-> FALSE]]
        /\ links = {}
     \/ /\ Known
        /\ datapath_list = [s \in Switches |-> 1]
        /\ adjacency = [e \in {<<l[1], l[3]>> : l \in Cables} |->
                          (CHOOSE l \in Cables : <<l[1], l[3]>> = e)[2]]
        /\ bandwidths = Switches
        /\ G = [nodes |-> Switches, edges |-> {<<l[1], l[3]>> : l \in Cables}]
        /\ conn = [s \in Switches |-> [n |-> 1, live |-> TRUE]]
        /\ links = Cables

(***************************************************************************)
(* What the topology discovery of Ryu sees and announces (the Topology     *)
(* module has the details).  A switch that comes back on a new connection  *)
(* while the old one still seems to work is not announced again            *)
(* (EventSwitchReconnected, which the application does not handle).        *)
(***************************************************************************)
SwitchConnects(s) ==
  /\ ~conn[s].live /\ Room
  /\ conn' = [conn EXCEPT ![s] = [n |-> @.n + 1, live |-> TRUE]]
  /\ events' = Append(events, TopologyEvent("switch_enter", s, conn[s].n + 1))
  /\ UNCHANGED <<net, app, up, links, tables, changes, chan, wire, resolved, routes>>

Restarts(s) == tables' \in {tables, [tables EXCEPT ![s] = {}]}

SwitchReconnects(s) ==
  /\ conn[s].live /\ changes < MaxChanges
  /\ conn' = [conn EXCEPT ![s].n = @ + 1]
  /\ chan' = [chan EXCEPT ![s] = << >>]
  /\ Restarts(s)
  /\ changes' = changes + 1
  /\ UNCHANGED <<net, app, events, up, links, wire, resolved, routes>>

(***************************************************************************)
(* _link_down for a set of ports: each link that starts there is deleted,  *)
(* and its reverse if it is known.  A link whose reverse alone is known    *)
(* stays.                                                                  *)
(***************************************************************************)
LinkDelete(l) == IF l \in links THEN <<TopologyEvent("link_delete", l, 0)>> ELSE << >>
Deletions(gone) ==
  LET all == {l \in links : {l, Rev(l)} \cap gone # {}}
      orders == {q \in SetToSeqs(all) : \A i \in DOMAIN q :
                   (q[i] \in gone /\ Rev(q[i]) \in links) => i < Len(q) /\ q[i + 1] = Rev(q[i])}
  IN {[i \in DOMAIN q |-> TopologyEvent("link_delete", q[i], 0)] : q \in orders}

SwitchDies(s) ==
  LET gone == {l \in links : l[1] = s} IN
  /\ conn[s].live /\ changes < MaxChanges /\ Room
  /\ conn' = [conn EXCEPT ![s].live = FALSE]
  /\ chan' = [chan EXCEPT ![s] = << >>]
  /\ Restarts(s)
  /\ links' = {l \in links : {l, Rev(l)} \cap gone = {}}
  /\ \E del \in Deletions(gone) :
       events' = Append(events, TopologyEvent("switch_leave", s, 0)) \o del
  /\ changes' = changes + 1
  /\ UNCHANGED <<net, app, up, wire, resolved, routes>>

LinkDiscovered(l) ==
  /\ l \in up \ links /\ conn[l[1]].live /\ conn[l[3]].live /\ Room
  /\ links' = links \cup {l}
  /\ events' = Append(events, TopologyEvent("link_add", l, 0))
  /\ UNCHANGED <<net, app, conn, up, tables, changes, chan, wire, resolved, routes>>

(***************************************************************************)
(* A cable stops to work; the switches at its ends notice and report it,   *)
(* or do not, and the links over it time out one by one.                   *)
(***************************************************************************)
CableDown(l) ==
  /\ l \in up /\ changes < MaxChanges /\ Room
  /\ up' = up \ {l, Rev(l)}
  /\ \/ /\ links' = links \ {l, Rev(l)}
        /\ events' = events \o LinkDelete(l) \o LinkDelete(Rev(l))
     \/ UNCHANGED <<links, events>>
  /\ changes' = changes + 1
  /\ UNCHANGED <<net, app, conn, tables, chan, wire, resolved, routes>>

LinkTimesOut(l) ==
  /\ l \in links /\ conn[l[1]].live /\ Room
  /\ l \notin up \/ ~conn[l[3]].live
  /\ links' = links \ {l}
  /\ events' = events \o LinkDelete(l)
  /\ UNCHANGED <<net, app, conn, up, tables, changes, chan, wire, resolved, routes>>

CableUp(l) ==
  /\ l \in Cables \ up /\ changes < MaxChanges
  /\ up' = up \cup {l, Rev(l)}
  /\ changes' = changes + 1
  /\ UNCHANGED <<net, app, events, conn, links, tables, chan, wire, resolved, routes>>

(***************************************************************************)
(* A host asks until it is answered, and sends other frames too.           *)
(***************************************************************************)
HostSends(a, b) ==
  /\ Cardinality(wire) < MaxWire
  /\ \E f \in (IF <<a, b>> \in resolved THEN {} ELSE {Frame("ARP", a, b, "REQUEST")})
              \cup {Frame(type, a, b, "none") : type \in Noise} :
       /\ At(Home[a], f) \notin wire
       /\ wire' = wire \cup {At(Home[a], f)}
  /\ UNCHANGED <<app, events, fabric, chan, resolved, routes>>

(***************************************************************************)
(* A frame enters a switch: an entry says where it goes, or it goes to the *)
(* controller, or nowhere when there is none.                              *)
(***************************************************************************)
SwitchForwards(m) ==
  LET s == m.at[1]
      entries == Lookup(s, m.at[2], m.f)
  IN /\ m \in wire
     /\ \/ /\ \E r \in entries : Emit(s, {r.out} \ {m.at[2]}, m.f, wire \ {m})
           /\ UNCHANGED events
        \/ /\ entries = {} /\ conn[s].live /\ Room
           /\ events' = Append(events, [type |-> "packet_in", x |-> m, n |-> conn[s].n])
           /\ wire' = wire \ {m}
           /\ UNCHANGED resolved
        \/ /\ entries = {} /\ ~conn[s].live
           /\ wire' = wire \ {m}
           /\ UNCHANGED <<events, resolved>>
     /\ UNCHANGED <<app, fabric, chan, routes>>

(***************************************************************************)
(* A switch takes the next message from its connection.                    *)
(***************************************************************************)
SwitchObeys(s) ==
  /\ chan[s] # << >>
  /\ chan' = [chan EXCEPT ![s] = Tail(@)]
  /\ LET m == Head(chan[s]) IN
     \/ /\ m.kind = "mods"
        /\ tables' = [tables EXCEPT ![s] = Overwrite(@, m.rules)]
        /\ UNCHANGED <<wire, resolved>>
     \/ /\ m.kind = "out"
        /\ Emit(s, OutPorts(s, m.in_port, m.out), m.f, wire)
        /\ UNCHANGED tables
  /\ UNCHANGED <<net, app, events, conn, up, links, changes, routes>>

-----------------------------------------------------------------------------
(***************************************************************************)
(* The application takes the next event from its queue.                    *)
(***************************************************************************)
Event(type) == events # << >> /\ Head(events).type = type
With(f, x, y) == [z \in DOMAIN f \cup {x} |-> IF z = x THEN y ELSE f[z]]

switch_enter_handler ==
  /\ Event("switch_enter")
  /\ LET s == Head(events).x
         n == Head(events).n
     IN IF s \in DOMAIN datapath_list
        THEN events' = Tail(events) /\ UNCHANGED <<datapath_list, G>>
        ELSE /\ datapath_list' = With(datapath_list, s, n)
             /\ G' = [G EXCEPT !.nodes = @ \cup {s}]
             /\ events' = IF Accepts(s, n)
                          THEN Append(Tail(events), TopologyEvent("port_desc", s, 0))
                          ELSE Tail(events)
  /\ UNCHANGED <<hosts, arp_table, timeDict, adjacency, bandwidths, fabric, chan,
                 wire, resolved, routes>>

port_desc_stats_reply_handler ==
  /\ Event("port_desc")
  /\ bandwidths' = bandwidths \cup {Head(events).x}
  /\ events' = Tail(events)
  /\ UNCHANGED <<hosts, arp_table, timeDict, datapath_list, adjacency, G, fabric, chan,
                 wire, resolved, routes>>

(***************************************************************************)
(* switch_leave_handler gone wrong: the node stays in the graph.           *)
(***************************************************************************)
LeaveKeepsNode ==
  /\ Event("switch_leave")
  /\ LET s == Head(events).x IN
     IF s \notin DOMAIN datapath_list THEN UNCHANGED <<datapath_list, adjacency, G>>
     ELSE /\ datapath_list' = Restrict(datapath_list, DOMAIN datapath_list \ {s})
          /\ adjacency' = Restrict(adjacency, {e \in DOMAIN adjacency : e[1] # s})
          /\ G' = [G EXCEPT !.edges = {e \in @ : s \notin ToSet(e)}]
  /\ events' = Tail(events)
  /\ UNCHANGED <<hosts, arp_table, timeDict, bandwidths, fabric, chan, wire, resolved, routes>>

switch_leave_handler ==
  /\ Event("switch_leave")
  /\ LET s == Head(events).x IN
     IF s \notin DOMAIN datapath_list THEN UNCHANGED <<datapath_list, adjacency, G>>
     ELSE /\ datapath_list' = Restrict(datapath_list, DOMAIN datapath_list \ {s})
          /\ adjacency' = Restrict(adjacency, {e \in DOMAIN adjacency : e[1] # s})
          /\ G' = [nodes |-> G.nodes \ {s}, edges |-> {e \in G.edges : s \notin ToSet(e)}]
  /\ events' = Tail(events)
  /\ UNCHANGED <<hosts, arp_table, timeDict, bandwidths, fabric, chan, wire, resolved, routes>>

(***************************************************************************)
(* link_add_handler gone wrong: the ports are noted only for a new edge.   *)
(***************************************************************************)
AddOnlyNewEdge ==
  /\ Event("link_add")
  /\ LET l == Head(events).x
         there == <<l[1], l[3]>>
         back == <<l[3], l[1]>>
     IN IF there \in G.edges THEN UNCHANGED <<adjacency, G>>
        ELSE /\ adjacency' = With(With(adjacency, there, l[2]), back, l[4])
             /\ G' = [nodes |-> G.nodes \cup {l[1], l[3]}, edges |-> G.edges \cup {there, back}]
  /\ events' = Tail(events)
  /\ UNCHANGED <<hosts, arp_table, timeDict, datapath_list, bandwidths, fabric, chan,
                 wire, resolved, routes>>

link_add_handler ==
  /\ Event("link_add")
  /\ LET l == Head(events).x
         there == <<l[1], l[3]>>
         back == <<l[3], l[1]>>
     IN /\ adjacency' = With(With(adjacency, there, l[2]), back, l[4])
        /\ G' = [nodes |-> G.nodes \cup {l[1], l[3]}, edges |-> G.edges \cup {there, back}]
  /\ events' = Tail(events)
  /\ UNCHANGED <<hosts, arp_table, timeDict, datapath_list, bandwidths, fabric, chan,
                 wire, resolved, routes>>

(***************************************************************************)
(* The second del is not reached when the first one raises KeyError.  G    *)
(* keeps its edge.                                                         *)
(***************************************************************************)
link_delete_handler ==
  /\ Event("link_delete")
  /\ LET l == Head(events).x
         there == <<l[1], l[3]>>
     IN adjacency' = IF there \in DOMAIN adjacency
                     THEN Restrict(adjacency, DOMAIN adjacency \ {there, <<l[3], l[1]>>})
                     ELSE adjacency
  /\ events' = Tail(events)
  /\ UNCHANGED <<hosts, arp_table, timeDict, datapath_list, G, bandwidths, fabric, chan,
                 wire, resolved, routes>>

-----------------------------------------------------------------------------
(***************************************************************************)
(* The path that the copies of each path take: another one, if there is.   *)
(***************************************************************************)
Mirrors(n) == {m \in [1..n -> 1..n] : n > 1 => \A k \in 1..n : m[k] # k}

Done(a, b) == b \in timeDict[a] \/ a \in timeDict[b]
Finished(paths) == /\ paths # << >> /\ \A k \in DOMAIN paths : HasCost(paths[k])
                   /\ UNION {ToSet(paths[k]) : k \in DOMAIN paths} \subseteq DOMAIN datapath_list

(***************************************************************************)
(* install_paths from a to b and what follows it in _packet_in_handler for *)
(* the packet m that came on connection n.  Without a path, a cost or a    *)
(* datapath it raises an exception, and the event loop goes on to the next *)
(* event.  (A missing datapath would show when some entries have been sent *)
(* already; NodesHaveDatapaths says that none is missing.)  The packet     *)
(* goes out of the switch that reported it, by the port that leads from    *)
(* a's switch along the first path.                                        *)
(***************************************************************************)
install_paths(a, b, m, n) ==
  LET h1 == hosts'[a]
      h2 == hosts'[b]
  IN \E paths \in get_paths(h1[1], h2[1]) : \E mirror \in Mirrors(Len(paths)) :
        IF ~Finished(paths) THEN UNCHANGED <<timeDict, chan, routes>>
        ELSE LET ports == [k \in DOMAIN paths |-> add_ports_to_paths(paths[k], h1[2], h2[2])]
                 Flows(s) == IF s \in DOMAIN datapath_list /\ Accepts(s, datapath_list[s])
                             THEN Batches(s, a, b, paths, ports, mirror) ELSE << >>
             IN /\ timeDict' = [timeDict EXCEPT ![a] = {b}, ![b] = {a}]
                /\ chan' = [s \in Switches |->
                     chan[s] \o [i \in DOMAIN Flows(s) |-> Mods(Flows(s)[i])]
                       \o (IF s = m.at[1] /\ Accepts(s, n)
                           THEN <<PacketOut(m.at[2], ports[1][1][2], m.f)>> ELSE << >>)]
                /\ routes' = With(routes, {a, b},
                     [src |-> a, dst |-> b, paths |-> paths,
                      sent |-> datapath_list, conn |-> conn])

(***************************************************************************)
(* _packet_in_handler.  LLDP is left to the topology discovery; IPv6 is    *)
(* blocked at the switch it came from.  Any other frame tells where its    *)
(* sender is, unless that is known.  ARP for a pair whose paths are done   *)
(* is dropped; a reply, or a request for a host whose address is known,    *)
(* makes the application install paths; other requests are flooded.        *)
(* (The two MAC addresses that are blocked by name, lines 363-367, are not *)
(* among the hosts.)                                                       *)
(***************************************************************************)
Send(s, n, msg) == chan' = IF Accepts(s, n) THEN [chan EXCEPT ![s] = Append(@, msg)] ELSE chan
(***************************************************************************)
(* The location of a host gone wrong: each packet tells it anew.           *)
(***************************************************************************)
LearnAlways(m) == hosts' = With(hosts, m.f.src, m.at)

Learn(m) == hosts' = IF m.f.src \in DOMAIN hosts THEN hosts ELSE With(hosts, m.f.src, m.at)
Wanted(f) == f.x = "REPLY" \/ f.dst \in arp_table

_packet_in_handler ==
  /\ Event("packet_in")
  /\ \A s \in Switches : Len(chan[s]) <= MaxChan
  /\ LET m == Head(events).x
         n == Head(events).n
         a == m.f.src
         b == m.f.dst
     IN \/ /\ m.f.type = "LLDP"
           /\ UNCHANGED <<hosts, arp_table, timeDict, chan, routes>>
        \/ /\ m.f.type = "IPv6"
           /\ Send(m.at[1], n, Mods({NoIPv6}))
           /\ UNCHANGED <<hosts, arp_table, timeDict, routes>>
        \/ /\ m.f.type = "IPv4" \/ (m.f.type = "ARP" /\ Done(a, b))
           /\ Learn(m)
           /\ UNCHANGED <<arp_table, timeDict, chan, routes>>
        \/ /\ m.f.type = "ARP" /\ ~Done(a, b) /\ Wanted(m.f)
           /\ Learn(m)
           /\ arp_table' = arp_table \cup {a}
           /\ install_paths(a, b, m, n)
        \/ /\ m.f.type = "ARP" /\ ~Done(a, b) /\ ~Wanted(m.f)
           /\ Learn(m)
           /\ Send(m.at[1], n, PacketOut(m.at[2], OFPP_FLOOD, m.f))
           /\ UNCHANGED <<arp_table, timeDict, routes>>
  /\ events' = Tail(events)
  /\ UNCHANGED <<datapath_list, adjacency, G, bandwidths, fabric, wire, resolved>>

-----------------------------------------------------------------------------
Controller == \/ switch_enter_handler \/ switch_leave_handler
              \/ link_add_handler \/ link_delete_handler
              \/ port_desc_stats_reply_handler \/ _packet_in_handler
Next ==
  \/ Controller
  \/ \E s \in Switches : \/ SwitchConnects(s) \/ SwitchReconnects(s) \/ SwitchDies(s)
                         \/ SwitchObeys(s)
  \/ \E l \in Cables : LinkDiscovered(l) \/ LinkTimesOut(l) \/ CableDown(l) \/ CableUp(l)
  \/ \E t \in Talks : HostSends(t[1], t[2])
  \/ \E m \in wire : SwitchForwards(m)

Spec == Init /\ [][Next]_vars

(***************************************************************************)
(* The event loop of the application, the connections and the discovery of *)
(* Ryu, the switches and the retries of a host all go on.  Whoever waits   *)
(* for room in the queue of the application gets it, because the semaphore *)
(* that guards the queue serves those who wait in turn.                    *)
(***************************************************************************)
All(Part(_)) == UNION {Part(x) : x \in Networks}
AllTalks == All(LAMBDA x : x.talks)
Places == All(LAMBDA x : {x.home[h] : h \in DOMAIN x.home} \cup {<<l[1], l[2]>> : l \in x.cables})
PortForwards(place) == \E m \in wire : m.at = place /\ SwitchForwards(m)
FairSpec ==
  /\ Spec
  /\ WF_vars(Controller)
  /\ \A s \in All(LAMBDA x : x.switches) :
       /\ SF_vars(s \in Switches /\ SwitchConnects(s))
       /\ WF_vars(s \in Switches /\ SwitchObeys(s))
  /\ \A l \in All(LAMBDA x : x.cables) : SF_vars(l \in Cables /\ LinkDiscovered(l))
  /\ \A t \in AllTalks : WF_vars(t \in Talks /\ HostSends(t[1], t[2]))
  /\ \A place \in Places : SF_vars(PortForwards(place))

-----------------------------------------------------------------------------
(***************************************************************************)
(* The types of the variables.                                             *)
(***************************************************************************)
TypeOK ==
  /\ DOMAIN hosts \subseteq Hosts /\ arp_table \subseteq DOMAIN hosts
  /\ timeDict \in [Hosts -> SUBSET Hosts]
  /\ DOMAIN datapath_list \subseteq Switches /\ bandwidths \subseteq Switches
  /\ DOMAIN adjacency \subseteq Switches \X Switches
  /\ G.edges \subseteq G.nodes \X G.nodes /\ G.nodes \subseteq Switches
  /\ up \subseteq Cables /\ links \subseteq Cables
  /\ Cardinality(wire) <= MaxWire /\ changes \in 0..MaxChanges

(***************************************************************************)
(* A host is known at the port it is plugged into, although its requests   *)
(* are flooded through the network, in loops too, and seen at every port   *)
(* (lines 380-381).                                                        *)
(***************************************************************************)
HostsAtHome == \A h \in DOMAIN hosts : hosts[h] = Home[h]

(***************************************************************************)
(* install_paths finds a datapath for each node of each path (line 161),   *)
(* so it never stops half-way through its loops, however switches and      *)
(* links come and go.                                                      *)
(***************************************************************************)
NodesHaveDatapaths == G.nodes = DOMAIN datapath_list

(***************************************************************************)
(* Once the application has handled its events, it can use each link that  *)
(* has been discovered in both directions: there is an edge, and the ports *)
(* at both ends are the right ones.                                        *)
(***************************************************************************)
DiscoveredLinksAreUsable ==
  events = << >> =>
    \A l \in links : Rev(l) \in links =>
      /\ <<l[1], l[3]>> \in G.edges
      /\ <<l[1], l[3]>> \in DOMAIN adjacency /\ adjacency[<<l[1], l[3]>>] = l[2]

(***************************************************************************)
(* The way of a tagged frame from port 2 of the switch of its sender: the  *)
(* ports it enters, and <<s, 1>> when it comes to the daemon at s.         *)
(***************************************************************************)
Step(place, f) ==
  LET outs == {r.out : r \in Lookup(place[1], place[2], f)}
      next == {<<l[3], l[4]>> : l \in {l \in up : l[1] = place[1] /\ l[2] \in outs}}
  IN IF 1 \in outs THEN {<<place[1], 1>>} ELSE next
Way(place, f) ==
  LET way[i \in 0..Cardinality(Switches)] ==
        IF i = 0 THEN {place}
        ELSE UNION {IF p[2] = 1 THEN {p} ELSE Step(p, f) : p \in way[i - 1]}
  IN way[Cardinality(Switches)]

(***************************************************************************)
(* From a to b: to the daemon of a, by every tag of k paths to the daemon  *)
(* of b, and to b.                                                         *)
(***************************************************************************)
Arrives(a, b, k) ==
  LET out(place, f) == {r.out : r \in Lookup(place[1], place[2], f)}
      ip == Frame("IPv4", a, b, "none")
  IN /\ out(Home[a], ip) = {1}
     /\ \A j \in 1..k : \A v \in Vlans(j, vlan) \cup Vlans(j, mirrIorvlan) :
          Way(<<Home[a][1], 2>>, Frame("VLAN", a, b, v)) = {<<Home[b][1], 1>>}
     /\ out(<<Home[b][1], 2>>, ip) = {Home[b][2]}
Works(r) == /\ Arrives(r.src, r.dst, Len(r.paths)) /\ Arrives(r.dst, r.src, Len(r.paths))

(***************************************************************************)
(* Nothing is on its way to the switches, and the cables all work.         *)
(***************************************************************************)
Quiet == up = Cables /\ \A s \in Switches : conn[s].live /\ chan[s] = << >>
Nodes(r) == UNION {ToSet(r.paths[k]) : k \in DOMAIN r.paths}
Apart(r) == Home[r.src][1] # Home[r.dst][1]

(***************************************************************************)
(* The entries of an installation, with those of the installations before  *)
(* it still in the tables, take packets with each tag from host to host in *)
(* both directions, provided that the connections the entries were sent on *)
(* were those of the switches and still are.                               *)
(***************************************************************************)
RoutesWork ==
  Quiet => \A pair \in DOMAIN routes :
    LET r == routes[pair] IN
    (Apart(r) /\ \A s \in Nodes(r) : conn[s] = r.conn[s] /\ conn[s].n = r.sent[s]) => Works(r)

(***************************************************************************)
(* Each host that wants to talk gets an answer to its ARP requests,        *)
(* although a reply is dropped when it is faster than the entries for it   *)
(* (line 391).                                                             *)
(***************************************************************************)
Resolves == \A t \in AllTalks : <>(t \in Talks => t \in resolved)
-----------------------------------------------------------------------------
(***************************************************************************)
(* What the program says of itself and does not keep.  No run checks these *)
(* statements; added to the run of this module they are refuted.           *)
(***************************************************************************)

(***************************************************************************)
(* "Available paths from" (line 80): the paths of get_paths lead over      *)
(* links that are there.                                                   *)
(***************************************************************************)
AvailablePathsExist ==
  events = << >> => \A e \in G.edges : \E l \in links : e = <<l[1], l[3]>> \/ e = <<l[3], l[1]>>

(***************************************************************************)
(* "Path installation finished" (line 294): when the switches have done    *)
(* what they were told on the connections they had, the paths are there.   *)
(***************************************************************************)
FinishedMeansInstalled ==
  Quiet => \A pair \in DOMAIN routes :
    LET r == routes[pair] IN (Apart(r) /\ conn = r.conn) => Works(r)

(***************************************************************************)
(* "Path Alread Done" (line 390): when the application knows each switch   *)
(* by the connection it has, the paths that are done are there.            *)
(***************************************************************************)
DoneMeansInstalled ==
  (Quiet /\ events = << >> /\ \A s \in Switches : s \in DOMAIN datapath_list
                                /\ datapath_list[s] = conn[s].n) =>
    \A pair \in DOMAIN routes :
      LET r == routes[pair] IN (Apart(r) /\ Done(r.src, r.dst)) => Works(r)

(***************************************************************************)
(* "host target is on the same switch" (line 65): the path of one switch   *)
(* serves hosts there.                                                     *)
(***************************************************************************)
SameSwitchWorks ==
  Quiet => \A pair \in DOMAIN routes : LET r == routes[pair] IN conn = r.conn => Works(r)
=============================================================================
