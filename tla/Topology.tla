------------------------------ MODULE Topology ------------------------------
(***************************************************************************)
(* The topology discovery of Ryu (topology/switches.py, class Switches):   *)
(* from the connections of the switches, the state of their ports and the  *)
(* LLDP packets it makes them send to each other, it finds out which       *)
(* switches, links and hosts there are and tells the applications that     *)
(* observe it.  The LLDP timetable is in LldpSchedule.                     *)
(*                                                                         *)
(* A port is a pair <<s, p>> of a datapath id and a port number, a link a  *)
(* pair of ports.                                                          *)
(***************************************************************************)
EXTENDS Integers, SequencesExt

CONSTANTS
  Switches,
  Ports,           \* the ports that the switches may have
  Cabling,         \* cable plans: functions from ports to the port at the other end
  Host,            \* the MAC address of a host
  HostPorts,       \* the ports where packets of the host come in
  LINK_LLDP_DROP,
  Blind,           \* may ports change while a switch has no connection but
                   \* the controller has not noticed?
  Drops,           \* may a switch drop its connection?
  MaxChanges,      \* bound: changes of connections, ports and cables
  MaxQueue         \* bound: length of the event queue of Switches

ASSUME TopologyConstants ==
  /\ \A p \in Ports : p[1] \in Switches
  /\ \A c \in Cabling : /\ DOMAIN c \subseteq Ports
                        /\ \A p \in DOMAIN c : c[p] \in DOMAIN c /\ c[c[p]] = p
  /\ HostPorts \subseteq Ports
  /\ LINK_LLDP_DROP \in Nat /\ Blind \in BOOLEAN /\ Drops \in BOOLEAN

VARIABLES
  dps,         \* dps[s]: the connection that is used for switch s
  port_state,  \* port_state[s][p]: the port as its switch described it
  ports,       \* ports[port]: is_down, and how many LLDP packets were lost
  links,       \* links[link]: "fresh", or "old" after LINK_TIMEOUT
  _map,        \* _map[port]: the peer of a port
  hosts,       \* hosts[mac]: the port of a host
  link_loop,   \* whether the thread that looks for old links is alive
  round,       \* the round of link_loop that is under way
  view,        \* history: what the events have told
  queue,       \* the events for Switches (RyuApp.events)
  open,        \* open[s]: the connections the controller believes in
  conn,        \* conn[s]: the connection of the switch, 0 if none, and the last number
  phys,        \* phys[port]: "up", "down" or "absent"
  cable,       \* the cable plan
  air,         \* the links over which an LLDP packet is on its way
  changes

thread == <<link_loop, round>>
state == <<dps, port_state, ports, links, _map, hosts, thread, view>>
world == <<open, conn, phys, cable, air, changes>>
vars == <<state, queue, world>>

Link(src, dst) == <<src, dst>>
Without(f, S) == Restrict(f, DOMAIN f \ S)
With(f, x, y) == [z \in DOMAIN f \cup {x} |-> IF z = x THEN y ELSE f[z]]
PortsOf(s) == {p \in Ports : p[1] = s}
Room == Len(queue) < MaxQueue

(***************************************************************************)
(* A round of link_loop: the links it has found to be too old (the list    *)
(* deleted), those of them it has still to take down, and the one it has   *)
(* taken down last.                                                        *)
(***************************************************************************)
Idle == [deleted |-> {}, todo |-> {}, link |-> << >>]

Init ==
  /\ dps = << >> /\ port_state = << >> /\ ports = << >> /\ links = << >> /\ _map = << >>
  /\ hosts = << >> /\ link_loop = TRUE /\ round = Idle
  /\ view = [switches |-> {}, links |-> {}]
  /\ queue = << >>
  /\ open = [s \in Switches |-> {}] /\ conn = [s \in Switches |-> [n |-> 0, last |-> 0]]
  /\ phys = [p \in Ports |-> "up"] /\ cable \in Cabling /\ air = {} /\ changes = 0

-----------------------------------------------------------------------------
(***************************************************************************)
(* The world.  A switch connects and describes its ports, loses its        *)
(* connection, and connects again, maybe before the controller notices.    *)
(***************************************************************************)
Shape(s) == [p \in {p \in PortsOf(s) : phys[p] # "absent"} |-> phys[p] = "down"]

SwitchConnects(s) ==
  /\ conn[s].n = 0 /\ Room
  /\ conn' = [conn EXCEPT ![s] = [n |-> @.last + 1, last |-> @.last + 1]]
  /\ open' = [open EXCEPT ![s] = @ \cup {conn[s].last + 1}]
  /\ queue' = Append(queue, [type |-> "main", s |-> s, n |-> conn[s].last + 1, ports |-> Shape(s)])
  /\ UNCHANGED <<state, phys, cable, air, changes>>

SwitchDrops(s) ==
  /\ Drops /\ conn[s].n # 0 /\ changes < MaxChanges
  /\ conn' = [conn EXCEPT ![s].n = 0]
  /\ changes' = changes + 1
  /\ UNCHANGED <<state, queue, open, phys, cable, air>>

ControllerNotices(s) ==
  /\ Room
  /\ \E n \in open[s] \ {conn[s].n} :
       /\ open' = [open EXCEPT ![s] = @ \ {n}]
       /\ queue' = Append(queue, [type |-> "dead", s |-> s, n |-> n])
  /\ UNCHANGED <<state, conn, phys, cable, air, changes>>

(***************************************************************************)
(* OFPPR_ADD, OFPPR_DELETE and OFPPR_MODIFY.                               *)
(***************************************************************************)
Reason(old, new) == IF old = "absent" THEN "add" ELSE IF new = "absent" THEN "delete" ELSE "modify"

PortChanges(p) ==
  LET s == p[1] IN
  /\ changes < MaxChanges /\ Room
  /\ Blind \/ conn[s].n # 0 \/ open[s] = {}
  /\ \E new \in {"up", "down", "absent"} \ {phys[p]} :
       /\ phys' = [phys EXCEPT ![p] = new]
       /\ queue' = IF conn[s].n = 0 THEN queue
                   ELSE Append(queue, [type |-> Reason(phys[p], new), s |-> s, n |-> conn[s].n,
                                       port |-> p, down |-> new = "down"])
  /\ changes' = changes + 1
  /\ UNCHANGED <<state, open, conn, cable, air>>

Recable ==
  /\ changes < MaxChanges
  /\ cable' \in Cabling \ {cable}
  /\ changes' = changes + 1
  /\ UNCHANGED <<state, queue, open, conn, phys, air>>

HostFrame(p) ==
  /\ phys[p] = "up" /\ conn[p[1]].n # 0 /\ Room
  /\ \A i \in DOMAIN queue : queue[i].type # "host"
  /\ queue' = Append(queue, [type |-> "host", s |-> p[1], n |-> conn[p[1]].n, from |-> p])
  /\ UNCHANGED <<state, world>>

-----------------------------------------------------------------------------
(***************************************************************************)
(* send_lldp_packet, called by lldp_loop.  The count goes up for a port    *)
(* that is down, too.  The packet goes over the cable, and the switch at   *)
(* the other end reports it some time later, or cannot.                    *)
(***************************************************************************)
Sends(p) == /\ ~ports[p].is_down /\ p[1] \in DOMAIN dps /\ dps[p[1]] = conn[p[1]].n
            /\ phys[p] = "up" /\ p \in DOMAIN cable
Reports(p) == phys[p] = "up" /\ conn[p[1]].n # 0

send_lldp_packet(p) ==
  /\ p \in DOMAIN ports
  /\ \A l \in air : l[1] # p
  /\ \A i \in DOMAIN queue : ~(queue[i].type = "lldp" /\ queue[i].src = p)
  /\ ports' = [ports EXCEPT ![p].sent = IF @ > LINK_LLDP_DROP THEN @ ELSE @ + 1]
  /\ air' = air \cup (IF Sends(p) THEN {Link(p, cable[p])} ELSE {})
  /\ UNCHANGED <<dps, port_state, links, _map, hosts, thread, view, queue,
                 open, conn, phys, cable, changes>>

LldpArrives(p) ==
  /\ Room
  /\ \E l \in air : /\ l[1] = p
                    /\ air' = air \ {l}
                    /\ queue' = IF Reports(l[2])
                                THEN Append(queue, [type |-> "lldp", s |-> l[2][1],
                                                    n |-> conn[l[2][1]].n, src |-> p, dst |-> l[2]])
                                ELSE queue
  /\ UNCHANGED <<state, open, conn, phys, cable, changes>>

(***************************************************************************)
(* LINK_TIMEOUT seconds have passed since the last LLDP packet.            *)
(***************************************************************************)
LinkAges(l) ==
  /\ l \in DOMAIN links /\ links[l] = "fresh"
  /\ links' = [links EXCEPT ![l] = "old"]
  /\ UNCHANGED <<dps, port_state, ports, _map, hosts, thread, view, queue, world>>

(***************************************************************************)
(* _link_down for ports S of one switch.  The links that port_deleted      *)
(* finds, since both its KeyErrors (no peer, no link) are caught, go from  *)
(* the ports Linked(S) to other switches (BothThere), so it does not       *)
(* matter in which order the ports are visited.  Withdrawn are these links *)
(* and what the peers were last heard to be connected to.                  *)
(***************************************************************************)
Linked(S) == {p \in S : p \in DOMAIN _map /\ Link(p, _map[p]) \in DOMAIN links}
Peers(S) == {_map[p] : p \in Linked(S)}
LinksFrom(P) == {Link(p, _map[p]) : p \in P}
Reversed(L) == {Link(l[2], l[1]) : l \in L}

(***************************************************************************)
(* _link_down gone wrong: nobody is told about the reverse links.          *)
(***************************************************************************)
WithdrawnOneWay(S) == LinksFrom(Linked(S))

Withdrawn(S) == LinksFrom(Linked(S)) \cup LinksFrom(Peers(S) \cap DOMAIN _map)

LinkDowns(S, known) ==
  LET gone == LinksFrom(Linked(S)) IN
  /\ links' = Without(links, gone \cup Reversed(gone))
  /\ _map' = Without(_map, Linked(S) \cup Peers(S))
  /\ view' = [switches |-> known, links |-> view.links \ Withdrawn(S)]

-----------------------------------------------------------------------------
(***************************************************************************)
(* The handlers of Switches.  An exception ends a handler; the event loop  *)
(* goes on with the next event.                                            *)
(***************************************************************************)
Event(type) == queue # << >> /\ Head(queue).type = type
HasPort(p) == p[1] \in DOMAIN dps /\ p \in DOMAIN port_state[p[1]]
PortAdded(f, p, is_down) ==
  With(f, p, [is_down |-> is_down, sent |-> IF p \in DOMAIN f THEN f[p].sent ELSE 0])
PortsAdded(shape) ==
  [p \in DOMAIN ports \cup DOMAIN shape |->
    IF p \in DOMAIN shape THEN PortAdded(ports, p, shape[p])[p] ELSE ports[p]]

(***************************************************************************)
(* state_change_handler in MAIN_DISPATCHER: a second connection of a       *)
(* switch replaces the first one, is announced as EventSwitchReconnected   *)
(* and changes nothing else.                                               *)
(***************************************************************************)
SwitchMain ==
  /\ Event("main")
  /\ LET e == Head(queue)
         again == e.s \in DOMAIN dps
     IN /\ dps' = With(dps, e.s, e.n)
        /\ port_state' = IF e.s \in DOMAIN port_state THEN port_state
                         ELSE With(port_state, e.s, e.ports)
        /\ ports' = IF again THEN ports ELSE PortsAdded(port_state'[e.s])
        /\ view' = [view EXCEPT !.switches = @ \cup {e.s}]
  /\ queue' = Tail(queue)
  /\ UNCHANGED <<links, _map, hosts, thread, world>>

(***************************************************************************)
(* state_change_handler in DEAD_DISPATCHER: the death of a connection that *)
(* has been replaced is ignored.  A port that is not in ports raises       *)
(* KeyError, and the links of the ports after it stay.                     *)
(***************************************************************************)
SwitchDead ==
  /\ Event("dead")
  /\ LET e == Head(queue) IN
     IF e.s \notin DOMAIN dps \/ dps[e.s] # e.n
     THEN UNCHANGED <<dps, port_state, ports, links, _map, view>>
     ELSE LET mine == DOMAIN port_state[e.s]
              strange == mine \ DOMAIN ports
          IN \E S \in SUBSET (mine \ strange) :
               /\ strange = {} => S = mine
               /\ dps' = Without(dps, {e.s}) /\ port_state' = Without(port_state, {e.s})
               /\ ports' = Without(ports, S)
               /\ LinkDowns(S, view.switches \ {e.s})
  /\ queue' = Tail(queue)
  /\ UNCHANGED <<hosts, thread, world>>

(***************************************************************************)
(* port_status_handler.                                                    *)
(***************************************************************************)
PortAdd ==
  /\ Event("add")
  /\ LET e == Head(queue) IN
     IF e.s \notin DOMAIN port_state THEN UNCHANGED <<port_state, ports>>
     ELSE /\ port_state' = [port_state EXCEPT ![e.s] = With(@, e.port, e.down)]
          /\ ports' = PortAdded(ports, e.port, e.down)
  /\ queue' = Tail(queue)
  /\ UNCHANGED <<dps, links, _map, hosts, thread, view, world>>

(***************************************************************************)
(* port_status_handler gone wrong: LLDP packets are still sent to a port   *)
(* that has been deleted.                                                  *)
(***************************************************************************)
PortDeleteKeepsPort ==
  /\ Event("delete")
  /\ LET e == Head(queue)
         p == e.port
     IN IF ~HasPort(p) THEN UNCHANGED <<port_state, links, _map, view>>
        ELSE /\ port_state' = [port_state EXCEPT ![e.s] = Without(@, {p})]
             /\ LinkDowns({p}, view.switches)
  /\ queue' = Tail(queue)
  /\ UNCHANGED <<dps, ports, hosts, thread, world>>

PortDelete ==
  /\ Event("delete")
  /\ LET e == Head(queue)
         p == e.port
     IN IF ~HasPort(p) \/ p \notin DOMAIN ports
        THEN UNCHANGED <<port_state, ports, links, _map, view>>
        ELSE /\ ports' = Without(ports, {p})
             /\ port_state' = [port_state EXCEPT ![e.s] = Without(@, {p})]
             /\ LinkDowns({p}, view.switches)
  /\ queue' = Tail(queue)
  /\ UNCHANGED <<dps, hosts, thread, world>>

PortModify ==
  /\ Event("modify")
  /\ LET e == Head(queue)
         p == e.port
     IN IF e.s \notin DOMAIN port_state THEN UNCHANGED <<port_state, ports, links, _map, view>>
        ELSE /\ port_state' = [port_state EXCEPT ![e.s] = With(@, p, e.down)]
             /\ IF p \notin DOMAIN ports THEN UNCHANGED <<ports, links, _map, view>>
                ELSE /\ ports' = [ports EXCEPT ![p].is_down = e.down]
                     /\ LinkDowns(IF e.down THEN {p} ELSE {}, view.switches)
  /\ queue' = Tail(queue)
  /\ UNCHANGED <<dps, hosts, thread, world>>

(***************************************************************************)
(* _is_edge_port gone wrong: the port where a link ends is taken for an    *)
(* edge.                                                                   *)
(***************************************************************************)
IsNoSource(p, known) == \A l \in known : p # l[1]

(***************************************************************************)
(* lldp_packet_in_handler.  The hosts are checked against the links that   *)
(* were known before the new one.                                          *)
(***************************************************************************)
IsEdgePort(p, known) == \A l \in known : p \notin {l[1], l[2]}

(***************************************************************************)
(* PortData.lldp_received gone wrong: the count of lost packets goes on.   *)
(***************************************************************************)
LldpStillLost(src, dst) == ports

LldpReceived(src, dst) ==
  IF HasPort(src) /\ src[1] # dst[1] /\ src \in DOMAIN ports
  THEN [ports EXCEPT ![src].sent = 0] ELSE ports

(***************************************************************************)
(* The early returns gone wrong: only the switch that received the packet  *)
(* is looked up.                                                           *)
(***************************************************************************)
OneThere(src, dst) == HasPort(dst)

BothThere(src, dst) == HasPort(src) /\ HasPort(dst) /\ src[1] # dst[1]

lldp_packet_in_handler ==
  /\ Event("lldp")
  /\ LET src == Head(queue).src
         dst == Head(queue).dst
         old == IF src \in DOMAIN _map /\ _map[src] # dst THEN {Link(src, _map[src])} ELSE {}
         known == DOMAIN links \ old
         link == Link(src, dst)
     IN /\ ports' = LldpReceived(src, dst)
        /\ IF ~BothThere(src, dst) \/ ~(old \subseteq DOMAIN links)
           THEN UNCHANGED <<links, _map, hosts, view>>
           ELSE /\ links' = With(Without(links, old), link, "fresh")
                /\ _map' = With(_map, src, dst)
                /\ hosts' = IF link \in known THEN hosts
                            ELSE Restrict(hosts, {h \in DOMAIN hosts : IsEdgePort(hosts[h], known)})
                /\ view' = [view EXCEPT !.links =
                              IF link \in known THEN @ \ old ELSE (@ \ old) \cup {link}]
  /\ queue' = Tail(queue)
  /\ UNCHANGED <<dps, port_state, thread, world>>

(***************************************************************************)
(* host_discovery_packet_in_handler: EventHostAdd, or EventHostMove.       *)
(***************************************************************************)
host_discovery_packet_in_handler ==
  /\ Event("host")
  /\ LET p == Head(queue).from IN
     hosts' = IF HasPort(p) /\ IsEdgePort(p, DOMAIN links) THEN With(hosts, Host, p) ELSE hosts
  /\ queue' = Tail(queue)
  /\ UNCHANGED <<dps, port_state, ports, links, _map, thread, view, world>>

(***************************************************************************)
(* LinkState.link_down gone wrong: the port keeps its peer.                *)
(***************************************************************************)
StillMapped(l) == _map

Unmapped(l) == Without(_map, {l[1]})

(***************************************************************************)
(* link_loop takes the next link l of round r down, known being the        *)
(* dictionary of links by then: LinkState.link_down, and EventLinkDelete.  *)
(* A KeyError in link_down, of the link or, once that is deleted, of the   *)
(* peer, ends the thread.                                                  *)
(***************************************************************************)
link_down(l, r, known) ==
  /\ links' = Without(known, {l})
  /\ IF l \in DOMAIN known /\ l[1] \in DOMAIN _map
     THEN /\ _map' = Unmapped(l)
          /\ view' = [view EXCEPT !.links = @ \ {l}]
          /\ round' = [r EXCEPT !.todo = @ \ {l}, !.link = l]
          /\ UNCHANGED link_loop
     ELSE /\ link_loop' = FALSE /\ round' = Idle
          /\ UNCHANGED <<_map, view>>

(***************************************************************************)
(* A round of link_loop that finds old links, up to the first event.       *)
(***************************************************************************)
deleted == {l \in DOMAIN links : /\ links[l] = "old" /\ l[1] \in DOMAIN ports
                                 /\ ports[l[1]].sent > LINK_LLDP_DROP}

LinkLoopStarts ==
  /\ link_loop /\ round = Idle
  /\ \E l \in deleted : link_down(l, [Idle EXCEPT !.deleted = deleted, !.todo = deleted], links)
  /\ UNCHANGED <<dps, port_state, ports, hosts, queue, world>>

(***************************************************************************)
(* send_event_to_observers waits while the queue of an observer is full,   *)
(* and other threads run.  Then the reverse of the link is dealt with (it  *)
(* is to be checked early), and the next link, if there is one.            *)
(***************************************************************************)
CheckedEarly(l) ==
  IF l \in DOMAIN links \ round.deleted THEN [links EXCEPT ![l] = "old"] ELSE links

LinkLoopGoesOn ==
  /\ round # Idle
  /\ LET known == CheckedEarly(Link(round.link[2], round.link[1])) IN
     \/ \E l \in round.todo : link_down(l, round, known)
     \/ /\ round.todo = {}
        /\ links' = known /\ round' = Idle
        /\ UNCHANGED <<_map, view, link_loop>>
  /\ UNCHANGED <<dps, port_state, ports, hosts, queue, world>>

LinkLoop == LinkLoopStarts \/ LinkLoopGoesOn

Handlers == \/ SwitchMain \/ SwitchDead \/ PortAdd \/ PortDelete \/ PortModify
            \/ lldp_packet_in_handler \/ host_discovery_packet_in_handler
Next ==
  \/ Handlers \/ LinkLoop \/ Recable
  \/ \E s \in Switches : SwitchConnects(s) \/ SwitchDrops(s) \/ ControllerNotices(s)
  \/ \E p \in Ports : PortChanges(p) \/ send_lldp_packet(p) \/ LldpArrives(p)
  \/ \E p \in HostPorts : HostFrame(p)
  \/ \E l \in Ports \X Ports : LinkAges(l)

Spec == Init /\ [][Next]_vars

(***************************************************************************)
(* The threads go on: the event loop and, as long as it lives, link_loop;  *)
(* time passes; a switch tries to connect until it succeeds, and the       *)
(* controller notices that a connection is gone, by an error or by an      *)
(* unanswered echo.  Strong fairness for those who wait for room in the    *)
(* queue, which serves them in turn.  For a switch connecting and being    *)
(* noticed to be gone alternate, so it is enough that one of the two       *)
(* happens.                                                                *)
(***************************************************************************)
FairSpec ==
  /\ Spec
  /\ WF_vars(Handlers) /\ WF_vars(LinkLoop)
  /\ \A s \in Switches : SF_vars(SwitchConnects(s) \/ ControllerNotices(s))
  /\ \A p \in Ports : WF_vars(\E q \in Ports : LinkAges(Link(p, q)))

(***************************************************************************)
(* What lldp_loop does not always do (see AlwaysServes of LldpSchedule):   *)
(* it goes on to send over every port, and the packets get there or are    *)
(* lost.                                                                   *)
(***************************************************************************)
LldpGoesOn == \A p \in Ports : SF_vars(send_lldp_packet(p) \/ LldpArrives(p))

-----------------------------------------------------------------------------
(***************************************************************************)
(* The types of the variables.                                             *)
(***************************************************************************)
TypeOK ==
  /\ DOMAIN dps \subseteq Switches /\ DOMAIN ports \subseteq Ports
  /\ DOMAIN links \subseteq Ports \X Ports /\ DOMAIN _map \subseteq Ports
  /\ \A p \in DOMAIN ports : ports[p] \in [is_down : BOOLEAN, sent : 0..(LINK_LLDP_DROP + 1)]
  /\ link_loop \in BOOLEAN /\ round.deleted \subseteq Ports \X Ports
  /\ round.todo \subseteq round.deleted /\ Len(queue) <= MaxQueue /\ changes \in 0..MaxChanges

(***************************************************************************)
(* The two books of LinkState agree, through timeouts, ports that go away  *)
(* and connections that die, while link_loop works off a list of links     *)
(* that may be outdated by then: a port has a peer just when the link to   *)
(* it is in the dictionary.  (So it is never the second statement of       *)
(* link_down that raises KeyError; the first one may, see LinkForgotten.)  *)
(***************************************************************************)
MapMatchesLinks == DOMAIN links = {Link(p, _map[p]) : p \in DOMAIN _map}

(***************************************************************************)
(* The ports to which LLDP packets are sent are the ports of the switches  *)
(* that are there, so that del_port finds the ports of a dead switch (line *)
(* 689), and the source of a link is one of them, so that link_loop can    *)
(* time the link out (line 966).                                           *)
(***************************************************************************)
PortsTracked ==
  /\ DOMAIN port_state = DOMAIN dps
  /\ DOMAIN ports = UNION {DOMAIN port_state[s] : s \in DOMAIN dps}
  /\ \A l \in DOMAIN links : l[1] \in DOMAIN ports

(***************************************************************************)
(* Who has followed the events knows just the switches and the links that  *)
(* a request would return (switch_request_handler, link_request_handler).  *)
(***************************************************************************)
EventsTellAll == view.switches = DOMAIN dps /\ view.links = DOMAIN links

(***************************************************************************)
(* "remove hosts if it's not attached to edge port" (line 820): once a     *)
(* link is known in both directions, no host is believed to be at its      *)
(* ports, although packets of hosts come in there.                         *)
(***************************************************************************)
HostsAtEdge ==
  \A l \in DOMAIN links : Link(l[2], l[1]) \in DOMAIN links =>
    \A h \in DOMAIN hosts : hosts[h] \notin {l[1], l[2]}

(***************************************************************************)
(* The events keep the promises of TopologyFeed.                           *)
(***************************************************************************)
SwitchesOf(l) == {l[1][1], l[2][1]}
Feed == INSTANCE TopologyFeed WITH
          AllSwitches <- Switches, AllLinks <- Ports \X Ports,
          entered <- view.switches, announced <- view.links
FeedSpec == Feed!Spec

(***************************************************************************)
(* "Being notified change of link up/down" (doc/source/gui.rst:11), as     *)
(* long as lldp_loop serves every port: a link from p that works from some *)
(* time on is known in the end, and if the thread link_loop has not ended, *)
(* one that has stopped to work is forgotten in the end.                   *)
(***************************************************************************)
Works(p) == /\ p \in DOMAIN cable /\ phys[p] = "up" /\ conn[p[1]].n # 0
            /\ Reports(cable[p])
Known(p) == p \in DOMAIN cable /\ Link(p, cable[p]) \in view.links
Forgotten(p) == \A q \in Ports : Link(p, q) \notin view.links

LinkNotified(p) ==
  LldpGoesOn =>
    /\ <>[]Works(p) => <>[]Known(p)
    /\ []link_loop /\ <>[]~Works(p) => <>[]Forgotten(p)

(***************************************************************************)
(* The same of a link that has stopped to work, without the condition that *)
(* the thread lives.  No run checks this, and the code does not keep it:   *)
(* while link_loop waits between two links of a round, a handler may       *)
(* delete the second one; then link_down raises KeyError, the thread ends, *)
(* and no link is ever timed out again.                                    *)
(***************************************************************************)
LinkForgotten(p) == LldpGoesOn => (<>[]~Works(p) => <>[]Forgotten(p))
=============================================================================
