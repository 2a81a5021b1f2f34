# WISPR in TLA+

WISPR carries the traffic between two hosts over several paths of an SDN fabric
at once. A daemon beside each host (`src/WISPR2Vlan/src`) tags every packet with
a VLAN tag that selects a path, sends it twice, the second time with a *mirror*
tag that selects another path, and at the other end strips the tag from the copy
that arrives first and drops the second. A Ryu application
(`src/RYUNEW/ryu/ryu/app/ryu_multipath.py`) computes the paths and installs the
rules for the tags in the switches.

This directory holds TLA+ models of that program, the TLC configurations that
check them, and TLAPS proofs of the main results for every value of the
constants. The controller runs on the copy of Ryu in `src/RYUNEW/ryu`; the parts of
Ryu whose behaviour the application depends on (connections, the topology
discovery, the event loops) are modelled too.

## Inventory

| part | state | operations | talks to |
|---|---|---|---|
| tagging at the ingress (`wispr_proto.c`) | `wispringress`: last tag of every (src, dst) pair | `process_ingress0`, `get_or_add_ingresssession`, `send_packet_withkey` | frames to the fabric |
| copy elimination at the egress (`wispr_proto.c`) | `wisprmirt`: per pair, when each of the `NUMBEROFGROUPS x (NUMBEROFPATHS+1)` slots was last used | `process_wispr0_vlan`, `get_or_add_mirror_session`, `time_diff` | wall clock, frames to the host |
| dispatch (`wispr_net.c`) | none of its own | `process_newpkt`, `handle_ipv4pkt`, `handle_vlanPkt`, `send_packet_raw` | called by the loop, calls the two above |
| sockets (`wispr_net.c`) | `struct wisprsock` | `init_wispr_sockets`, `destroy_wisprsock` | called by the daemon |
| daemon (`wisprd.c`) | PID file, return value pipe, signal pipe | start, `-k`, select loop, signals, cleanup | libdaemon, other invocations of itself |
| controller (`ryu_multipath.py`) | `adjacency`, `G`, `hosts`, `arp_table`, `timeDict`, `datapath_list`, `bandwidths` | switch, port and link events, packet-in, `get_paths`, `install_paths`, `add_flow` | events of the topology discovery, flow entries and packets to the switches |
| topology discovery (`topology/switches.py`) | `dps`, `port_state`, `ports`, `links` with its `_map`, `hosts` | state change, port status, LLDP and host packet-in, `link_loop` | events to the controller application |
| LLDP timetable (`topology/switches.py`) | `PortDataState`, an ordered list of ports with time stamps | `lldp_loop`, and the handlers that change the list while it waits | packets to the switches |
| connections (`controller/controller.py`, `ofp_handler.py`) | `Datapath`: state, send queue with its semaphore, unanswered echo requests | receive, send and echo threads, handshake, `close` | switches, event queues |
| version negotiation (`ofp_handler.py`, `ofproto_protocol.py`) | `_supported_versions` | `set_app_supported_versions`, `hello_handler` | switches |
| application runtime (`base/app_manager.py`) | event queues with their semaphores, `SERVICE_BRICKS`, `applications` | `_send_event`, `_event_loop`, `stop`, `close` | all of the above |
| controller variants (`ryu_multipath2.py`, `_3.py`) | as the controller | depth-first `get_paths`, `get_optimal_paths` | |
| GRE remains, parity | none live | `process_wispr0`, `send_paritypacket` (not called) | |

What is hard here, and what the properties are aimed at:

* **Time.** The egress has no sequence numbers: a slot (group, number) and 600
  microseconds of wall-clock time are all it has to tell the second copy of one
  packet from the first copy of another. Delay differences, clock adjustments
  and the rate of the flow all bear on it.
* **Loss and order.** Copies are lost, delayed and reordered independently, and
  no `sendto` is looked at, neither those of the copies nor the one at the egress,
  which comes after the packet has been noted as seen.
* **Restarts.** Both tables are in memory only. An ingress that restarts begins
  again at the first slot; an egress that restarts has forgotten what it passed on.
* **Array bounds.** The tag of a frame indexes the table without a check; only
  the sender's arithmetic keeps it inside.
* **Direction by type.** A daemon sees both directions on the same link and tells
  them apart by the Ethernet type only; the rules of the controller and the two
  VLAN headers have to fit together so that a frame is tagged once, stripped once
  and then left alone.
* **Several invocations.** Starts, kills, crashes and cleanups share one PID file.
* **Waiting.** A parent waits for its child, `-k` for the daemon, the daemon for
  a signal or a packet. In the controller every queue is bounded, and a handler
  that sends an event may wait for room in a queue, even its own.
* **Old pictures of the network.** The controller acts on events: what it knows of
  switches, ports, links and hosts lags behind, comes in pieces and out of order, and
  is kept in several tables that have to agree.
* **Reconnection.** A switch may connect again before the end of its old connection
  has been noticed; the two then overlap in every part of the controller.
* **Greenlets.** Threads of Ryu switch only where they wait, but they are killed
  there too, and other threads change what a loop has collected before it waited.
* **Shutdown.** Applications are stopped one by one while the others still send.

`PROJECT.json` lists each of these at its line, with the properties that cover it.

## Modules

| module | models |
|---|---|
| `WisprTag` | the layout of the 16-bit tag, its successor `NextTag` (the arithmetic of `process_ingress0`), `MirrorTag` (`\| 0x0100`), the slot a tag selects |
| `WisprIngress` | the session table of the sender; actions `process_ingress0` and `RestartTables` |
| `WisprEgress` | the table of stamps, the test `HasntBeenSeen` and the update `process_wispr0_vlan` |
| `WisprTunnel` | ingress and egress composed over a fabric with delays, losses and a clock |
| `WisprChannel` | abstract: what the tunnel promises to the hosts |
| `WisprDaemon` | `main` of `wisprd.c`, any number of invocations of it at the same time |
| `WisprEdge` | two hosts, edge switches and daemons: the dispatch of `wispr_net.c` for every kind of frame, encapsulation and stripping, the GRE remains, and the controller's rules at the edges; extends `WisprIngress` and `WisprEgress` |
| `Multipath` | the controller application with its event queue, the channels to the switches, their flow tables, and the frames of hosts that are forwarded by them |
| `Topology` | the topology discovery, and the switches, ports, cables and LLDP packets it observes |
| `TopologyFeed` | abstract: what the events of the discovery promise to an observer |
| `LldpSchedule` | the order in which ports are served with LLDP packets |
| `RyuConnection` | one connection: three threads, handshake, bounded queues, its end |
| `RyuApps` | event loops and the shutdown of the applications |
| `PathSearch` | path search and choice of the controller variants, step by step, against the set of all simple paths |
| `MCMultipath`, `MCTopology`, `MCRyuConnection`, `MCRyuApps` | networks, cable plans, the set-ups of a connection and the applications of the deployment |
| `MCWisprTunnel` | the tunnel with an explicit end of a bounded behaviour |
| `MCWisprEdge` | two daemons and the keys made of them, with an explicit end too |
| `WisprIngressProofs`, `WisprTunnelProofs`, `WisprDaemonProofs`, `WisprEdgeProofs`, `MultipathProofs`, `TopologyProofs`, `RyuConnectionProofs` | theorems about the module of that name, and their proofs |
| `RyuProofs` | theorems about `RyuApps`, `LldpSchedule` and `PathSearch` |

### From code to state

*Keys* are the (source, destination) pairs both hash tables are keyed by. A hash
table is a function whose domain is the set of keys with an entry, and
`get_or_add_...` yields the zeroed entry for the others. A mask is a remainder, a
shift a quotient, and additions on `vlan_id` are modulo 2^16. A frame is its key,
its position in the flow (which the code cannot see, and only the properties use)
and its tag. The second VLAN header `send_packet_withkey` writes repeats the first
and is removed on the way, which only `WisprEdge` models; the payload is not
modelled.

In `WisprTunnel`, `Send` is the way of a packet through `handle_ipv4pkt`,
`process_ingress`, `process_ingress0` and `send_packet_withkey`, `Receive` the way
of a copy through `handle_vlanPkt` and `process_wispr0_vlan`; each is one step
because the daemon is one thread and handles one frame before it selects again.
`Send` chooses which of its two `sendto` calls succeed. `Receive` stamps the slot of a
copy that it takes for new (`taken`) and then chooses whether the `sendto` of
`send_packet_raw` succeeds (`arrivals`), in the order of the code. `Lose` is a loss in the
fabric, or a frame for a daemon that is away. `Tick` advances real time, never
past the moment a copy has been under way for `MaxDelay`; `AdjustClock` moves the
egress host's wall clock within `Jump`. The restarts empty a table and keep the
daemon away for `RestartTime`.

In `WisprEdge` a frame has what the dispatch looks at: the kind of its destination
address, its Ethernet type, its VLAN headers, and of its IP header the flow, the
protocol and whether it is a loopback address. `wire` is the set of frames at the
ports of the two edge switches: `host`, `fabric`, `1` (to the daemon) and `2`
(from it). `Switch` takes a frame through the rules `install_paths` leaves in an
edge switch, and across the core, which only relays; a frame without a rule goes to
the controller by the table-miss rule, and `_packet_in_handler` does nothing with
it (`stray`). `process_newpkt` is one step of a daemon, in which `handle_vlanPkt`
and `handle_ipv4pkt` are the branches. Assumed of the surroundings: the kernel
removes the outer VLAN header before a packet socket sees the frame; the type a
rule matches is that of the Ethernet header; each daemon has two interfaces, input
on port 1 and output on port 2; ARP is answered before, so the rules are there. The
hosts behind one daemon are one host. `HostFrames` is what a host may send,
`Noise` what a switch may flood to the daemon's link besides. Nothing is lost in this module,
by the network or by a `sendto`. `paced` records whether every flow has left its slots alone
for long enough before it used them again (`Rested`).

In `WisprDaemon` an element of `Launches` is one invocation that starts a daemon
and stands for the process it forks; an element of `Kills` is an invocation of
`wisprd -k`. `child` is where the child is in `main`: the initialisation steps
`close_all`, `pid_file`, `signals`, `sockets`, then `tables`, `loop`, `finish`,
`exited`. libdaemon is not part of the repository and is modelled by what
`wisprd.c` relies on: the PID file is created exclusively, a check removes a file
whose process is dead, only the first value sent through the return value pipe
counts, and removing the PID file does not ask whose it is. Before
`daemon_signal_init` a signal ends the process at once; afterwards it is queued
for the loop. `init_wispr_sockets` stores its descriptors modulo 2^16, as the
`uint16_t` fields do. A crash (SIGKILL, an abort, a null pointer) may happen at
any point and leaves the PID file behind.

In `Multipath` a host stands for its MAC and its IP address. The event queue of the
application (`events`) holds switch, port, link and packet-in events; a handler is
one step, because it runs without waiting (the send queues take what a handler sends
as long as `MaxChan` messages or fewer are in the channel). `_packet_in_handler`
contains `install_paths` as a whole: the paths of networkx in any order among those of equal
length, their costs, the ports, and for every switch on them the entries for IP, for
the tags of the path and its mirror in every group, and for ARP. An exception (a
missing key) ends the handler as `_event_loop` does, with the state changed so far.
The entries that one loop sends to one switch travel as one message, in order with what else
is sent on that connection; different switches apply theirs in any order.
`conn[s].n` numbers the connections of a switch, so that messages to an old one are
recognised and lost. `net` is the network, one of `Networks`, which a behaviour
keeps: switches, hosts, cables, who talks to whom, and the bounds on what happens to it.
A network that is `known` starts in the state reached when all its switches and links have
been discovered, which a network that comes up passes through.

In `Topology` a port is up, down or absent, a cable plan says which ports are connected,
and `view` is what the events have told an observer. Links age by `LinkAges` instead of by a
clock. A round of `link_loop` is several steps: it lists the links that have timed out
(`round.deleted`), and after each one it takes down, `send_event_to_observers` may wait for room in
the queue of an observer while handlers run. What they delete meanwhile is still on the list, and a
`KeyError` in `link_down` ends the thread (`link_loop = FALSE`). The handlers themselves are single steps,
although `send_event_to_observers` may wait in them too when an observer's 128 places are taken:
they are called by one event loop one after the other, so in such a wait only `link_loop` and `lldp_loop`
could run; these interleavings are left out. The waiting itself is the matter of
`RyuConnection` and `RyuApps`. `Blind` allows ports to change while a switch has no
connection and the controller has not noticed.

`LldpSchedule` keeps the age of a port instead of its time stamp, and the local
variables of `lldp_loop`: what it collected before it sleeps is not what there is
afterwards.

In `RyuConnection` a step is what a greenlet does between two points where it may wait, and
`prog[t]` lists the calls that a thread has still to make. The queues of the two
applications and the send queue have small sizes. `setup` says what kind of connection it
is: `echo = 0` is Ryu's default and means that the echo thread does not run, `news` is how
often the same switch connects again (`ConnectsAgain`). Whether the hello of the switch is
acceptable is a choice; the version agreed upon is part of the set-up. The receiving thread ends when
the state is DEAD, when the switch has closed (even if not all that it sent was read), or by an
exception of the parser or of a handler (`RecvFails`); `serve` then kills the other two
(`KillSend`, `KillEcho`). The flow entry for LLDP packets that `Switches` sends on MAIN, where it may wait
for a permit of the send queue, is left out.

In `RyuApps` the applications of the deployment are `ofp_event`, `switches` and the
controller. Those in `Threaded` have a thread of their own that `stop` joins: `lldp_loop`, which at every
round may go into the wait that `LldpSchedule` shows to have no timeout, and which a handler may
wake. Those in `Mains` have a main thread, the server of the connections, which `stop` kills first
(`MainKilled`); others run before `is_active` is cleared.

`PathSearch` is sequential: every input within the bounds is an initial choice, and the
steps are those of the code. `get_paths` recognises `dst` by `is`, so it matters where the number
comes from. The one in `hosts` is that of the connection that sent the host's first packet; the
one in the map of a neighbour is that of the connection on which the link was found
(`ofp_handler.py:201` makes a new object for each connection). They are one object as long as the switch keeps its
connection, and also, for numbers up to 256 (`Cached`), when it has connected again; the numbers in
`mytopology.py` are larger. `same` is the set of neighbours in whose map the key for `dst` is
the object that is looked for, and any set is possible when `dst` is not in `Cached`. `sorted`
keeps paths of the same cost in the order in which they were found, and so does the choice (`ByCost`).

## What the runs check

| run | instance | holds |
|---|---|---|
| `tunnel` | 1 key, 2 paths, 1 group, 3 packets (a slot is reused), TIMEOUT 2, delays 0..1, clock adjusted by 0..1, 1 restart of either daemon, any `sendto` may fail, time up to 8 | `TypeOK`, `TagsInTable`, `WindowDistinct`, `AtMostOnce`, `DropsOnlySeen`, the refinement `ImplementsChannel`, and `EventuallyPassedOn` |
| `tunnel_rate` | `Reuse = 0`: any rate | `DropsOnlySeen` is violated |
| `daemon` | 3 starts, 1 kill, one invocation at a time, failing signal and socket set-up, 2 pending signals | `AtMostOneServing`, `ServerHasPidFile`, `StatusIsTrue`, `KillStops` |
| `daemon_liveness` | 2 overlapping starts, 1 kill, every step may fail | `StartReturns`, `TermEnds` |
| `edge` | either 2 frames of any kind, in either or both directions, and one flooded frame at a time, or 3 TCP packets, one more than there are slots; up to 2 frames of the hosts on their way at a time, 2 paths and 1 group with rules for both, TIMEOUT 0 and a clock that moves on once | `Transparent`, `TaggedOnce`, `TaggedHaveRules`, `Arrives` |
| `multipath` | four networks, below; 2 paths, 2 groups | `NodesHaveDatapaths`, `DiscoveredLinksAreUsable`, `HostsAtHome`, `RoutesWork` |
| `multipath_liveness` | 2 switches, from nothing, up to 4 frames on the wire | `Resolves` |
| `topology` | 2 switches with a port each, a cable that may be pulled, a host seen on a port, 2 changes, a queue of 1 | `MapMatchesLinks`, `PortsTracked`, `EventsTellAll`, `HostsAtEdge`, the refinement `FeedSpec`, and `LinksNotified` |
| `lldp` | 3 ports, a period of 2 ticks, 5 changes of ports | `ServedInOrder`, `KeepsServing` |
| `connection` | three set-ups, below; queues of 1 | `Permits`, `DeadAnnounced`, `DeadIsFinal`, `CallsReturn`, `HalfOpenEnds` |
| `apps` | 3 applications, 2 closers, queues of 1, 2 events from outside | `StoppedOnce`, `NothingDropped`, `CloseEnds` |
| `paths` | every graph of 4 switches, of which 2 are `Cached`, 2 speeds, any order of neighbours, a switch that may have left | `PathsFound`, `CheapestChosen` |

The networks of `multipath` are `Unstable` (two switches and a cable, from nothing, with
connections that are lost, made anew or restarted and a cable that goes out and in),
`Ring` (four switches, two disjoint paths whose mirrors differ, floods that go round,
and LLDP, IPv6 and IPv4 frames), `Line` (three hosts on three switches, so that the entries
of several pairs, installed in any order and from either side, meet in one table) and
`Single` (two hosts on one switch). The set-ups of `connection` are `Deployed` (no echo
thread, two packets up and two messages down), `Replaced` (the switch connects a second
time) and `Echoing` (an echo thread and OpenFlow 1.2). Every network and set-up is an initial
choice of the same run. Where a property holds only for some of the cases, its premise says so:
`DeadAnnounced` without an echo thread, `CallsReturn` without a second connection,
`HalfOpenEnds` with an echo thread. `CloseEnds` has two premises, for the two ways in which the shutdown
hangs (below): nobody waits for room in the queue of an application whose event loop has ended
(`Blocked`), and the thread does not stay in its wait without a timeout (`Unwoken`). Both happen in the
run. `LinksNotified` has the premise that `lldp_loop` serves every port (`LldpGoesOn`), and, for the
withdrawal of links, that `link_loop` has not ended. It is about the link from one of the two ports (`LinkNotified(p)`
for that port), since the other is the same with the names of the switches exchanged.

`TypeOK` of the modules other than `WisprTunnel` states the shapes of their variables
for the reader; it holds in the same instances and can be added to any of the runs. For
`WisprDaemon` and `LldpSchedule` (`LldpTypeOK`) it is proved.

The tunnel is correct only under conditions on the network, which the model makes
explicit; `tunnel.cfg` takes each of the first two at its boundary, with no slack:

* `SkewBounded`: difference of delays plus clock adjustment is at most TIMEOUT,
  else the second copy is passed on too;
* `ReuseBounded`: a key takes more than TIMEOUT plus that difference to send
  `Window = NUMBEROFGROUPS * NUMBEROFPATHS` packets, else a new packet is taken
  for a copy;
* `RestartBounded`: a restart takes longer than the skew and no less than `Reuse`.

Nothing in the program enforces the second one. With the build's constants it
means at most 10 packets of a flow in 600 microseconds, about 200 Mbit/s of
full-size frames: `tunnel_rate` shows what happens beyond. `Arrives` has the same condition in
terms of what `WisprEdge` can see: `[]paced`. The run `edge` sends more packets than there are slots, at a pace
that respects it and at one that does not; without the premise TLC refutes `Arrives`.

A packet may still be lost in the tunnel in two ways, which `DropsOnlySeen`, `EventuallyPassedOn` and
`WisprChannel` (`Deliver`) name: the network loses both copies, or the one `sendto` that the egress tries
for the packet fails (`SendFailed`). In the second case the other copy arrives and is dropped.

The edges work only if the controller found at least as many paths as the daemons
were built with (`EnoughPaths`, a premise of `TaggedHaveRules` and, with the pace of the flows, of `Arrives`): the
tags of further paths have no rule. Nothing in the program checks it.

### What the code does not keep

`tunnel_rate` ends in a violation: the log line "PACKET ALREADY SEEN LATELY"
(`wispr_proto.c:307`) is written for a copy of a packet no copy of which was seen before; the
trace drops one copy so and loses the other.

Further statements of the code or its documentation are not so either. The models
state them, no run lists them, and TLC refutes each one when the given change is made:

* "Check that the daemon is not running twice" (`wisprd.c:87`): `AtMostOneServing`,
  `ServerHasPidFile` in `daemon.cfg` with `Serialised = FALSE`. Of two overlapping starts the
  loser fails to create the PID file and goes to `finish`, which removes the winner's
  file (`wisprd.c:232`); a third start finds none and serves too. The same happens
  without any overlap when `daemon_close_all` of a later child fails, which is why
  the proofs assume `Orderly`.
* "Send the error condition to the parent process" (`wisprd.c:165`) is unreachable, as
  an unsigned field is compared with 0: add `SocketErrorReported` to `daemon.cfg`.
* "PACKET ALREADY SEEN LATELY" is written too for the second copy of a packet whose first copy was
  stamped and then not passed on, because `sendto` in `send_packet_raw` failed (`wispr_net.c:643`) and nobody looks at
  the result: `DropsOnlySeen` in `tunnel.cfg` without `~SendFailed`.
* "MOVING UNKNOWN PACKET ALONG" (`wispr_net.c:555`): add `UnknownMovesAlong` to
  `edge.cfg`. The packet is sent to port 2 of the switch it came from, where IPv4 rules
  exist only for the other direction; it ends at the controller.
* "Available paths" (`ryu_multipath.py:80`) are found in a graph from which deleted
  links are never removed; the installation then ends in a `KeyError`: add
  `AvailablePathsExist` to `multipath.cfg`.
* "Path installation finished" (line 294) is printed when the entries went to a connection
  that is closed, since the application does not handle `EventSwitchReconnected`: add
  `FinishedMeansInstalled`.
* "Path Alread Done" (line 390) although a switch has lost the entries by a restart;
  nothing installs them again: add `DoneMeansInstalled`.
* "host target is on the same switch" (line 65) is provided for in `get_paths`, but in
  `install_paths` the entries of the destination are in an `elif` that is not reached:
  add `SameSwitchWorks`.
* "Being notified change of link up/down" (`doc/source/gui.rst:11`): while `link_loop` waits for
  room in an observer's queue between two links of a round, a handler deletes the second; `del self[link]`
  (`switches.py:395`) raises a `KeyError`, the thread ends, and links that stop to work are not
  withdrawn any more. Replace `LinksNotified` by `LinksForgotten` in `topology.cfg`. After a cable was
  moved to a third switch, a link that is still in the table is withdrawn
  (`MapMatchesLinks`, `EventsTellAll` in `topology.cfg` with three switches, `ThreePorts` and the cable plan
  `Moved`), and the change of a port during a reconnection is never seen (`LinksNotified`
  in `topology.cfg` with `Blind = TRUE` and `MaxChanges = 3`).
* "Get all paths from src to dst" (`ryu_multipath2.py:51`, `ryu_multipath_3.py:67`): a destination that has
  connected again is not recognised by `next is dst` (line 61) in the maps that still have the old object
  (or the new one, when `hosts` has the old), and the paths over these neighbours are not
  found. Replace `PathsFound` by `AllPathsFound` in `paths.cfg`.
* "LLDP_SEND_PERIOD_PER_PORT = .9" (`switches.py:510`): when all ports are due in one round
  `lldp_loop` waits without a timeout. Replace `KeepsServing` by `AlwaysServes` in `lldp.cfg`.
* An event "is sent to observer after changing the negotiation phase"
  (`ofp_event.py:112`), except when the echo thread is killed between the two:
  `DeadAnnounced` without its premise on `setup.echo`.
* "The thread keeps draining the receive queue" (`ryu_app_api.rst:25`), except when its
  handler waits for room in that queue: `CallsReturn` without its premise on `setup.news`.
* "Closing RYU application manager..." (`cmd/manager.py:112`) does not end when `lldp_loop`
  is in a wait without a timeout, because `joinall` (`app_manager.py:185`) waits for it and
  `Switches.close`, which would wake it, comes later: `CloseEnds` without `[]<>~Unwoken`. Nor does it when a
  full queue is left by an application that has ended and someone waits for room in it: `CloseEnds`
  without `[]~Blocked`.

### Bounds

`MaxPackets`, `MaxRestarts`, `MaxTime`, `MaxPending`, `MaxFrames`, `MaxInFlight` (frames of the hosts on
their way at a time), `MaxMixed` (frames in a behaviour of `edge` with frames of any kind) and `MaxClock`
bound what is otherwise unlimited. The tunnel is checked with the smallest table that
has two paths and reuses a slot: three packets wrap around two slots, and the horizon
of time, which begins at `TIMEOUT + 1`, leaves room for the slot to be reused and for a restart between two packets. That the tags wrap correctly with more groups, as in the build (5 paths, 2
groups), is proved, not model-checked. The proofs remove
these bounds: they hold for constants of any size, the bounds themselves
included. No
symmetry is declared: the instances are small, and most runs check liveness. In the edge run
two frames of any kind are enough for every pair of kinds and directions to meet at a switch or a
daemon, with up to four tagged copies and a flooded frame on the wire. Its TIMEOUT of 0 makes
a stamp old with every step of the clock: the second copy of a frame may be passed on too,
and `Transparent` and `TaggedOnce` have to bear it. In its other behaviours three packets come back to a slot
after the two of a window, when the stamps have become old by the step of the clock and before.

In the controller modules `MaxChanges` bounds what happens to the network,
`MaxEvents`/`MaxQueue` the event queues, `MaxWire` the frames between switches (a frame
beyond it is lost, which a switch may do), `MaxChan` how much an application may be ahead
of a switch, and the fields of `setup` the inputs of a connection. Two changes are enough for
something to go and come back, or for a second change to meet the events of the
first. Queues of one or two places make the queues full, which is the case of interest; in `apps` a
queue is full while `stop` waits for a place in it. A ring of four switches is the smallest
network with two disjoint paths, whose mirrors then differ.

Deadlock is checked in the tunnel and edge runs, where only the explicit end
of the bounded behaviour may stop. A daemon that has been started and stopped as
often as the constants allow has nothing left to do, so the daemon runs do not
check it. In the controller runs a
network that has had all its changes, a connection that has ended, a shutdown and
a search that are complete have nothing left to do, so these runs do not check deadlock; that
nobody waits forever is stated by `CallsReturn`, `CloseEnds`, `Resolves` and `KeepsServing`.

### Fairness

`tunnel` assumes that time passes and that a copy that can arrive or be
lost does one or the other: a frame does not stay in the network, and the egress
loop reads its socket. The sender, the clock and the restarts are not fair.
`edge` assumes for every frame a host sent that some copy of it moves on as long as
there is one: the queues of switches and sockets are served in order, so no frame
waits forever behind others. Hosts and floods are not fair, and nothing is lost in
this run; losses are the matter of `tunnel`.
`daemon_liveness` assumes that the operating system runs every process that can
run (`Wait`, the steps of each child, the polling of `-k`). Signals, packets,
crashes and errors of the loop are not fair; packets may arrive forever, and
`TermEnds` holds because the loop looks at the signal first. `StartReturns` is
checked with `GivesUp = FALSE`: a start ends by what its child does, not by the
20 seconds running out.

The controller modules assume that every greenlet that can run does (eventlet schedules
them in turn). Threads that wait for a permit of a semaphore or for room in a queue get
strong fairness, because others can take what is freed again and again, but the
semaphores of the eventlet versions Ryu asks for (`tools/pip-requires`) serve those
who wait in order. In `Topology` these are the event loop and, as long as it lives, `link_loop`. Nothing is
assumed of `lldp_loop`, which may wait without a timeout (`AlwaysServes` shows when): that it serves every port is
the premise `LldpGoesOn` of `LinksNotified` and `LinksForgotten`. Switches try to connect until they
succeed, and the end of a connection is noticed; their failures, messages and answers are not fair, except
that in `multipath_liveness` switches apply what they got and forward frames, and hosts
repeat their requests. In `connection` nothing is assumed of the switch at all.

## What is proved

All theorems are proved by TLAPS for every value of the constants that satisfies
the assumptions of the modules: at most 15 paths and 15 groups, which is what the
four bits of the tag hold, and finite networks.

* `WisprIngressProofs`: `TagsStayInTable`, `SlotsReusedInTurn`,
  `PacketsAreStriped`. `WindowDistinct` is not inductive, because it does not say
  which tag comes next. `IngressInv` adds that the session holds the last tag
  given out in this life of the daemon (`SessionIsLast`) and that the positions of
  two packets in the cycle of slots are as far apart as the packets, modulo the
  window (`CycleInv`, and the same for numbers and paths). `NextTag` moves one
  position on, and two packets less than a window apart then have different slots.
* `WisprTunnelProofs`: `TypeCorrect`; `NoDuplicates` (any rate, bounded skew);
  `NoFalseDrops` (bounded rate, any skew that it accounts for);
  `TunnelIsChannel`, the refinement. `BasicInv` needs no timing condition: the
  order of the sending times, what can be on the wire, and that every stamp stems
  from a packet of its slot that was taken, whether or not its `sendto` succeeded, and is no later than that packet can
  have arrived (`Stamped`). A packet is taken before it arrives, as often at least (`TakenFirst`). `Seen`, for
  `NoDuplicates`: a copy of a packet that
  was taken finds a stamp no older than its own earliest arrival, or the egress
  is down until the copy is gone. `Spaced`, for `NoFalseDrops`: packets of the same
  slot were sent at least `Reuse` apart, across restarts too. Each of the two
  theorems assumes only what it needs; the refinement needs both (no packet is taken twice, `TakenOnce`, and only copies of packets that were taken
  are dropped, `DropsOnlyTaken`) and maps `Send` to
  `Accept`, `Receive` to `Deliver`, which may fail to hand over, or `Discard`, `Lose` to `LoseCopy`, and
  everything else to stuttering.
* `WisprDaemonProofs`: `DaemonTypes`; `ServerIsInPidFile`, `OneDaemon` and
  `KillIsTrue`, for `Orderly` use; `StatusesAreTrue`, for starts that do not give up
  waiting, however they overlap. `DaemonInv` says that a child that has not reached the
  PID file is alone and its parent waits, which keeps everyone else from starting
  (`EarlyIsAlone`), that any other child that is alive owns the file
  (`OwnsPidFile`), and that an invocation that was not made has no child (`Fresh`).
  For `KillStops`, `KillerAlone` adds that while `-k` waits, only the daemon it has sent
  SIGTERM to is alive. `StatusInv`
  follows the status on its way: what a child at each point of `main` can have put into
  the pipe (`Reports`), and what its parent can have read from it (`Returns`).
* `WisprEdgeProofs`: `TunnelIsTransparent`, `NoneTaggedTwice`, `TagsMeetRules`, for any
  number of frames, flows, paths and groups. The properties speak of what was received
  or went astray; `EdgeInv` says which frames can be at which port, for they decide what
  happens next. There are five kinds (`WireInv`): on the way from the host to its daemon,
  flooded, passed on without a tag, tagged between the daemons, and unwrapped on the
  way to the host. With them go what the ingress invariant says of the tags, that a
  frame that is not yet tagged exists once (`Alone`, without which it could be tagged a
  second time), and, with enough paths, that only untagged frames go astray (`StrayInv`).
* `MultipathProofs`, for any network: `NodesAlwaysHaveDatapaths`, `HostsStayHome`, and
  `LinksBecomeUsable` for networks in which no two cables connect the same two switches
  (`adjacency` has one port for each pair of switches, so with parallel cables it
  is the port of one of them). `KnownInv` and `UsableInv` are about the order of the
  events in the queue: when a link event is handled both switches are known
  (`AddsInTime`), a connected switch will be known (`LiveAreKnown`), and a link discovered
  both ways is in the tables or announced by an event that waits, with no event behind it
  that undoes it (`BothWaysUsable`).
  For `HostsAtHome`, a frame of a host the application has not heard of is only where the
  host put it, or in a report from there: no flow entry matches it and no packet-out
  carries it, because both are made only for hosts that are known (`HomeInv`).
  `RoutesKeepWorking` is about everything at once: what an installation needs is spread over the
  tables of many switches, part of it still under way, with entries of earlier
  installations for the same pair among it. It assumes that no two cables connect the same two
  switches, and `GroupsFit`, that `MAX_GROUP` (2 in the code) is at most 15: with more, the
  group would run into the next four bits of a tag and the tags of packets and copies would
  coincide. Its argument has four parts. (1) The ports in `adjacency` are always those of a
  cable, also for links that have gone (`PortsRight`), so that each path is laid along
  cables, from the port of one host to that of the other (`Laid`, which uses
  `HostsAtHome`). (2) One installation says nothing contradictory about a match
  (`NeededAgree`), because the tags of its paths and their mirrors are disjoint (`VlansApart`).
  (3) `RouteInv`: at every switch that still has the connection the entries were sent on, the
  last word on the match of an entry, in the messages under way or else in the table, is that
  entry (`Settled`). An installation that is made again for the pair takes the place of the old one in
  `routes`, and entries for other pairs have other matches. (4) When nothing is under way each entry
  is therefore in the table, and no other with its match: a frame moves along its path one
  switch at a time and backwards too (`Along`, `AlongBack`), and a path has no more switches
  than the network, so it arrives. The induction along the path is over the least
  place at which the claim fails, since the library's induction theorems cannot be used.
* `TopologyProofs`: `HostsKeptOffLinks`, for any cabling; and as long as no cable is moved
  to another port (`OnePlan`; see above for what happens then) `BooksAgree`,
  `ObserversKnowAll`, the refinement `DiscoveryKeepsPromises`, and `PortsAreTracked`,
  which assumes also that ports change only while the switch can tell (`~Blind`). `WorldInv`
  is about what is under way: LLDP packets and packet-ins run along cables of the plan,
  events are about ports there are, connections are numbered. `BooksInv` adds that the
  peers in `_map` are the other ends of cables (`MapWired`), from which it follows that a
  link is withdrawn together with its reverse. `link_loop` may find that a link on its list is gone, but then it
  changes nothing, and if the link is there so is its peer in `_map` (`LoopTakesDown`): the books agree
  although the thread may end by it. `PortsTracked` could be lost by an event
  that is handled late, on another connection than it came from; `ReplayInv` says that
  replaying the events that wait, from what is known now, leads to the ports the switch
  has, and that each event finds what its handler needs.
* `RyuConnectionProofs`: `PermitsAreKept`, `DeadStaysDead`, `DeathIsAnnounced`, for every
  size of the queues and every set-up. The proofs rest on `Shapes`, the few programs a
  thread can have at each place; with them `Permits` (the free permits and the messages in
  the queue add up to its size) is inductive. `ToldInv`, for `DeathIsAnnounced`, says who
  still has to tell what: nothing is told during the handshake (`Quiet`), MAIN is told by
  the receiving thread and before anything else (`MainFirst`), the topology application
  registers the connection only when it has been told, so that it cannot close it before
  (`Unregistered`), and once the state is DEAD, DEAD was told last or a thread has it before
  it (`DeadLast`).
* `RyuProofs`, for any applications and closers: `NoneStoppedTwice`, `NoEventDropped`.
  Who is inside `close` holds its semaphore, and what it has still to stop is still
  in the table (`HolderOnly`). A loop that ended found the flag cleared and no event
  left in the queue (`EndedIsInactive`).
* `RyuProofs`, for any ports and periods: `PortsServedInOrder` and `TimetableTypes`. The
  invariant `ListOK` says that no port is on the list twice, that every port on it has an age,
  and that the ages fall along it (`InOrder`). It is kept because a port changes its place
  only together with its time stamp: to the front when it loses it, to the end when it gets a
  new one; and because ages that have reached the period stay there and the others all grow by
  the same.
* `RyuProofs`, for any graph, speeds, order of neighbours and any set `same`: `SearchIsExact`, that just the paths
  with a last step that is recognised are found, each once; `SearchIsComplete`, that these are all paths when
  `dst` is the same object in the maps of all its neighbours; and `CheapestAreChosen`. `SearchInv` says what the stack stands for: its
  elements are simple ways from `src` (`Waiting`), of which some have gone through `dst` without
  recognising it and can lead nowhere any more; what was found are simple paths to `dst` with a last step
  from `same` (`FoundOK`); such a path that was not found yet has a beginning on the stack
  (`Complete`); and nothing on the stack is a beginning of anything else there or of a path that was
  found, so none is found twice (`Separate`). When the stack is empty all have been found, each
  once. (The theorem does not say that the search ends; that is liveness.) The choice keeps the first of a list that is ordered by cost (`ByCost`).

Only model-checked:

* the liveness properties and everything under fairness (`EventuallyPassedOn`,
  `StartReturns`, `TermEnds`, `Arrives`, `Resolves`, `LinksNotified`, `KeepsServing`,
  `CallsReturn`, `HalfOpenEnds`, `CloseEnds`), which are outside the prover's reach;
* `TypeOK` of `WisprEdge`, `Multipath`, `Topology` and `RyuConnection`. The proofs
  state the types they need in their own invariants.

## The plan

All components of the plan are modelled, and every safety invariant, action property and
refinement that a passing run checks is proved for all values of the constants, under the assumptions
named above. The order was: the two session tables and the tunnel, the daemon, the edge, the
controller with its topology discovery, then the parts of Ryu they rely on. What could be added:

1. `TypeOK` of the four modules above, as theorems.
2. A refinement between `Multipath` and `WisprEdge`: the rules that `WisprEdge` assumes at an
   edge switch are those that `EndsLead` and `TagsLead` in `MultipathProofs` find in the tables.
3. Steps of their own for the waits inside the handlers of `Switches`, as `link_loop` has them.
4. The choice of the OpenFlow version and the host tracking by IP address, as functions.

## Not modelled

* The parity and static modes of the daemon: commented out or never called.
* `src/WISPR2`, the GRE predecessor, which does not compile; its life cycle is that
  of `WisprDaemon`.
* `wisprd` with one interface for both directions, and `-i` without `-o`: `start.sh`
  gives both, and the controller's rules need ports 1 and 2. The
  buffers that are never freed: memory has no other effect on the behaviour.
* Groups, `mac_to_port` and `get_optimal_paths` in `ryu_multipath.py`, which are not
  used, and the handlers of the two variants, which are earlier stages of it.
* Of Ryu: the parsers and serialisers of OpenFlow and of packets, the BGP, VRRP and OVSDB
  services, sample applications and tests. This is vendored code that WISPR
  does not touch or that has no state, and it is nearly all of the repository's
  lines: the models cover the programs of WISPR itself and what they rely on.
  Of the modelled files: the choice of the OpenFlow version from the two hellos (a function
  without state), loading and instantiation of applications, synchronous
  requests, outgoing connections, the IP addresses of discovered hosts.
* The measurement programs and topology scripts, and `uthash.h`.
