----------------------------- MODULE WisprEdge ------------------------------
(***************************************************************************)
(* The way of a frame from host to host: host, edge switch, daemon, fabric *)
(* and back.  WisprTunnel looks at the tags and the clock; here it is the  *)
(* frames that matter: what a daemon does with each kind of frame          *)
(* (wispr_net.c, process_newpkt and handle_ipv4pkt), how it wraps and      *)
(* unwraps them, and whether the rules of the controller                   *)
(* (ryu_multipath.py, install_paths) take them where the daemons count on. *)
(* At an edge switch, port 1 leads to the daemon and port 2 comes from it. *)
(***************************************************************************)
EXTENDS WisprIngress, WisprEgress, FiniteSets

CONSTANTS
  Daemons,     \* the two daemons; each stands for its host and edge switch too
  Installed,   \* how many paths the controller found and installed
  MaxFrames,   \* bound: frames the hosts send
  MaxInFlight, \* bound: frames of the hosts on their way at a time
  MaxClock     \* bound: the clock of the daemons

(***************************************************************************)
(* A flow is named after the daemon of its sender; the sessions are those  *)
(* of a flow at a daemon.                                                  *)
(***************************************************************************)
ASSUME EdgeConstants ==
  /\ \E a, b \in Daemons : a # b /\ Daemons = {a, b}
  /\ Keys = Daemons \X Daemons
  /\ Installed \in Nat /\ MaxClock \in Nat
  /\ MaxInFlight \in Nat
  /\ MaxFrames \in 1..MaxPackets

VARIABLES
  frames,      \* history: what the hosts sent
  wire,        \* the frames at the ports of the edge switches
  received,    \* received[d]: the frames the host of d got
  stray,       \* the frames for which a switch had no rule
  tagged,      \* history: how often each frame was given a tag
  clock,       \* gettimeofday
  paced        \* history: no flow came back to a slot too early

edgeVars == <<frames, wire, received, stray, tagged, clock, paced>>
vars == <<ingressVars, wisprmirt, edgeVars>>

Peer(d) == CHOOSE e \in Daemons : e # d

-----------------------------------------------------------------------------
(***************************************************************************)
(* Frames: the kind of destination address, the type in the Ethernet       *)
(* header, the VLAN headers behind it, and of the IP header the flow, the  *)
(* protocol and whether an address is 127.0.0.1.  n is the position in     *)
(* frames, which nobody but the properties looks at; 0 is a frame that no  *)
(* host sent.                                                              *)
(***************************************************************************)
Frame(n, flow, dst, h_proto, protocol, loopback) ==
  [n |-> n, flow |-> flow, dst |-> dst, h_proto |-> h_proto, vlans |-> << >>,
   protocol |-> protocol, loopback |-> loopback]

(***************************************************************************)
(* ICMP, TCP and UDP are treated alike.  A GRE packet that carries a WISPR *)
(* key of mode 0 may be addressed to the gateway of option -g.             *)
(***************************************************************************)
Protocols == {"TCP", "GRE", "WISPR", "other"}
HostFrames(n, d) ==
  {Frame(n, d, "peer", "IPv4", p, FALSE) : p \in Protocols}
  \cup {Frame(n, d, "gateway", "IPv4", "WISPR", FALSE)}

(***************************************************************************)
(* What is flooded to every port, the daemon's too, or gets there by       *)
(* mistake.                                                                *)
(***************************************************************************)
Noise(d) ==
  {Frame(0, d, dst, "IPv4", "TCP", FALSE) : dst \in {"me", "broadcast", "reserved", "LLDP"}}
  \cup {Frame(0, d, "peer", t, "TCP", FALSE) : t \in {"ARP", "IPv6", "unknown"}}
  \cup {Frame(0, d, "peer", "IPv4", "TCP", TRUE)}

-----------------------------------------------------------------------------
(***************************************************************************)
(* Encapsulation gone wrong: one VLAN header instead of two.               *)
(***************************************************************************)
EncapsulateOnce(f, id) ==
  [f EXCEPT !.h_proto = "VLAN",
            !.vlans = <<[vlan_id |-> id, next_protocol |-> f.h_proto]>> \o @]

(***************************************************************************)
(* send_packet_withkey puts two VLAN headers with the same tag in front of *)
(* the IP header.                                                          *)
(***************************************************************************)
Encapsulate(f, id) ==
  [f EXCEPT !.h_proto = "VLAN",
            !.vlans = <<[vlan_id |-> id, next_protocol |-> "VLAN"],
                        [vlan_id |-> id, next_protocol |-> f.h_proto]>> \o @]

(***************************************************************************)
(* The kernel takes the outer VLAN header off a frame it receives, before  *)
(* a packet socket sees it.                                                *)
(***************************************************************************)
Untag(f) ==
  IF f.h_proto = "VLAN"
    THEN [f EXCEPT !.h_proto = Head(f.vlans).next_protocol, !.vlans = Tail(@)]
    ELSE f

(***************************************************************************)
(* Stripping gone wrong: the header is removed but the type stays.         *)
(***************************************************************************)
StripKeepsType(f) == [f EXCEPT !.vlans = Tail(@)]

(***************************************************************************)
(* process_wispr0_vlan removes the header it has looked at.                *)
(***************************************************************************)
Strip(f) == [f EXCEPT !.h_proto = Head(f.vlans).next_protocol, !.vlans = Tail(@)]

(***************************************************************************)
(* The frames process_newpkt and handle_ipv4pkt return from at once.       *)
(***************************************************************************)
Filtered(f) ==
  \/ f.dst \in {"me", "broadcast", "reserved", "LLDP"}
  \/ f.h_proto = "IPv4" /\ f.loopback

-----------------------------------------------------------------------------
Init ==
  /\ IngressInit
  /\ wisprmirt = NoMirrorSessions
  /\ frames = << >>
  /\ wire = {}
  /\ received = [d \in Daemons |-> {}]
  /\ stray = {}
  /\ tagged = [n \in 1..MaxFrames |-> 0]
  /\ clock = TIMEOUT + 1
  /\ paced = TRUE

At(d, port, f) == [daemon |-> d, port |-> port, frame |-> f]

(***************************************************************************)
(* A flow that leaves its slots alone for long enough pauses after every   *)
(* Window packets, until all of them have left the network and none of its *)
(* stamps at the egress is as recent as TIMEOUT.                           *)
(***************************************************************************)
Rested(d) ==
  LET count == Cardinality({n \in DOMAIN frames : frames[n].flow = d /\ frames[n].protocol = "TCP"})
  IN  count > 0 /\ count % Window = 0 =>
        /\ \A w \in wire : w.frame.n # 0 => w.frame.flow # d
        /\ \A g \in Groups : \A s \in Numbers :
             time_diff(Stamp(<<Peer(d), d>>, g, s), clock) > TIMEOUT

(***************************************************************************)
(* A host sends a frame; a frame is flooded to a daemon; time passes.      *)
(***************************************************************************)
HostSends(d) ==
  /\ Len(frames) < MaxFrames
  /\ Cardinality({w.frame.n : w \in wire} \ {0}) < MaxInFlight
  /\ \E f \in HostFrames(Len(frames) + 1, d) :
       /\ frames' = Append(frames, f)
       /\ wire' = wire \cup {At(d, "host", f)}
       /\ paced' = (paced /\ (f.protocol = "TCP" => Rested(d)))
  /\ UNCHANGED <<ingressVars, wisprmirt, received, stray, tagged, clock>>

Flood(d) ==
  /\ \A w \in wire : w.frame.n # 0
  /\ \E f \in Noise(d) : wire' = wire \cup {At(d, "1", f)}
  /\ UNCHANGED <<ingressVars, wisprmirt, frames, received, stray, tagged, clock, paced>>

Tick ==
  /\ clock < MaxClock
  /\ clock' = clock + 1
  /\ UNCHANGED <<ingressVars, wisprmirt, frames, wire, received, stray, tagged, paced>>

-----------------------------------------------------------------------------
(***************************************************************************)
(* The rules install_paths puts into the edge switch of daemon d, for the  *)
(* flow from it and for the flow to it.  The VLAN rules exist for the tags *)
(* of the installed paths, in groups 0 to MAX_GROUP and both modes.        *)
(***************************************************************************)
MAX_GROUP == 2

(***************************************************************************)
(* The tags gone wrong: the paths are numbered from 0.                     *)
(***************************************************************************)
RuleTagsFromZero ==
  {256 * m + 16 * g + n : m \in {0, 1}, g \in 0..MAX_GROUP, n \in 0..(Installed - 1)}

RuleTags == {256 * m + 16 * g + n : m \in {0, 1}, g \in 0..MAX_GROUP, n \in 1..Installed}

(***************************************************************************)
(* The rules gone wrong: tagged frames from the fabric go to the host.     *)
(***************************************************************************)
RulesPastDaemon(d) ==
  {[in_port |-> "host", h_proto |-> "IPv4", flow |-> d, out |-> "1"],
   [in_port |-> "2", h_proto |-> "VLAN", flow |-> d, out |-> "fabric"],
   [in_port |-> "fabric", h_proto |-> "VLAN", flow |-> Peer(d), out |-> "host"],
   [in_port |-> "2", h_proto |-> "IPv4", flow |-> Peer(d), out |-> "host"]}

Rules(d) ==
  {[in_port |-> "host", h_proto |-> "IPv4", flow |-> d, out |-> "1"],
   [in_port |-> "2", h_proto |-> "VLAN", flow |-> d, out |-> "fabric"],
   [in_port |-> "fabric", h_proto |-> "VLAN", flow |-> Peer(d), out |-> "1"],
   [in_port |-> "2", h_proto |-> "IPv4", flow |-> Peer(d), out |-> "host"]}

Matches(r, w) ==
  /\ r.in_port = w.port
  /\ r.h_proto = w.frame.h_proto
  /\ r.flow = w.frame.flow
  /\ r.h_proto = "VLAN" =>
       Head(w.frame.vlans).vlan_id \in RuleTags /\ w.frame.dst = "peer"

(***************************************************************************)
(* An edge switch forwards a frame by its rule; the core switches take it  *)
(* to the other edge.  A frame without a rule goes to the controller,      *)
(* which does nothing with it.                                             *)
(***************************************************************************)
Switch(w) ==
  /\ w.port # "1"
  /\ \/ \E r \in Rules(w.daemon) :
          /\ Matches(r, w)
          /\ \/ r.out = "1" /\ wire' = (wire \ {w}) \cup {At(w.daemon, "1", w.frame)}
                /\ UNCHANGED received
             \/ r.out = "fabric"
                /\ wire' = (wire \ {w}) \cup {At(Peer(w.daemon), "fabric", w.frame)}
                /\ UNCHANGED received
             \/ r.out = "host" /\ wire' = wire \ {w}
                /\ received' = [received EXCEPT ![w.daemon] = @ \cup {w.frame}]
          /\ UNCHANGED stray
     \/ /\ \A r \in Rules(w.daemon) : ~Matches(r, w)
        /\ wire' = wire \ {w}
        /\ stray' = stray \cup {w.frame}
        /\ UNCHANGED received
  /\ UNCHANGED <<ingressVars, wisprmirt, frames, tagged, clock, paced>>

-----------------------------------------------------------------------------
(***************************************************************************)
(* What the daemon of w sends: the frames fs, on the interface of port 2.  *)
(***************************************************************************)
send_packet_raw(w, fs) == wire' = (wire \ {w}) \cup {At(w.daemon, "2", f) : f \in fs}

(***************************************************************************)
(* A VLAN frame: the IP header is looked for behind one VLAN header.  If   *)
(* there is another one, the key is made of what is found there.           *)
(***************************************************************************)
handle_vlanPkt(w, f) ==
  /\ f.h_proto = "VLAN"
  /\ \E flow \in IF Len(f.vlans) = 1 THEN {f.flow} ELSE Daemons :
       LET key == <<w.daemon, flow>>
           vlan_id == Head(f.vlans).vlan_id
       IN  /\ process_wispr0_vlan(key, vlan_id, clock)
           /\ send_packet_raw(w, IF PassesOn(key, vlan_id, clock) THEN {Strip(f)} ELSE {})
  /\ UNCHANGED <<ingressVars, tagged>>

(***************************************************************************)
(* process_wispr0: the table of host addresses is never filled, so only    *)
(* a packet for the gateway is unwrapped; its protocol becomes TCP.        *)
(***************************************************************************)
process_wispr0(f) == IF f.dst = "gateway" THEN [f EXCEPT !.protocol = "TCP"] ELSE f

handle_ipv4pkt(w, f) ==
  /\ f.h_proto = "IPv4"
  /\ \/ /\ f.protocol = "TCP"
        /\ process_ingress0(<<w.daemon, f.flow>>)
        /\ send_packet_raw(w, {Encapsulate(f, id) : id \in CopyTags(wispringress'[<<w.daemon, f.flow>>])})
        /\ tagged' = IF f.n = 0 THEN tagged ELSE [tagged EXCEPT ![f.n] = @ + 1]
     \/ /\ f.protocol = "WISPR"
        /\ send_packet_raw(w, {process_wispr0(f)})
        /\ UNCHANGED <<ingressVars, tagged>>
     \/ /\ f.protocol = "GRE"
        /\ send_packet_raw(w, {})
        /\ UNCHANGED <<ingressVars, tagged>>
     \/ /\ f.protocol = "other"
        /\ send_packet_raw(w, {f})
        /\ UNCHANGED <<ingressVars, tagged>>
  /\ UNCHANGED wisprmirt

process_newpkt(w) ==
  /\ w.port = "1"
  /\ LET f == Untag(w.frame)
     IN  \/ /\ Filtered(f) \/ f.h_proto \in {"ARP", "IPv6", "unknown"}
            /\ send_packet_raw(w, {})
            /\ UNCHANGED <<ingressVars, wisprmirt, tagged>>
         \/ ~Filtered(f) /\ (handle_vlanPkt(w, f) \/ handle_ipv4pkt(w, f))
  /\ UNCHANGED <<frames, received, stray, clock, paced>>

Next ==
  \/ \E d \in Daemons : HostSends(d) \/ Flood(d)
  \/ \E w \in wire : Switch(w) \/ process_newpkt(w)
  \/ Tick

Spec == Init /\ [][Next]_vars

(***************************************************************************)
(* Switches and daemons serve their queues in order, so no frame waits     *)
(* forever behind others.                                                  *)
(***************************************************************************)
FairSpec ==
  /\ Spec
  /\ \A n \in 1..MaxFrames :
       WF_vars(\E w \in wire : w.frame.n = n /\ (Switch(w) \/ process_newpkt(w)))

-----------------------------------------------------------------------------
(***************************************************************************)
(* Under which the edges work: there is a rule for every tag.              *)
(***************************************************************************)
EnoughPaths == NUMBEROFPATHS <= Installed /\ NUMBEROFGROUPS <= MAX_GROUP + 1

AllFrames ==
  [n : 0..MaxFrames, flow : Daemons,
   dst : {"peer", "gateway", "me", "broadcast", "reserved", "LLDP"},
   h_proto : {"IPv4", "ARP", "IPv6", "unknown", "VLAN"},
   vlans : Seq([vlan_id : UInt16, next_protocol : {"IPv4", "VLAN"}]),
   protocol : Protocols, loopback : BOOLEAN]

(***************************************************************************)
(* Types of the variables.                                                 *)
(***************************************************************************)
TypeOK ==
  /\ IngressTypeOK
  /\ EgressTypeOK
  /\ frames \in Seq(AllFrames)
  /\ \A w \in wire : w.daemon \in Daemons /\ w.port \in {"host", "1", "2", "fabric"}
                     /\ w.frame \in AllFrames
  /\ \A d \in Daemons : \A f \in received[d] : f \in AllFrames
  /\ \A f \in stray : f \in AllFrames
  /\ tagged \in [1..MaxFrames -> Nat]
  /\ clock \in Nat
  /\ paced \in BOOLEAN

(***************************************************************************)
(* The tunnel is transparent: a host gets nothing but frames the host at   *)
(* the other end sent, exactly as they were sent: two VLAN headers are put *)
(* on by send_packet_withkey, one is taken off by the kernel and one by    *)
(* process_wispr0_vlan, and the type in front of them is restored.         *)
(***************************************************************************)
Transparent ==
  \A d \in Daemons : \A f \in received[d] :
    /\ f.n \in 1..Len(frames)
    /\ f = frames[f.n]
    /\ f.flow = Peer(d)

(***************************************************************************)
(* No frame is tagged a second time, by the daemon at the far end or by    *)
(* the one that sent it: handle_ipv4pkt and handle_vlanPkt tell packets    *)
(* on their way in from packets on their way out by the type alone.        *)
(***************************************************************************)
TaggedOnce == \A n \in 1..MaxFrames : tagged[n] <= 1

(***************************************************************************)
(* If the controller has installed a path for every tag, a packet that was *)
(* given one by process_ingress0 meets a rule of install_paths at every    *)
(* port on its way.                                                        *)
(***************************************************************************)
TaggedHaveRules ==
  EnoughPaths => \A f \in stray : f.n # 0 => tagged[f.n] = 0

(***************************************************************************)
(* If there are enough paths and no flow comes back to a slot within       *)
(* TIMEOUT, every ICMP, TCP or UDP packet one host sends arrives at the    *)
(* other: no daemon and no switch on its way, from process_newpkt to the   *)
(* rules of install_paths, leaves it lying, the first time round the slots *)
(* and when they are used again.  There are at most MaxFrames packets, so  *)
(* some time all of them are there.  Nothing is lost by the network or by  *)
(* a sendto here (see WisprTunnel for that).                               *)
(***************************************************************************)
Arrives ==
  EnoughPaths /\ []paced =>
    []<>(\A n \in 1..Len(frames) : frames[n].protocol = "TCP" =>
          \E f \in received[Peer(frames[n].flow)] : f.n = n)

(***************************************************************************)
(* "MOVING UNKNOWN PACKET ALONG" (wispr_net.c:555): a packet of a protocol *)
(* the daemon does not know, which it passes on unchanged, is moved along  *)
(* by the network and does not end at the edge switch.  (No run checks     *)
(* this, and it is not so: added to the run of this module it is refuted.) *)
(***************************************************************************)
UnknownMovesAlong == \A f \in stray : f.protocol # "other"
=============================================================================
