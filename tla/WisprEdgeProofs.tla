-------------------------- MODULE WisprEdgeProofs ---------------------------
(***************************************************************************)
(* The way of a frame through the tunnel, for every number of frames,      *)
(* paths and groups: what a host gets is what the other host sent, no      *)
(* frame is tagged twice, and if there are paths for all tags a tagged     *)
(* frame meets a rule at every port.  The invariant says which frames can  *)
(* be at which port.                                                       *)
(***************************************************************************)
EXTENDS WisprEdge, WisprIngressProofs

(***************************************************************************)
(* A frame as its host sent it, and one that carries a tag.                *)
(***************************************************************************)
AsSent(f) == f.n \in 1..Len(frames) /\ f = frames[f.n]

Wrapped(f) ==
  /\ f.n \in 1..Len(frames)
  /\ frames[f.n].protocol = "TCP"
  /\ \E id \in Tags : f = Encapsulate(frames[f.n], id)

(***************************************************************************)
(* What can be on a wire: a frame on its way from the host to the daemon,  *)
(* noise, a frame the daemon passed on without a tag, a tagged frame       *)
(* between the daemons, and a frame on its way from the daemon to the      *)
(* host.                                                                   *)
(***************************************************************************)
Untouched(w) ==
  /\ w.port \in {"host", "1"}
  /\ AsSent(w.frame)
  /\ w.frame.flow = w.daemon
  /\ tagged[w.frame.n] = 0

Flooded(w) == w.port = "1" /\ w.frame \in Noise(w.daemon)

PassedOn(w) ==
  /\ w.port = "2"
  /\ w.frame.n \in 1..Len(frames)
  /\ w.frame.h_proto = "IPv4"
  /\ w.frame.flow = w.daemon
  /\ tagged[w.frame.n] = 0

Tunnelled(w) ==
  /\ Wrapped(w.frame)
  /\ \/ w.port = "2" /\ w.frame.flow = w.daemon
     \/ w.port \in {"fabric", "1"} /\ w.frame.flow = Peer(w.daemon)

Unwrapped(w) == w.port = "2" /\ AsSent(w.frame) /\ w.frame.flow = Peer(w.daemon)

OnWire(w) ==
  /\ w.daemon \in Daemons
  /\ Untouched(w) \/ Flooded(w) \/ PassedOn(w) \/ Tunnelled(w) \/ Unwrapped(w)

WireInv == \A w \in wire : OnWire(w)

(***************************************************************************)
(* While a frame is on its way to the first daemon there is no other trace *)
(* of it.                                                                  *)
(***************************************************************************)
Fresh(w) == w.frame.n # 0 /\ w.frame.flow = w.daemon /\ w.port \in {"host", "1"}

Alone ==
  \A w \in wire : Fresh(w) =>
    /\ \A v \in wire : v.frame.n = w.frame.n => v = w
    /\ \A f \in stray : f.n # w.frame.n

(***************************************************************************)
(* The histories.                                                          *)
(***************************************************************************)
FramesInv ==
  /\ frames \in Seq(AllFrames)
  /\ Len(frames) <= MaxFrames
  /\ \A n \in 1..Len(frames) : \E d \in Daemons : frames[n] \in HostFrames(n, d)

TaggedInv ==
  /\ tagged \in [1..MaxFrames -> 0..1]
  /\ \A n \in 1..MaxFrames : n > Len(frames) => tagged[n] = 0

StrayInv ==
  \A f \in stray : f.n \in 1..Len(frames) /\ (EnoughPaths => tagged[f.n] = 0)

ReceivedInv == received \in [Daemons -> SUBSET AllFrames] /\ Transparent

EdgeInv ==
  /\ IngressInv
  /\ FramesInv
  /\ WireInv
  /\ Alone
  /\ TaggedInv
  /\ StrayInv
  /\ ReceivedInv

-----------------------------------------------------------------------------
LEMMA PeerFacts ==
  ASSUME NEW d \in Daemons
  PROVE  Peer(d) \in Daemons /\ Peer(d) # d /\ Peer(Peer(d)) = d
<1> PICK a, b \in Daemons : a # b /\ Daemons = {a, b}
  BY EdgeConstants
<1>1. \A c \in Daemons : Peer(c) \in Daemons /\ Peer(c) # c
  <2> SUFFICES ASSUME NEW c \in Daemons PROVE Peer(c) \in Daemons /\ Peer(c) # c
    OBVIOUS
  <2>1. \E e \in Daemons : e # c
    OBVIOUS
  <2> QED BY <2>1 DEF Peer
<1> QED BY <1>1

(***************************************************************************)
(* What a host sends.                                                      *)
(***************************************************************************)
LEMMA HostFrameFacts ==
  ASSUME NEW n \in 1..MaxFrames, NEW d \in Daemons, NEW f, f \in HostFrames(n, d)
  PROVE  /\ f \in AllFrames
         /\ f.n = n /\ f.flow = d /\ f.h_proto = "IPv4" /\ f.vlans = << >>
         /\ ~f.loopback /\ f.dst \in {"peer", "gateway"}
         /\ f.protocol \in Protocols
         /\ f.protocol # "WISPR" => f.dst = "peer"
<1>1. << >> \in Seq([vlan_id : UInt16, next_protocol : {"IPv4", "VLAN"}])
  OBVIOUS
<1>2. n \in 0..MaxFrames
  BY EdgeConstants
<1>3. PICK dst \in {"peer", "gateway"}, p \in Protocols :
        f = Frame(n, d, dst, "IPv4", p, FALSE) /\ (dst = "gateway" => p = "WISPR")
  BY DEF HostFrames, Protocols
<1> QED BY <1>1, <1>2, <1>3 DEF Frame, AllFrames

LEMMA SentFrameFacts ==
  ASSUME FramesInv, NEW n \in 1..Len(frames)
  PROVE  /\ n \in 1..MaxFrames
         /\ frames[n] \in AllFrames
         /\ frames[n].n = n /\ frames[n].flow \in Daemons
         /\ frames[n].h_proto = "IPv4" /\ frames[n].vlans = << >>
         /\ ~frames[n].loopback /\ frames[n].dst \in {"peer", "gateway"}
         /\ frames[n].protocol \in Protocols
         /\ frames[n].protocol # "WISPR" => frames[n].dst = "peer"
<1>1. n \in 1..MaxFrames
  <2>1. Len(frames) \in Nat /\ Len(frames) <= MaxFrames /\ MaxFrames \in Nat
    BY EdgeConstants, IngressBounds DEF FramesInv
  <2> QED BY <2>1
<1>2. PICK d \in Daemons : frames[n] \in HostFrames(n, d)
  BY DEF FramesInv
<1> DEFINE f == frames[n]
<1>3. f \in HostFrames(n, d)
  BY <1>2
<1> HIDE DEF f
<1>4. /\ f \in AllFrames
      /\ f.n = n /\ f.flow = d /\ f.h_proto = "IPv4" /\ f.vlans = << >>
      /\ ~f.loopback /\ f.dst \in {"peer", "gateway"}
      /\ f.protocol \in Protocols
      /\ f.protocol # "WISPR" => f.dst = "peer"
  BY <1>1, <1>3, HostFrameFacts
<1> QED BY <1>1, <1>4 DEF f

(***************************************************************************)
(* Two headers on, one off by the kernel, one off by process_wispr0_vlan:  *)
(* the frame is what it was.                                               *)
(***************************************************************************)
LEMMA RoundTrip ==
  ASSUME NEW f \in AllFrames, f.h_proto = "IPv4", f.vlans = << >>, NEW id
  PROVE  LET e == Encapsulate(f, id)
         IN  /\ e.n = f.n /\ e.flow = f.flow /\ e.dst = f.dst /\ e.h_proto = "VLAN"
             /\ Head(e.vlans).vlan_id = id
             /\ Untag(e).h_proto = "VLAN" /\ Len(Untag(e).vlans) = 1
             /\ Untag(e).flow = f.flow /\ Untag(e).dst = f.dst
             /\ Strip(Untag(e)) = f
<1> DEFINE x == [vlan_id |-> id, next_protocol |-> "VLAN"]
           y == [vlan_id |-> id, next_protocol |-> "IPv4"]
           e == Encapsulate(f, id)
           u == Untag(e)
<1>1. <<x, y>> \o << >> = <<x, y>>
  OBVIOUS
<1>2. e = [f EXCEPT !.h_proto = "VLAN", !.vlans = <<x, y>>]
  BY <1>1 DEF Encapsulate
<1>3. /\ e.n = f.n /\ e.flow = f.flow /\ e.dst = f.dst /\ e.h_proto = "VLAN"
      /\ e.vlans = <<x, y>>
  BY <1>2 DEF AllFrames
<1>4. Head(<<x, y>>) = x /\ Tail(<<x, y>>) = <<y>> /\ Head(<<y>>) = y /\ Tail(<<y>>) = << >>
      /\ Len(<<y>>) = 1
  OBVIOUS
<1> HIDE DEF e
<1>5. u = [e EXCEPT !.h_proto = "VLAN", !.vlans = <<y>>]
  <2>1. Head(e.vlans).next_protocol = "VLAN"
    BY <1>3, <1>4
  <2>2. Tail(e.vlans) = <<y>>
    BY <1>3, <1>4
  <2>3. u = [e EXCEPT !.h_proto = Head(e.vlans).next_protocol, !.vlans = Tail(e.vlans)]
    BY <1>3 DEF Untag
  <2> QED BY <2>1, <2>2, <2>3, Zenon
<1>6. u = [f EXCEPT !.h_proto = "VLAN", !.vlans = <<y>>]
  BY <1>2, <1>5 DEF AllFrames
<1>7. u.h_proto = "VLAN" /\ u.vlans = <<y>> /\ u.flow = f.flow /\ u.dst = f.dst
  BY <1>6 DEF AllFrames
<1> HIDE DEF u
<1>8. Strip(u) = [u EXCEPT !.h_proto = "IPv4", !.vlans = << >>]
  <2>1. Head(u.vlans).next_protocol = "IPv4"
    BY <1>7, <1>4
  <2>2. Tail(u.vlans) = << >>
    BY <1>7, <1>4
  <2>3. Strip(u) = [u EXCEPT !.h_proto = Head(u.vlans).next_protocol, !.vlans = Tail(u.vlans)]
    BY DEF Strip
  <2> QED BY <2>1, <2>2, <2>3, Zenon
<1>9. Strip(u) = [f EXCEPT !.h_proto = "IPv4", !.vlans = << >>]
  BY <1>8, <1>6 DEF AllFrames
<1>10. Strip(u) = f
  BY <1>9 DEF AllFrames
<1>11. Head(e.vlans).vlan_id = id
  BY <1>3, <1>4
<1> QED BY <1>3, <1>4, <1>7, <1>10, <1>11 DEF e, u

(***************************************************************************)
(* The copies of a packet carry tags, and with enough paths the controller *)
(* has rules for all of them.                                              *)
(***************************************************************************)
LEMMA CopiesHaveTags ==
  ASSUME NEW t, ValidTag(t)
  PROVE  CopyTags(t) \subseteq Tags
<1>1. /\ t \in 0..255 /\ t = 16 * group_id(t) + packet_number(t)
      /\ group_id(t) \in Groups /\ packet_number(t) \in Numbers \ {0}
  BY TagSplit DEF ValidTag
<1>2. MirrorTag(t) = t + 256
  BY <1>1 DEF MirrorTag
<1>3. group_id(t) \in Nat /\ packet_number(t) \in Nat
  BY <1>1, PathsAssumption, GroupsAssumption DEF Groups, Numbers
<1>4. t = 256 * 0 + 16 * group_id(t) + packet_number(t)
      /\ t + 256 = 256 * 1 + 16 * group_id(t) + packet_number(t)
  BY <1>1, <1>3
<1>5. t \in Tags /\ t + 256 \in Tags
  <2>1. \A m \in {0, 1}, g \in Groups, n \in Numbers \ {0} : 256 * m + 16 * g + n \in Tags
    BY DEF Tags
  <2> QED BY <2>1, <1>4, <1>1
<1> QED BY <1>2, <1>5 DEF CopyTags

LEMMA TagsHaveRules == EnoughPaths => Tags \subseteq RuleTags
<1> SUFFICES ASSUME EnoughPaths, NEW t \in Tags PROVE t \in RuleTags
  OBVIOUS
<1>1. PICK m \in {0, 1}, g \in Groups, n \in Numbers \ {0} : t = 256 * m + 16 * g + n
  BY DEF Tags
<1>2. g \in 0..MAX_GROUP /\ n \in 1..Installed
  BY PathsAssumption, GroupsAssumption, EdgeConstants DEF EnoughPaths, MAX_GROUP, Groups, Numbers
<1> QED BY <1>1, <1>2 DEF RuleTags

-----------------------------------------------------------------------------
(***************************************************************************)
(* Which frames are at which port.                                         *)
(***************************************************************************)
LEMMA WireKinds ==
  ASSUME FramesInv, WireInv, NEW w \in wire
  PROVE  /\ w.daemon \in Daemons
         /\ w.port \in {"host", "1", "2", "fabric"}
         /\ w.frame.n = 0 => Flooded(w)
         /\ w.frame.n # 0 => w.frame.n \in 1..Len(frames)
         /\ w.port = "host" => Untouched(w)
         /\ w.port = "fabric" => Tunnelled(w)
         /\ w.port = "1" => Untouched(w) \/ Flooded(w) \/ Tunnelled(w)
         /\ w.port = "2" => PassedOn(w) \/ Tunnelled(w) \/ Unwrapped(w)
         /\ Fresh(w) => Untouched(w)
         /\ Untouched(w) => Fresh(w)
<1>1. OnWire(w)
  BY DEF WireInv
<1>2. w.daemon \in Daemons /\ Peer(w.daemon) # w.daemon
  BY <1>1, PeerFacts DEF OnWire
<1>3. Len(frames) \in Nat
  BY DEF FramesInv
<1>4. Flooded(w) => w.frame.n = 0 /\ w.port = "1"
  BY DEF Flooded, Noise, Frame
<1>5. ~Flooded(w) => w.frame.n \in 1..Len(frames) /\ w.frame.n # 0
  BY <1>1, <1>3 DEF OnWire, Untouched, PassedOn, Tunnelled, Unwrapped, AsSent, Wrapped
<1>6. /\ Untouched(w) => /\ w.port \in {"host", "1"} /\ w.frame.flow = w.daemon
                         /\ w.frame.n # 0
      /\ PassedOn(w) => w.port = "2"
      /\ Tunnelled(w) => \/ w.port = "2" /\ w.frame.flow = w.daemon
                         \/ w.port \in {"fabric", "1"} /\ w.frame.flow = Peer(w.daemon)
      /\ Unwrapped(w) => w.port = "2"
  BY <1>3 DEF Untouched, PassedOn, Tunnelled, Unwrapped, AsSent
<1>7. Fresh(w) <=> w.frame.n # 0 /\ w.frame.flow = w.daemon /\ w.port \in {"host", "1"}
  BY DEF Fresh
<1>8. Untouched(w) \/ Flooded(w) \/ PassedOn(w) \/ Tunnelled(w) \/ Unwrapped(w)
  BY <1>1 DEF OnWire
<1> QED BY <1>2, <1>4, <1>5, <1>6, <1>7, <1>8

(***************************************************************************)
(* A frame that stays where it is keeps its place in the invariant.        *)
(***************************************************************************)
LEMMA OnWireStays ==
  ASSUME FramesInv, NEW w, OnWire(w),
         Len(frames') \in Nat, Len(frames) <= Len(frames'),
         \A i \in 1..Len(frames) : frames'[i] = frames[i],
         w.frame.n \in 1..Len(frames) => tagged'[w.frame.n] = tagged[w.frame.n]
  PROVE  OnWire(w)'
<1>1. Len(frames) \in Nat
  BY DEF FramesInv
<1>2. w.frame.n \in 1..Len(frames) => w.frame.n \in 1..Len(frames')
  BY <1>1
<1>3. CASE Untouched(w)
  BY <1>2, <1>3 DEF OnWire, Untouched, AsSent
<1>4. CASE Flooded(w)
  BY <1>4 DEF OnWire, Flooded
<1>5. CASE PassedOn(w)
  BY <1>2, <1>5 DEF OnWire, PassedOn
<1>6. CASE Tunnelled(w)
  <2>1. Wrapped(w.frame)'
    BY <1>2, <1>6 DEF Tunnelled, Wrapped
  <2> QED BY <2>1, <1>6 DEF OnWire, Tunnelled
<1>7. CASE Unwrapped(w)
  BY <1>2, <1>7 DEF OnWire, Unwrapped, AsSent
<1> QED BY <1>3, <1>4, <1>5, <1>6, <1>7 DEF OnWire

LEMMA SameFrames ==
  ASSUME FramesInv, UNCHANGED <<frames, tagged>>, NEW w
  PROVE  OnWire(w) => OnWire(w)'
<1>1. Len(frames) \in Nat
  BY DEF FramesInv
<1> QED BY <1>1, OnWireStays

(***************************************************************************)
(* A frame moves on: it leaves w and is at v, or nowhere.                  *)
(***************************************************************************)
LEMMA FrameMoves ==
  ASSUME FramesInv, WireInv, Alone, UNCHANGED <<frames, tagged, stray>>,
         NEW w \in wire, NEW v,
         wire' = (wire \ {w}) \cup {v}, OnWire(v),
         v.frame.n = w.frame.n, Fresh(v) => Fresh(w)
  PROVE  WireInv' /\ Alone'
<1>1. WireInv'
  BY SameFrames DEF WireInv
<1>2. Alone'
  <2> SUFFICES ASSUME NEW x \in wire', Fresh(x)
               PROVE  /\ \A y \in wire' : y.frame.n = x.frame.n => y = x
                      /\ \A f \in stray : f.n # x.frame.n
    BY DEF Alone, Fresh
  <2>1. CASE x = v
    BY <2>1 DEF Alone
  <2>2. CASE x # v
    <3>1. x \in wire /\ x # w
      BY <2>2
    <3>2. v.frame.n # x.frame.n
      BY <3>1 DEF Alone
    <3> QED BY <3>1, <3>2 DEF Alone
  <2> QED BY <2>1, <2>2
<1> QED BY <1>1, <1>2

LEMMA FrameLeaves ==
  ASSUME FramesInv, WireInv, Alone, UNCHANGED <<frames, tagged, stray>>,
         NEW w \in wire, wire' = wire \ {w}
  PROVE  WireInv' /\ Alone'
<1>1. WireInv'
  BY SameFrames DEF WireInv
<1>2. Alone'
  BY DEF Alone, Fresh
<1> QED BY <1>1, <1>2

(***************************************************************************)
(* Steps that leave a part of the state alone.                             *)
(***************************************************************************)
LEMMA HistoriesStay ==
  /\ IngressInv /\ UNCHANGED ingressVars => IngressInv'
  /\ FramesInv /\ UNCHANGED frames => FramesInv'
  /\ TaggedInv /\ UNCHANGED <<frames, tagged>> => TaggedInv'
  /\ StrayInv /\ UNCHANGED <<frames, tagged, stray>> => StrayInv'
  /\ ReceivedInv /\ UNCHANGED <<frames, received>> => ReceivedInv'
<1>1. IngressInv /\ UNCHANGED ingressVars => IngressInv'
  BY DEF ingressVars, IngressInv, IngressTypeOK, TagsValid, SessionIsLast, CycleInv
<1>2. FramesInv /\ UNCHANGED frames => FramesInv'
  BY DEF FramesInv
<1>3. TaggedInv /\ UNCHANGED <<frames, tagged>> => TaggedInv'
  BY DEF TaggedInv
<1>4. StrayInv /\ UNCHANGED <<frames, tagged, stray>> => StrayInv'
  BY DEF StrayInv, EnoughPaths
<1>5. ReceivedInv /\ UNCHANGED <<frames, received>> => ReceivedInv'
  BY DEF ReceivedInv, Transparent
<1> QED BY <1>1, <1>2, <1>3, <1>4, <1>5

-----------------------------------------------------------------------------
LEMMA EdgeInitInv == Init => EdgeInv
<1> SUFFICES ASSUME Init PROVE EdgeInv
  OBVIOUS
<1>1. IngressInv
  BY IngressInitInv DEF Init
<1>2. FramesInv
  <2>1. frames = << >> /\ MaxFrames \in Nat /\ MaxFrames >= 0
    BY EdgeConstants, IngressBounds DEF Init
  <2> QED BY <2>1 DEF FramesInv
<1>3. WireInv /\ Alone /\ StrayInv
  BY DEF Init, WireInv, Alone, StrayInv
<1>4. TaggedInv
  BY DEF Init, TaggedInv
<1>5. ReceivedInv
  BY DEF Init, ReceivedInv, Transparent
<1> QED BY <1>1, <1>2, <1>3, <1>4, <1>5 DEF EdgeInv

LEMMA HostSendsInv ==
  ASSUME EdgeInv, NEW d \in Daemons, HostSends(d)
  PROVE  EdgeInv'
<1> DEFINE n == Len(frames) + 1
<1>1. PICK f \in HostFrames(n, d) :
        frames' = Append(frames, f) /\ wire' = wire \cup {At(d, "host", f)}
  BY DEF HostSends
<1>2. UNCHANGED <<ingressVars, received, stray, tagged>>
  BY DEF HostSends
<1>3. FramesInv /\ WireInv /\ Alone /\ TaggedInv /\ StrayInv /\ ReceivedInv
  BY DEF EdgeInv
<1>4. Len(frames) \in Nat /\ n \in 1..MaxFrames /\ MaxFrames \in Nat
  BY <1>3, EdgeConstants, IngressBounds DEF HostSends, FramesInv
<1>5. f \in AllFrames /\ f.n = n /\ f.flow = d
  BY <1>4, HostFrameFacts
<1>6. /\ frames' \in Seq(AllFrames) /\ Len(frames') = n
      /\ \A i \in 1..Len(frames) : frames'[i] = frames[i]
      /\ frames'[n] = f
  BY <1>1, <1>3, <1>5 DEF FramesInv
<1>7. FramesInv'
  <2> SUFFICES ASSUME NEW i \in 1..n PROVE \E c \in Daemons : frames'[i] \in HostFrames(i, c)
    BY <1>4, <1>6 DEF FramesInv
  <2>1. CASE i = n
    BY <2>1, <1>6
  <2>2. CASE i # n
    <3>1. i \in 1..Len(frames)
      BY <2>2, <1>4
    <3> QED BY <3>1, <1>3, <1>6 DEF FramesInv
  <2> QED BY <2>1, <2>2
<1> DEFINE v == At(d, "host", f)
<1>8. v.daemon = d /\ v.port = "host" /\ v.frame = f
  BY DEF At
<1> HIDE DEF v
<1>9. WireInv'
  <2> SUFFICES ASSUME NEW w \in wire' PROVE OnWire(w)'
    BY DEF WireInv
  <2>1. CASE w \in wire
    <3>1. OnWire(w)
      BY <2>1, <1>3 DEF WireInv
    <3> QED BY <3>1, <1>2, <1>3, <1>4, <1>6, OnWireStays
  <2>2. CASE w = v
    <3>1. tagged'[n] = 0
      BY <1>2, <1>3, <1>4 DEF TaggedInv
    <3> QED BY <2>2, <3>1, <1>4, <1>5, <1>6, <1>8 DEF OnWire, Untouched, AsSent
  <2> QED BY <2>1, <2>2, <1>1 DEF v
<1>10. Alone'
  <2> SUFFICES ASSUME NEW w \in wire', Fresh(w)
               PROVE  /\ \A x \in wire' : x.frame.n = w.frame.n => x = w
                      /\ \A g \in stray : g.n # w.frame.n
    BY <1>2 DEF Alone, Fresh
  <2>1. \A x \in wire : x.frame.n # n
    <3> TAKE x \in wire
    <3>1. x.frame.n # 0 => x.frame.n \in 1..Len(frames)
      BY <1>3, WireKinds
    <3> QED BY <3>1, <1>4
  <2>2. \A g \in stray : g.n # n
    BY <1>3, <1>4 DEF StrayInv
  <2>3. wire' = wire \cup {v} /\ v.frame.n = n
    BY <1>1, <1>5, <1>8 DEF v
  <2>4. CASE w = v
    BY <2>1, <2>2, <2>3, <2>4
  <2>5. CASE w # v
    BY <2>1, <2>3, <2>5, <1>3 DEF Alone
  <2> QED BY <2>4, <2>5
<1>11. TaggedInv' /\ StrayInv'
  BY <1>2, <1>3, <1>4, <1>6 DEF TaggedInv, StrayInv, EnoughPaths
<1>12. ReceivedInv'
  BY <1>2, <1>3, <1>4, <1>6 DEF ReceivedInv, Transparent
<1>13. IngressInv'
  BY <1>2, HistoriesStay DEF EdgeInv
<1> QED BY <1>7, <1>9, <1>10, <1>11, <1>12, <1>13 DEF EdgeInv

LEMMA FloodInv ==
  ASSUME EdgeInv, NEW d \in Daemons, Flood(d)
  PROVE  EdgeInv'
<1>1. PICK f \in Noise(d) : wire' = wire \cup {At(d, "1", f)}
  BY DEF Flood
<1>2. UNCHANGED <<ingressVars, frames, received, stray, tagged>>
  BY DEF Flood
<1>3. FramesInv /\ WireInv /\ Alone /\ TaggedInv /\ StrayInv /\ ReceivedInv /\ IngressInv
  BY DEF EdgeInv
<1> DEFINE v == At(d, "1", f)
<1>4. v.daemon = d /\ v.port = "1" /\ v.frame = f /\ f.n = 0
  BY DEF At, Noise, Frame
<1> HIDE DEF v
<1>5. OnWire(v)
  BY <1>4 DEF OnWire, Flooded
<1>6. wire' = wire \cup {v}
  BY <1>1 DEF v
<1>7. WireInv'
  BY <1>2, <1>3, <1>5, <1>6, SameFrames DEF WireInv
<1>8. Alone'
  <2> SUFFICES ASSUME NEW w \in wire', Fresh(w)
               PROVE  /\ \A x \in wire' : x.frame.n = w.frame.n => x = w
                      /\ \A g \in stray : g.n # w.frame.n
    BY <1>2 DEF Alone, Fresh
  <2>1. w # v /\ v.frame.n # w.frame.n
    BY <1>4 DEF Fresh
  <2> QED BY <2>1, <1>3, <1>6 DEF Alone
<1> QED BY <1>2, <1>3, <1>7, <1>8, HistoriesStay DEF EdgeInv

-----------------------------------------------------------------------------
(***************************************************************************)
(* A tagged frame is a VLAN frame with a tag of Tags.                      *)
(***************************************************************************)
LEMMA WrappedFacts ==
  ASSUME FramesInv, NEW f, Wrapped(f)
  PROVE  /\ f.n \in 1..Len(frames)
         /\ f.flow = frames[f.n].flow /\ f.flow \in Daemons
         /\ f.dst = "peer" /\ f.h_proto = "VLAN"
         /\ Head(f.vlans).vlan_id \in Tags
         /\ Untag(f).h_proto = "VLAN" /\ Len(Untag(f).vlans) = 1
         /\ Untag(f).flow = f.flow /\ Untag(f).dst = "peer"
         /\ Strip(Untag(f)) = frames[f.n]
<1>1. f.n \in 1..Len(frames) /\ frames[f.n].protocol = "TCP"
  BY DEF Wrapped
<1>2. PICK id \in Tags : f = Encapsulate(frames[f.n], id)
  BY DEF Wrapped
<1> DEFINE g == frames[f.n]
<1>3. /\ g \in AllFrames /\ g.flow \in Daemons /\ g.h_proto = "IPv4" /\ g.vlans = << >>
      /\ g.dst = "peer"
  BY <1>1, SentFrameFacts
<1> HIDE DEF g
<1>4. f = Encapsulate(g, id)
  BY <1>2 DEF g
<1>5. LET e == Encapsulate(g, id)
      IN  /\ e.n = g.n /\ e.flow = g.flow /\ e.dst = g.dst /\ e.h_proto = "VLAN"
          /\ Head(e.vlans).vlan_id = id
          /\ Untag(e).h_proto = "VLAN" /\ Len(Untag(e).vlans) = 1
          /\ Untag(e).flow = g.flow /\ Untag(e).dst = g.dst
          /\ Strip(Untag(e)) = g
  BY <1>3, RoundTrip
<1>6. /\ f.flow = g.flow /\ f.dst = g.dst /\ f.h_proto = "VLAN"
      /\ Head(f.vlans).vlan_id = id
      /\ Untag(f).h_proto = "VLAN" /\ Len(Untag(f).vlans) = 1
      /\ Untag(f).flow = g.flow /\ Untag(f).dst = g.dst
      /\ Strip(Untag(f)) = g
  BY <1>4, <1>5, Zenon
<1> QED BY <1>1, <1>3, <1>6 DEF g

(***************************************************************************)
(* What an edge switch does with each kind of frame.                       *)
(***************************************************************************)
LEMMA SwitchCases ==
  ASSUME EdgeInv, NEW w \in wire, Switch(w)
  PROVE  \/ /\ Untouched(w)
            /\ wire' = (wire \ {w}) \cup {At(w.daemon, "1", w.frame)}
            /\ UNCHANGED <<received, stray>>
         \/ /\ Tunnelled(w) /\ w.port = "2"
            /\ wire' = (wire \ {w}) \cup {At(Peer(w.daemon), "fabric", w.frame)}
            /\ UNCHANGED <<received, stray>>
         \/ /\ Tunnelled(w) /\ w.port = "fabric"
            /\ wire' = (wire \ {w}) \cup {At(w.daemon, "1", w.frame)}
            /\ UNCHANGED <<received, stray>>
         \/ /\ Unwrapped(w)
            /\ wire' = wire \ {w}
            /\ received' = [received EXCEPT ![w.daemon] = @ \cup {w.frame}]
            /\ UNCHANGED stray
         \/ /\ PassedOn(w) \/ (Tunnelled(w) /\ ~EnoughPaths)
            /\ wire' = wire \ {w}
            /\ stray' = stray \cup {w.frame}
            /\ UNCHANGED received
<1> DEFINE d == w.daemon
           f == w.frame
<1>1. FramesInv /\ WireInv
  BY DEF EdgeInv
<1>2. /\ d \in Daemons /\ w.port \in {"host", "2", "fabric"}
      /\ w.port = "host" => Untouched(w)
      /\ w.port = "fabric" => Tunnelled(w)
      /\ w.port = "2" => PassedOn(w) \/ Tunnelled(w) \/ Unwrapped(w)
  BY <1>1, WireKinds DEF Switch
<1>3. Peer(d) \in Daemons /\ Peer(d) # d
  BY <1>2, PeerFacts
<1>4. Tunnelled(w) => f.h_proto = "VLAN" /\ f.dst = "peer" /\ Head(f.vlans).vlan_id \in Tags
  BY <1>1, WrappedFacts DEF Tunnelled
<1>5. Untouched(w) \/ Unwrapped(w) => f.h_proto = "IPv4"
  BY <1>1, SentFrameFacts DEF Untouched, Unwrapped, AsSent
<1>6. EnoughPaths /\ Tunnelled(w) => Head(f.vlans).vlan_id \in RuleTags
  BY <1>4, TagsHaveRules
<1> DEFINE r1 == [in_port |-> "host", h_proto |-> "IPv4", flow |-> d, out |-> "1"]
           r2 == [in_port |-> "2", h_proto |-> "VLAN", flow |-> d, out |-> "fabric"]
           r3 == [in_port |-> "fabric", h_proto |-> "VLAN", flow |-> Peer(d), out |-> "1"]
           r4 == [in_port |-> "2", h_proto |-> "IPv4", flow |-> Peer(d), out |-> "host"]
<1>7. /\ Matches(r1, w) <=> w.port = "host" /\ f.h_proto = "IPv4" /\ f.flow = d
      /\ Matches(r2, w) <=> /\ w.port = "2" /\ f.h_proto = "VLAN" /\ f.flow = d
                            /\ Head(f.vlans).vlan_id \in RuleTags /\ f.dst = "peer"
      /\ Matches(r3, w) <=> /\ w.port = "fabric" /\ f.h_proto = "VLAN" /\ f.flow = Peer(d)
                            /\ Head(f.vlans).vlan_id \in RuleTags /\ f.dst = "peer"
      /\ Matches(r4, w) <=> w.port = "2" /\ f.h_proto = "IPv4" /\ f.flow = Peer(d)
  BY DEF Matches
<1>8. /\ r1.out = "1" /\ r2.out = "fabric" /\ r3.out = "1" /\ r4.out = "host"
      /\ Rules(d) = {r1, r2, r3, r4}
  BY DEF Rules
<1>9. /\ Untouched(w) => f.flow = d /\ w.port # "2" /\ w.port # "fabric"
      /\ PassedOn(w) => w.port = "2" /\ f.flow = d /\ f.h_proto = "IPv4"
      /\ Unwrapped(w) => w.port = "2" /\ f.flow = Peer(d)
      /\ Tunnelled(w) /\ w.port = "2" => f.flow = d
      /\ Tunnelled(w) /\ w.port = "fabric" => f.flow = Peer(d)
  BY DEF Untouched, PassedOn, Unwrapped, Tunnelled
<1> HIDE DEF r1, r2, r3, r4
<1>10. CASE \A r \in Rules(d) : ~Matches(r, w)
  <2>1. wire' = wire \ {w} /\ stray' = stray \cup {f} /\ UNCHANGED received
    BY <1>10 DEF Switch
  <2>2. ~Matches(r1, w) /\ ~Matches(r2, w) /\ ~Matches(r3, w) /\ ~Matches(r4, w)
    BY <1>8, <1>10
  <2>3. PassedOn(w) \/ (Tunnelled(w) /\ ~EnoughPaths)
    BY <2>2, <1>2, <1>4, <1>5, <1>6, <1>7, <1>9
  <2> QED BY <2>1, <2>3
<1>11. CASE \E r \in Rules(d) : Matches(r, w)
  <2>1. PICK r \in Rules(d) :
          /\ Matches(r, w)
          /\ \/ r.out = "1" /\ wire' = (wire \ {w}) \cup {At(d, "1", f)} /\ UNCHANGED received
             \/ r.out = "fabric" /\ wire' = (wire \ {w}) \cup {At(Peer(d), "fabric", f)}
                /\ UNCHANGED received
             \/ r.out = "host" /\ wire' = wire \ {w}
                /\ received' = [received EXCEPT ![d] = @ \cup {f}]
          /\ UNCHANGED stray
    BY <1>11 DEF Switch
  <2>2. CASE r = r1
    <3>1. Untouched(w)
      BY <2>1, <2>2, <1>2, <1>7
    <3> QED BY <3>1, <2>1, <2>2, <1>8
  <2>3. CASE r = r2
    <3>1. Tunnelled(w) /\ w.port = "2"
      BY <2>1, <2>3, <1>2, <1>5, <1>7, <1>9
    <3> QED BY <3>1, <2>1, <2>3, <1>8
  <2>4. CASE r = r3
    <3>1. Tunnelled(w) /\ w.port = "fabric"
      BY <2>1, <2>4, <1>2, <1>7
    <3> QED BY <3>1, <2>1, <2>4, <1>8
  <2>5. CASE r = r4
    <3>1. Unwrapped(w)
      BY <2>1, <2>5, <1>2, <1>3, <1>4, <1>7, <1>9
    <3> QED BY <3>1, <2>1, <2>5, <1>8
  <2> QED BY <2>1, <2>2, <2>3, <2>4, <2>5, <1>8
<1> QED BY <1>10, <1>11

LEMMA SwitchInv ==
  ASSUME EdgeInv, NEW w \in wire, Switch(w)
  PROVE  EdgeInv'
<1> DEFINE d == w.daemon
           f == w.frame
<1>1. /\ FramesInv /\ WireInv /\ Alone /\ TaggedInv /\ StrayInv /\ ReceivedInv
      /\ IngressInv
  BY DEF EdgeInv
<1>2. UNCHANGED <<ingressVars, frames, tagged>>
  BY DEF Switch
<1>3. IngressInv' /\ FramesInv' /\ TaggedInv'
  BY <1>1, <1>2, HistoriesStay
<1>4. d \in Daemons /\ Peer(d) \in Daemons /\ Peer(d) # d /\ Peer(Peer(d)) = d
  BY <1>1, WireKinds, PeerFacts
<1>5. \A c, p : At(c, p, f).daemon = c /\ At(c, p, f).port = p /\ At(c, p, f).frame = f
  BY DEF At
<1>6. ASSUME UNCHANGED <<received, stray>>, NEW c, NEW p,
             wire' = (wire \ {w}) \cup {At(c, p, f)},
             OnWire(At(c, p, f)), Fresh(At(c, p, f)) => Fresh(w)
      PROVE  EdgeInv'
  <2>1. WireInv' /\ Alone'
    BY <1>1, <1>2, <1>5, <1>6, FrameMoves
  <2>2. StrayInv' /\ ReceivedInv'
    BY <1>1, <1>2, <1>6, HistoriesStay
  <2> QED BY <1>3, <2>1, <2>2 DEF EdgeInv
<1>7. CASE /\ Untouched(w)
           /\ wire' = (wire \ {w}) \cup {At(d, "1", f)}
           /\ UNCHANGED <<received, stray>>
  <2>1. OnWire(At(d, "1", f))
    BY <1>4, <1>5, <1>7 DEF OnWire, Untouched
  <2>2. Fresh(w)
    BY <1>1, <1>7, WireKinds
  <2> QED BY <2>1, <2>2, <1>6, <1>7
<1>8. CASE /\ Tunnelled(w) /\ w.port = "2"
           /\ wire' = (wire \ {w}) \cup {At(Peer(d), "fabric", f)}
           /\ UNCHANGED <<received, stray>>
  <2>1. OnWire(At(Peer(d), "fabric", f))
    BY <1>4, <1>5, <1>8 DEF OnWire, Tunnelled
  <2>2. ~Fresh(At(Peer(d), "fabric", f))
    BY <1>5 DEF Fresh
  <2> QED BY <2>1, <2>2, <1>6, <1>8
<1>9. CASE /\ Tunnelled(w) /\ w.port = "fabric"
           /\ wire' = (wire \ {w}) \cup {At(d, "1", f)}
           /\ UNCHANGED <<received, stray>>
  <2>1. OnWire(At(d, "1", f))
    BY <1>4, <1>5, <1>9 DEF OnWire, Tunnelled
  <2>2. ~Fresh(At(d, "1", f))
    BY <1>4, <1>5, <1>9 DEF Fresh, Tunnelled
  <2> QED BY <2>1, <2>2, <1>6, <1>9
<1>10. CASE /\ Unwrapped(w)
            /\ wire' = wire \ {w}
            /\ received' = [received EXCEPT ![d] = @ \cup {f}]
            /\ UNCHANGED stray
  <2>1. WireInv' /\ Alone'
    BY <1>1, <1>2, <1>10, FrameLeaves
  <2>2. StrayInv'
    BY <1>1, <1>2, <1>10, HistoriesStay
  <2>3. f \in AllFrames /\ AsSent(f) /\ f.flow = Peer(d)
    BY <1>1, <1>10, SentFrameFacts DEF Unwrapped, AsSent
  <2>4. received' \in [Daemons -> SUBSET AllFrames]
    BY <2>3, <1>1, <1>10 DEF ReceivedInv
  <2>5. \A c \in Daemons : \A g \in received'[c] : g \in received[c] \/ (c = d /\ g = f)
    BY <1>1, <1>10 DEF ReceivedInv
  <2>6. Transparent'
    BY <2>3, <2>5, <1>1, <1>2 DEF ReceivedInv, Transparent, AsSent
  <2> QED BY <1>3, <2>1, <2>2, <2>4, <2>6 DEF EdgeInv, ReceivedInv
<1>11. CASE /\ PassedOn(w) \/ (Tunnelled(w) /\ ~EnoughPaths)
            /\ wire' = wire \ {w}
            /\ stray' = stray \cup {f}
            /\ UNCHANGED received
  <2>1. WireInv'
    BY <1>1, <1>2, <1>11, SameFrames DEF WireInv
  <2>2. ReceivedInv'
    BY <1>1, <1>2, <1>11, HistoriesStay
  <2>3. f.n \in 1..Len(frames) /\ (EnoughPaths => tagged[f.n] = 0)
    BY <1>11 DEF PassedOn, Tunnelled, Wrapped
  <2>4. StrayInv'
    BY <2>3, <1>1, <1>2, <1>11 DEF StrayInv, EnoughPaths
  <2>5. Alone'
    <3> SUFFICES ASSUME NEW x \in wire', Fresh(x)
                 PROVE  /\ \A y \in wire' : y.frame.n = x.frame.n => y = x
                        /\ \A g \in stray' : g.n # x.frame.n
      BY DEF Alone, Fresh
    <3>1. x \in wire /\ x # w
      BY <1>11
    <3>2. w.frame.n # x.frame.n
      BY <3>1, <1>1 DEF Alone
    <3> QED BY <3>1, <3>2, <1>1, <1>11 DEF Alone
  <2> QED BY <1>3, <2>1, <2>2, <2>4, <2>5 DEF EdgeInv
<1> QED BY SwitchCases, <1>7, <1>8, <1>9, <1>10, <1>11

-----------------------------------------------------------------------------
(***************************************************************************)
(* What a daemon does with each kind of frame: it drops it, unwraps a      *)
(* tagged one, passes one on without a tag, or tags it.                    *)
(***************************************************************************)
LEMMA ProcessCases ==
  ASSUME EdgeInv, NEW w \in wire, process_newpkt(w)
  PROVE  \/ wire' = wire \ {w} /\ UNCHANGED <<ingressVars, tagged>>
         \/ /\ Tunnelled(w) /\ w.port = "1"
            /\ wire' = (wire \ {w}) \cup {At(w.daemon, "2", frames[w.frame.n])}
            /\ UNCHANGED <<ingressVars, tagged>>
         \/ /\ Untouched(w)
            /\ \E g : /\ g.n = w.frame.n /\ g.h_proto = "IPv4" /\ g.flow = w.daemon
                      /\ wire' = (wire \ {w}) \cup {At(w.daemon, "2", g)}
            /\ UNCHANGED <<ingressVars, tagged>>
         \/ /\ Untouched(w) /\ w.frame.protocol = "TCP"
            /\ \E T \in SUBSET Tags :
                 wire' = (wire \ {w}) \cup {At(w.daemon, "2", Encapsulate(w.frame, id)) : id \in T}
            /\ IngressInv'
            /\ tagged' = [tagged EXCEPT ![w.frame.n] = @ + 1]
<1> DEFINE d == w.daemon
           f == w.frame
           u == Untag(f)
<1>1. FramesInv /\ WireInv /\ IngressInv
  BY DEF EdgeInv
<1>2. w.port = "1" /\ d \in Daemons /\ (Untouched(w) \/ Flooded(w) \/ Tunnelled(w))
  BY <1>1, WireKinds DEF process_newpkt
<1>3. \/ send_packet_raw(w, {}) /\ UNCHANGED <<ingressVars, wisprmirt, tagged>>
      \/ ~Filtered(u) /\ handle_vlanPkt(w, u)
      \/ ~Filtered(u) /\ handle_ipv4pkt(w, u)
  BY DEF process_newpkt
<1>4. /\ send_packet_raw(w, {}) => wire' = wire \ {w}
      /\ \A g : send_packet_raw(w, {g}) => wire' = (wire \ {w}) \cup {At(d, "2", g)}
  BY DEF send_packet_raw
<1>5. CASE Flooded(w)
  <2>1. f.h_proto # "VLAN"
    BY <1>5 DEF Flooded, Noise, Frame
  <2>2. u = f
    BY <2>1 DEF Untag
  <2>3. Filtered(f) \/ f.h_proto \in {"ARP", "IPv6", "unknown"}
    BY <1>5 DEF Flooded, Noise, Frame, Filtered
  <2> QED BY <2>1, <2>2, <2>3, <1>3, <1>4 DEF handle_vlanPkt, handle_ipv4pkt
<1>6. CASE Tunnelled(w)
  <2>1. /\ u.h_proto = "VLAN" /\ Strip(u) = frames[f.n]
    BY <1>1, <1>6, WrappedFacts DEF Tunnelled
  <2>2. ~handle_ipv4pkt(w, u)
    BY <2>1 DEF handle_ipv4pkt
  <2>3. handle_vlanPkt(w, u) =>
          /\ send_packet_raw(w, {Strip(u)}) \/ send_packet_raw(w, {})
          /\ UNCHANGED <<ingressVars, tagged>>
    BY DEF handle_vlanPkt
  <2> QED BY <2>1, <2>2, <2>3, <1>2, <1>3, <1>4, <1>6
<1>7. CASE Untouched(w)
  <2>1. /\ f \in AllFrames /\ f.n \in 1..Len(frames) /\ f.n # 0 /\ f.flow = d
        /\ f.h_proto = "IPv4"
    <3>1. f.n \in 1..Len(frames) /\ f = frames[f.n] /\ f.flow = d
      BY <1>7 DEF Untouched, AsSent
    <3>2. Len(frames) \in Nat
      BY <1>1 DEF FramesInv
    <3> QED BY <3>1, <3>2, <1>1, SentFrameFacts
  <2>2. u = f
    BY <2>1 DEF Untag
  <2>3. ~handle_vlanPkt(w, u)
    BY <2>1, <2>2 DEF handle_vlanPkt
  <2> HIDE DEF u
  <2>4. CASE handle_ipv4pkt(w, f)
    <3>1. CASE /\ f.protocol = "TCP"
               /\ process_ingress0(<<d, f.flow>>)
               /\ send_packet_raw(w, {Encapsulate(f, id) : id \in CopyTags(wispringress'[<<d, f.flow>>])})
               /\ tagged' = IF f.n = 0 THEN tagged ELSE [tagged EXCEPT ![f.n] = @ + 1]
      <4> DEFINE k == <<d, f.flow>>
                 T == CopyTags(wispringress'[k])
      <4>1. k \in Keys
        BY <1>2, <2>1, EdgeConstants
      <4> HIDE DEF k
      <4>2. process_ingress0(k)
        BY <3>1 DEF k
      <4>3. IngressInv'
        BY <4>1, <4>2, <1>1, ProcessIngressInv
      <4>4. ValidTag(wispringress'[k])
        BY <4>1, <4>2, <1>1, ProcessIngressTag
      <4>5. T \in SUBSET Tags
        BY <4>4, CopiesHaveTags
      <4> HIDE DEF T
      <4>6. send_packet_raw(w, {Encapsulate(f, id) : id \in T})
        BY <3>1 DEF T, k
      <4>7. wire' = (wire \ {w}) \cup {At(d, "2", Encapsulate(f, id)) : id \in T}
        BY <4>6 DEF send_packet_raw
      <4>8. tagged' = [tagged EXCEPT ![f.n] = @ + 1]
        BY <2>1, <3>1
      <4> QED BY <4>3, <4>5, <4>7, <4>8, <3>1, <1>7
    <3>2. CASE /\ f.protocol = "WISPR"
               /\ send_packet_raw(w, {process_wispr0(f)})
               /\ UNCHANGED <<ingressVars, tagged>>
      <4> DEFINE g == process_wispr0(f)
      <4>1. g.n = f.n /\ g.h_proto = "IPv4" /\ g.flow = d
        BY <2>1 DEF process_wispr0, AllFrames
      <4> HIDE DEF g
      <4>2. wire' = (wire \ {w}) \cup {At(d, "2", g)}
        BY <3>2, <1>4 DEF g
      <4> QED BY <4>1, <4>2, <3>2, <1>7
    <3>3. CASE /\ f.protocol = "GRE"
               /\ send_packet_raw(w, {})
               /\ UNCHANGED <<ingressVars, tagged>>
      BY <3>3, <1>4
    <3>4. CASE /\ f.protocol = "other"
               /\ send_packet_raw(w, {f})
               /\ UNCHANGED <<ingressVars, tagged>>
      BY <3>4, <1>4, <1>7, <2>1
    <3> QED BY <2>4, <3>1, <3>2, <3>3, <3>4 DEF handle_ipv4pkt
  <2> QED BY <2>2, <2>3, <2>4, <1>3, <1>4
<1> QED BY <1>2, <1>5, <1>6, <1>7

LEMMA ProcessInv ==
  ASSUME EdgeInv, NEW w \in wire, process_newpkt(w)
  PROVE  EdgeInv'
<1> DEFINE d == w.daemon
           f == w.frame
<1>1. /\ FramesInv /\ WireInv /\ Alone /\ TaggedInv /\ StrayInv /\ ReceivedInv
      /\ IngressInv
  BY DEF EdgeInv
<1>2. UNCHANGED <<frames, received, stray>>
  BY DEF process_newpkt
<1>3. FramesInv' /\ ReceivedInv'
  BY <1>1, <1>2, HistoriesStay
<1>4. d \in Daemons /\ Peer(d) \in Daemons /\ Peer(d) # d /\ Peer(Peer(d)) = d
  BY <1>1, WireKinds, PeerFacts
<1>5. \A p, g : At(d, p, g).daemon = d /\ At(d, p, g).port = p /\ At(d, p, g).frame = g
  BY DEF At
<1>6. \A g : ~Fresh(At(d, "2", g))
  BY <1>5 DEF Fresh
<1>7. UNCHANGED <<ingressVars, tagged>> => IngressInv' /\ TaggedInv' /\ StrayInv'
  BY <1>1, <1>2, HistoriesStay
<1>8. CASE wire' = wire \ {w} /\ UNCHANGED <<ingressVars, tagged>>
  <2>1. WireInv' /\ Alone'
    BY <1>1, <1>2, <1>8, FrameLeaves
  <2> QED BY <2>1, <1>3, <1>7, <1>8 DEF EdgeInv
<1>9. CASE /\ Tunnelled(w) /\ w.port = "1"
           /\ wire' = (wire \ {w}) \cup {At(d, "2", frames[f.n])}
           /\ UNCHANGED <<ingressVars, tagged>>
  <2> DEFINE g == frames[f.n]
             v == At(d, "2", g)
  <2>1. f.n \in 1..Len(frames) /\ f.flow = g.flow /\ f.flow = Peer(d)
    BY <1>1, <1>4, <1>9, WrappedFacts DEF Tunnelled
  <2>2. g.n = f.n
    BY <2>1, <1>1, SentFrameFacts
  <2>3. AsSent(g)
    BY <2>1, <2>2 DEF AsSent
  <2> HIDE DEF g
  <2>4. OnWire(v)
    BY <2>1, <2>3, <1>4, <1>5 DEF OnWire, Unwrapped
  <2>5. WireInv' /\ Alone'
    <3>1. wire' = (wire \ {w}) \cup {v} /\ v.frame.n = w.frame.n /\ ~Fresh(v)
      BY <2>2, <1>5, <1>6, <1>9 DEF g
    <3> HIDE DEF v
    <3> QED BY <3>1, <2>4, <1>1, <1>2, <1>9, FrameMoves
  <2> QED BY <2>5, <1>3, <1>7, <1>9 DEF EdgeInv
<1>10. CASE /\ Untouched(w)
            /\ \E g : /\ g.n = f.n /\ g.h_proto = "IPv4" /\ g.flow = d
                      /\ wire' = (wire \ {w}) \cup {At(d, "2", g)}
            /\ UNCHANGED <<ingressVars, tagged>>
  <2>1. PICK g : /\ g.n = f.n /\ g.h_proto = "IPv4" /\ g.flow = d
                 /\ wire' = (wire \ {w}) \cup {At(d, "2", g)}
    BY <1>10
  <2> DEFINE v == At(d, "2", g)
  <2>2. OnWire(v)
    BY <2>1, <1>4, <1>5, <1>10 DEF OnWire, PassedOn, Untouched, AsSent
  <2>3. WireInv' /\ Alone'
    <3>1. wire' = (wire \ {w}) \cup {v} /\ v.frame.n = w.frame.n /\ ~Fresh(v)
      BY <2>1, <1>5, <1>6
    <3> HIDE DEF v
    <3> QED BY <3>1, <2>2, <1>1, <1>2, <1>10, FrameMoves
  <2> QED BY <2>3, <1>3, <1>7, <1>10 DEF EdgeInv
<1>11. CASE /\ Untouched(w) /\ f.protocol = "TCP"
            /\ \E T \in SUBSET Tags :
                 wire' = (wire \ {w}) \cup {At(d, "2", Encapsulate(f, id)) : id \in T}
            /\ IngressInv'
            /\ tagged' = [tagged EXCEPT ![f.n] = @ + 1]
  <2>1. PICK T \in SUBSET Tags :
               wire' = (wire \ {w}) \cup {At(d, "2", Encapsulate(f, id)) : id \in T}
    BY <1>11
  <2>2. Fresh(w)
    BY <1>1, <1>11, WireKinds
  <2>3. f.n \in 1..Len(frames) /\ f = frames[f.n] /\ f.flow = d /\ tagged[f.n] = 0
    BY <1>11 DEF Untouched, AsSent
  <2>4. f \in AllFrames /\ f.h_proto = "IPv4" /\ f.vlans = << >> /\ f.n \in 1..MaxFrames
    BY <2>3, <1>1, SentFrameFacts
  <2>5. \A n \in 1..MaxFrames : tagged'[n] = IF n = f.n THEN 1 ELSE tagged[n]
    BY <2>3, <2>4, <1>1, <1>11 DEF TaggedInv
  <2>6. TaggedInv'
    <3>1. tagged' \in [1..MaxFrames -> 0..1]
      BY <2>3, <2>4, <1>1, <1>11 DEF TaggedInv
    <3>2. Len(frames) \in Nat
      BY <1>1 DEF FramesInv
    <3> QED BY <3>1, <3>2, <2>3, <2>5, <1>1, <1>2 DEF TaggedInv
  <2>7. StrayInv'
    <3> SUFFICES ASSUME NEW g \in stray
                 PROVE  g.n \in 1..Len(frames) /\ (EnoughPaths => tagged'[g.n] = 0)
      BY <1>2 DEF StrayInv, EnoughPaths
    <3>1. g.n # f.n /\ g.n \in 1..Len(frames)
      BY <2>2, <1>1 DEF Alone, StrayInv
    <3>2. g.n \in 1..MaxFrames
      BY <3>1, <1>1, SentFrameFacts
    <3> QED BY <3>1, <3>2, <2>5, <1>1 DEF StrayInv
  <2>8. \A x \in wire' :
          \/ x \in wire /\ x # w /\ x.frame.n # f.n
          \/ \E id \in Tags : x = At(d, "2", Encapsulate(f, id))
    BY <2>1, <2>2, <1>1 DEF Alone
  <2>9. WireInv'
    <3> SUFFICES ASSUME NEW x \in wire' PROVE OnWire(x)'
      BY DEF WireInv
    <3>1. CASE x \in wire /\ x # w /\ x.frame.n # f.n
      <4>1. OnWire(x)
        BY <3>1, <1>1 DEF WireInv
      <4>2. x.frame.n \in 1..Len(frames) => tagged'[x.frame.n] = tagged[x.frame.n]
        BY <3>1, <2>5, <1>1, SentFrameFacts
      <4>3. Len(frames) \in Nat
        BY <1>1 DEF FramesInv
      <4> QED BY <4>1, <4>2, <4>3, <1>1, <1>2, OnWireStays
    <3>2. CASE \E id \in Tags : x = At(d, "2", Encapsulate(f, id))
      <4>1. PICK id \in Tags : x = At(d, "2", Encapsulate(f, id))
        BY <3>2
      <4> DEFINE e == Encapsulate(f, id)
      <4>2. e.n = f.n /\ e.flow = d
        BY <2>3, <2>4, RoundTrip
      <4>3. Wrapped(e)
        BY <4>2, <2>3, <1>11 DEF Wrapped
      <4>4. x.daemon = d /\ x.port = "2" /\ x.frame = e
        BY <4>1, <1>5
      <4> HIDE DEF e
      <4>5. OnWire(x)
        BY <4>2, <4>3, <4>4, <1>4 DEF OnWire, Tunnelled
      <4>6. Wrapped(e)'
        BY <4>3, <1>2 DEF Wrapped
      <4> QED BY <4>2, <4>4, <4>6, <1>4 DEF OnWire, Tunnelled
    <3> QED BY <3>1, <3>2, <2>8
  <2>10. Alone'
    <3> SUFFICES ASSUME NEW x \in wire', Fresh(x)
                 PROVE  /\ \A y \in wire' : y.frame.n = x.frame.n => y = x
                        /\ \A g \in stray : g.n # x.frame.n
      BY <1>2 DEF Alone, Fresh
    <3>1. x \in wire /\ x # w /\ x.frame.n # f.n
      BY <2>8, <1>6
    <3>2. \A id \in Tags : At(d, "2", Encapsulate(f, id)).frame.n = f.n
      BY <2>4, <1>5, RoundTrip
    <3> QED BY <3>1, <3>2, <2>8, <1>1 DEF Alone
  <2> QED BY <2>6, <2>7, <2>9, <2>10, <1>3, <1>11 DEF EdgeInv
<1> QED BY ProcessCases, <1>8, <1>9, <1>10, <1>11

LEMMA EdgeNextInv == EdgeInv /\ [Next]_vars => EdgeInv'
<1> SUFFICES ASSUME EdgeInv, [Next]_vars PROVE EdgeInv'
  OBVIOUS
<1>1. CASE UNCHANGED <<ingressVars, frames, wire, received, stray, tagged>>
  <2>1. WireInv' /\ Alone'
    BY <1>1, SameFrames DEF EdgeInv, WireInv, Alone, Fresh
  <2> QED BY <1>1, <2>1, HistoriesStay DEF EdgeInv
<1>2. CASE Next
  BY <1>1, <1>2, HostSendsInv, FloodInv, SwitchInv, ProcessInv DEF Next, Tick
<1> QED BY <1>1, <1>2 DEF vars, edgeVars

LEMMA EdgeInvariant == Spec => []EdgeInv
<1>1. Init => EdgeInv
  BY EdgeInitInv
<1>2. EdgeInv /\ [Next]_vars => EdgeInv'
  BY EdgeNextInv
<1> QED BY <1>1, <1>2, PTL DEF Spec

(***************************************************************************)
(* A host gets nothing but what the host at the other end sent, exactly as *)
(* it was sent: the headers send_packet_withkey puts on are the ones the   *)
(* kernel and process_wispr0_vlan take off.                                *)
(***************************************************************************)
THEOREM TunnelIsTransparent == Spec => []Transparent
<1>1. EdgeInv => Transparent
  BY DEF EdgeInv, ReceivedInv
<1> QED BY <1>1, EdgeInvariant, PTL

(***************************************************************************)
(* No frame goes through process_ingress0 twice.                           *)
(***************************************************************************)
THEOREM NoneTaggedTwice == Spec => []TaggedOnce
<1>1. EdgeInv => TaggedOnce
  BY DEF EdgeInv, TaggedInv, TaggedOnce
<1> QED BY <1>1, EdgeInvariant, PTL

(***************************************************************************)
(* If the controller has installed as many paths as the daemons have       *)
(* numbers, a frame that was given a tag meets a rule of install_paths at  *)
(* every port.                                                             *)
(***************************************************************************)
THEOREM TagsMeetRules == Spec => []TaggedHaveRules
<1>1. EdgeInv => TaggedHaveRules
  BY DEF EdgeInv, StrayInv, TaggedHaveRules
<1> QED BY <1>1, EdgeInvariant, PTL
=============================================================================
