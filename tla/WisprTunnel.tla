---------------------------- MODULE WisprTunnel -----------------------------
(***************************************************************************)
(* Two WISPR daemons at the ends of a multipath fabric: every packet of a  *)
(* flow is tagged and sent as two copies by the daemon at the ingress      *)
(* (process_ingress0, send_packet_withkey), the copies travel              *)
(* independently, each delayed or lost on its own, and the daemon at the   *)
(* egress strips the tag from the first one and drops the other            *)
(* (process_wispr0_vlan).  The egress has nothing but the clock and the    *)
(* slot of the tag to recognise a second copy by, so the model has         *)
(* discrete time.                                                          *)
(***************************************************************************)
EXTENDS WisprIngress, WisprEgress

CONSTANTS
  MinDelay, MaxDelay, \* fabric: the time a copy needs from ingress to egress
  Jump,               \* egress host: how far its wall clock is moved about by adjustments
  Reuse,              \* senders: a key sends at most Window packets in less than Reuse
  RestartTime,        \* how long a daemon that went down is away
  MaxTime             \* bound: the horizon of time

ASSUME TunnelConstants ==
  /\ MinDelay \in Nat /\ MaxDelay \in Nat /\ MinDelay <= MaxDelay
  /\ Jump \in Nat /\ Reuse \in Nat /\ RestartTime \in Nat /\ MaxTime \in Nat

VARIABLES
  now,         \* real time
  offset,      \* gettimeofday of the egress host minus real time
  sentAt,      \* history: when the packets in sent were sent
  wire,        \* the copies on their way
  lost,        \* history: the copies that never reach the egress daemon
  taken,       \* history: how often the egress took a copy of a packet for new
  arrivals,    \* history: how often each packet was sent on to its host
  ingressUpAt, \* the daemons serve packets from these times on
  egressUpAt

fabricVars == <<now, offset, sentAt, wire, lost, taken, arrivals, ingressUpAt, egressUpAt>>
vars == <<ingressVars, wisprmirt, fabricVars>>

gettimeofday == now + offset

Copy(k, n, vlan_id) == [key |-> k, n |-> n, vlan_id |-> vlan_id]
SentAt(c) == sentAt[c.key][c.n]

(***************************************************************************)
(* The wall clock is far from its epoch, so an unused slot is not recent.  *)
(***************************************************************************)
Init ==
  /\ IngressInit
  /\ wisprmirt = NoMirrorSessions
  /\ now = TIMEOUT + 1
  /\ offset = 0
  /\ sentAt = [k \in Keys |-> << >>]
  /\ wire = {}
  /\ lost = {}
  /\ taken = [k \in Keys |-> [n \in 1..MaxPackets |-> 0]]
  /\ arrivals = [k \in Keys |-> [n \in 1..MaxPackets |-> 0]]
  /\ ingressUpAt = 0
  /\ egressUpAt = 0

(***************************************************************************)
(* What the senders are assumed to respect: the packet sent Window packets *)
(* ago is at least Reuse old.  Reuse = 0 allows every rate.                *)
(***************************************************************************)
RateRespected(k) ==
  Len(sent[k]) >= Window => sentAt[k][Len(sent[k]) + 1 - Window] + Reuse <= now

(***************************************************************************)
(* The two sendto calls of send_packet_withkey.  Neither result has an     *)
(* effect on the state: the copies in ok got out, the others are gone.     *)
(***************************************************************************)
send_packet_withkey(k, vlan_id) ==
  \E ok \in SUBSET CopyTags(vlan_id) :
    /\ wire' = wire \cup {Copy(k, Len(sent[k]) + 1, id) : id \in ok}
    /\ lost' = lost \cup {Copy(k, Len(sent[k]) + 1, id) : id \in CopyTags(vlan_id) \ ok}

(***************************************************************************)
(* The ingress daemon handles one packet of key k.                         *)
(***************************************************************************)
Send(k) ==
  /\ now >= ingressUpAt
  /\ RateRespected(k)
  /\ process_ingress0(k)
  /\ send_packet_withkey(k, wispringress'[k])
  /\ sentAt' = [sentAt EXCEPT ![k] = Append(@, now)]
  /\ UNCHANGED <<wisprmirt, now, offset, taken, arrivals, ingressUpAt, egressUpAt>>

(***************************************************************************)
(* The sendto call of send_packet_raw at the egress.  Its result has no    *)
(* effect on the state either: the packet arrives, or it is gone.          *)
(***************************************************************************)
send_packet_raw(c) ==
  \E ok \in BOOLEAN :
    arrivals' = IF ok THEN [arrivals EXCEPT ![c.key][c.n] = @ + 1] ELSE arrivals

(***************************************************************************)
(* The egress daemon handles one copy: process_wispr0_vlan stamps the slot *)
(* of a copy it takes for new before the packet is given to sendto.        *)
(***************************************************************************)
Receive(c) ==
  /\ now >= egressUpAt
  /\ SentAt(c) + MinDelay <= now
  /\ process_wispr0_vlan(c.key, c.vlan_id, gettimeofday)
  /\ IF PassesOn(c.key, c.vlan_id, gettimeofday)
       THEN /\ taken' = [taken EXCEPT ![c.key][c.n] = @ + 1]
            /\ send_packet_raw(c)
       ELSE UNCHANGED <<taken, arrivals>>
  /\ wire' = wire \ {c}
  /\ UNCHANGED <<ingressVars, now, offset, sentAt, lost, ingressUpAt, egressUpAt>>

(***************************************************************************)
(* A copy is lost in the fabric, or arrives while no daemon listens.       *)
(***************************************************************************)
Lose(c) ==
  /\ wire' = wire \ {c}
  /\ lost' = lost \cup {c}
  /\ UNCHANGED <<ingressVars, wisprmirt, now, offset, sentAt, taken, arrivals,
                 ingressUpAt, egressUpAt>>

(***************************************************************************)
(* Time passes, but not beyond the moment a copy has to be there.          *)
(***************************************************************************)
Tick ==
  /\ now < MaxTime
  /\ \A c \in wire : now < SentAt(c) + MaxDelay
  /\ now' = now + 1
  /\ UNCHANGED <<ingressVars, wisprmirt, offset, sentAt, wire, lost, taken, arrivals,
                 ingressUpAt, egressUpAt>>

(***************************************************************************)
(* The wall clock of the egress host is adjusted.                          *)
(***************************************************************************)
AdjustClock ==
  /\ offset' \in 0..Jump \ {offset}
  /\ UNCHANGED <<ingressVars, wisprmirt, now, sentAt, wire, lost, taken, arrivals,
                 ingressUpAt, egressUpAt>>

(***************************************************************************)
(* A daemon goes down and is started again: its tables begin empty.        *)
(***************************************************************************)
RestartIngress ==
  /\ now >= ingressUpAt
  /\ RestartTables
  /\ ingressUpAt' = now + RestartTime
  /\ UNCHANGED <<wisprmirt, now, offset, sentAt, wire, lost, taken, arrivals, egressUpAt>>

RestartEgress ==
  /\ now >= egressUpAt
  /\ restarts < MaxRestarts
  /\ restarts' = restarts + 1
  /\ wisprmirt' = NoMirrorSessions
  /\ egressUpAt' = now + RestartTime
  /\ UNCHANGED <<wispringress, sent, epoch, now, offset, sentAt, wire, lost, taken, arrivals,
                 ingressUpAt>>

Next ==
  \/ \E k \in Keys : Send(k)
  \/ \E c \in wire : Receive(c) \/ Lose(c)
  \/ Tick
  \/ AdjustClock
  \/ RestartIngress
  \/ RestartEgress

Spec == Init /\ [][Next]_vars

(***************************************************************************)
(* Every copy in the fabric arrives or is lost in the end.                 *)
(***************************************************************************)
FairSpec == Spec /\ WF_vars(\E c \in wire : Receive(c) \/ Lose(c)) /\ WF_vars(Tick)

-----------------------------------------------------------------------------
(***************************************************************************)
(* Under which the tunnel is correct: the two copies of a packet arrive    *)
(* within TIMEOUT of each other on the egress clock; and a slot is reused  *)
(* only after more than TIMEOUT has passed on that clock, whatever the     *)
(* delays; and a restart takes longer than both.                           *)
(***************************************************************************)
Skew == MaxDelay - MinDelay
SkewBounded == Skew + Jump <= TIMEOUT
ReuseBounded == Reuse > TIMEOUT + Skew + Jump
RestartBounded == RestartTime > Skew /\ RestartTime >= Reuse
Mirrored == NUMBEROFPATHS # 1

(***************************************************************************)
(* Types of the variables.                                                 *)
(***************************************************************************)
TypeOK ==
  /\ IngressTypeOK
  /\ EgressTypeOK
  /\ now \in Nat
  /\ offset \in 0..Jump
  /\ sentAt \in [Keys -> Seq(Nat)]
  /\ \A k \in Keys : Len(sentAt[k]) = Len(sent[k])
  /\ wire \subseteq [key : Keys, n : 1..MaxPackets, vlan_id : UInt16]
  /\ lost \subseteq [key : Keys, n : 1..MaxPackets, vlan_id : UInt16]
  /\ taken \in [Keys -> [1..MaxPackets -> Nat]]
  /\ arrivals \in [Keys -> [1..MaxPackets -> Nat]]
  /\ ingressUpAt \in Nat
  /\ egressUpAt \in Nat

(***************************************************************************)
(* The receiving host gets no packet twice although every packet is sent   *)
(* twice (process_wispr0_vlan drops the second copy), across clock         *)
(* adjustments and restarts of either daemon.                              *)
(***************************************************************************)
AtMostOnce == \A k \in Keys : \A n \in 1..Len(sent[k]) : arrivals[k][n] <= 1

(***************************************************************************)
(* The egress daemon took a copy of the packet for new and stamped its     *)
(* slot, and the sendto that should have passed it on failed.              *)
(***************************************************************************)
SendFailed(k, n) == taken[k][n] > arrivals[k][n]

(***************************************************************************)
(* The loss of one copy does not lose the packet, and a copy is dropped as *)
(* "ALREADY SEEN LATELY" only because a copy of the same packet was taken  *)
(* before: as long as a packet has not arrived, each of its two copies is  *)
(* on its way or was lost by the network, never dropped for another        *)
(* packet's stamp, unless the egress took one of them and its own sendto   *)
(* failed.  In that last case process_wispr0_vlan does drop the other copy *)
(* although nothing was passed on.                                         *)
(***************************************************************************)
DropsOnlySeen ==
  \A k \in Keys : \A n \in 1..Len(sent[k]) :
    arrivals[k][n] = 0 /\ ~SendFailed(k, n) =>
      \A id \in CopyTags(sent[k][n]) : Copy(k, n, id) \in wire \cup lost

(***************************************************************************)
(* Every packet process_ingress0 has sent is passed on by the egress in    *)
(* the end, unless the network loses both copies or the one sendto the     *)
(* egress tries for it fails.                                              *)
(***************************************************************************)
EventuallyPassedOn ==
  \A k \in Keys : \A n \in 1..MaxPackets :
    n <= Len(sent[k]) ~>
      /\ n <= Len(sent[k])
      /\ \/ arrivals[k][n] > 0
         \/ SendFailed(k, n)
         \/ \A id \in CopyTags(sent[k][n]) : Copy(k, n, id) \in lost

(***************************************************************************)
(* The tunnel implements the channel of WisprChannel: the daemons' tables, *)
(* the tags, the clock and the restarts cannot be seen from outside.       *)
(***************************************************************************)
Channel == INSTANCE WisprChannel
  WITH Labels <- Tags, accepted <- [k \in Keys |-> Len(sent[k])], transit <- wire

ImplementsChannel == Channel!ChannelSpec
=============================================================================
