------------------------- MODULE WisprTunnelProofs --------------------------
(***************************************************************************)
(* The tunnel delivers no packet twice and drops none that was not         *)
(* delivered, for every number of paths, groups, flows and packets and     *)
(* every delay, as long as the timing conditions of WisprTunnel hold.      *)
(***************************************************************************)
EXTENDS WisprTunnel, WisprIngressProofs

(***************************************************************************)
(* The parts of the inductive invariant.  The first group needs no         *)
(* condition on the timing.                                                *)
(***************************************************************************)
Times ==
  /\ now >= TIMEOUT + 1
  /\ \A k \in Keys : \A n \in 1..Len(sent[k]) : sentAt[k][n] <= now
  /\ \A k \in Keys : \A m, n \in 1..Len(sent[k]) : m <= n => sentAt[k][m] <= sentAt[k][n]
  /\ \A k \in Keys : \A n \in 1..epoch[k] : sentAt[k][n] + RestartTime <= ingressUpAt

OnWire ==
  \A c \in wire :
    /\ c.n \in 1..Len(sent[c.key])
    /\ c.vlan_id \in CopyTags(sent[c.key][c.n])
    /\ now <= SentAt(c) + MaxDelay

Arrived ==
  \A k \in Keys : \A n \in 1..MaxPackets :
    taken[k][n] > 0 => n <= Len(sent[k]) /\ sentAt[k][n] + MinDelay <= now

(***************************************************************************)
(* A packet arrives at its host only if the egress took a copy of it.      *)
(***************************************************************************)
TakenFirst == \A k \in Keys : \A n \in 1..MaxPackets : arrivals[k][n] <= taken[k][n]

(***************************************************************************)
(* The egress takes no packet for new twice: what makes AtMostOnce         *)
(* inductive.                                                              *)
(***************************************************************************)
TakenOnce == \A k \in Keys : \A n \in 1..Len(sent[k]) : taken[k][n] <= 1

(***************************************************************************)
(* A stamp was left by a packet of that slot.                              *)
(***************************************************************************)
Stamped ==
  \A k \in Keys : \A g \in Groups : \A s \in Numbers :
    \/ Stamp(k, g, s) = 0
    \/ \E m \in 1..Len(sent[k]) :
         /\ Slot(sent[k][m]) = <<g, s>>
         /\ taken[k][m] > 0
         /\ Stamp(k, g, s) <= sentAt[k][m] + MaxDelay + Jump

BasicInv ==
  TypeOK /\ IngressInv /\ Times /\ OnWire /\ Arrived /\ TakenFirst /\ Stamped

(***************************************************************************)
(* The second copy of a packet that was delivered finds the stamp of the   *)
(* first one, or a daemon that is down until the copy is gone.             *)
(***************************************************************************)
CopyStamp(c) == Stamp(c.key, group_id(c.vlan_id), packet_number(c.vlan_id))

Seen ==
  \A c \in wire : taken[c.key][c.n] > 0 =>
    \/ CopyStamp(c) >= SentAt(c) + MinDelay
    \/ egressUpAt > SentAt(c) + MaxDelay

(***************************************************************************)
(* A copy is dropped only if a copy of its packet was taken: what makes    *)
(* DropsOnlySeen inductive.                                                *)
(***************************************************************************)
DropsOnlyTaken ==
  \A k \in Keys : \A n \in 1..Len(sent[k]) :
    taken[k][n] = 0 =>
      \A id \in CopyTags(sent[k][n]) : Copy(k, n, id) \in wire \cup lost

(***************************************************************************)
(* Packets in the same slot were sent at least Reuse apart.                *)
(***************************************************************************)
Spaced ==
  \A k \in Keys : \A m, n \in 1..Len(sent[k]) :
    m < n /\ Slot(sent[k][m]) = Slot(sent[k][n]) => sentAt[k][m] + Reuse <= sentAt[k][n]

-----------------------------------------------------------------------------
(***************************************************************************)
(* A tag and its mirror fit a uint16_t.                                    *)
(***************************************************************************)
LEMMA SmallTag == ASSUME NEW x \in 0..511 PROVE x \in UInt16
BY DEF UInt16

(***************************************************************************)
(* The two tags of a packet differ in the mode only.                       *)
(***************************************************************************)
LEMMA CopyTagFacts ==
  ASSUME NEW id \in 0..255, ValidTag(id)
  PROVE  /\ CopyTags(id) = {id, id + 256}
         /\ \A t \in CopyTags(id) :
              /\ t \in UInt16
              /\ t \in Tags
              /\ group_id(t) = group_id(id) /\ packet_number(t) = packet_number(id)
              /\ Slot(t) = Slot(id)
              /\ wispr_mode(t) # 3
              /\ group_id(t) \in Groups /\ packet_number(t) \in Numbers
<1>1. /\ id \in 0..255 /\ id = 16 * group_id(id) + packet_number(id)
      /\ group_id(id) \in Groups /\ packet_number(id) \in Numbers \ {0}
  BY TagSplit DEF ValidTag
<1>2. MirrorTag(id) = id + 256
  <2>1. (id \div 256) % 2 = 0
    BY <1>1
  <2> QED BY <2>1 DEF MirrorTag
<1>3. CopyTags(id) = {id, id + 256}
  BY <1>2 DEF CopyTags
<1>4. /\ group_id(id + 256) = group_id(id) /\ packet_number(id + 256) = packet_number(id)
      /\ wispr_mode(id + 256) = 1 /\ wispr_mode(id) = 0
  BY <1>1 DEF group_id, packet_number, wispr_mode
<1>5. id \in UInt16 /\ id + 256 \in UInt16
  <2>1. id \in 0..511 /\ id + 256 \in 0..511
    OBVIOUS
  <2> QED BY <2>1, SmallTag
<1>6. PICK g \in Groups, n \in Numbers \ {0} : g \in Int /\ n \in Int /\ id = 16 * g + n
  <2>1. group_id(id) \in 0..15 /\ packet_number(id) \in 0..15
    BY TagSplit
  <2>2. group_id(id) \in Int /\ packet_number(id) \in Int
    BY <2>1
  <2> QED BY <1>1, <2>2, Zenon
<1>7. id \in Tags /\ id + 256 \in Tags
  <2>1. id = 256 * 0 + 16 * g + n /\ id + 256 = 256 * 1 + 16 * g + n
    BY <1>6
  <2>2. \E m \in {0, 1}, h \in Groups, l \in Numbers \ {0} : id = 256 * m + 16 * h + l
    BY <2>1, Zenon
  <2>3. \E m \in {0, 1}, h \in Groups, l \in Numbers \ {0} : id + 256 = 256 * m + 16 * h + l
    BY <2>1, Zenon
  <2>4. \A x : (\E m \in {0, 1}, h \in Groups, l \in Numbers \ {0} : x = 256 * m + 16 * h + l)
               => x \in Tags
    BY DEF Tags
  <2> QED BY <2>2, <2>3, <2>4, Zenon
<1>8. Slot(id + 256) = Slot(id)
  BY <1>4 DEF Slot
<1>9. \A t \in {id, id + 256} :
              /\ t \in UInt16
              /\ t \in Tags
              /\ group_id(t) = group_id(id) /\ packet_number(t) = packet_number(id)
              /\ Slot(t) = Slot(id)
              /\ wispr_mode(t) # 3
              /\ group_id(t) \in Groups /\ packet_number(t) \in Numbers
  <2>1. wispr_mode(id) # 3 /\ wispr_mode(id + 256) # 3
    BY <1>4
  <2>2. packet_number(id) \in Numbers
    BY <1>1
  <2> SUFFICES ASSUME NEW t, t = id \/ t = id + 256
               PROVE  /\ t \in UInt16
                      /\ t \in Tags
                      /\ group_id(t) = group_id(id) /\ packet_number(t) = packet_number(id)
                      /\ Slot(t) = Slot(id)
                      /\ wispr_mode(t) # 3
                      /\ group_id(t) \in Groups /\ packet_number(t) \in Numbers
    OBVIOUS
  <2>3. CASE t = id
    BY <1>1, <1>5, <1>7, <2>1, <2>2, <2>3, Zenon
  <2>4. CASE t = id + 256
    BY <1>1, <1>4, <1>5, <1>7, <1>8, <2>1, <2>2, <2>4, Zenon
  <2> QED BY <2>3, <2>4
<1> QED BY <1>3, <1>9

(***************************************************************************)
(* Send adds one packet to the histories and leaves the older ones alone.  *)
(***************************************************************************)
LEMMA SendFacts ==
  ASSUME NEW k \in Keys, TypeOK, IngressInv, Send(k)
  PROVE  /\ ValidTag(wispringress'[k])
         /\ Len(sent[k]) \in Nat /\ Len(sent[k]) + 1 <= MaxPackets
         /\ \A q \in Keys : \A i \in 1..Len(sent[q]) :
              /\ i \in 1..Len(sent'[q])
              /\ sent'[q][i] = sent[q][i]
              /\ sentAt'[q][i] = sentAt[q][i]
         /\ \A q \in Keys : \A i \in 1..Len(sent'[q]) :
              \/ i \in 1..Len(sent[q])
              \/ q = k /\ i = Len(sent[k]) + 1
         /\ Len(sent[k]) + 1 \in 1..Len(sent'[k])
         /\ sent'[k][Len(sent[k]) + 1] = wispringress'[k]
         /\ sentAt'[k][Len(sent[k]) + 1] = now
         /\ sentAt' \in [Keys -> Seq(Nat)]
         /\ \A q \in Keys : Len(sentAt'[q]) = Len(sent'[q])
<1> DEFINE tag == wispringress'[k]
           n == Len(sent[k]) + 1
<1>1. process_ingress0(k) /\ sentAt' = [sentAt EXCEPT ![k] = Append(sentAt[k], now)]
  BY DEF Send
<1>2. /\ ValidTag(tag)
      /\ Len(sent'[k]) = n
      /\ sent'[k][n] = tag
      /\ \A i \in 1..Len(sent[k]) : sent'[k][i] = sent[k][i]
      /\ \A q \in Keys \ {k} : sent'[q] = sent[q]
      /\ Len(sent[k]) \in Nat
  BY <1>1, ProcessIngressTag
<1>3. Len(sent[k]) < MaxPackets
  BY <1>1 DEF process_ingress0
<1>4. sentAt \in [Keys -> Seq(Nat)] /\ now \in Nat /\ \A q \in Keys : Len(sentAt[q]) = Len(sent[q])
  BY DEF TypeOK
<1>5. /\ sentAt'[k] = Append(sentAt[k], now)
      /\ \A q \in Keys \ {k} : sentAt'[q] = sentAt[q]
      /\ sentAt' \in [Keys -> Seq(Nat)]
  BY <1>1, <1>4
<1>6. /\ Len(sentAt'[k]) = n /\ sentAt'[k][n] = now
      /\ \A i \in 1..Len(sent[k]) : sentAt'[k][i] = sentAt[k][i]
  BY <1>4, <1>5
<1>7. ASSUME NEW q \in Keys, NEW i \in 1..Len(sent[q])
      PROVE  /\ i \in 1..Len(sent'[q])
             /\ sent'[q][i] = sent[q][i]
             /\ sentAt'[q][i] = sentAt[q][i]
  <2>1. CASE q = k
    <3>1. i \in 1..Len(sent[k])
      BY <2>1
    <3>2. i \in 1..n
      BY <1>2, <3>1
    <3> QED BY <1>2, <1>6, <2>1, <3>1, <3>2
  <2>2. CASE q # k
    BY <1>2, <1>5, <2>2
  <2> QED BY <2>1, <2>2
<1>8. ASSUME NEW q \in Keys, NEW i \in 1..Len(sent'[q])
      PROVE  i \in 1..Len(sent[q]) \/ (q = k /\ i = n)
  BY <1>2
<1>9. \A q \in Keys : Len(sentAt'[q]) = Len(sent'[q])
  BY <1>2, <1>4, <1>5, <1>6
<1>10. n <= MaxPackets /\ n \in 1..Len(sent'[k])
  BY <1>2, <1>3, IngressBounds
<1> QED BY <1>2, <1>5, <1>6, <1>7, <1>8, <1>9, <1>10

(***************************************************************************)
(* The copies of the new packet are on the wire or lost at once.           *)
(***************************************************************************)
LEMMA SendCopies ==
  ASSUME NEW k \in Keys, Send(k)
  PROVE  /\ wire \subseteq wire' /\ lost \subseteq lost'
         /\ \A c \in wire' \ wire : \E id \in CopyTags(wispringress'[k]) :
              c = Copy(k, Len(sent[k]) + 1, id)
         /\ \A c \in lost' \ lost : \E id \in CopyTags(wispringress'[k]) :
              c = Copy(k, Len(sent[k]) + 1, id)
         /\ \A id \in CopyTags(wispringress'[k]) :
              Copy(k, Len(sent[k]) + 1, id) \in wire' \cup lost'
<1>1. PICK ok \in SUBSET CopyTags(wispringress'[k]) :
        /\ wire' = wire \cup {Copy(k, Len(sent[k]) + 1, id) : id \in ok}
        /\ lost' = lost \cup {Copy(k, Len(sent[k]) + 1, id) :
                              id \in CopyTags(wispringress'[k]) \ ok}
  BY DEF Send, send_packet_withkey
<1> QED BY <1>1

(***************************************************************************)
(* What is read off the wire about a copy.                                 *)
(***************************************************************************)
LEMMA CopyFacts ==
  ASSUME BasicInv, NEW c \in wire
  PROVE  /\ c.key \in Keys /\ c.n \in 1..MaxPackets /\ c.n \in 1..Len(sent[c.key])
         /\ c = Copy(c.key, c.n, c.vlan_id)
         /\ ValidTag(sent[c.key][c.n])
         /\ group_id(c.vlan_id) \in Groups /\ packet_number(c.vlan_id) \in Numbers
         /\ Slot(c.vlan_id) = Slot(sent[c.key][c.n])
         /\ wispr_mode(c.vlan_id) # 3
         /\ SentAt(c) \in Nat /\ SentAt(c) = sentAt[c.key][c.n]
         /\ now <= SentAt(c) + MaxDelay
         /\ c.vlan_id \in CopyTags(sent[c.key][c.n])
<1>1. c \in [key : Keys, n : 1..MaxPackets, vlan_id : UInt16]
  BY DEF BasicInv, TypeOK
<1>2. c.key \in Keys /\ c.n \in 1..MaxPackets /\ c = Copy(c.key, c.n, c.vlan_id)
  BY <1>1 DEF Copy
<1>3. /\ c.n \in 1..Len(sent[c.key])
      /\ c.vlan_id \in CopyTags(sent[c.key][c.n])
      /\ now <= SentAt(c) + MaxDelay
  BY DEF BasicInv, OnWire
<1>4. ValidTag(sent[c.key][c.n]) /\ sent[c.key][c.n] \in 0..255
  BY <1>2, <1>3 DEF BasicInv, IngressInv, TagsValid, ValidTag
<1>5. /\ group_id(c.vlan_id) \in Groups /\ packet_number(c.vlan_id) \in Numbers
      /\ Slot(c.vlan_id) = Slot(sent[c.key][c.n])
      /\ wispr_mode(c.vlan_id) # 3
  <2>1. PICK id \in 0..255 : id = sent[c.key][c.n]
    BY <1>4
  <2>2. ValidTag(id) /\ c.vlan_id \in CopyTags(id)
    BY <1>3, <1>4, <2>1
  <2>3. \A t \in CopyTags(id) : /\ group_id(t) \in Groups /\ packet_number(t) \in Numbers
                                /\ Slot(t) = Slot(id)
                                /\ wispr_mode(t) # 3
    BY <2>2, CopyTagFacts
  <2> QED BY <2>1, <2>2, <2>3
<1>6. SentAt(c) \in Nat /\ SentAt(c) = sentAt[c.key][c.n]
  <2>1. sentAt[c.key] \in Seq(Nat) /\ Len(sentAt[c.key]) = Len(sent[c.key])
    BY <1>2 DEF BasicInv, TypeOK
  <2> QED BY <1>3, <2>1 DEF SentAt
<1> QED BY <1>2, <1>3, <1>4, <1>5, <1>6

(***************************************************************************)
(* Stamps are times.                                                       *)
(***************************************************************************)
LEMMA StampType ==
  ASSUME EgressTypeOK, NEW k, NEW g \in Groups, NEW s \in Numbers
  PROVE  /\ get_or_add_mirror_session(k) \in [Groups -> [Numbers -> Nat]]
         /\ Stamp(k, g, s) \in Nat
<1>1. PICK S \in SUBSET Keys : wisprmirt \in [S -> [Groups -> [Numbers -> Nat]]]
  BY DEF EgressTypeOK
<1>2. ZeroTable \in [Groups -> [Numbers -> Nat]]
  BY DEF ZeroTable
<1>3. get_or_add_mirror_session(k) \in [Groups -> [Numbers -> Nat]]
  BY <1>1, <1>2 DEF get_or_add_mirror_session
<1> QED BY <1>3 DEF Stamp

(***************************************************************************)
(* process_wispr0_vlan stamps the slot of the copy it passes on, and no    *)
(* other.                                                                  *)
(***************************************************************************)
LEMMA ReceiveStamps ==
  ASSUME NEW q \in Keys, NEW id, NEW tv \in Nat, EgressTypeOK,
         group_id(id) \in Groups, packet_number(id) \in Numbers, wispr_mode(id) # 3,
         process_wispr0_vlan(q, id, tv)
  PROVE  /\ EgressTypeOK'
         /\ \A k \in Keys : \A g \in Groups : \A s \in Numbers :
              Stamp(k, g, s)' = IF /\ HasntBeenSeen(q, id, tv)
                                   /\ k = q /\ g = group_id(id) /\ s = packet_number(id)
                                  THEN tv ELSE Stamp(k, g, s)
<1> DEFINE old == get_or_add_mirror_session(q)
           stamped == [old EXCEPT ![group_id(id)][packet_number(id)] = tv]
           new == IF HasntBeenSeen(q, id, tv) THEN stamped ELSE old
<1>1. wisprmirt' = [j \in DOMAIN wisprmirt \cup {q} |-> IF j # q THEN wisprmirt[j] ELSE new]
  BY DEF process_wispr0_vlan
<1>2. old \in [Groups -> [Numbers -> Nat]]
  BY StampType
<1> HIDE DEF old
<1>3. stamped \in [Groups -> [Numbers -> Nat]]
  BY <1>2
<1>4. \A g \in Groups : \A s \in Numbers :
        stamped[g][s] = IF g = group_id(id) /\ s = packet_number(id) THEN tv ELSE old[g][s]
  BY <1>2
<1> HIDE DEF stamped
<1>5. new \in [Groups -> [Numbers -> Nat]]
  BY <1>2, <1>3
<1>6. \A g \in Groups : \A s \in Numbers :
        new[g][s] = IF /\ HasntBeenSeen(q, id, tv)
                       /\ g = group_id(id) /\ s = packet_number(id)
                      THEN tv ELSE old[g][s]
  BY <1>4
<1> HIDE DEF new
<1>7. EgressTypeOK'
  <2>1. PICK S \in SUBSET Keys : wisprmirt \in [S -> [Groups -> [Numbers -> Nat]]]
    BY DEF EgressTypeOK
  <2>2. wisprmirt' \in [S \cup {q} -> [Groups -> [Numbers -> Nat]]]
    BY <1>1, <1>5, <2>1
  <2> QED BY <2>2 DEF EgressTypeOK
<1>8. ASSUME NEW k \in Keys, NEW g \in Groups, NEW s \in Numbers
      PROVE  Stamp(k, g, s)' = IF /\ HasntBeenSeen(q, id, tv)
                                  /\ k = q /\ g = group_id(id) /\ s = packet_number(id)
                                 THEN tv ELSE Stamp(k, g, s)
  <2>1. CASE k = q
    <3>1. Stamp(k, g, s)' = new[g][s]
      BY <1>1, <2>1 DEF Stamp, get_or_add_mirror_session
    <3>2. Stamp(k, g, s) = old[g][s]
      BY <2>1 DEF Stamp, old
    <3> QED BY <1>6, <2>1, <3>1, <3>2
  <2>2. CASE k # q
    BY <1>1, <2>2 DEF Stamp, get_or_add_mirror_session
  <2> QED BY <2>1, <2>2
<1> QED BY <1>7, <1>8

-----------------------------------------------------------------------------
(***************************************************************************)
(* The basic invariant holds initially.                                    *)
(***************************************************************************)
LEMMA BasicInit == Init => BasicInv
<1> SUFFICES ASSUME Init PROVE BasicInv
  OBVIOUS
<1>1. IngressInv
  BY IngressInitInv DEF Init
<1>2. EgressTypeOK
  <2>1. wisprmirt \in [{} -> [Groups -> [Numbers -> Nat]]]
    BY DEF Init, NoMirrorSessions
  <2> QED BY <2>1 DEF EgressTypeOK
<1>3. TypeOK
  <2>1. now \in Nat /\ offset \in 0..Jump
    BY TimeoutAssumption, TunnelConstants DEF Init
  <2>2. /\ sentAt \in [Keys -> Seq(Nat)]
        /\ \A k \in Keys : Len(sentAt[k]) = Len(sent[k])
    BY DEF Init, IngressInit
  <2>3. /\ taken \in [Keys -> [1..MaxPackets -> Nat]]
        /\ arrivals \in [Keys -> [1..MaxPackets -> Nat]]
        /\ ingressUpAt \in Nat /\ egressUpAt \in Nat
        /\ wire = {} /\ lost = {}
    BY DEF Init
  <2> QED BY <1>1, <1>2, <2>1, <2>2, <2>3 DEF TypeOK, IngressInv
<1>4. Times
  BY TimeoutAssumption DEF Init, IngressInit, Times
<1>5. OnWire
  BY DEF Init, OnWire
<1>6. Arrived /\ TakenFirst
  BY DEF Init, Arrived, TakenFirst
<1>7. Stamped
  <2> SUFFICES ASSUME NEW k \in Keys, NEW g \in Groups, NEW s \in Numbers
               PROVE  Stamp(k, g, s) = 0
    BY DEF Stamped
  <2> QED BY DEF Init, NoMirrorSessions, Stamp, get_or_add_mirror_session, ZeroTable
<1> QED BY <1>1, <1>3, <1>4, <1>5, <1>6, <1>7 DEF BasicInv

(***************************************************************************)
(* Each action keeps the basic invariant.                                  *)
(***************************************************************************)
LEMMA BasicSend ==
  ASSUME BasicInv, NEW k \in Keys, Send(k)
  PROVE  BasicInv'
<1> DEFINE tag == wispringress'[k]
           n == Len(sent[k]) + 1
<1>1. TypeOK /\ IngressInv /\ Times /\ OnWire /\ Arrived /\ TakenFirst /\ Stamped
  BY DEF BasicInv
<1>2. /\ ValidTag(tag)
      /\ Len(sent[k]) \in Nat /\ n <= MaxPackets
      /\ \A q \in Keys : \A i \in 1..Len(sent[q]) :
           /\ i \in 1..Len(sent'[q])
           /\ sent'[q][i] = sent[q][i]
           /\ sentAt'[q][i] = sentAt[q][i]
      /\ \A q \in Keys : \A i \in 1..Len(sent'[q]) :
           i \in 1..Len(sent[q]) \/ (q = k /\ i = n)
      /\ n \in 1..Len(sent'[k]) /\ sent'[k][n] = tag /\ sentAt'[k][n] = now
      /\ sentAt' \in [Keys -> Seq(Nat)]
      /\ \A q \in Keys : Len(sentAt'[q]) = Len(sent'[q])
  BY <1>1, SendFacts
<1>3. /\ \A c \in wire' \ wire : \E id \in CopyTags(tag) : c = Copy(k, n, id)
      /\ \A c \in lost' \ lost : \E id \in CopyTags(tag) : c = Copy(k, n, id)
  BY SendCopies
<1>4. UNCHANGED <<wisprmirt, now, offset, taken, arrivals, ingressUpAt, egressUpAt, epoch,
                  restarts>>
  BY DEF Send, process_ingress0
<1>5. IngressInv'
  BY <1>1, ProcessIngressInv DEF Send
<1>6. tag \in 0..255 /\ \A id \in CopyTags(tag) : id \in UInt16
  <2>1. tag \in 0..255
    BY <1>2 DEF ValidTag
  <2> QED BY <1>2, <2>1, CopyTagFacts, Zenon
<1>7. now \in Nat /\ MaxDelay \in Nat /\ \A q \in Keys : Len(sent[q]) \in Nat
  BY <1>1, TunnelConstants DEF TypeOK, IngressTypeOK
<1> HIDE DEF tag, n
<1>8. TypeOK'
  <2>1. IngressTypeOK' /\ EgressTypeOK'
    BY <1>1, <1>4, <1>5 DEF IngressInv, TypeOK, EgressTypeOK
  <2>2. n \in 1..MaxPackets
    BY <1>2 DEF n
  <2>3. \A id \in CopyTags(tag) : Copy(k, n, id) \in [key : Keys, n : 1..MaxPackets, vlan_id : UInt16]
    BY <1>6, <2>2 DEF Copy
  <2>4. /\ wire' \subseteq [key : Keys, n : 1..MaxPackets, vlan_id : UInt16]
        /\ lost' \subseteq [key : Keys, n : 1..MaxPackets, vlan_id : UInt16]
    BY <1>1, <1>3, <2>3 DEF TypeOK
  <2> QED BY <1>1, <1>2, <1>4, <2>1, <2>4 DEF TypeOK
<1>9. Times'
  <2>1. now' >= TIMEOUT + 1
    BY <1>1, <1>4 DEF Times
  <2>2. ASSUME NEW q \in Keys, NEW i \in 1..Len(sent'[q]) PROVE sentAt'[q][i] <= now'
    <3>1. CASE i \in 1..Len(sent[q])
      <4>1. sentAt'[q][i] = sentAt[q][i] /\ sentAt[q][i] <= now
        BY <1>1, <1>2, <3>1 DEF Times
      <4> QED BY <1>4, <4>1
    <3>2. CASE q = k /\ i = n
      BY <1>2, <1>4, <1>7, <3>2
    <3> QED BY <1>2, <3>1, <3>2
  <2>3. ASSUME NEW q \in Keys, NEW i \in 1..Len(sent'[q]), NEW j \in 1..Len(sent'[q]), i <= j
        PROVE  sentAt'[q][i] <= sentAt'[q][j]
    <3>1. CASE j \in 1..Len(sent[q])
      <4>1. i \in 1..Len(sent[q])
        BY <1>7, <2>3, <3>1
      <4> QED BY <1>1, <1>2, <2>3, <3>1, <4>1 DEF Times
    <3>2. CASE j \notin 1..Len(sent[q])
      <4>1. q = k /\ j = n /\ sentAt'[q][j] = now
        BY <1>2, <3>2
      <4> QED BY <1>4, <2>2, <4>1
    <3> QED BY <3>1, <3>2
  <2>4. ASSUME NEW q \in Keys, NEW i \in 1..epoch'[q]
        PROVE  sentAt'[q][i] + RestartTime <= ingressUpAt'
    <3>1. i \in 1..Len(sent[q]) /\ i \in 1..epoch[q]
      BY <1>1, <1>4, <1>7 DEF TypeOK, IngressTypeOK
    <3> QED BY <1>1, <1>2, <1>4, <3>1 DEF Times
  <2> QED BY <2>1, <2>2, <2>3, <2>4 DEF Times
<1>10. OnWire'
  <2> SUFFICES ASSUME NEW c \in wire'
               PROVE  /\ c.n \in 1..Len(sent'[c.key])
                      /\ c.vlan_id \in CopyTags(sent'[c.key][c.n])
                      /\ now' <= sentAt'[c.key][c.n] + MaxDelay
    BY DEF OnWire, SentAt
  <2>1. CASE c \in wire
    <3>1. /\ c.key \in Keys /\ c.n \in 1..Len(sent[c.key])
          /\ c.vlan_id \in CopyTags(sent[c.key][c.n])
          /\ now <= sentAt[c.key][c.n] + MaxDelay
      BY <2>1, CopyFacts
    <3> QED BY <1>2, <1>4, <3>1
  <2>2. CASE c \notin wire
    <3>1. c.key = k /\ c.n = n /\ c.vlan_id \in CopyTags(tag)
      BY <1>3, <2>2 DEF Copy
    <3>2. sent'[k][n] = tag /\ sentAt'[k][n] = now /\ n \in 1..Len(sent'[k])
      BY <1>2
    <3> QED BY <1>4, <1>7, <3>1, <3>2
  <2> QED BY <2>1, <2>2
<1>11. Arrived'
  <2> SUFFICES ASSUME NEW q \in Keys, NEW i \in 1..MaxPackets, taken[q][i] > 0
               PROVE  i <= Len(sent'[q]) /\ sentAt'[q][i] + MinDelay <= now
    BY <1>4 DEF Arrived
  <2>1. i <= Len(sent[q]) /\ sentAt[q][i] + MinDelay <= now
    BY <1>1 DEF Arrived
  <2>2. i \in 1..Len(sent[q])
    BY <1>7, <2>1
  <2>3. i \in 1..Len(sent'[q])
    BY <1>2, <2>2
  <2> QED BY <1>2, <2>1, <2>2, <2>3
<1>12. Stamped'
  <2> SUFFICES ASSUME NEW q \in Keys, NEW g \in Groups, NEW s \in Numbers
               PROVE  \/ Stamp(q, g, s)' = 0
                      \/ \E m \in 1..Len(sent'[q]) :
                           /\ Slot(sent'[q][m]) = <<g, s>>
                           /\ taken'[q][m] > 0
                           /\ Stamp(q, g, s)' <= sentAt'[q][m] + MaxDelay + Jump
    BY DEF Stamped, Slot, group_id, packet_number
  <2>1. Stamp(q, g, s)' = Stamp(q, g, s)
    BY <1>4 DEF Stamp, get_or_add_mirror_session
  <2>2. CASE Stamp(q, g, s) = 0
    BY <2>1, <2>2
  <2>3. CASE Stamp(q, g, s) # 0
    <3>1. PICK m \in 1..Len(sent[q]) :
            /\ Slot(sent[q][m]) = <<g, s>>
            /\ taken[q][m] > 0
            /\ Stamp(q, g, s) <= sentAt[q][m] + MaxDelay + Jump
      BY <1>1, <2>3 DEF Stamped
    <3> QED BY <1>2, <1>4, <2>1, <3>1
  <2> QED BY <2>2, <2>3
<1>13. TakenFirst'
  BY <1>1, <1>4 DEF TakenFirst
<1> QED BY <1>5, <1>8, <1>9, <1>10, <1>11, <1>12, <1>13 DEF BasicInv

(***************************************************************************)
(* Steps that leave the session table alone keep its invariant.            *)
(***************************************************************************)
LEMMA IngressUnchanged ==
  ASSUME IngressInv, UNCHANGED <<wispringress, sent, epoch>>, restarts' \in 0..MaxRestarts
  PROVE  IngressInv'
BY DEF IngressInv, IngressTypeOK, TagsValid, SessionIsLast, CycleInv

LEMMA BasicReceive ==
  ASSUME BasicInv, NEW c \in wire, Receive(c)
  PROVE  BasicInv'
<1> DEFINE k == c.key
           n == c.n
           id == c.vlan_id
           tv == now + offset
<1>1. TypeOK /\ IngressInv /\ Times /\ OnWire /\ Arrived /\ TakenFirst /\ Stamped
  BY DEF BasicInv
<1>2. /\ k \in Keys /\ n \in 1..MaxPackets /\ n \in 1..Len(sent[k])
      /\ group_id(id) \in Groups /\ packet_number(id) \in Numbers
      /\ Slot(id) = Slot(sent[k][n])
      /\ wispr_mode(id) # 3
      /\ sentAt[k][n] \in Nat /\ SentAt(c) = sentAt[k][n]
      /\ now <= sentAt[k][n] + MaxDelay
  BY CopyFacts
<1>3. /\ wispringress' = wispringress /\ sent' = sent /\ epoch' = epoch /\ restarts' = restarts
      /\ now' = now /\ offset' = offset /\ sentAt' = sentAt /\ lost' = lost
      /\ ingressUpAt' = ingressUpAt /\ egressUpAt' = egressUpAt
      /\ wire' = wire \ {c}
  BY DEF Receive, ingressVars
<1>4. /\ now \in Nat /\ offset \in Nat /\ offset <= Jump /\ tv \in Nat /\ tv <= now + Jump
      /\ Jump \in Nat /\ MaxDelay \in Nat /\ MinDelay \in Nat
      /\ taken \in [Keys -> [1..MaxPackets -> Nat]]
      /\ arrivals \in [Keys -> [1..MaxPackets -> Nat]]
  BY <1>1, TunnelConstants DEF TypeOK
<1>5. process_wispr0_vlan(k, id, tv) /\ sentAt[k][n] + MinDelay <= now
  BY <1>2 DEF Receive, gettimeofday
<1>6. EgressTypeOK
  BY <1>1 DEF TypeOK
<1>7. taken' = IF HasntBeenSeen(k, id, tv)
                    THEN [taken EXCEPT ![k][n] = taken[k][n] + 1]
                    ELSE taken
  BY <1>2 DEF Receive, send_packet_raw, PassesOn, gettimeofday
<1>7a. \/ arrivals' = arrivals
       \/ /\ HasntBeenSeen(k, id, tv)
          /\ arrivals' = [arrivals EXCEPT ![k][n] = arrivals[k][n] + 1]
  BY <1>2 DEF Receive, send_packet_raw, PassesOn, gettimeofday
<1> HIDE DEF k, n, id, tv
<1>8. /\ EgressTypeOK'
      /\ \A q \in Keys : \A g \in Groups : \A s \in Numbers :
           Stamp(q, g, s)' = IF /\ HasntBeenSeen(k, id, tv)
                                /\ q = k /\ g = group_id(id) /\ s = packet_number(id)
                               THEN tv ELSE Stamp(q, g, s)
  BY <1>2, <1>4, <1>5, <1>6, ReceiveStamps
<1>9. /\ taken' \in [Keys -> [1..MaxPackets -> Nat]]
      /\ \A q \in Keys : \A i \in 1..MaxPackets :
           /\ taken[q][i] > 0 => taken'[q][i] > 0
           /\ taken'[q][i] > 0 => taken[q][i] > 0 \/ (q = k /\ i = n)
      /\ HasntBeenSeen(k, id, tv) => taken'[k][n] > 0
  <2>1. CASE HasntBeenSeen(k, id, tv)
    <3>1. taken' = [taken EXCEPT ![k][n] = taken[k][n] + 1]
      BY <1>7, <2>1
    <3>2. taken[k][n] \in Nat
      BY <1>2, <1>4
    <3>3. taken' \in [Keys -> [1..MaxPackets -> Nat]]
      BY <1>2, <1>4, <3>1, <3>2
    <3>4. \A q \in Keys : \A i \in 1..MaxPackets :
            taken'[q][i] = IF q = k /\ i = n THEN taken[k][n] + 1 ELSE taken[q][i]
      BY <1>2, <1>4, <3>1
    <3>5. taken[k][n] + 1 > 0
      BY <3>2
    <3> QED BY <1>2, <3>3, <3>4, <3>5
  <2>2. CASE ~HasntBeenSeen(k, id, tv)
    BY <1>4, <1>7, <2>2
  <2> QED BY <2>1, <2>2
<1>9a. arrivals' \in [Keys -> [1..MaxPackets -> Nat]] /\ TakenFirst'
  <2>1. CASE arrivals' = arrivals
    <3>1. ASSUME NEW q \in Keys, NEW i \in 1..MaxPackets
          PROVE  arrivals[q][i] <= taken'[q][i]
      <4>1. /\ arrivals[q][i] \in Nat /\ taken[q][i] \in Nat /\ arrivals[q][i] <= taken[q][i]
            /\ taken[k][n] \in Nat
        BY <1>1, <1>2, <1>4 DEF TakenFirst
      <4>2. taken'[q][i] = taken[q][i] \/ taken'[q][i] = taken[q][i] + 1
        BY <1>2, <1>4, <1>7
      <4> QED BY <4>1, <4>2
    <3> QED BY <1>4, <2>1, <3>1 DEF TakenFirst
  <2>2. CASE /\ HasntBeenSeen(k, id, tv)
             /\ arrivals' = [arrivals EXCEPT ![k][n] = arrivals[k][n] + 1]
    <3>1. arrivals[k][n] \in Nat /\ taken[k][n] \in Nat /\ arrivals[k][n] <= taken[k][n]
      BY <1>1, <1>2, <1>4 DEF TakenFirst
    <3>2. arrivals' \in [Keys -> [1..MaxPackets -> Nat]]
      BY <1>2, <1>4, <2>2, <3>1
    <3>3. ASSUME NEW q \in Keys, NEW i \in 1..MaxPackets
          PROVE  arrivals'[q][i] <= taken'[q][i]
      <4>1. CASE q = k /\ i = n
        <5>1. arrivals'[q][i] = arrivals[k][n] + 1 /\ taken'[q][i] = taken[k][n] + 1
          BY <1>2, <1>4, <1>7, <2>2, <4>1
        <5> QED BY <3>1, <5>1
      <4>2. CASE ~(q = k /\ i = n)
        <5>1. arrivals'[q][i] = arrivals[q][i] /\ taken'[q][i] = taken[q][i]
          BY <1>2, <1>4, <1>7, <2>2, <4>2
        <5> QED BY <1>1, <5>1 DEF TakenFirst
      <4> QED BY <4>1, <4>2
    <3> QED BY <3>2, <3>3 DEF TakenFirst
  <2> QED BY <1>7a, <2>1, <2>2
<1>10. IngressInv'
  BY <1>1, <1>3, IngressUnchanged DEF IngressInv, IngressTypeOK
<1>11. TypeOK'
  <2>1. wire' \subseteq [key : Keys, n : 1..MaxPackets, vlan_id : UInt16]
    BY <1>1, <1>3 DEF TypeOK
  <2>2. IngressTypeOK'
    BY <1>10 DEF IngressInv
  <2> QED BY <1>1, <1>3, <1>8, <1>9, <1>9a, <2>1, <2>2 DEF TypeOK
<1>12. Times'
  BY <1>1, <1>3 DEF Times
<1>13. OnWire'
  BY <1>1, <1>3 DEF OnWire, SentAt
<1>14. Arrived'
  <2> SUFFICES ASSUME NEW q \in Keys, NEW i \in 1..MaxPackets, taken'[q][i] > 0
               PROVE  i <= Len(sent[q]) /\ sentAt[q][i] + MinDelay <= now
    BY <1>3 DEF Arrived
  <2>1. CASE taken[q][i] > 0
    BY <1>1, <2>1 DEF Arrived
  <2>2. CASE q = k /\ i = n
    BY <1>2, <1>5, <2>2
  <2> QED BY <1>9, <2>1, <2>2
<1>15. Stamped'
  <2> SUFFICES ASSUME NEW q \in Keys, NEW g \in Groups, NEW s \in Numbers
               PROVE  \/ Stamp(q, g, s)' = 0
                      \/ \E m \in 1..Len(sent[q]) :
                           /\ Slot(sent[q][m]) = <<g, s>>
                           /\ taken'[q][m] > 0
                           /\ Stamp(q, g, s)' <= sentAt[q][m] + MaxDelay + Jump
    BY <1>3 DEF Stamped, Slot, group_id, packet_number
  <2>1. CASE HasntBeenSeen(k, id, tv) /\ q = k /\ g = group_id(id) /\ s = packet_number(id)
    <3>1. Stamp(q, g, s)' = tv
      BY <1>8, <2>1
    <3>2. Slot(sent[q][n]) = <<g, s>> /\ n \in 1..Len(sent[q])
      BY <1>2, <2>1 DEF Slot
    <3>3. taken'[q][n] > 0
      BY <1>9, <2>1
    <3>4. tv <= sentAt[q][n] + MaxDelay + Jump
      BY <1>2, <1>4, <2>1
    <3> QED BY <3>1, <3>2, <3>3, <3>4
  <2>2. CASE ~(HasntBeenSeen(k, id, tv) /\ q = k /\ g = group_id(id) /\ s = packet_number(id))
    <3>1. Stamp(q, g, s)' = Stamp(q, g, s)
      BY <1>8, <2>2
    <3>2. CASE Stamp(q, g, s) = 0
      BY <3>1, <3>2
    <3>3. CASE Stamp(q, g, s) # 0
      <4>1. PICK m \in 1..Len(sent[q]) :
              /\ Slot(sent[q][m]) = <<g, s>>
              /\ taken[q][m] > 0
              /\ Stamp(q, g, s) <= sentAt[q][m] + MaxDelay + Jump
        BY <1>1, <3>3 DEF Stamped
      <4>2. m \in 1..MaxPackets
        <5>1. Len(sent[q]) \in Nat /\ Len(sent[q]) <= MaxPackets /\ MaxPackets \in Nat
          BY <1>1, IngressBounds DEF TypeOK, IngressTypeOK
        <5> QED BY <5>1
      <4>3. taken'[q][m] > 0
        BY <1>9, <4>1, <4>2
      <4> QED BY <3>1, <4>1, <4>3
    <3> QED BY <3>2, <3>3
  <2> QED BY <2>1, <2>2
<1> QED BY <1>10, <1>11, <1>12, <1>13, <1>14, <1>15, <1>9a DEF BasicInv

(***************************************************************************)
(* The steps of the environment.                                           *)
(***************************************************************************)
LEMMA BasicLose ==
  ASSUME BasicInv, NEW c \in wire, Lose(c)
  PROVE  BasicInv'
<1>1. TypeOK /\ IngressInv /\ Times /\ OnWire /\ Arrived /\ TakenFirst /\ Stamped
  BY DEF BasicInv
<1>2. /\ wispringress' = wispringress /\ sent' = sent /\ epoch' = epoch /\ restarts' = restarts
      /\ now' = now /\ offset' = offset /\ sentAt' = sentAt
      /\ taken' = taken /\ arrivals' = arrivals
      /\ ingressUpAt' = ingressUpAt /\ egressUpAt' = egressUpAt /\ wisprmirt' = wisprmirt
      /\ wire' = wire \ {c} /\ lost' = lost \cup {c}
  BY DEF Lose, ingressVars
<1>3. IngressInv'
  BY <1>1, <1>2, IngressUnchanged DEF IngressInv, IngressTypeOK
<1>4. TypeOK'
  BY <1>1, <1>2, <1>3 DEF TypeOK, IngressInv, EgressTypeOK
<1>5. Times' /\ Arrived' /\ TakenFirst'
  BY <1>1, <1>2 DEF Times, Arrived, TakenFirst
<1>6. OnWire'
  BY <1>1, <1>2 DEF OnWire, SentAt
<1>7. Stamped'
  BY <1>1, <1>2 DEF Stamped, Stamp, get_or_add_mirror_session, Slot, group_id, packet_number
<1> QED BY <1>3, <1>4, <1>5, <1>6, <1>7 DEF BasicInv

LEMMA BasicTick ==
  ASSUME BasicInv, Tick
  PROVE  BasicInv'
<1>1. TypeOK /\ IngressInv /\ Times /\ OnWire /\ Arrived /\ TakenFirst /\ Stamped
  BY DEF BasicInv
<1>2. /\ wispringress' = wispringress /\ sent' = sent /\ epoch' = epoch /\ restarts' = restarts
      /\ now' = now + 1 /\ offset' = offset /\ sentAt' = sentAt
      /\ taken' = taken /\ arrivals' = arrivals
      /\ ingressUpAt' = ingressUpAt /\ egressUpAt' = egressUpAt /\ wisprmirt' = wisprmirt
      /\ wire' = wire /\ lost' = lost
  BY DEF Tick, ingressVars
<1>3. IngressInv'
  BY <1>1, <1>2, IngressUnchanged DEF IngressInv, IngressTypeOK
<1>4. TypeOK'
  BY <1>1, <1>2, <1>3 DEF TypeOK, IngressInv, EgressTypeOK
<1>5. now \in Nat /\ \A k \in Keys : \A n \in 1..Len(sent[k]) : sentAt[k][n] \in Nat
  BY <1>1 DEF TypeOK
<1>6. Times'
  <2>1. now' >= TIMEOUT + 1
    BY <1>1, <1>2, <1>5, TimeoutAssumption DEF Times
  <2>2. ASSUME NEW k \in Keys, NEW n \in 1..Len(sent[k]) PROVE sentAt[k][n] <= now'
    BY <1>1, <1>2, <1>5 DEF Times
  <2> QED BY <1>1, <1>2, <2>1, <2>2 DEF Times
<1>7. Arrived'
  <2> SUFFICES ASSUME NEW k \in Keys, NEW n \in 1..MaxPackets, taken[k][n] > 0
               PROVE  n <= Len(sent[k]) /\ sentAt[k][n] + MinDelay <= now + 1
    BY <1>2 DEF Arrived
  <2>1. n <= Len(sent[k]) /\ sentAt[k][n] + MinDelay <= now
    BY <1>1 DEF Arrived
  <2>2. n \in 1..Len(sent[k])
    BY <1>1, <2>1 DEF TypeOK, IngressTypeOK
  <2> QED BY <1>5, <2>1, <2>2, TunnelConstants
<1>8. OnWire'
  <2> SUFFICES ASSUME NEW c \in wire
               PROVE  /\ c.n \in 1..Len(sent[c.key])
                      /\ c.vlan_id \in CopyTags(sent[c.key][c.n])
                      /\ now + 1 <= SentAt(c) + MaxDelay
    BY <1>2 DEF OnWire, SentAt
  <2>1. now < SentAt(c) + MaxDelay /\ SentAt(c) \in Nat
    BY CopyFacts DEF Tick
  <2> QED BY <1>1, <1>5, <2>1, TunnelConstants DEF OnWire
<1>9. Stamped' /\ TakenFirst'
  BY <1>1, <1>2 DEF Stamped, TakenFirst, Stamp, get_or_add_mirror_session, Slot, group_id,
                    packet_number
<1> QED BY <1>3, <1>4, <1>6, <1>7, <1>8, <1>9 DEF BasicInv

LEMMA BasicAdjustClock ==
  ASSUME BasicInv, AdjustClock
  PROVE  BasicInv'
<1>1. TypeOK /\ IngressInv /\ Times /\ OnWire /\ Arrived /\ TakenFirst /\ Stamped
  BY DEF BasicInv
<1>2. /\ wispringress' = wispringress /\ sent' = sent /\ epoch' = epoch /\ restarts' = restarts
      /\ now' = now /\ offset' \in 0..Jump /\ sentAt' = sentAt
      /\ taken' = taken /\ arrivals' = arrivals
      /\ ingressUpAt' = ingressUpAt /\ egressUpAt' = egressUpAt /\ wisprmirt' = wisprmirt
      /\ wire' = wire /\ lost' = lost
  BY DEF AdjustClock, ingressVars
<1>3. IngressInv'
  BY <1>1, <1>2, IngressUnchanged DEF IngressInv, IngressTypeOK
<1>4. TypeOK'
  BY <1>1, <1>2, <1>3 DEF TypeOK, IngressInv, EgressTypeOK
<1>5. Times' /\ Arrived' /\ TakenFirst'
  BY <1>1, <1>2 DEF Times, Arrived, TakenFirst
<1>6. OnWire'
  BY <1>1, <1>2 DEF OnWire, SentAt
<1>7. Stamped'
  BY <1>1, <1>2 DEF Stamped, Stamp, get_or_add_mirror_session, Slot, group_id, packet_number
<1> QED BY <1>3, <1>4, <1>5, <1>6, <1>7 DEF BasicInv

LEMMA BasicRestartIngress ==
  ASSUME BasicInv, RestartIngress
  PROVE  BasicInv'
<1>1. TypeOK /\ IngressInv /\ Times /\ OnWire /\ Arrived /\ TakenFirst /\ Stamped
  BY DEF BasicInv
<1>2. /\ sent' = sent /\ epoch' = [k \in Keys |-> Len(sent[k])]
      /\ now' = now /\ offset' = offset /\ sentAt' = sentAt
      /\ taken' = taken /\ arrivals' = arrivals
      /\ ingressUpAt' = now + RestartTime /\ egressUpAt' = egressUpAt /\ wisprmirt' = wisprmirt
      /\ wire' = wire /\ lost' = lost
  BY DEF RestartIngress, RestartTables
<1>3. IngressInv'
  BY <1>1, RestartTablesInv DEF RestartIngress
<1>4. TypeOK'
  <2>1. now + RestartTime \in Nat
    BY <1>1, TunnelConstants DEF TypeOK
  <2> QED BY <1>1, <1>2, <1>3, <2>1 DEF TypeOK, IngressInv, EgressTypeOK
<1>5. Times'
  <2>1. ASSUME NEW k \in Keys, NEW n \in 1..epoch'[k]
        PROVE  sentAt[k][n] + RestartTime <= now + RestartTime
    <3>1. n \in 1..Len(sent[k])
      BY <1>2
    <3>2. sentAt[k][n] \in Nat /\ now \in Nat /\ sentAt[k][n] <= now
      BY <1>1, <3>1 DEF TypeOK, Times
    <3> QED BY <3>2, TunnelConstants
  <2> QED BY <1>1, <1>2, <2>1 DEF Times
<1>6. Arrived' /\ TakenFirst'
  BY <1>1, <1>2 DEF Arrived, TakenFirst
<1>7. OnWire'
  BY <1>1, <1>2 DEF OnWire, SentAt
<1>8. Stamped'
  BY <1>1, <1>2 DEF Stamped, Stamp, get_or_add_mirror_session, Slot, group_id, packet_number
<1> QED BY <1>3, <1>4, <1>5, <1>6, <1>7, <1>8 DEF BasicInv

LEMMA BasicRestartEgress ==
  ASSUME BasicInv, RestartEgress
  PROVE  BasicInv'
<1>1. TypeOK /\ IngressInv /\ Times /\ OnWire /\ Arrived /\ TakenFirst /\ Stamped
  BY DEF BasicInv
<1>2. /\ wispringress' = wispringress /\ sent' = sent /\ epoch' = epoch
      /\ restarts' = restarts + 1 /\ restarts < MaxRestarts
      /\ now' = now /\ offset' = offset /\ sentAt' = sentAt
      /\ taken' = taken /\ arrivals' = arrivals
      /\ ingressUpAt' = ingressUpAt /\ egressUpAt' = now + RestartTime
      /\ wisprmirt' = NoMirrorSessions
      /\ wire' = wire /\ lost' = lost
  BY DEF RestartEgress
<1>3. IngressInv'
  <2>1. restarts' \in 0..MaxRestarts
    BY <1>1, <1>2, IngressBounds DEF IngressInv, IngressTypeOK
  <2> QED BY <1>1, <1>2, <2>1, IngressUnchanged
<1>4. TypeOK'
  <2>1. now + RestartTime \in Nat
    BY <1>1, TunnelConstants DEF TypeOK
  <2>2. EgressTypeOK'
    <3>1. wisprmirt' \in [{} -> [Groups -> [Numbers -> Nat]]]
      BY <1>2 DEF NoMirrorSessions
    <3> QED BY <3>1 DEF EgressTypeOK
  <2> QED BY <1>1, <1>2, <1>3, <2>1, <2>2 DEF TypeOK, IngressInv
<1>5. Times' /\ Arrived' /\ TakenFirst'
  BY <1>1, <1>2 DEF Times, Arrived, TakenFirst
<1>6. OnWire'
  BY <1>1, <1>2 DEF OnWire, SentAt
<1>7. Stamped'
  <2> SUFFICES ASSUME NEW k \in Keys, NEW g \in Groups, NEW s \in Numbers
               PROVE  Stamp(k, g, s)' = 0
    BY DEF Stamped
  <2> QED BY <1>2 DEF NoMirrorSessions, Stamp, get_or_add_mirror_session, ZeroTable
<1> QED BY <1>3, <1>4, <1>5, <1>6, <1>7 DEF BasicInv

LEMMA BasicStep == BasicInv /\ [Next]_vars => BasicInv'
<1> SUFFICES ASSUME BasicInv, [Next]_vars PROVE BasicInv'
  OBVIOUS
<1>1. CASE \E k \in Keys : Send(k)
  BY <1>1, BasicSend
<1>2. CASE \E c \in wire : Receive(c)
  BY <1>2, BasicReceive
<1>3. CASE \E c \in wire : Lose(c)
  BY <1>3, BasicLose
<1>4. CASE Tick
  BY <1>4, BasicTick
<1>5. CASE AdjustClock
  BY <1>5, BasicAdjustClock
<1>6. CASE RestartIngress
  BY <1>6, BasicRestartIngress
<1>7. CASE RestartEgress
  BY <1>7, BasicRestartEgress
<1>8. CASE UNCHANGED vars
  <2>1. /\ wispringress' = wispringress /\ sent' = sent /\ epoch' = epoch /\ restarts' = restarts
        /\ now' = now /\ offset' = offset /\ sentAt' = sentAt
        /\ taken' = taken /\ arrivals' = arrivals
        /\ ingressUpAt' = ingressUpAt /\ egressUpAt' = egressUpAt /\ wisprmirt' = wisprmirt
        /\ wire' = wire /\ lost' = lost
    BY <1>8 DEF vars, ingressVars, fabricVars
  <2>2. TypeOK' /\ IngressInv'
    BY <2>1, IngressUnchanged DEF BasicInv, TypeOK, IngressInv, IngressTypeOK, EgressTypeOK
  <2>3. Times' /\ Arrived' /\ TakenFirst' /\ OnWire'
    BY <2>1 DEF BasicInv, Times, Arrived, TakenFirst, OnWire, SentAt
  <2>4. Stamped'
    BY <2>1 DEF BasicInv, Stamped, Stamp, get_or_add_mirror_session, Slot, group_id, packet_number
  <2> QED BY <2>2, <2>3, <2>4 DEF BasicInv
<1> QED BY <1>1, <1>2, <1>3, <1>4, <1>5, <1>6, <1>7, <1>8 DEF Next

LEMMA BasicInvariant == Spec => []BasicInv
BY BasicInit, BasicStep, PTL DEF Spec

(***************************************************************************)
(* Every variable of the tunnel keeps its type, for every timing.          *)
(***************************************************************************)
THEOREM TypeCorrect == Spec => []TypeOK
<1>1. BasicInv => TypeOK
  BY DEF BasicInv
<1> QED BY BasicInvariant, <1>1, PTL

-----------------------------------------------------------------------------
(***************************************************************************)
(* What Receive does to the number of copies taken of every packet.            *)
(***************************************************************************)
LEMMA ReceiveTakes ==
  ASSUME BasicInv, NEW c \in wire, Receive(c)
  PROVE  /\ taken' = IF HasntBeenSeen(c.key, c.vlan_id, now + offset)
                           THEN [taken EXCEPT ![c.key][c.n] = taken[c.key][c.n] + 1]
                           ELSE taken
         /\ taken[c.key][c.n] \in Nat
         /\ \A q \in Keys : \A i \in 1..MaxPackets :
              taken'[q][i] =
                IF /\ HasntBeenSeen(c.key, c.vlan_id, now + offset)
                   /\ q = c.key /\ i = c.n
                  THEN taken[q][i] + 1
                  ELSE taken[q][i]
<1>1. c.key \in Keys /\ c.n \in 1..MaxPackets /\ wispr_mode(c.vlan_id) # 3
  BY CopyFacts
<1>2. taken \in [Keys -> [1..MaxPackets -> Nat]]
  BY DEF BasicInv, TypeOK
<1>3. taken' = IF HasntBeenSeen(c.key, c.vlan_id, now + offset)
                    THEN [taken EXCEPT ![c.key][c.n] = taken[c.key][c.n] + 1]
                    ELSE taken
  BY <1>1 DEF Receive, send_packet_raw, PassesOn, gettimeofday
<1> QED BY <1>1, <1>2, <1>3

(***************************************************************************)
(* A copy whose packet was delivered is recognised.                        *)
(***************************************************************************)
LEMMA SecondCopyDropped ==
  ASSUME SkewBounded, Mirrored, BasicInv, Seen,
         NEW c \in wire, Receive(c), taken[c.key][c.n] > 0
  PROVE  ~HasntBeenSeen(c.key, c.vlan_id, now + offset)
<1>1. /\ SentAt(c) \in Nat /\ now <= SentAt(c) + MaxDelay
      /\ c.key \in Keys /\ group_id(c.vlan_id) \in Groups /\ packet_number(c.vlan_id) \in Numbers
  BY CopyFacts
<1>2. now \in Nat /\ offset \in Nat /\ offset <= Jump /\ egressUpAt \in Nat /\ EgressTypeOK
  BY TunnelConstants DEF BasicInv, TypeOK
<1>3. CopyStamp(c) \in Nat
  BY <1>1, <1>2, StampType DEF CopyStamp
<1>4. now >= egressUpAt
  BY DEF Receive
<1>5. CopyStamp(c) >= SentAt(c) + MinDelay
  <2>1. ~(egressUpAt > SentAt(c) + MaxDelay)
    BY <1>1, <1>2, <1>4, TunnelConstants
  <2> QED BY <2>1 DEF Seen
<1>6. (now + offset) - CopyStamp(c) <= TIMEOUT
  BY <1>1, <1>2, <1>3, <1>5, TunnelConstants, TimeoutAssumption DEF SkewBounded, Skew
<1> QED BY <1>2, <1>3, <1>6, TimeoutAssumption
        DEF HasntBeenSeen, time_diff, CopyStamp, Mirrored

LEMMA SeenStep ==
  ASSUME RestartTime > Skew, BasicInv, Seen, [Next]_vars
  PROVE  Seen'
<1> SUFFICES ASSUME NEW d \in wire', taken'[d.key][d.n] > 0
             PROVE  \/ CopyStamp(d)' >= SentAt(d)' + MinDelay
                    \/ egressUpAt' > SentAt(d)' + MaxDelay
  BY DEF Seen
<1>1. CASE \E k \in Keys : Send(k)
  <2>1. PICK k \in Keys : Send(k)
    BY <1>1
  <2>2. UNCHANGED <<wisprmirt, taken, egressUpAt>>
    BY <2>1 DEF Send
  <2>3. CASE d \in wire
    <3>1. d.key \in Keys /\ d.n \in 1..Len(sent[d.key])
      BY <2>3, CopyFacts
    <3>2. SentAt(d)' = SentAt(d)
      BY <2>1, <3>1, SendFacts DEF SentAt, BasicInv
    <3>3. CopyStamp(d)' = CopyStamp(d)
      BY <2>2 DEF CopyStamp, Stamp, get_or_add_mirror_session, group_id, packet_number
    <3> QED BY <2>2, <2>3, <3>2, <3>3 DEF Seen
  <2>4. CASE d \notin wire
    <3>1. d.key = k /\ d.n = Len(sent[k]) + 1
      BY <2>1, <2>4, SendCopies DEF Copy
    <3>2. Len(sent[k]) \in Nat /\ Len(sent[k]) + 1 <= MaxPackets
      BY <2>1, SendFacts DEF BasicInv
    <3>3. d.n \in 1..MaxPackets /\ ~(d.n <= Len(sent[k]))
      BY <3>1, <3>2, IngressBounds
    <3> QED BY <2>2, <3>1, <3>3 DEF BasicInv, Arrived
  <2> QED BY <2>3, <2>4
<1>2. CASE \E c \in wire : Receive(c)
  <2>1. PICK c \in wire : Receive(c)
    BY <1>2
  <2>2. d \in wire /\ sentAt' = sentAt /\ egressUpAt' = egressUpAt
    BY <2>1 DEF Receive
  <2>3. /\ d.key \in Keys /\ d.n \in 1..MaxPackets /\ d.n \in 1..Len(sent[d.key])
        /\ group_id(d.vlan_id) \in Groups /\ packet_number(d.vlan_id) \in Numbers
        /\ SentAt(d) \in Nat /\ Slot(d.vlan_id) = Slot(sent[d.key][d.n])
        /\ SentAt(d) = sentAt[d.key][d.n]
    BY <2>2, CopyFacts
  <2>4. /\ c.key \in Keys /\ c.n \in 1..MaxPackets
        /\ group_id(c.vlan_id) \in Groups /\ packet_number(c.vlan_id) \in Numbers
        /\ wispr_mode(c.vlan_id) # 3 /\ Slot(c.vlan_id) = Slot(sent[c.key][c.n])
        /\ SentAt(c) \in Nat /\ SentAt(c) = sentAt[c.key][c.n]
    BY CopyFacts
  <2>5. /\ now \in Nat /\ offset \in Nat /\ now + offset \in Nat /\ EgressTypeOK
        /\ taken \in [Keys -> [1..MaxPackets -> Nat]]
    BY TunnelConstants DEF BasicInv, TypeOK
  <2>6. process_wispr0_vlan(c.key, c.vlan_id, now + offset) /\ SentAt(c) + MinDelay <= now
    BY <2>1 DEF Receive, gettimeofday
  <2>7. CopyStamp(d)' = IF /\ HasntBeenSeen(c.key, c.vlan_id, now + offset)
                           /\ d.key = c.key /\ group_id(d.vlan_id) = group_id(c.vlan_id)
                           /\ packet_number(d.vlan_id) = packet_number(c.vlan_id)
                          THEN now + offset ELSE CopyStamp(d)
    <3>1. Stamp(d.key, group_id(d.vlan_id), packet_number(d.vlan_id))'
            = IF /\ HasntBeenSeen(c.key, c.vlan_id, now + offset)
                 /\ d.key = c.key /\ group_id(d.vlan_id) = group_id(c.vlan_id)
                 /\ packet_number(d.vlan_id) = packet_number(c.vlan_id)
                THEN now + offset
                ELSE Stamp(d.key, group_id(d.vlan_id), packet_number(d.vlan_id))
      BY <2>3, <2>4, <2>5, <2>6, ReceiveStamps
    <3> QED BY <3>1 DEF CopyStamp, group_id, packet_number
  <2>8. SentAt(d)' = SentAt(d)
    BY <2>2 DEF SentAt
  <2>9. /\ taken[d.key][d.n] > 0 \/ (/\ HasntBeenSeen(c.key, c.vlan_id, now + offset)
                                         /\ d.key = c.key /\ d.n = c.n)
    BY <2>1, <2>3, ReceiveTakes
  <2>10. SentAt(d) + MinDelay <= now
    <3>1. CASE taken[d.key][d.n] > 0
      BY <2>3, <3>1 DEF BasicInv, Arrived
    <3>2. CASE d.key = c.key /\ d.n = c.n
      BY <2>3, <2>4, <2>6, <3>2
    <3> QED BY <2>9, <3>1, <3>2
  <2>11. CASE CopyStamp(d)' = now + offset
    BY <2>3, <2>5, <2>8, <2>10, <2>11, TunnelConstants
  <2>12. CASE CopyStamp(d)' # now + offset
    <3>1. CopyStamp(d)' = CopyStamp(d)
      BY <2>7, <2>12
    <3>2. taken[d.key][d.n] > 0
      <4>1. ASSUME HasntBeenSeen(c.key, c.vlan_id, now + offset), d.key = c.key, d.n = c.n
            PROVE  FALSE
        <5>1. Slot(d.vlan_id) = Slot(c.vlan_id)
          BY <2>3, <2>4, <4>1
        <5>2. group_id(d.vlan_id) = group_id(c.vlan_id)
              /\ packet_number(d.vlan_id) = packet_number(c.vlan_id)
          BY <5>1 DEF Slot
        <5> QED BY <2>7, <2>12, <4>1, <5>2
      <4> QED BY <2>9, <4>1
    <3> QED BY <2>2, <2>8, <3>1, <3>2 DEF Seen
  <2> QED BY <2>11, <2>12
<1>3. CASE RestartEgress
  <2>1. /\ d \in wire /\ sentAt' = sentAt /\ egressUpAt' = now + RestartTime
        /\ taken' = taken
    BY <1>3 DEF RestartEgress
  <2>2. /\ d.key \in Keys /\ d.n \in 1..MaxPackets /\ SentAt(d) \in Nat
        /\ SentAt(d) = sentAt[d.key][d.n]
    BY <2>1, CopyFacts
  <2>3. SentAt(d) + MinDelay <= now /\ now \in Nat
    BY <2>1, <2>2 DEF BasicInv, Arrived, TypeOK
  <2>4. SentAt(d)' = SentAt(d)
    BY <2>1 DEF SentAt
  <2>5. now + RestartTime > SentAt(d) + MaxDelay
    BY <2>2, <2>3, TunnelConstants DEF Skew
  <2> QED BY <2>1, <2>4, <2>5
<1>4. ASSUME wire' \subseteq wire, UNCHANGED <<wisprmirt, sentAt, taken, egressUpAt>>
      PROVE  \/ CopyStamp(d)' >= SentAt(d)' + MinDelay
             \/ egressUpAt' > SentAt(d)' + MaxDelay
  <2>1. SentAt(d)' = SentAt(d) /\ d \in wire
    BY <1>4 DEF SentAt
  <2>2. CopyStamp(d)' = CopyStamp(d)
    BY <1>4 DEF CopyStamp, Stamp, get_or_add_mirror_session, group_id, packet_number
  <2> QED BY <1>4, <2>1, <2>2 DEF Seen
<1>5. CASE \E c \in wire : Lose(c)
  BY <1>4, <1>5 DEF Lose
<1>6. CASE Tick
  BY <1>4, <1>6 DEF Tick
<1>7. CASE AdjustClock
  BY <1>4, <1>7 DEF AdjustClock
<1>8. CASE RestartIngress
  BY <1>4, <1>8 DEF RestartIngress
<1>9. CASE UNCHANGED vars
  BY <1>4, <1>9 DEF vars, fabricVars
<1> QED BY <1>1, <1>2, <1>3, <1>5, <1>6, <1>7, <1>8, <1>9 DEF Next

LEMMA TakenOnceStep ==
  ASSUME SkewBounded, Mirrored, BasicInv, Seen, TakenOnce, [Next]_vars
  PROVE  TakenOnce'
<1> SUFFICES ASSUME NEW q \in Keys, NEW i \in 1..Len(sent'[q])
             PROVE  taken'[q][i] <= 1
  BY DEF TakenOnce
<1>1. CASE \E k \in Keys : Send(k)
  <2>1. PICK k \in Keys : Send(k)
    BY <1>1
  <2>2. taken' = taken
    BY <2>1 DEF Send
  <2>3. i \in 1..Len(sent[q]) \/ (q = k /\ i = Len(sent[k]) + 1)
    BY <2>1, SendFacts DEF BasicInv
  <2>4. CASE i \in 1..Len(sent[q])
    BY <2>2, <2>4 DEF TakenOnce
  <2>5. CASE q = k /\ i = Len(sent[k]) + 1
    <3>1. Len(sent[k]) \in Nat /\ Len(sent[k]) + 1 <= MaxPackets
      BY <2>1, SendFacts DEF BasicInv
    <3>2. i \in 1..MaxPackets /\ ~(i <= Len(sent[q]))
      BY <2>5, <3>1, IngressBounds
    <3>3. taken[q][i] \in Nat /\ ~(taken[q][i] > 0)
      BY <3>2 DEF BasicInv, Arrived, TypeOK
    <3> QED BY <2>2, <3>3
  <2> QED BY <2>3, <2>4, <2>5
<1>2. CASE \E c \in wire : Receive(c)
  <2>1. PICK c \in wire : Receive(c)
    BY <1>2
  <2>2. i \in 1..Len(sent[q])
    BY <2>1 DEF Receive, ingressVars
  <2>3. i \in 1..MaxPackets
    <3>1. Len(sent[q]) \in Nat /\ Len(sent[q]) <= MaxPackets
      BY DEF BasicInv, TypeOK, IngressTypeOK
    <3> QED BY <2>2, <3>1, IngressBounds
  <2>4. taken[q][i] <= 1 /\ taken[q][i] \in Nat
    BY <2>2, <2>3 DEF TakenOnce, BasicInv, TypeOK
  <2>5. CASE HasntBeenSeen(c.key, c.vlan_id, now + offset) /\ q = c.key /\ i = c.n
    <3>1. ~(taken[c.key][c.n] > 0)
      BY <2>1, <2>5, SecondCopyDropped
    <3>2. taken'[q][i] = taken[q][i] + 1
      BY <2>1, <2>3, <2>5, ReceiveTakes
    <3> QED BY <2>4, <2>5, <3>1, <3>2
  <2>6. CASE ~(HasntBeenSeen(c.key, c.vlan_id, now + offset) /\ q = c.key /\ i = c.n)
    BY <2>1, <2>3, <2>4, <2>6, ReceiveTakes
  <2> QED BY <2>5, <2>6
<1>3. CASE UNCHANGED <<sent, taken>>
  BY <1>3 DEF TakenOnce
<1>4. Next \/ UNCHANGED vars
      => \/ \E k \in Keys : Send(k)
         \/ \E c \in wire : Receive(c)
         \/ UNCHANGED <<sent, taken>>
  BY DEF Next, Lose, Tick, AdjustClock, RestartIngress, RestartTables, RestartEgress,
         vars, fabricVars, ingressVars
<1> QED BY <1>1, <1>2, <1>3, <1>4

LEMMA SeenInvariant ==
  ASSUME SkewBounded, RestartTime > Skew, Mirrored
  PROVE  Spec => [](Seen /\ TakenOnce)
<1>1. Init => Seen /\ TakenOnce
  BY DEF Init, IngressInit, Seen, TakenOnce
<1>2. BasicInv /\ Seen /\ TakenOnce /\ [Next]_vars => Seen' /\ TakenOnce'
  BY SeenStep, TakenOnceStep
<1> QED BY BasicInvariant, <1>1, <1>2, PTL DEF Spec

(***************************************************************************)
(* No packet is delivered twice, if the copies of a packet are never       *)
(* further apart than TIMEOUT and a restart takes longer than they are     *)
(* apart: every step that takes a packet for new finds one that was not    *)
(* taken before, because of the stamp the first copy left, and a packet    *)
(* arrives at most as often as it is taken.                                *)
(***************************************************************************)
THEOREM NoDuplicates ==
  ASSUME SkewBounded, RestartTime > Skew, Mirrored
  PROVE  Spec => []AtMostOnce
<1>1. ASSUME BasicInv, TakenOnce PROVE AtMostOnce
  <2> SUFFICES ASSUME NEW k \in Keys, NEW n \in 1..Len(sent[k]) PROVE arrivals[k][n] <= 1
    BY DEF AtMostOnce
  <2>1. Len(sent[k]) \in Nat /\ Len(sent[k]) <= MaxPackets
    BY <1>1 DEF BasicInv, TypeOK, IngressTypeOK
  <2>2. n \in 1..MaxPackets
    BY <2>1, IngressBounds
  <2>3. arrivals[k][n] \in Nat /\ taken[k][n] \in Nat /\ arrivals[k][n] <= taken[k][n]
    BY <1>1, <2>2 DEF BasicInv, TypeOK, TakenFirst
  <2>4. taken[k][n] <= 1
    BY <1>1 DEF TakenOnce
  <2> QED BY <2>3, <2>4
<1> QED BY BasicInvariant, SeenInvariant, <1>1, PTL

-----------------------------------------------------------------------------
(***************************************************************************)
(* Packets that share a slot are Reuse apart: within one life of the       *)
(* ingress daemon because a slot comes back after Window packets only, and *)
(* across a restart because the restart takes that long.                   *)
(***************************************************************************)
LEMMA IngressInvWindow == IngressInv => WindowDistinct
BY IngressInvImplies

LEMMA SpacedStep ==
  ASSUME RestartTime >= Reuse, BasicInv, BasicInv', Spaced, [Next]_vars
  PROVE  Spaced'
<1> SUFFICES ASSUME NEW q \in Keys, NEW m \in 1..Len(sent'[q]), NEW n \in 1..Len(sent'[q]),
                    m < n, Slot(sent'[q][m]) = Slot(sent'[q][n])
             PROVE  sentAt'[q][m] + Reuse <= sentAt'[q][n]
  BY DEF Spaced, Slot, group_id, packet_number
<1>1. CASE \E k \in Keys : Send(k)
  <2>1. PICK k \in Keys : Send(k)
    BY <1>1
  <2>2. /\ Len(sent[k]) \in Nat
        /\ \A p \in Keys : \A i \in 1..Len(sent[p]) :
             sent'[p][i] = sent[p][i] /\ sentAt'[p][i] = sentAt[p][i]
        /\ \A p \in Keys : \A i \in 1..Len(sent'[p]) :
             i \in 1..Len(sent[p]) \/ (p = k /\ i = Len(sent[k]) + 1)
        /\ sentAt'[k][Len(sent[k]) + 1] = now
    BY <2>1, SendFacts DEF BasicInv
  <2>3. Len(sent[q]) \in Nat
    BY DEF BasicInv, TypeOK, IngressTypeOK
  <2>4. CASE n \in 1..Len(sent[q])
    <3>1. m \in 1..Len(sent[q])
      BY <2>3, <2>4
    <3> QED BY <2>2, <2>4, <3>1 DEF Spaced
  <2>5. CASE q = k /\ n = Len(sent[k]) + 1
    <3>1. m \in 1..Len(sent[k]) /\ m \in Nat
      BY <2>2, <2>5
    <3>2. sentAt'[q][m] = sentAt[k][m] /\ sentAt'[q][n] = now
      BY <2>2, <2>5, <3>1
    <3>3. /\ sentAt[k] \in Seq(Nat) /\ Len(sentAt[k]) = Len(sent[k]) /\ now \in Nat
          /\ ingressUpAt \in Nat /\ epoch[k] \in Nat
      BY DEF BasicInv, TypeOK, IngressTypeOK
    <3>4. sentAt[k][m] \in Nat
      BY <3>1, <3>3
    <3>5. CASE m <= epoch[k]
      <4>1. m \in 1..epoch[k]
        BY <3>1, <3>3, <3>5
      <4>2. sentAt[k][m] + RestartTime <= ingressUpAt
        BY <4>1 DEF BasicInv, Times
      <4>3. now >= ingressUpAt
        BY <2>1 DEF Send
      <4> QED BY <3>2, <3>3, <3>4, <4>2, <4>3, TunnelConstants
    <3>6. CASE m > epoch[k]
      <4>1. epoch' = epoch
        BY <2>1 DEF Send, process_ingress0
      <4>2. WindowDistinct'
        BY IngressInvWindow, PTL DEF BasicInv
      <4>3. m \in (epoch'[q] + 1)..Len(sent'[q]) /\ n \in (epoch'[q] + 1)..Len(sent'[q])
        BY <2>2, <2>5, <3>1, <3>3, <3>6, <4>1
      <4>4. ~(n - m < Window)
        BY <4>2, <4>3 DEF WindowDistinct, Slot, group_id, packet_number
      <4> DEFINE r == Len(sent[k]) + 1 - Window
      <4>5. r \in 1..Len(sent[k]) /\ m <= r /\ Len(sent[k]) >= Window
        BY <2>2, <2>5, <3>1, <4>4, WindowType
      <4>6. sentAt[k][r] + Reuse <= now
        BY <2>1, <4>5 DEF Send, RateRespected
      <4>7. sentAt[k][m] <= sentAt[k][r] /\ sentAt[k][r] \in Nat
        BY <3>1, <3>3, <4>5 DEF BasicInv, Times
      <4> HIDE DEF r
      <4>8. sentAt[k][m] + Reuse <= now
        <5>1. PICK a \in Nat, b \in Nat : a = sentAt[k][m] /\ b = sentAt[k][r]
          BY <3>4, <4>7
        <5>2. a <= b /\ b + Reuse <= now
          BY <4>6, <4>7, <5>1
        <5>3. a + Reuse <= now
          BY <3>3, <5>2, TunnelConstants
        <5> QED BY <5>1, <5>3
      <4> QED BY <3>2, <4>8
    <3> QED BY <3>1, <3>3, <3>5, <3>6
  <2> QED BY <2>2, <2>4, <2>5
<1>2. CASE UNCHANGED <<sent, sentAt>>
  BY <1>2 DEF Spaced
<1>3. Next \/ UNCHANGED vars
      => (\E k \in Keys : Send(k)) \/ UNCHANGED <<sent, sentAt>>
  BY DEF Next, Receive, Lose, Tick, AdjustClock, RestartIngress, RestartTables, RestartEgress,
         vars, fabricVars, ingressVars
<1> QED BY <1>1, <1>2, <1>3

(***************************************************************************)
(* A copy of a packet that was not delivered finds no recent stamp.        *)
(***************************************************************************)
LEMMA FirstCopyPasses ==
  ASSUME ReuseBounded, BasicInv, Spaced,
         NEW c \in wire, Receive(c), ~(taken[c.key][c.n] > 0)
  PROVE  HasntBeenSeen(c.key, c.vlan_id, now + offset)
<1> DEFINE k == c.key
           n == c.n
           g == group_id(c.vlan_id)
           s == packet_number(c.vlan_id)
<1>1. /\ k \in Keys /\ n \in 1..Len(sent[k]) /\ g \in Groups /\ s \in Numbers
      /\ Slot(c.vlan_id) = Slot(sent[k][n])
      /\ SentAt(c) = sentAt[k][n] /\ sentAt[k][n] \in Nat /\ now <= sentAt[k][n] + MaxDelay
  BY CopyFacts
<1>2. /\ now \in Nat /\ offset \in Nat /\ EgressTypeOK
      /\ now >= TIMEOUT + 1
  BY TunnelConstants DEF BasicInv, TypeOK, Times
<1>3. Stamp(k, g, s) \in Nat
  BY <1>1, <1>2, StampType
<1>4. sentAt[k][n] + MinDelay <= now
  BY <1>1 DEF Receive
<1>5. Slot(sent[k][n]) = <<g, s>>
  BY <1>1 DEF Slot
<1>6. ~(taken[k][n] > 0)
  OBVIOUS
<1>7. HasntBeenSeen(k, c.vlan_id, now + offset)
        <=> (now + offset) - Stamp(k, g, s) > TIMEOUT \/ NUMBEROFPATHS = 1
  BY DEF HasntBeenSeen, time_diff
<1> HIDE DEF k, n, g, s
<1>8. (now + offset) - Stamp(k, g, s) > TIMEOUT
  <2>1. CASE Stamp(k, g, s) = 0
    BY <1>2, <2>1, TimeoutAssumption
  <2>2. CASE Stamp(k, g, s) # 0
    <3>1. PICK m \in 1..Len(sent[k]) :
            /\ Slot(sent[k][m]) = <<g, s>>
            /\ taken[k][m] > 0
            /\ Stamp(k, g, s) <= sentAt[k][m] + MaxDelay + Jump
      BY <1>1, <2>2 DEF BasicInv, Stamped
    <3>2. /\ m # n /\ m \in Nat /\ n \in Nat /\ Slot(sent[k][m]) = Slot(sent[k][n])
          /\ Len(sent[k]) \in Nat /\ Len(sent[k]) <= MaxPackets
      <4>1. Len(sent[k]) \in Nat /\ Len(sent[k]) <= MaxPackets
        BY <1>1 DEF BasicInv, TypeOK, IngressTypeOK
      <4>2. m # n
        BY <1>6, <3>1
      <4>3. m \in Nat /\ n \in Nat
        BY <1>1, <4>1
      <4> QED BY <1>5, <3>1, <4>1, <4>2, <4>3
    <3>3. sentAt[k][m] \in Nat /\ m \in 1..MaxPackets
      <4>1. sentAt[k] \in Seq(Nat) /\ Len(sentAt[k]) = Len(sent[k])
        BY <1>1 DEF BasicInv, TypeOK
      <4> QED BY <3>2, <4>1, IngressBounds
    <3>4. CASE m < n
      <4>1. sentAt[k][m] + Reuse <= sentAt[k][n]
        BY <1>1, <3>2, <3>4 DEF Spaced
      <4>2. PICK am \in Nat, an \in Nat, st \in Nat :
              am = sentAt[k][m] /\ an = sentAt[k][n] /\ st = Stamp(k, g, s)
        BY <1>1, <1>3, <3>3
      <4>3. am + Reuse <= an /\ st <= am + MaxDelay + Jump /\ an + MinDelay <= now
        BY <1>4, <3>1, <4>1, <4>2
      <4>4. (now + offset) - st > TIMEOUT
        BY <1>2, <4>3, TunnelConstants, TimeoutAssumption DEF ReuseBounded, Skew
      <4> QED BY <4>2, <4>4
    <3>5. CASE n < m
      <4>1. sentAt[k][n] + Reuse <= sentAt[k][m]
        BY <1>1, <3>2, <3>5 DEF Spaced
      <4>2. sentAt[k][m] + MinDelay <= now
        BY <1>1, <3>1, <3>3 DEF BasicInv, Arrived
      <4>3. PICK am \in Nat, an \in Nat : am = sentAt[k][m] /\ an = sentAt[k][n]
        BY <1>1, <3>3
      <4>4. an + Reuse <= am /\ am + MinDelay <= now /\ now <= an + MaxDelay
        BY <1>1, <4>1, <4>2, <4>3
      <4>5. FALSE
        BY <1>2, <4>4, TunnelConstants, TimeoutAssumption DEF ReuseBounded, Skew
      <4> QED BY <4>5
    <3> QED BY <3>2, <3>4, <3>5
  <2> QED BY <2>1, <2>2
<1>9. HasntBeenSeen(k, c.vlan_id, now + offset)
  BY <1>7, <1>8
<1> QED BY <1>9 DEF k

LEMMA DropsOnlyTakenStep ==
  ASSUME ReuseBounded, BasicInv, Spaced, DropsOnlyTaken, [Next]_vars
  PROVE  DropsOnlyTaken'
<1> SUFFICES ASSUME NEW q \in Keys, NEW i \in 1..Len(sent'[q]), taken'[q][i] = 0,
                    NEW id \in CopyTags(sent'[q][i])
             PROVE  Copy(q, i, id) \in wire' \cup lost'
  BY DEF DropsOnlyTaken, CopyTags, MirrorTag, Copy
<1>1. CASE \E k \in Keys : Send(k)
  <2>1. PICK k \in Keys : Send(k)
    BY <1>1
  <2>2. taken' = taken /\ wire \subseteq wire' /\ lost \subseteq lost'
    BY <2>1, SendCopies DEF Send
  <2>3. CASE i \in 1..Len(sent[q])
    <3>1. sent'[q][i] = sent[q][i]
      BY <2>1, <2>3, SendFacts DEF BasicInv
    <3>2. Copy(q, i, id) \in wire \cup lost
      BY <2>2, <2>3, <3>1 DEF DropsOnlyTaken
    <3> QED BY <2>2, <3>2
  <2>4. CASE q = k /\ i = Len(sent[k]) + 1
    <3>1. sent'[q][i] = wispringress'[k]
      BY <2>1, <2>4, SendFacts DEF BasicInv
    <3> QED BY <2>1, <2>4, <3>1, SendCopies
  <2> QED BY <2>1, <2>3, <2>4, SendFacts DEF BasicInv
<1>2. CASE \E c \in wire : Receive(c)
  <2>1. PICK c \in wire : Receive(c)
    BY <1>2
  <2>2. sent' = sent /\ wire' = wire \ {c} /\ lost' = lost
    BY <2>1 DEF Receive, ingressVars
  <2>3. i \in 1..MaxPackets
    <3>1. Len(sent[q]) \in Nat /\ Len(sent[q]) <= MaxPackets
      BY DEF BasicInv, TypeOK, IngressTypeOK
    <3> QED BY <2>2, <3>1, IngressBounds
  <2>4. taken[q][i] \in Nat
    BY <2>3 DEF BasicInv, TypeOK
  <2>5. taken[q][i] = 0
    <3>1. taken'[q][i] = taken[q][i] + 1 \/ taken'[q][i] = taken[q][i]
      BY <2>1, <2>3, ReceiveTakes
    <3> QED BY <2>4, <3>1
  <2>6. Copy(q, i, id) \in wire \cup lost
    BY <2>2, <2>5 DEF DropsOnlyTaken
  <2>7. Copy(q, i, id) # c
    <3> SUFFICES ASSUME Copy(q, i, id) = c PROVE FALSE
      OBVIOUS
    <3>1. c.key = q /\ c.n = i
      BY DEF Copy
    <3>2. HasntBeenSeen(c.key, c.vlan_id, now + offset)
      BY <2>1, <2>5, <3>1, FirstCopyPasses
    <3>3. taken'[q][i] = taken[q][i] + 1
      BY <2>1, <2>3, <3>1, <3>2, ReceiveTakes
    <3> QED BY <2>4, <3>3
  <2> QED BY <2>2, <2>6, <2>7
<1>3. CASE \E c \in wire : Lose(c)
  <2>1. PICK c \in wire : Lose(c)
    BY <1>3
  <2>2. sent' = sent /\ taken' = taken /\ wire' = wire \ {c} /\ lost' = lost \cup {c}
    BY <2>1 DEF Lose, ingressVars
  <2> QED BY <2>2 DEF DropsOnlyTaken
<1>4. CASE UNCHANGED <<sent, taken, wire, lost>>
  BY <1>4 DEF DropsOnlyTaken
<1>5. Next \/ UNCHANGED vars
      => \/ \E k \in Keys : Send(k)
         \/ \E c \in wire : Receive(c)
         \/ \E c \in wire : Lose(c)
         \/ UNCHANGED <<sent, taken, wire, lost>>
  BY DEF Next, Tick, AdjustClock, RestartIngress, RestartTables, RestartEgress,
         vars, fabricVars, ingressVars
<1> QED BY <1>1, <1>2, <1>3, <1>4, <1>5

LEMMA SpacedInvariant ==
  ASSUME RestartTime >= Reuse
  PROVE  Spec => []Spaced
<1>1. Init => Spaced
  BY DEF Init, IngressInit, Spaced
<1>2. BasicInv /\ BasicInv' /\ Spaced /\ [Next]_vars => Spaced'
  BY SpacedStep
<1> QED BY BasicInvariant, <1>1, <1>2, PTL DEF Spec

(***************************************************************************)
(* The egress daemon drops no copy of a packet it has not taken before, if *)
(* a flow does not come back to a slot before TIMEOUT, the difference of   *)
(* the delays and the clock adjustments have passed, and a restart takes   *)
(* as long.  So a packet is lost in the tunnel only with both copies, or   *)
(* with the one sendto the egress tries for it.                            *)
(***************************************************************************)
THEOREM NoFalseDrops ==
  ASSUME ReuseBounded, RestartTime >= Reuse
  PROVE  Spec => []DropsOnlySeen
<1>1. Init => DropsOnlyTaken
  BY DEF Init, IngressInit, DropsOnlyTaken
<1>2. BasicInv /\ Spaced /\ DropsOnlyTaken /\ [Next]_vars => DropsOnlyTaken'
  BY DropsOnlyTakenStep
<1>3. ASSUME BasicInv, DropsOnlyTaken PROVE DropsOnlySeen
  <2> SUFFICES ASSUME NEW k \in Keys, NEW n \in 1..Len(sent[k]),
                      arrivals[k][n] = 0, ~(taken[k][n] > arrivals[k][n])
               PROVE  \A id \in CopyTags(sent[k][n]) : Copy(k, n, id) \in wire \cup lost
    BY DEF DropsOnlySeen, SendFailed
  <2>1. Len(sent[k]) \in Nat /\ Len(sent[k]) <= MaxPackets
    BY <1>3 DEF BasicInv, TypeOK, IngressTypeOK
  <2>2. n \in 1..MaxPackets
    BY <2>1, IngressBounds
  <2>3. taken[k][n] \in Nat
    BY <1>3, <2>2 DEF BasicInv, TypeOK
  <2>4. taken[k][n] = 0
    BY <2>3
  <2> QED BY <1>3, <2>4 DEF DropsOnlyTaken
<1> QED BY BasicInvariant, SpacedInvariant, <1>1, <1>2, <1>3, PTL DEF Spec

-----------------------------------------------------------------------------
(***************************************************************************)
(* The tunnel implements the channel, step by step.                        *)
(***************************************************************************)
LEMMA SendAccepts ==
  ASSUME BasicInv, NEW k \in Keys, Send(k)
  PROVE  Channel!Accept(k)
<1> DEFINE tag == wispringress'[k]
           n == Len(sent[k]) + 1
           m == [q \in Keys |-> Len(sent[q])][k] + 1
<1>1. /\ ValidTag(tag) /\ n <= MaxPackets /\ Len(sent[k]) \in Nat
  BY SendFacts DEF BasicInv
<1>2. process_ingress0(k) /\ send_packet_withkey(k, tag)
      /\ taken' = taken /\ arrivals' = arrivals
  BY DEF Send
<1>3. /\ Len(sent'[k]) = n
      /\ \A q \in Keys \ {k} : sent'[q] = sent[q]
  BY <1>2, ProcessIngressTag DEF BasicInv
<1>4. PICK t \in 0..255 : t = tag
  BY <1>1 DEF ValidTag
<1> HIDE DEF tag
<1>5. /\ CopyTags(t) = {t, t + 256}
      /\ t \in Tags /\ t + 256 \in Tags
  <2>1. ValidTag(t)
    BY <1>1, <1>4
  <2>2. CopyTags(t) = {t, t + 256} /\ \A x \in CopyTags(t) : x \in Tags
    BY <2>1, CopyTagFacts
  <2> QED BY <2>2
<1>6. t # t + 256
  OBVIOUS
<1>7. PICK ok \in SUBSET {t, t + 256} :
        /\ wire' = wire \cup {Copy(k, n, id) : id \in ok}
        /\ lost' = lost \cup {Copy(k, n, id) : id \in {t, t + 256} \ ok}
  BY <1>2, <1>4, <1>5 DEF send_packet_withkey
<1>8. m = n
  OBVIOUS
<1>9. [q \in Keys |-> Len(sent[q])]'
        = [[q \in Keys |-> Len(sent[q])] EXCEPT ![k] = [q \in Keys |-> Len(sent[q])][k] + 1]
  BY <1>3
<1>10. [q \in Keys |-> Len(sent[q])][k] < MaxPackets
  BY <1>1, IngressBounds
<1> HIDE DEF n, m
<1>11. /\ wire' = wire \cup {[key |-> k, n |-> m, vlan_id |-> l] : l \in ok}
       /\ lost' = lost \cup {[key |-> k, n |-> m, vlan_id |-> l] : l \in {t, t + 256} \ ok}
  BY <1>7, <1>8 DEF Copy
<1>12. \E a, b \in Tags :
         /\ a # b
         /\ \E out \in SUBSET {a, b} :
              /\ wire' = wire \cup {[key |-> k, n |-> m, vlan_id |-> l] : l \in out}
              /\ lost' = lost \cup {[key |-> k, n |-> m, vlan_id |-> l] : l \in {a, b} \ out}
  <2>1. PICK b \in Tags : b = t + 256
    BY <1>5
  <2> QED BY <1>5, <1>6, <1>11, <2>1, Zenon
<1>13. UNCHANGED <<taken, arrivals>>
  BY <1>2
<1> USE DEF m
<1> QED BY <1>9, <1>10, <1>12, <1>13, Zenon DEF Channel!Accept

LEMMA ReceiveDeliversOrDiscards ==
  ASSUME SkewBounded, ReuseBounded, Mirrored, BasicInv, Seen, Spaced, TakenOnce,
         NEW c \in wire, Receive(c)
  PROVE  Channel!Deliver(c) \/ Channel!Discard(c)
<1>1. /\ c.key \in Keys /\ c.n \in 1..MaxPackets /\ c.n \in 1..Len(sent[c.key])
  BY CopyFacts
<1>2. sent' = sent /\ wire' = wire \ {c} /\ lost' = lost
  BY DEF Receive, ingressVars
<1>3. /\ taken \in [Keys -> [1..MaxPackets -> Nat]]
      /\ taken[c.key][c.n] \in Nat /\ taken[c.key][c.n] <= 1
  BY <1>1 DEF BasicInv, TypeOK, TakenOnce
<1>4. wispr_mode(c.vlan_id) # 3
  BY CopyFacts
<1>5. taken' = IF HasntBeenSeen(c.key, c.vlan_id, now + offset)
                    THEN [taken EXCEPT ![c.key][c.n] = taken[c.key][c.n] + 1]
                    ELSE taken
  BY <1>4 DEF Receive, send_packet_raw, PassesOn, gettimeofday
<1>5a. \/ arrivals' = arrivals
       \/ /\ HasntBeenSeen(c.key, c.vlan_id, now + offset)
          /\ arrivals' = [arrivals EXCEPT ![c.key][c.n] = arrivals[c.key][c.n] + 1]
  BY <1>4 DEF Receive, send_packet_raw, PassesOn, gettimeofday
<1>6. CASE HasntBeenSeen(c.key, c.vlan_id, now + offset)
  <2>1. ~(taken[c.key][c.n] > 0)
    BY <1>6, SecondCopyDropped
  <2>2. taken[c.key][c.n] = 0
    BY <1>3, <2>1
  <2>3. taken' = [taken EXCEPT ![c.key][c.n] = 1]
    BY <1>5, <1>6, <2>2
  <2>4. arrivals[c.key][c.n] \in Nat /\ arrivals[c.key][c.n] <= taken[c.key][c.n]
    BY <1>1 DEF BasicInv, TypeOK, TakenFirst
  <2>5. arrivals[c.key][c.n] + 1 = 1
    BY <2>2, <2>4
  <2>6. arrivals' = arrivals \/ arrivals' = [arrivals EXCEPT ![c.key][c.n] = 1]
    BY <1>5a, <2>5
  <2> QED BY <1>2, <2>2, <2>3, <2>6 DEF Channel!Deliver
<1>7. CASE ~HasntBeenSeen(c.key, c.vlan_id, now + offset)
  <2>1. taken[c.key][c.n] > 0
    BY <1>7, FirstCopyPasses
  <2>2. taken[c.key][c.n] = 1
    BY <1>3, <2>1
  <2> QED BY <1>2, <1>5, <1>5a, <1>7, <2>2 DEF Channel!Discard
<1> QED BY <1>6, <1>7

(***************************************************************************)
(* With copies that stay together within TIMEOUT, flows that leave their   *)
(* slots alone for longer than that, and restarts that take as long, the   *)
(* two daemons are the channel of WisprChannel: a packet that is sent is   *)
(* accepted, the first copy to arrive is taken and given to sendto, which  *)
(* may fail, the second is discarded, and the clock, its adjustments and   *)
(* the restarts are invisible.                                             *)
(***************************************************************************)
THEOREM TunnelIsChannel ==
  ASSUME SkewBounded, ReuseBounded, RestartBounded, Mirrored
  PROVE  Spec => ImplementsChannel
<1>1. Init => Channel!ChannelInit
  BY DEF Init, IngressInit, Channel!ChannelInit
<1>2. ASSUME BasicInv, Seen, Spaced, TakenOnce, [Next]_vars
      PROVE  [Channel!ChannelNext]_Channel!channelVars
  <2>1. CASE \E k \in Keys : Send(k)
    BY <1>2, <2>1, SendAccepts DEF Channel!ChannelNext
  <2>2. CASE \E c \in wire : Receive(c)
    BY <1>2, <2>2, ReceiveDeliversOrDiscards DEF Channel!ChannelNext
  <2>3. CASE \E c \in wire : Lose(c)
    <3>1. PICK c \in wire : Lose(c)
      BY <2>3
    <3>2. Channel!LoseCopy(c)
      BY <3>1 DEF Lose, ingressVars, Channel!LoseCopy
    <3> QED BY <3>1, <3>2 DEF Channel!ChannelNext
  <2>4. CASE UNCHANGED <<sent, wire, lost, taken, arrivals>>
    BY <2>4 DEF Channel!channelVars
  <2>5. Next \/ UNCHANGED vars
        => \/ \E k \in Keys : Send(k)
           \/ \E c \in wire : Receive(c)
           \/ \E c \in wire : Lose(c)
           \/ UNCHANGED <<sent, wire, lost, taken, arrivals>>
    BY DEF Next, Tick, AdjustClock, RestartIngress, RestartTables, RestartEgress,
           vars, fabricVars, ingressVars
  <2> QED BY <1>2, <2>1, <2>2, <2>3, <2>4, <2>5
<1>3. RestartTime > Skew /\ RestartTime >= Reuse
  BY DEF RestartBounded
<1> QED BY BasicInvariant, SeenInvariant, SpacedInvariant, <1>1, <1>2, <1>3, PTL
        DEF Spec, ImplementsChannel, Channel!ChannelSpec
=============================================================================
