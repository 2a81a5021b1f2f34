------------------------- MODULE WisprIngressProofs -------------------------
(***************************************************************************)
(* What the tags of a session look like, for every number of paths and     *)
(* groups that fits the tag.                                               *)
(***************************************************************************)
EXTENDS WisprIngress, TLAPS

(***************************************************************************)
(* A tag without mode bits that selects an entry of the egress table.      *)
(***************************************************************************)
ValidTag(id) ==
  /\ id \in 0..255
  /\ group_id(id) \in Groups
  /\ packet_number(id) \in Numbers \ {0}

(***************************************************************************)
(* Where a tag stands in the cycle of a session through the slots.         *)
(***************************************************************************)
Position(id) == group_id(id) * NUMBEROFPATHS + packet_number(id) - 1

(***************************************************************************)
(* A tag below 256 is its group and its number.                            *)
(***************************************************************************)
LEMMA TagParts ==
  ASSUME NEW g \in 0..15, NEW n \in 0..15
  PROVE  /\ group_id(16 * g + n) = g
         /\ packet_number(16 * g + n) = n
         /\ wispr_mode(16 * g + n) = 0
         /\ 16 * g + n \in 0..255
BY DEF group_id, packet_number, wispr_mode

LEMMA TagSplit ==
  ASSUME NEW id \in 0..255
  PROVE  /\ id = 16 * group_id(id) + packet_number(id)
         /\ group_id(id) \in 0..15
         /\ packet_number(id) \in 0..15
         /\ wispr_mode(id) = 0
BY DEF group_id, packet_number, wispr_mode

(***************************************************************************)
(* The first packet of a session gets number 1 of group 0.                 *)
(***************************************************************************)
LEMMA FirstTag == NextTag(0) = 1 /\ ValidTag(1) /\ Position(1) = 0
BY PathsAssumption, GroupsAssumption
   DEF NextTag, ValidTag, Position, group_id, packet_number, Groups, Numbers

(***************************************************************************)
(* NextTag in terms of group and number: process_ingress0 counts to        *)
(* NUMBEROFPATHS, then to NUMBEROFGROUPS.                                  *)
(***************************************************************************)
LEMMA NextTagParts ==
  ASSUME NEW g \in Groups, NEW n \in Numbers \ {0}
  PROVE  /\ n < NUMBEROFPATHS => NextTag(16 * g + n) = 16 * g + (n + 1)
         /\ n = NUMBEROFPATHS /\ g < NUMBEROFGROUPS - 1
              => NextTag(16 * g + n) = 16 * (g + 1) + 1
         /\ n = NUMBEROFPATHS /\ g = NUMBEROFGROUPS - 1 => NextTag(16 * g + n) = 1
<1>1. g \in 0..14 /\ n \in 1..15 /\ g + 1 \in 0..15 /\ g < NUMBEROFGROUPS
  BY PathsAssumption, GroupsAssumption DEF Groups, Numbers
<1>2. packet_number(16 * g + n) = n
  BY <1>1, TagParts
<1>3. CASE n # NUMBEROFPATHS
  <2>1. NextTag(16 * g + n) = (16 * g + n + 1) % (256 * 256)
    BY <1>2, <1>3 DEF NextTag
  <2>2. (16 * g + n + 1) % (256 * 256) = 16 * g + (n + 1)
    BY <1>1
  <2> QED BY <1>3, <2>1, <2>2
<1>4. CASE n = NUMBEROFPATHS
  <2> DEFINE id == 16 * g + n
             bumped == (id - n + 1 + 16) % (256 * 256)
  <2>1. packet_number(id) = NUMBEROFPATHS /\ packet_number(id) = n
    BY <1>2, <1>4
  <2>2. bumped = 16 * (g + 1) + 1
    BY <1>1
  <2>3. group_id(16 * (g + 1) + 1) = g + 1
    BY <1>1, TagParts
  <2> HIDE DEF id
  <2>4. NextTag(id) = IF group_id(bumped) = NUMBEROFGROUPS
                        THEN bumped - 16 * group_id(bumped) ELSE bumped
    BY <2>1 DEF NextTag
  <2>5. group_id(bumped) = g + 1
    BY <2>2, <2>3
  <2> HIDE DEF bumped
  <2>6. g + 1 # NUMBEROFGROUPS => NextTag(id) = 16 * (g + 1) + 1
    BY <2>2, <2>4, <2>5
  <2>7. g + 1 = NUMBEROFGROUPS => NextTag(id) = bumped - 16 * (g + 1)
    BY <2>4, <2>5
  <2>8. bumped - 16 * (g + 1) = 1
    BY <1>1, <2>2
  <2>9. g + 1 = NUMBEROFGROUPS <=> g = NUMBEROFGROUPS - 1
    BY <1>1, GroupsAssumption
  <2> QED BY <1>1, <1>4, <2>6, <2>7, <2>8, <2>9, GroupsAssumption DEF id
<1> QED BY <1>3, <1>4

(***************************************************************************)
(* A product with the number of paths grows with the group.                *)
(***************************************************************************)
LEMMA PositionRange ==
  ASSUME NEW g \in Groups, NEW n \in Numbers \ {0}
  PROVE  /\ g * NUMBEROFPATHS + n - 1 \in 0..(Window - 1)
         /\ (g + 1) * NUMBEROFPATHS = g * NUMBEROFPATHS + NUMBEROFPATHS
         /\ g = NUMBEROFGROUPS - 1
              => g * NUMBEROFPATHS + NUMBEROFPATHS - 1 = Window - 1
<1>1. /\ g \in Nat /\ n \in Nat /\ n >= 1 /\ n <= NUMBEROFPATHS /\ g <= NUMBEROFGROUPS - 1
      /\ NUMBEROFPATHS \in Nat /\ NUMBEROFGROUPS \in Nat
  BY PathsAssumption, GroupsAssumption DEF Groups, Numbers
<1>2. (g + 1) * NUMBEROFPATHS = g * NUMBEROFPATHS + NUMBEROFPATHS
  BY <1>1
<1>3. (g + 1) * NUMBEROFPATHS <= NUMBEROFGROUPS * NUMBEROFPATHS
  BY <1>1
<1>4. g * NUMBEROFPATHS >= 0
  BY <1>1
<1>5. g = NUMBEROFGROUPS - 1 => (g + 1) * NUMBEROFPATHS = NUMBEROFGROUPS * NUMBEROFPATHS
  BY <1>1
<1>6. g * NUMBEROFPATHS \in Int /\ NUMBEROFGROUPS * NUMBEROFPATHS \in Int
  BY <1>1
<1> QED BY <1>1, <1>2, <1>3, <1>4, <1>5, <1>6 DEF Window

(***************************************************************************)
(* One step of process_ingress0 goes to the next position of the cycle,    *)
(* and to the next path.                                                   *)
(***************************************************************************)
LEMMA NextTagStep ==
  ASSUME NEW id, ValidTag(id)
  PROVE  /\ ValidTag(NextTag(id))
         /\ Position(id) \in 0..(Window - 1)
         /\ \/ Position(NextTag(id)) = Position(id) + 1
            \/ Position(id) = Window - 1 /\ Position(NextTag(id)) = 0
         /\ \/ packet_number(NextTag(id)) = packet_number(id) + 1
            \/ packet_number(id) = NUMBEROFPATHS /\ packet_number(NextTag(id)) = 1
<1>1. PICK g \in Groups, n \in Numbers \ {0} :
        /\ id = 16 * g + n /\ group_id(id) = g /\ packet_number(id) = n
  BY TagSplit DEF ValidTag
<1>2. g \in 0..14 /\ n \in 1..15 /\ n <= NUMBEROFPATHS /\ g <= NUMBEROFGROUPS - 1
  BY PathsAssumption, GroupsAssumption DEF Groups, Numbers
<1>3. Position(id) = g * NUMBEROFPATHS + n - 1 /\ Position(id) \in 0..(Window - 1)
  BY <1>1, PositionRange DEF Position
<1>4. CASE n < NUMBEROFPATHS
  <2>1. NextTag(id) = 16 * g + (n + 1) /\ n + 1 \in Numbers \ {0} /\ n + 1 \in 0..15
    BY <1>1, <1>2, <1>4, NextTagParts, PathsAssumption DEF Numbers
  <2>2. group_id(NextTag(id)) = g /\ packet_number(NextTag(id)) = n + 1
        /\ NextTag(id) \in 0..255
    BY <1>2, <2>1, TagParts
  <2>3. ValidTag(NextTag(id))
    BY <2>1, <2>2 DEF ValidTag
  <2>4. Position(NextTag(id)) = g * NUMBEROFPATHS + (n + 1) - 1
    BY <2>2 DEF Position
  <2>5. g * NUMBEROFPATHS \in Int
    BY <1>2, PathsAssumption
  <2> QED BY <1>1, <1>2, <1>3, <2>2, <2>3, <2>4, <2>5
<1>5. CASE n = NUMBEROFPATHS /\ g < NUMBEROFGROUPS - 1
  <2>1. NextTag(id) = 16 * (g + 1) + 1 /\ g + 1 \in Groups /\ 1 \in Numbers \ {0}
        /\ g + 1 \in 0..15
    BY <1>1, <1>2, <1>5, NextTagParts, PathsAssumption, GroupsAssumption DEF Numbers, Groups
  <2>2. group_id(NextTag(id)) = g + 1 /\ packet_number(NextTag(id)) = 1
        /\ NextTag(id) \in 0..255
    BY <2>1, TagParts
  <2>3. ValidTag(NextTag(id))
    BY <2>1, <2>2 DEF ValidTag
  <2>4. Position(NextTag(id)) = (g + 1) * NUMBEROFPATHS + 1 - 1
    BY <2>2 DEF Position
  <2>5. g * NUMBEROFPATHS \in Int /\ (g + 1) * NUMBEROFPATHS = g * NUMBEROFPATHS + NUMBEROFPATHS
    BY <1>2, PositionRange, PathsAssumption
  <2> QED BY <1>1, <1>2, <1>3, <1>5, <2>2, <2>3, <2>4, <2>5, PathsAssumption
<1>6. CASE n = NUMBEROFPATHS /\ g = NUMBEROFGROUPS - 1
  <2>1. NextTag(id) = 1
    BY <1>1, <1>6, NextTagParts
  <2>2. ValidTag(1) /\ Position(1) = 0 /\ packet_number(1) = 1
    BY FirstTag DEF packet_number
  <2>3. Position(id) = Window - 1
    BY <1>3, <1>6, PositionRange
  <2> QED BY <1>1, <1>3, <1>6, <2>1, <2>2, <2>3
<1> QED BY <1>2, <1>4, <1>5, <1>6, PathsAssumption, GroupsAssumption

-----------------------------------------------------------------------------
(***************************************************************************)
(* The inductive invariant of the session table.  A session holds the last *)
(* tag given out since the daemon started, and the distance of two         *)
(* positions is the distance of the packets, modulo the cycle.             *)
(***************************************************************************)
TagsValid == \A k \in Keys : \A i \in 1..Len(sent[k]) : ValidTag(sent[k][i])

SessionIsLast ==
  \A k \in Keys :
    /\ k \in DOMAIN wispringress => epoch[k] < Len(sent[k])
    /\ k \in DOMAIN wispringress => wispringress[k] = sent[k][Len(sent[k])]
    /\ k \notin DOMAIN wispringress => epoch[k] = Len(sent[k])

CycleInv ==
  \A k \in Keys : \A i, j \in (epoch[k] + 1)..Len(sent[k]) :
    /\ i < j /\ j - i < Window
         => \/ Position(sent[k][j]) = Position(sent[k][i]) + (j - i)
            \/ Position(sent[k][j]) = Position(sent[k][i]) + (j - i) - Window
    /\ i < j /\ j - i < NUMBEROFPATHS
         => \/ packet_number(sent[k][j]) = packet_number(sent[k][i]) + (j - i)
            \/ packet_number(sent[k][j])
                 = packet_number(sent[k][i]) + (j - i) - NUMBEROFPATHS

IngressInv == IngressTypeOK /\ TagsValid /\ SessionIsLast /\ CycleInv

(***************************************************************************)
(* Facts about constants and types the steps below share.                  *)
(***************************************************************************)
LEMMA WindowType ==
  /\ NUMBEROFPATHS \in Nat /\ NUMBEROFPATHS >= 1
  /\ NUMBEROFGROUPS \in Nat /\ NUMBEROFGROUPS >= 1
  /\ Window \in Nat /\ Window >= 1
<1>1. NUMBEROFPATHS \in 1..15 /\ NUMBEROFGROUPS \in 1..15
  BY PathsAssumption, GroupsAssumption
<1>2. Window \in Nat /\ Window >= 1
  BY <1>1 DEF Window
<1> QED BY <1>1, <1>2

LEMMA ValidTagTypes ==
  ASSUME NEW id, ValidTag(id)
  PROVE  /\ id \in UInt16
         /\ Position(id) \in 0..(Window - 1)
         /\ packet_number(id) \in 1..NUMBEROFPATHS
         /\ group_id(id) \in 0..(NUMBEROFGROUPS - 1)
<1>1. Position(id) \in 0..(Window - 1)
  BY NextTagStep
<1>2. id \in UInt16
  BY DEF ValidTag, UInt16
<1>3. /\ packet_number(id) \in 1..NUMBEROFPATHS
      /\ group_id(id) \in 0..(NUMBEROFGROUPS - 1)
  BY WindowType DEF ValidTag, Groups, Numbers
<1> QED BY <1>1, <1>2, <1>3

LEMMA IngressInitInv == IngressInit => IngressInv
<1> SUFFICES ASSUME IngressInit PROVE IngressInv
  OBVIOUS
<1>1. IngressTypeOK
  <2>1. wispringress \in [{} -> UInt16]
    BY DEF IngressInit, NoSessions
  <2>2. \E S \in SUBSET Keys : wispringress \in [S -> UInt16]
    BY <2>1
  <2> QED BY <2>2, IngressBounds DEF IngressInit, IngressTypeOK
<1>2. TagsValid /\ CycleInv
  BY DEF IngressInit, TagsValid, CycleInv
<1>3. SessionIsLast
  BY DEF IngressInit, SessionIsLast, NoSessions
<1> QED BY <1>1, <1>2, <1>3 DEF IngressInv

LEMMA RestartTablesInv == IngressInv /\ RestartTables => IngressInv'
<1> SUFFICES ASSUME IngressInv, RestartTables PROVE IngressInv'
  OBVIOUS
<1> USE DEF IngressInv
<1>1. IngressTypeOK'
  <2>1. wispringress' \in [{} -> UInt16]
    BY DEF RestartTables, NoSessions
  <2>2. (\E S \in SUBSET Keys : wispringress \in [S -> UInt16])'
    BY <2>1
  <2> QED BY <2>2, IngressBounds DEF RestartTables, IngressTypeOK
<1>2. TagsValid' /\ CycleInv'
  BY DEF RestartTables, TagsValid, CycleInv, IngressTypeOK
<1>3. SessionIsLast'
  BY DEF RestartTables, SessionIsLast, NoSessions, IngressTypeOK
<1> QED BY <1>1, <1>2, <1>3

(***************************************************************************)
(* What process_ingress0 does to the invariant, for the packet it tags.    *)
(***************************************************************************)
LEMMA ProcessIngressTag ==
  ASSUME NEW k \in Keys, IngressInv, process_ingress0(k)
  PROVE  LET tag == NextTag(get_or_add_ingresssession(k))
         IN  /\ ValidTag(tag)
             /\ wispringress'[k] = tag
             /\ k \in DOMAIN wispringress'
             /\ sent'[k] = Append(sent[k], tag)
             /\ Len(sent'[k]) = Len(sent[k]) + 1
             /\ sent'[k][Len(sent[k]) + 1] = tag
             /\ \A i \in 1..Len(sent[k]) : sent'[k][i] = sent[k][i]
             /\ \A j \in Keys \ {k} : sent'[j] = sent[j]
             /\ Len(sent[k]) \in Nat
<1> DEFINE tag == NextTag(get_or_add_ingresssession(k))
<1>1. ValidTag(tag)
  <2>1. CASE k \in DOMAIN wispringress
    <3>1. get_or_add_ingresssession(k) = sent[k][Len(sent[k])] /\ Len(sent[k]) \in 1..Len(sent[k])
      BY <2>1 DEF get_or_add_ingresssession, IngressInv, SessionIsLast, IngressTypeOK
    <3>2. ValidTag(get_or_add_ingresssession(k))
      BY <3>1 DEF IngressInv, TagsValid
    <3> QED BY <3>2, NextTagStep
  <2>2. CASE k \notin DOMAIN wispringress
    BY <2>2, FirstTag DEF get_or_add_ingresssession
  <2> QED BY <2>1, <2>2
<1>2. tag \in UInt16
  BY <1>1, ValidTagTypes
<1>3. sent[k] \in Seq(UInt16) /\ sent \in [Keys -> Seq(UInt16)]
  BY DEF IngressInv, IngressTypeOK
<1> HIDE DEF tag
<1>4. sent' = [sent EXCEPT ![k] = Append(sent[k], tag)]
  BY DEF process_ingress0, tag
<1>5. sent'[k] = Append(sent[k], tag) /\ \A j \in Keys \ {k} : sent'[j] = sent[j]
  BY <1>3, <1>4
<1>6. wispringress'[k] = tag /\ k \in DOMAIN wispringress'
  BY DEF process_ingress0, tag
<1> QED BY <1>1, <1>2, <1>3, <1>5, <1>6 DEF tag

(***************************************************************************)
(* One more step along a cycle of length w.                                *)
(***************************************************************************)
LEMMA CycleStep ==
  ASSUME NEW w \in Nat, NEW pa \in 0..(w - 1), NEW pb \in 0..(w - 1), NEW pt \in Int,
         NEW i \in Nat, NEW l \in Nat, i < l, (l + 1) - i < w,
         pb = pa + (l - i) \/ pb = pa + (l - i) - w,
         pt = pb + 1 \/ (pb = w - 1 /\ pt = 0)
  PROVE  pt = pa + ((l + 1) - i) \/ pt = pa + ((l + 1) - i) - w
OBVIOUS

(***************************************************************************)
(* The same for numbers that begin at 1.                                   *)
(***************************************************************************)
LEMMA NumberStep ==
  ASSUME NEW w \in Nat, NEW pa \in 1..w, NEW pb \in 1..w, NEW pt \in 1..w,
         NEW i \in Nat, NEW l \in Nat, i < l, (l + 1) - i < w,
         pb = pa + (l - i) \/ pb = pa + (l - i) - w,
         pt = pb + 1 \/ (pb = w /\ pt = 1)
  PROVE  pt = pa + ((l + 1) - i) \/ pt = pa + ((l + 1) - i) - w
OBVIOUS

LEMMA ProcessIngressInv ==
  ASSUME NEW k \in Keys, IngressInv, process_ingress0(k)
  PROVE  IngressInv'
<1> DEFINE tag == NextTag(get_or_add_ingresssession(k))
           len == Len(sent[k])
<1>1. /\ ValidTag(tag)
      /\ wispringress'[k] = tag
      /\ k \in DOMAIN wispringress'
      /\ sent'[k] = Append(sent[k], tag)
      /\ Len(sent'[k]) = len + 1
      /\ sent'[k][len + 1] = tag
      /\ \A i \in 1..len : sent'[k][i] = sent[k][i]
      /\ \A j \in Keys \ {k} : sent'[j] = sent[j]
      /\ len \in Nat
  BY ProcessIngressTag
<1>2. tag \in UInt16
  BY <1>1, ValidTagTypes
<1>3. epoch' = epoch /\ restarts' = restarts /\ len < MaxPackets
  BY DEF process_ingress0
<1>4. /\ sent \in [Keys -> Seq(UInt16)] /\ epoch \in [Keys -> Nat]
      /\ restarts \in 0..MaxRestarts
      /\ \A j \in Keys : epoch[j] <= Len(sent[j]) /\ Len(sent[j]) <= MaxPackets
  BY DEF IngressInv, IngressTypeOK
<1>5. wispringress' = [j \in DOMAIN wispringress \cup {k} |->
                         IF j = k THEN tag ELSE wispringress[j]]
  BY DEF process_ingress0
<1>6. get_or_add_ingresssession(k) = IF k \in DOMAIN wispringress THEN sent[k][len] ELSE 0
  BY DEF get_or_add_ingresssession, IngressInv, SessionIsLast
<1>7. /\ k \in DOMAIN wispringress => epoch[k] < len
      /\ k \notin DOMAIN wispringress => epoch[k] = len
  BY DEF IngressInv, SessionIsLast
<1>8. k \in DOMAIN wispringress => tag = NextTag(sent[k][len]) /\ ValidTag(sent[k][len])
  BY <1>1, <1>4, <1>6, <1>7 DEF IngressInv, TagsValid
<1> HIDE DEF tag, len
<1>9. IngressTypeOK'
  <2>1. PICK S \in SUBSET Keys : wispringress \in [S -> UInt16]
    BY DEF IngressInv, IngressTypeOK
  <2>2. wispringress' \in [S \cup {k} -> UInt16]
    BY <1>2, <1>5, <2>1
  <2>3. (\E T \in SUBSET Keys : wispringress \in [T -> UInt16])'
    BY <2>2
  <2>4. sent' \in [Keys -> Seq(UInt16)]
    BY <1>1, <1>2, <1>4 DEF process_ingress0, len, tag
  <2>5. \A j \in Keys : epoch'[j] <= Len(sent'[j]) /\ Len(sent'[j]) <= MaxPackets
    <3> SUFFICES ASSUME NEW j \in Keys
                 PROVE  epoch'[j] <= Len(sent'[j]) /\ Len(sent'[j]) <= MaxPackets
      OBVIOUS
    <3>1. CASE j = k
      <4>1. Len(sent'[j]) = len + 1 /\ epoch'[j] = epoch[k] /\ epoch[k] <= len
            /\ epoch[k] \in Nat
        BY <1>1, <1>3, <1>4, <3>1 DEF len
      <4> QED BY <1>1, <1>3, <4>1, IngressBounds
    <3>2. CASE j # k
      BY <1>1, <1>3, <1>4, <3>2
    <3> QED BY <3>1, <3>2
  <2> QED BY <1>3, <1>4, <2>3, <2>4, <2>5 DEF IngressTypeOK
<1>10. TagsValid'
  <2> SUFFICES ASSUME NEW j \in Keys, NEW i \in 1..Len(sent'[j]) PROVE ValidTag(sent'[j][i])
    BY DEF TagsValid
  <2>1. CASE j = k
    BY <1>1, <2>1 DEF IngressInv, TagsValid, len
  <2>2. CASE j # k
    BY <1>1, <2>2 DEF IngressInv, TagsValid
  <2> QED BY <2>1, <2>2
<1>11. SessionIsLast'
  <2> SUFFICES ASSUME NEW j \in Keys
               PROVE  /\ j \in DOMAIN wispringress' => epoch'[j] < Len(sent'[j])
                      /\ j \in DOMAIN wispringress' => wispringress'[j] = sent'[j][Len(sent'[j])]
                      /\ j \notin DOMAIN wispringress' => epoch'[j] = Len(sent'[j])
    BY DEF SessionIsLast
  <2>1. CASE j = k
    BY <1>1, <1>3, <1>4, <2>1 DEF len
  <2>2. CASE j # k
    <3>1. sent'[j] = sent[j] /\ (j \in DOMAIN wispringress' <=> j \in DOMAIN wispringress)
      BY <1>1, <1>5, <2>2
    <3>2. j \in DOMAIN wispringress => wispringress'[j] = wispringress[j]
      BY <1>5, <2>2
    <3> QED BY <1>3, <3>1, <3>2 DEF IngressInv, SessionIsLast
  <2> QED BY <2>1, <2>2
<1>12. CycleInv'
  <2> SUFFICES ASSUME NEW q \in Keys,
                      NEW i \in (epoch[q] + 1)..Len(sent'[q]),
                      NEW j \in (epoch[q] + 1)..Len(sent'[q]),
                      i < j
               PROVE  /\ j - i < Window
                           => \/ Position(sent'[q][j]) = Position(sent'[q][i]) + (j - i)
                              \/ Position(sent'[q][j]) = Position(sent'[q][i]) + (j - i) - Window
                      /\ j - i < NUMBEROFPATHS
                           => \/ packet_number(sent'[q][j]) = packet_number(sent'[q][i]) + (j - i)
                              \/ packet_number(sent'[q][j])
                                   = packet_number(sent'[q][i]) + (j - i) - NUMBEROFPATHS
    BY <1>3 DEF CycleInv
  <2>1. CASE q # k
    BY <1>1, <2>1 DEF IngressInv, CycleInv
  <2>2. CASE q = k /\ j <= len
    <3>1. i \in 1..len /\ j \in 1..len /\ i \in (epoch[k] + 1)..Len(sent[k])
          /\ j \in (epoch[k] + 1)..Len(sent[k])
      BY <1>1, <1>4, <2>2 DEF len
    <3>2. sent'[q][i] = sent[k][i] /\ sent'[q][j] = sent[k][j]
      BY <1>1, <2>2, <3>1
    <3> QED BY <2>2, <3>1, <3>2 DEF IngressInv, CycleInv
  <2>3. CASE q = k /\ j = len + 1
    <3>1. i \in (epoch[k] + 1)..len /\ i \in 1..len /\ len \in (epoch[k] + 1)..len
          /\ sent'[q][i] = sent[k][i] /\ sent'[q][j] = tag
      <4>1. epoch[k] \in Nat /\ len \in Nat /\ i \in Int /\ epoch[k] + 1 <= i /\ i <= len
        BY <1>1, <1>4, <2>3
      <4>2. i \in (epoch[k] + 1)..len /\ i \in 1..len /\ len \in (epoch[k] + 1)..len
        BY <4>1
      <4> QED BY <1>1, <2>3, <4>2
    <3>2. k \in DOMAIN wispringress
      BY <1>1, <1>4, <1>7, <3>1
    <3> DEFINE a == sent[k][i]
               b == sent[k][len]
    <3>3. tag = NextTag(b) /\ ValidTag(b) /\ ValidTag(a)
      BY <1>8, <3>1, <3>2 DEF IngressInv, TagsValid, len
    <3>4. /\ Position(a) \in 0..(Window - 1) /\ Position(b) \in 0..(Window - 1)
          /\ packet_number(a) \in 1..NUMBEROFPATHS /\ packet_number(b) \in 1..NUMBEROFPATHS
      BY <3>3, ValidTagTypes
    <3>5. /\ \/ Position(tag) = Position(b) + 1
             \/ Position(b) = Window - 1 /\ Position(tag) = 0
          /\ \/ packet_number(tag) = packet_number(b) + 1
             \/ packet_number(b) = NUMBEROFPATHS /\ packet_number(tag) = 1
      BY <3>3, NextTagStep
    <3>6. packet_number(tag) \in 1..NUMBEROFPATHS /\ Position(tag) \in 0..(Window - 1)
      BY <1>1, ValidTagTypes
    <3>7. i < len =>
           /\ len - i < Window
                => \/ Position(b) = Position(a) + (len - i)
                   \/ Position(b) = Position(a) + (len - i) - Window
           /\ len - i < NUMBEROFPATHS
                => \/ packet_number(b) = packet_number(a) + (len - i)
                   \/ packet_number(b) = packet_number(a) + (len - i) - NUMBEROFPATHS
      BY <3>1 DEF IngressInv, CycleInv, len
    <3>8. i = len => a = b
      OBVIOUS
    <3>9. i \in Nat /\ len \in Nat /\ i <= len /\ j = len + 1 /\ i \in Int
      BY <1>1, <1>4, <2>3, <3>1
    <3> HIDE DEF a, b
    <3>10. j - i < Window
             => \/ Position(tag) = Position(a) + (j - i)
                \/ Position(tag) = Position(a) + (j - i) - Window
      <4> HAVE j - i < Window
      <4>1. CASE i = len
        BY <3>4, <3>5, <3>8, <3>9, <4>1, WindowType
      <4>2. CASE i < len
        <5>1. \/ Position(b) = Position(a) + (len - i)
              \/ Position(b) = Position(a) + (len - i) - Window
          BY <3>7, <3>9, <4>2, WindowType
        <5>2. Position(tag) = Position(a) + ((len + 1) - i)
                \/ Position(tag) = Position(a) + ((len + 1) - i) - Window
          <6>1. (len + 1) - i < Window /\ Window \in Nat /\ Position(tag) \in Int
            BY <3>6, <3>9, WindowType
          <6>2. PICK w \in Nat : w = Window
            BY <6>1
          <6>3. PICK pa \in 0..(w - 1) : pa = Position(a)
            BY <3>4, <6>2
          <6>4. PICK pb \in 0..(w - 1) : pb = Position(b)
            BY <3>4, <6>2
          <6>5. PICK pt \in Int : pt = Position(tag)
            BY <6>1
          <6>6. /\ i \in Nat /\ len \in Nat /\ i < len /\ (len + 1) - i < w
                /\ pb = pa + (len - i) \/ pb = pa + (len - i) - w
                /\ pt = pb + 1 \/ (pb = w - 1 /\ pt = 0)
            BY <3>5, <3>9, <4>2, <5>1, <6>1, <6>2, <6>3, <6>4, <6>5
          <6>7. pt = pa + ((len + 1) - i) \/ pt = pa + ((len + 1) - i) - w
            BY <6>6, CycleStep
          <6> QED BY <6>2, <6>3, <6>5, <6>7
        <5> QED BY <3>9, <5>2
      <4>3. i = len \/ i < len
        BY <3>9
      <4> QED BY <4>1, <4>2, <4>3
    <3>11. j - i < NUMBEROFPATHS
             => \/ packet_number(tag) = packet_number(a) + (j - i)
                \/ packet_number(tag) = packet_number(a) + (j - i) - NUMBEROFPATHS
      <4> HAVE j - i < NUMBEROFPATHS
      <4>1. CASE i = len
        BY <3>4, <3>5, <3>8, <3>9, <4>1, PathsAssumption
      <4>2. CASE i < len
        <5>1. \/ packet_number(b) = packet_number(a) + (len - i)
              \/ packet_number(b) = packet_number(a) + (len - i) - NUMBEROFPATHS
          BY <3>7, <3>9, <4>2, PathsAssumption
        <5>2. PICK w \in Nat : w = NUMBEROFPATHS
          BY PathsAssumption
        <5>3. PICK pa \in 1..w : pa = packet_number(a)
          BY <3>4, <5>2
        <5>4. PICK pb \in 1..w : pb = packet_number(b)
          BY <3>4, <5>2
        <5>5. PICK pt \in 1..w : pt = packet_number(tag)
          BY <3>6, <5>2
        <5>6. /\ i \in Nat /\ len \in Nat /\ i < len /\ (len + 1) - i < w
              /\ pb = pa + (len - i) \/ pb = pa + (len - i) - w
              /\ pt = pb + 1 \/ (pb = w /\ pt = 1)
          BY <3>5, <3>9, <4>2, <5>1, <5>2, <5>3, <5>4, <5>5
        <5>7. pt = pa + ((len + 1) - i) \/ pt = pa + ((len + 1) - i) - w
          BY <5>6, NumberStep
        <5> QED BY <3>9, <5>2, <5>3, <5>5, <5>7
      <4>3. i = len \/ i < len
        BY <3>9
      <4> QED BY <4>1, <4>2, <4>3
    <3> QED BY <2>3, <3>1, <3>10, <3>11 DEF a
  <2> QED BY <1>1, <2>1, <2>2, <2>3, <1>4
<1> QED BY <1>9, <1>10, <1>11, <1>12 DEF IngressInv

(***************************************************************************)
(* The session table is well typed in every state.                         *)
(***************************************************************************)
LEMMA IngressInvariant == IngressSpec => []IngressInv
<1>1. IngressInv /\ [IngressNext]_ingressVars => IngressInv'
  <2> SUFFICES ASSUME IngressInv, [IngressNext]_ingressVars PROVE IngressInv'
    OBVIOUS
  <2>1. CASE \E k \in Keys : process_ingress0(k)
    BY <2>1, ProcessIngressInv
  <2>2. CASE RestartTables
    BY <2>2, RestartTablesInv
  <2>3. CASE UNCHANGED ingressVars
    BY <2>3 DEF ingressVars, IngressInv, IngressTypeOK, TagsValid, SessionIsLast, CycleInv
  <2> QED BY <2>1, <2>2, <2>3 DEF IngressNext
<1> QED BY IngressInitInv, <1>1, PTL DEF IngressSpec

(***************************************************************************)
(* The invariant gives the properties of the tags.                         *)
(***************************************************************************)
LEMMA IngressInvImplies ==
  ASSUME IngressInv
  PROVE  TagsInTable /\ WindowDistinct /\ Striped
<1>1. TagsInTable
  <2> SUFFICES ASSUME NEW k \in Keys, NEW i \in 1..Len(sent[k])
               PROVE  /\ group_id(sent[k][i]) \in Groups
                      /\ packet_number(sent[k][i]) \in Numbers \ {0}
                      /\ wispr_mode(sent[k][i]) = 0
    BY DEF TagsInTable
  <2>1. ValidTag(sent[k][i])
    BY DEF IngressInv, TagsValid
  <2>2. sent[k][i] \in 0..255 => wispr_mode(sent[k][i]) = 0
    BY TagSplit
  <2> QED BY <2>1, <2>2 DEF ValidTag
<1>2. ASSUME NEW k \in Keys,
             NEW i \in (epoch[k] + 1)..Len(sent[k]), NEW j \in (epoch[k] + 1)..Len(sent[k]),
             i < j
      PROVE  /\ j - i < Window => Slot(sent[k][i]) # Slot(sent[k][j])
             /\ j - i < NUMBEROFPATHS => packet_number(sent[k][i]) # packet_number(sent[k][j])
  <2> DEFINE a == sent[k][i]
             b == sent[k][j]
  <2>1. /\ epoch[k] \in Nat /\ Len(sent[k]) \in Nat
    BY DEF IngressInv, IngressTypeOK
  <2>2. i \in 1..Len(sent[k]) /\ j \in 1..Len(sent[k]) /\ i \in Int /\ j \in Int
    BY <2>1
  <2>3. ValidTag(a) /\ ValidTag(b)
    BY <2>2 DEF IngressInv, TagsValid
  <2>4. /\ Position(a) \in 0..(Window - 1) /\ Position(b) \in 0..(Window - 1)
        /\ packet_number(a) \in 1..NUMBEROFPATHS /\ packet_number(b) \in 1..NUMBEROFPATHS
    BY <2>3, ValidTagTypes
  <2>5. /\ j - i < Window
             => \/ Position(b) = Position(a) + (j - i)
                \/ Position(b) = Position(a) + (j - i) - Window
        /\ j - i < NUMBEROFPATHS
             => \/ packet_number(b) = packet_number(a) + (j - i)
                \/ packet_number(b) = packet_number(a) + (j - i) - NUMBEROFPATHS
    BY <1>2 DEF IngressInv, CycleInv
  <2>6. Slot(a) = Slot(b) => Position(a) = Position(b)
    BY DEF Slot, Position
  <2> HIDE DEF a, b
  <2>7. j - i < Window => Position(a) # Position(b)
    BY <1>2, <2>2, <2>4, <2>5, WindowType
  <2>8. j - i < NUMBEROFPATHS => packet_number(a) # packet_number(b)
    BY <1>2, <2>2, <2>4, <2>5, WindowType
  <2> QED BY <2>6, <2>7, <2>8 DEF a, b
<1>3. WindowDistinct /\ Striped
  BY <1>2 DEF WindowDistinct, Striped
<1> QED BY <1>1, <1>3

(***************************************************************************)
(* Every tag of process_ingress0 is inside the egress table, for every     *)
(* number of paths and groups that fits the fields of the tag.             *)
(***************************************************************************)
THEOREM TagsStayInTable == IngressSpec => []TagsInTable
BY IngressInvariant, IngressInvImplies, PTL

(***************************************************************************)
(* Any Window consecutive packets of a session have different slots.       *)
(***************************************************************************)
THEOREM SlotsReusedInTurn == IngressSpec => []WindowDistinct
BY IngressInvariant, IngressInvImplies, PTL

(***************************************************************************)
(* Any NUMBEROFPATHS consecutive packets of a session take different paths.*)
(***************************************************************************)
THEOREM PacketsAreStriped == IngressSpec => []Striped
BY IngressInvariant, IngressInvImplies, PTL
=============================================================================
