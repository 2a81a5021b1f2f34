---------------------------- MODULE WisprIngress ----------------------------
(***************************************************************************)
(* The sending half of a WISPR daemon: the session table it tags packets   *)
(* from (wispr_proto.c, process_ingress0 and get_or_add_ingresssession).   *)
(***************************************************************************)
EXTENDS WisprTag, Sequences

CONSTANTS
  MaxPackets,   \* bound: packets one key sends
  MaxRestarts   \* bound: restarts of the daemons, all together

ASSUME IngressBounds == MaxPackets \in Nat /\ MaxRestarts \in Nat

VARIABLES
  wispringress, \* the session table: the last tag of every key that has a session
  sent,         \* history: the tags key k was given, in order, over all restarts
  epoch,        \* history: how many of them were given before the last restart
  restarts      \* how often a daemon was restarted

ingressVars == <<wispringress, sent, epoch, restarts>>

(***************************************************************************)
(* init_wisprtables: no session exists when the daemon starts.             *)
(***************************************************************************)
NoSessions == [k \in {} |-> 0]

IngressInit ==
  /\ wispringress = NoSessions
  /\ sent = [k \in Keys |-> << >>]
  /\ epoch = [k \in Keys |-> 0]
  /\ restarts = 0

(***************************************************************************)
(* The tag in the session of key k; a new session is zeroed memory.        *)
(***************************************************************************)
get_or_add_ingresssession(k) ==
  IF k \in DOMAIN wispringress THEN wispringress[k] ELSE 0

(***************************************************************************)
(* A packet of key k is given the next tag of its session.                 *)
(***************************************************************************)
process_ingress0(k) ==
  /\ Len(sent[k]) < MaxPackets
  /\ LET tag == NextTag(get_or_add_ingresssession(k))
     IN  /\ wispringress' = [j \in DOMAIN wispringress \cup {k} |->
                               IF j = k THEN tag ELSE wispringress[j]]
         /\ sent' = [sent EXCEPT ![k] = Append(@, tag)]
  /\ UNCHANGED <<epoch, restarts>>

(***************************************************************************)
(* The daemon stops, by a signal or a crash, and is started again: the     *)
(* table was only in its memory.                                           *)
(***************************************************************************)
RestartTables ==
  /\ restarts < MaxRestarts
  /\ restarts' = restarts + 1
  /\ wispringress' = NoSessions
  /\ epoch' = [k \in Keys |-> Len(sent[k])]
  /\ UNCHANGED sent

IngressNext == (\E k \in Keys : process_ingress0(k)) \/ RestartTables

IngressSpec == IngressInit /\ [][IngressNext]_ingressVars

-----------------------------------------------------------------------------
(***************************************************************************)
(* Types of the session table and of the histories.                        *)
(***************************************************************************)
IngressTypeOK ==
  /\ \E S \in SUBSET Keys : wispringress \in [S -> UInt16]
  /\ sent \in [Keys -> Seq(UInt16)]
  /\ epoch \in [Keys -> Nat]
  /\ restarts \in 0..MaxRestarts
  /\ \A k \in Keys : epoch[k] <= Len(sent[k]) /\ Len(sent[k]) <= MaxPackets

(***************************************************************************)
(* Every tag process_ingress0 produces selects an entry inside the table   *)
(* tv[NUMBEROFGROUPS][NUMBEROFPATHS+1] of the receiving daemon, which uses *)
(* group and number as array indexes without looking at their range; the   *)
(* mode bits stay clear, so that vlan_id | 0x0100 is a tag of its own, and *)
(* number 0, for which the controller installs no path, is never used.     *)
(***************************************************************************)
TagsInTable ==
  \A k \in Keys : \A i \in 1..Len(sent[k]) :
    /\ group_id(sent[k][i]) \in Groups
    /\ packet_number(sent[k][i]) \in Numbers \ {0}
    /\ wispr_mode(sent[k][i]) = 0

(***************************************************************************)
(* Within one life of the daemon, a session comes back to a slot of the    *)
(* egress table only after it has used all the others: any Window          *)
(* consecutive packets of a key have pairwise different slots, so the      *)
(* egress can tell them apart.                                             *)
(***************************************************************************)
WindowDistinct ==
  \A k \in Keys : \A i, j \in (epoch[k] + 1)..Len(sent[k]) :
    i < j /\ j - i < Window => Slot(sent[k][i]) # Slot(sent[k][j])

(***************************************************************************)
(* Striping: while a session lasts, its consecutive packets are spread     *)
(* over the paths in turn, so any NUMBEROFPATHS consecutive ones travel on *)
(* NUMBEROFPATHS different paths.                                          *)
(***************************************************************************)
Striped ==
  \A k \in Keys : \A i, j \in (epoch[k] + 1)..Len(sent[k]) :
    i < j /\ j - i < NUMBEROFPATHS
      => packet_number(sent[k][i]) # packet_number(sent[k][j])
=============================================================================
