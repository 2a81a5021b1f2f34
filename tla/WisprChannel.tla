---------------------------- MODULE WisprChannel ----------------------------
(***************************************************************************)
(* What a pair of WISPR daemons promises to the two hosts behind them: a   *)
(* channel that carries every packet as two copies, tries to hand the      *)
(* first copy that arrives to the receiver, and discards the other.  A     *)
(* packet is lost only when both of its copies are lost or when that one   *)
(* hand-over fails: it is not tried again with the other copy.  Nothing is *)
(* said about tags, slots, clocks or sessions.                             *)
(***************************************************************************)
EXTENDS Naturals

CONSTANTS
  Keys,        \* the flows
  Labels,      \* what tells the two copies of a packet apart
  MaxPackets   \* bound: packets per flow

VARIABLES
  accepted,    \* accepted[k]: packets of flow k taken over from the sender
  transit,     \* the copies on their way
  lost,        \* the copies that will never arrive
  taken,       \* taken[k][n]: how often packet n of k was about to be handed over
  arrivals     \* arrivals[k][n]: how often packet n of k was given to the receiver

channelVars == <<accepted, transit, lost, taken, arrivals>>

ChannelInit ==
  /\ accepted = [k \in Keys |-> 0]
  /\ transit = {}
  /\ lost = {}
  /\ taken = [k \in Keys |-> [n \in 1..MaxPackets |-> 0]]
  /\ arrivals = [k \in Keys |-> [n \in 1..MaxPackets |-> 0]]

(***************************************************************************)
(* A packet enters the channel as two copies; some of them may be lost at  *)
(* once.                                                                   *)
(***************************************************************************)
Accept(k) ==
  /\ accepted[k] < MaxPackets
  /\ accepted' = [accepted EXCEPT ![k] = @ + 1]
  /\ \E a, b \in Labels :
       /\ a # b
       /\ \E ok \in SUBSET {a, b} :
            /\ transit' = transit \cup {[key |-> k, n |-> accepted[k] + 1, vlan_id |-> l] :
                                        l \in ok}
            /\ lost' = lost \cup {[key |-> k, n |-> accepted[k] + 1, vlan_id |-> l] :
                                  l \in {a, b} \ ok}
  /\ UNCHANGED <<taken, arrivals>>

(***************************************************************************)
(* A copy arrives: the first one of a packet is handed over, which may     *)
(* fail, and any other is discarded.                                       *)
(***************************************************************************)
Deliver(c) ==
  /\ c \in transit
  /\ taken[c.key][c.n] = 0
  /\ transit' = transit \ {c}
  /\ taken' = [taken EXCEPT ![c.key][c.n] = 1]
  /\ \/ arrivals' = [arrivals EXCEPT ![c.key][c.n] = 1]
     \/ arrivals' = arrivals
  /\ UNCHANGED <<accepted, lost>>

Discard(c) ==
  /\ c \in transit
  /\ taken[c.key][c.n] = 1
  /\ transit' = transit \ {c}
  /\ UNCHANGED <<accepted, lost, taken, arrivals>>

LoseCopy(c) ==
  /\ c \in transit
  /\ transit' = transit \ {c}
  /\ lost' = lost \cup {c}
  /\ UNCHANGED <<accepted, taken, arrivals>>

ChannelNext ==
  \/ \E k \in Keys : Accept(k)
  \/ \E c \in transit : Deliver(c) \/ Discard(c) \/ LoseCopy(c)

ChannelSpec == ChannelInit /\ [][ChannelNext]_channelVars
=============================================================================
