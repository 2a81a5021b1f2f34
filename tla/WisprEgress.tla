---------------------------- MODULE WisprEgress -----------------------------
(***************************************************************************)
(* The receiving half of a WISPR daemon: the table of the times at which a *)
(* packet last arrived in each slot, by which the second copy of a packet  *)
(* is told from a new packet (wispr_proto.c, process_wispr0_vlan).         *)
(***************************************************************************)
EXTENDS WisprTag

CONSTANT TIMEOUT   \* wispr_proto.h: 600 microseconds in the build

ASSUME TimeoutAssumption == TIMEOUT \in Nat

VARIABLE wisprmirt \* the mirror sessions: a table tv for every key that has one

NoMirrorSessions == [k \in {} |-> 0]

(***************************************************************************)
(* ZeroTable gone wrong: memory that was not zeroed.                       *)
(***************************************************************************)
UnsetTable == [g \in Groups |-> [n \in Numbers |-> -1]]

(***************************************************************************)
(* A new mirror session is zeroed memory: every slot was last used at the  *)
(* epoch of gettimeofday.                                                  *)
(***************************************************************************)
ZeroTable == [g \in Groups |-> [n \in Numbers |-> 0]]

get_or_add_mirror_session(k) ==
  IF k \in DOMAIN wisprmirt THEN wisprmirt[k] ELSE ZeroTable

(***************************************************************************)
(* When a packet was last passed on in slot <<g, n>> of key k.             *)
(***************************************************************************)
Stamp(k, g, n) == get_or_add_mirror_session(k)[g][n]

time_diff(x, y) == y - x

(***************************************************************************)
(* The test of process_wispr0_vlan: has the slot of the tag been unused    *)
(* for more than TIMEOUT at time tv?  With a single path nothing is ever   *)
(* dropped.                                                                *)
(***************************************************************************)
HasntBeenSeen(k, vlan_id, tv) ==
  \/ time_diff(Stamp(k, group_id(vlan_id), packet_number(vlan_id)), tv) > TIMEOUT
  \/ NUMBEROFPATHS = 1

(***************************************************************************)
(* process_wispr0_vlan gone wrong: the slot is not stamped.                *)
(***************************************************************************)
NoStamp(k, vlan_id, tv) ==
  wisprmirt' = [j \in DOMAIN wisprmirt \cup {k} |->
                  IF j # k THEN wisprmirt[j] ELSE get_or_add_mirror_session(k)]

(***************************************************************************)
(* The table after the arrival of a copy at time tv: its session exists,   *)
(* and its slot is stamped if the copy is passed on.  The stamp of a slot  *)
(* is not refreshed by a copy that is dropped.  A parity packet (mode 3)   *)
(* is ignored.                                                             *)
(***************************************************************************)
process_wispr0_vlan(k, vlan_id, tv) ==
  wisprmirt' =
    IF wispr_mode(vlan_id) = 3
      THEN wisprmirt
      ELSE [j \in DOMAIN wisprmirt \cup {k} |->
             IF j # k THEN wisprmirt[j]
             ELSE IF HasntBeenSeen(k, vlan_id, tv)
               THEN [get_or_add_mirror_session(k)
                       EXCEPT ![group_id(vlan_id)][packet_number(vlan_id)] = tv]
               ELSE get_or_add_mirror_session(k)]

(***************************************************************************)
(* PassesOn gone wrong: the mirror copies are ignored.                     *)
(***************************************************************************)
PassesOnOriginal(k, vlan_id, tv) ==
  wispr_mode(vlan_id) = 0 /\ HasntBeenSeen(k, vlan_id, tv)

(***************************************************************************)
(* Whether the copy is stripped of its tag and sent on to the host.        *)
(***************************************************************************)
PassesOn(k, vlan_id, tv) ==
  wispr_mode(vlan_id) # 3 /\ HasntBeenSeen(k, vlan_id, tv)

(***************************************************************************)
(* The type of the table.                                                  *)
(***************************************************************************)
EgressTypeOK ==
  \E S \in SUBSET Keys : wisprmirt \in [S -> [Groups -> [Numbers -> Nat]]]
=============================================================================
