------------------------------ MODULE WisprTag ------------------------------
(***************************************************************************)
(* The 16-bit VLAN tag a WISPR daemon writes on every packet it forwards   *)
(* (wispr_proto.c).  Bits 0-3 are the number of the packet in its group,   *)
(* which selects the path through the fabric; bits 4-7 are the group; bits *)
(* 8-11 are the mode: 0 for the copy that travels on the path of that      *)
(* number, 1 for its mirror copy.  The C code masks and shifts; here a     *)
(* mask is a remainder and a shift a quotient.  Both halves of the daemon  *)
(* keep their sessions by the pair of IP addresses of the packet.          *)
(***************************************************************************)
EXTENDS Integers

CONSTANTS
  Keys,            \* the (src_ip, dst_ip) pairs that have traffic
  NUMBEROFPATHS,   \* wispr_proto.h: packets in a group, 5 in the build
  NUMBEROFGROUPS   \* wispr_proto.h: groups before a slot is reused, 2 in the build

(***************************************************************************)
(* Both have to fit the four bits of their field of the tag.               *)
(***************************************************************************)
ASSUME PathsAssumption == NUMBEROFPATHS \in 1..15
ASSUME GroupsAssumption == NUMBEROFGROUPS \in 1..15

\* uint16_t: two bytes.
UInt16 == 0..(256 * 256 - 1)

packet_number(vlan_id) == vlan_id % 16
group_id(vlan_id) == (vlan_id \div 16) % 16
wispr_mode(vlan_id) == (vlan_id \div 256) % 16

(***************************************************************************)
(* Ways to get NextTag wrong: the group wraps one too late; a group ends   *)
(* one packet early.                                                       *)
(***************************************************************************)
NextTagLateWrap(vlan_id) ==
  IF packet_number(vlan_id) = NUMBEROFPATHS
    THEN LET bumped == (vlan_id - packet_number(vlan_id) + 1 + 16) % (256 * 256)
         IN  IF group_id(bumped) > NUMBEROFGROUPS
               THEN bumped - 16 * group_id(bumped)
               ELSE bumped
    ELSE (vlan_id + 1) % (256 * 256)

NextTagShortGroup(vlan_id) ==
  IF packet_number(vlan_id) = NUMBEROFPATHS - 1
    THEN LET bumped == (vlan_id - packet_number(vlan_id) + 1 + 16) % (256 * 256)
         IN  IF group_id(bumped) = NUMBEROFGROUPS
               THEN bumped - 16 * group_id(bumped)
               ELSE bumped
    ELSE (vlan_id + 1) % (256 * 256)

(***************************************************************************)
(* The tag of the next packet of a session whose last tag was vlan_id: the *)
(* next number of the group, or number 1 of the next group.  All additions *)
(* are on a uint16_t.                                                      *)
(***************************************************************************)
NextTag(vlan_id) ==
  IF packet_number(vlan_id) = NUMBEROFPATHS
    THEN LET bumped == (vlan_id - packet_number(vlan_id) + 1 + 16) % (256 * 256)
         IN  IF group_id(bumped) = NUMBEROFGROUPS
               THEN bumped - 16 * group_id(bumped)
               ELSE bumped
    ELSE (vlan_id + 1) % (256 * 256)

(***************************************************************************)
(* MirrorTag gone wrong: both copies carry the same tag.                   *)
(***************************************************************************)
MirrorTagSame(vlan_id) == vlan_id

(***************************************************************************)
(* vlan_id | 0x0100, the tag of the mirror copy.                           *)
(***************************************************************************)
MirrorTag(vlan_id) ==
  IF (vlan_id \div 256) % 2 = 0 THEN vlan_id + 256 ELSE vlan_id

(***************************************************************************)
(* The two tags one packet is sent with.                                   *)
(***************************************************************************)
CopyTags(vlan_id) == {vlan_id, MirrorTag(vlan_id)}

(***************************************************************************)
(* The index ranges of the egress table tv[NUMBEROFGROUPS][NUMBEROFPATHS+1].*)
(***************************************************************************)
Groups == 0..(NUMBEROFGROUPS - 1)
Numbers == 0..NUMBEROFPATHS

(***************************************************************************)
(* The tags a packet can travel with: number, group and mode.              *)
(***************************************************************************)
Tags == {256 * m + 16 * g + n : m \in {0, 1}, g \in Groups, n \in Numbers \ {0}}

(***************************************************************************)
(* The entry of the egress table a tag selects, and the number of slots a  *)
(* session cycles through before it comes back to the same one.            *)
(***************************************************************************)
Slot(vlan_id) == <<group_id(vlan_id), packet_number(vlan_id)>>
Window == NUMBEROFGROUPS * NUMBEROFPATHS
=============================================================================
