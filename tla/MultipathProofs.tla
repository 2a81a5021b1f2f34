-------------------------- MODULE MultipathProofs ---------------------------
(***************************************************************************)
(* The controller application, for every network: the nodes of its graph   *)
(* always have datapaths, a link that was discovered in both directions    *)
(* can be used once the events about it have been handled, a host is known *)
(* at the port it is plugged into, and the paths that are installed for a  *)
(* pair of hosts take its packets from one to the other.  The first two    *)
(* are matters of the order of the events in the queue, the third one of   *)
(* where the frames of a host can be before the application has heard of   *)
(* it, and the last one of what was last said to a switch about a match,   *)
(* in its table or still on the way to it.                                 *)
(***************************************************************************)
EXTENDS Multipath, FiniteSetTheorems, NaturalsInduction, SequenceTheorems,
        WellFoundedInduction, TLAPS

IsSeq(q) == \E T : q \in Seq(T)

-----------------------------------------------------------------------------
(***************************************************************************)
(* Queues.                                                                 *)
(***************************************************************************)
LEMMA SeqLen ==
  ASSUME NEW q, IsSeq(q)
  PROVE  Len(q) \in Nat /\ DOMAIN q = 1..Len(q)
BY DEF IsSeq

LEMMA SeqTail ==
  ASSUME NEW q, IsSeq(q), q # << >>
  PROVE  /\ IsSeq(Tail(q)) /\ Head(q) = q[1] /\ Len(q) >= 1
         /\ Len(Tail(q)) = Len(q) - 1
         /\ \A i \in 1..(Len(q) - 1) : Tail(q)[i] = q[i + 1]
<1>1. PICK T : q \in Seq(T)
  BY DEF IsSeq
<1>2. /\ Tail(q) \in Seq(T) /\ Head(q) = q[1] /\ Len(q) >= 1
      /\ Len(Tail(q)) = Len(q) - 1
      /\ \A i \in 1..(Len(q) - 1) : Tail(q)[i] = q[i + 1]
  BY <1>1
<1> QED BY <1>2 DEF IsSeq

LEMMA SeqConcat ==
  ASSUME NEW q, NEW r, IsSeq(q), IsSeq(r)
  PROVE  /\ IsSeq(q \o r) /\ Len(q \o r) = Len(q) + Len(r)
         /\ \A i \in 1..Len(q) : (q \o r)[i] = q[i]
         /\ \A i \in 1..Len(r) : (q \o r)[Len(q) + i] = r[i]
         /\ \A i \in (Len(q) + 1)..(Len(q) + Len(r)) :
              i - Len(q) \in 1..Len(r) /\ (q \o r)[i] = r[i - Len(q)]
<1>1. PICK T : q \in Seq(T)
  BY DEF IsSeq
<1>2. PICK U : r \in Seq(U)
  BY DEF IsSeq
<1> DEFINE V == T \cup U
<1>3. q \in Seq(V) /\ r \in Seq(V)
  BY <1>1, <1>2
<1> HIDE DEF V
<1>4. q \o r \in Seq(V) /\ Len(q \o r) = Len(q) + Len(r)
      /\ Len(q) \in Nat /\ Len(r) \in Nat
  BY <1>3
<1>5. \A i \in 1..(Len(q) + Len(r)) : (q \o r)[i] = IF i <= Len(q) THEN q[i] ELSE r[i - Len(q)]
  BY <1>3
<1>6. \A i \in 1..Len(q) : (q \o r)[i] = q[i]
  BY <1>4, <1>5
<1>7. \A i \in 1..Len(r) : (q \o r)[Len(q) + i] = r[i]
  <2> TAKE i \in 1..Len(r)
  <2>1. Len(q) + i \in 1..(Len(q) + Len(r)) /\ ~(Len(q) + i <= Len(q))
        /\ (Len(q) + i) - Len(q) = i
    BY <1>4
  <2> QED BY <2>1, <1>5
<1>8. \A i \in (Len(q) + 1)..(Len(q) + Len(r)) :
        i - Len(q) \in 1..Len(r) /\ (q \o r)[i] = r[i - Len(q)]
  <2> TAKE i \in (Len(q) + 1)..(Len(q) + Len(r))
  <2>1. i \in 1..(Len(q) + Len(r)) /\ ~(i <= Len(q)) /\ i - Len(q) \in 1..Len(r)
    BY <1>4
  <2> QED BY <2>1, <1>5
<1> QED BY <1>4, <1>6, <1>7, <1>8 DEF IsSeq

LEMMA SeqOne ==
  ASSUME NEW e
  PROVE  /\ IsSeq(<<e>>) /\ Len(<<e>>) = 1 /\ <<e>>[1] = e
         /\ \A q : IsSeq(q) => Append(q, e) = q \o <<e>>
         /\ IsSeq(<< >>) /\ Len(<< >>) = 0
<1>1. <<e>> \in Seq({e}) /\ Len(<<e>>) = 1 /\ <<e>>[1] = e
  OBVIOUS
<1>2. ASSUME NEW q, IsSeq(q) PROVE Append(q, e) = q \o <<e>>
  <2>1. PICK T : q \in Seq(T)
    BY <1>2 DEF IsSeq
  <2> DEFINE V == T \cup {e}
  <2>2. q \in Seq(V) /\ e \in V
    BY <2>1
  <2> HIDE DEF V
  <2> QED BY <2>2, AppendIsConcat
<1>3. << >> \in Seq({}) /\ Len(<< >>) = 0
  OBVIOUS
<1> QED BY <1>1, <1>2, <1>3 DEF IsSeq

-----------------------------------------------------------------------------
(***************************************************************************)
(* Switch s is known when the first i events of queue q have been handled, *)
(* where D are the switches known now.                                     *)
(***************************************************************************)
Enters(e, s) == e.type = "switch_enter" /\ e.x = s
Leaves(e, s) == e.type = "switch_leave" /\ e.x = s

KnownAt(q, D, s, i) ==
  \/ \E j \in 1..i : Enters(q[j], s) /\ \A k \in (j + 1)..i : ~Leaves(q[k], s)
  \/ s \in D /\ \A k \in 1..i : ~Leaves(q[k], s)

(***************************************************************************)
(* Link l can be used when queue q has been handled, where g and adj are   *)
(* the graph and the ports now.                                            *)
(***************************************************************************)
Adds(e, l) == e.type = "link_add" /\ e.x \in {l, Rev(l)}
Spoils(e, l) ==
  \/ e.type = "link_delete" /\ e.x \in {l, Rev(l)}
  \/ e.type = "switch_leave" /\ e.x \in {l[1], l[3]}

Usable(g, adj, l) ==
  /\ {<<l[1], l[3]>>, <<l[3], l[1]>>} \subseteq g.edges
  /\ {<<l[1], l[3]>>, <<l[3], l[1]>>} \subseteq DOMAIN adj
  /\ adj[<<l[1], l[3]>>] = l[2] /\ adj[<<l[3], l[1]>>] = l[4]

UsableAfter(q, g, adj, l) ==
  \/ \E i \in 1..Len(q) : Adds(q[i], l) /\ \A k \in (i + 1)..Len(q) : ~Spoils(q[k], l)
  \/ Usable(g, adj, l) /\ \A k \in 1..Len(q) : ~Spoils(q[k], l)

(***************************************************************************)
(* The events about links are about cables; a link is announced after its  *)
(* switches and before they are withdrawn; a switch that is connected will *)
(* be known; and a link that is known in both directions will be usable.   *)
(***************************************************************************)
LinkEvents(q) ==
  \A i \in 1..Len(q) : q[i].type \in {"link_add", "link_delete"} => q[i].x \in Cables

AddsInTime(q, D) ==
  \A i \in 1..Len(q) : q[i].type = "link_add" =>
    KnownAt(q, D, q[i].x[1], i) /\ KnownAt(q, D, q[i].x[3], i)

LiveAreKnown(q, D) ==
  \A s \in Switches : conn[s].live => KnownAt(q, D, s, Len(q))

BothWaysUsable(q, g, adj) ==
  \A l \in links : Rev(l) \in links => UsableAfter(q, g, adj, l)

TopoTypes ==
  /\ net \in Networks
  /\ IsSeq(events)
  /\ conn \in [Switches -> [n : Nat, live : BOOLEAN]]
  /\ links \subseteq Cables /\ up \subseteq Cables
  /\ G = [nodes |-> G.nodes, edges |-> G.edges]

KnownInv ==
  /\ TopoTypes
  /\ AddsInTime(events, DOMAIN datapath_list)
  /\ LiveAreKnown(events, DOMAIN datapath_list)
  /\ NodesHaveDatapaths

UsableInv ==
  /\ TopoTypes
  /\ LinkEvents(events)
  /\ BothWaysUsable(events, G, adjacency)

-----------------------------------------------------------------------------
(***************************************************************************)
(* How the queue grows: events r are put behind q.                         *)
(***************************************************************************)
LEMMA KnownGrows ==
  ASSUME NEW q, NEW r, IsSeq(q), IsSeq(r), NEW D, NEW s
  PROVE  /\ \A i \in 0..Len(q) : KnownAt(q, D, s, i) => KnownAt(q \o r, D, s, i)
         /\ (KnownAt(q, D, s, Len(q)) /\ \A k \in 1..Len(r) : ~Leaves(r[k], s))
              => KnownAt(q \o r, D, s, Len(q \o r))
<1> DEFINE t == q \o r
<1>1. /\ Len(t) = Len(q) + Len(r) /\ Len(q) \in Nat /\ Len(r) \in Nat
      /\ \A i \in 1..Len(q) : t[i] = q[i]
      /\ \A i \in (Len(q) + 1)..(Len(q) + Len(r)) :
              i - Len(q) \in 1..Len(r) /\ t[i] = r[i - Len(q)]
  BY SeqConcat, SeqLen
<1> HIDE DEF t
<1>2. ASSUME NEW i \in 0..Len(q), KnownAt(q, D, s, i) PROVE KnownAt(t, D, s, i)
  <2>1. \A k \in 1..i : t[k] = q[k]
    BY <1>1
  <2>2. CASE \E j \in 1..i : Enters(q[j], s) /\ \A k \in (j + 1)..i : ~Leaves(q[k], s)
    <3>1. PICK j \in 1..i : Enters(q[j], s) /\ \A k \in (j + 1)..i : ~Leaves(q[k], s)
      BY <2>2
    <3>2. t[j] = q[j] /\ \A k \in (j + 1)..i : t[k] = q[k]
      BY <2>1, <1>1
    <3> QED BY <3>1, <3>2 DEF KnownAt
  <2>3. CASE s \in D /\ \A k \in 1..i : ~Leaves(q[k], s)
    BY <2>1, <2>3 DEF KnownAt
  <2> QED BY <1>2, <2>2, <2>3 DEF KnownAt
<1>3. ASSUME KnownAt(q, D, s, Len(q)), \A k \in 1..Len(r) : ~Leaves(r[k], s)
      PROVE  KnownAt(t, D, s, Len(t))
  <2>1. \A k \in (Len(q) + 1)..Len(t) : ~Leaves(t[k], s)
    BY <1>1, <1>3
  <2>2. CASE \E j \in 1..Len(q) : Enters(q[j], s) /\ \A k \in (j + 1)..Len(q) : ~Leaves(q[k], s)
    <3>1. PICK j \in 1..Len(q) : Enters(q[j], s) /\ \A k \in (j + 1)..Len(q) : ~Leaves(q[k], s)
      BY <2>2
    <3>2. j \in 1..Len(t) /\ Enters(t[j], s)
      BY <3>1, <1>1
    <3>3. \A k \in (j + 1)..Len(t) : ~Leaves(t[k], s)
      <4> TAKE k \in (j + 1)..Len(t)
      <4>1. CASE k <= Len(q)
        BY <3>1, <4>1, <1>1
      <4>2. CASE k > Len(q)
        BY <2>1, <4>2, <1>1
      <4> QED BY <4>1, <4>2, <1>1
    <3> QED BY <3>2, <3>3 DEF KnownAt
  <2>3. CASE s \in D /\ \A k \in 1..Len(q) : ~Leaves(q[k], s)
    <3>1. \A k \in 1..Len(t) : ~Leaves(t[k], s)
      <4> TAKE k \in 1..Len(t)
      <4>1. CASE k <= Len(q)
        BY <2>3, <4>1, <1>1
      <4>2. CASE k > Len(q)
        BY <2>1, <4>2, <1>1
      <4> QED BY <4>1, <4>2, <1>1
    <3> QED BY <2>3, <3>1 DEF KnownAt
  <2> QED BY <1>3, <2>2, <2>3 DEF KnownAt
<1> QED BY <1>2, <1>3 DEF t

LEMMA AddsInTimeGrows ==
  ASSUME NEW q, NEW r, IsSeq(q), IsSeq(r), NEW D, AddsInTime(q, D),
         \A k \in 1..Len(r) : r[k].type # "link_add"
  PROVE  AddsInTime(q \o r, D)
<1> DEFINE t == q \o r
<1>1. /\ Len(t) = Len(q) + Len(r) /\ Len(q) \in Nat /\ Len(r) \in Nat
      /\ \A i \in 1..Len(q) : t[i] = q[i]
      /\ \A i \in (Len(q) + 1)..(Len(q) + Len(r)) :
              i - Len(q) \in 1..Len(r) /\ t[i] = r[i - Len(q)]
  BY SeqConcat, SeqLen
<1>2. \A s : \A i \in 0..Len(q) : KnownAt(q, D, s, i) => KnownAt(t, D, s, i)
  BY KnownGrows
<1> HIDE DEF t
<1>3. AddsInTime(t, D)
  <2> SUFFICES ASSUME NEW i \in 1..Len(t), t[i].type = "link_add"
               PROVE  KnownAt(t, D, t[i].x[1], i) /\ KnownAt(t, D, t[i].x[3], i)
    BY DEF AddsInTime
  <2>1. i \in 1..Len(q)
    BY <1>1
  <2>2. t[i] = q[i] /\ i \in 0..Len(q)
    BY <2>1, <1>1
  <2> QED BY <2>1, <2>2, <1>2 DEF AddsInTime
<1> QED BY <1>3 DEF t

LEMMA AddsInTimeAppend ==
  ASSUME NEW q, IsSeq(q), NEW D, AddsInTime(q, D), NEW e, e.type = "link_add",
         KnownAt(q, D, e.x[1], Len(q)), KnownAt(q, D, e.x[3], Len(q))
  PROVE  AddsInTime(Append(q, e), D)
<1> DEFINE t == q \o <<e>>
<1>1. /\ Len(t) = Len(q) + 1 /\ Len(q) \in Nat /\ t = Append(q, e)
      /\ \A i \in 1..Len(q) : t[i] = q[i]
      /\ t[Len(q) + 1] = e
  <2>1. IsSeq(<<e>>) /\ Len(<<e>>) = 1 /\ <<e>>[1] = e /\ Append(q, e) = q \o <<e>>
    BY SeqOne
  <2>2. 1 \in 1..Len(<<e>>)
    BY <2>1
  <2> QED BY <2>1, <2>2, SeqConcat, SeqLen
<1>2. \A s : \A i \in 0..Len(q) : KnownAt(q, D, s, i) => KnownAt(t, D, s, i)
  BY SeqOne, KnownGrows
<1>3. \A s : KnownAt(q, D, s, Len(q)) => KnownAt(t, D, s, Len(t))
  <2>1. \A s : ~Leaves(e, s)
    BY DEF Leaves
  <2>2. IsSeq(<<e>>) /\ \A s : \A k \in 1..Len(<<e>>) : ~Leaves(<<e>>[k], s)
    BY <2>1, SeqOne
  <2> HIDE DEF Leaves
  <2> QED BY <2>2, KnownGrows
<1> HIDE DEF t
<1>4. AddsInTime(t, D)
  <2> SUFFICES ASSUME NEW i \in 1..Len(t), t[i].type = "link_add"
               PROVE  KnownAt(t, D, t[i].x[1], i) /\ KnownAt(t, D, t[i].x[3], i)
    BY DEF AddsInTime
  <2>1. CASE i \in 1..Len(q)
    <3>1. t[i] = q[i] /\ i \in 0..Len(q)
      BY <2>1, <1>1
    <3> QED BY <2>1, <3>1, <1>2 DEF AddsInTime
  <2>2. CASE i = Len(t)
    BY <2>2, <1>1, <1>3
  <2> QED BY <2>1, <2>2, <1>1
<1> QED BY <1>1, <1>4

LEMMA UsableGrows ==
  ASSUME NEW q, NEW r, IsSeq(q), IsSeq(r), NEW g, NEW adj, NEW l,
         UsableAfter(q, g, adj, l), \A k \in 1..Len(r) : ~Spoils(r[k], l)
  PROVE  UsableAfter(q \o r, g, adj, l)
<1> DEFINE t == q \o r
<1>1. /\ Len(t) = Len(q) + Len(r) /\ Len(q) \in Nat /\ Len(r) \in Nat
      /\ \A i \in 1..Len(q) : t[i] = q[i]
      /\ \A i \in (Len(q) + 1)..(Len(q) + Len(r)) :
              i - Len(q) \in 1..Len(r) /\ t[i] = r[i - Len(q)]
  BY SeqConcat, SeqLen
<1> HIDE DEF t
<1>2. \A k \in (Len(q) + 1)..Len(t) : ~Spoils(t[k], l)
  BY <1>1
<1>3. CASE \E i \in 1..Len(q) : Adds(q[i], l) /\ \A k \in (i + 1)..Len(q) : ~Spoils(q[k], l)
  <2>1. PICK i \in 1..Len(q) : Adds(q[i], l) /\ \A k \in (i + 1)..Len(q) : ~Spoils(q[k], l)
    BY <1>3
  <2>2. i \in 1..Len(t) /\ Adds(t[i], l)
    BY <2>1, <1>1
  <2>3. \A k \in (i + 1)..Len(t) : ~Spoils(t[k], l)
    <3> TAKE k \in (i + 1)..Len(t)
    <3>1. CASE k <= Len(q)
      BY <2>1, <3>1, <1>1
    <3>2. CASE k > Len(q)
      BY <1>2, <3>2, <1>1
    <3> QED BY <3>1, <3>2, <1>1
  <2> QED BY <2>2, <2>3 DEF UsableAfter, t
<1>4. CASE Usable(g, adj, l) /\ \A k \in 1..Len(q) : ~Spoils(q[k], l)
  <2>1. \A k \in 1..Len(t) : ~Spoils(t[k], l)
    <3> TAKE k \in 1..Len(t)
    <3>1. CASE k <= Len(q)
      BY <1>4, <3>1, <1>1
    <3>2. CASE k > Len(q)
      BY <1>2, <3>2, <1>1
    <3> QED BY <3>1, <3>2, <1>1
  <2> QED BY <2>1, <1>4 DEF UsableAfter, t
<1> QED BY <1>3, <1>4 DEF UsableAfter

LEMMA UsableAppend ==
  ASSUME NEW q, IsSeq(q), NEW g, NEW adj, NEW l, NEW e, Adds(e, l)
  PROVE  UsableAfter(Append(q, e), g, adj, l)
<1> DEFINE t == q \o <<e>>
<1>1. Len(t) = Len(q) + 1 /\ Len(q) \in Nat /\ t = Append(q, e) /\ t[Len(q) + 1] = e
  <2>1. IsSeq(<<e>>) /\ Len(<<e>>) = 1 /\ <<e>>[1] = e /\ Append(q, e) = q \o <<e>>
    BY SeqOne
  <2>2. 1 \in 1..Len(<<e>>)
    BY <2>1
  <2> QED BY <2>1, <2>2, SeqConcat, SeqLen
<1> HIDE DEF t
<1>2. Len(t) \in 1..Len(t) /\ Adds(t[Len(t)], l) /\ \A k \in (Len(t) + 1)..Len(t) : ~Spoils(t[k], l)
  BY <1>1
<1>3. UsableAfter(t, g, adj, l)
  BY <1>2 DEF UsableAfter
<1> QED BY <1>1, <1>3

(***************************************************************************)
(* How it shrinks: its first event is handled.                             *)
(***************************************************************************)
LEMMA KnownShrinks ==
  ASSUME NEW q, IsSeq(q), q # << >>, NEW D, NEW E, NEW s,
         Enters(Head(q), s) => s \in E,
         (s \in D /\ ~Leaves(Head(q), s)) => s \in E,
         NEW i \in 1..Len(q), KnownAt(q, D, s, i)
  PROVE  KnownAt(Tail(q), E, s, i - 1)
<1> DEFINE t == Tail(q)
<1>1. /\ Head(q) = q[1] /\ Len(q) \in Nat /\ Len(q) >= 1 /\ Len(t) = Len(q) - 1
      /\ \A k \in 1..(Len(q) - 1) : t[k] = q[k + 1]
  BY SeqTail, SeqLen
<1> HIDE DEF t
<1>2. ASSUME NEW m \in 1..i, \A k \in (m + 1)..i : ~Leaves(q[k], s)
      PROVE  \A k \in m..(i - 1) : ~Leaves(t[k], s)
  <2> TAKE k \in m..(i - 1)
  <2>1. k + 1 \in (m + 1)..i /\ k \in 1..(Len(q) - 1)
    BY <1>1
  <2> QED BY <2>1, <1>1, <1>2
<1>3. ASSUME NEW j \in 1..i, Enters(q[j], s), \A k \in (j + 1)..i : ~Leaves(q[k], s)
      PROVE  KnownAt(t, E, s, i - 1)
  <2>1. \A k \in j..(i - 1) : ~Leaves(t[k], s)
    BY <1>2, <1>3
  <2>2. CASE j = 1
    BY <2>1, <2>2, <1>1, <1>3 DEF KnownAt
  <2>3. CASE j # 1
    <3>1. j - 1 \in 1..(i - 1) /\ (j - 1) + 1 = j /\ j - 1 \in 1..(Len(q) - 1)
      BY <2>3, <1>1
    <3>2. Enters(t[j - 1], s)
      BY <3>1, <1>1, <1>3
    <3>3. \A k \in ((j - 1) + 1)..(i - 1) : ~Leaves(t[k], s)
      BY <2>1, <3>1
    <3> QED BY <3>1, <3>2, <3>3 DEF KnownAt
  <2> QED BY <2>2, <2>3
<1>4. CASE s \in D /\ \A k \in 1..i : ~Leaves(q[k], s)
  <2>1. ~Leaves(Head(q), s) /\ \A k \in (1 + 1)..i : ~Leaves(q[k], s)
    BY <1>1, <1>4
  <2>2. \A k \in 1..(i - 1) : ~Leaves(t[k], s)
    BY <2>1, <1>2
  <2> QED BY <2>1, <2>2, <1>4 DEF KnownAt
<1> QED BY <1>3, <1>4 DEF KnownAt, t

LEMMA AddsInTimeShrinks ==
  ASSUME NEW q, IsSeq(q), q # << >>, NEW D, NEW E, AddsInTime(q, D),
         \A s : Enters(Head(q), s) => s \in E,
         \A s \in D : ~Leaves(Head(q), s) => s \in E
  PROVE  AddsInTime(Tail(q), E)
<1> DEFINE t == Tail(q)
<1>1. /\ Len(q) \in Nat /\ Len(q) >= 1 /\ Len(t) = Len(q) - 1
      /\ \A k \in 1..(Len(q) - 1) : t[k] = q[k + 1]
  BY SeqTail, SeqLen
<1>2. \A s : \A i \in 1..Len(q) : KnownAt(q, D, s, i) => KnownAt(t, E, s, i - 1)
  BY KnownShrinks
<1> HIDE DEF t
<1>3. AddsInTime(t, E)
  <2> SUFFICES ASSUME NEW i \in 1..Len(t), t[i].type = "link_add"
               PROVE  KnownAt(t, E, t[i].x[1], i) /\ KnownAt(t, E, t[i].x[3], i)
    BY DEF AddsInTime
  <2>1. i + 1 \in 1..Len(q) /\ t[i] = q[i + 1] /\ (i + 1) - 1 = i
    BY <1>1
  <2>2. KnownAt(q, D, t[i].x[1], i + 1) /\ KnownAt(q, D, t[i].x[3], i + 1)
    BY <2>1 DEF AddsInTime
  <2> QED BY <2>1, <2>2, <1>2
<1> QED BY <1>3 DEF t

LEMMA UsableShrinks ==
  ASSUME NEW q, IsSeq(q), q # << >>, NEW g, NEW adj, NEW h, NEW badj, NEW l,
         UsableAfter(q, g, adj, l),
         Adds(Head(q), l) => Usable(h, badj, l),
         (Usable(g, adj, l) /\ ~Spoils(Head(q), l)) => Usable(h, badj, l)
  PROVE  UsableAfter(Tail(q), h, badj, l)
<1> DEFINE t == Tail(q)
<1>1. /\ Head(q) = q[1] /\ Len(q) \in Nat /\ Len(q) >= 1 /\ Len(t) = Len(q) - 1
      /\ \A k \in 1..(Len(q) - 1) : t[k] = q[k + 1]
  BY SeqTail, SeqLen
<1> HIDE DEF t
<1>2. ASSUME NEW m \in 1..Len(q), \A k \in (m + 1)..Len(q) : ~Spoils(q[k], l)
      PROVE  \A k \in m..Len(t) : ~Spoils(t[k], l)
  <2> TAKE k \in m..Len(t)
  <2>1. k + 1 \in (m + 1)..Len(q) /\ k \in 1..(Len(q) - 1)
    BY <1>1
  <2> QED BY <2>1, <1>1, <1>2
<1>3. ASSUME NEW i \in 1..Len(q), Adds(q[i], l), \A k \in (i + 1)..Len(q) : ~Spoils(q[k], l)
      PROVE  UsableAfter(t, h, badj, l)
  <2>1. \A k \in i..Len(t) : ~Spoils(t[k], l)
    BY <1>2, <1>3
  <2>2. CASE i = 1
    BY <2>1, <2>2, <1>1, <1>3 DEF UsableAfter
  <2>3. CASE i # 1
    <3>1. i - 1 \in 1..Len(t) /\ (i - 1) + 1 = i /\ i - 1 \in 1..(Len(q) - 1)
      BY <2>3, <1>1
    <3>2. Adds(t[i - 1], l)
      BY <3>1, <1>1, <1>3
    <3>3. \A k \in ((i - 1) + 1)..Len(t) : ~Spoils(t[k], l)
      BY <2>1, <3>1
    <3> QED BY <3>1, <3>2, <3>3 DEF UsableAfter
  <2> QED BY <2>2, <2>3
<1>4. CASE Usable(g, adj, l) /\ \A k \in 1..Len(q) : ~Spoils(q[k], l)
  <2>1. 1 \in 1..Len(q) /\ ~Spoils(Head(q), l) /\ \A k \in (1 + 1)..Len(q) : ~Spoils(q[k], l)
    BY <1>1, <1>4
  <2>2. \A k \in 1..Len(t) : ~Spoils(t[k], l)
    BY <2>1, <1>2
  <2> QED BY <2>1, <2>2, <1>4 DEF UsableAfter
<1> QED BY <1>3, <1>4 DEF UsableAfter, t

-----------------------------------------------------------------------------
(***************************************************************************)
(* The network.                                                            *)
(***************************************************************************)
LEMMA CableFacts ==
  ASSUME net \in Networks, NEW l \in Cables
  PROVE  /\ l[1] \in Switches /\ l[3] \in Switches /\ l[1] # l[3]
         /\ l[2] \in PortNumbers /\ l[4] \in PortNumbers
         /\ Rev(l) \in Cables /\ Rev(Rev(l)) = l
         /\ Rev(l)[1] = l[3] /\ Rev(l)[2] = l[4] /\ Rev(l)[3] = l[1] /\ Rev(l)[4] = l[2]
<1>1. /\ net.cables \subseteq net.switches \X PortNumbers \X net.switches \X PortNumbers
      /\ l[1] # l[3] /\ Rev(l) \in net.cables
  BY MultipathConstants DEF Cables
<1>2. l \in net.switches \X PortNumbers \X net.switches \X PortNumbers
  BY <1>1 DEF Cables
<1>3. /\ l[1] \in net.switches /\ l[2] \in PortNumbers
      /\ l[3] \in net.switches /\ l[4] \in PortNumbers
      /\ l = <<l[1], l[2], l[3], l[4]>>
  BY <1>2
<1>4. /\ Rev(l)[1] = l[3] /\ Rev(l)[2] = l[4] /\ Rev(l)[3] = l[1] /\ Rev(l)[4] = l[2]
  BY DEF Rev
<1>5. Rev(Rev(l)) = l
  BY <1>3, <1>4 DEF Rev
<1> QED BY <1>1, <1>3, <1>4, <1>5 DEF Switches, Cables

LEMMA LinksFinite ==
  ASSUME TopoTypes
  PROVE  IsFiniteSet(links)
<1>1. IsFiniteSet(net.cables)
  BY MultipathConstants DEF TopoTypes
<1> QED BY <1>1, FS_Subset DEF TopoTypes, Cables

LEMMA DeletionEvents ==
  ASSUME TopoTypes, NEW gone, NEW del \in Deletions(gone)
  PROVE  /\ IsSeq(del)
         /\ \A i \in 1..Len(del) : /\ del[i].type = "link_delete"
                                   /\ del[i].x \in links
                                   /\ {del[i].x, Rev(del[i].x)} \cap gone # {}
<1> DEFINE all == {l \in links : {l, Rev(l)} \cap gone # {}}
           c == Cardinality(all)
<1>1. IsFiniteSet(all)
  BY LinksFinite, FS_Subset
<1>2. c \in Nat
  BY <1>1, FS_CardinalityType
<1>3. PICK q \in SetToSeqs(all) : del = [i \in DOMAIN q |-> TopologyEvent("link_delete", q[i], 0)]
  BY DEF Deletions
<1>4. q \in [1..c -> all]
  BY <1>3 DEF SetToSeqs
<1> HIDE DEF c
<1>5. del = [i \in 1..c |-> TopologyEvent("link_delete", q[i], 0)]
  BY <1>3, <1>4
<1>6. del \in Seq({TopologyEvent("link_delete", l, 0) : l \in all}) /\ Len(del) = c
  BY <1>2, <1>4, <1>5
<1>7. \A i \in 1..c : del[i].type = "link_delete" /\ del[i].x = q[i] /\ q[i] \in all
  BY <1>4, <1>5 DEF TopologyEvent
<1>8. \A i \in 1..Len(del) : /\ del[i].type = "link_delete"
                             /\ del[i].x \in links
                             /\ {del[i].x, Rev(del[i].x)} \cap gone # {}
  BY <1>6, <1>7
<1> QED BY <1>6, <1>8 DEF IsSeq

LEMMA DeleteEvent ==
  ASSUME NEW l
  PROVE  /\ IsSeq(LinkDelete(l))
         /\ \A i \in 1..Len(LinkDelete(l)) : /\ LinkDelete(l)[i].type = "link_delete"
                                             /\ LinkDelete(l)[i].x = l /\ l \in links
<1>1. CASE l \in links
  <2> DEFINE e == TopologyEvent("link_delete", l, 0)
  <2>1. LinkDelete(l) = <<e>>
    BY <1>1 DEF LinkDelete
  <2>2. e.type = "link_delete" /\ e.x = l
    BY DEF TopologyEvent
  <2> HIDE DEF e
  <2> QED BY <2>1, <2>2, <1>1, SeqOne
<1>2. CASE l \notin links
  <2>1. LinkDelete(l) = << >> /\ IsSeq(<< >>) /\ Len(<< >>) = 0
    BY <1>2, SeqOne DEF LinkDelete
  <2> QED BY <2>1
<1> QED BY <1>1, <1>2

-----------------------------------------------------------------------------
(***************************************************************************)
(* The steps of the queue, for the first invariant: events are added to    *)
(* it, or its first event is handled.                                      *)
(***************************************************************************)
LEMMA KnownStay ==
  ASSUME KnownInv, TopoTypes', UNCHANGED <<net, events, datapath_list, G>>,
         \A s \in Switches : conn'[s].live => conn[s].live
  PROVE  KnownInv'
<1>1. AddsInTime(events', DOMAIN datapath_list')
  BY DEF KnownInv
<1>2. LiveAreKnown(events, DOMAIN datapath_list)'
  BY DEF KnownInv, LiveAreKnown, Switches
<1> QED BY <1>1, <1>2 DEF KnownInv, NodesHaveDatapaths

LEMMA KnownGrow ==
  ASSUME KnownInv, TopoTypes', UNCHANGED <<net, datapath_list, G>>,
         NEW r, IsSeq(r), events' = events \o r,
         \A k \in 1..Len(r) : r[k].type # "link_add",
         \A s \in Switches : conn'[s].live =>
           \/ conn[s].live /\ \A k \in 1..Len(r) : ~Leaves(r[k], s)
           \/ KnownAt(events', DOMAIN datapath_list, s, Len(events'))
  PROVE  KnownInv'
<1> DEFINE D == DOMAIN datapath_list
<1>1. IsSeq(events)
  BY DEF KnownInv, TopoTypes
<1>2. AddsInTime(events', D)
  BY <1>1, AddsInTimeGrows DEF KnownInv
<1>3. ASSUME NEW s \in Switches, conn'[s].live PROVE KnownAt(events', D, s, Len(events'))
  <2>1. CASE conn[s].live /\ \A k \in 1..Len(r) : ~Leaves(r[k], s)
    <3>1. KnownAt(events, D, s, Len(events))
      BY <2>1 DEF KnownInv, LiveAreKnown
    <3> QED BY <3>1, <2>1, <1>1, KnownGrows
  <2> QED BY <2>1, <1>3
<1>4. LiveAreKnown(events, DOMAIN datapath_list)'
  BY <1>3 DEF LiveAreKnown, Switches
<1> QED BY <1>2, <1>4 DEF KnownInv, NodesHaveDatapaths

Handled ==
  \/ events' = Tail(events)
  \/ \E e : e.type = "port_desc" /\ events' = Append(Tail(events), e)

LEMMA KnownHandled ==
  ASSUME KnownInv, TopoTypes', UNCHANGED <<net, conn>>,
         events # << >>, Handled,
         \A s : Enters(Head(events), s) => s \in DOMAIN datapath_list',
         \A s \in DOMAIN datapath_list : ~Leaves(Head(events), s) => s \in DOMAIN datapath_list',
         NodesHaveDatapaths'
  PROVE  KnownInv'
<1> DEFINE D == DOMAIN datapath_list
           E == DOMAIN datapath_list'
<1>1. IsSeq(events)
  BY DEF KnownInv, TopoTypes
<1> DEFINE t == Tail(events)
<1>2. AddsInTime(t, E)
  BY <1>1, AddsInTimeShrinks DEF KnownInv
<1>3. /\ Len(events) \in Nat /\ Len(events) \in 1..Len(events) /\ Len(t) = Len(events) - 1
      /\ IsSeq(t)
  BY <1>1, SeqLen, SeqTail
<1>4. ASSUME NEW s \in Switches, conn'[s].live PROVE KnownAt(t, E, s, Len(t))
  <2>1. KnownAt(events, D, s, Len(events))
    BY <1>4 DEF KnownInv, LiveAreKnown
  <2> QED BY <2>1, <1>1, <1>3, KnownShrinks
<1> HIDE DEF t, E
<1>5. /\ AddsInTime(events', E)
      /\ \A s \in Switches : conn'[s].live => KnownAt(events', E, s, Len(events'))
  <2>1. CASE events' = t
    BY <2>1, <1>2, <1>4
  <2>2. CASE \E e : e.type = "port_desc" /\ events' = Append(t, e)
    <3>1. PICK e : e.type = "port_desc" /\ events' = Append(t, e)
      BY <2>2
    <3>2. /\ IsSeq(<<e>>) /\ events' = t \o <<e>>
          /\ \A k \in 1..Len(<<e>>) : <<e>>[k].type = "port_desc"
      BY <3>1, <1>3, SeqOne
    <3>3. \A s : \A k \in 1..Len(<<e>>) : ~Leaves(<<e>>[k], s)
      BY <3>2 DEF Leaves
    <3>4. \A k \in 1..Len(<<e>>) : <<e>>[k].type # "link_add"
      BY <3>2
    <3>5. AddsInTime(events', E)
      BY <3>2, <3>4, <1>2, <1>3, AddsInTimeGrows
    <3>6. \A s : KnownAt(t, E, s, Len(t)) => KnownAt(events', E, s, Len(events'))
      BY <3>2, <3>3, <1>3, KnownGrows
    <3> QED BY <3>5, <3>6, <1>4
  <2> QED BY <2>1, <2>2 DEF Handled, t
<1>6. LiveAreKnown(events, DOMAIN datapath_list)'
  BY <1>5 DEF LiveAreKnown, Switches, E
<1> QED BY <1>5, <1>6 DEF KnownInv, E

(***************************************************************************)
(* And for the second one.                                                 *)
(***************************************************************************)
LEMMA LinkEventsConcat ==
  ASSUME NEW q, NEW r, IsSeq(q), IsSeq(r), LinkEvents(q), LinkEvents(r)
  PROVE  LinkEvents(q \o r)
<1> DEFINE t == q \o r
<1>1. /\ Len(t) = Len(q) + Len(r) /\ Len(q) \in Nat /\ Len(r) \in Nat
      /\ \A i \in 1..Len(q) : t[i] = q[i]
      /\ \A i \in (Len(q) + 1)..(Len(q) + Len(r)) :
              i - Len(q) \in 1..Len(r) /\ t[i] = r[i - Len(q)]
  BY SeqConcat, SeqLen
<1> HIDE DEF t
<1>2. \A i \in 1..Len(t) : \/ i \in 1..Len(q) /\ t[i] = q[i]
                           \/ i - Len(q) \in 1..Len(r) /\ t[i] = r[i - Len(q)]
  BY <1>1
<1>3. LinkEvents(t)
  BY <1>2 DEF LinkEvents
<1> QED BY <1>3 DEF t

LEMMA LinkEventsTail ==
  ASSUME NEW q, IsSeq(q), q # << >>, LinkEvents(q)
  PROVE  /\ LinkEvents(Tail(q))
         /\ Head(q).type \in {"link_add", "link_delete"} => Head(q).x \in Cables
<1> DEFINE t == Tail(q)
<1>1. /\ Head(q) = q[1] /\ Len(q) \in Nat /\ Len(q) >= 1 /\ Len(t) = Len(q) - 1
      /\ \A k \in 1..(Len(q) - 1) : t[k] = q[k + 1]
  BY SeqTail, SeqLen
<1> HIDE DEF t
<1>2. \A i \in 1..Len(t) : i + 1 \in 1..Len(q) /\ t[i] = q[i + 1]
  BY <1>1
<1>3. LinkEvents(t)
  BY <1>2 DEF LinkEvents
<1>4. Head(q).type \in {"link_add", "link_delete"} => Head(q).x \in Cables
  BY <1>1 DEF LinkEvents
<1> QED BY <1>3, <1>4 DEF t

LEMMA UsableStay ==
  ASSUME UsableInv, TopoTypes', UNCHANGED <<net, events, adjacency, G>>, links' \subseteq links
  PROVE  UsableInv'
<1>1. LinkEvents(events)'
  BY DEF UsableInv, LinkEvents, Cables
<1>2. BothWaysUsable(events, G, adjacency)'
  BY DEF UsableInv, BothWaysUsable
<1> QED BY <1>1, <1>2 DEF UsableInv

LEMMA UsableGrow ==
  ASSUME UsableInv, TopoTypes', UNCHANGED <<net, adjacency, G>>,
         NEW r, IsSeq(r), events' = events \o r, LinkEvents(r),
         \A l \in links' : Rev(l) \in links' =>
           \/ /\ l \in links /\ Rev(l) \in links
              /\ \A k \in 1..Len(r) : ~Spoils(r[k], l)
           \/ UsableAfter(events', G, adjacency, l)
  PROVE  UsableInv'
<1>1. IsSeq(events) /\ LinkEvents(events)
  BY DEF UsableInv, TopoTypes
<1>2. LinkEvents(events')
  BY <1>1, LinkEventsConcat
<1>3. LinkEvents(events)'
  BY <1>2 DEF LinkEvents, Cables
<1>4. ASSUME NEW l \in links', Rev(l) \in links' PROVE UsableAfter(events', G, adjacency, l)
  <2>1. CASE l \in links /\ Rev(l) \in links /\ \A k \in 1..Len(r) : ~Spoils(r[k], l)
    <3>1. UsableAfter(events, G, adjacency, l)
      BY <2>1 DEF UsableInv, BothWaysUsable
    <3> QED BY <3>1, <2>1, <1>1, UsableGrows
  <2> QED BY <2>1, <1>4
<1>5. BothWaysUsable(events, G, adjacency)'
  BY <1>4 DEF BothWaysUsable
<1> QED BY <1>3, <1>5 DEF UsableInv

LEMMA UsableHandled ==
  ASSUME UsableInv, TopoTypes', UNCHANGED <<net, links>>,
         events # << >>, Handled,
         \A l \in links :
           /\ Adds(Head(events), l) => Usable(G', adjacency', l)
           /\ (Usable(G, adjacency, l) /\ ~Spoils(Head(events), l)) => Usable(G', adjacency', l)
  PROVE  UsableInv'
<1>1. IsSeq(events) /\ LinkEvents(events)
  BY DEF UsableInv, TopoTypes
<1> DEFINE t == Tail(events)
<1>2. LinkEvents(t) /\ IsSeq(t)
  BY <1>1, LinkEventsTail, SeqTail
<1>3. ASSUME NEW l \in links, Rev(l) \in links PROVE UsableAfter(t, G', adjacency', l)
  <2>1. UsableAfter(events, G, adjacency, l)
    BY <1>3 DEF UsableInv, BothWaysUsable
  <2> QED BY <2>1, <1>1, UsableShrinks
<1> HIDE DEF t
<1>4. /\ LinkEvents(events')
      /\ \A l \in links : Rev(l) \in links => UsableAfter(events', G', adjacency', l)
  <2>1. CASE events' = t
    BY <2>1, <1>2, <1>3
  <2>2. CASE \E e : e.type = "port_desc" /\ events' = Append(t, e)
    <3>1. PICK e : e.type = "port_desc" /\ events' = Append(t, e)
      BY <2>2
    <3>2. /\ IsSeq(<<e>>) /\ events' = t \o <<e>>
          /\ \A k \in 1..Len(<<e>>) : <<e>>[k].type = "port_desc"
      BY <3>1, <1>2, SeqOne
    <3>3. \A l : \A k \in 1..Len(<<e>>) : ~Spoils(<<e>>[k], l)
      BY <3>2 DEF Spoils
    <3>4. LinkEvents(<<e>>)
      BY <3>2 DEF LinkEvents
    <3>5. LinkEvents(events')
      BY <3>2, <3>4, <1>2, LinkEventsConcat
    <3>6. \A l : UsableAfter(t, G', adjacency', l) => UsableAfter(events', G', adjacency', l)
      BY <3>2, <3>3, <1>2, UsableGrows
    <3> QED BY <3>5, <3>6, <1>3
  <2> QED BY <2>1, <2>2 DEF Handled, t
<1>5. LinkEvents(events)'
  BY <1>4 DEF LinkEvents, Cables
<1>6. BothWaysUsable(events, G, adjacency)'
  BY <1>4 DEF BothWaysUsable
<1> QED BY <1>5, <1>6 DEF UsableInv

-----------------------------------------------------------------------------
LEMMA SeqAppend ==
  ASSUME NEW q, IsSeq(q), NEW e
  PROVE  IsSeq(Append(q, e))
<1>1. Append(q, e) = q \o <<e>> /\ IsSeq(<<e>>)
  BY SeqOne
<1> QED BY <1>1, SeqConcat

(***************************************************************************)
(* The switches and cables: what each step does to the queue.              *)
(***************************************************************************)
LEMMA TopoTypesInit == Init => TopoTypes
<1> SUFFICES ASSUME Init PROVE TopoTypes
  OBVIOUS
<1>1. net \in Networks /\ up = Cables /\ events = << >>
  BY DEF Init
<1>2. IsSeq(events)
  <2>1. << >> \in Seq({})
    OBVIOUS
  <2> QED BY <2>1, <1>1 DEF IsSeq
<1>3. conn \in [Switches -> [n : Nat, live : BOOLEAN]]
  <2>1. \/ conn = [s \in Switches |-> [n |-> 0, live |-> FALSE]]
        \/ conn = [s \in Switches |-> [n |-> 1, live |-> TRUE]]
    BY DEF Init
  <2>2. /\ [n |-> 0, live |-> FALSE] \in [n : Nat, live : BOOLEAN]
        /\ [n |-> 1, live |-> TRUE] \in [n : Nat, live : BOOLEAN]
    OBVIOUS
  <2> QED BY <2>1, <2>2, Zenon
<1>4. links \subseteq Cables /\ G = [nodes |-> G.nodes, edges |-> G.edges]
  BY DEF Init
<1> QED BY <1>1, <1>2, <1>3, <1>4 DEF TopoTypes

LEMMA HandlerTypes ==
  ASSUME TopoTypes, events # << >>, Handled, UNCHANGED fabric,
         G' = [nodes |-> G'.nodes, edges |-> G'.edges]
  PROVE  TopoTypes'
<1>1. IsSeq(events) /\ IsSeq(Tail(events))
  BY SeqTail DEF TopoTypes
<1>2. IsSeq(events')
  BY <1>1, SeqAppend DEF Handled
<1> QED BY <1>2 DEF TopoTypes, fabric, Switches, Cables

LEMMA ControllerHandles ==
  ASSUME TopoTypes, Controller
  PROVE  /\ events # << >> /\ Handled /\ TopoTypes' /\ UNCHANGED fabric
         /\ Event("switch_enter") =>
              IF Head(events).x \in DOMAIN datapath_list
                THEN UNCHANGED <<datapath_list, G, adjacency>>
                ELSE /\ DOMAIN datapath_list' = DOMAIN datapath_list \cup {Head(events).x}
                     /\ G'.nodes = G.nodes \cup {Head(events).x} /\ G'.edges = G.edges
                     /\ UNCHANGED adjacency
         /\ Event("switch_leave") => switch_leave_handler
         /\ Event("link_add") => link_add_handler
         /\ Event("link_delete") => link_delete_handler
         /\ (Event("port_desc") \/ Event("packet_in"))
              => UNCHANGED <<datapath_list, G, adjacency>>
         /\ \/ Event("switch_enter") \/ Event("switch_leave") \/ Event("link_add")
            \/ Event("link_delete") \/ Event("port_desc") \/ Event("packet_in")
<1>1. CASE switch_enter_handler
  <2>1. Event("switch_enter") /\ UNCHANGED <<fabric, adjacency>>
    BY <1>1 DEF switch_enter_handler
  <2> DEFINE s == Head(events).x
             n == Head(events).n
  <2>2. \/ s \in DOMAIN datapath_list /\ events' = Tail(events) /\ UNCHANGED <<datapath_list, G>>
        \/ /\ s \notin DOMAIN datapath_list
           /\ datapath_list' = With(datapath_list, s, n)
           /\ G' = [G EXCEPT !.nodes = @ \cup {s}]
           /\ events' = IF Accepts(s, n)
                          THEN Append(Tail(events), TopologyEvent("port_desc", s, 0))
                          ELSE Tail(events)
    BY <1>1 DEF switch_enter_handler
  <2>3. TopologyEvent("port_desc", s, 0).type = "port_desc"
    BY DEF TopologyEvent
  <2>4. Handled
    BY <2>2, <2>3 DEF Handled
  <2>5. /\ s \in DOMAIN datapath_list => UNCHANGED <<datapath_list, G>>
        /\ s \notin DOMAIN datapath_list =>
             /\ DOMAIN datapath_list' = DOMAIN datapath_list \cup {s}
             /\ G' = [nodes |-> G.nodes \cup {s}, edges |-> G.edges]
    BY <2>2 DEF With, TopoTypes
  <2>6. G' = [nodes |-> G'.nodes, edges |-> G'.edges]
    BY <2>5 DEF TopoTypes
  <2>7. TopoTypes'
    BY <2>1, <2>4, <2>6, HandlerTypes DEF Event
  <2> QED BY <2>1, <2>4, <2>5, <2>7 DEF Event
<1>2. CASE switch_leave_handler
  <2>1. Event("switch_leave") /\ UNCHANGED fabric /\ Handled
    BY <1>2 DEF switch_leave_handler, Handled
  <2>2. G' = [nodes |-> G'.nodes, edges |-> G'.edges]
    BY <1>2 DEF switch_leave_handler, TopoTypes
  <2>3. TopoTypes'
    BY <2>1, <2>2, HandlerTypes DEF Event
  <2> QED BY <2>1, <2>3, <1>2 DEF Event
<1>3. CASE link_add_handler
  <2>1. Event("link_add") /\ UNCHANGED fabric /\ Handled
    BY <1>3 DEF link_add_handler, Handled
  <2>2. G' = [nodes |-> G'.nodes, edges |-> G'.edges]
    BY <1>3 DEF link_add_handler
  <2>3. TopoTypes'
    BY <2>1, <2>2, HandlerTypes DEF Event
  <2> QED BY <2>1, <2>3, <1>3 DEF Event
<1>4. CASE link_delete_handler
  <2>1. Event("link_delete") /\ UNCHANGED <<fabric, G>> /\ Handled
    BY <1>4 DEF link_delete_handler, Handled
  <2>2. TopoTypes'
    BY <2>1, HandlerTypes DEF Event, TopoTypes
  <2> QED BY <2>1, <2>2, <1>4 DEF Event
<1>5. CASE port_desc_stats_reply_handler
  <2>1. /\ Event("port_desc") /\ UNCHANGED <<fabric, datapath_list, G, adjacency>>
        /\ Handled
    BY <1>5 DEF port_desc_stats_reply_handler, Handled
  <2>2. TopoTypes'
    BY <2>1, HandlerTypes DEF Event, TopoTypes
  <2> QED BY <2>1, <2>2 DEF Event
<1>6. CASE _packet_in_handler
  <2>1. /\ Event("packet_in") /\ UNCHANGED <<fabric, datapath_list, G, adjacency>>
        /\ Handled
    BY <1>6 DEF _packet_in_handler, Handled
  <2>2. TopoTypes'
    BY <2>1, HandlerTypes DEF Event, TopoTypes
  <2> QED BY <2>1, <2>2 DEF Event
<1> QED BY <1>1, <1>2, <1>3, <1>4, <1>5, <1>6 DEF Controller

LEMMA KnownController ==
  ASSUME KnownInv, Controller
  PROVE  KnownInv'
<1> DEFINE D == DOMAIN datapath_list
           e == Head(events)
<1>1. TopoTypes /\ G.nodes = D /\ AddsInTime(events, D)
  BY DEF KnownInv, NodesHaveDatapaths
<1>2. events # << >> /\ Handled /\ TopoTypes' /\ UNCHANGED <<net, conn>>
  BY <1>1, ControllerHandles DEF fabric
<1>3. IsSeq(events) /\ e = events[1] /\ 1 \in 1..Len(events)
  BY <1>1, <1>2, SeqTail, SeqLen DEF TopoTypes
<1>4. ASSUME UNCHANGED <<datapath_list, G>>, ~Event("switch_enter")
      PROVE  KnownInv'
  <2>1. \A s : ~Enters(e, s)
    BY <1>2, <1>4 DEF Event, Enters
  <2> QED BY <2>1, <1>1, <1>2, <1>4, KnownHandled DEF NodesHaveDatapaths, KnownInv
<1>5. CASE Event("switch_enter")
  <2>1. \A s : Enters(e, s) => s = e.x
    BY DEF Enters
  <2>2. CASE e.x \in D
    <3>1. UNCHANGED <<datapath_list, G>>
      BY <2>2, <1>1, <1>5, ControllerHandles
    <3> QED BY <2>1, <2>2, <3>1, <1>1, <1>2, KnownHandled DEF NodesHaveDatapaths, KnownInv
  <2>3. CASE e.x \notin D
    <3>1. DOMAIN datapath_list' = D \cup {e.x} /\ G'.nodes = G.nodes \cup {e.x}
      BY <2>3, <1>1, <1>5, ControllerHandles
    <3> QED BY <2>1, <3>1, <1>1, <1>2, KnownHandled DEF NodesHaveDatapaths
  <2> QED BY <2>2, <2>3
<1>6. CASE Event("switch_leave")
  <2>1. switch_leave_handler
    BY <1>1, <1>6, ControllerHandles
  <2>2. ~Event("switch_enter")
    BY <1>6 DEF Event
  <2>3. CASE e.x \notin D
    BY <2>1, <2>2, <2>3, <1>4 DEF switch_leave_handler
  <2>4. CASE e.x \in D
    <3>1. /\ datapath_list' = Restrict(datapath_list, D \ {e.x})
          /\ G' = [nodes |-> G.nodes \ {e.x}, edges |-> {d \in G.edges : e.x \notin ToSet(d)}]
      BY <2>1, <2>4 DEF switch_leave_handler
    <3>2. DOMAIN datapath_list' = D \ {e.x} /\ G'.nodes = G.nodes \ {e.x}
      BY <3>1 DEF Restrict
    <3>3. \A s : ~Enters(e, s)
      BY <1>6 DEF Event, Enters
    <3>4. \A s \in D : ~Leaves(e, s) => s # e.x
      BY <1>6 DEF Event, Leaves
    <3> QED BY <3>2, <3>3, <3>4, <1>1, <1>2, KnownHandled DEF NodesHaveDatapaths
  <2> QED BY <2>3, <2>4
<1>7. CASE Event("link_add")
  <2>1. link_add_handler
    BY <1>1, <1>7, ControllerHandles
  <2>2. G'.nodes = G.nodes \cup {e.x[1], e.x[3]} /\ UNCHANGED datapath_list
    BY <2>1 DEF link_add_handler
  <2>3. KnownAt(events, D, e.x[1], 1) /\ KnownAt(events, D, e.x[3], 1)
    BY <1>1, <1>3, <1>7 DEF AddsInTime, Event
  <2>4. \A s : ~Enters(events[1], s)
    BY <1>3, <1>7 DEF Enters, Event
  <2>5. e.x[1] \in D /\ e.x[3] \in D
    BY <2>3, <2>4 DEF KnownAt
  <2>6. NodesHaveDatapaths'
    BY <2>2, <2>5, <1>1 DEF NodesHaveDatapaths
  <2> QED BY <2>2, <2>4, <2>6, <1>2, <1>3, KnownHandled
<1>8. CASE Event("link_delete")
  <2>1. link_delete_handler /\ ~Event("switch_enter")
    BY <1>1, <1>8, ControllerHandles DEF Event
  <2> QED BY <2>1, <1>4 DEF link_delete_handler
<1>9. CASE Event("port_desc") \/ Event("packet_in")
  <2>1. UNCHANGED <<datapath_list, G>> /\ ~Event("switch_enter")
    BY <1>1, <1>9, ControllerHandles DEF Event
  <2> QED BY <2>1, <1>4
<1> QED BY <1>1, <1>5, <1>6, <1>7, <1>8, <1>9, ControllerHandles

(***************************************************************************)
(* Adjacency holds one port for a pair of switches, so a second cable      *)
(* between the two has no place in it.                                     *)
(***************************************************************************)
NoParallelCables ==
  \A x \in Networks : \A l, m \in x.cables : (l[1] = m[1] /\ l[3] = m[3]) => l = m

LEMMA ApartCables ==
  ASSUME NoParallelCables, net \in Networks, NEW l \in Cables, NEW m \in Cables,
         m \notin {l, Rev(l)}
  PROVE  /\ <<m[1], m[3]>> # <<l[1], l[3]>> /\ <<m[1], m[3]>> # <<l[3], l[1]>>
         /\ <<m[3], m[1]>> # <<l[1], l[3]>> /\ <<m[3], m[1]>> # <<l[3], l[1]>>
<1>1. /\ Rev(l) \in Cables /\ Rev(l)[1] = l[3] /\ Rev(l)[3] = l[1]
  BY CableFacts
<1>2. \A x, y \in Cables : (x[1] = y[1] /\ x[3] = y[3]) => x = y
  BY DEF NoParallelCables, Cables
<1>3. ~(m[1] = l[1] /\ m[3] = l[3]) /\ ~(m[1] = l[3] /\ m[3] = l[1])
  BY <1>1, <1>2
<1> QED BY <1>3

LEMMA UsableController ==
  ASSUME NoParallelCables, UsableInv, Controller
  PROVE  UsableInv'
<1> DEFINE e == Head(events)
<1>1. TopoTypes /\ LinkEvents(events) /\ net \in Networks /\ links \subseteq Cables
  BY DEF UsableInv, TopoTypes
<1>2. events # << >> /\ Handled /\ TopoTypes' /\ UNCHANGED <<net, links>>
  BY <1>1, ControllerHandles DEF fabric
<1>3. e.type \in {"link_add", "link_delete"} => e.x \in Cables
  BY <1>1, <1>2, LinkEventsTail DEF TopoTypes
<1>4. ASSUME NEW l \in links
      PROVE  /\ Adds(e, l) => Usable(G', adjacency', l)
             /\ (Usable(G, adjacency, l) /\ ~Spoils(e, l)) => Usable(G', adjacency', l)
  <2> DEFINE there == <<l[1], l[3]>>
             back == <<l[3], l[1]>>
             m == e.x
  <2>1. l \in Cables /\ l[1] # l[3] /\ there # back
    BY <1>1, <1>4, CableFacts
  <2>2. Rev(l)[1] = l[3] /\ Rev(l)[2] = l[4] /\ Rev(l)[3] = l[1] /\ Rev(l)[4] = l[2]
    BY DEF Rev
  <2>3. CASE Event("switch_enter") \/ Event("port_desc") \/ Event("packet_in")
    <3>1. G'.edges = G.edges /\ adjacency' = adjacency
      BY <2>3, <1>1, ControllerHandles
    <3>2. ~Adds(e, l)
      BY <2>3 DEF Event, Adds
    <3> QED BY <3>1, <3>2 DEF Usable
  <2>4. CASE Event("switch_leave")
    <3>1. switch_leave_handler /\ ~Adds(e, l)
      BY <2>4, <1>1, ControllerHandles DEF Event, Adds
    <3>2. ASSUME ~Spoils(e, l) PROVE m \notin {l[1], l[3]}
      BY <2>4, <3>2 DEF Event, Spoils
    <3>3. CASE m \notin DOMAIN datapath_list
      BY <3>1, <3>3 DEF switch_leave_handler, Usable
    <3>4. CASE m \in DOMAIN datapath_list
      <4>1. /\ adjacency' = Restrict(adjacency, {d \in DOMAIN adjacency : d[1] # m})
            /\ G'.edges = {d \in G.edges : m \notin ToSet(d)}
        BY <3>1, <3>4 DEF switch_leave_handler
      <4>2. ToSet(there) = {l[1], l[3]} /\ ToSet(back) = {l[1], l[3]}
        BY DEF ToSet
      <4>3. there[1] = l[1] /\ back[1] = l[3]
        OBVIOUS
      <4> HIDE DEF there, back
      <4>4. ASSUME Usable(G, adjacency, l), ~Spoils(e, l) PROVE Usable(G', adjacency', l)
        <5>1. m \notin {l[1], l[3]}
          BY <3>2, <4>4
        <5>2. {there, back} \subseteq G'.edges
          BY <4>1, <4>2, <4>4, <5>1 DEF Usable, there, back
        <5>3. there \in DOMAIN adjacency /\ back \in DOMAIN adjacency
              /\ adjacency[there] = l[2] /\ adjacency[back] = l[4]
          BY <4>4 DEF Usable, there, back
        <5>4. there \in DOMAIN adjacency' /\ back \in DOMAIN adjacency'
              /\ adjacency'[there] = l[2] /\ adjacency'[back] = l[4]
          BY <4>1, <4>3, <5>1, <5>3 DEF Restrict
        <5> QED BY <5>2, <5>4 DEF Usable, there, back
      <4> QED BY <3>1, <4>4
    <3> QED BY <3>3, <3>4
  <2>5. CASE Event("link_add")
    <3> DEFINE mt == <<m[1], m[3]>>
               mb == <<m[3], m[1]>>
    <3>1. m \in Cables /\ e.type = "link_add"
      BY <2>5, <1>3 DEF Event
    <3>2. /\ adjacency' = With(With(adjacency, mt, m[2]), mb, m[4])
          /\ G'.edges = G.edges \cup {mt, mb}
      BY <2>5, <1>1, ControllerHandles DEF link_add_handler
    <3>3. mt # mb
      BY <3>1, <1>1, CableFacts
    <3> HIDE DEF mt, mb, m
    <3>4. /\ DOMAIN adjacency' = DOMAIN adjacency \cup {mt, mb}
          /\ adjacency'[mt] = m[2] /\ adjacency'[mb] = m[4]
          /\ \A d \in DOMAIN adjacency \ {mt, mb} : adjacency'[d] = adjacency[d]
      BY <3>2, <3>3 DEF With
    <3>5. CASE m = l
      BY <3>2, <3>4, <3>5 DEF Usable, mt, mb
    <3>6. CASE m = Rev(l)
      <4>1. mt = back /\ mb = there /\ m[2] = l[4] /\ m[4] = l[2]
        BY <3>6, <2>2 DEF mt, mb
      <4> QED BY <4>1, <3>2, <3>4 DEF Usable
    <3>7. CASE m \notin {l, Rev(l)}
      <4>1. there \notin {mt, mb} /\ back \notin {mt, mb}
        BY <3>1, <3>7, <2>1, <1>1, ApartCables DEF mt, mb
      <4>2. ~Adds(e, l)
        BY <3>7 DEF Adds, m
      <4> QED BY <4>1, <4>2, <3>2, <3>4 DEF Usable
    <3> QED BY <3>5, <3>6, <3>7
  <2>6. CASE Event("link_delete")
    <3> DEFINE mt == <<m[1], m[3]>>
               mb == <<m[3], m[1]>>
    <3>1. m \in Cables /\ e.type = "link_delete" /\ ~Adds(e, l)
      BY <2>6, <1>3 DEF Event, Adds
    <3>2. /\ adjacency' = IF mt \in DOMAIN adjacency
                          THEN Restrict(adjacency, DOMAIN adjacency \ {mt, mb})
                          ELSE adjacency
          /\ G' = G
      BY <2>6, <1>1, ControllerHandles DEF link_delete_handler
    <3>3. ASSUME ~Spoils(e, l) PROVE there \notin {mt, mb} /\ back \notin {mt, mb}
      <4>1. m \notin {l, Rev(l)}
        BY <3>1, <3>3 DEF Spoils
      <4> QED BY <4>1, <3>1, <2>1, <1>1, ApartCables
    <3> HIDE DEF mt, mb, m
    <3>4. ASSUME ~Spoils(e, l) PROVE Usable(G, adjacency, l) => Usable(G', adjacency', l)
      BY <3>2, <3>3, <3>4 DEF Usable, Restrict
    <3> QED BY <3>1, <3>4
  <2> QED BY <2>3, <2>4, <2>5, <2>6, <1>1, ControllerHandles
<1> QED BY <1>2, <1>4, UsableHandled

(***************************************************************************)
(* What the rest of the network does to the queue.  The application looks  *)
(* on: its graph, its ports and its datapaths stay.                        *)
(***************************************************************************)
LEMMA AppendedEvent ==
  ASSUME NEW q, IsSeq(q), NEW e, e.type # "switch_leave"
  PROVE  /\ Append(q, e) = q \o <<e>> /\ IsSeq(<<e>>) /\ IsSeq(q \o <<e>>)
         /\ \A k \in 1..Len(<<e>>) : <<e>>[k] = e
         /\ \A s : \A k \in 1..Len(<<e>>) : ~Leaves(<<e>>[k], s)
         /\ e.type # "link_delete" => \A l : \A k \in 1..Len(<<e>>) : ~Spoils(<<e>>[k], l)
<1>1. /\ \A s : ~Leaves(e, s)
      /\ e.type # "link_delete" => \A l : ~Spoils(e, l)
  BY DEF Leaves, Spoils
<1>2. /\ IsSeq(<<e>>) /\ Append(q, e) = q \o <<e>>
      /\ \A k \in 1..Len(<<e>>) : <<e>>[k] = e
  BY SeqOne
<1>3. IsSeq(q \o <<e>>)
  BY <1>2, SeqConcat
<1> QED BY <1>1, <1>2, <1>3

LEMMA SwitchConnectsTopo ==
  ASSUME NEW s \in Switches, SwitchConnects(s)
  PROVE  (KnownInv => KnownInv') /\ (UsableInv => UsableInv')
<1> SUFFICES ASSUME TopoTypes PROVE (KnownInv => KnownInv') /\ (UsableInv => UsableInv')
  BY DEF KnownInv, UsableInv
<1> DEFINE e == TopologyEvent("switch_enter", s, conn[s].n + 1)
           r == <<e>>
           D == DOMAIN datapath_list
<1>1. /\ UNCHANGED <<net, links, up, datapath_list, adjacency, G>>
      /\ conn' = [conn EXCEPT ![s] = [n |-> conn[s].n + 1, live |-> TRUE]]
      /\ events' = Append(events, e)
  BY DEF SwitchConnects, app
<1>2. /\ IsSeq(events) /\ events' = events \o r /\ IsSeq(r) /\ IsSeq(events')
      /\ \A k \in 1..Len(r) : r[k].type = "switch_enter" /\ r[k].x = s
      /\ \A t : \A k \in 1..Len(r) : ~Leaves(r[k], t)
      /\ \A l : \A k \in 1..Len(r) : ~Spoils(r[k], l)
  <2>1. IsSeq(events)
    BY DEF TopoTypes
  <2>2. e.type = "switch_enter" /\ e.x = s
    BY DEF TopologyEvent
  <2> HIDE DEF e
  <2> QED BY <2>1, <2>2, <1>1, AppendedEvent
<1>3. conn' \in [Switches -> [n : Nat, live : BOOLEAN]]
      /\ \A t \in Switches : t # s => conn'[t] = conn[t]
  BY <1>1 DEF TopoTypes
<1>4. TopoTypes'
  BY <1>1, <1>2, <1>3 DEF TopoTypes, Switches, Cables
<1>5. KnownAt(events', D, s, Len(events'))
  <2>1. /\ Len(events) \in Nat /\ Len(r) = 1 /\ Len(events') = Len(events) + 1
        /\ events'[Len(events) + 1] = r[1] /\ r[1] = e
    <3>1. Len(r) = 1 /\ r[1] = e /\ 1 \in 1..Len(r)
      BY SeqOne
    <3> QED BY <3>1, <1>2, SeqLen, SeqConcat
  <2>2. e.type = "switch_enter" /\ e.x = s
    BY DEF TopologyEvent
  <2> HIDE DEF e, r
  <2>3. Enters(events'[Len(events')], s)
    BY <2>1, <2>2 DEF Enters
  <2> QED BY <2>1, <2>3 DEF KnownAt
<1> HIDE DEF r, e
<1>6. ASSUME KnownInv PROVE KnownInv'
  <2>1. \A t \in Switches : conn'[t].live =>
           \/ conn[t].live /\ \A k \in 1..Len(r) : ~Leaves(r[k], t)
           \/ KnownAt(events', D, t, Len(events'))
    BY <1>2, <1>3, <1>5
  <2>2. \A k \in 1..Len(r) : r[k].type # "link_add"
    BY <1>2
  <2> QED BY <2>1, <2>2, <1>1, <1>2, <1>4, <1>6, KnownGrow
<1>7. ASSUME UsableInv PROVE UsableInv'
  <2>1. LinkEvents(r)
    BY <1>2 DEF LinkEvents
  <2> QED BY <2>1, <1>1, <1>2, <1>4, <1>7, UsableGrow
<1> QED BY <1>6, <1>7

LEMMA LinkDiscoveredTopo ==
  ASSUME NEW l \in Cables, LinkDiscovered(l)
  PROVE  (KnownInv => KnownInv') /\ (UsableInv => UsableInv')
<1> SUFFICES ASSUME TopoTypes PROVE (KnownInv => KnownInv') /\ (UsableInv => UsableInv')
  BY DEF KnownInv, UsableInv
<1> DEFINE e == TopologyEvent("link_add", l, 0)
           r == <<e>>
           D == DOMAIN datapath_list
<1>1. /\ UNCHANGED <<net, conn, up, datapath_list, adjacency, G>>
      /\ l \in up /\ conn[l[1]].live /\ conn[l[3]].live
      /\ links' = links \cup {l}
      /\ events' = Append(events, e)
  BY DEF LinkDiscovered, app
<1>2. /\ IsSeq(events) /\ events' = events \o r /\ IsSeq(r) /\ IsSeq(events')
      /\ \A k \in 1..Len(r) : r[k].type = "link_add" /\ r[k].x = l
      /\ \A t : \A k \in 1..Len(r) : ~Leaves(r[k], t)
      /\ \A m : \A k \in 1..Len(r) : ~Spoils(r[k], m)
  <2>1. IsSeq(events)
    BY DEF TopoTypes
  <2>2. e.type = "link_add" /\ e.x = l
    BY DEF TopologyEvent
  <2> HIDE DEF e
  <2>3. /\ Append(events, e) = events \o r /\ IsSeq(r) /\ IsSeq(events \o r)
        /\ \A k \in 1..Len(r) : r[k] = e
        /\ \A t : \A k \in 1..Len(r) : ~Leaves(r[k], t)
        /\ \A m : \A k \in 1..Len(r) : ~Spoils(r[k], m)
    BY <2>1, <2>2, AppendedEvent
  <2> HIDE DEF r
  <2> QED BY <2>1, <2>2, <2>3, <1>1
<1>3. TopoTypes'
  BY <1>1, <1>2 DEF TopoTypes, Switches, Cables
<1>4. e.type = "link_add" /\ e.x = l
  BY DEF TopologyEvent
<1> HIDE DEF r, e
<1>5. ASSUME KnownInv PROVE KnownInv'
  <2>1. l[1] \in Switches /\ l[3] \in Switches
    BY CableFacts DEF TopoTypes
  <2>2. KnownAt(events, D, l[1], Len(events)) /\ KnownAt(events, D, l[3], Len(events))
    BY <2>1, <1>1, <1>5 DEF KnownInv, LiveAreKnown
  <2>3. AddsInTime(events', D)
    BY <2>2, <1>1, <1>2, <1>4, <1>5, AddsInTimeAppend DEF KnownInv
  <2>4. \A s \in Switches : conn[s].live => KnownAt(events', D, s, Len(events'))
    BY <1>2, <1>5, KnownGrows DEF KnownInv, LiveAreKnown
  <2> QED BY <2>3, <2>4, <1>1, <1>3, <1>5
          DEF KnownInv, LiveAreKnown, NodesHaveDatapaths, Switches
<1>6. ASSUME UsableInv PROVE UsableInv'
  <2>1. LinkEvents(r)
    BY <1>2 DEF LinkEvents
  <2>2. ASSUME NEW m \in links', Rev(m) \in links'
        PROVE  \/ /\ m \in links /\ Rev(m) \in links
                  /\ \A k \in 1..Len(r) : ~Spoils(r[k], m)
               \/ UsableAfter(events', G, adjacency, m)
    <3>1. CASE m = l \/ Rev(m) = l
      <4>1. Adds(e, m)
        BY <3>1, <1>4 DEF Adds
      <4> QED BY <4>1, <1>1, <1>2, UsableAppend
    <3>2. CASE m # l /\ Rev(m) # l
      BY <2>2, <3>2, <1>1, <1>2
    <3> QED BY <3>1, <3>2
  <2> QED BY <2>1, <2>2, <1>1, <1>2, <1>3, <1>6, UsableGrow
<1> QED BY <1>5, <1>6

(***************************************************************************)
(* Links that are withdrawn are no longer known in both directions.        *)
(***************************************************************************)
LEMMA LinksGo ==
  ASSUME TopoTypes, UNCHANGED <<net, conn, datapath_list, adjacency, G>>,
         up' \subseteq Cables, links' \subseteq links,
         NEW r, IsSeq(r), events' = events \o r,
         \A k \in 1..Len(r) : /\ r[k].type = "link_delete"
                              /\ r[k].x \in links /\ r[k].x \notin links'
  PROVE  (KnownInv => KnownInv') /\ (UsableInv => UsableInv')
<1>1. IsSeq(events) /\ IsSeq(events')
  BY SeqConcat DEF TopoTypes
<1>2. TopoTypes'
  BY <1>1 DEF TopoTypes, Switches, Cables
<1>3. \A s : \A k \in 1..Len(r) : ~Leaves(r[k], s)
  BY DEF Leaves
<1>4. \A k \in 1..Len(r) : r[k].type # "link_add"
  OBVIOUS
<1>5. LinkEvents(r)
  BY DEF LinkEvents, TopoTypes
<1>6. \A l \in links' : Rev(l) \in links' => \A k \in 1..Len(r) : ~Spoils(r[k], l)
  BY DEF Spoils
<1>7. KnownInv => KnownInv'
  BY <1>2, <1>3, <1>4, KnownGrow
<1>8. ASSUME UsableInv PROVE UsableInv'
  <2>1. \A l \in links' : Rev(l) \in links' =>
           /\ l \in links /\ Rev(l) \in links
           /\ \A k \in 1..Len(r) : ~Spoils(r[k], l)
    BY <1>6
  <2> QED BY <2>1, <1>2, <1>5, <1>8, UsableGrow
<1> QED BY <1>7, <1>8

LEMMA LinkTimesOutTopo ==
  ASSUME NEW l \in Cables, LinkTimesOut(l), TopoTypes
  PROVE  (KnownInv => KnownInv') /\ (UsableInv => UsableInv')
<1>1. /\ UNCHANGED <<net, conn, up, datapath_list, adjacency, G>>
      /\ links' = links \ {l} /\ events' = events \o LinkDelete(l)
  BY DEF LinkTimesOut, app
<1>2. /\ IsSeq(LinkDelete(l))
      /\ \A k \in 1..Len(LinkDelete(l)) :
           /\ LinkDelete(l)[k].type = "link_delete"
           /\ LinkDelete(l)[k].x \in links /\ LinkDelete(l)[k].x \notin links'
  BY <1>1, DeleteEvent
<1>3. up' \subseteq Cables
  BY <1>1 DEF TopoTypes
<1> DEFINE r == LinkDelete(l)
<1>4. IsSeq(r) /\ events' = events \o r /\ links' \subseteq links
      /\ \A k \in 1..Len(r) : /\ r[k].type = "link_delete"
                              /\ r[k].x \in links /\ r[k].x \notin links'
  BY <1>1, <1>2
<1> HIDE DEF r
<1> QED BY <1>1, <1>3, <1>4, LinksGo

LEMMA CableDownTopo ==
  ASSUME NEW l \in Cables, CableDown(l), TopoTypes
  PROVE  (KnownInv => KnownInv') /\ (UsableInv => UsableInv')
<1> DEFINE q == LinkDelete(l)
           p == LinkDelete(Rev(l))
           r == q \o p
<1>1. /\ UNCHANGED <<net, conn, datapath_list, adjacency, G>> /\ up' \subseteq Cables
      /\ \/ links' = links \ {l, Rev(l)} /\ events' = (events \o q) \o p
         \/ UNCHANGED <<links, events>>
  BY DEF CableDown, app, TopoTypes
<1>2. CASE links' = links \ {l, Rev(l)} /\ events' = (events \o q) \o p
  <2>1. /\ IsSeq(q) /\ IsSeq(p)
        /\ \A k \in 1..Len(q) : q[k].type = "link_delete" /\ q[k].x = l /\ l \in links
        /\ \A k \in 1..Len(p) : p[k].type = "link_delete" /\ p[k].x = Rev(l) /\ Rev(l) \in links
    BY DeleteEvent
  <2> HIDE DEF q, p
  <2>2. events' = events \o r
    <3>1. IsSeq(events)
      BY DEF TopoTypes
    <3>2. PICK T : events \in Seq(T)
      BY <3>1 DEF IsSeq
    <3>3. PICK U : q \in Seq(U)
      BY <2>1 DEF IsSeq
    <3>4. PICK V : p \in Seq(V)
      BY <2>1 DEF IsSeq
    <3> DEFINE S == T \cup U \cup V
    <3>5. events \in Seq(S) /\ q \in Seq(S) /\ p \in Seq(S)
      BY <3>2, <3>3, <3>4
    <3> HIDE DEF S
    <3>6. (events \o q) \o p = events \o (q \o p)
      BY <3>5, ConcatAssociative
    <3> QED BY <3>6, <1>2
  <2>3. /\ IsSeq(r)
        /\ \A k \in 1..Len(r) : /\ r[k].type = "link_delete"
                                /\ r[k].x \in links /\ r[k].x \notin links'
    <3>1. /\ IsSeq(r) /\ Len(r) = Len(q) + Len(p) /\ Len(q) \in Nat /\ Len(p) \in Nat
          /\ \A k \in 1..Len(q) : r[k] = q[k]
          /\ \A k \in (Len(q) + 1)..(Len(q) + Len(p)) :
               k - Len(q) \in 1..Len(p) /\ r[k] = p[k - Len(q)]
      BY <2>1, SeqConcat, SeqLen
    <3> HIDE DEF r
    <3>2. \A k \in 1..Len(r) : \/ k \in 1..Len(q) /\ r[k] = q[k]
                               \/ k - Len(q) \in 1..Len(p) /\ r[k] = p[k - Len(q)]
      BY <3>1
    <3> QED BY <3>1, <3>2, <2>1, <1>2
  <2> HIDE DEF r
  <2>4. links' \subseteq links
    BY <1>2
  <2> QED BY <2>2, <2>3, <2>4, <1>1, LinksGo
<1>3. CASE UNCHANGED <<links, events>>
  <2>1. TopoTypes'
    BY <1>1, <1>3 DEF TopoTypes, Switches, Cables
  <2> QED BY <2>1, <1>1, <1>3, KnownStay, UsableStay
<1> QED BY <1>1, <1>2, <1>3

LEMMA SwitchDiesTopo ==
  ASSUME NEW s \in Switches, SwitchDies(s), TopoTypes
  PROVE  (KnownInv => KnownInv') /\ (UsableInv => UsableInv')
<1> DEFINE gone == {l \in links : l[1] = s}
           e == TopologyEvent("switch_leave", s, 0)
           D == DOMAIN datapath_list
<1>1. /\ UNCHANGED <<net, up, datapath_list, adjacency, G>>
      /\ conn' = [conn EXCEPT ![s].live = FALSE]
      /\ links' = {l \in links : {l, Rev(l)} \cap gone = {}}
  BY DEF SwitchDies, app
<1>2. PICK del \in Deletions(gone) : events' = Append(events, e) \o del
  BY DEF SwitchDies
<1>3. /\ IsSeq(del)
      /\ \A i \in 1..Len(del) : /\ del[i].type = "link_delete"
                                /\ del[i].x \in links
                                /\ {del[i].x, Rev(del[i].x)} \cap gone # {}
  BY DeletionEvents
<1>4. e.type = "switch_leave" /\ e.x = s
  BY DEF TopologyEvent
<1> HIDE DEF e
<1> DEFINE q == Append(events, e)
<1>5. /\ IsSeq(events) /\ IsSeq(<<e>>) /\ q = events \o <<e>> /\ IsSeq(q)
      /\ \A k \in 1..Len(<<e>>) : <<e>>[k] = e
  <2>1. IsSeq(events)
    BY DEF TopoTypes
  <2>2. /\ IsSeq(<<e>>) /\ q = events \o <<e>>
        /\ \A k \in 1..Len(<<e>>) : <<e>>[k] = e
    BY <2>1, SeqOne
  <2> QED BY <2>1, <2>2, SeqConcat
<1> HIDE DEF q
<1>6. events' = q \o del /\ IsSeq(events')
  BY <1>2, <1>3, <1>5, SeqConcat DEF q
<1>7. /\ conn' \in [Switches -> [n : Nat, live : BOOLEAN]]
      /\ ~conn'[s].live /\ \A t \in Switches : t # s => conn'[t] = conn[t]
  BY <1>1 DEF TopoTypes
<1>8. TopoTypes'
  BY <1>1, <1>6, <1>7 DEF TopoTypes, Switches, Cables
<1>9. ASSUME KnownInv PROVE KnownInv'
  <2>1. AddsInTime(q, D)
    BY <1>4, <1>5, <1>9, AddsInTimeGrows DEF KnownInv
  <2>2. AddsInTime(events', D)
    BY <2>1, <1>3, <1>5, <1>6, AddsInTimeGrows
  <2>3. ASSUME NEW t \in Switches, conn'[t].live
        PROVE  KnownAt(events', D, t, Len(events'))
    <3>1. t # s /\ conn[t].live
      BY <2>3, <1>7
    <3>2. KnownAt(events, D, t, Len(events))
      BY <3>1, <1>9 DEF KnownInv, LiveAreKnown
    <3>3. \A k \in 1..Len(<<e>>) : ~Leaves(<<e>>[k], t)
      BY <3>1, <1>4, <1>5 DEF Leaves
    <3>4. KnownAt(q, D, t, Len(q))
      BY <3>2, <3>3, <1>5, KnownGrows
    <3>5. \A k \in 1..Len(del) : ~Leaves(del[k], t)
      BY <1>3 DEF Leaves
    <3> QED BY <3>4, <3>5, <1>3, <1>5, <1>6, KnownGrows
  <2> QED BY <2>2, <2>3, <1>1, <1>8, <1>9
          DEF KnownInv, LiveAreKnown, NodesHaveDatapaths, Switches
<1>10. ASSUME UsableInv PROVE UsableInv'
  <2>1. LinkEvents(<<e>>)
    BY <1>4, <1>5 DEF LinkEvents
  <2>2. LinkEvents(del)
    BY <1>3 DEF LinkEvents, TopoTypes
  <2>3. LinkEvents(q)
    BY <2>1, <1>5, <1>10, LinkEventsConcat DEF UsableInv
  <2>4. LinkEvents(events')
    BY <2>2, <2>3, <1>3, <1>5, <1>6, LinkEventsConcat
  <2>5. ASSUME NEW l \in links', Rev(l) \in links'
        PROVE  UsableAfter(events', G, adjacency, l)
    <3>1. l \in links /\ Rev(l) \in links /\ l \notin gone /\ Rev(l) \notin gone
      BY <2>5, <1>1
    <3>2. l[1] # s /\ l[3] # s
      <4>1. Rev(l)[1] = l[3]
        BY DEF Rev
      <4> QED BY <3>1, <4>1
    <3>3. UsableAfter(events, G, adjacency, l)
      BY <3>1, <1>10 DEF UsableInv, BothWaysUsable
    <3>4. \A k \in 1..Len(<<e>>) : ~Spoils(<<e>>[k], l)
      BY <3>2, <1>4, <1>5 DEF Spoils
    <3>5. UsableAfter(q, G, adjacency, l)
      BY <3>3, <3>4, <1>5, UsableGrows
    <3>6. Rev(Rev(l)) = l
      BY <3>1, CableFacts DEF TopoTypes
    <3>7. \A k \in 1..Len(del) : del[k].x \notin {l, Rev(l)}
      BY <3>1, <3>6, <1>3
    <3>8. \A k \in 1..Len(del) : ~Spoils(del[k], l)
      BY <3>7, <1>3 DEF Spoils
    <3> QED BY <3>5, <3>8, <1>3, <1>5, <1>6, UsableGrows
  <2>6. LinkEvents(events)'
    BY <2>4, <1>1 DEF LinkEvents, Cables
  <2>7. BothWaysUsable(events, G, adjacency)'
    BY <2>5, <1>1 DEF BothWaysUsable
  <2> QED BY <2>6, <2>7, <1>8 DEF UsableInv
<1> QED BY <1>9, <1>10

LEMMA SwitchForwardsTopo ==
  ASSUME NEW m \in wire, SwitchForwards(m), TopoTypes
  PROVE  (KnownInv => KnownInv') /\ (UsableInv => UsableInv')
<1>1. UNCHANGED <<net, conn, links, up, datapath_list, adjacency, G>>
  BY DEF SwitchForwards, app, fabric
<1>2. CASE UNCHANGED events
  <2>1. TopoTypes'
    BY <1>1, <1>2 DEF TopoTypes, Switches, Cables
  <2> QED BY <2>1, <1>1, <1>2, KnownStay, UsableStay
<1>3. CASE events # events'
  <2> DEFINE e == [type |-> "packet_in", x |-> m, n |-> conn[m.at[1]].n]
  <2>1. events' = Append(events, e)
    BY <1>3 DEF SwitchForwards
  <2>2. e.type = "packet_in"
    OBVIOUS
  <2> HIDE DEF e
  <2> DEFINE r == <<e>>
  <2>3. /\ events' = events \o r /\ IsSeq(r) /\ IsSeq(events')
        /\ \A k \in 1..Len(r) : r[k].type = "packet_in"
        /\ \A t : \A k \in 1..Len(r) : ~Leaves(r[k], t)
        /\ \A l : \A k \in 1..Len(r) : ~Spoils(r[k], l)
    <3>1. IsSeq(events)
      BY DEF TopoTypes
    <3> QED BY <3>1, <2>1, <2>2, AppendedEvent
  <2> HIDE DEF r
  <2>4. TopoTypes'
    BY <1>1, <2>3 DEF TopoTypes, Switches, Cables
  <2>5. (\A k \in 1..Len(r) : r[k].type # "link_add") /\ LinkEvents(r)
    BY <2>3 DEF LinkEvents
  <2>6. KnownInv => KnownInv'
    BY <1>1, <2>3, <2>4, <2>5, KnownGrow
  <2>7. UsableInv => UsableInv'
    BY <1>1, <2>3, <2>4, <2>5, UsableGrow
  <2> QED BY <2>6, <2>7
<1> QED BY <1>2, <1>3

LEMMA QuietTopo ==
  ASSUME TopoTypes,
         \/ \E s \in Switches : SwitchReconnects(s) \/ SwitchObeys(s)
         \/ \E l \in Cables : CableUp(l)
         \/ \E t \in Talks : HostSends(t[1], t[2])
         \/ UNCHANGED vars
  PROVE  (KnownInv => KnownInv') /\ (UsableInv => UsableInv')
<1>1. UNCHANGED <<net, events, links, datapath_list, adjacency, G>>
  BY DEF SwitchReconnects, SwitchObeys, CableUp, HostSends, app, fabric, vars
<1>2. up' \subseteq Cables
  <2>1. CASE \E l \in Cables : CableUp(l)
    BY <2>1, CableFacts DEF CableUp, TopoTypes
  <2> QED BY <2>1 DEF SwitchReconnects, SwitchObeys, HostSends, fabric, vars, TopoTypes
<1>3. /\ conn' \in [Switches -> [n : Nat, live : BOOLEAN]]
      /\ \A t \in Switches : conn'[t].live => conn[t].live
  <2>1. CASE \E s \in Switches : SwitchReconnects(s)
    <3>1. PICK s \in Switches : conn' = [conn EXCEPT ![s].n = @ + 1]
      BY <2>1 DEF SwitchReconnects
    <3> QED BY <3>1 DEF TopoTypes
  <2>2. CASE UNCHANGED conn
    BY <2>2 DEF TopoTypes
  <2> QED BY <2>1, <2>2 DEF SwitchObeys, CableUp, HostSends, fabric, vars
<1>4. TopoTypes'
  BY <1>1, <1>2, <1>3 DEF TopoTypes, Switches, Cables
<1> QED BY <1>1, <1>3, <1>4, KnownStay, UsableStay

LEMMA KnownNext == KnownInv /\ [Next]_vars => KnownInv'
<1> SUFFICES ASSUME KnownInv, [Next]_vars PROVE KnownInv'
  OBVIOUS
<1>1. TopoTypes
  BY DEF KnownInv
<1> QED BY <1>1, KnownController, SwitchConnectsTopo, SwitchDiesTopo, LinkDiscoveredTopo,
           LinkTimesOutTopo, CableDownTopo, SwitchForwardsTopo, QuietTopo DEF Next

LEMMA UsableNext ==
  ASSUME NoParallelCables
  PROVE  UsableInv /\ [Next]_vars => UsableInv'
<1> SUFFICES ASSUME UsableInv, [Next]_vars PROVE UsableInv'
  OBVIOUS
<1>1. TopoTypes
  BY DEF UsableInv
<1> QED BY <1>1, UsableController, SwitchConnectsTopo, SwitchDiesTopo, LinkDiscoveredTopo,
           LinkTimesOutTopo, CableDownTopo, SwitchForwardsTopo, QuietTopo DEF Next

LEMMA KnownInit == Init => KnownInv
<1> SUFFICES ASSUME Init PROVE KnownInv
  OBVIOUS
<1>1. TopoTypes
  BY TopoTypesInit
<1>2. events = << >> /\ Len(events) = 0
  BY DEF Init
<1>3. AddsInTime(events, DOMAIN datapath_list)
  BY <1>2 DEF AddsInTime
<1>4. NodesHaveDatapaths
  <2>1. CASE datapath_list = << >> /\ G = [nodes |-> {}, edges |-> {}]
    <3>1. DOMAIN datapath_list = {}
      BY <2>1
    <3> QED BY <2>1, <3>1 DEF NodesHaveDatapaths
  <2>2. CASE datapath_list = [s \in Switches |-> 1] /\ G.nodes = Switches
    BY <2>2 DEF NodesHaveDatapaths
  <2> QED BY <2>1, <2>2 DEF Init
<1>5. \A s \in Switches : conn[s].live => s \in DOMAIN datapath_list
  BY DEF Init
<1>6. LiveAreKnown(events, DOMAIN datapath_list)
  BY <1>2, <1>5 DEF LiveAreKnown, KnownAt
<1> QED BY <1>1, <1>3, <1>4, <1>6 DEF KnownInv

LEMMA UsableInit ==
  ASSUME NoParallelCables, Init
  PROVE  UsableInv
<1>1. TopoTypes /\ net \in Networks
  BY TopoTypesInit DEF Init
<1>2. events = << >> /\ Len(events) = 0
  BY DEF Init
<1>3. LinkEvents(events)
  BY <1>2 DEF LinkEvents
<1>4. ASSUME NEW l \in links PROVE Usable(G, adjacency, l)
  <2> DEFINE pair(m) == <<m[1], m[3]>>
             P == {<<m[1], m[3]>> : m \in Cables}
  <2>1. /\ adjacency = [e \in P |-> (CHOOSE m \in Cables : <<m[1], m[3]>> = e)[2]]
        /\ G = [nodes |-> Switches, edges |-> P] /\ links = Cables
    BY <1>4 DEF Init
  <2>2. ASSUME NEW m \in Cables
        PROVE  pair(m) \in P /\ adjacency[pair(m)] = m[2]
    <3>1. pair(m) \in P
      OBVIOUS
    <3> DEFINE c == CHOOSE k \in Cables : <<k[1], k[3]>> = pair(m)
    <3>2. c \in Cables /\ <<c[1], c[3]>> = pair(m)
      OBVIOUS
    <3>3. c = m
      <4>1. c[1] = m[1] /\ c[3] = m[3]
        BY <3>2
      <4> QED BY <4>1, <3>2, <1>1 DEF NoParallelCables, Cables
    <3>4. adjacency[pair(m)] = c[2]
      BY <2>1, <3>1
    <3> QED BY <3>1, <3>3, <3>4
  <2>3. l \in Cables /\ Rev(l) \in Cables
    BY <2>1, <1>1, <1>4, CableFacts
  <2>4. Rev(l)[1] = l[3] /\ Rev(l)[2] = l[4] /\ Rev(l)[3] = l[1]
    BY DEF Rev
  <2>5. /\ pair(l) \in P /\ adjacency[pair(l)] = l[2]
        /\ pair(Rev(l)) \in P /\ adjacency[pair(Rev(l))] = l[4]
    BY <2>2, <2>3, <2>4
  <2>6. pair(Rev(l)) = <<l[3], l[1]>> /\ DOMAIN adjacency = P /\ G.edges = P
    BY <2>1, <2>4
  <2> HIDE DEF P
  <2> QED BY <2>5, <2>6 DEF Usable
<1>5. BothWaysUsable(events, G, adjacency)
  BY <1>2, <1>4 DEF BothWaysUsable, UsableAfter
<1> QED BY <1>1, <1>3, <1>5 DEF UsableInv

-----------------------------------------------------------------------------
(***************************************************************************)
(* install_paths finds a datapath for each node of each path, in every     *)
(* network and however switches and links come and go.                     *)
(***************************************************************************)
THEOREM NodesAlwaysHaveDatapaths == Spec => []NodesHaveDatapaths
<1>1. KnownInv => NodesHaveDatapaths
  BY DEF KnownInv
<1> QED BY <1>1, KnownInit, KnownNext, PTL DEF Spec

(***************************************************************************)
(* In a network without parallel cables, once the application has handled  *)
(* its events it can use each link that was discovered in both directions. *)
(***************************************************************************)
THEOREM LinksBecomeUsable ==
  ASSUME NoParallelCables
  PROVE  Spec => []DiscoveredLinksAreUsable
<1>1. UsableInv => DiscoveredLinksAreUsable
  <2> SUFFICES ASSUME UsableInv, events = << >>, NEW l \in links, Rev(l) \in links
               PROVE  /\ <<l[1], l[3]>> \in G.edges
                      /\ <<l[1], l[3]>> \in DOMAIN adjacency /\ adjacency[<<l[1], l[3]>>] = l[2]
    BY DEF DiscoveredLinksAreUsable
  <2>1. UsableAfter(events, G, adjacency, l) /\ Len(events) = 0
    BY DEF UsableInv, BothWaysUsable
  <2> QED BY <2>1 DEF UsableAfter, Usable
<1>2. Init => UsableInv
  BY UsableInit
<1>3. UsableInv /\ [Next]_vars => UsableInv'
  BY UsableNext
<1> QED BY <1>1, <1>2, <1>3, PTL DEF Spec

-----------------------------------------------------------------------------
(***************************************************************************)
(* Where the frames of a host can be while the application has not heard   *)
(* of it.  K are the hosts it knows.  A frame of another host is where the *)
(* host put it, or reported from there: no packet-out carries it and no    *)
(* flow entry takes it further.  An ARP reply goes to a host that is       *)
(* known, because its request has come through the controller.             *)
(***************************************************************************)
FrameOk(f, K) ==
  /\ f.src \in Hosts /\ f.dst \in Hosts
  /\ (f.type = "ARP" /\ f.x = "REPLY") => f.dst \in K
PacketOk(m, K) ==
  /\ m.at[1] \in Switches /\ FrameOk(m.f, K)
  /\ m.f.src \in K \/ m.at = Home[m.f.src]
RuleOk(r, K) == r = NoIPv6 \/ r.match[3] \in K
MessageOk(m, K) ==
  \/ m.kind = "mods" /\ \A r \in m.rules : RuleOk(r, K)
  \/ m.kind = "out" /\ FrameOk(m.f, K) /\ m.f.src \in K

EventsOk(q, K) == \A i \in 1..Len(q) : q[i].type = "packet_in" => PacketOk(q[i].x, K)
MessagesOk(q, K) == IsSeq(q) /\ \A i \in 1..Len(q) : MessageOk(q[i], K)
WireOk(w, K) == \A m \in w : PacketOk(m, K)
TablesOk(t, K) == DOMAIN t = Switches /\ \A s \in Switches : \A r \in t[s] : RuleOk(r, K)
ChannelsOk(c, K) == DOMAIN c = Switches /\ \A s \in Switches : MessagesOk(c[s], K)

HomeInv ==
  /\ DOMAIN hosts \subseteq Hosts /\ arp_table \subseteq DOMAIN hosts /\ HostsAtHome
  /\ EventsOk(events, DOMAIN hosts) /\ WireOk(wire, DOMAIN hosts)
  /\ ChannelsOk(chan, DOMAIN hosts) /\ TablesOk(tables, DOMAIN hosts)

-----------------------------------------------------------------------------
LEMMA MoreKnown ==
  ASSUME NEW K, NEW L, K \subseteq L
  PROVE  /\ \A f : FrameOk(f, K) => FrameOk(f, L)
         /\ \A m : PacketOk(m, K) => PacketOk(m, L)
         /\ \A r : RuleOk(r, K) => RuleOk(r, L)
         /\ \A m : MessageOk(m, K) => MessageOk(m, L)
         /\ \A q : EventsOk(q, K) => EventsOk(q, L)
         /\ \A q : MessagesOk(q, K) => MessagesOk(q, L)
         /\ \A w : WireOk(w, K) => WireOk(w, L)
<1>1. \A f : FrameOk(f, K) => FrameOk(f, L)
  BY DEF FrameOk
<1>2. \A m : PacketOk(m, K) => PacketOk(m, L)
  BY <1>1 DEF PacketOk
<1>3. \A r : RuleOk(r, K) => RuleOk(r, L)
  BY DEF RuleOk
<1>4. \A m : MessageOk(m, K) => MessageOk(m, L)
  BY <1>1, <1>3 DEF MessageOk
<1> QED BY <1>1, <1>2, <1>3, <1>4 DEF EventsOk, MessagesOk, WireOk

LEMMA EventsOkGrows ==
  ASSUME NEW q, NEW r, IsSeq(q), IsSeq(r), NEW K, EventsOk(q, K),
         \A k \in 1..Len(r) : r[k].type = "packet_in" => PacketOk(r[k].x, K)
  PROVE  EventsOk(q \o r, K)
<1> DEFINE t == q \o r
<1>1. /\ Len(t) = Len(q) + Len(r) /\ Len(q) \in Nat /\ Len(r) \in Nat
      /\ \A i \in 1..Len(q) : t[i] = q[i]
      /\ \A i \in (Len(q) + 1)..(Len(q) + Len(r)) :
              i - Len(q) \in 1..Len(r) /\ t[i] = r[i - Len(q)]
  BY SeqConcat, SeqLen
<1> HIDE DEF t
<1>2. \A i \in 1..Len(t) : \/ i \in 1..Len(q) /\ t[i] = q[i]
                           \/ i - Len(q) \in 1..Len(r) /\ t[i] = r[i - Len(q)]
  BY <1>1
<1>3. EventsOk(t, K)
  BY <1>2 DEF EventsOk
<1> QED BY <1>3 DEF t

LEMMA MessagesOkGrows ==
  ASSUME NEW q, NEW r, NEW K, MessagesOk(q, K), MessagesOk(r, K)
  PROVE  MessagesOk(q \o r, K)
<1> DEFINE t == q \o r
<1>1. /\ IsSeq(t) /\ Len(t) = Len(q) + Len(r) /\ Len(q) \in Nat /\ Len(r) \in Nat
      /\ \A i \in 1..Len(q) : t[i] = q[i]
      /\ \A i \in (Len(q) + 1)..(Len(q) + Len(r)) :
              i - Len(q) \in 1..Len(r) /\ t[i] = r[i - Len(q)]
  BY SeqConcat, SeqLen DEF MessagesOk
<1> HIDE DEF t
<1>2. \A i \in 1..Len(t) : \/ i \in 1..Len(q) /\ t[i] = q[i]
                           \/ i - Len(q) \in 1..Len(r) /\ t[i] = r[i - Len(q)]
  BY <1>1
<1>3. MessagesOk(t, K)
  BY <1>1, <1>2 DEF MessagesOk
<1> QED BY <1>3 DEF t

LEMMA MessagesOne ==
  ASSUME NEW m, NEW K, MessageOk(m, K)
  PROVE  /\ MessagesOk(<<m>>, K) /\ MessagesOk(<< >>, K)
         /\ \A q : MessagesOk(q, K) => MessagesOk(Append(q, m), K)
<1>1. IsSeq(<<m>>) /\ Len(<<m>>) = 1 /\ <<m>>[1] = m /\ IsSeq(<< >>) /\ Len(<< >>) = 0
      /\ \A q : IsSeq(q) => Append(q, m) = q \o <<m>>
  BY SeqOne
<1>2. MessagesOk(<<m>>, K) /\ MessagesOk(<< >>, K)
  BY <1>1 DEF MessagesOk
<1>3. ASSUME NEW q, MessagesOk(q, K) PROVE MessagesOk(Append(q, m), K)
  <2>1. Append(q, m) = q \o <<m>>
    BY <1>1, <1>3 DEF MessagesOk
  <2> QED BY <2>1, <1>2, <1>3, MessagesOkGrows
<1> QED BY <1>2, <1>3

LEMMA NoMessages ==
  ASSUME NEW K
  PROVE  MessagesOk(<< >>, K)
<1>1. << >> \in Seq({}) /\ Len(<< >>) = 0
  OBVIOUS
<1> QED BY <1>1 DEF MessagesOk, IsSeq

LEMMA EventsOkShrinks ==
  ASSUME NEW q, IsSeq(q), q # << >>, NEW K, EventsOk(q, K)
  PROVE  /\ EventsOk(Tail(q), K)
         /\ Head(q).type = "packet_in" => PacketOk(Head(q).x, K)
<1> DEFINE t == Tail(q)
<1>1. /\ Head(q) = q[1] /\ Len(q) \in Nat /\ Len(q) >= 1 /\ Len(t) = Len(q) - 1
      /\ \A k \in 1..(Len(q) - 1) : t[k] = q[k + 1]
  BY SeqTail, SeqLen
<1> HIDE DEF t
<1>2. \A i \in 1..Len(t) : i + 1 \in 1..Len(q) /\ t[i] = q[i + 1]
  BY <1>1
<1>3. EventsOk(t, K)
  BY <1>2 DEF EventsOk
<1>4. Head(q).type = "packet_in" => PacketOk(Head(q).x, K)
  BY <1>1 DEF EventsOk
<1> QED BY <1>3, <1>4 DEF t

LEMMA MessagesOkShrinks ==
  ASSUME NEW q, q # << >>, NEW K, MessagesOk(q, K)
  PROVE  MessagesOk(Tail(q), K) /\ MessageOk(Head(q), K)
<1> DEFINE t == Tail(q)
<1>1. /\ Head(q) = q[1] /\ Len(q) \in Nat /\ Len(q) >= 1 /\ Len(t) = Len(q) - 1
      /\ IsSeq(t) /\ \A k \in 1..(Len(q) - 1) : t[k] = q[k + 1]
  BY SeqTail, SeqLen DEF MessagesOk
<1> HIDE DEF t
<1>2. \A i \in 1..Len(t) : i + 1 \in 1..Len(q) /\ t[i] = q[i + 1]
  BY <1>1
<1>3. MessagesOk(t, K)
  BY <1>1, <1>2 DEF MessagesOk
<1>4. MessageOk(Head(q), K)
  BY <1>1 DEF MessagesOk
<1> QED BY <1>3, <1>4 DEF t

-----------------------------------------------------------------------------
(***************************************************************************)
(* The switches: a frame is emitted only when its sender is known, and     *)
(* each frame that comes of it is fine.                                    *)
(***************************************************************************)
LEMMA HomeFacts ==
  ASSUME net \in Networks
  PROVE  \A h \in Hosts : /\ Home[h][1] \in Switches /\ Home[h][2] \in PortNumbers
BY MultipathConstants DEF Home, Hosts, Switches

LEMMA EmitOk ==
  ASSUME TopoTypes, NEW K, NEW s, NEW ports, NEW f, NEW rest,
         FrameOk(f, K), f.src \in K, WireOk(rest, K), Emit(s, ports, f, rest)
  PROVE  WireOk(wire', K)
<1> DEFINE onward == {At(<<l[3], l[4]>>, f) : l \in {l \in up : l[1] = s /\ l[2] \in ports}}
           here == {h \in Hosts : /\ Home[h][1] = s /\ Home[h][2] \in ports
                                  /\ f.dst = h /\ f.type = "ARP"}
           answers == {At(Home[h], Frame("ARP", h, f.src, "REPLY")) :
                         h \in {h \in here : f.x = "REQUEST"}}
<1>1. wire' \in Fit(rest, onward \cup answers)
  BY DEF Emit
<1>2. wire' \subseteq rest \cup onward \cup answers
  <2> HIDE DEF onward, answers
  <2> QED BY <1>1 DEF Fit
<1>3. ASSUME NEW l \in up PROVE PacketOk(At(<<l[3], l[4]>>, f), K)
  <2>1. l[3] \in Switches
    BY CableFacts DEF TopoTypes
  <2>2. At(<<l[3], l[4]>>, f).at[1] = l[3] /\ At(<<l[3], l[4]>>, f).f = f
    BY DEF At
  <2> QED BY <2>1, <2>2 DEF PacketOk
<1>4. ASSUME NEW h \in Hosts PROVE PacketOk(At(Home[h], Frame("ARP", h, f.src, "REPLY")), K)
  <2> DEFINE g == Frame("ARP", h, f.src, "REPLY")
             m == At(Home[h], g)
  <2>1. g.src = h /\ g.dst = f.src
    BY DEF Frame
  <2>2. m.at = Home[h] /\ m.f = g
    BY DEF At
  <2>3. Home[h][1] \in Switches
    BY HomeFacts DEF TopoTypes
  <2> HIDE DEF g, m
  <2>4. PacketOk(m, K)
    BY <2>1, <2>2, <2>3 DEF PacketOk, FrameOk
  <2> QED BY <2>4 DEF m, g
<1>5. \A m \in onward : PacketOk(m, K)
  BY <1>3
<1>6. \A m \in answers : PacketOk(m, K)
  BY <1>4
<1> HIDE DEF onward, answers
<1> QED BY <1>2, <1>5, <1>6 DEF WireOk

LEMMA EmitNowhere ==
  ASSUME TopoTypes, NEW s, NEW ports, NEW f, NEW rest, ports \cap PortNumbers = {},
         Emit(s, ports, f, rest)
  PROVE  wire' \subseteq rest
<1> DEFINE onward == {At(<<l[3], l[4]>>, f) : l \in {l \in up : l[1] = s /\ l[2] \in ports}}
           here == {h \in Hosts : /\ Home[h][1] = s /\ Home[h][2] \in ports
                                  /\ f.dst = h /\ f.type = "ARP"}
           answers == {At(Home[h], Frame("ARP", h, f.src, "REPLY")) :
                         h \in {h \in here : f.x = "REQUEST"}}
<1>1. wire' \in Fit(rest, onward \cup answers)
  BY DEF Emit
<1>2. \A l \in up : l[2] \in PortNumbers
  BY CableFacts DEF TopoTypes
<1>3. \A h \in Hosts : Home[h][2] \in PortNumbers
  BY HomeFacts DEF TopoTypes
<1>4. onward = {} /\ here = {}
  BY <1>2, <1>3
<1>5. answers = {}
  BY <1>4
<1> HIDE DEF onward, answers, here
<1> QED BY <1>1, <1>4, <1>5 DEF Fit

(***************************************************************************)
(* When the application learns of no host.                                 *)
(***************************************************************************)
LEMMA HomePrimed ==
  ASSUME net' = net, NEW K,
         DOMAIN hosts' = K, K \subseteq Hosts, arp_table' \subseteq K,
         \A h \in K : hosts'[h] = Home[h],
         EventsOk(events', K), WireOk(wire', K), ChannelsOk(chan', K), TablesOk(tables', K)
  PROVE  HomeInv'
<1>1. Hosts' = Hosts /\ Switches' = Switches /\ Home' = Home
  BY DEF Hosts, Switches, Home
<1>2. (DOMAIN hosts \subseteq Hosts /\ arp_table \subseteq DOMAIN hosts /\ HostsAtHome)'
  BY <1>1 DEF HostsAtHome
<1>3. EventsOk(events, DOMAIN hosts)' /\ WireOk(wire, DOMAIN hosts)'
  BY <1>1 DEF EventsOk, WireOk, PacketOk, FrameOk
<1>4. ChannelsOk(chan, DOMAIN hosts)'
  BY <1>1 DEF ChannelsOk, MessagesOk, MessageOk, FrameOk, RuleOk, NoIPv6
<1>5. TablesOk(tables, DOMAIN hosts)'
  BY <1>1 DEF TablesOk, RuleOk, NoIPv6
<1> QED BY <1>2, <1>3, <1>4, <1>5 DEF HomeInv

(***************************************************************************)
(* When the application learns of no host.                                 *)
(***************************************************************************)
LEMMA HomeStay ==
  ASSUME HomeInv, UNCHANGED <<net, hosts, arp_table>>,
         EventsOk(events', DOMAIN hosts), WireOk(wire', DOMAIN hosts),
         ChannelsOk(chan', DOMAIN hosts), TablesOk(tables', DOMAIN hosts)
  PROVE  HomeInv'
<1> DEFINE K == DOMAIN hosts
<1>1. /\ DOMAIN hosts' = K /\ K \subseteq Hosts /\ arp_table' \subseteq K
      /\ \A h \in K : hosts'[h] = Home[h]
  BY DEF HomeInv, HostsAtHome
<1> HIDE DEF K
<1>2. /\ EventsOk(events', K) /\ WireOk(wire', K)
      /\ ChannelsOk(chan', K) /\ TablesOk(tables', K)
  BY DEF K
<1> QED BY <1>1, <1>2, HomePrimed

(***************************************************************************)
(* Events of the topology: none is a packet-in.                            *)
(***************************************************************************)
LEMMA TopologyOk ==
  ASSUME HomeInv, TopoTypes, UNCHANGED <<net, hosts, arp_table, wire>>,
         NEW r, IsSeq(r), events' = events \o r, \A k \in 1..Len(r) : r[k].type # "packet_in",
         ChannelsOk(chan', DOMAIN hosts), TablesOk(tables', DOMAIN hosts)
  PROVE  HomeInv'
<1>1. IsSeq(events) /\ EventsOk(events, DOMAIN hosts) /\ WireOk(wire', DOMAIN hosts)
  BY DEF TopoTypes, HomeInv
<1>2. EventsOk(events', DOMAIN hosts)
  BY <1>1, EventsOkGrows
<1> QED BY <1>1, <1>2, HomeStay

LEMMA RestartOk ==
  ASSUME HomeInv, NEW s \in Switches, chan' = [chan EXCEPT ![s] = << >>], Restarts(s)
  PROVE  ChannelsOk(chan', DOMAIN hosts) /\ TablesOk(tables', DOMAIN hosts)
<1> DEFINE K == DOMAIN hosts
<1>1. ChannelsOk(chan, K) /\ TablesOk(tables, K) /\ MessagesOk(<< >>, K)
  BY NoMessages DEF HomeInv
<1> HIDE DEF K
<1>2. ChannelsOk(chan', K)
  BY <1>1 DEF ChannelsOk
<1>3. TablesOk(tables', K)
  BY <1>1 DEF TablesOk, Restarts
<1> QED BY <1>2, <1>3 DEF K

LEMMA SwitchesOk ==
  ASSUME HomeInv, TopoTypes, NEW s \in Switches,
         SwitchConnects(s) \/ SwitchReconnects(s) \/ SwitchDies(s)
  PROVE  HomeInv'
<1>1. IsSeq(events) /\ EventsOk(events, DOMAIN hosts) /\ WireOk(wire, DOMAIN hosts)
      /\ ChannelsOk(chan, DOMAIN hosts) /\ TablesOk(tables, DOMAIN hosts)
  BY DEF HomeInv, TopoTypes
<1>2. CASE SwitchConnects(s)
  <2> DEFINE e == TopologyEvent("switch_enter", s, conn[s].n + 1)
             r == <<e>>
  <2>1. UNCHANGED <<net, hosts, arp_table, wire, chan, tables>> /\ events' = Append(events, e)
    BY <1>2 DEF SwitchConnects, app
  <2>2. e.type = "switch_enter"
    BY DEF TopologyEvent
  <2> HIDE DEF e
  <2>3. Append(events, e) = events \o r /\ IsSeq(r) /\ \A k \in 1..Len(r) : r[k] = e
    BY <1>1, <2>2, AppendedEvent
  <2> HIDE DEF r
  <2> QED BY <1>1, <2>1, <2>2, <2>3, TopologyOk
<1>3. CASE SwitchReconnects(s)
  <2>1. UNCHANGED <<net, hosts, arp_table, wire, events>>
        /\ chan' = [chan EXCEPT ![s] = << >>] /\ Restarts(s)
    BY <1>3 DEF SwitchReconnects, app
  <2> QED BY <1>1, <2>1, RestartOk, HomeStay
<1>4. CASE SwitchDies(s)
  <2> DEFINE e == TopologyEvent("switch_leave", s, 0)
             gone == {l \in links : l[1] = s}
  <2>1. UNCHANGED <<net, hosts, arp_table, wire>>
        /\ chan' = [chan EXCEPT ![s] = << >>] /\ Restarts(s)
    BY <1>4 DEF SwitchDies, app
  <2>2. PICK del \in Deletions(gone) : events' = Append(events, e) \o del
    BY <1>4 DEF SwitchDies
  <2>3. IsSeq(del) /\ \A i \in 1..Len(del) : del[i].type # "packet_in"
    BY DeletionEvents
  <2>4. e.type = "switch_leave"
    BY DEF TopologyEvent
  <2> HIDE DEF e, gone
  <2>5. /\ IsSeq(<<e>>) /\ Append(events, e) = events \o <<e>>
        /\ Len(<<e>>) = 1 /\ <<e>>[1] = e
    BY <1>1, SeqOne
  <2>6. \A k \in 1..Len(<<e>>) : <<e>>[k].type # "packet_in"
    BY <2>4, <2>5
  <2>7. IsSeq(events \o <<e>>) /\ EventsOk(events \o <<e>>, DOMAIN hosts)
    BY <1>1, <2>5, <2>6, SeqConcat, EventsOkGrows
  <2>8. EventsOk(events', DOMAIN hosts)
    BY <2>2, <2>3, <2>5, <2>7, EventsOkGrows
  <2> QED BY <1>1, <2>1, <2>8, RestartOk, HomeStay
<1> QED BY <1>2, <1>3, <1>4

LEMMA CablesOk ==
  ASSUME HomeInv, TopoTypes, NEW l \in Cables,
         LinkDiscovered(l) \/ LinkTimesOut(l) \/ CableDown(l) \/ CableUp(l)
  PROVE  HomeInv'
<1>1. IsSeq(events) /\ EventsOk(events, DOMAIN hosts) /\ WireOk(wire, DOMAIN hosts)
      /\ ChannelsOk(chan, DOMAIN hosts) /\ TablesOk(tables, DOMAIN hosts)
  BY DEF HomeInv, TopoTypes
<1>2. UNCHANGED <<net, hosts, arp_table, wire, chan, tables>>
  BY DEF LinkDiscovered, LinkTimesOut, CableDown, CableUp, app
<1>3. ASSUME EventsOk(events', DOMAIN hosts) PROVE HomeInv'
  BY <1>1, <1>2, <1>3, HomeStay
<1>4. CASE LinkDiscovered(l)
  <2> DEFINE e == TopologyEvent("link_add", l, 0)
             r == <<e>>
  <2>1. events' = Append(events, e)
    BY <1>4 DEF LinkDiscovered
  <2>2. e.type = "link_add"
    BY DEF TopologyEvent
  <2> HIDE DEF e
  <2>3. Append(events, e) = events \o r /\ IsSeq(r) /\ \A k \in 1..Len(r) : r[k] = e
    BY <1>1, <2>2, AppendedEvent
  <2> HIDE DEF r
  <2> QED BY <1>1, <1>2, <2>1, <2>2, <2>3, TopologyOk
<1>5. ASSUME NEW q, IsSeq(q), EventsOk(q, DOMAIN hosts), NEW m
      PROVE  IsSeq(q \o LinkDelete(m)) /\ EventsOk(q \o LinkDelete(m), DOMAIN hosts)
  <2> DEFINE r == LinkDelete(m)
  <2>1. IsSeq(r) /\ \A k \in 1..Len(r) : r[k].type # "packet_in"
    BY DeleteEvent
  <2> HIDE DEF r
  <2>2. IsSeq(q \o r) /\ EventsOk(q \o r, DOMAIN hosts)
    BY <1>5, <2>1, SeqConcat, EventsOkGrows
  <2> QED BY <2>2 DEF r
<1>6. CASE LinkTimesOut(l)
  BY <1>1, <1>3, <1>5, <1>6 DEF LinkTimesOut
<1>7. CASE CableDown(l)
  <2>1. events' = (events \o LinkDelete(l)) \o LinkDelete(Rev(l)) \/ events' = events
    BY <1>7 DEF CableDown
  <2>2. EventsOk((events \o LinkDelete(l)) \o LinkDelete(Rev(l)), DOMAIN hosts)
    BY <1>1, <1>5
  <2> QED BY <1>1, <1>3, <2>1, <2>2
<1>8. CASE CableUp(l)
  BY <1>1, <1>3, <1>8 DEF CableUp
<1> QED BY <1>4, <1>6, <1>7, <1>8

LEMMA HostSendsOk ==
  ASSUME HomeInv, TopoTypes, NEW t \in Talks, HostSends(t[1], t[2])
  PROVE  HomeInv'
<1> DEFINE a == t[1]
           b == t[2]
<1>1. EventsOk(events, DOMAIN hosts) /\ WireOk(wire, DOMAIN hosts)
      /\ ChannelsOk(chan, DOMAIN hosts) /\ TablesOk(tables, DOMAIN hosts)
  BY DEF HomeInv
<1>2. a \in Hosts /\ b \in Hosts
  BY MultipathConstants DEF TopoTypes, Talks, Hosts, Home
<1>3. UNCHANGED <<net, hosts, arp_table, events, chan, tables>>
  BY DEF HostSends, app, fabric
<1>4. PICK f : /\ \/ f = Frame("ARP", a, b, "REQUEST")
                  \/ \E type \in Noise : f = Frame(type, a, b, "none")
               /\ wire' = wire \cup {At(Home[a], f)}
  BY DEF HostSends
<1>5. f.src = a /\ f.dst = b /\ f.x # "REPLY"
  BY <1>4 DEF Frame
<1>6. At(Home[a], f).at = Home[a] /\ At(Home[a], f).f = f
  BY DEF At
<1>7. PacketOk(At(Home[a], f), DOMAIN hosts)
  BY <1>2, <1>5, <1>6, HomeFacts DEF PacketOk, FrameOk, TopoTypes
<1>8. WireOk(wire', DOMAIN hosts)
  BY <1>1, <1>4, <1>7 DEF WireOk
<1> QED BY <1>1, <1>3, <1>8, HomeStay

LEMMA SwitchForwardsOk ==
  ASSUME HomeInv, TopoTypes, NEW m \in wire, SwitchForwards(m)
  PROVE  HomeInv'
<1> DEFINE s == m.at[1]
           K == DOMAIN hosts
           rest == wire \ {m}
<1>1. IsSeq(events) /\ EventsOk(events, K) /\ WireOk(wire, K)
      /\ ChannelsOk(chan, K) /\ TablesOk(tables, K)
  BY DEF HomeInv, TopoTypes
<1>2. PacketOk(m, K) /\ WireOk(rest, K)
  BY <1>1 DEF WireOk
<1>3. UNCHANGED <<net, hosts, arp_table, chan, tables>>
  BY DEF SwitchForwards, app, fabric
<1>4. CASE \E r \in Lookup(s, m.at[2], m.f) : Emit(s, {r.out} \ {m.at[2]}, m.f, rest)
  <2>1. PICK r \in Lookup(s, m.at[2], m.f) : Emit(s, {r.out} \ {m.at[2]}, m.f, rest)
    BY <1>4
  <2>2. r \in tables[s] /\ s \in Switches /\ RuleOk(r, K)
    BY <1>1, <1>2 DEF Lookup, TablesOk, PacketOk
  <2>3. WireOk(wire', K)
    <3>1. CASE r = NoIPv6
      <4>1. r.out = -1
        BY <3>1 DEF NoIPv6
      <4>2. ({r.out} \ {m.at[2]}) \cap PortNumbers = {}
        BY <4>1 DEF PortNumbers
      <4> DEFINE ports == {r.out} \ {m.at[2]}
      <4>3. ports \cap PortNumbers = {} /\ Emit(s, ports, m.f, rest)
        BY <2>1, <4>2
      <4> HIDE DEF ports
      <4>4. wire' \subseteq rest
        BY <4>3, EmitNowhere
      <4> QED BY <4>4, <1>2 DEF WireOk
    <3>2. CASE r # NoIPv6
      <4>1. r.match[3] \in K
        BY <2>2, <3>2 DEF RuleOk
      <4>2. PICK x : r.match = <<m.at[2], m.f.type, m.f.src, m.f.dst, x>>
        BY <2>1, <3>2 DEF Lookup
      <4>3. m.f.src \in K
        BY <4>1, <4>2
      <4>4. FrameOk(m.f, K)
        BY <1>2 DEF PacketOk
      <4> QED BY <2>1, <4>3, <4>4, <1>2, EmitOk
    <3> QED BY <3>1, <3>2
  <2> HIDE DEF K, rest
  <2>4. CASE UNCHANGED events
    BY <1>1, <1>3, <2>3, <2>4, HomeStay DEF K
  <2>5. CASE ~UNCHANGED events
    BY <1>4, <2>5 DEF SwitchForwards
  <2> QED BY <2>4, <2>5
<1>5. CASE /\ wire' = rest
           /\ events' = Append(events, [type |-> "packet_in", x |-> m, n |-> conn[s].n])
  <2> DEFINE e == [type |-> "packet_in", x |-> m, n |-> conn[s].n]
             r == <<e>>
  <2>1. e.type = "packet_in" /\ e.x = m /\ events' = Append(events, e)
    BY <1>5
  <2> HIDE DEF e
  <2>2. Append(events, e) = events \o r /\ IsSeq(r) /\ \A k \in 1..Len(r) : r[k] = e
    BY <1>1, <2>1, AppendedEvent
  <2> HIDE DEF r
  <2>3. EventsOk(events', K)
    BY <1>1, <1>2, <2>1, <2>2, EventsOkGrows
  <2> QED BY <1>1, <1>2, <1>3, <1>5, <2>3, HomeStay
<1>6. CASE wire' = rest /\ UNCHANGED events
  BY <1>1, <1>2, <1>3, <1>6, HomeStay
<1> QED BY <1>4, <1>5, <1>6 DEF SwitchForwards

LEMMA SwitchObeysOk ==
  ASSUME HomeInv, TopoTypes, NEW s \in Switches, SwitchObeys(s)
  PROVE  HomeInv'
<1> DEFINE m == Head(chan[s])
           K == DOMAIN hosts
<1>1. IsSeq(events) /\ EventsOk(events, K) /\ WireOk(wire, K)
      /\ ChannelsOk(chan, K) /\ TablesOk(tables, K)
  BY DEF HomeInv, TopoTypes
<1>2. UNCHANGED <<net, hosts, arp_table, events>> /\ chan[s] # << >>
      /\ chan' = [chan EXCEPT ![s] = Tail(chan[s])]
  BY DEF SwitchObeys, app
<1>3. MessagesOk(chan[s], K)
  BY <1>1 DEF ChannelsOk
<1>4. MessagesOk(Tail(chan[s]), K) /\ MessageOk(m, K)
  BY <1>2, <1>3, MessagesOkShrinks
<1>5. ChannelsOk(chan', K)
  <2> DEFINE t == Tail(chan[s])
  <2>1. MessagesOk(t, K) /\ chan' = [chan EXCEPT ![s] = t]
    BY <1>2, <1>4
  <2> HIDE DEF t, K
  <2> QED BY <2>1, <1>1 DEF ChannelsOk
<1>6. CASE m.kind = "mods"
  <2>1. tables' = [tables EXCEPT ![s] = Overwrite(tables[s], m.rules)] /\ UNCHANGED wire
    BY <1>6 DEF SwitchObeys
  <2>2. \A r \in m.rules : RuleOk(r, K)
    BY <1>4, <1>6 DEF MessageOk
  <2> HIDE DEF m, K
  <2>3. TablesOk(tables', K)
    BY <1>1, <2>1, <2>2 DEF TablesOk, Overwrite
  <2> QED BY <1>1, <1>2, <1>5, <2>1, <2>3, HomeStay DEF K
<1>7. CASE m.kind = "out"
  <2> DEFINE ports == OutPorts(s, m.in_port, m.out)
  <2>1. Emit(s, ports, m.f, wire) /\ UNCHANGED tables
    BY <1>7 DEF SwitchObeys
  <2>2. FrameOk(m.f, K) /\ m.f.src \in K
    BY <1>4, <1>7 DEF MessageOk
  <2> HIDE DEF ports, m
  <2>3. WireOk(wire', K)
    BY <1>1, <2>1, <2>2, EmitOk
  <2> HIDE DEF K
  <2> QED BY <1>1, <1>2, <1>5, <2>1, <2>3, HomeStay DEF K
<1> QED BY <1>6, <1>7 DEF SwitchObeys

-----------------------------------------------------------------------------
(***************************************************************************)
(* The entries for a pair of hosts match frames from one of the two.       *)
(***************************************************************************)
FromPair(R, a, b) == \A r \in R : r.match[3] \in {a, b}

LEMMA RuleSource ==
  ASSUME NEW p, NEW type, NEW a, NEW b, NEW x, NEW out
  PROVE  Rule(p, type, a, b, x, out).match[3] = a
BY DEF Rule

LEMMA RulesFromPair ==
  ASSUME NEW a, NEW b, NEW io, NEW i, NEW n, NEW vlans
  PROVE  /\ FromPair(ArpRules(a, b, io), a, b)
         /\ FromPair(EdgeRules(a, b, io, i, n), a, b)
         /\ FromPair(TagRules(a, b, io, i, n, vlans), a, b)
<1>1. FromPair(ArpRules(a, b, io), a, b)
  BY RuleSource DEF FromPair, ArpRules
<1>2. FromPair(EdgeRules(a, b, io, i, n), a, b)
  BY RuleSource DEF FromPair, EdgeRules
<1>3. FromPair(TagRules(a, b, io, i, n, vlans), a, b)
  BY RuleSource DEF FromPair, TagRules
<1> QED BY <1>1, <1>2, <1>3

LEMMA BatchesFromPair ==
  ASSUME NEW s, NEW a, NEW b, NEW paths, NEW ports, NEW mirror, Len(paths) \in Nat
  PROVE  /\ IsSeq(Batches(s, a, b, paths, ports, mirror))
         /\ \A i \in 1..Len(Batches(s, a, b, paths, ports, mirror)) :
              FromPair(Batches(s, a, b, paths, ports, mirror)[i], a, b)
<1> DEFINE n(k) == Len(paths[k])
           Ends(k) == {i \in DOMAIN paths[k] : paths[k][i] = s}
           Own(k) == UNION {(IF k = 1 THEN ArpRules(a, b, ports[k][i]) ELSE {})
                         \cup EdgeRules(a, b, ports[k][i], i, n(k))
                         \cup TagRules(a, b, ports[k][i], i, n(k), Vlans(k, vlan)) : i \in Ends(k)}
           Copy(k) == LET m == mirror[k] IN
                 UNION {TagRules(a, b, ports[m][i], i, n(m), Vlans(k, mirrIorvlan)) : i \in Ends(m)}
           Every == [j \in 1..(2 * Len(paths)) |->
                       IF j % 2 = 1 THEN Own((j + 1) \div 2) ELSE Copy(j \div 2)]
           busy == {j \in DOMAIN Every : Every[j] # {}}
           c == Cardinality(busy)
           Part(i) == UNION {Every[j] : j \in {j \in busy : Cardinality({k \in busy : k <= j}) = i}}
           q == [i \in 1..c |-> Part(i)]
<1>1. Batches(s, a, b, paths, ports, mirror) = q
  BY DEF Batches
<1>2. \A k : FromPair(Own(k), a, b)
  <2> TAKE k
  <2> DEFINE Some(i) == (IF k = 1 THEN ArpRules(a, b, ports[k][i]) ELSE {})
                         \cup EdgeRules(a, b, ports[k][i], i, n(k))
                         \cup TagRules(a, b, ports[k][i], i, n(k), Vlans(k, vlan))
  <2>1. \A i : FromPair(Some(i), a, b)
    BY RulesFromPair DEF FromPair
  <2>2. Own(k) = UNION {Some(i) : i \in Ends(k)}
    OBVIOUS
  <2> HIDE DEF Own, Some
  <2> QED BY <2>1, <2>2 DEF FromPair
<1>3. \A k : FromPair(Copy(k), a, b)
  BY RulesFromPair DEF FromPair
<1> HIDE DEF Own, Copy
<1>4. \A j \in DOMAIN Every : FromPair(Every[j], a, b)
  BY <1>2, <1>3
<1>5. DOMAIN Every = 1..(2 * Len(paths))
  OBVIOUS
<1> HIDE DEF Every
<1>6. IsFiniteSet(busy)
  <2>1. IsFiniteSet(1..(2 * Len(paths)))
    BY FS_Interval
  <2>2. busy \subseteq 1..(2 * Len(paths))
    BY <1>5
  <2> QED BY <2>1, <2>2, FS_Subset
<1>7. c \in Nat
  BY <1>6, FS_CardinalityType
<1>8. \A i : FromPair(Part(i), a, b)
  BY <1>4 DEF FromPair
<1> HIDE DEF Part, c, busy
<1>9. IsSeq(q) /\ Len(q) = c /\ \A i \in 1..c : q[i] = Part(i)
  <2> DEFINE T == {Part(i) : i \in 1..c}
  <2>1. q \in [1..c -> T]
    OBVIOUS
  <2> HIDE DEF T
  <2>2. q \in Seq(T) /\ Len(q) = c
    BY <2>1, <1>7
  <2> QED BY <2>2 DEF IsSeq
<1> HIDE DEF q
<1> QED BY <1>1, <1>8, <1>9

LEMMA PathsCounted ==
  ASSUME NEW s, NEW t, NEW paths \in get_paths(s, t)
  PROVE  Len(paths) \in Nat
<1>1. CASE s = t
  <2>1. paths = << <<s>> >>
    BY <1>1 DEF get_paths
  <2> QED BY <2>1
<1>2. CASE s # t
  <2>1. paths \in UNION {[1..n -> SimplePaths(s, t)] : n \in 0..MAX_PATHS}
    BY <1>2 DEF get_paths
  <2>2. PICK n \in 0..MAX_PATHS : paths \in [1..n -> SimplePaths(s, t)]
    BY <2>1
  <2>3. n \in Nat
    OBVIOUS
  <2> QED BY <2>2, <2>3
<1> QED BY <1>1, <1>2

LEMMA ModsOk ==
  ASSUME NEW q, NEW a, NEW b, NEW L, {a, b} \subseteq L, IsSeq(q),
         \A i \in 1..Len(q) : FromPair(q[i], a, b)
  PROVE  MessagesOk([i \in DOMAIN q |-> Mods(q[i])], L)
<1> DEFINE r == [i \in DOMAIN q |-> Mods(q[i])]
<1>1. Len(q) \in Nat /\ DOMAIN q = 1..Len(q)
  BY SeqLen
<1>2. IsSeq(r) /\ Len(r) = Len(q) /\ \A i \in 1..Len(q) : r[i] = Mods(q[i])
  <2> DEFINE T == {Mods(q[i]) : i \in 1..Len(q)}
  <2>1. r \in [1..Len(q) -> T]
    BY <1>1
  <2> HIDE DEF T, r
  <2>2. r \in Seq(T) /\ Len(r) = Len(q)
    BY <1>1, <2>1
  <2> QED BY <2>2, <1>1 DEF IsSeq, r
<1>3. ASSUME NEW i \in 1..Len(q) PROVE MessageOk(Mods(q[i]), L)
  <2>1. \A p \in q[i] : RuleOk(p, L)
    BY DEF FromPair, RuleOk
  <2>2. Mods(q[i]).kind = "mods" /\ Mods(q[i]).rules = q[i]
    BY DEF Mods
  <2> QED BY <2>1, <2>2 DEF MessageOk
<1> HIDE DEF r
<1>4. MessagesOk(r, L)
  BY <1>2, <1>3 DEF MessagesOk
<1> QED BY <1>4 DEF r

(***************************************************************************)
(* The application learns of a host only from a frame at the host's port.  *)
(***************************************************************************)
LEMMA LearnOk ==
  ASSUME HomeInv, NEW m, PacketOk(m, DOMAIN hosts), Learn(m)
  PROVE  LET L == DOMAIN hosts \cup {m.f.src} IN
         /\ DOMAIN hosts' = L /\ L \subseteq Hosts
         /\ \A h \in L : hosts'[h] = Home[h]
<1>1. /\ DOMAIN hosts \subseteq Hosts /\ \A h \in DOMAIN hosts : hosts[h] = Home[h]
      /\ m.f.src \in Hosts
      /\ m.f.src \in DOMAIN hosts \/ m.at = Home[m.f.src]
  BY DEF HomeInv, HostsAtHome, PacketOk, FrameOk
<1>2. CASE m.f.src \in DOMAIN hosts
  BY <1>1, <1>2 DEF Learn
<1>3. CASE m.f.src \notin DOMAIN hosts
  <2>1. hosts' = With(hosts, m.f.src, m.at)
    BY <1>3 DEF Learn
  <2> QED BY <1>1, <1>3, <2>1 DEF With
<1> QED BY <1>2, <1>3

LEMMA SendOk ==
  ASSUME NEW K, ChannelsOk(chan, K), NEW s, NEW n, NEW msg, MessageOk(msg, K), Send(s, n, msg)
  PROVE  ChannelsOk(chan', K)
<1>1. \A q : MessagesOk(q, K) => MessagesOk(Append(q, msg), K)
  BY MessagesOne
<1>2. chan' = chan \/ chan' = [chan EXCEPT ![s] = Append(@, msg)]
  BY DEF Send
<1>3. CASE chan' = chan
  BY <1>3
<1>4. CASE chan' = [chan EXCEPT ![s] = Append(@, msg)] /\ s \in Switches
  <2> DEFINE t == Append(chan[s], msg)
  <2>1. MessagesOk(t, K) /\ chan' = [chan EXCEPT ![s] = t]
    BY <1>1, <1>4 DEF ChannelsOk
  <2> HIDE DEF t
  <2> QED BY <2>1, <1>4 DEF ChannelsOk
<1>5. CASE chan' = [chan EXCEPT ![s] = Append(@, msg)] /\ s \notin Switches
  <2>1. chan' = [x \in DOMAIN chan |-> chan[x]]
    BY <1>5 DEF ChannelsOk
  <2> QED BY <2>1 DEF ChannelsOk
<1> QED BY <1>2, <1>3, <1>4, <1>5

LEMMA InstallOk ==
  ASSUME NEW L, ChannelsOk(chan, L), NEW a \in L, NEW b \in L, NEW m, NEW n,
         m.f.src \in L, FrameOk(m.f, L), install_paths(a, b, m, n)
  PROVE  ChannelsOk(chan', L)
<1> DEFINE h1 == hosts'[a]
           h2 == hosts'[b]
<1> DEFINE Ports(paths) == [k \in DOMAIN paths |-> add_ports_to_paths(paths[k], h1[2], h2[2])]
           Flow(paths, mirror, s) ==
             IF s \in DOMAIN datapath_list /\ Accepts(s, datapath_list[s])
             THEN Batches(s, a, b, paths, Ports(paths), mirror) ELSE << >>
           Sent(paths, mirror) ==
             [s \in Switches |->
                chan[s] \o [i \in DOMAIN Flow(paths, mirror, s) |-> Mods(Flow(paths, mirror, s)[i])]
                  \o (IF s = m.at[1] /\ Accepts(s, n)
                      THEN <<PacketOut(m.at[2], Ports(paths)[1][1][2], m.f)>> ELSE << >>)]
<1>1. \E paths \in get_paths(h1[1], h2[1]) : \E mirror : chan' \in {chan, Sent(paths, mirror)}
  <2> DEFINE Gone(paths, mirror) ==
               IF ~Finished(paths) THEN UNCHANGED <<timeDict, chan, routes>>
               ELSE /\ timeDict' = [timeDict EXCEPT ![a] = {b}, ![b] = {a}]
                    /\ chan' = Sent(paths, mirror)
                    /\ routes' = With(routes, {a, b},
                         [src |-> a, dst |-> b, paths |-> paths,
                          sent |-> datapath_list, conn |-> conn])
  <2>1. \E paths \in get_paths(h1[1], h2[1]) : \E mirror \in Mirrors(Len(paths)) :
           Gone(paths, mirror)
    BY DEF install_paths
  <2>2. \A paths, mirror : Gone(paths, mirror) => chan' \in {chan, Sent(paths, mirror)}
    <3> HIDE DEF Sent
    <3> QED OBVIOUS
  <2> HIDE DEF Gone, Sent
  <2> QED BY <2>1, <2>2
<1>4. PICK paths \in get_paths(h1[1], h2[1]) : \E mirror : chan' \in {chan, Sent(paths, mirror)}
  BY <1>1
<1>5. PICK mirror : chan' \in {chan, Sent(paths, mirror)}
  BY <1>4
<1>2. CASE UNCHANGED chan
  BY <1>2
<1>3. CASE ~UNCHANGED chan
  <2> DEFINE ports == [k \in DOMAIN paths |-> add_ports_to_paths(paths[k], h1[2], h2[2])]
             Flows(s) == IF s \in DOMAIN datapath_list /\ Accepts(s, datapath_list[s])
                         THEN Batches(s, a, b, paths, ports, mirror) ELSE << >>
             First(s) == [i \in DOMAIN Flows(s) |-> Mods(Flows(s)[i])]
             out == PacketOut(m.at[2], ports[1][1][2], m.f)
             Final(s) == IF s = m.at[1] /\ Accepts(s, n) THEN <<out>> ELSE << >>
  <2>1. chan' = [s \in Switches |-> (chan[s] \o First(s)) \o Final(s)]
    BY <1>5, <1>3
  <2>2. Len(paths) \in Nat
    BY PathsCounted
  <2>3. MessageOk(out, L)
    <3>1. out.kind = "out" /\ out.f = m.f
      BY DEF PacketOut
    <3> QED BY <3>1 DEF MessageOk
  <2> HIDE DEF ports, out
  <2>4. ASSUME NEW s \in Switches PROVE MessagesOk(First(s), L)
    <3> DEFINE q == Flows(s)
    <3>1. q \in {Batches(s, a, b, paths, ports, mirror), << >>}
      OBVIOUS
    <3> HIDE DEF q
    <3>2. IsSeq(q) /\ \A i \in 1..Len(q) : FromPair(q[i], a, b)
      <4>1. CASE q = Batches(s, a, b, paths, ports, mirror)
        BY <4>1, <2>2, BatchesFromPair
      <4>2. CASE q = << >>
        <5>1. q \in Seq({}) /\ Len(q) = 0
          BY <4>2
        <5> QED BY <5>1 DEF IsSeq
      <4> QED BY <3>1, <4>1, <4>2
    <3>3. MessagesOk([i \in DOMAIN q |-> Mods(q[i])], L)
      BY <3>2, ModsOk
    <3> QED BY <3>3 DEF q
  <2>5. \A s \in Switches : MessagesOk(Final(s), L)
    BY <2>3, MessagesOne
  <2> HIDE DEF First, Final
  <2>6. \A s \in Switches : MessagesOk((chan[s] \o First(s)) \o Final(s), L)
    BY <2>4, <2>5, MessagesOkGrows DEF ChannelsOk
  <2> QED BY <2>1, <2>6 DEF ChannelsOk
<1> QED BY <1>2, <1>3

(***************************************************************************)
(* The handlers.                                                           *)
(***************************************************************************)
LEMMA PacketInOk ==
  ASSUME HomeInv, TopoTypes, _packet_in_handler
  PROVE  HomeInv'
<1> DEFINE m == Head(events).x
           n == Head(events).n
           a == m.f.src
           b == m.f.dst
           K == DOMAIN hosts
           L == K \cup {a}
<1>1. IsSeq(events) /\ EventsOk(events, K) /\ WireOk(wire, K) /\ arp_table \subseteq K
      /\ ChannelsOk(chan, K) /\ TablesOk(tables, K)
  BY DEF HomeInv, TopoTypes
<1>2. /\ events # << >> /\ Head(events).type = "packet_in"
      /\ UNCHANGED <<net, wire, tables>> /\ events' = Tail(events)
  BY DEF _packet_in_handler, Event, fabric
<1>3. EventsOk(events', K) /\ PacketOk(m, K)
  BY <1>1, <1>2, EventsOkShrinks
<1>4. K \subseteq L
  OBVIOUS
<1>5. /\ EventsOk(events', L) /\ WireOk(wire', L) /\ ChannelsOk(chan, L) /\ TablesOk(tables', L)
      /\ FrameOk(m.f, L) /\ a \in L
  <2>1. TablesOk(tables, L) /\ ChannelsOk(chan, L)
    BY <1>1, <1>4, MoreKnown DEF TablesOk, ChannelsOk
  <2>2. FrameOk(m.f, L)
    BY <1>3, <1>4, MoreKnown DEF PacketOk
  <2> QED BY <1>1, <1>2, <1>3, <1>4, <2>1, <2>2, MoreKnown
<1>6. ASSUME Learn(m), ChannelsOk(chan', L), arp_table' \subseteq L PROVE HomeInv'
  <2>1. DOMAIN hosts' = L /\ L \subseteq Hosts /\ \A h \in L : hosts'[h] = Home[h]
    BY <1>3, <1>6, LearnOk
  <2> HIDE DEF L
  <2> QED BY <2>1, <1>2, <1>5, <1>6, HomePrimed
<1>7. ASSUME UNCHANGED <<hosts, arp_table>>, ChannelsOk(chan', K) PROVE HomeInv'
  BY <1>1, <1>2, <1>3, <1>7, HomeStay
<1>8. CASE m.f.type = "LLDP" /\ UNCHANGED <<hosts, arp_table, timeDict, chan, routes>>
  BY <1>1, <1>7, <1>8
<1>9. CASE Send(m.at[1], n, Mods({NoIPv6})) /\ UNCHANGED <<hosts, arp_table, timeDict, routes>>
  <2>1. MessageOk(Mods({NoIPv6}), K)
    <3>1. Mods({NoIPv6}).kind = "mods" /\ Mods({NoIPv6}).rules = {NoIPv6}
      BY DEF Mods
    <3> QED BY <3>1 DEF MessageOk, RuleOk
  <2>2. ChannelsOk(chan', K)
    BY <1>1, <1>9, <2>1, SendOk
  <2> QED BY <1>7, <1>9, <2>2
<1>10. CASE Learn(m) /\ UNCHANGED <<arp_table, timeDict, chan, routes>>
  BY <1>1, <1>4, <1>5, <1>6, <1>10
<1>11. CASE /\ m.f.type = "ARP" /\ Wanted(m.f) /\ Learn(m)
            /\ arp_table' = arp_table \cup {a} /\ install_paths(a, b, m, n)
  <2>1. b \in L
    BY <1>1, <1>3, <1>11 DEF Wanted, PacketOk, FrameOk
  <2>2. arp_table' \subseteq L
    BY <1>1, <1>11
  <2> HIDE DEF L
  <2>3. ChannelsOk(chan', L)
    BY <1>5, <1>11, <2>1, InstallOk
  <2> QED BY <1>6, <1>11, <2>2, <2>3
<1>12. CASE /\ Learn(m) /\ Send(m.at[1], n, PacketOut(m.at[2], OFPP_FLOOD, m.f))
            /\ UNCHANGED <<arp_table, timeDict, routes>>
  <2> DEFINE o == PacketOut(m.at[2], OFPP_FLOOD, m.f)
  <2>1. o.kind = "out" /\ o.f = m.f
    BY DEF PacketOut
  <2> HIDE DEF o, L
  <2>2. MessageOk(o, L)
    BY <1>5, <2>1 DEF MessageOk
  <2>3. ChannelsOk(chan', L)
    BY <1>5, <1>12, <2>2, SendOk DEF o
  <2> QED BY <1>1, <1>4, <1>6, <1>12, <2>3
<1> QED BY <1>8, <1>9, <1>10, <1>11, <1>12 DEF _packet_in_handler

LEMMA ControllerOk ==
  ASSUME HomeInv, TopoTypes, Controller
  PROVE  HomeInv'
<1>1. CASE _packet_in_handler
  BY <1>1, PacketInOk
<1>2. CASE ~_packet_in_handler
  <2> DEFINE K == DOMAIN hosts
  <2>1. IsSeq(events) /\ EventsOk(events, K) /\ WireOk(wire, K)
        /\ ChannelsOk(chan, K) /\ TablesOk(tables, K)
    BY DEF HomeInv, TopoTypes
  <2>2. UNCHANGED <<net, hosts, arp_table, wire, chan, tables>>
    BY <1>2 DEF Controller, switch_enter_handler, switch_leave_handler, link_add_handler,
                link_delete_handler, port_desc_stats_reply_handler, fabric
  <2>3. events # << >> /\ Handled
    BY ControllerHandles
  <2> DEFINE t == Tail(events)
  <2>4. EventsOk(t, K) /\ IsSeq(t)
    BY <2>1, <2>3, EventsOkShrinks, SeqTail
  <2> HIDE DEF t, K
  <2>5. EventsOk(events', K)
    <3>1. CASE events' = t
      BY <3>1, <2>4
    <3>2. CASE \E e : e.type = "port_desc" /\ events' = Append(t, e)
      <4>1. PICK e : e.type = "port_desc" /\ events' = Append(t, e)
        BY <3>2
      <4>2. /\ IsSeq(<<e>>) /\ events' = t \o <<e>>
            /\ \A k \in 1..Len(<<e>>) : <<e>>[k].type = "port_desc"
        BY <4>1, <2>4, SeqOne
      <4> QED BY <4>2, <2>4, EventsOkGrows
    <3> QED BY <3>1, <3>2, <2>3 DEF Handled, t
  <2> QED BY <2>1, <2>2, <2>5, HomeStay DEF K
<1> QED BY <1>1, <1>2

LEMMA HomeNext == HomeInv /\ KnownInv /\ [Next]_vars => HomeInv'
<1> SUFFICES ASSUME HomeInv, TopoTypes, [Next]_vars PROVE HomeInv'
  BY DEF KnownInv
<1>1. CASE UNCHANGED vars
  <2>1. EventsOk(events', DOMAIN hosts) /\ WireOk(wire', DOMAIN hosts)
        /\ ChannelsOk(chan', DOMAIN hosts) /\ TablesOk(tables', DOMAIN hosts)
        /\ UNCHANGED <<net, hosts, arp_table>>
    BY <1>1 DEF vars, app, fabric, HomeInv
  <2> QED BY <2>1, HomeStay
<1> QED BY <1>1, ControllerOk, SwitchesOk, CablesOk, HostSendsOk, SwitchForwardsOk, SwitchObeysOk
        DEF Next

LEMMA HomeInit == Init => HomeInv
<1> SUFFICES ASSUME Init PROVE HomeInv
  OBVIOUS
<1> DEFINE K == DOMAIN hosts
<1>1. /\ hosts = << >> /\ arp_table = {} /\ events = << >> /\ wire = {}
      /\ chan = [s \in Switches |-> << >>] /\ tables = [s \in Switches |-> {}]
  BY DEF Init
<1>2. K = {}
  BY <1>1
<1>3. EventsOk(events, K) /\ WireOk(wire, K) /\ TablesOk(tables, K)
  <2>1. Len(events) = 0
    BY <1>1
  <2> QED BY <1>1, <2>1 DEF EventsOk, WireOk, TablesOk
<1>4. ChannelsOk(chan, K)
  BY <1>1, NoMessages DEF ChannelsOk
<1>5. HostsAtHome
  BY <1>2 DEF HostsAtHome
<1> QED BY <1>1, <1>2, <1>3, <1>4, <1>5 DEF HomeInv

(***************************************************************************)
(* A host is known at the port it is plugged into, in every network and    *)
(* however its requests are flooded.                                       *)
(***************************************************************************)
THEOREM HostsStayHome == Spec => []HostsAtHome
<1>1. HomeInv => HostsAtHome
  BY DEF HomeInv
<1> QED BY <1>1, KnownInit, KnownNext, HomeInit, HomeNext, PTL DEF Spec

-----------------------------------------------------------------------------
(***************************************************************************)
(* A set of numbers that is not empty has a smallest one.                  *)
(***************************************************************************)
LEMMA SmallestExists ==
  ASSUME NEW T \in SUBSET Nat, T # {}
  PROVE  \E m \in T : \A i \in T : m <= i
<1>1. PICK m \in T : \A i \in T : ~(<<i, m>> \in OpToRel(<, Nat))
  BY NatLessThanWellFounded, WFMin
<1>2. \A i \in T : ~(i < m)
  BY <1>1 DEF OpToRel
<1> QED BY <1>2

(***************************************************************************)
(* The way of a frame that is led from place to place.                     *)
(***************************************************************************)
Leads(at, n, f, end) ==
  /\ \A i \in 1..n : at[i][2] # 1
  /\ \A i \in 1..(n - 1) : Step(at[i], f) = {at[i + 1]}
  /\ Step(at[n], f) = {end} /\ end[2] = 1

LEMMA WayIs ==
  ASSUME NEW f, Cardinality(Switches) \in Nat, NEW n \in 1..Cardinality(Switches),
         NEW at, NEW end, Leads(at, n, f, end)
  PROVE  Way(at[1], f) = {end}
<1> DEFINE place == at[1]
<1> USE DEF Leads
<1> DEFINE C == Cardinality(Switches)
           Go(p) == IF p[2] = 1 THEN {p} ELSE Step(p, f)
           Then(w, i) == IF i = 0 THEN {place} ELSE UNION {Go(p) : p \in w[i - 1]}
           Is(w) == w = [i \in 0..C |-> Then(w, i)]
           g == [i \in 0..C |-> IF i < n THEN {at[i + 1]} ELSE {end}]
           w == CHOOSE w : Is(w)
<1>1. Way(place, f) = w[C]
  BY DEF Way
<1>2. ASSUME NEW i \in 0..C PROVE g[i] = Then(g, i)
  <2>1. CASE i = 0
    BY <2>1
  <2>2. CASE i # 0
    <3>1. i - 1 \in 0..C /\ (i - 1) + 1 = i
      BY <2>2
    <3>2. CASE i < n
      <4>1. g[i - 1] = {at[i]} /\ g[i] = {at[i + 1]}
        BY <3>1, <3>2, <2>2
      <4>2. Go(at[i]) = {at[i + 1]}
        BY <3>2, <2>2
      <4> HIDE DEF g, Go
      <4>3. UNION {Go(p) : p \in g[i - 1]} = {at[i + 1]}
        BY <4>1, <4>2
      <4> QED BY <2>2, <4>1, <4>3
    <3>3. CASE i = n
      <4>1. g[i - 1] = {at[i]} /\ g[i] = {end}
        BY <3>1, <3>3, <2>2
      <4>2. Go(at[i]) = {end}
        BY <3>3, <2>2
      <4> HIDE DEF g, Go
      <4>3. UNION {Go(p) : p \in g[i - 1]} = {end}
        BY <4>1, <4>2
      <4> QED BY <2>2, <4>1, <4>3
    <3>4. CASE i > n
      <4>1. g[i - 1] = {end} /\ g[i] = {end}
        BY <3>1, <3>4, <2>2
      <4>2. Go(end) = {end}
        OBVIOUS
      <4> HIDE DEF g, Go
      <4>3. UNION {Go(p) : p \in g[i - 1]} = {end}
        BY <4>1, <4>2
      <4> QED BY <2>2, <4>1, <4>3
    <3> QED BY <3>2, <3>3, <3>4
  <2> QED BY <2>1, <2>2
<1>3. Is(g)
  <2>1. g = [i \in 0..C |-> g[i]]
    OBVIOUS
  <2> HIDE DEF g, Then
  <2> QED BY <1>2, <2>1
<1>4. Is(w)
  <2> HIDE DEF Is, g
  <2> QED BY <1>3, Zenon
<1>5. \A i \in 0..C : w[i] = Then(w, i)
  <2> HIDE DEF Then, w
  <2> QED BY <1>4
<1> HIDE DEF w, g
<1>6. ASSUME NEW m \in 0..C, w[m] # g[m], \A i \in 0..C : w[i] # g[i] => m <= i
      PROVE  FALSE
  <2>1. w[m] = Then(w, m) /\ g[m] = Then(g, m)
    BY <1>2, <1>5
  <2>2. CASE m = 0
    BY <2>1, <2>2, <1>6
  <2>3. CASE m # 0
    <3>1. m - 1 \in 0..C /\ ~(m <= m - 1)
      BY <2>3
    <3>2. w[m - 1] = g[m - 1]
      BY <3>1, <1>6
    <3> QED BY <2>1, <3>2, <1>6
  <2> QED BY <2>2, <2>3
<1>7. w[C] = g[C]
  <2> DEFINE T == {i \in 0..C : w[i] # g[i]}
  <2>1. T = {}
    <3>1. SUFFICES ASSUME T # {} PROVE FALSE
      OBVIOUS
    <3>2. T \subseteq Nat
      OBVIOUS
    <3>3. PICK m \in T : \A i \in T : m <= i
      BY <3>1, <3>2, SmallestExists
    <3> QED BY <3>3, <1>6
  <2> QED BY <2>1
<1>8. g[C] = {end}
  BY DEF g
<1> QED BY <1>1, <1>7, <1>8

-----------------------------------------------------------------------------
(***************************************************************************)
(* An entry is settled at a switch when the last word on its match, in the *)
(* messages q on their way or in the table T, is that entry.               *)
(***************************************************************************)
Entries(m) == IF m.kind = "mods" THEN m.rules ELSE {}
Agrees(m, e) == \A r \in Entries(m) : r.match = e.match => r = e
Only(T, e) == e \in T /\ \A r \in T : r.match = e.match => r = e
Settled(T, q, e) ==
  \/ \E j \in 1..Len(q) : e \in Entries(q[j]) /\ \A k \in j..Len(q) : Agrees(q[k], e)
  \/ Only(T, e) /\ \A k \in 1..Len(q) : Agrees(q[k], e)

LEMMA OverwriteOnly ==
  ASSUME NEW T, NEW R, NEW e, \A r \in R : r.match = e.match => r = e,
         e \in R \/ Only(T, e)
  PROVE  Only(Overwrite(T, R), e)
<1>1. CASE e \in R
  BY <1>1 DEF Only, Overwrite
<1>2. CASE e \notin R
  BY <1>2 DEF Only, Overwrite
<1> QED BY <1>1, <1>2

(***************************************************************************)
(* The switch takes the first message.                                     *)
(***************************************************************************)
LEMMA SettledObeys ==
  ASSUME NEW T, NEW q, IsSeq(q), q # << >>, NEW e, Settled(T, q, e), NEW U,
         U = IF Head(q).kind = "mods" THEN Overwrite(T, Head(q).rules) ELSE T
  PROVE  Settled(U, Tail(q), e)
<1> DEFINE t == Tail(q)
<1>1. /\ Head(q) = q[1] /\ Len(q) \in Nat /\ Len(q) >= 1 /\ Len(t) = Len(q) - 1
      /\ \A k \in 1..(Len(q) - 1) : t[k] = q[k + 1]
  BY SeqTail, SeqLen
<1> HIDE DEF t
<1>2. \A k \in 1..Len(t) : k + 1 \in 1..Len(q) /\ t[k] = q[k + 1]
  BY <1>1
<1>3. ASSUME e \in Entries(q[1]) \/ Only(T, e), \A k \in 1..Len(q) : Agrees(q[k], e)
      PROVE  Settled(U, t, e)
  <2>1. Agrees(q[1], e)
    BY <1>1, <1>3
  <2>2. Only(U, e)
    <3>1. CASE q[1].kind = "mods"
      <4>1. U = Overwrite(T, q[1].rules) /\ Entries(q[1]) = q[1].rules
        BY <3>1, <1>1 DEF Entries
      <4>2. \A r \in q[1].rules : r.match = e.match => r = e
        BY <2>1, <4>1 DEF Agrees
      <4> QED BY <4>1, <4>2, <1>3, OverwriteOnly
    <3>2. CASE q[1].kind # "mods"
      BY <3>2, <1>1, <1>3 DEF Entries
    <3> QED BY <3>1, <3>2
  <2>3. \A k \in 1..Len(t) : Agrees(t[k], e)
    BY <1>2, <1>3
  <2> QED BY <2>2, <2>3 DEF Settled
<1>4. CASE Only(T, e) /\ \A k \in 1..Len(q) : Agrees(q[k], e)
  BY <1>3, <1>4 DEF t
<1>5. ASSUME NEW j \in 1..Len(q), e \in Entries(q[j]), \A k \in j..Len(q) : Agrees(q[k], e)
      PROVE  Settled(U, t, e)
  <2>1. CASE j = 1
    BY <2>1, <1>3, <1>5
  <2>2. CASE j # 1
    <3>1. j - 1 \in 1..Len(t) /\ (j - 1) + 1 = j
      BY <2>2, <1>1
    <3>2. e \in Entries(t[j - 1])
      BY <3>1, <1>2, <1>5
    <3>3. ASSUME NEW k \in (j - 1)..Len(t) PROVE Agrees(t[k], e)
      <4>1. k \in 1..Len(t) /\ k + 1 \in j..Len(q)
        BY <3>1, <1>1
      <4> QED BY <4>1, <1>2, <1>5
    <3> QED BY <3>1, <3>2, <3>3 DEF Settled
  <2> QED BY <2>1, <2>2
<1> QED BY <1>4, <1>5 DEF Settled, t

(***************************************************************************)
(* Messages r are sent that say nothing else about the match of e.         *)
(***************************************************************************)
LEMMA SettledGrows ==
  ASSUME NEW T, NEW q, NEW r, IsSeq(q), IsSeq(r), NEW e,
         \A k \in 1..Len(r) : Agrees(r[k], e),
         Settled(T, q, e) \/ \E k \in 1..Len(r) : e \in Entries(r[k])
  PROVE  Settled(T, q \o r, e)
<1> DEFINE t == q \o r
<1>1. /\ Len(t) = Len(q) + Len(r) /\ Len(q) \in Nat /\ Len(r) \in Nat
      /\ \A i \in 1..Len(q) : t[i] = q[i]
      /\ \A i \in 1..Len(r) : t[Len(q) + i] = r[i]
      /\ \A i \in (Len(q) + 1)..(Len(q) + Len(r)) :
           i - Len(q) \in 1..Len(r) /\ t[i] = r[i - Len(q)]
  BY SeqConcat, SeqLen
<1> HIDE DEF t
<1>2. \A k \in 1..Len(t) : k \in 1..Len(q) \/ k \in (Len(q) + 1)..(Len(q) + Len(r))
  BY <1>1
<1>3. \A k \in (Len(q) + 1)..(Len(q) + Len(r)) : Agrees(t[k], e)
  BY <1>1
<1>4. ASSUME NEW k \in 1..Len(r), e \in Entries(r[k]) PROVE Settled(T, t, e)
  <2> DEFINE j == Len(q) + k
  <2>1. j \in 1..Len(t) /\ \A i \in j..Len(t) : i \in (Len(q) + 1)..(Len(q) + Len(r))
    BY <1>1
  <2>2. e \in Entries(t[j])
    BY <1>1, <1>4
  <2> HIDE DEF j
  <2> QED BY <2>1, <2>2, <1>3 DEF Settled
<1>5. ASSUME NEW j \in 1..Len(q), e \in Entries(q[j]), \A k \in j..Len(q) : Agrees(q[k], e)
      PROVE  Settled(T, t, e)
  <2>1. j \in 1..Len(t) /\ e \in Entries(t[j])
    BY <1>1, <1>5
  <2>2. ASSUME NEW k \in j..Len(t) PROVE Agrees(t[k], e)
    <3>1. CASE k \in j..Len(q)
      <4>1. k \in 1..Len(q)
        BY <3>1, <1>1
      <4> QED BY <3>1, <4>1, <1>1, <1>5
    <3>2. CASE k \in (Len(q) + 1)..(Len(q) + Len(r))
      BY <3>2, <1>3
    <3> QED BY <3>1, <3>2, <1>1
  <2> QED BY <2>1, <2>2 DEF Settled
<1>6. CASE Only(T, e) /\ \A k \in 1..Len(q) : Agrees(q[k], e)
  <2>1. \A k \in 1..Len(t) : Agrees(t[k], e)
    BY <1>1, <1>2, <1>3, <1>6
  <2> QED BY <2>1, <1>6 DEF Settled
<1> QED BY <1>4, <1>5, <1>6 DEF Settled, t

LEMMA SettledDone ==
  ASSUME NEW T, NEW e, Settled(T, << >>, e)
  PROVE  Only(T, e)
<1>1. Len(<< >>) = 0
  OBVIOUS
<1> QED BY <1>1 DEF Settled

-----------------------------------------------------------------------------
(***************************************************************************)
(* A path that is laid along cables of network x, from the port of a to    *)
(* the port of b.                                                          *)
(***************************************************************************)
USE DEF Home, Hosts, Cables, Switches

Wired(x, path, io, a, b) ==
  /\ path \in Seq(x.switches) /\ Len(path) >= 2
  /\ \A i, j \in 1..Len(path) : path[i] = path[j] => i = j
  /\ path[1] = x.home[a][1] /\ path[Len(path)] = x.home[b][1]
  /\ io[1][1] = x.home[a][2] /\ io[Len(path)][2] = x.home[b][2]
  /\ \A i \in 1..(Len(path) - 1) : <<path[i], io[i][2], path[i + 1], io[i + 1][1]>> \in x.cables

(***************************************************************************)
(* The entries of a path at switch s, and those of an installation without *)
(* the ones for ARP.                                                       *)
(***************************************************************************)
Spots(s, path) == {i \in DOMAIN path : path[i] = s}
EdgeAt(s, a, b, path, io) ==
  UNION {EdgeRules(a, b, io[i], i, Len(path)) : i \in Spots(s, path)}
TagsAt(s, a, b, path, io, vlans) ==
  UNION {TagRules(a, b, io[i], i, Len(path), vlans) : i \in Spots(s, path)}
NeededFor(s, a, b, paths, ports, mirror, k) ==
  EdgeAt(s, a, b, paths[k], ports[k])
    \cup TagsAt(s, a, b, paths[k], ports[k], Vlans(k, vlan))
    \cup TagsAt(s, a, b, paths[mirror[k]], ports[mirror[k]], Vlans(k, mirrIorvlan))
Needed(s, a, b, paths, ports, mirror) ==
  UNION {NeededFor(s, a, b, paths, ports, mirror, k) : k \in 1..Len(paths)}

Laid(x, a, b, paths, ports, mirror) ==
  /\ Len(paths) \in 1..MAX_PATHS /\ a # b
  /\ x.home[a][1] # x.home[b][1]
  /\ \A k \in 1..Len(paths) : Wired(x, paths[k], ports[k], a, b)
  /\ \A k \in 1..Len(paths) : mirror[k] \in 1..Len(paths)

(***************************************************************************)
(* Entries with the same match.                                            *)
(***************************************************************************)
LEMMA RuleMatch ==
  ASSUME NEW p, NEW type, NEW a, NEW b, NEW x, NEW out
  PROVE  LET r == Rule(p, type, a, b, x, out) IN
         /\ r.match = <<p, type, a, b, x>> /\ r.out = out
         /\ r.match[1] = p /\ r.match[2] = type /\ r.match[3] = a /\ r.match[4] = b
         /\ r.match[5] = x /\ r.match # NoIPv6.match
<1>1. <<p, type, a, b, x>> # <<0, "IPv6">>
  <2>1. Len(<<p, type, a, b, x>>) = 5 /\ Len(<<0, "IPv6">>) = 2
    OBVIOUS
  <2> QED BY <2>1
<1> QED BY <1>1 DEF Rule, NoIPv6

(***************************************************************************)
(* What a rule of the pair is, whichever part it is of.                    *)
(***************************************************************************)
OfPair(r, a, b) ==
  /\ r.match # NoIPv6.match
  /\ \/ r.match[3] = a /\ r.match[4] = b
     \/ r.match[3] = b /\ r.match[4] = a

LEMMA ArpOfPair ==
  ASSUME NEW a, NEW b, NEW io, NEW r \in ArpRules(a, b, io)
  PROVE  OfPair(r, a, b) /\ r.match[2] = "ARP"
BY RuleMatch DEF ArpRules, OfPair

LEMMA EdgeOfPair ==
  ASSUME NEW a, NEW b, NEW io, NEW i, NEW n, NEW r \in EdgeRules(a, b, io, i, n)
  PROVE  OfPair(r, a, b) /\ r.match[2] = "IPv4"
BY RuleMatch DEF EdgeRules, OfPair

LEMMA TagsOfPair ==
  ASSUME NEW a, NEW b, NEW io, NEW i, NEW n, NEW vlans, NEW r \in TagRules(a, b, io, i, n, vlans)
  PROVE  OfPair(r, a, b) /\ r.match[2] = "VLAN" /\ r.match[5] \in vlans
BY RuleMatch DEF TagRules, OfPair

(***************************************************************************)
(* The tags of different paths, and of packets and copies, are different   *)
(* as long as a group fits into four bits.                                 *)
(***************************************************************************)
GroupsFit == MAX_GROUP <= 15

LEMMA VlansApart ==
  ASSUME GroupsFit, NEW k \in 1..MAX_PATHS, NEW m \in 1..MAX_PATHS,
         NEW x \in {vlan, mirrIorvlan}, NEW y \in {vlan, mirrIorvlan},
         NEW v \in Vlans(k, x), v \in Vlans(m, y)
  PROVE  k = m /\ x = y
<1>1. k \in 1..15 /\ m \in 1..15 /\ MAX_GROUP \in 0..15
  BY MultipathConstants DEF GroupsFit
<1>2. PICK i \in 0..15 : v = x + k - 1 + 16 * i
  BY <1>1 DEF Vlans
<1>3. PICK j \in 0..15 : v = y + m - 1 + 16 * j
  BY <1>1 DEF Vlans
<1>4. x \in {4097, 4353} /\ y \in {4097, 4353}
  BY DEF vlan, mirrIorvlan
<1> QED BY <1>1, <1>2, <1>3, <1>4 DEF vlan, mirrIorvlan

-----------------------------------------------------------------------------
(***************************************************************************)
(* The entries at the switches of a path, one by one.                      *)
(***************************************************************************)
Forth(a, b, io, i, n, v) ==
  Rule(IF i = 1 THEN 2 ELSE io[1], "VLAN", a, b, v, IF i = n THEN 1 ELSE io[2])
Back(a, b, io, i, n, v) ==
  Rule(IF i = n THEN 2 ELSE io[2], "VLAN", b, a, v, IF i = 1 THEN 1 ELSE io[1])

LEMMA TagRulesAre ==
  ASSUME NEW a, NEW b, NEW io, NEW n \in Nat, n >= 2, NEW i \in 1..n, NEW vlans
  PROVE  \A r : r \in TagRules(a, b, io, i, n, vlans) <=>
                  \E v \in vlans : r \in {Forth(a, b, io, i, n, v), Back(a, b, io, i, n, v)}
<1>1. (i = n /\ ~(i = 1)) <=> i = n
  OBVIOUS
<1> DEFINE P(v) == Rule(IF i = 1 THEN 2 ELSE io[1], "VLAN", a, b, v,
                        IF i = n /\ ~(i = 1) THEN 1 ELSE io[2])
           Q(v) == Rule(IF i = n /\ ~(i = 1) THEN 2 ELSE io[2], "VLAN", b, a, v,
                        IF i = 1 THEN 1 ELSE io[1])
<1>2. \A v : Forth(a, b, io, i, n, v) = P(v) /\ Back(a, b, io, i, n, v) = Q(v)
  BY <1>1 DEF Forth, Back
<1>3. TagRules(a, b, io, i, n, vlans) = UNION {{P(v), Q(v)} : v \in vlans}
  BY Zenon DEF TagRules
<1> HIDE DEF P, Q
<1>4. \A r : r \in UNION {{P(v), Q(v)} : v \in vlans} <=> \E v \in vlans : r \in {P(v), Q(v)}
  OBVIOUS
<1> QED BY <1>2, <1>3, <1>4

LEMMA TagsAgree ==
  ASSUME NEW s, NEW a, NEW b, a # b, NEW path, NEW io, Wired(net, path, io, a, b), NEW vlans,
         NEW e \in TagsAt(s, a, b, path, io, vlans), NEW r \in TagsAt(s, a, b, path, io, vlans),
         r.match = e.match
  PROVE  r = e
<1> DEFINE n == Len(path)
<1>1. /\ n \in Nat /\ n >= 2 /\ DOMAIN path = 1..n
      /\ \A i, j \in 1..n : path[i] = path[j] => i = j
  BY DEF Wired
<1>2. PICK i \in 1..n : path[i] = s /\ e \in TagRules(a, b, io[i], i, n, vlans)
  BY <1>1 DEF TagsAt, Spots
<1>3. PICK j \in 1..n : path[j] = s /\ r \in TagRules(a, b, io[j], j, n, vlans)
  BY <1>1 DEF TagsAt, Spots
<1>4. i = j
  BY <1>1, <1>2, <1>3
<1> DEFINE F(v) == Forth(a, b, io[i], i, n, v)
           B(v) == Back(a, b, io[i], i, n, v)
<1>5. PICK v \in vlans : e \in {F(v), B(v)}
  BY <1>1, <1>2, TagRulesAre
<1>6. PICK w \in vlans : r \in {F(w), B(w)}
  BY <1>1, <1>3, <1>4, TagRulesAre
<1>7. \A x : /\ F(x).match[3] = a /\ F(x).match[5] = x
             /\ B(x).match[3] = b /\ B(x).match[5] = x
  BY RuleMatch DEF Forth, Back
<1> HIDE DEF F, B
<1> QED BY <1>5, <1>6, <1>7

AtSource(a, b) ==
  {Rule(Home[a][2], "IPv4", a, b, 0, 1), Rule(2, "IPv4", b, a, 0, Home[a][2])}
AtTarget(a, b) ==
  {Rule(2, "IPv4", a, b, 0, Home[b][2]), Rule(Home[b][2], "IPv4", b, a, 0, 1)}

LEMMA EdgeIs ==
  ASSUME NEW s, NEW a, NEW b, NEW path, NEW io, Wired(net, path, io, a, b)
  PROVE  /\ \A r \in EdgeAt(s, a, b, path, io) :
                \/ s = Home[a][1] /\ r \in AtSource(a, b)
                \/ s = Home[b][1] /\ r \in AtTarget(a, b)
         /\ s = Home[a][1] => AtSource(a, b) \subseteq EdgeAt(s, a, b, path, io)
         /\ s = Home[b][1] => AtTarget(a, b) \subseteq EdgeAt(s, a, b, path, io)
<1> DEFINE n == Len(path)
<1>1. /\ n \in Nat /\ n >= 2 /\ DOMAIN path = 1..n /\ 1 \in 1..n /\ n \in 1..n
      /\ path[1] = Home[a][1] /\ path[n] = Home[b][1]
      /\ io[1][1] = Home[a][2] /\ io[n][2] = Home[b][2]
  BY DEF Wired
<1>2. EdgeRules(a, b, io[1], 1, n) = AtSource(a, b)
  BY <1>1 DEF EdgeRules, AtSource
<1>3. EdgeRules(a, b, io[n], n, n) = AtTarget(a, b)
  BY <1>1 DEF EdgeRules, AtTarget
<1>4. \A i \in 1..n : i \notin {1, n} => EdgeRules(a, b, io[i], i, n) = {}
  BY DEF EdgeRules
<1>5. ASSUME NEW r \in EdgeAt(s, a, b, path, io)
      PROVE  \/ s = Home[a][1] /\ r \in AtSource(a, b)
             \/ s = Home[b][1] /\ r \in AtTarget(a, b)
  <2>1. PICK i \in 1..n : path[i] = s /\ r \in EdgeRules(a, b, io[i], i, n)
    BY <1>1 DEF EdgeAt, Spots
  <2> QED BY <2>1, <1>1, <1>2, <1>3, <1>4
<1>6. s = Home[a][1] => AtSource(a, b) \subseteq EdgeAt(s, a, b, path, io)
  <2>1. SUFFICES ASSUME s = Home[a][1] PROVE AtSource(a, b) \subseteq EdgeAt(s, a, b, path, io)
    OBVIOUS
  <2>2. 1 \in Spots(s, path)
    BY <2>1, <1>1 DEF Spots
  <2>3. EdgeRules(a, b, io[1], 1, Len(path)) \subseteq EdgeAt(s, a, b, path, io)
    BY <2>2 DEF EdgeAt
  <2> QED BY <2>3, <1>2
<1>7. s = Home[b][1] => AtTarget(a, b) \subseteq EdgeAt(s, a, b, path, io)
  <2>1. SUFFICES ASSUME s = Home[b][1] PROVE AtTarget(a, b) \subseteq EdgeAt(s, a, b, path, io)
    OBVIOUS
  <2>2. n \in Spots(s, path)
    BY <2>1, <1>1 DEF Spots
  <2>3. EdgeRules(a, b, io[n], n, Len(path)) \subseteq EdgeAt(s, a, b, path, io)
    BY <2>2 DEF EdgeAt
  <2> QED BY <2>3, <1>3
<1> QED BY <1>5, <1>6, <1>7

LEMMA EdgesAgree ==
  ASSUME NEW a, NEW b, a # b, NEW S \in {AtSource(a, b), AtTarget(a, b)},
         NEW e \in S, NEW r \in S, r.match = e.match
  PROVE  r = e
BY RuleMatch DEF AtSource, AtTarget

(***************************************************************************)
(* What an installation says about a match at a switch, it says once.      *)
(***************************************************************************)
LEMMA NeededAgree ==
  ASSUME GroupsFit, NEW s, NEW a, NEW b, NEW paths, NEW ports, NEW mirror,
         Laid(net, a, b, paths, ports, mirror),
         NEW e \in Needed(s, a, b, paths, ports, mirror),
         NEW r \in Needed(s, a, b, paths, ports, mirror), r.match = e.match
  PROVE  r = e
<1>1. /\ a # b /\ Home[a][1] # Home[b][1] /\ 1..Len(paths) \subseteq 1..MAX_PATHS
      /\ \A k \in 1..Len(paths) : mirror[k] \in 1..Len(paths)
      /\ \A k \in 1..Len(paths) : Wired(net, paths[k], ports[k], a, b)
  BY MultipathConstants DEF Laid
<1> DEFINE Edge(k) == EdgeAt(s, a, b, paths[k], ports[k])
           Tags(x, k) == TagsAt(s, a, b, paths[k], ports[k], x)
           Own(k) == Tags(Vlans(k, vlan), k)
           Copy(k) == Tags(Vlans(k, mirrIorvlan), mirror[k])
<1>2. PICK k \in 1..Len(paths) : e \in Edge(k) \/ e \in Own(k) \/ e \in Copy(k)
  BY DEF Needed, NeededFor
<1>3. PICK m \in 1..Len(paths) : r \in Edge(m) \/ r \in Own(m) \/ r \in Copy(m)
  BY DEF Needed, NeededFor
<1>4. /\ \A x, i, f : f \in Tags(x, i) => f.match[2] = "VLAN" /\ f.match[5] \in x
      /\ \A i, f : f \in Edge(i) => f.match[2] = "IPv4"
  <2>1. \A x, i, f : f \in Tags(x, i) => f.match[2] = "VLAN" /\ f.match[5] \in x
    BY TagsOfPair DEF TagsAt
  <2>2. \A i, f : f \in Edge(i) => f.match[2] = "IPv4"
    BY EdgeOfPair DEF EdgeAt
  <2> QED BY <2>1, <2>2
<1> HIDE DEF Edge, Tags
<1>5. CASE e \in Edge(k)
  <2>1. r \in Edge(m)
    BY <1>3, <1>4, <1>5
  <2>2. \/ s = Home[a][1] /\ e \in AtSource(a, b)
        \/ s = Home[b][1] /\ e \in AtTarget(a, b)
    BY <1>1, <1>5, EdgeIs DEF Edge
  <2>3. \/ s = Home[a][1] /\ r \in AtSource(a, b)
        \/ s = Home[b][1] /\ r \in AtTarget(a, b)
    BY <1>1, <2>1, EdgeIs DEF Edge
  <2>4. CASE e \in AtSource(a, b) /\ r \in AtSource(a, b)
    BY <2>4, <1>1, EdgesAgree
  <2>5. CASE e \in AtTarget(a, b) /\ r \in AtTarget(a, b)
    BY <2>5, <1>1, EdgesAgree
  <2> QED BY <2>2, <2>3, <2>4, <2>5, <1>1
<1>6. CASE e \in Own(k)
  <2>1. e.match[2] = "VLAN" /\ e.match[5] \in Vlans(k, vlan)
    BY <1>4, <1>6
  <2>2. r \notin Edge(m)
    BY <1>4, <2>1
  <2>3. r \notin Copy(m)
    <3>1. SUFFICES ASSUME r \in Copy(m) PROVE FALSE
      OBVIOUS
    <3>2. r.match[5] \in Vlans(m, mirrIorvlan)
      BY <3>1, <1>4
    <3>3. vlan = mirrIorvlan
      BY <3>2, <2>1, <1>1, VlansApart
    <3> QED BY <3>3 DEF vlan, mirrIorvlan
  <2>4. r \in Own(m) /\ r.match[5] \in Vlans(m, vlan)
    BY <2>2, <2>3, <1>3, <1>4
  <2>5. k = m
    BY <2>1, <2>4, <1>1, VlansApart
  <2> QED BY <2>4, <2>5, <1>1, <1>6, TagsAgree DEF Tags
<1>7. CASE e \in Copy(k)
  <2>1. e.match[2] = "VLAN" /\ e.match[5] \in Vlans(k, mirrIorvlan)
    BY <1>4, <1>7
  <2>2. r \notin Edge(m)
    BY <1>4, <2>1
  <2>3. r \notin Own(m)
    <3>1. SUFFICES ASSUME r \in Own(m) PROVE FALSE
      OBVIOUS
    <3>2. r.match[5] \in Vlans(m, vlan)
      BY <3>1, <1>4
    <3>3. vlan = mirrIorvlan
      BY <3>2, <2>1, <1>1, VlansApart
    <3> QED BY <3>3 DEF vlan, mirrIorvlan
  <2>4. r \in Copy(m) /\ r.match[5] \in Vlans(m, mirrIorvlan)
    BY <2>2, <2>3, <1>3, <1>4
  <2>5. k = m
    BY <2>1, <2>4, <1>1, VlansApart
  <2> QED BY <2>4, <2>5, <1>1, <1>7, TagsAgree DEF Tags
<1> QED BY <1>2, <1>5, <1>6, <1>7

-----------------------------------------------------------------------------
(***************************************************************************)
(* What install_paths sends to a switch: the entries of the pair that are  *)
(* needed there, all of them, and some for ARP.                            *)
(***************************************************************************)
LEMMA BatchesAre ==
  ASSUME NEW s, NEW a, NEW b, NEW paths, NEW ports, NEW mirror, Len(paths) \in Nat
  PROVE  LET B == Batches(s, a, b, paths, ports, mirror) IN
         /\ IsSeq(B)
         /\ \A i \in 1..Len(B) : \A r \in B[i] :
              OfPair(r, a, b) /\ (r.match[2] = "ARP" \/ r \in Needed(s, a, b, paths, ports, mirror))
         /\ \A e \in Needed(s, a, b, paths, ports, mirror) : \E i \in 1..Len(B) : e \in B[i]
<1> DEFINE n(k) == Len(paths[k])
           Ends(k) == {i \in DOMAIN paths[k] : paths[k][i] = s}
           Own(k) == UNION {(IF k = 1 THEN ArpRules(a, b, ports[k][i]) ELSE {})
                         \cup EdgeRules(a, b, ports[k][i], i, n(k))
                         \cup TagRules(a, b, ports[k][i], i, n(k), Vlans(k, vlan)) : i \in Ends(k)}
           Copy(k) == LET m == mirror[k] IN
                 UNION {TagRules(a, b, ports[m][i], i, n(m), Vlans(k, mirrIorvlan)) : i \in Ends(m)}
           Every == [j \in 1..(2 * Len(paths)) |->
                       IF j % 2 = 1 THEN Own((j + 1) \div 2) ELSE Copy(j \div 2)]
           busy == {j \in DOMAIN Every : Every[j] # {}}
           c == Cardinality(busy)
           Part(i) == UNION {Every[j] : j \in {j \in busy : Cardinality({k \in busy : k <= j}) = i}}
           q == [i \in 1..c |-> Part(i)]
           L == Len(paths)
           N == Needed(s, a, b, paths, ports, mirror)
           Edge(k) == EdgeAt(s, a, b, paths[k], ports[k])
           Tags(x, k) == TagsAt(s, a, b, paths[k], ports[k], x)
<1>1. Batches(s, a, b, paths, ports, mirror) = q
  BY DEF Batches
<1>2. ASSUME NEW k
      PROVE  /\ \A r \in Own(k) : \/ OfPair(r, a, b) /\ r.match[2] = "ARP"
                                  \/ r \in Edge(k) \/ r \in Tags(Vlans(k, vlan), k)
             /\ Edge(k) \subseteq Own(k) /\ Tags(Vlans(k, vlan), k) \subseteq Own(k)
  <2> DEFINE Some(i) == (IF k = 1 THEN ArpRules(a, b, ports[k][i]) ELSE {})
                         \cup EdgeRules(a, b, ports[k][i], i, n(k))
                         \cup TagRules(a, b, ports[k][i], i, n(k), Vlans(k, vlan))
             X == Spots(s, paths[k])
             E(i) == EdgeRules(a, b, ports[k][i], i, n(k))
             T(i) == TagRules(a, b, ports[k][i], i, n(k), Vlans(k, vlan))
  <2>1. Own(k) = UNION {Some(i) : i \in X}
    BY DEF Spots
  <2>2. Edge(k) = UNION {E(i) : i \in X} /\ Tags(Vlans(k, vlan), k) = UNION {T(i) : i \in X}
    BY DEF EdgeAt, TagsAt
  <2>3. \A i : E(i) \subseteq Some(i) /\ T(i) \subseteq Some(i)
    OBVIOUS
  <2>4. \A i : \A r \in Some(i) : (OfPair(r, a, b) /\ r.match[2] = "ARP") \/ r \in E(i) \/ r \in T(i)
    BY ArpOfPair
  <2> HIDE DEF Some, X, E, T, Own, Edge, Tags
  <2> QED BY <2>1, <2>2, <2>3, <2>4
<1>3. \A k : Copy(k) = Tags(Vlans(k, mirrIorvlan), mirror[k])
  BY DEF TagsAt, Spots
<1>4. /\ \A k, r : r \in Edge(k) => OfPair(r, a, b)
      /\ \A x, k, r : r \in Tags(x, k) => OfPair(r, a, b)
  <2>1. \A k, r : r \in Edge(k) => OfPair(r, a, b)
    BY EdgeOfPair DEF EdgeAt
  <2>2. \A x, k, r : r \in Tags(x, k) => OfPair(r, a, b)
    BY TagsOfPair DEF TagsAt
  <2> QED BY <2>1, <2>2
<1>5. \A r : r \in N <=> \E k \in 1..L : \/ r \in Edge(k) \/ r \in Tags(Vlans(k, vlan), k)
                                         \/ r \in Tags(Vlans(k, mirrIorvlan), mirror[k])
  BY DEF Needed, NeededFor
<1> HIDE DEF Own, Copy, Edge, Tags, N
<1>6. /\ DOMAIN Every = 1..(2 * L) /\ L \in Nat
      /\ \A j \in 1..(2 * L) : \/ (j + 1) \div 2 \in 1..L /\ Every[j] = Own((j + 1) \div 2)
                               \/ j \div 2 \in 1..L /\ Every[j] = Copy(j \div 2)
  <2>1. \A j \in 1..(2 * L) : \/ j % 2 = 1 /\ (j + 1) \div 2 \in 1..L
                              \/ j % 2 # 1 /\ j \div 2 \in 1..L
    <3> HIDE DEF L
    <3>1. L \in Nat
      BY DEF L
    <3>2. ASSUME NEW j \in 1..(2 * L) PROVE \/ j % 2 = 1 /\ (j + 1) \div 2 \in 1..L
                                            \/ j % 2 # 1 /\ j \div 2 \in 1..L
      BY <3>1
    <3> QED BY <3>2
  <2> QED BY <2>1
<1>7. ASSUME NEW k \in 1..L
      PROVE  /\ 2 * k - 1 \in 1..(2 * L) /\ Every[2 * k - 1] = Own(k)
             /\ 2 * k \in 1..(2 * L) /\ Every[2 * k] = Copy(k)
  <2>1. 2 * k - 1 \in 1..(2 * L) /\ 2 * k \in 1..(2 * L)
    BY <1>6
  <2>2. k \in Int
    OBVIOUS
  <2>3. (2 * k - 1) % 2 = 1 /\ ((2 * k - 1) + 1) \div 2 = k /\ (2 * k) % 2 # 1 /\ (2 * k) \div 2 = k
    BY <2>2
  <2> QED BY <2>1, <2>3
<1> HIDE DEF Every, L
<1>8. IsFiniteSet(busy) /\ c \in Nat
  <2>1. IsFiniteSet(1..(2 * L))
    BY <1>6, FS_Interval
  <2>2. busy \subseteq 1..(2 * L)
    BY <1>6
  <2> QED BY <2>1, <2>2, FS_Subset, FS_CardinalityType
<1>9. ASSUME NEW j \in 1..(2 * L), Every[j] # {}
      PROVE  \E i \in 1..c : Every[j] \subseteq Part(i)
  <2> DEFINE D == {k \in busy : k <= j}
  <2>1. j \in busy /\ j \in D /\ D \subseteq busy
    BY <1>6, <1>9
  <2> HIDE DEF busy
  <2>2. IsFiniteSet(D) /\ Cardinality(D) <= c /\ Cardinality(D) \in Nat
    BY <2>1, <1>8, FS_Subset, FS_CardinalityType
  <2>3. Cardinality(D) # 0
    BY <2>1, <2>2, FS_EmptySet
  <2>4. Cardinality(D) \in 1..c
    BY <2>2, <2>3, <1>8
  <2>5. Every[j] \subseteq Part(Cardinality(D))
    BY <2>1
  <2> QED BY <2>4, <2>5
<1>10. ASSUME NEW i, NEW r \in Part(i) PROVE \E j \in 1..(2 * L) : r \in Every[j]
  BY <1>6
<1> HIDE DEF Part, c, busy
<1>11. IsSeq(q) /\ Len(q) = c /\ \A i \in 1..c : q[i] = Part(i)
  <2> DEFINE T == {Part(i) : i \in 1..c}
  <2>1. q \in [1..c -> T]
    OBVIOUS
  <2> HIDE DEF T
  <2>2. q \in Seq(T) /\ Len(q) = c
    BY <2>1, <1>8
  <2> QED BY <2>2 DEF IsSeq
<1> HIDE DEF q
<1>12. ASSUME NEW i \in 1..Len(q), NEW r \in q[i]
       PROVE  OfPair(r, a, b) /\ (r.match[2] = "ARP" \/ r \in N)
  <2>1. PICK j \in 1..(2 * L) : r \in Every[j]
    BY <1>10, <1>11, <1>12
  <2>2. CASE (j + 1) \div 2 \in 1..L /\ Every[j] = Own((j + 1) \div 2)
    BY <2>1, <2>2, <1>2, <1>4, <1>5
  <2>3. CASE j \div 2 \in 1..L /\ Every[j] = Copy(j \div 2)
    BY <2>1, <2>3, <1>3, <1>4, <1>5
  <2> QED BY <2>2, <2>3, <1>6
<1>13. ASSUME NEW e \in N PROVE \E i \in 1..Len(q) : e \in q[i]
  <2>1. PICK k \in 1..L : \/ e \in Edge(k) \/ e \in Tags(Vlans(k, vlan), k)
                          \/ e \in Tags(Vlans(k, mirrIorvlan), mirror[k])
    BY <1>5, <1>13
  <2>2. e \in Own(k) \/ e \in Copy(k)
    BY <2>1, <1>2, <1>3
  <2>3. \E j \in 1..(2 * L) : e \in Every[j]
    BY <2>2, <1>7
  <2> QED BY <2>3, <1>9, <1>11
<1> QED BY <1>1, <1>11, <1>12, <1>13 DEF N

-----------------------------------------------------------------------------
(***************************************************************************)
(* The ports in adjacency are those of cables.                             *)
(***************************************************************************)
PortOk(adj, e) == \E l \in Cables : e = <<l[1], l[3]>> /\ adj[e] = l[2]
PortsRight == \A e \in DOMAIN adjacency : PortOk(adjacency, e)

LEMMA PortsStay ==
  ASSUME net' = net, \A e \in DOMAIN adjacency' : PortOk(adjacency', e)
  PROVE  PortsRight'
BY DEF PortsRight, PortOk, Cables

LEMMA PortsController ==
  ASSUME UsableInv, PortsRight, Controller
  PROVE  PortsRight'
<1> DEFINE m == Head(events).x
           mt == <<m[1], m[3]>>
           mb == <<m[3], m[1]>>
<1>1. TopoTypes /\ LinkEvents(events) /\ net \in Networks
  BY DEF UsableInv, TopoTypes
<1>2. events # << >> /\ net' = net
  BY <1>1, ControllerHandles DEF fabric
<1>3. Head(events).type \in {"link_add", "link_delete"} => m \in Cables
  BY <1>1, <1>2, LinkEventsTail DEF TopoTypes
<1>4. ASSUME DOMAIN adjacency' \subseteq DOMAIN adjacency,
             \A e \in DOMAIN adjacency' : adjacency'[e] = adjacency[e]
      PROVE  PortsRight'
  <2>1. \A e \in DOMAIN adjacency' : PortOk(adjacency', e)
    BY <1>4 DEF PortsRight, PortOk
  <2> QED BY <2>1, <1>2, PortsStay
<1>5. CASE Event("switch_enter") \/ Event("port_desc") \/ Event("packet_in")
  <2>1. adjacency' = adjacency
    BY <1>1, <1>5, ControllerHandles
  <2> QED BY <2>1, <1>4
<1>6. CASE Event("switch_leave")
  <2>1. switch_leave_handler
    BY <1>1, <1>6, ControllerHandles
  <2>2. \/ adjacency' = adjacency
        \/ adjacency' = Restrict(adjacency, {d \in DOMAIN adjacency : d[1] # m})
    BY <2>1 DEF switch_leave_handler
  <2> QED BY <2>2, <1>4 DEF Restrict
<1>7. CASE Event("link_delete")
  <2>1. link_delete_handler
    BY <1>1, <1>7, ControllerHandles
  <2>2. \/ adjacency' = adjacency
        \/ adjacency' = Restrict(adjacency, DOMAIN adjacency \ {mt, mb})
    BY <2>1 DEF link_delete_handler
  <2> QED BY <2>2, <1>4 DEF Restrict
<1>8. CASE Event("link_add")
  <2>1. link_add_handler /\ m \in Cables
    BY <1>1, <1>3, <1>8, ControllerHandles DEF Event
  <2>2. adjacency' = With(With(adjacency, mt, m[2]), mb, m[4])
    BY <2>1 DEF link_add_handler
  <2>3. /\ Rev(m) \in Cables /\ Rev(m)[1] = m[3] /\ Rev(m)[2] = m[4] /\ Rev(m)[3] = m[1]
        /\ mt # mb
    BY <2>1, <1>1, CableFacts
  <2> HIDE DEF m
  <2>4. mb = <<Rev(m)[1], Rev(m)[3]>>
    BY <2>3
  <2> HIDE DEF mt, mb
  <2>5. /\ DOMAIN adjacency' = DOMAIN adjacency \cup {mt, mb}
        /\ adjacency'[mt] = m[2] /\ adjacency'[mb] = m[4]
        /\ \A d \in DOMAIN adjacency \ {mt, mb} : adjacency'[d] = adjacency[d]
    BY <2>2, <2>3 DEF With
  <2>6. PortOk(adjacency', mt)
    BY <2>1, <2>5 DEF PortOk, mt
  <2>7. PortOk(adjacency', mb)
    BY <2>3, <2>4, <2>5 DEF PortOk
  <2>8. \A d \in DOMAIN adjacency \ {mt, mb} : PortOk(adjacency', d)
    BY <2>5 DEF PortOk, PortsRight
  <2>9. \A d \in DOMAIN adjacency' : PortOk(adjacency', d)
    BY <2>5, <2>6, <2>7, <2>8
  <2> QED BY <2>9, <1>2, PortsStay
<1> QED BY <1>1, <1>5, <1>6, <1>7, <1>8, ControllerHandles

LEMMA OthersLeaveApp ==
  ASSUME [Next]_vars, ~Controller
  PROVE  UNCHANGED <<net, app, routes>>
BY DEF Next, vars, fabric, SwitchConnects, SwitchReconnects, SwitchDies, SwitchObeys,
       LinkDiscovered, LinkTimesOut, CableDown, CableUp, HostSends, SwitchForwards

LEMMA PortsNext == UsableInv /\ PortsRight /\ [Next]_vars => PortsRight'
<1> SUFFICES ASSUME UsableInv, PortsRight, [Next]_vars PROVE PortsRight'
  OBVIOUS
<1>1. CASE Controller
  BY <1>1, PortsController
<1>2. CASE ~Controller
  <2>1. UNCHANGED <<net, adjacency>>
    BY <1>2, OthersLeaveApp DEF app
  <2> QED BY <2>1 DEF PortsRight, PortOk, Cables
<1> QED BY <1>1, <1>2

LEMMA PortsInit == Init => PortsRight
<1> SUFFICES ASSUME Init, NEW e \in DOMAIN adjacency PROVE PortOk(adjacency, e)
  BY DEF PortsRight
<1> DEFINE P == {<<m[1], m[3]>> : m \in Cables}
           c == CHOOSE m \in Cables : <<m[1], m[3]>> = e
<1>1. CASE adjacency = << >>
  <2>1. DOMAIN adjacency = {}
    BY <1>1
  <2> QED BY <2>1
<1>2. CASE adjacency = [d \in P |-> (CHOOSE m \in Cables : <<m[1], m[3]>> = d)[2]]
  <2>1. e \in P /\ adjacency[e] = c[2]
    BY <1>2
  <2>2. \E m \in Cables : <<m[1], m[3]>> = e
    BY <2>1
  <2>3. c \in Cables /\ <<c[1], c[3]>> = e
    BY <2>2
  <2> HIDE DEF c
  <2> QED BY <2>1, <2>3 DEF PortOk
<1> QED BY <1>1, <1>2 DEF Init

-----------------------------------------------------------------------------
(***************************************************************************)
(* The paths that get_paths finds, with the ports that are added to them,  *)
(* are laid along cables.                                                  *)
(***************************************************************************)
LEMMA EdgesAlong ==
  ASSUME NEW path, NEW i \in 1..(Len(path) - 1), HasCost(path)
  PROVE  /\ <<path[i], path[i + 1]>> \in DOMAIN adjacency
         /\ <<path[i + 1], path[i]>> \in DOMAIN adjacency
<1> DEFINE e == <<path[i], path[i + 1]>>
<1>1. e \in Edges(path)
  BY DEF Edges
<1>2. {e, <<e[2], e[1]>>} \subseteq DOMAIN adjacency
  BY <1>1 DEF HasCost
<1>3. e[1] = path[i] /\ e[2] = path[i + 1]
  OBVIOUS
<1> QED BY <1>2, <1>3

LEMMA CableBetween ==
  ASSUME NoParallelCables, net \in Networks, PortsRight, NEW s, NEW t,
         <<s, t>> \in DOMAIN adjacency, <<t, s>> \in DOMAIN adjacency
  PROVE  /\ <<s, adjacency[<<s, t>>], t, adjacency[<<t, s>>]>> \in Cables
         /\ s \in Switches /\ t \in Switches
<1>1. PICK l \in Cables : <<s, t>> = <<l[1], l[3]>> /\ adjacency[<<s, t>>] = l[2]
  BY DEF PortsRight, PortOk
<1>2. PICK m \in Cables : <<t, s>> = <<m[1], m[3]>> /\ adjacency[<<t, s>>] = m[2]
  BY DEF PortsRight, PortOk
<1>3. l[1] = s /\ l[3] = t /\ m[1] = t /\ m[3] = s
  BY <1>1, <1>2
<1>4. /\ Rev(l) \in Cables /\ Rev(l)[1] = l[3] /\ Rev(l)[3] = l[1] /\ Rev(l)[2] = l[4]
      /\ l[1] \in Switches /\ l[3] \in Switches
  BY CableFacts
<1>5. Rev(l) = m
  BY <1>3, <1>4 DEF NoParallelCables, Cables
<1>6. l = <<l[1], l[2], l[3], l[4]>>
  <2>1. l \in net.switches \X PortNumbers \X net.switches \X PortNumbers
    BY MultipathConstants DEF Cables
  <2> QED BY <2>1
<1> QED BY <1>1, <1>2, <1>3, <1>4, <1>5, <1>6

LEMMA SimpleWired ==
  ASSUME NoParallelCables, net \in Networks, PortsRight, NEW a, NEW b,
         Home[a][1] # Home[b][1], NEW path \in SimplePaths(Home[a][1], Home[b][1]), HasCost(path)
  PROVE  Wired(net, path, add_ports_to_paths(path, Home[a][2], Home[b][2]), a, b)
<1> DEFINE s == Home[a][1]
           t == Home[b][1]
           N == G.nodes
           n == Len(path)
           io == add_ports_to_paths(path, Home[a][2], Home[b][2])
<1>1. /\ path \in UNION {[1..k -> N] : k \in 1..Cardinality(N)}
      /\ path[1] = s /\ path[n] = t /\ IsInjective(path)
  BY DEF SimplePaths
<1>2. PICK k \in 1..Cardinality(N) : path \in [1..k -> N]
  BY <1>1
<1>3. k \in Nat /\ k >= 1
  OBVIOUS
<1>4. path \in Seq(N) /\ n = k
  BY <1>2, <1>3
<1>5. n # 1
  BY <1>1
<1>6. n \in Nat /\ n >= 2 /\ DOMAIN path = 1..n
  BY <1>2, <1>3, <1>4, <1>5
<1>7. \A i, j \in 1..n : path[i] = path[j] => i = j
  BY <1>1, <1>6 DEF IsInjective
<1>8. \A i \in 1..(n - 1) : /\ <<path[i], path[i + 1]>> \in DOMAIN adjacency
                            /\ <<path[i + 1], path[i]>> \in DOMAIN adjacency
  BY EdgesAlong
<1> DEFINE In(i) == IF i = 1 THEN Home[a][2] ELSE adjacency[<<path[i], path[i - 1]>>]
           Out(i) == IF i = n THEN Home[b][2] ELSE adjacency[<<path[i], path[i + 1]>>]
<1>14. io = [i \in 1..n |-> <<In(i), Out(i)>>]
  BY <1>6, Zenon DEF add_ports_to_paths
<1> HIDE DEF io, n
<1>15. /\ \A i : i # 1 => In(i) = adjacency[<<path[i], path[i - 1]>>]
       /\ \A i : i # n => Out(i) = adjacency[<<path[i], path[i + 1]>>]
       /\ In(1) = Home[a][2] /\ Out(n) = Home[b][2]
  OBVIOUS
<1> HIDE DEF In, Out
<1>9. \A i \in 1..n : io[i][1] = In(i) /\ io[i][2] = Out(i)
  BY <1>14
<1>10. ASSUME NEW i \in 1..(n - 1)
       PROVE  <<path[i], io[i][2], path[i + 1], io[i + 1][1]>> \in Cables
  <2>1. i \in 1..n /\ i + 1 \in 1..n /\ i # n /\ i + 1 # 1 /\ (i + 1) - 1 = i
    BY <1>6
  <2>2. io[i][2] = adjacency[<<path[i], path[i + 1]>>]
    BY <2>1, <1>9, <1>15
  <2>3. io[i + 1][1] = adjacency[<<path[i + 1], path[i]>>]
    <3>1. io[i + 1][1] = In(i + 1)
      BY <2>1, <1>9
    <3>2. In(i + 1) = adjacency[<<path[i + 1], path[(i + 1) - 1]>>]
      BY <2>1, <1>15
    <3> QED BY <3>1, <3>2, <2>1
  <2> QED BY <2>2, <2>3, <1>8, CableBetween
<1>11. \A i \in 1..n : path[i] \in Switches
  <2> SUFFICES ASSUME NEW i \in 1..n PROVE path[i] \in Switches
    OBVIOUS
  <2>1. CASE i = n
    <3>1. n - 1 \in 1..(n - 1) /\ (n - 1) + 1 = n
      BY <1>6
    <3> QED BY <2>1, <3>1, <1>8, CableBetween
  <2>2. CASE i # n
    <3>1. i \in 1..(n - 1)
      BY <2>2, <1>6
    <3> QED BY <3>1, <1>8, CableBetween
  <2> QED BY <2>1, <2>2
<1>12. path \in Seq(Switches)
  <2>1. path \in [1..n -> Switches]
    BY <1>11, <1>2, <1>4 DEF n
  <2> QED BY <2>1, <1>6
<1>13. io[1][1] = Home[a][2] /\ io[n][2] = Home[b][2]
  <2>1. 1 \in 1..n /\ n \in 1..n
    BY <1>6
  <2> QED BY <2>1, <1>9, <1>15
<1> QED BY <1>1, <1>6, <1>7, <1>10, <1>12, <1>13 DEF Wired, io, n

LEMMA PathsLaid ==
  ASSUME NoParallelCables, net \in Networks, PortsRight, NEW a, NEW b,
         Home[a][1] # Home[b][1], NEW paths \in get_paths(Home[a][1], Home[b][1]),
         Finished(paths), NEW mirror \in Mirrors(Len(paths)), NEW ports,
         ports = [k \in DOMAIN paths |-> add_ports_to_paths(paths[k], Home[a][2], Home[b][2])]
  PROVE  /\ Laid(net, a, b, paths, ports, mirror)
         /\ \A k \in 1..Len(paths) : \A i \in 1..Len(paths[k]) : paths[k][i] \in DOMAIN datapath_list
<1> DEFINE all == SimplePaths(Home[a][1], Home[b][1])
<1>1. paths \in UNION {[1..n -> all] : n \in 0..MAX_PATHS}
  BY DEF get_paths
<1>2. PICK n \in 0..MAX_PATHS : paths \in [1..n -> all]
  BY <1>1
<1>3. n \in Nat /\ MAX_PATHS \in Nat
  BY MultipathConstants
<1> HIDE DEF all
<1>4. Len(paths) = n /\ DOMAIN paths = 1..n
  BY <1>2, <1>3
<1>5. n # 0
  <2>1. paths # << >>
    BY DEF Finished
  <2>2. CASE n = 0
    <3>1. paths \in Seq(all) /\ Len(paths) = 0
      BY <2>2, <1>2, <1>4
    <3> QED BY <2>1, <3>1
  <2> QED BY <2>2
<1>6. Len(paths) \in 1..MAX_PATHS
  BY <1>3, <1>4, <1>5
<1>7. ASSUME NEW k \in 1..n PROVE Wired(net, paths[k], ports[k], a, b)
  <2>1. paths[k] \in all /\ HasCost(paths[k])
    BY <1>2, <1>4 DEF Finished
  <2>2. ports[k] = add_ports_to_paths(paths[k], Home[a][2], Home[b][2])
    BY <1>4
  <2> QED BY <2>1, <2>2, SimpleWired DEF all
<1>8. \A k \in 1..n : mirror[k] \in 1..n
  <2>1. mirror \in [1..n -> 1..n]
    BY <1>4 DEF Mirrors
  <2> QED BY <2>1
<1>9. ASSUME NEW k \in 1..n, NEW i \in 1..Len(paths[k]) PROVE paths[k][i] \in DOMAIN datapath_list
  <2>1. DOMAIN paths[k] = 1..Len(paths[k])
    BY <1>7 DEF Wired
  <2>2. paths[k][i] \in ToSet(paths[k])
    BY <2>1 DEF ToSet
  <2>3. ToSet(paths[k]) \subseteq UNION {ToSet(paths[j]) : j \in DOMAIN paths}
    BY <1>4
  <2> QED BY <2>2, <2>3 DEF Finished
<1>10. a # b
  OBVIOUS
<1> QED BY <1>4, <1>6, <1>7, <1>8, <1>9, <1>10 DEF Laid

-----------------------------------------------------------------------------
(***************************************************************************)
(* An installation r, where c, t and q are the connections, the tables and *)
(* the channels now: its paths are laid along cables, and at each switch   *)
(* that still has the connection its entries were sent on, the last word   *)
(* on the match of each entry is that entry.                               *)
(***************************************************************************)
RouteOk(x, r, c, t, q) ==
  /\ r.src \in DOMAIN x.home /\ r.dst \in DOMAIN x.home
  /\ \A s \in x.switches : r.conn[s].n <= c[s].n /\ r.conn[s].n \in Nat
  /\ x.home[r.src][1] # x.home[r.dst][1] => \E ports, mirror :
       /\ Laid(x, r.src, r.dst, r.paths, ports, mirror)
       /\ \A s \in x.switches : (c[s].live /\ c[s] = r.conn[s] /\ c[s].n = r.sent[s]) =>
            \A e \in Needed(s, r.src, r.dst, r.paths, ports, mirror) : Settled(t[s], q[s], e)

RouteInv ==
  \A pair \in DOMAIN routes : /\ pair = {routes[pair].src, routes[pair].dst}
                              /\ RouteOk(net, routes[pair], conn, tables, chan)

LEMMA RoutePrimed ==
  ASSUME net' = net,
         \A pair \in DOMAIN routes' : /\ pair = {routes'[pair].src, routes'[pair].dst}
                                      /\ RouteOk(net, routes'[pair], conn', tables', chan')
  PROVE  RouteInv'
BY DEF RouteInv

LEMMA NeededOfPair ==
  ASSUME NEW s, NEW a, NEW b, NEW paths, NEW ports, NEW mirror,
         NEW e \in Needed(s, a, b, paths, ports, mirror)
  PROVE  OfPair(e, a, b) /\ e.match[2] # "ARP"
<1>1. PICK k \in 1..Len(paths) : e \in NeededFor(s, a, b, paths, ports, mirror, k)
  BY DEF Needed
<1>2. \A path, io, r : r \in EdgeAt(s, a, b, path, io) => OfPair(r, a, b) /\ r.match[2] = "IPv4"
  BY EdgeOfPair DEF EdgeAt
<1>3. \A path, io, vlans, r :
        r \in TagsAt(s, a, b, path, io, vlans) => OfPair(r, a, b) /\ r.match[2] = "VLAN"
  BY TagsOfPair DEF TagsAt
<1> QED BY <1>1, <1>2, <1>3 DEF NeededFor

Conns(c) == c \in [Switches -> [n : Nat, live : BOOLEAN]]
Onward(c, d) ==
  \A s \in Switches : d[s] = c[s] \/ d[s].n > c[s].n \/ (d[s].n = c[s].n /\ ~d[s].live)

LEMMA RouteKeeps ==
  ASSUME NEW r, NEW c, NEW t, NEW q, NEW d, NEW u, NEW p, RouteOk(net, r, c, t, q),
         Conns(c), Conns(d), Onward(c, d),
         \A s \in Switches : d[s] = c[s] => \A e :
           (OfPair(e, r.src, r.dst) /\ Settled(t[s], q[s], e)) => Settled(u[s], p[s], e)
  PROVE  RouteOk(net, r, d, u, p)
<1>1. \A s \in Switches : c[s].n \in Nat /\ d[s].n \in Nat /\ r.conn[s].n \in Nat
                          /\ r.conn[s].n <= c[s].n
  BY DEF Conns, RouteOk
<1>2. \A s \in Switches : c[s].n <= d[s].n
  BY <1>1 DEF Onward
<1>3. \A s \in Switches : r.conn[s].n <= d[s].n
  BY <1>1, <1>2
<1>4. \A s \in Switches : (d[s].live /\ d[s] = r.conn[s]) => d[s] = c[s]
  BY <1>1, <1>2 DEF Onward
<1>5. ASSUME net.home[r.src][1] # net.home[r.dst][1]
      PROVE  \E ports, mirror :
               /\ Laid(net, r.src, r.dst, r.paths, ports, mirror)
               /\ \A s \in Switches : (d[s].live /\ d[s] = r.conn[s] /\ d[s].n = r.sent[s]) =>
                    \A e \in Needed(s, r.src, r.dst, r.paths, ports, mirror) : Settled(u[s], p[s], e)
  <2>1. PICK ports, mirror :
               /\ Laid(net, r.src, r.dst, r.paths, ports, mirror)
               /\ \A s \in Switches : (c[s].live /\ c[s] = r.conn[s] /\ c[s].n = r.sent[s]) =>
                    \A e \in Needed(s, r.src, r.dst, r.paths, ports, mirror) : Settled(t[s], q[s], e)
    BY <1>5 DEF RouteOk
  <2>2. ASSUME NEW s \in Switches, d[s].live, d[s] = r.conn[s], d[s].n = r.sent[s],
               NEW e \in Needed(s, r.src, r.dst, r.paths, ports, mirror)
        PROVE  Settled(u[s], p[s], e)
    <3>1. d[s] = c[s]
      BY <1>4, <2>2
    <3>2. OfPair(e, r.src, r.dst)
      BY NeededOfPair
    <3> QED BY <2>1, <2>2, <3>1, <3>2
  <2> QED BY <2>1, <2>2
<1> QED BY <1>1, <1>3, <1>5 DEF RouteOk

(***************************************************************************)
(* Steps that install nothing.                                             *)
(***************************************************************************)
LEMMA RoutesStay ==
  ASSUME RouteInv, UNCHANGED <<net, routes>>, Conns(conn), Conns(conn'), Onward(conn, conn'),
         \A s \in Switches : conn'[s] = conn[s] => \A e :
           (e.match # NoIPv6.match /\ Settled(tables[s], chan[s], e))
             => Settled(tables'[s], chan'[s], e)
  PROVE  RouteInv'
<1> SUFFICES ASSUME NEW pair \in DOMAIN routes
             PROVE  /\ pair = {routes[pair].src, routes[pair].dst}
                    /\ RouteOk(net, routes[pair], conn', tables', chan')
  BY RoutePrimed
<1> DEFINE r == routes[pair]
<1>1. pair = {r.src, r.dst} /\ RouteOk(net, r, conn, tables, chan)
  BY DEF RouteInv
<1>2. \A e : OfPair(e, r.src, r.dst) => e.match # NoIPv6.match
  BY DEF OfPair
<1> HIDE DEF r
<1>3. RouteOk(net, r, conn', tables', chan')
  BY <1>1, <1>2, RouteKeeps
<1> QED BY <1>1, <1>3 DEF r

LEMMA RoutesAside ==
  ASSUME RouteInv, TopoTypes, UNCHANGED <<net, routes, conn, tables, chan>>
  PROVE  RouteInv'
<1>1. Conns(conn) /\ Onward(conn, conn')
  BY DEF TopoTypes, Conns, Onward
<1> QED BY <1>1, RoutesStay

LEMMA RoutesSwitch ==
  ASSUME RouteInv, HomeInv, TopoTypes, NEW s \in Switches,
         SwitchConnects(s) \/ SwitchReconnects(s) \/ SwitchDies(s)
  PROVE  RouteInv'
<1>1. Conns(conn) /\ conn[s].n \in Nat
  BY DEF TopoTypes, Conns
<1>2. UNCHANGED <<net, routes>>
  BY DEF SwitchConnects, SwitchReconnects, SwitchDies
<1>3. \/ conn' = [conn EXCEPT ![s] = [n |-> conn[s].n + 1, live |-> TRUE]]
      \/ conn[s].live /\ conn' = [conn EXCEPT ![s].n = conn[s].n + 1]
      \/ conn[s].live /\ conn' = [conn EXCEPT ![s].live = FALSE]
  BY DEF SwitchConnects, SwitchReconnects, SwitchDies
<1>4. DOMAIN conn = Switches /\ \A z \in Switches : conn[z] = [n |-> conn[z].n, live |-> conn[z].live]
                                /\ conn[z].n \in Nat /\ conn[z].live \in BOOLEAN
  BY <1>1 DEF Conns
<1>5. /\ Conns(conn') /\ \A z \in Switches \ {s} : conn'[z] = conn[z]
      /\ conn'[s] # conn[s]
      /\ conn'[s].n > conn[s].n \/ (conn'[s].n = conn[s].n /\ ~conn'[s].live)
  <2>1. CASE conn' = [conn EXCEPT ![s] = [n |-> conn[s].n + 1, live |-> TRUE]]
    <3>2. conn[s].n + 1 \in Nat
      BY <1>1
    <3>1. [n |-> conn[s].n + 1, live |-> TRUE] \in [n : Nat, live : BOOLEAN]
      BY <3>2
    <3> QED BY <2>1, <3>1, <1>1, <1>4 DEF Conns
  <2>2. CASE conn[s].live /\ conn' = [conn EXCEPT ![s].n = conn[s].n + 1]
    BY <2>2, <1>1, <1>4 DEF Conns
  <2>3. CASE conn[s].live /\ conn' = [conn EXCEPT ![s].live = FALSE]
    BY <2>3, <1>1, <1>4 DEF Conns
  <2> QED BY <1>3, <2>1, <2>2, <2>3
<1>6. Onward(conn, conn')
  BY <1>5 DEF Onward
<1>7. DOMAIN tables = Switches /\ DOMAIN chan = Switches
  BY DEF HomeInv, TablesOk, ChannelsOk
<1>8. \A z \in Switches \ {s} : tables'[z] = tables[z] /\ chan'[z] = chan[z]
  BY <1>7 DEF SwitchConnects, SwitchReconnects, SwitchDies, Restarts
<1> QED BY <1>1, <1>2, <1>5, <1>6, <1>8, RoutesStay

LEMMA RoutesObey ==
  ASSUME RouteInv, HomeInv, TopoTypes, NEW s \in Switches, SwitchObeys(s)
  PROVE  RouteInv'
<1> DEFINE m == Head(chan[s])
<1>1. Conns(conn) /\ Onward(conn, conn') /\ UNCHANGED <<net, routes, conn>>
  BY DEF TopoTypes, Conns, Onward, SwitchObeys
<1>2. /\ DOMAIN tables = Switches /\ DOMAIN chan = Switches
      /\ IsSeq(chan[s])
  BY DEF HomeInv, TablesOk, ChannelsOk, MessagesOk
<1>3. /\ chan[s] # << >> /\ chan' = [chan EXCEPT ![s] = Tail(chan[s])]
      /\ \/ m.kind = "mods" /\ tables' = [tables EXCEPT ![s] = Overwrite(tables[s], m.rules)]
         \/ m.kind = "out" /\ UNCHANGED tables
  BY DEF SwitchObeys
<1> HIDE DEF m
<1>4. /\ chan'[s] = Tail(chan[s])
      /\ tables'[s] = IF m.kind = "mods" THEN Overwrite(tables[s], m.rules) ELSE tables[s]
      /\ \A z \in Switches \ {s} : tables'[z] = tables[z] /\ chan'[z] = chan[z]
  BY <1>2, <1>3
<1>5. \A e : Settled(tables[s], chan[s], e) => Settled(tables'[s], chan'[s], e)
  BY <1>2, <1>3, <1>4, SettledObeys DEF m
<1> QED BY <1>1, <1>4, <1>5, RoutesStay

LEMMA RoutesSend ==
  ASSUME RouteInv, HomeInv, TopoTypes, UNCHANGED <<net, routes, conn, tables>>,
         NEW s \in Switches, NEW n, NEW msg, Send(s, n, msg),
         \A e : e.match # NoIPv6.match => Agrees(msg, e)
  PROVE  RouteInv'
<1>1. Conns(conn) /\ Onward(conn, conn')
  BY DEF TopoTypes, Conns, Onward
<1>2. DOMAIN chan = Switches /\ IsSeq(chan[s])
  BY DEF HomeInv, ChannelsOk, MessagesOk
<1>3. CASE chan' = chan
  BY <1>1, <1>3, RoutesAside
<1>4. CASE chan' = [chan EXCEPT ![s] = Append(@, msg)]
  <2>1. /\ chan'[s] = Append(chan[s], msg)
        /\ \A z \in Switches \ {s} : chan'[z] = chan[z]
    BY <1>2, <1>4
  <2> DEFINE r == <<msg>>
  <2>2. Append(chan[s], msg) = chan[s] \o r /\ IsSeq(r) /\ Len(r) = 1 /\ r[1] = msg
    BY <1>2, SeqOne
  <2> HIDE DEF r
  <2>3. ASSUME NEW e, e.match # NoIPv6.match, Settled(tables[s], chan[s], e)
        PROVE  Settled(tables'[s], chan'[s], e)
    <3>1. \A k \in 1..Len(r) : Agrees(r[k], e)
      BY <2>2, <2>3
    <3> QED BY <3>1, <2>1, <2>2, <2>3, <1>2, SettledGrows
  <2> QED BY <2>1, <2>3, <1>1, RoutesStay
<1> QED BY <1>3, <1>4 DEF Send

(***************************************************************************)
(* An installation.                                                        *)
(***************************************************************************)
LEMMA NeededOn ==
  ASSUME NEW a, NEW b, NEW paths, NEW ports, NEW mirror, Laid(net, a, b, paths, ports, mirror),
         NEW s, NEW e \in Needed(s, a, b, paths, ports, mirror)
  PROVE  \E k \in 1..Len(paths) : \E i \in 1..Len(paths[k]) : paths[k][i] = s
<1>1. PICK k \in 1..Len(paths) : e \in NeededFor(s, a, b, paths, ports, mirror, k)
  BY DEF Needed
<1>2. \A p, io : EdgeAt(s, a, b, p, io) # {} => Spots(s, p) # {}
  BY DEF EdgeAt
<1>3. \A p, io, v : TagsAt(s, a, b, p, io, v) # {} => Spots(s, p) # {}
  BY DEF TagsAt
<1>4. Spots(s, paths[k]) # {} \/ Spots(s, paths[mirror[k]]) # {}
  BY <1>1, <1>2, <1>3 DEF NeededFor
<1>5. mirror[k] \in 1..Len(paths)
  BY DEF Laid
<1>6. \A j \in 1..Len(paths) : DOMAIN paths[j] = 1..Len(paths[j])
  BY DEF Laid, Wired
<1> QED BY <1>4, <1>5, <1>6 DEF Spots

LEMMA ModsEntries ==
  ASSUME NEW q, IsSeq(q)
  PROVE  LET r == [i \in DOMAIN q |-> Mods(q[i])] IN
         /\ IsSeq(r) /\ Len(r) = Len(q) /\ \A i \in 1..Len(q) : Entries(r[i]) = q[i]
<1> DEFINE r == [i \in DOMAIN q |-> Mods(q[i])]
           T == {Mods(q[i]) : i \in 1..Len(q)}
<1>1. Len(q) \in Nat /\ DOMAIN q = 1..Len(q)
  BY SeqLen
<1>2. r \in [1..Len(q) -> T]
  BY <1>1
<1>3. \A i \in 1..Len(q) : r[i] = Mods(q[i])
  BY <1>1
<1> HIDE DEF T, r
<1>4. r \in Seq(T) /\ Len(r) = Len(q)
  BY <1>1, <1>2
<1>5. \A i \in 1..Len(q) : Entries(r[i]) = q[i]
  <2>1. \A x : Mods(x).kind = "mods" /\ Mods(x).rules = x
    BY DEF Mods
  <2>2. \A x : Entries(Mods(x)) = x
    BY <2>1 DEF Entries
  <2> QED BY <2>2, <1>3
<1> QED BY <1>4, <1>5 DEF IsSeq, r

LEMMA SettledTwice ==
  ASSUME NEW T, NEW q, NEW r, NEW z, IsSeq(q), IsSeq(r), IsSeq(z), NEW e,
         \A k \in 1..Len(r) : Agrees(r[k], e), \A k \in 1..Len(z) : Agrees(z[k], e),
         Settled(T, q, e) \/ \E k \in 1..Len(r) : e \in Entries(r[k])
  PROVE  Settled(T, (q \o r) \o z, e)
<1>1. Settled(T, q \o r, e) /\ IsSeq(q \o r)
  BY SettledGrows, SeqConcat
<1> DEFINE y == q \o r
<1> HIDE DEF y
<1>2. Settled(T, y \o z, e)
  BY <1>1, SettledGrows DEF y
<1> QED BY <1>2 DEF y

LEMMA RoutesInstall ==
  ASSUME NoParallelCables, GroupsFit, RouteInv, PortsRight, HomeInv, TopoTypes,
         UNCHANGED <<net, conn, tables>>, NEW a \in Hosts, NEW b \in Hosts,
         hosts'[a] = Home[a], hosts'[b] = Home[b], NEW m, NEW n, install_paths(a, b, m, n)
  PROVE  RouteInv'
<1> DEFINE Ports(paths) == [k \in DOMAIN paths |-> add_ports_to_paths(paths[k], hosts'[a][2], hosts'[b][2])]
           Flow(paths, mirror, s) ==
             IF s \in DOMAIN datapath_list /\ Accepts(s, datapath_list[s])
             THEN Batches(s, a, b, paths, Ports(paths), mirror) ELSE << >>
           Sent(paths, mirror) ==
             [s \in Switches |->
                chan[s] \o [i \in DOMAIN Flow(paths, mirror, s) |-> Mods(Flow(paths, mirror, s)[i])]
                  \o (IF s = m.at[1] /\ Accepts(s, n)
                      THEN <<PacketOut(m.at[2], Ports(paths)[1][1][2], m.f)>> ELSE << >>)]
           New(paths) == [src |-> a, dst |-> b, paths |-> paths, sent |-> datapath_list, conn |-> conn]
           Gone(paths, mirror) ==
               IF ~Finished(paths) THEN UNCHANGED <<timeDict, chan, routes>>
               ELSE /\ timeDict' = [timeDict EXCEPT ![a] = {b}, ![b] = {a}]
                    /\ chan' = Sent(paths, mirror)
                    /\ routes' = With(routes, {a, b}, New(paths))
<1>1. \E paths \in get_paths(hosts'[a][1], hosts'[b][1]) : \E mirror \in Mirrors(Len(paths)) :
        Gone(paths, mirror)
  BY DEF install_paths
<1> HIDE DEF Gone
<1>2. PICK paths \in get_paths(Home[a][1], Home[b][1]) : \E mirror \in Mirrors(Len(paths)) :
        Gone(paths, mirror)
  BY <1>1
<1>3. PICK mirror \in Mirrors(Len(paths)) : Gone(paths, mirror)
  BY <1>2
<1>4. CASE ~Finished(paths)
  <2>1. UNCHANGED <<chan, routes>>
    BY <1>3, <1>4 DEF Gone
  <2> QED BY <2>1, RoutesAside
<1>5. CASE Finished(paths)
  <2> DEFINE ports == Ports(paths)
             Flows(s) == Flow(paths, mirror, s)
             First(s) == [i \in DOMAIN Flows(s) |-> Mods(Flows(s)[i])]
             out == PacketOut(m.at[2], ports[1][1][2], m.f)
             Final(s) == IF s = m.at[1] /\ Accepts(s, n) THEN <<out>> ELSE << >>
             r == New(paths)
  <2>1. /\ chan' = [s \in Switches |-> (chan[s] \o First(s)) \o Final(s)]
        /\ routes' = With(routes, {a, b}, r)
    BY <1>3, <1>5 DEF Gone
  <2>2. Len(paths) \in Nat
    BY PathsCounted
  <2>3. ports = [k \in DOMAIN paths |-> add_ports_to_paths(paths[k], Home[a][2], Home[b][2])]
    OBVIOUS
  <2>4. out.kind = "out"
    BY DEF PacketOut
  <2>5. r.src = a /\ r.dst = b /\ r.paths = paths /\ r.sent = datapath_list /\ r.conn = conn
    OBVIOUS
  <2> HIDE DEF ports, out, r
  <2>6. ASSUME NEW s
        PROVE  /\ IsSeq(Flows(s))
               /\ Flows(s) = Batches(s, a, b, paths, ports, mirror) \/ Len(Flows(s)) = 0
               /\ (s \in DOMAIN datapath_list /\ Accepts(s, datapath_list[s]))
                    => Flows(s) = Batches(s, a, b, paths, ports, mirror)
    <3>1. Flows(s) = IF s \in DOMAIN datapath_list /\ Accepts(s, datapath_list[s])
             THEN Batches(s, a, b, paths, ports, mirror) ELSE << >>
      BY DEF ports
    <3> HIDE DEF Flow
    <3>2. IsSeq(Batches(s, a, b, paths, ports, mirror)) /\ IsSeq(<< >>) /\ Len(<< >>) = 0
      BY <2>2, BatchesAre, SeqOne
    <3> QED BY <3>1, <3>2
  <2> HIDE DEF Flow
  <2>7. ASSUME NEW s
        PROVE  /\ IsSeq(First(s)) /\ Len(First(s)) = Len(Flows(s))
               /\ \A i \in 1..Len(First(s)) : Entries(First(s)[i]) = Flows(s)[i]
    <3> DEFINE q == Flows(s)
    <3>1. IsSeq(q)
      BY <2>6
    <3>2. First(s) = [i \in DOMAIN q |-> Mods(q[i])]
      OBVIOUS
    <3> HIDE DEF q, First
    <3>3. IsSeq(First(s)) /\ Len(First(s)) = Len(q) /\ \A i \in 1..Len(q) : Entries(First(s)[i]) = q[i]
      BY <3>1, <3>2, ModsEntries
    <3> QED BY <3>3 DEF q
  <2>8. ASSUME NEW s
        PROVE  /\ IsSeq(Final(s))
               /\ \A e : \A i \in 1..Len(Final(s)) : Agrees(Final(s)[i], e)
    <3>1. \A e : Agrees(out, e)
      BY <2>4 DEF Agrees, Entries
    <3>2. IsSeq(<<out>>) /\ Len(<<out>>) = 1 /\ <<out>>[1] = out /\ IsSeq(<< >>) /\ Len(<< >>) = 0
      BY SeqOne
    <3>3. CASE Final(s) = <<out>>
      BY <3>1, <3>2, <3>3
    <3>4. CASE Final(s) = << >>
      BY <3>2, <3>4
    <3> QED BY <3>3, <3>4
  <2> HIDE DEF First, Final
  <2>9. \A s \in Switches : chan'[s] = (chan[s] \o First(s)) \o Final(s) /\ IsSeq(chan[s])
    BY <2>1 DEF HomeInv, ChannelsOk, MessagesOk
  <2> DEFINE N(s) == Needed(s, a, b, paths, ports, mirror)
  <2>10. ASSUME NEW s, NEW i \in 1..Len(First(s)), NEW x \in Entries(First(s)[i])
         PROVE  OfPair(x, a, b) /\ (x.match[2] = "ARP" \/ x \in N(s))
    <3>1. Flows(s) = Batches(s, a, b, paths, ports, mirror) /\ x \in Flows(s)[i] /\ i \in 1..Len(Flows(s))
      BY <2>6, <2>7, <2>10
    <3> QED BY <3>1, <2>2, BatchesAre
  <2>11. Conns(conn) /\ Onward(conn, conn')
    BY DEF TopoTypes, Conns, Onward
  <2>12. ASSUME NEW pair \in DOMAIN routes, pair # {a, b}
         PROVE  /\ pair = {routes[pair].src, routes[pair].dst}
                /\ RouteOk(net, routes[pair], conn', tables', chan')
    <3> DEFINE o == routes[pair]
    <3>1. pair = {o.src, o.dst} /\ RouteOk(net, o, conn, tables, chan)
      BY DEF RouteInv
    <3> HIDE DEF o
    <3>2. ASSUME NEW s \in Switches, NEW e, OfPair(e, o.src, o.dst),
                 Settled(tables[s], chan[s], e)
          PROVE  Settled(tables'[s], chan'[s], e)
      <4>1. \A x : OfPair(x, a, b) => x.match # e.match
        BY <2>12, <3>1, <3>2 DEF OfPair
      <4>2. \A i \in 1..Len(First(s)) : Agrees(First(s)[i], e)
        BY <2>10, <4>1 DEF Agrees
      <4> QED BY <2>7, <2>8, <2>9, <3>2, <4>2, SettledTwice
    <3>3. RouteOk(net, o, conn', tables', chan')
      BY <2>11, <3>1, <3>2, RouteKeeps
    <3> QED BY <3>1, <3>3 DEF o
  <2>13. RouteOk(net, r, conn', tables', chan')
    <3>1. ASSUME Home[a][1] # Home[b][1]
          PROVE  /\ Laid(net, a, b, paths, ports, mirror)
                 /\ \A s \in Switches : (conn[s].live /\ conn[s].n = datapath_list[s]) =>
                      \A e \in N(s) : Settled(tables[s], chan'[s], e)
      <4>1. /\ Laid(net, a, b, paths, ports, mirror)
            /\ \A k \in 1..Len(paths) : \A i \in 1..Len(paths[k]) :
                 paths[k][i] \in DOMAIN datapath_list
        BY <1>5, <2>3, <3>1, PathsLaid DEF TopoTypes
      <4>2. ASSUME NEW s \in Switches, conn[s].live, conn[s].n = datapath_list[s], NEW e \in N(s)
            PROVE  Settled(tables[s], chan'[s], e)
        <5>1. s \in DOMAIN datapath_list
          BY <4>1, <4>2, NeededOn
        <5>2. Flows(s) = Batches(s, a, b, paths, ports, mirror)
          BY <2>6, <4>2, <5>1 DEF Accepts
        <5>3. \E i \in 1..Len(First(s)) : e \in Entries(First(s)[i])
          BY <2>2, <2>7, <4>2, <5>2, BatchesAre
        <5>4. e.match[2] # "ARP"
          BY <4>2, NeededOfPair
        <5>5. \A x \in N(s) : x.match = e.match => x = e
          BY <4>1, <4>2, NeededAgree
        <5> HIDE DEF N
        <5>6. \A i \in 1..Len(First(s)) : Agrees(First(s)[i], e)
          BY <2>10, <5>4, <5>5 DEF Agrees
        <5>7. /\ IsSeq(First(s)) /\ IsSeq(Final(s)) /\ IsSeq(chan[s])
              /\ \A i \in 1..Len(Final(s)) : Agrees(Final(s)[i], e)
          BY <2>7, <2>8, <2>9
        <5>8. Settled(tables[s], (chan[s] \o First(s)) \o Final(s), e)
          BY <5>3, <5>6, <5>7, SettledTwice
        <5> QED BY <2>9, <5>8
      <4> QED BY <4>1, <4>2
    <3>2. \A s \in Switches : conn[s].n <= conn[s].n /\ conn[s].n \in Nat
      BY <2>11 DEF Conns
    <3> QED BY <2>5, <3>1, <3>2 DEF RouteOk
  <2>14. ASSUME NEW pair \in DOMAIN routes'
         PROVE  /\ pair = {routes'[pair].src, routes'[pair].dst}
                /\ RouteOk(net, routes'[pair], conn', tables', chan')
    <3>1. CASE pair = {a, b}
      <4>1. routes'[pair] = r
        BY <2>1, <3>1 DEF With
      <4> QED BY <2>5, <2>13, <3>1, <4>1
    <3>2. CASE pair # {a, b}
      <4>1. pair \in DOMAIN routes /\ routes'[pair] = routes[pair]
        BY <2>1, <3>2 DEF With
      <4> QED BY <2>12, <3>2, <4>1
    <3> QED BY <3>1, <3>2
  <2> QED BY <2>14, RoutePrimed
<1> QED BY <1>4, <1>5

LEMMA RoutesPacketIn ==
  ASSUME NoParallelCables, GroupsFit, RouteInv, PortsRight, HomeInv, TopoTypes, _packet_in_handler
  PROVE  RouteInv'
<1> DEFINE m == Head(events).x
           n == Head(events).n
           a == m.f.src
           b == m.f.dst
           K == DOMAIN hosts
           L == K \cup {a}
<1>1. IsSeq(events) /\ EventsOk(events, K) /\ arp_table \subseteq K
  BY DEF HomeInv, TopoTypes
<1>2. /\ events # << >> /\ Head(events).type = "packet_in"
      /\ UNCHANGED <<net, conn, tables>>
  BY DEF _packet_in_handler, Event, fabric
<1>3. PacketOk(m, K) /\ m.at[1] \in Switches
  BY <1>1, <1>2, EventsOkShrinks DEF PacketOk
<1>4. CASE UNCHANGED <<chan, routes>>
  BY <1>2, <1>4, RoutesAside
<1>5. CASE Send(m.at[1], n, Mods({NoIPv6})) /\ UNCHANGED routes
  <2> DEFINE o == Mods({NoIPv6})
  <2>1. o.kind = "mods" /\ o.rules = {NoIPv6}
    BY DEF Mods
  <2> HIDE DEF o
  <2>2. \A e : e.match # NoIPv6.match => Agrees(o, e)
    BY <2>1 DEF Agrees, Entries
  <2>3. Send(m.at[1], n, o)
    BY <1>5 DEF o
  <2> QED BY <1>2, <1>3, <1>5, <2>2, <2>3, RoutesSend
<1>6. CASE /\ m.f.type = "ARP" /\ Wanted(m.f) /\ Learn(m) /\ install_paths(a, b, m, n)
  <2>1. b \in L
    BY <1>1, <1>3, <1>6 DEF Wanted, PacketOk, FrameOk
  <2>2. DOMAIN hosts' = L /\ L \subseteq Hosts /\ \A h \in L : hosts'[h] = Home[h]
    BY <1>3, <1>6, LearnOk
  <2>3. a \in Hosts /\ b \in Hosts /\ hosts'[a] = Home[a] /\ hosts'[b] = Home[b]
    BY <2>1, <2>2
  <2> HIDE DEF m, n, L
  <2> QED BY <1>2, <1>6, <2>3, RoutesInstall
<1>7. CASE Send(m.at[1], n, PacketOut(m.at[2], OFPP_FLOOD, m.f)) /\ UNCHANGED routes
  <2> DEFINE o == PacketOut(m.at[2], OFPP_FLOOD, m.f)
  <2>1. o.kind = "out"
    BY DEF PacketOut
  <2> HIDE DEF o
  <2>2. \A e : Agrees(o, e)
    BY <2>1 DEF Agrees, Entries
  <2>3. Send(m.at[1], n, o)
    BY <1>7 DEF o
  <2> QED BY <1>2, <1>3, <1>7, <2>2, <2>3, RoutesSend
<1> QED BY <1>4, <1>5, <1>6, <1>7 DEF _packet_in_handler

LEMMA RoutesNext ==
  ASSUME NoParallelCables, GroupsFit
  PROVE  RouteInv /\ PortsRight /\ HomeInv /\ KnownInv /\ [Next]_vars => RouteInv'
<1> SUFFICES ASSUME RouteInv, PortsRight, HomeInv, TopoTypes, [Next]_vars PROVE RouteInv'
  BY DEF KnownInv
<1>1. CASE _packet_in_handler
  BY <1>1, RoutesPacketIn
<1>2. CASE Controller /\ ~_packet_in_handler
  <2>1. UNCHANGED <<net, routes, conn, tables, chan>>
    BY <1>2 DEF Controller, switch_enter_handler, switch_leave_handler, link_add_handler,
                link_delete_handler, port_desc_stats_reply_handler, fabric
  <2> QED BY <2>1, RoutesAside
<1>3. CASE \E s \in Switches : SwitchConnects(s) \/ SwitchReconnects(s) \/ SwitchDies(s)
  BY <1>3, RoutesSwitch
<1>4. CASE \E s \in Switches : SwitchObeys(s)
  BY <1>4, RoutesObey
<1>5. CASE \/ \E l \in Cables : LinkDiscovered(l) \/ LinkTimesOut(l) \/ CableDown(l) \/ CableUp(l)
           \/ \E t \in Talks : HostSends(t[1], t[2])
           \/ \E m \in wire : SwitchForwards(m)
           \/ UNCHANGED vars
  <2>1. UNCHANGED <<net, routes, conn, tables, chan>>
    BY <1>5 DEF LinkDiscovered, LinkTimesOut, CableDown, CableUp, HostSends, SwitchForwards,
                fabric, vars
  <2> QED BY <2>1, RoutesAside
<1> QED BY <1>1, <1>2, <1>3, <1>4, <1>5 DEF Next

LEMMA RoutesInit == Init => RouteInv
<1>1. Init => DOMAIN routes = {}
  BY DEF Init
<1> QED BY <1>1 DEF RouteInv

-----------------------------------------------------------------------------
(***************************************************************************)
(* The entries that are in the tables take a frame along.                  *)
(***************************************************************************)
Outs(s, p, f) == {r.out : r \in Lookup(s, p, f)}

LEMMA LookupTag ==
  ASSUME NEW s, NEW p, NEW a, NEW b, NEW v, NEW out,
         Only(tables[s], Rule(p, "VLAN", a, b, v, out))
  PROVE  Outs(s, p, Frame("VLAN", a, b, v)) = {out}
<1> DEFINE f == Frame("VLAN", a, b, v)
           e == Rule(p, "VLAN", a, b, v, out)
<1>1. f.type = "VLAN" /\ f.src = a /\ f.dst = b /\ f.x = v
  BY DEF Frame
<1>2. e.match = <<p, "VLAN", a, b, v>> /\ e.out = out
  BY RuleMatch
<1>3. e \in tables[s] /\ \A r \in tables[s] : r.match = e.match => r = e
  BY DEF Only
<1> HIDE DEF e, f
<1>4. Lookup(s, p, f) = {r \in tables[s] : r.match = <<p, "VLAN", a, b, v>>}
  BY <1>1 DEF Lookup
<1>5. Lookup(s, p, f) = {r \in tables[s] : r.match = e.match}
  BY <1>2, <1>4
<1>6. Outs(s, p, f) = {out}
  BY <1>2, <1>3, <1>5 DEF Outs
<1> QED BY <1>6 DEF f

LEMMA LookupIp ==
  ASSUME NEW s, NEW p, NEW a, NEW b, NEW out, Only(tables[s], Rule(p, "IPv4", a, b, 0, out))
  PROVE  Outs(s, p, Frame("IPv4", a, b, "none")) = {out}
<1> DEFINE f == Frame("IPv4", a, b, "none")
           e == Rule(p, "IPv4", a, b, 0, out)
<1>1. f.type = "IPv4" /\ f.src = a /\ f.dst = b
  BY DEF Frame
<1>2. e.match = <<p, "IPv4", a, b, 0>> /\ e.out = out
  BY RuleMatch
<1>3. e \in tables[s] /\ \A r \in tables[s] : r.match = e.match => r = e
  BY DEF Only
<1> HIDE DEF e, f
<1>4. Lookup(s, p, f) = {r \in tables[s] : r.match = <<p, "IPv4", a, b, 0>>}
  BY <1>1 DEF Lookup
<1>5. Lookup(s, p, f) = {r \in tables[s] : r.match = e.match}
  BY <1>2, <1>4
<1>6. Outs(s, p, f) = {out}
  BY <1>2, <1>3, <1>5 DEF Outs
<1> QED BY <1>6 DEF f

LEMMA StepOut ==
  ASSUME NEW s, NEW p, NEW f, 1 \in Outs(s, p, f)
  PROVE  Step(<<s, p>>, f) = {<<s, 1>>}
<1>1. <<s, p>>[1] = s /\ <<s, p>>[2] = p
  OBVIOUS
<1> QED BY <1>1 DEF Step, Outs

LEMMA StepOn ==
  ASSUME net \in Networks, up = Cables, NEW l \in Cables, NEW p, NEW f, Outs(l[1], p, f) = {l[2]}
  PROVE  Step(<<l[1], p>>, f) = {<<l[3], l[4]>>} /\ l[4] # 1
<1> DEFINE s == l[1]
           next == {<<m[3], m[4]>> : m \in {m \in Cables : m[1] = s /\ m[2] \in {l[2]}}}
<1>2. \A m \in Cables : (m[1] = s /\ m[2] = l[2]) => m = l
  BY MultipathConstants
<1>3. l[2] # 1 /\ l[4] # 1
  BY CableFacts DEF PortNumbers
<1>4. <<s, p>>[1] = s /\ <<s, p>>[2] = p
  OBVIOUS
<1>5. Step(<<s, p>>, f) = next
  BY <1>3, <1>4 DEF Step, Outs
<1>6. {m \in Cables : m[1] = s /\ m[2] \in {l[2]}} = {l}
  BY <1>2
<1>7. next = {<<l[3], l[4]>>}
  BY <1>6
<1> QED BY <1>3, <1>5, <1>7

LEMMA PathFits ==
  ASSUME net \in Networks, NEW path, NEW io, NEW a, NEW b, Wired(net, path, io, a, b)
  PROVE  Cardinality(Switches) \in Nat /\ Len(path) \in 1..Cardinality(Switches)
<1> DEFINE n == Len(path)
<1>1. n \in Nat /\ n >= 2 /\ path \in [1..n -> Switches]
  BY DEF Wired
<1>2. \A i, j \in 1..n : path[i] = path[j] => i = j
  BY DEF Wired
<1>3. path \in Injection(1..n, Switches)
  BY <1>1, <1>2 DEF Injection, IsInjective
<1>4. IsFiniteSet(Switches) /\ Cardinality(Switches) \in Nat
  BY MultipathConstants, FS_CardinalityType
<1>5. Cardinality(1..n) <= Cardinality(Switches)
  BY <1>3, <1>4, FS_Injection
<1>6. Cardinality(1..n) = n
  <2> HIDE DEF n
  <2>1. Cardinality(1..n) = IF 1 > n THEN 0 ELSE n - 1 + 1
    BY <1>1, FS_Interval
  <2> QED BY <2>1, <1>1
<1> HIDE DEF n
<1>7. n \in 1..Cardinality(Switches)
  BY <1>1, <1>4, <1>5, <1>6
<1> QED BY <1>4, <1>7 DEF n

ForthHeld(path, io, a, b, v) ==
  \A i \in 1..Len(path) : Only(tables[path[i]], Forth(a, b, io[i], i, Len(path), v))
BackHeld(path, io, a, b, v) ==
  \A i \in 1..Len(path) : Only(tables[path[i]], Back(a, b, io[i], i, Len(path), v))

LEMMA Along ==
  ASSUME net \in Networks, up = Cables, NEW path, NEW io, NEW a, NEW b,
         Wired(net, path, io, a, b), NEW v, ForthHeld(path, io, a, b, v)
  PROVE  Way(<<Home[a][1], 2>>, Frame("VLAN", a, b, v)) = {<<Home[b][1], 1>>}
<1> DEFINE n == Len(path)
           f == Frame("VLAN", a, b, v)
           in(i) == IF i = 1 THEN 2 ELSE io[i][1]
           out(i) == IF i = n THEN 1 ELSE io[i][2]
           at == [i \in 1..n |-> <<path[i], in(i)>>]
<1>1. /\ n \in Nat /\ n >= 2 /\ path[1] = Home[a][1] /\ path[n] = Home[b][1]
      /\ \A i \in 1..(n - 1) : <<path[i], io[i][2], path[i + 1], io[i + 1][1]>> \in Cables
  BY DEF Wired
<1>2. Cardinality(Switches) \in Nat /\ n \in 1..Cardinality(Switches)
  BY PathFits
<1>3. \A i : Forth(a, b, io[i], i, n, v) = Rule(in(i), "VLAN", a, b, v, out(i))
  BY DEF Forth
<1>4. \A i \in 1..n : Only(tables[path[i]], Rule(in(i), "VLAN", a, b, v, out(i)))
  BY <1>3 DEF ForthHeld
<1>5. /\ in(1) = 2 /\ \A i : i # 1 => in(i) = io[i][1]
      /\ out(n) = 1 /\ \A i : i # n => out(i) = io[i][2]
  OBVIOUS
<1> HIDE DEF in, out, n
<1>6. \A i \in 1..n : Outs(path[i], in(i), f) = {out(i)}
  BY <1>4, LookupTag
<1>7. \A i \in 1..n : at[i] = <<path[i], in(i)>> /\ at[i][2] = in(i)
  OBVIOUS
<1> HIDE DEF at, f
<1>8. ASSUME NEW i \in 1..(n - 1)
      PROVE  Step(at[i], f) = {at[i + 1]} /\ in(i + 1) # 1
  <2>1. i \in 1..n /\ i + 1 \in 1..n /\ i # n /\ i + 1 # 1
    BY <1>1
  <2>2. /\ at[i] = <<path[i], in(i)>> /\ Outs(path[i], in(i), f) = {io[i][2]}
        /\ at[i + 1] = <<path[i + 1], io[i + 1][1]>> /\ in(i + 1) = io[i + 1][1]
    BY <2>1, <1>5, <1>6, <1>7
  <2>3. <<path[i], io[i][2], path[i + 1], io[i + 1][1]>> \in Cables
    BY <1>1
  <2> DEFINE l == <<path[i], io[i][2], path[i + 1], io[i + 1][1]>>
  <2>4. l[1] = path[i] /\ l[2] = io[i][2] /\ l[3] = path[i + 1] /\ l[4] = io[i + 1][1]
    OBVIOUS
  <2> HIDE DEF l
  <2>5. Outs(l[1], in(i), f) = {l[2]}
    BY <2>2, <2>4
  <2>6. Step(<<l[1], in(i)>>, f) = {<<l[3], l[4]>>} /\ l[4] # 1
    BY <2>3, <2>5, StepOn DEF l
  <2> QED BY <2>2, <2>4, <2>6
<1>9. \A i \in 1..n : at[i][2] # 1
  <2> SUFFICES ASSUME NEW i \in 1..n PROVE in(i) # 1
    BY <1>7
  <2>1. CASE i = 1
    BY <2>1, <1>5
  <2>2. CASE i # 1
    <3>1. i - 1 \in 1..(n - 1) /\ (i - 1) + 1 = i
      BY <2>2, <1>1
    <3> QED BY <3>1, <1>8
  <2> QED BY <2>1, <2>2
<1>10. Step(at[n], f) = {<<Home[b][1], 1>>}
  <2>1. n \in 1..n
    BY <1>1
  <2>2. at[n] = <<path[n], in(n)>> /\ Outs(path[n], in(n), f) = {1}
    BY <2>1, <1>5, <1>6, <1>7
  <2> QED BY <2>2, <1>1, StepOut
<1>11. at[1] = <<Home[a][1], 2>>
  <2>1. 1 \in 1..n
    BY <1>1
  <2> QED BY <2>1, <1>1, <1>5, <1>7
<1>12. Way(<<Home[a][1], 2>>, f) = {<<Home[b][1], 1>>}
  <2> DEFINE end == <<Home[b][1], 1>>
             place == <<Home[a][1], 2>>
  <2>1. end[2] = 1
    OBVIOUS
  <2>2. at[1] = place /\ Step(at[n], f) = {end}
    BY <1>10, <1>11
  <2>3. \A i \in 1..(n - 1) : Step(at[i], f) = {at[i + 1]}
    BY <1>8
  <2> HIDE DEF end, place
  <2>4. Way(place, f) = {end}
    <3>1. Leads(at, n, f, end)
      BY <1>9, <2>1, <2>2, <2>3 DEF Leads
    <3>2. Way(at[1], f) = {end}
      BY <1>2, <3>1, WayIs
    <3> QED BY <3>2, <2>2
  <2> QED BY <2>4 DEF end, place
<1> QED BY <1>12 DEF f

(***************************************************************************)
(* The same path the other way round.                                      *)
(***************************************************************************)
Turned(path) == [i \in 1..Len(path) |-> path[Len(path) + 1 - i]]
TurnedPorts(path, io) ==
  [i \in 1..Len(path) |-> <<io[Len(path) + 1 - i][2], io[Len(path) + 1 - i][1]>>]

LEMMA FunctionIsSeq ==
  ASSUME NEW S, NEW n \in Nat, NEW q \in [1..n -> S]
  PROVE  q \in Seq(S) /\ Len(q) = n
OBVIOUS

TurnsTo(path, io, back, oi, a, b) ==
  LET n == Len(path) IN
  /\ n \in Nat /\ Len(back) = n /\ \A i \in 1..n : back[i] = path[n + 1 - i]
  /\ \A v : \A i \in 1..n :
       Forth(b, a, oi[i], i, n, v) = Back(a, b, io[n + 1 - i], n + 1 - i, n, v)

LEMMA TurnedWired ==
  ASSUME net \in Networks, NEW path, NEW io, NEW a, NEW b, Wired(net, path, io, a, b)
  PROVE  /\ Wired(net, Turned(path), TurnedPorts(path, io), b, a)
         /\ TurnsTo(path, io, Turned(path), TurnedPorts(path, io), a, b)
<1> DEFINE n == Len(path)
           back == Turned(path)
           oi == TurnedPorts(path, io)
<1>1. /\ n \in Nat /\ n >= 2 /\ path[1] = Home[a][1] /\ path[n] = Home[b][1]
      /\ path \in [1..n -> Switches]
      /\ io[1][1] = Home[a][2] /\ io[n][2] = Home[b][2]
      /\ \A i, j \in 1..n : path[i] = path[j] => i = j
      /\ \A i \in 1..(n - 1) : <<path[i], io[i][2], path[i + 1], io[i + 1][1]>> \in Cables
  BY DEF Wired
<1> HIDE DEF n
<1>2. \A i \in 1..n : n + 1 - i \in 1..n
  BY <1>1
<1>3. \A i \in 1..n : /\ back[i] = path[n + 1 - i]
                      /\ oi[i][1] = io[n + 1 - i][2] /\ oi[i][2] = io[n + 1 - i][1]
  BY DEF n, Turned, TurnedPorts
<1>4. back \in [1..n -> Switches]
  <2>1. back = [i \in 1..n |-> path[n + 1 - i]]
    BY DEF n, Turned
  <2> QED BY <2>1, <1>1, <1>2
<1> HIDE DEF back, oi
<1>5. back \in Seq(Switches) /\ Len(back) = n
  BY <1>1, <1>4, FunctionIsSeq
<1>6. ASSUME NEW i \in 1..n, NEW j \in 1..n, back[i] = back[j] PROVE i = j
  <2>1. n + 1 - i = n + 1 - j
    BY <1>1, <1>2, <1>3, <1>6
  <2> QED BY <2>1, <1>1
<1>7. /\ back[1] = Home[b][1] /\ back[n] = Home[a][1]
      /\ oi[1][1] = Home[b][2] /\ oi[n][2] = Home[a][2]
  <2>1. 1 \in 1..n /\ n \in 1..n /\ n + 1 - 1 = n /\ n + 1 - n = 1
    BY <1>1
  <2> QED BY <2>1, <1>1, <1>3
<1>8. ASSUME NEW i \in 1..(n - 1)
      PROVE  <<back[i], oi[i][2], back[i + 1], oi[i + 1][1]>> \in Cables
  <2> DEFINE j == n - i
             l == <<path[j], io[j][2], path[j + 1], io[j + 1][1]>>
  <2>1. j \in 1..(n - 1) /\ i \in 1..n /\ i + 1 \in 1..n /\ n + 1 - i = j + 1 /\ n + 1 - (i + 1) = j
    BY <1>1
  <2>2. /\ back[i] = path[j + 1] /\ oi[i][2] = io[j + 1][1]
        /\ back[i + 1] = path[j] /\ oi[i + 1][1] = io[j][2]
    <3> HIDE DEF j
    <3>1. /\ back[i] = path[n + 1 - i] /\ oi[i][2] = io[n + 1 - i][1]
          /\ back[i + 1] = path[n + 1 - (i + 1)] /\ oi[i + 1][1] = io[n + 1 - (i + 1)][2]
      BY <2>1, <1>3
    <3> QED BY <2>1, <3>1
  <2>3. l \in Cables
    BY <2>1, <1>1
  <2>4. Rev(l) \in Cables
    BY <2>3, CableFacts
  <2>5. Rev(l) = <<path[j + 1], io[j + 1][1], path[j], io[j][2]>>
    BY DEF Rev
  <2> QED BY <2>2, <2>4, <2>5
<1>9. Wired(net, back, oi, b, a)
  BY <1>1, <1>5, <1>6, <1>7, <1>8 DEF Wired
<1>10. ASSUME NEW v, NEW i \in 1..n
       PROVE  Forth(b, a, oi[i], i, n, v) = Back(a, b, io[n + 1 - i], n + 1 - i, n, v)
  <2> DEFINE j == n + 1 - i
  <2>1. (i = 1 <=> j = n) /\ (i = n <=> j = 1)
    BY <1>1
  <2>2. oi[i][1] = io[j][2] /\ oi[i][2] = io[j][1]
    BY <1>3
  <2> HIDE DEF j
  <2>3. /\ (IF i = 1 THEN 2 ELSE oi[i][1]) = (IF j = n THEN 2 ELSE io[j][2])
        /\ (IF i = n THEN 1 ELSE oi[i][2]) = (IF j = 1 THEN 1 ELSE io[j][1])
    BY <2>1, <2>2
  <2>4. Forth(b, a, oi[i], i, n, v) = Back(a, b, io[j], j, n, v)
    BY <2>3 DEF Forth, Back
  <2> QED BY <2>4 DEF j
<1>11. TurnsTo(path, io, back, oi, a, b)
  BY <1>1, <1>3, <1>5, <1>10 DEF TurnsTo, n
<1> QED BY <1>9, <1>11 DEF back, oi

LEMMA AlongBack ==
  ASSUME net \in Networks, up = Cables, NEW path, NEW io, NEW a, NEW b,
         Wired(net, path, io, a, b), NEW v, BackHeld(path, io, a, b, v)
  PROVE  Way(<<Home[b][1], 2>>, Frame("VLAN", b, a, v)) = {<<Home[a][1], 1>>}
<1> DEFINE n == Len(path)
           back == Turned(path)
           oi == TurnedPorts(path, io)
<1>4. Wired(net, back, oi, b, a) /\ TurnsTo(path, io, back, oi, a, b)
  BY TurnedWired
<1> HIDE DEF back, oi
<1>1. /\ n \in Nat /\ Len(back) = n /\ \A i \in 1..n : back[i] = path[n + 1 - i]
      /\ \A i \in 1..n : Forth(b, a, oi[i], i, n, v) = Back(a, b, io[n + 1 - i], n + 1 - i, n, v)
  BY <1>4 DEF TurnsTo
<1>2. \A i \in 1..n : n + 1 - i \in 1..n
  <2> HIDE DEF n
  <2> QED BY <1>1
<1>3. ForthHeld(back, oi, b, a, v)
  BY <1>1, <1>2 DEF ForthHeld, BackHeld
<1> QED BY <1>3, <1>4, Along

(***************************************************************************)
(* An installation whose entries are all in the tables.                    *)
(***************************************************************************)
Held(a, b, paths, ports, mirror) ==
  \A s \in Switches : \A e \in Needed(s, a, b, paths, ports, mirror) : Only(tables[s], e)

(***************************************************************************)
(* The entries of a path, for the tags it is given.                        *)
(***************************************************************************)
Tagged(a, b, path, io, vlans) ==
  \A s \in Switches : \A e \in TagsAt(s, a, b, path, io, vlans) : Only(tables[s], e)

LEMMA TaggedHeld ==
  ASSUME NEW path, NEW io, NEW a, NEW b, Wired(net, path, io, a, b), NEW vlans, NEW v \in vlans,
         Tagged(a, b, path, io, vlans)
  PROVE  ForthHeld(path, io, a, b, v) /\ BackHeld(path, io, a, b, v)
<1> DEFINE n == Len(path)
<1>1. n \in Nat /\ n >= 2 /\ path \in [1..n -> Switches] /\ DOMAIN path = 1..n
  BY DEF Wired
<1> HIDE DEF n
<1>2. ASSUME NEW i \in 1..n
      PROVE  /\ Only(tables[path[i]], Forth(a, b, io[i], i, n, v))
             /\ Only(tables[path[i]], Back(a, b, io[i], i, n, v))
  <2> DEFINE s == path[i]
             R == TagRules(a, b, io[i], i, n, vlans)
             F == Forth(a, b, io[i], i, n, v)
             B == Back(a, b, io[i], i, n, v)
  <2>1. F \in R /\ B \in R
    BY <1>1, TagRulesAre
  <2>2. s \in Switches /\ i \in Spots(s, path)
    BY <1>1 DEF Spots
  <2>3. R \subseteq TagsAt(s, a, b, path, io, vlans)
    <3>1. TagsAt(s, a, b, path, io, vlans)
            = UNION {TagRules(a, b, io[k], k, n, vlans) : k \in Spots(s, path)}
      BY DEF TagsAt, n
    <3> QED BY <2>2, <3>1
  <2> HIDE DEF s, R, F, B
  <2>4. Only(tables[s], F) /\ Only(tables[s], B)
    BY <2>1, <2>2, <2>3 DEF Tagged
  <2> QED BY <2>4 DEF s, F, B
<1>3. \A i \in 1..n : /\ Only(tables[path[i]], Forth(a, b, io[i], i, n, v))
                      /\ Only(tables[path[i]], Back(a, b, io[i], i, n, v))
  BY <1>2
<1> QED BY <1>3 DEF ForthHeld, BackHeld, n

BothWays(a, b, v) ==
  /\ Way(<<Home[a][1], 2>>, Frame("VLAN", a, b, v)) = {<<Home[b][1], 1>>}
  /\ Way(<<Home[b][1], 2>>, Frame("VLAN", b, a, v)) = {<<Home[a][1], 1>>}

LEMMA TagsLead ==
  ASSUME net \in Networks, up = Cables, NEW a, NEW b, NEW paths, NEW ports, NEW mirror,
         Laid(net, a, b, paths, ports, mirror), Held(a, b, paths, ports, mirror),
         NEW j \in 1..Len(paths), NEW v \in Vlans(j, vlan) \cup Vlans(j, mirrIorvlan)
  PROVE  BothWays(a, b, v)
<1>1. \A s \in Switches : NeededFor(s, a, b, paths, ports, mirror, j)
                             \subseteq Needed(s, a, b, paths, ports, mirror)
  BY DEF Needed
<1>2. ASSUME NEW path, NEW io, NEW vlans, v \in vlans, Wired(net, path, io, a, b),
             Tagged(a, b, path, io, vlans)
      PROVE  BothWays(a, b, v)
  <2>1. ForthHeld(path, io, a, b, v) /\ BackHeld(path, io, a, b, v)
    BY <1>2, TaggedHeld
  <2> QED BY <1>2, <2>1, Along, AlongBack DEF BothWays
<1>3. mirror[j] \in 1..Len(paths)
  BY DEF Laid
<1>4. CASE v \in Vlans(j, vlan)
  <2>1. Tagged(a, b, paths[j], ports[j], Vlans(j, vlan))
    BY <1>1 DEF Tagged, Held, NeededFor
  <2>2. Wired(net, paths[j], ports[j], a, b)
    BY DEF Laid
  <2> QED BY <1>2, <1>4, <2>1, <2>2
<1>5. CASE v \in Vlans(j, mirrIorvlan)
  <2>1. Tagged(a, b, paths[mirror[j]], ports[mirror[j]], Vlans(j, mirrIorvlan))
    BY <1>1 DEF Tagged, Held, NeededFor
  <2>2. Wired(net, paths[mirror[j]], ports[mirror[j]], a, b)
    BY <1>3 DEF Laid
  <2> QED BY <1>2, <1>5, <2>1, <2>2
<1> QED BY <1>4, <1>5

LEMMA EndsLead ==
  ASSUME net \in Networks, NEW a \in Hosts, NEW b \in Hosts, NEW paths, NEW ports, NEW mirror,
         Laid(net, a, b, paths, ports, mirror), Held(a, b, paths, ports, mirror)
  PROVE  LET to == Frame("IPv4", a, b, "none")
             fro == Frame("IPv4", b, a, "none")
         IN /\ Outs(Home[a][1], Home[a][2], to) = {1} /\ Outs(Home[b][1], 2, to) = {Home[b][2]}
            /\ Outs(Home[b][1], Home[b][2], fro) = {1} /\ Outs(Home[a][1], 2, fro) = {Home[a][2]}
<1> DEFINE s == Home[a][1]
           t == Home[b][1]
<1>1. s \in Switches /\ t \in Switches
  BY HomeFacts
<1>2. 1 \in 1..Len(paths) /\ Wired(net, paths[1], ports[1], a, b)
  BY DEF Laid
<1>3. /\ AtSource(a, b) \subseteq EdgeAt(s, a, b, paths[1], ports[1])
      /\ AtTarget(a, b) \subseteq EdgeAt(t, a, b, paths[1], ports[1])
  BY <1>2, EdgeIs
<1>4. \A x \in Switches : EdgeAt(x, a, b, paths[1], ports[1]) \subseteq Needed(x, a, b, paths, ports, mirror)
  BY <1>2 DEF Needed, NeededFor
<1>5. \A e \in AtSource(a, b) : Only(tables[s], e)
  BY <1>1, <1>3, <1>4 DEF Held
<1>6. \A e \in AtTarget(a, b) : Only(tables[t], e)
  BY <1>1, <1>3, <1>4 DEF Held
<1>7. /\ Only(tables[s], Rule(Home[a][2], "IPv4", a, b, 0, 1))
      /\ Only(tables[s], Rule(2, "IPv4", b, a, 0, Home[a][2]))
  BY <1>5 DEF AtSource
<1>8. /\ Only(tables[t], Rule(2, "IPv4", a, b, 0, Home[b][2]))
      /\ Only(tables[t], Rule(Home[b][2], "IPv4", b, a, 0, 1))
  BY <1>6 DEF AtTarget
<1> QED BY <1>7, <1>8, LookupIp

LEMMA HeldArrives ==
  ASSUME net \in Networks, up = Cables, NEW a \in Hosts, NEW b \in Hosts,
         NEW paths, NEW ports, NEW mirror,
         Laid(net, a, b, paths, ports, mirror), Held(a, b, paths, ports, mirror)
  PROVE  Arrives(a, b, Len(paths)) /\ Arrives(b, a, Len(paths))
<1>1. \A j \in 1..Len(paths) : \A v \in Vlans(j, vlan) \cup Vlans(j, mirrIorvlan) : BothWays(a, b, v)
  BY TagsLead
<1>2. \A s : <<s, 2>>[1] = s /\ <<s, 2>>[2] = 2
  OBVIOUS
<1> QED BY <1>1, <1>2, EndsLead DEF Arrives, BothWays, Outs

LEMMA RouteWorks ==
  ASSUME RouteInv, TopoTypes
  PROVE  RoutesWork
<1> SUFFICES ASSUME Quiet, NEW pair \in DOMAIN routes, Apart(routes[pair]),
                    \A s \in Nodes(routes[pair]) : /\ conn[s] = routes[pair].conn[s]
                                                   /\ conn[s].n = routes[pair].sent[s]
             PROVE  Works(routes[pair])
  BY DEF RoutesWork
<1> DEFINE r == routes[pair]
<1>1. r.src \in Hosts /\ r.dst \in Hosts
  BY DEF RouteInv, RouteOk
<1>2. PICK ports, mirror :
        /\ Laid(net, r.src, r.dst, r.paths, ports, mirror)
        /\ \A s \in Switches : (conn[s].live /\ conn[s] = r.conn[s] /\ conn[s].n = r.sent[s]) =>
             \A e \in Needed(s, r.src, r.dst, r.paths, ports, mirror) : Settled(tables[s], chan[s], e)
  BY DEF RouteInv, RouteOk, Apart
<1>3. net \in Networks /\ up = Cables
  BY DEF TopoTypes, Quiet
<1>4. ASSUME NEW s \in Switches, NEW e \in Needed(s, r.src, r.dst, r.paths, ports, mirror)
      PROVE  Only(tables[s], e)
  <2>1. PICK k \in 1..Len(r.paths) : \E i \in 1..Len(r.paths[k]) : r.paths[k][i] = s
    BY <1>2, NeededOn
  <2>2. k \in DOMAIN r.paths /\ s \in ToSet(r.paths[k])
    BY <1>2, <2>1 DEF Laid, Wired, ToSet
  <2>3. s \in Nodes(r)
    BY <2>2 DEF Nodes
  <2>4. conn[s].live /\ chan[s] = << >> /\ conn[s] = r.conn[s] /\ conn[s].n = r.sent[s]
    BY <2>3 DEF Quiet
  <2>5. Settled(tables[s], << >>, e)
    BY <1>2, <2>4
  <2> QED BY <2>5, SettledDone
<1>5. Held(r.src, r.dst, r.paths, ports, mirror)
  BY <1>4 DEF Held
<1> HIDE DEF r
<1>6. Arrives(r.src, r.dst, Len(r.paths)) /\ Arrives(r.dst, r.src, Len(r.paths))
  BY <1>1, <1>2, <1>3, <1>5, HeldArrives
<1> QED BY <1>6 DEF Works, r

(***************************************************************************)
(* What install_paths has laid takes packets and copies with every tag     *)
(* from host to host and back, whatever was installed before: for every    *)
(* network without parallel cables, every schedule of the events and every *)
(* number of groups that fits into the four bits a tag has for it.         *)
(***************************************************************************)
THEOREM RoutesKeepWorking ==
  ASSUME NoParallelCables, GroupsFit
  PROVE  Spec => []RoutesWork
<1>1. Init => UsableInv
  BY UsableInit
<1>2. UsableInv /\ [Next]_vars => UsableInv'
  BY UsableNext
<1>3. RouteInv /\ PortsRight /\ HomeInv /\ KnownInv /\ [Next]_vars => RouteInv'
  BY RoutesNext
<1>4. RouteInv /\ KnownInv => RoutesWork
  BY RouteWorks DEF KnownInv
<1> QED BY <1>1, <1>2, <1>3, <1>4, KnownInit, KnownNext, HomeInit, HomeNext,
           PortsInit, PortsNext, RoutesInit, PTL DEF Spec
=============================================================================
