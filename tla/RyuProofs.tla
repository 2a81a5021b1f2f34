------------------------------ MODULE RyuProofs ------------------------------
(***************************************************************************)
(* Three parts of the Ryu process that share no state, each for every      *)
(* value of its constants: the shutdown of the applications (RyuApps), the *)
(* timetable of the LLDP packets (LldpSchedule) and the path search of the *)
(* controller variants (PathSearch).                                       *)
(***************************************************************************)
EXTENDS RyuApps, LldpSchedule, PathSearch, FiniteSetTheorems, SequenceTheorems,
        NaturalsInduction, WellFoundedInduction, TLAPS

-----------------------------------------------------------------------------
(***************************************************************************)
(* THE SHUTDOWN, for any number of applications, senders and closers and   *)
(* any size of the queues: no application is stopped twice, and no event   *)
(* accepted before its application was stopped is left in the queue when   *)
(* the event loop ends.                                                    *)
(***************************************************************************)
Events == {"early", "late", "stop"}
InClose(c) == pc[c] \in {"next", "kill", "stop", "join"}

(***************************************************************************)
(* Types, as far as the proofs need them.                                  *)
(***************************************************************************)
AppTypes ==
  /\ is_active \in [Apps -> BOOLEAN]
  /\ events \in [Apps -> Seq(Events)]
  /\ loop \in [Apps -> {"top", "get", "handle", "ended"}]
  /\ target \in [Senders -> Apps \cup {Nobody}]

CloseTypes ==
  /\ pc \in [Closers -> {"run", "next", "kill", "stop", "join", "done"}]
  /\ names \in [Closers -> SUBSET Apps]
  /\ at \in [Closers -> Apps \cup {Nobody}]
  /\ \A c \in Closers : pc[c] \in {"kill", "stop", "join"} => at[c] \in Apps
  /\ applications \subseteq Apps

(***************************************************************************)
(* A closer that is inside close holds close_sem, and what it has still to *)
(* stop is still there.                                                    *)
(***************************************************************************)
HolderOnly == \A c \in Closers : InClose(c) => holder = c /\ names[c] \subseteq applications

CloseInv == CloseTypes /\ HolderOnly /\ StoppedOnce

(***************************************************************************)
(* A loop that has ended found its queue empty and the flag cleared, and   *)
(* the flag is never set again.                                            *)
(***************************************************************************)
EndedIsInactive ==
  \A a \in Apps : loop[a] = "ended" =>
    ~is_active[a] /\ \A i \in 1..Len(events[a]) : events[a][i] # "early"

-----------------------------------------------------------------------------
(***************************************************************************)
(* The steps of the closers; every other step leaves their variables and   *)
(* the tables alone.                                                       *)
(***************************************************************************)
LEMMA CloseStep ==
  ASSUME CloseInv, NEW c \in Closers, Close(c) \/ stop(c)
  PROVE  CloseInv'
<1>t. /\ pc \in [Closers -> {"run", "next", "kill", "stop", "join", "done"}]
      /\ names \in [Closers -> SUBSET Apps] /\ at \in [Closers -> Apps \cup {Nobody}]
      /\ applications \subseteq Apps /\ c # Nobody
  BY AppsConstants DEF CloseInv, CloseTypes, Nobody
<1>1. CASE Enter(c)
  <2>1. /\ holder = Nobody /\ holder' = c /\ UNCHANGED <<at, error, applications>>
        /\ \A d \in Closers : pc'[d] = IF d = c THEN "next" ELSE pc[d]
        /\ \A d \in Closers : names'[d] = IF d = c THEN applications ELSE names[d]
        /\ pc' \in [Closers -> {"run", "next", "kill", "stop", "join", "done"}]
        /\ names' \in [Closers -> SUBSET Apps]
    BY <1>1, <1>t DEF Enter, appvars
  <2>2. \A d \in Closers : d # Nobody
    BY AppsConstants DEF Nobody
  <2>3. \A d \in Closers : ~InClose(d)
    BY <2>1, <2>2 DEF CloseInv, HolderOnly
  <2>4. HolderOnly'
    BY <2>1, <2>3 DEF HolderOnly, InClose
  <2>5. CloseTypes'
    BY <2>1 DEF CloseInv, CloseTypes
  <2> QED BY <2>1, <2>4, <2>5 DEF CloseInv, StoppedOnce
<1>2. ASSUME NEW a \in Apps, uninstantiate(c, a) PROVE CloseInv'
  <2>1. pc[c] = "next" /\ a \in names[c]
    BY <1>2 DEF uninstantiate
  <2>2. holder = c /\ names[c] \subseteq applications
    BY <2>1 DEF CloseInv, HolderOnly, InClose
  <2>3. /\ \A d \in Closers : names'[d] = IF d = c THEN names[c] \ {a} ELSE names[d]
        /\ pc'[c] \in {"kill", "stop"} /\ \A d \in Closers \ {c} : pc'[d] = pc[d]
        /\ \A d \in Closers : at'[d] = IF d = c THEN a ELSE at[d]
        /\ applications' = applications \ {a} /\ UNCHANGED <<error, holder>>
    BY <1>2, <1>t, <2>1, <2>2 DEF uninstantiate
  <2>4. /\ pc' \in [Closers -> {"run", "next", "kill", "stop", "join", "done"}]
        /\ names' \in [Closers -> SUBSET Apps] /\ at' \in [Closers -> Apps \cup {Nobody}]
    BY <1>2, <1>t, <2>1, <2>2 DEF uninstantiate
  <2>5. \A d \in Closers \ {c} : ~InClose(d)
    BY <2>2 DEF CloseInv, HolderOnly
  <2>6. HolderOnly'
    BY <2>2, <2>3, <2>5 DEF HolderOnly, InClose
  <2>7. CloseTypes'
    BY <1>t, <2>3, <2>4 DEF CloseInv, CloseTypes
  <2> QED BY <2>3, <2>6, <2>7 DEF CloseInv, StoppedOnce
<1>3. CASE stop(c)
  <2>1. /\ pc[c] = "stop" /\ UNCHANGED <<at, error, applications, names, holder>>
        /\ \A d \in Closers : pc'[d] = IF d = c THEN "join" ELSE pc[d]
        /\ pc' \in [Closers -> {"run", "next", "kill", "stop", "join", "done"}]
    BY <1>3, <1>t DEF stop
  <2>2. CloseTypes'
    BY <2>1 DEF CloseInv, CloseTypes
  <2> QED BY <2>1, <2>2 DEF CloseInv, HolderOnly, InClose, StoppedOnce
<1>3a. CASE MainKilled(c)
  <2>1. /\ pc[c] = "kill" /\ UNCHANGED <<at, error, applications, names, holder>>
        /\ \A d \in Closers : pc'[d] = IF d = c THEN "stop" ELSE pc[d]
        /\ pc' \in [Closers -> {"run", "next", "kill", "stop", "join", "done"}]
    BY <1>3a, <1>t DEF MainKilled
  <2>2. CloseTypes'
    BY <2>1 DEF CloseInv, CloseTypes
  <2> QED BY <2>1, <2>2 DEF CloseInv, HolderOnly, InClose, StoppedOnce
<1>4. CASE joinall(c)
  <2>1. /\ pc[c] = "join" /\ UNCHANGED <<error, applications, names, holder>>
        /\ \A d \in Closers : pc'[d] = IF d = c THEN "next" ELSE pc[d]
        /\ \A d \in Closers : at'[d] = IF d = c THEN Nobody ELSE at[d]
        /\ pc' \in [Closers -> {"run", "next", "kill", "stop", "join", "done"}]
        /\ at' \in [Closers -> Apps \cup {Nobody}]
    BY <1>4, <1>t DEF joinall, appvars
  <2>2. CloseTypes'
    BY <2>1 DEF CloseInv, CloseTypes
  <2> QED BY <2>1, <2>2 DEF CloseInv, HolderOnly, InClose, StoppedOnce
<1>5. CASE Leave(c)
  <2>1. /\ pc[c] = "next" /\ UNCHANGED <<at, error, applications, names>>
        /\ \A d \in Closers : pc'[d] = IF d = c THEN "done" ELSE pc[d]
        /\ pc' \in [Closers -> {"run", "next", "kill", "stop", "join", "done"}]
    BY <1>5, <1>t DEF Leave, appvars
  <2>2. \A d \in Closers \ {c} : ~InClose(d)
    BY <2>1 DEF CloseInv, HolderOnly, InClose
  <2>3. \A d \in Closers : ~InClose(d)'
    BY <2>1, <2>2 DEF InClose
  <2>4. CloseTypes'
    BY <2>1 DEF CloseInv, CloseTypes
  <2> QED BY <2>1, <2>3, <2>4 DEF CloseInv, HolderOnly, StoppedOnce
<1> QED BY <1>1, <1>2, <1>3, <1>3a, <1>4, <1>5 DEF Close

LEMMA CloseUntouched ==
  ASSUME CloseInv, UNCHANGED <<applications, closevars>>
  PROVE  CloseInv'
BY DEF CloseInv, CloseTypes, HolderOnly, InClose, StoppedOnce, closevars

LEMMA CloseAlways == Spec => []CloseInv
<1>1. Init => CloseInv
  BY DEF Init, CloseInv, CloseTypes, HolderOnly, InClose, StoppedOnce
<1>2. CloseInv /\ [Next]_vars => CloseInv'
  <2> SUFFICES ASSUME CloseInv, [Next]_vars PROVE CloseInv'
    OBVIOUS
  <2>1. CASE UNCHANGED vars
    BY <2>1, CloseUntouched DEF vars, appvars
  <2>2. CASE \E a \in Apps : Loop(a) \/ OutsideEvent(a)
    BY <2>2, CloseUntouched DEF Loop, LoopTop, GetEvent, HandlerEnds, OutsideEvent
  <2>3. CASE (\E a \in Threaded : ThreadRuns(a)) \/ (\E a, b \in Apps : send_event(a, b))
    BY <2>3, CloseUntouched DEF ThreadRuns, send_event
  <2>4. CASE \E t \in Senders : _send_event(t)
    BY <2>4, CloseUntouched DEF _send_event
  <2> QED BY <2>1, <2>2, <2>3, <2>4, CloseStep DEF Next
<1> QED BY <1>1, <1>2, PTL DEF Spec

(***************************************************************************)
(* "This semaphore prevents parallel execution" of close: no application   *)
(* is looked up that another closer has removed.                           *)
(***************************************************************************)
THEOREM NoneStoppedTwice == Spec => []StoppedOnce
<1>1. CloseInv => StoppedOnce
  BY DEF CloseInv
<1> QED BY <1>1, CloseAlways, PTL

-----------------------------------------------------------------------------
(***************************************************************************)
(* An event in the queue of an application whose loop has ended came after *)
(* the flag was cleared.                                                   *)
(***************************************************************************)
LEMMA AppendedLate ==
  ASSUME AppTypes, EndedIsInactive, NEW b \in Apps, NEW e \in Events,
         e = "early" => is_active[b],
         events' = [events EXCEPT ![b] = Append(@, e)], UNCHANGED <<is_active, loop>>
  PROVE  events' \in [Apps -> Seq(Events)] /\ EndedIsInactive'
<1>1. events[b] \in Seq(Events) /\ Append(events[b], e) \in Seq(Events)
  BY DEF AppTypes
<1>2. \A a \in Apps : events'[a] = IF a = b THEN Append(events[b], e) ELSE events[a]
  BY DEF AppTypes
<1>3. \A i \in 1..Len(Append(events[b], e)) :
        \/ Append(events[b], e)[i] = e
        \/ i \in 1..Len(events[b]) /\ Append(events[b], e)[i] = events[b][i]
  BY <1>1
<1>4. events' \in [Apps -> Seq(Events)]
  BY <1>1 DEF AppTypes
<1>5. ASSUME NEW a \in Apps, loop'[a] = "ended"
      PROVE  ~is_active'[a] /\ \A i \in 1..Len(events'[a]) : events'[a][i] # "early"
  <2>1. ~is_active[a] /\ \A i \in 1..Len(events[a]) : events[a][i] # "early"
    BY <1>5 DEF EndedIsInactive
  <2>2. CASE a # b
    BY <1>2, <2>1, <2>2
  <2>3. CASE a = b
    <3>1. e # "early" /\ events'[a] = Append(events[b], e)
      BY <1>2, <2>1, <2>3
    <3> QED BY <1>3, <2>1, <2>3, <3>1
  <2> QED BY <2>2, <2>3
<1> QED BY <1>4, <1>5 DEF EndedIsInactive

LEMMA EndedStep ==
  ASSUME AppTypes, EndedIsInactive, CloseTypes, [Next]_vars
  PROVE  AppTypes' /\ EndedIsInactive'
<1>1. ASSUME NEW a \in Apps, LoopTop(a) PROVE AppTypes' /\ EndedIsInactive'
  <2>1. UNCHANGED <<is_active, events, target>>
    BY <1>1 DEF LoopTop
  <2>2. loop' \in [Apps -> {"top", "get", "handle", "ended"}]
    BY <1>1 DEF LoopTop, AppTypes
  <2>3. \A b \in Apps : loop'[b] = "ended" => loop[b] = "ended" \/ LoopEnds(b)
    BY <1>1 DEF LoopTop, AppTypes
  <2>4. \A b \in Apps : LoopEnds(b) => ~is_active[b] /\ Len(events[b]) = 0
    BY DEF LoopEnds
  <2>5. EndedIsInactive'
    BY <2>1, <2>3, <2>4 DEF EndedIsInactive
  <2> QED BY <2>1, <2>2, <2>5 DEF AppTypes
<1>2. ASSUME NEW a \in Apps, GetEvent(a) PROVE AppTypes' /\ EndedIsInactive'
  <2>1. loop[a] = "get" /\ events[a] # << >> /\ UNCHANGED <<is_active, target>>
    BY <1>2 DEF GetEvent
  <2>2. \A b \in Apps \ {a} : loop'[b] = loop[b] /\ events'[b] = events[b]
    BY <1>2 DEF GetEvent, AppTypes
  <2>3. loop'[a] # "ended" /\ loop' \in [Apps -> {"top", "get", "handle", "ended"}]
    BY <1>2 DEF GetEvent, AppTypes
  <2>4. events[a] \in Seq(Events) /\ Tail(events[a]) \in Seq(Events)
    BY <2>1 DEF AppTypes
  <2>5. events' \in [Apps -> Seq(Events)]
    BY <1>2, <2>4 DEF GetEvent, AppTypes
  <2>6. EndedIsInactive'
    BY <2>1, <2>2, <2>3 DEF EndedIsInactive
  <2> QED BY <2>1, <2>3, <2>5, <2>6 DEF AppTypes
<1>3. ASSUME NEW a \in Apps, HandlerEnds(a) PROVE AppTypes' /\ EndedIsInactive'
  <2>1. UNCHANGED <<is_active, events, target>>
    BY <1>3 DEF HandlerEnds
  <2>2. loop' \in [Apps -> {"top", "get", "handle", "ended"}]
        /\ \A b \in Apps : loop'[b] = "ended" => loop[b] = "ended"
    BY <1>3 DEF HandlerEnds, AppTypes
  <2> QED BY <2>1, <2>2 DEF AppTypes, EndedIsInactive
<1>4. ASSUME NEW t \in Senders, NEW b \in Apps, Found(t, b), UNCHANGED <<is_active, events, loop>>
      PROVE  AppTypes' /\ EndedIsInactive'
  <2>1. target' \in [Senders -> Apps \cup {Nobody}]
    BY <1>4 DEF Found, AppTypes
  <2> QED BY <1>4, <2>1 DEF AppTypes, EndedIsInactive
<1>5. ASSUME NEW a \in Apps, OutsideEvent(a) PROVE AppTypes' /\ EndedIsInactive'
  BY <1>4, <1>5 DEF OutsideEvent, Senders
<1>6. ASSUME NEW a \in Apps, NEW b \in Apps, send_event(a, b) PROVE AppTypes' /\ EndedIsInactive'
  BY <1>4, <1>6 DEF send_event, Senders
<1>7. ASSUME NEW t \in Senders, _send_event(t) PROVE AppTypes' /\ EndedIsInactive'
  <2> DEFINE b == target[t]
             e == IF is_active[b] THEN "early" ELSE "late"
  <2>1. b \in Apps /\ e \in Events /\ (e = "early" => is_active[b])
    BY <1>7 DEF _send_event, AppTypes, Events
  <2>2. /\ events' = [events EXCEPT ![b] = Append(@, e)] /\ UNCHANGED <<is_active, loop>>
        /\ target' = [target EXCEPT ![t] = Nobody]
    BY <1>7 DEF _send_event
  <2>3. target' \in [Senders -> Apps \cup {Nobody}]
    BY <2>2 DEF AppTypes
  <2> HIDE DEF b, e
  <2> QED BY <2>1, <2>2, <2>3, AppendedLate DEF AppTypes
<1>8. ASSUME NEW c \in Closers, stop(c) PROVE AppTypes' /\ EndedIsInactive'
  <2>1. /\ at[c] \in Apps /\ events' = [events EXCEPT ![at[c]] = Append(@, "stop")]
        /\ UNCHANGED <<is_active, loop, target>>
    BY <1>8 DEF stop, CloseTypes
  <2> QED BY <2>1, AppendedLate DEF AppTypes, Events
<1>9. ASSUME NEW c \in Closers, NEW a \in Apps, uninstantiate(c, a)
      PROVE  AppTypes' /\ EndedIsInactive'
  <2>1. /\ UNCHANGED <<events, loop, target>>
        /\ is_active' = [is_active EXCEPT ![a] = FALSE] \/ is_active' = is_active
    BY <1>9 DEF uninstantiate
  <2>2. is_active' \in [Apps -> BOOLEAN]
    BY <2>1 DEF AppTypes
  <2>3. \A b \in Apps : is_active'[b] => is_active[b]
    BY <2>1 DEF AppTypes
  <2> QED BY <2>1, <2>2, <2>3 DEF AppTypes, EndedIsInactive
<1>9a. ASSUME NEW c \in Closers, MainKilled(c) PROVE AppTypes' /\ EndedIsInactive'
  <2>1. /\ UNCHANGED <<events, loop, target>>
        /\ at[c] \in Apps /\ is_active' = [is_active EXCEPT ![at[c]] = FALSE]
    BY <1>9a DEF MainKilled, CloseTypes
  <2>2. is_active' \in [Apps -> BOOLEAN] /\ \A b \in Apps : is_active'[b] => is_active[b]
    BY <2>1 DEF AppTypes
  <2> QED BY <2>1, <2>2 DEF AppTypes, EndedIsInactive
<1>10. ASSUME UNCHANGED <<is_active, events, loop, target>> PROVE AppTypes' /\ EndedIsInactive'
  BY <1>10 DEF AppTypes, EndedIsInactive
<1>11. CASE \E c \in Closers : Enter(c) \/ joinall(c) \/ Leave(c)
  BY <1>10, <1>11 DEF Enter, joinall, Leave, appvars
<1>12. CASE (\E a \in Threaded : ThreadRuns(a)) \/ UNCHANGED vars
  BY <1>10, <1>12 DEF ThreadRuns, vars, appvars
<1> QED BY <1>1, <1>2, <1>3, <1>5, <1>6, <1>7, <1>8, <1>9, <1>9a, <1>11, <1>12
     DEF Next, Loop, Close

(***************************************************************************)
(* An event accepted before stop was called is handled before the loop     *)
(* ends.                                                                   *)
(***************************************************************************)
THEOREM NoEventDropped == Spec => []NothingDropped
<1>1. Init => AppTypes /\ EndedIsInactive
  BY DEF Init, AppTypes, EndedIsInactive
<1>2. AppTypes /\ EndedIsInactive /\ CloseTypes /\ [Next]_vars => AppTypes' /\ EndedIsInactive'
  BY EndedStep
<1>3. EndedIsInactive => NothingDropped
  BY DEF EndedIsInactive, NothingDropped, Contains
<1>4. CloseInv => CloseTypes
  BY DEF CloseInv
<1> QED BY <1>1, <1>2, <1>3, <1>4, CloseAlways, PTL DEF Spec

-----------------------------------------------------------------------------
(***************************************************************************)
(* Lists: what is on one, and one without repetition.                      *)
(***************************************************************************)
Listed(q) == {q[i] : i \in 1..Len(q)}
Distinct(q) == \A i, j \in 1..Len(q) : q[i] = q[j] => i = j

-----------------------------------------------------------------------------
(***************************************************************************)
(* THE TIMETABLE, for any set of ports and any periods: the ports that     *)
(* have a time stamp stand in the order in which they were served.         *)
(***************************************************************************)

(***************************************************************************)
(* A set of numbers that is not empty has a smallest one.                  *)
(***************************************************************************)
LEMMA SmallestExists ==
  ASSUME NEW T \in SUBSET Nat, T # {}
  PROVE  \E m \in T : \A i \in T : m <= i
<1>1. PICK m \in T : \A i \in T : ~(<<i, m>> \in OpToRel(<, Nat))
  BY NatLessThanWellFounded, WFMin
<1>2. \A i \in T : ~(i < m)
  BY <1>1 DEF OpToRel
<1> QED BY <1>2

(***************************************************************************)
(* A list with one element taken out.                                      *)
(***************************************************************************)
LEMMA RemoveAtDoes ==
  ASSUME NEW S, NEW q \in Seq(S), NEW k \in 1..Len(q)
  PROVE  /\ RemoveAt(q, k) \in Seq(S) /\ Len(RemoveAt(q, k)) = Len(q) - 1
         /\ \A i \in 1..(Len(q) - 1) : RemoveAt(q, k)[i] = q[IF i < k THEN i ELSE i + 1]
<1> DEFINE front == SubSeq(q, 1, k - 1)
           back == SubSeq(q, k + 1, Len(q))
<1>1. /\ front \in Seq(S) /\ Len(front) = k - 1
      /\ \A i \in 1..(k - 1) : front[i] = q[i]
  OBVIOUS
<1>2. /\ back \in Seq(S) /\ Len(back) = Len(q) - k
      /\ \A i \in 1..(Len(q) - k) : back[i] = q[k + i]
  BY SubSeqProperties
<1> HIDE DEF front, back
<1>3. RemoveAt(q, k) = front \o back
  BY DEF RemoveAt, front, back
<1>4. /\ RemoveAt(q, k) \in Seq(S) /\ Len(RemoveAt(q, k)) = Len(q) - 1
  BY <1>1, <1>2, <1>3
<1>5. ASSUME NEW i \in 1..(Len(q) - 1)
      PROVE  RemoveAt(q, k)[i] = q[IF i < k THEN i ELSE i + 1]
  <2>1. CASE i < k
    BY <2>1, <1>1, <1>2, <1>3
  <2>2. CASE i >= k
    <3>1. i - (k - 1) \in 1..(Len(q) - k) /\ k + (i - (k - 1)) = i + 1
      BY <2>2
    <3>2. (front \o back)[i] = back[i - (k - 1)]
      BY <2>2, <1>1, <1>2
    <3>3. back[i - (k - 1)] = q[i + 1]
      BY <3>1, <1>2
    <3>4. (IF i < k THEN i ELSE i + 1) = i + 1
      BY <2>2
    <3> QED BY <3>2, <3>3, <3>4, <1>3
  <2> QED BY <2>1, <2>2
<1> QED BY <1>4, <1>5

(***************************************************************************)
(* The ports that have a time stamp stand in the order of their ages.      *)
(***************************************************************************)
InOrder(q, a) ==
  \A i, j \in 1..Len(q) :
    (i < j /\ a[q[i]] # None /\ a[q[j]] # None) => a[q[i]] >= a[q[j]]

(***************************************************************************)
(* The inductive invariant is about the list alone.  a are the ages.       *)
(***************************************************************************)
ListOK(q, a) ==
  /\ q \in Seq(Ports) /\ Distinct(q)
  /\ a \in [Listed(q) -> None..PERIOD]
  /\ InOrder(q, a)

LEMMA RemovedKeepsOrder ==
  ASSUME NEW p \in Listed(keys), ListOK(keys, age)
  PROVE  /\ Removed(p) \in Seq(Ports) /\ Distinct(Removed(p))
         /\ Listed(Removed(p)) = Listed(keys) \ {p}
         /\ InOrder(Removed(p), age)
<1> DEFINE k == Place(p)
           r == Removed(p)
<1>1. k \in 1..Len(keys) /\ keys[k] = p
  BY DEF Place, Listed, ListOK
<1>2. /\ r \in Seq(Ports) /\ Len(r) = Len(keys) - 1
      /\ \A i \in 1..(Len(keys) - 1) : r[i] = keys[IF i < k THEN i ELSE i + 1]
  BY <1>1, RemoveAtDoes DEF Removed, ListOK
<1> HIDE DEF k, r
<1>3. Len(keys) \in Nat
  BY DEF ListOK
<1>4. Distinct(r)
  BY <1>1, <1>2, <1>3 DEF Distinct, ListOK
<1>5. Listed(r) = Listed(keys) \ {p}
  <2>1. ASSUME NEW i \in 1..Len(r) PROVE r[i] \in Listed(keys) \ {p}
    BY <1>1, <1>2, <1>3 DEF Distinct, Listed, ListOK
  <2>2. ASSUME NEW x \in Listed(keys), x # p PROVE x \in Listed(r)
    <3>1. PICK j \in 1..Len(keys) : keys[j] = x
      BY DEF Listed
    <3>2. j # k
      BY <3>1, <2>2, <1>1
    <3>3. CASE j < k
      <4>1. j \in 1..Len(r) /\ r[j] = x
        BY <3>3, <3>1, <1>1, <1>2, <1>3
      <4> QED BY <4>1 DEF Listed
    <3>4. CASE j > k
      <4>1. j - 1 \in 1..Len(r) /\ r[j - 1] = x
        BY <3>4, <3>1, <1>1, <1>2, <1>3
      <4> QED BY <4>1 DEF Listed
    <3> QED BY <3>2, <3>3, <3>4, <1>1, <3>1
  <2> QED BY <2>1, <2>2 DEF Listed
<1>6. InOrder(r, age)
  <2> SUFFICES ASSUME NEW i \in 1..Len(r), NEW j \in 1..Len(r), i < j,
                      age[r[i]] # None, age[r[j]] # None
               PROVE  age[r[i]] >= age[r[j]]
    BY DEF InOrder
  <2> DEFINE x == IF i < k THEN i ELSE i + 1
             y == IF j < k THEN j ELSE j + 1
  <2>1. x \in 1..Len(keys) /\ y \in 1..Len(keys) /\ x < y /\ r[i] = keys[x] /\ r[j] = keys[y]
    BY <1>1, <1>2, <1>3
  <2> HIDE DEF x, y
  <2> QED BY <2>1 DEF InOrder, ListOK
<1> QED BY <1>2, <1>4, <1>5, <1>6 DEF r

(***************************************************************************)
(* Putting a port in front without a time stamp, or last with the age 0.   *)
(***************************************************************************)
LEMMA FrontKeepsOrder ==
  ASSUME NEW q \in Seq(Ports), Distinct(q), NEW a, InOrder(q, a), NEW p \in Ports \ Listed(q),
         NEW b \in [Listed(q) \cup {p} -> None..PERIOD], b[p] = None,
         \A x \in Listed(q) : b[x] = a[x]
  PROVE  ListOK(<<p>> \o q, b)
<1> DEFINE r == <<p>> \o q
<1>1. /\ r \in Seq(Ports) /\ Len(r) = Len(q) + 1 /\ Len(q) \in Nat
      /\ r[1] = p /\ \A i \in 2..Len(r) : r[i] = q[i - 1] /\ i - 1 \in 1..Len(q)
  OBVIOUS
<1> HIDE DEF r
<1>2. \A i \in 1..Len(r) : i = 1 \/ i \in 2..Len(r)
  BY <1>1
<1>3. \A i \in 1..Len(q) : q[i] \in Listed(q) /\ q[i] # p
  BY DEF Listed
<1>4. Distinct(r)
  <2>1. ASSUME NEW i \in 2..Len(r), NEW j \in 2..Len(r), r[i] = r[j] PROVE i = j
    <3>1. i - 1 \in 1..Len(q) /\ j - 1 \in 1..Len(q) /\ q[i - 1] = q[j - 1]
      BY <1>1, <2>1
    <3>2. i - 1 = j - 1
      BY <3>1 DEF Distinct
    <3> QED BY <3>2, <1>1
  <2>2. \A i \in 2..Len(r) : r[i] # r[1]
    BY <1>1, <1>3
  <2> QED BY <2>1, <2>2, <1>2 DEF Distinct
<1>5. Listed(r) = Listed(q) \cup {p}
  <2>1. ASSUME NEW i \in 1..Len(q) PROVE q[i] \in Listed(r)
    <3>1. i + 1 \in 1..Len(r) /\ r[i + 1] = q[i]
      BY <1>1
    <3> QED BY <3>1 DEF Listed
  <2>2. p \in Listed(r)
    BY <1>1 DEF Listed
  <2>3. ASSUME NEW i \in 1..Len(r) PROVE r[i] \in Listed(q) \cup {p}
    BY <1>1, <1>2, <1>3
  <2> QED BY <2>1, <2>2, <2>3 DEF Listed
<1>6. InOrder(r, b)
  <2> SUFFICES ASSUME NEW i \in 1..Len(r), NEW j \in 1..Len(r), i < j,
                      b[r[i]] # None, b[r[j]] # None
               PROVE  b[r[i]] >= b[r[j]]
    BY DEF InOrder
  <2>1. i \in 2..Len(r) /\ j \in 2..Len(r)
    BY <1>1, <1>2
  <2>2. /\ r[i] = q[i - 1] /\ i - 1 \in 1..Len(q) /\ r[j] = q[j - 1] /\ j - 1 \in 1..Len(q)
        /\ i - 1 < j - 1
    BY <2>1, <1>1
  <2>3. b[r[i]] = a[q[i - 1]] /\ b[r[j]] = a[q[j - 1]]
    BY <2>2, <1>3
  <2> QED BY <2>2, <2>3 DEF InOrder
<1> QED BY <1>1, <1>4, <1>5, <1>6 DEF ListOK, r

LEMMA LastKeepsOrder ==
  ASSUME NEW q \in Seq(Ports), Distinct(q), NEW a, InOrder(q, a), NEW p \in Ports \ Listed(q),
         NEW b \in [Listed(q) \cup {p} -> None..PERIOD], b[p] = 0,
         \A x \in Listed(q) : b[x] = a[x]
  PROVE  ListOK(Append(q, p), b)
<1> DEFINE r == Append(q, p)
<1>1. /\ r \in Seq(Ports) /\ Len(r) = Len(q) + 1 /\ Len(q) \in Nat
      /\ r[Len(q) + 1] = p /\ \A i \in 1..Len(q) : r[i] = q[i]
  OBVIOUS
<1> HIDE DEF r
<1>2. \A i \in 1..Len(r) : i = Len(q) + 1 \/ i \in 1..Len(q)
  BY <1>1
<1>3. \A i \in 1..Len(q) : q[i] \in Listed(q) /\ q[i] # p
  BY DEF Listed
<1>4. Distinct(r)
  BY <1>1, <1>2, <1>3 DEF Distinct
<1>5. Listed(r) = Listed(q) \cup {p}
  BY <1>1, <1>2, <1>3 DEF Listed
<1>6. InOrder(r, b)
  <2> SUFFICES ASSUME NEW i \in 1..Len(r), NEW j \in 1..Len(r), i < j,
                      b[r[i]] # None, b[r[j]] # None
               PROVE  b[r[i]] >= b[r[j]]
    BY DEF InOrder
  <2>1. i \in 1..Len(q) /\ r[i] = q[i] /\ b[r[i]] = a[q[i]]
    BY <1>1, <1>2, <1>3
  <2>2. CASE j = Len(q) + 1
    <3>1. b[r[i]] \in None..PERIOD
      BY <2>1, <1>3
    <3> QED BY <3>1, <2>2, <1>1, ScheduleConstants DEF None
  <2>3. CASE j \in 1..Len(q)
    <3>1. r[j] = q[j] /\ b[r[j]] = a[q[j]]
      BY <2>3, <1>1, <1>3
    <3> QED BY <2>1, <2>3, <3>1 DEF InOrder
  <2> QED BY <2>2, <2>3, <1>2
<1> QED BY <1>1, <1>4, <1>5, <1>6 DEF ListOK, r

-----------------------------------------------------------------------------
(***************************************************************************)
(* The list through every step.                                            *)
(***************************************************************************)
LEMMA ListedIsToSet ==
  ASSUME NEW q \in Seq(Ports)
  PROVE  ToSet(q) = Listed(q) /\ DOMAIN q = 1..Len(q)
BY DEF ToSet, Listed

LEMMA MovedFrontOK ==
  ASSUME ListOK(keys, age), NEW p \in Listed(keys)
  PROVE  ListOK(MovedFront(p), [age EXCEPT ![p] = None]) /\ Listed(MovedFront(p)) = Listed(keys)
<1> DEFINE q == Removed(p)
           b == [age EXCEPT ![p] = None]
<1>1. q \in Seq(Ports) /\ Distinct(q) /\ Listed(q) = Listed(keys) \ {p} /\ InOrder(q, age)
  BY RemovedKeepsOrder
<1>2. p \in Ports /\ age \in [Listed(keys) -> None..PERIOD]
  BY DEF ListOK, Listed
<1>3. /\ b \in [Listed(q) \cup {p} -> None..PERIOD] /\ b[p] = None
      /\ \A x \in Listed(q) : b[x] = age[x]
  BY <1>1, <1>2, ScheduleConstants DEF None
<1> HIDE DEF q, b
<1>4. ListOK(<<p>> \o q, b)
  BY <1>1, <1>2, <1>3, FrontKeepsOrder
<1>5. DOMAIN b = Listed(<<p>> \o q) /\ DOMAIN b = Listed(keys)
  BY <1>1, <1>3, <1>4 DEF ListOK
<1> QED BY <1>4, <1>5 DEF MovedFront, q, b

LEMMA MovedLastOK ==
  ASSUME ListOK(keys, age), NEW p \in Listed(keys)
  PROVE  ListOK(MovedLast(p), [age EXCEPT ![p] = 0]) /\ Listed(MovedLast(p)) = Listed(keys)
<1> DEFINE q == Removed(p)
           b == [age EXCEPT ![p] = 0]
<1>1. q \in Seq(Ports) /\ Distinct(q) /\ Listed(q) = Listed(keys) \ {p} /\ InOrder(q, age)
  BY RemovedKeepsOrder
<1>2. p \in Ports /\ age \in [Listed(keys) -> None..PERIOD]
  BY DEF ListOK, Listed
<1>3. /\ b \in [Listed(q) \cup {p} -> None..PERIOD] /\ b[p] = 0
      /\ \A x \in Listed(q) : b[x] = age[x]
  BY <1>1, <1>2, ScheduleConstants DEF None
<1> HIDE DEF q, b
<1>4. ListOK(Append(q, p), b)
  BY <1>1, <1>2, <1>3, LastKeepsOrder
<1>5. DOMAIN b = Listed(Append(q, p)) /\ DOMAIN b = Listed(keys)
  BY <1>1, <1>3, <1>4 DEF ListOK
<1> QED BY <1>4, <1>5 DEF MovedLast, q, b

LEMMA AddPortOK ==
  ASSUME ListOK(keys, age), NEW p \in Ports, NEW down, add_port(p, down)
  PROVE  ListOK(keys', age')
<1>1. CASE p \in ToSet(keys)
  BY <1>1 DEF add_port
<1>2. CASE p \notin ToSet(keys)
  <2>1. /\ keys \in Seq(Ports) /\ Distinct(keys) /\ InOrder(keys, age)
        /\ age \in [Listed(keys) -> None..PERIOD]
    BY DEF ListOK
  <2>2. keys' = <<p>> \o keys /\ age' = Put(age, p, None) /\ p \notin Listed(keys)
    BY <1>2, <2>1, ListedIsToSet DEF add_port
  <2>3. /\ age' \in [Listed(keys) \cup {p} -> None..PERIOD] /\ age'[p] = None
        /\ \A x \in Listed(keys) : age'[x] = age[x]
    BY <2>1, <2>2, ScheduleConstants DEF Put, None
  <2> DEFINE b == age'
  <2>5. /\ b \in [Listed(keys) \cup {p} -> None..PERIOD] /\ b[p] = None
        /\ \A x \in Listed(keys) : b[x] = age[x]
    BY <2>3
  <2> HIDE DEF b
  <2>6. ListOK(<<p>> \o keys, b)
    BY <2>1, <2>2, <2>5, FrontKeepsOrder
  <2> QED BY <2>2, <2>6 DEF b
<1> QED BY <1>1, <1>2

LEMMA DelPortOK ==
  ASSUME ListOK(keys, age), NEW p \in Ports, del_port(p)
  PROVE  ListOK(keys', age')
<1>1. p \in Listed(keys) /\ keys' = Removed(p) /\ age' = Restrict(age, DOMAIN age \ {p})
  BY ListedIsToSet DEF del_port, ListOK
<1>2. /\ keys' \in Seq(Ports) /\ Distinct(keys') /\ Listed(keys') = Listed(keys) \ {p}
      /\ InOrder(keys', age)
  BY <1>1, RemovedKeepsOrder
<1>3. /\ age' \in [Listed(keys') -> None..PERIOD]
      /\ \A x \in Listed(keys') : age'[x] = age[x]
  BY <1>1, <1>2 DEF ListOK, Restrict
<1>4. \A i \in 1..Len(keys') : keys'[i] \in Listed(keys')
  BY DEF Listed
<1>5. InOrder(keys', age')
  BY <1>2, <1>3, <1>4 DEF InOrder
<1> QED BY <1>2, <1>3, <1>5 DEF ListOK

LEMMA SetDownOK ==
  ASSUME ListOK(keys, age), NEW p \in Ports, NEW down, set_down(p, down)
  PROVE  ListOK(keys', age')
<1>1. p \in Listed(keys) /\ age' = [age EXCEPT ![p] = None]
  BY ListedIsToSet DEF set_down, ListOK
<1>2. CASE down
  <2>1. keys' = keys
    BY <1>2 DEF set_down
  <2>2. age' \in [Listed(keys) -> None..PERIOD] /\ age'[p] = None
        /\ \A x \in Listed(keys) : x # p => age'[x] = age[x]
    BY <1>1, ScheduleConstants DEF ListOK, None
  <2>3. \A i \in 1..Len(keys) : keys[i] \in Listed(keys)
    BY DEF Listed
  <2>4. InOrder(keys, age')
    BY <2>2, <2>3 DEF InOrder, ListOK
  <2> QED BY <2>1, <2>2, <2>4 DEF ListOK
<1>3. CASE ~down
  <2>1. keys' = MovedFront(p)
    BY <1>3 DEF set_down
  <2>2. ListOK(MovedFront(p), [age EXCEPT ![p] = None])
    BY <1>1, MovedFrontOK
  <2> QED BY <2>1, <2>2, <1>1
<1> QED BY <1>2, <1>3

LEMMA MoveFrontOK ==
  ASSUME ListOK(keys, age), NEW p \in Ports, move_front(p)
  PROVE  ListOK(keys', age')
BY MovedFrontOK, ListedIsToSet DEF move_front, ListOK

LEMMA SendOK ==
  ASSUME ListOK(keys, age), Send
  PROVE  ListOK(keys', age')
<1>1. ASSUME NEW p, Serve(p) PROVE ListOK(keys', age')
  <2>1. CASE p \in ToSet(keys)
    <3>1. p \in Listed(keys) /\ age' = [age EXCEPT ![p] = 0] /\ keys' = MovedLast(p)
      BY <1>1, <2>1, ListedIsToSet DEF Serve, lldp_sent, ListOK
    <3> QED BY <3>1, MovedLastOK
  <2>2. CASE p \notin ToSet(keys)
    BY <1>1, <2>2 DEF Serve
  <2> QED BY <2>1, <2>2
<1> QED BY <1>1 DEF Send

(***************************************************************************)
(* A port that is due does not get older, and the others all by the same.  *)
(***************************************************************************)
LEMMA TickOK ==
  ASSUME ListOK(keys, age), Tick
  PROVE  ListOK(keys', age')
<1>1. keys' = keys /\ age' = [p \in DOMAIN age |-> IF Due(p) THEN age[p] ELSE age[p] + 1]
  BY DEF Tick
<1>2. age \in [Listed(keys) -> None..PERIOD] /\ PERIOD \in Nat /\ DOMAIN age = Listed(keys)
  BY ScheduleConstants DEF ListOK
<1>3. ASSUME NEW x \in Listed(keys)
      PROVE  /\ age[x] \in None..PERIOD /\ age'[x] \in None..PERIOD
             /\ (age[x] = None /\ age'[x] = None) \/ (age[x] = PERIOD /\ age'[x] = PERIOD)
                  \/ (age[x] < PERIOD /\ age[x] # None /\ age'[x] = age[x] + 1)
  BY <1>1, <1>2 DEF Due, None
<1>4. age' \in [Listed(keys) -> None..PERIOD]
  BY <1>1, <1>2, <1>3
<1>5. \A i \in 1..Len(keys) : keys[i] \in Listed(keys)
  BY DEF Listed
<1>6. InOrder(keys, age')
  <2> SUFFICES ASSUME NEW i \in 1..Len(keys), NEW j \in 1..Len(keys), i < j,
                      age'[keys[i]] # None, age'[keys[j]] # None
               PROVE  age'[keys[i]] >= age'[keys[j]]
    BY DEF InOrder
  <2> DEFINE x == keys[i]
             y == keys[j]
  <2>1. x \in Listed(keys) /\ y \in Listed(keys)
    BY <1>5
  <2>2. age[x] # None /\ age[y] # None
    BY <2>1, <1>3, <1>2 DEF None
  <2>3. age[x] >= age[y]
    BY <2>2 DEF InOrder, ListOK
  <2> QED BY <2>1, <2>2, <2>3, <1>2, <1>3 DEF None
<1> QED BY <1>1, <1>4, <1>6 DEF ListOK

LEMMA ListStep ==
  ASSUME ListOK(keys, age), [LldpNext]_lldp_vars
  PROVE  ListOK(keys', age')
<1>1. CASE UNCHANGED <<keys, age>>
  BY <1>1
<1>2. CASE Send
  BY <1>2, SendOK
<1>3. CASE Tick
  BY <1>3, TickOK
<1>4. ASSUME NEW p \in Ports, del_port(p) \/ move_front(p) PROVE ListOK(keys', age')
  BY <1>4, DelPortOK, MoveFrontOK
<1>5. ASSUME NEW p \in Ports, NEW down \in BOOLEAN, add_port(p, down) \/ set_down(p, down)
      PROVE  ListOK(keys', age')
  BY <1>5, AddPortOK, SetDownOK
<1>6. Collect \/ WakeUp \/ WaitEnds => UNCHANGED <<keys, age>>
  BY DEF Collect, WakeUp, WaitEnds, data
<1>7. UNCHANGED lldp_vars => UNCHANGED <<keys, age>>
  BY DEF lldp_vars, data
<1> QED BY <1>1, <1>2, <1>3, <1>4, <1>5, <1>6, <1>7 DEF LldpNext, lldp_loop

LEMMA ListAlways == LldpSpec => []ListOK(keys, age)
<1>1. LldpInit => ListOK(keys, age)
  BY ScheduleConstants DEF LldpInit, ListOK, Distinct, Listed, InOrder
<1>2. ListOK(keys, age) /\ [LldpNext]_lldp_vars => ListOK(keys, age)'
  BY ListStep
<1> QED BY <1>1, <1>2, PTL DEF LldpSpec

(***************************************************************************)
(* lldp_loop may stop at the first port that is not due.                   *)
(***************************************************************************)
THEOREM PortsServedInOrder == LldpSpec => []ServedInOrder
<1>1. ListOK(keys, age) => ServedInOrder
  BY ListedIsToSet DEF ListOK, InOrder, ServedInOrder
<1> QED BY <1>1, ListAlways, PTL

(***************************************************************************)
(* The types.  The timeout is what the first port that is not due has left *)
(* of its period.                                                          *)
(***************************************************************************)
LEMMA BreakBounds ==
  ASSUME ListOK(keys, age)
  PROVE  /\ UpToBreak \in 0..Len(keys)
         /\ UpToBreak # Len(keys) =>
              UpToBreak + 1 \in 1..Len(keys) /\ ~Due(keys[UpToBreak + 1])
<1> DEFINE late == {i \in DOMAIN keys : ~Due(keys[i])}
<1>1. Len(keys) \in Nat /\ DOMAIN keys = 1..Len(keys)
  BY ListedIsToSet DEF ListOK
<1>2. CASE late = {}
  BY <1>1, <1>2 DEF UpToBreak
<1>3. CASE late # {}
  <2>1. UpToBreak = Min(late) - 1
    BY <1>3 DEF UpToBreak
  <2>2. late \in SUBSET Nat /\ late \subseteq 1..Len(keys) /\ \A i \in late : ~Due(keys[i])
    BY <1>1
  <2> HIDE DEF late
  <2>3. PICK m \in late : \A i \in late : m <= i
    BY <2>2, <1>3, SmallestExists
  <2>4. Min(late) = m
    <3>1. Min(late) \in late /\ \A i \in late : Min(late) <= i
      BY <2>2, <2>3 DEF Min
    <3>2. Min(late) \in Nat /\ m \in Nat /\ Min(late) <= m /\ m <= Min(late)
      BY <3>1, <2>2, <2>3
    <3> QED BY <3>2
  <2> QED BY <2>1, <2>2, <2>3, <2>4, <1>1
<1> QED BY <1>2, <1>3

LEMMA LldpTypes ==
  ASSUME LldpTypeOK, ListOK(keys, age), ListOK(keys, age)', [LldpNext]_lldp_vars
  PROVE  LldpTypeOK'
<1> USE ScheduleConstants
<1>1. /\ keys \in Seq(Ports) /\ ToSet(keys) = Listed(keys)
      /\ keys' \in Seq(Ports) /\ ToSet(keys') = Listed(keys')
      /\ IsInjective(keys') /\ age' \in [ToSet(keys') -> None..PERIOD]
  BY ListedIsToSet DEF ListOK, Distinct, IsInjective
<1>2. UNCHANGED <<keys, is_down>> => is_down' \in [ToSet(keys') -> BOOLEAN]
  BY DEF LldpTypeOK
<1>3. ASSUME NEW p, p \in ToSet(keys)
      PROVE  ToSet(MovedFront(p)) = ToSet(keys) /\ ToSet(MovedLast(p)) = ToSet(keys)
  <2>1. /\ MovedFront(p) \in Seq(Ports) /\ Listed(MovedFront(p)) = Listed(keys)
        /\ MovedLast(p) \in Seq(Ports) /\ Listed(MovedLast(p)) = Listed(keys)
    BY <1>1, <1>3, MovedFrontOK, MovedLastOK DEF ListOK
  <2> QED BY <2>1, <1>1, ListedIsToSet
<1>4. CASE UNCHANGED lldp_vars
  BY <1>1, <1>2, <1>4 DEF LldpTypeOK, lldp_vars, data
<1>5. CASE Collect
  <2>1. timeout' \in None..PERIOD
    <3>1. CASE UpToBreak = Len(keys)
      BY <1>5, <3>1 DEF Collect, None
    <3>2. CASE UpToBreak # Len(keys)
      <4> DEFINE x == keys[UpToBreak + 1]
      <4>1. x \in Listed(keys) /\ ~Due(x)
        BY <3>2, BreakBounds DEF Listed
      <4>2. age[x] \in None..PERIOD /\ age[x] # None /\ ~(age[x] >= PERIOD)
        BY <4>1 DEF Due, ListOK
      <4>3. timeout' = 0 \/ timeout' = PERIOD - age[x]
        BY <1>5, <3>2 DEF Collect
      <4> QED BY <4>2, <4>3 DEF None
    <3> QED BY <3>1, <3>2
  <2> QED BY <2>1, <1>1, <1>2, <1>5 DEF LldpTypeOK, Collect, data
<1>6. CASE Send
  <2>1. \A p : Serve(p) => ToSet(keys') = ToSet(keys)
    BY <1>3 DEF Serve, lldp_sent
  <2>2. ToSet(keys') = ToSet(keys)
    BY <1>6, <2>1 DEF Send
  <2> QED BY <1>1, <1>6, <2>2 DEF LldpTypeOK, Send
<1>7. CASE WakeUp \/ WaitEnds
  BY <1>1, <1>2, <1>7 DEF LldpTypeOK, WakeUp, WaitEnds, data
<1>8. CASE Tick
  <2>1. timeout' \in None..PERIOD
    BY <1>8 DEF LldpTypeOK, Tick, None
  <2> QED BY <2>1, <1>1, <1>2, <1>8 DEF LldpTypeOK, Tick
<1>9. ASSUME Handler
      PROVE  /\ step' \in {"collect", "send", "sleep", "wait"} /\ timeout' \in None..PERIOD
             /\ lldp_event' \in BOOLEAN /\ changes' \in 0..MaxChanges
  BY <1>9 DEF LldpTypeOK, Handler
<1>10. ASSUME NEW p \in Ports, del_port(p) PROVE LldpTypeOK'
  <2>1. Handler /\ p \in ToSet(keys) /\ keys' = Removed(p)
    BY <1>10 DEF del_port
  <2>2. Listed(keys') = Listed(keys) \ {p}
    BY <2>1, <1>1, RemovedKeepsOrder
  <2>3. is_down' \in [ToSet(keys') -> BOOLEAN]
    BY <1>10, <2>2, <1>1 DEF del_port, Restrict, LldpTypeOK
  <2> QED BY <2>1, <2>3, <1>1, <1>9 DEF LldpTypeOK
<1>11. ASSUME NEW p \in Ports, move_front(p) PROVE LldpTypeOK'
  <2>1. Handler /\ ToSet(keys') = ToSet(keys) /\ is_down' = is_down
    BY <1>11, <1>3 DEF move_front
  <2> QED BY <2>1, <1>1, <1>9 DEF LldpTypeOK
<1>12. ASSUME NEW p \in Ports, NEW down \in BOOLEAN, add_port(p, down) PROVE LldpTypeOK'
  <2>1. Handler /\ is_down' = Put(is_down, p, down)
    BY <1>12 DEF add_port
  <2>2. ToSet(keys') = ToSet(keys) \cup {p}
    <3>1. CASE p \in ToSet(keys)
      BY <1>12, <3>1 DEF add_port
    <3>2. CASE p \notin ToSet(keys)
      <4>1. age' = Put(age, p, None)
        BY <1>12, <3>2 DEF add_port
      <4>2. DOMAIN age' = DOMAIN age \cup {p}
        BY <4>1 DEF Put
      <4> QED BY <4>2, <1>1 DEF LldpTypeOK
    <3> QED BY <3>1, <3>2
  <2>3. is_down' \in [ToSet(keys') -> BOOLEAN]
    BY <2>1, <2>2 DEF Put, LldpTypeOK
  <2> QED BY <2>1, <2>3, <1>1, <1>9 DEF LldpTypeOK
<1>13. ASSUME NEW p \in Ports, NEW down \in BOOLEAN, set_down(p, down) PROVE LldpTypeOK'
  <2>1. Handler /\ ToSet(keys') = ToSet(keys) /\ is_down' = [is_down EXCEPT ![p] = down]
    BY <1>13, <1>3 DEF set_down
  <2>2. is_down' \in [ToSet(keys') -> BOOLEAN]
    BY <2>1 DEF LldpTypeOK
  <2> QED BY <2>1, <2>2, <1>1, <1>9 DEF LldpTypeOK
<1> QED BY <1>4, <1>5, <1>6, <1>7, <1>8, <1>10, <1>11, <1>12, <1>13 DEF LldpNext, lldp_loop

(***************************************************************************)
(* The variables of the timetable keep their types, however the handlers   *)
(* change the list while lldp_loop sleeps.                                 *)
(***************************************************************************)
THEOREM TimetableTypes == LldpSpec => []LldpTypeOK
<1>1. LldpInit => LldpTypeOK
  <2> SUFFICES ASSUME LldpInit PROVE LldpTypeOK
    OBVIOUS
  <2>1. keys \in Seq(Ports) /\ ToSet(keys) = {} /\ IsInjective(keys)
    BY DEF LldpInit, ToSet, IsInjective
  <2>2. is_down \in [{} -> BOOLEAN] /\ age \in [{} -> None..PERIOD]
    BY DEF LldpInit
  <2>3. timeout \in None..PERIOD /\ changes \in 0..MaxChanges
    BY ScheduleConstants DEF LldpInit, None
  <2> QED BY <2>1, <2>2, <2>3 DEF LldpInit, LldpTypeOK
<1>2. LldpTypeOK /\ ListOK(keys, age) /\ ListOK(keys, age)' /\ [LldpNext]_lldp_vars => LldpTypeOK'
  BY LldpTypes
<1> QED BY <1>1, <1>2, ListAlways, PTL DEF LldpSpec

-----------------------------------------------------------------------------
(***************************************************************************)
(* THE PATH SEARCH, for any set of switches, links and speeds: every path  *)
(* is found once, and the cheapest are kept.                               *)
(***************************************************************************)

(***************************************************************************)
(* The first n numbers.                                                    *)
(***************************************************************************)
LEMMA UpToSize ==
  ASSUME NEW n \in Nat
  PROVE  IsFiniteSet(1..n) /\ Cardinality(1..n) = n
<1>1. IsFiniteSet(1..n) /\ Cardinality(1..n) = IF 1 > n THEN 0 ELSE n - 1 + 1
  <2>1. 1 \in Int /\ n \in Int
    OBVIOUS
  <2> QED BY ONLY <2>1, FS_Interval
<1>2. (IF 1 > n THEN 0 ELSE n - 1 + 1) = n
  OBVIOUS
<1> QED BY <1>1, <1>2

(***************************************************************************)
(* The orders of a finite set.                                             *)
(***************************************************************************)
LEMMA OrdersDo ==
  ASSUME NEW S, IsFiniteSet(S), NEW f \in SetToSeqs(S)
  PROVE  /\ f \in Seq(S) /\ Len(f) = Cardinality(S) /\ Distinct(f)
         /\ Listed(f) = S
<1> DEFINE n == Cardinality(S)
<1>1. n \in Nat
  BY FS_CardinalityType
<1>2. f \in [1..n -> S] /\ \A i, j \in 1..n : i # j => f[i] # f[j]
  BY DEF SetToSeqs
<1>3. f \in Seq(S) /\ Len(f) = n
  BY <1>1, <1>2
<1>4. f \in Injection(1..n, S)
  BY <1>2 DEF Injection, IsInjective
<1>5. Cardinality(1..n) = n
  BY <1>1, UpToSize
<1>6. f \in Surjection(1..n, S)
  BY <1>4, <1>5, FS_Injection
<1>7. Listed(f) = S
  BY <1>2, <1>3, <1>6 DEF Surjection, Listed
<1> QED BY <1>2, <1>3, <1>7 DEF Distinct

(***************************************************************************)
(* A way from src along links that visits no switch twice, one that ends   *)
(* in dst, and one whose last step is recognised as one to dst.            *)
(***************************************************************************)
Walk(p) ==
  /\ p \in Seq(Nodes) /\ Len(p) >= 1 /\ p[1] = src /\ Distinct(p)
  /\ \A i \in 2..Len(p) : p[i] \in adjacency(p[i - 1])
Arrived(p) == Walk(p) /\ p[Len(p)] = dst
Whole(p) == Arrived(p) /\ (Len(p) = 1 \/ p[Len(p) - 1] \in same)

LEMMA SimplePathsArrive == SimplePaths = {p \in Seq(Nodes) : Arrived(p)}
<1> DEFINE N == Cardinality(Nodes)
<1>1. IsFiniteSet(Nodes) /\ N \in Nat
  BY SearchConstants, FS_CardinalityType
<1>2. ASSUME NEW p \in SimplePaths PROVE p \in Seq(Nodes) /\ Arrived(p)
  <2>1. PICK n \in 1..N : p \in [1..n -> Nodes]
    BY DEF SimplePaths
  <2>2. p \in Seq(Nodes) /\ Len(p) = n /\ Len(p) >= 1 /\ DOMAIN p = 1..Len(p)
    BY <1>1, <2>1
  <2>3. /\ p[1] = src /\ Last(p) = dst
        /\ \A i, j \in DOMAIN p : i # j => p[i] # p[j]
        /\ \A i \in 2..Len(p) : p[i] \in adjacency(p[i - 1])
    BY DEF SimplePaths
  <2> QED BY <2>2, <2>3 DEF Arrived, Walk, Distinct, Last
<1>3. ASSUME NEW p \in Seq(Nodes), Arrived(p) PROVE p \in SimplePaths
  <2> DEFINE n == Len(p)
  <2>1. n \in Nat /\ n >= 1 /\ p \in [1..n -> Nodes] /\ DOMAIN p = 1..n
    BY <1>3 DEF Arrived, Walk
  <2>2. p \in Injection(1..n, Nodes)
    BY <1>3, <2>1 DEF Arrived, Walk, Distinct, Injection, IsInjective
  <2>3. Cardinality(1..n) = n
    BY <2>1, UpToSize
  <2>4. n <= N
    BY <2>2, <2>3, <1>1, FS_Injection
  <2>5. n \in 1..N
    BY <2>1, <2>4, <1>1
  <2>6. p \in UNION {[1..m -> Nodes] : m \in 1..N}
    BY <2>1, <2>5
  <2>7. /\ p[1] = src /\ Last(p) = dst
        /\ \A i, j \in DOMAIN p : i # j => p[i] # p[j]
        /\ \A i \in 2..Len(p) : p[i] \in adjacency(p[i - 1])
    BY <1>3, <2>1 DEF Arrived, Walk, Distinct, Last
  <2> QED BY <2>6, <2>7 DEF SimplePaths
<1> QED BY <1>2, <1>3 DEF SimplePaths

LEMMA RecognisedAreWhole == RecognisedPaths = {p \in Seq(Nodes) : Whole(p)}
BY SimplePathsArrive DEF RecognisedPaths, Whole

-----------------------------------------------------------------------------
(***************************************************************************)
(* The search.  Begins(p, q): p is the beginning of q.                     *)
(***************************************************************************)
Begins(p, q) == Len(p) <= Len(q) /\ \A i \in 1..Len(p) : p[i] = q[i]

(***************************************************************************)
(* What is on the stack st are beginnings, those with dst on them of no    *)
(* path (dst was not recognised there); what was found (fs) are paths; no  *)
(* path is missing of which no beginning is on the stack; and nothing on   *)
(* the stack is the beginning of something else there or of a path that    *)
(* was found, so that no path is found twice.                              *)
(***************************************************************************)
Lost(p) == \A q \in Seq(Nodes) : Whole(q) => ~Begins(p, q)
Open(p) == Walk(p) /\ (dst \in Listed(p) => Lost(p))
Waiting(st) ==
  /\ st \in Seq(Seq(Nodes))
  /\ \A i \in 1..Len(st) : Open(st[i])
FoundOK(fs) ==
  /\ fs \in Seq(Seq(Nodes)) /\ Distinct(fs)
  /\ \A i \in 1..Len(fs) : Whole(fs[i])
Complete(st, fs) ==
  \A p \in Seq(Nodes) : Whole(p) => p \in Listed(fs) \/ \E i \in 1..Len(st) : Begins(st[i], p)
Separate(st, fs) ==
  /\ \A i, j \in 1..Len(st) : Begins(st[i], st[j]) => i = j
  /\ \A i \in 1..Len(st), j \in 1..Len(fs) : ~Begins(st[i], fs[j])

Searching(st, fs) == Waiting(st) /\ FoundOK(fs) /\ Complete(st, fs) /\ Separate(st, fs)

SearchInv ==
  /\ src \in Nodes /\ dst \in Nodes
  /\ phase \in {"start", "search", "choose", "done", "failed"}
  /\ phase = "start" => paths = << >>
  /\ phase = "search" => src # dst /\ Searching(stack, paths)
  /\ phase \in {"choose", "done", "failed"} => FoundOK(paths) /\ Complete(<< >>, paths)

LEMMA AppendWalk ==
  ASSUME NEW p \in Seq(Nodes), Walk(p), NEW x \in adjacency(p[Len(p)]) \ Listed(p), x \in Nodes
  PROVE  /\ Append(p, x) \in Seq(Nodes) /\ Walk(Append(p, x))
         /\ Len(Append(p, x)) = Len(p) + 1 /\ Append(p, x)[Len(p) + 1] = x
         /\ \A i \in 1..Len(p) : Append(p, x)[i] = p[i]
         /\ Listed(Append(p, x)) = Listed(p) \cup {x}
<1> DEFINE q == Append(p, x)
<1>1. /\ q \in Seq(Nodes) /\ Len(q) = Len(p) + 1 /\ q[Len(p) + 1] = x
      /\ \A i \in 1..Len(p) : q[i] = p[i]
  OBVIOUS
<1>2. Len(p) \in Nat /\ Len(p) >= 1
  BY DEF Walk
<1> HIDE DEF q
<1>3. \A i \in 1..Len(q) : i \in 1..Len(p) \/ i = Len(p) + 1
  BY <1>1, <1>2
<1>4. Distinct(q)
  BY <1>1, <1>2, <1>3 DEF Distinct, Walk, Listed
<1>5. Listed(q) = Listed(p) \cup {x}
  BY <1>1, <1>2, <1>3 DEF Listed
<1>6. ASSUME NEW i \in 2..Len(q) PROVE q[i] \in adjacency(q[i - 1])
  <2>1. CASE i \in 2..Len(p)
    <3>1. q[i] = p[i] /\ q[i - 1] = p[i - 1] /\ p[i] \in adjacency(p[i - 1])
      BY <2>1, <1>1, <1>2 DEF Walk
    <3> QED BY <3>1
  <2>2. CASE i = Len(p) + 1
    <3>1. i - 1 = Len(p) /\ q[i] = x /\ q[i - 1] = p[Len(p)]
      BY <2>2, <1>1, <1>2
    <3> QED BY <3>1
  <2> QED BY <2>1, <2>2, <1>1, <1>2
<1>7. Walk(q)
  BY <1>1, <1>2, <1>4, <1>6 DEF Walk
<1> QED BY <1>1, <1>5, <1>7 DEF q

(***************************************************************************)
(* Beginnings of, and beginning with, a path and one more switch.          *)
(***************************************************************************)
LEMMA BeginsAppend ==
  ASSUME NEW p \in Seq(Nodes), NEW x \in Nodes, NEW q \in Seq(Nodes)
  PROVE  /\ Begins(Append(p, x), q) <=> (Begins(p, q) /\ Len(p) < Len(q) /\ q[Len(p) + 1] = x)
         /\ Begins(q, Append(p, x)) <=> (Begins(q, p) \/ q = Append(p, x))
<1> DEFINE r == Append(p, x)
<1>1. /\ r \in Seq(Nodes) /\ Len(r) = Len(p) + 1 /\ r[Len(p) + 1] = x
      /\ \A i \in 1..Len(p) : r[i] = p[i]
  OBVIOUS
<1>2. Len(p) \in Nat /\ Len(q) \in Nat
  OBVIOUS
<1> HIDE DEF r
<1>3. \A i \in 1..Len(r) : i \in 1..Len(p) \/ i = Len(p) + 1
  BY <1>1, <1>2
<1>4. Begins(r, q) <=> (Begins(p, q) /\ Len(p) < Len(q) /\ q[Len(p) + 1] = x)
  BY <1>1, <1>2, <1>3 DEF Begins
<1>5. ASSUME Begins(q, r) PROVE Begins(q, p) \/ q = r
  <2>1. CASE Len(q) <= Len(p)
    BY <1>5, <2>1, <1>1, <1>2 DEF Begins
  <2>2. CASE Len(q) = Len(r)
    <3>1. \A i \in 1..Len(q) : q[i] = r[i]
      BY <1>5 DEF Begins
    <3> QED BY <3>1, <2>2, <1>1, SeqEqual
  <2> QED BY <2>1, <2>2, <1>1, <1>2, <1>5 DEF Begins
<1>6. Begins(q, p) => Begins(q, r)
  BY <1>1, <1>2 DEF Begins
<1>7. q = r => Begins(q, r)
  BY <1>1, <1>2 DEF Begins
<1> QED BY <1>4, <1>5, <1>6, <1>7 DEF r

LEMMA BeginsSelf ==
  ASSUME NEW p \in Seq(Nodes), NEW x \in Nodes
  PROVE  Begins(p, Append(p, x)) /\ Begins(p, p)
<1>1. Len(p) \in Nat
  OBVIOUS
<1>2. Begins(p, p)
  BY <1>1 DEF Begins
<1> QED BY <1>2, BeginsAppend

(***************************************************************************)
(* A path that goes on after its beginning does so with a neighbour that   *)
(* is not on it, and ends where dst is.                                    *)
(***************************************************************************)
LEMMA GoesOn ==
  ASSUME NEW p \in Seq(Nodes), Walk(p), dst \notin Listed(p),
         NEW q \in Seq(Nodes), Whole(q), Begins(p, q)
  PROVE  /\ Len(p) < Len(q) /\ q[Len(p) + 1] \in adjacency(p[Len(p)]) \ Listed(p)
         /\ q[Len(p) + 1] = dst => q = Append(p, dst) /\ p[Len(p)] \in same
<1>1. /\ Len(p) \in Nat /\ Len(p) >= 1 /\ Len(q) \in Nat /\ Len(p) <= Len(q)
      /\ \A i \in 1..Len(p) : p[i] = q[i]
  BY DEF Walk, Begins
<1>2. Len(p) # Len(q)
  <2>1. p[Len(p)] \in Listed(p)
    BY <1>1 DEF Listed
  <2> QED BY <2>1, <1>1 DEF Whole, Arrived
<1>3. Len(p) < Len(q) /\ Len(p) + 1 \in 2..Len(q) /\ (Len(p) + 1) - 1 = Len(p)
  BY <1>1, <1>2
<1>4. q[Len(p) + 1] \in adjacency(q[Len(p)])
  BY <1>3 DEF Whole, Arrived, Walk
<1>5. q[Len(p)] = p[Len(p)]
  BY <1>1
<1>6. q[Len(p) + 1] \notin Listed(p)
  <2>1. SUFFICES ASSUME NEW i \in 1..Len(p), q[Len(p) + 1] = p[i] PROVE FALSE
    BY DEF Listed
  <2>2. q[Len(p) + 1] = q[i] /\ i \in 1..Len(q) /\ Len(p) + 1 \in 1..Len(q) /\ i # Len(p) + 1
    BY <2>1, <1>1, <1>3
  <2> QED BY <2>2 DEF Whole, Arrived, Walk, Distinct
<1>7. ASSUME q[Len(p) + 1] = dst PROVE q = Append(p, dst) /\ p[Len(p)] \in same
  <2>1. Len(q) \in 1..Len(q) /\ Len(p) + 1 \in 1..Len(q) /\ q[Len(q)] = dst
    BY <1>1, <1>3 DEF Whole, Arrived
  <2>2. Len(q) = Len(p) + 1
    BY <2>1, <1>7 DEF Whole, Arrived, Walk, Distinct
  <2>3. dst \in Nodes
    BY <2>1
  <2> DEFINE r == Append(p, dst)
  <2>4. /\ r \in Seq(Nodes) /\ Len(r) = Len(p) + 1 /\ r[Len(p) + 1] = dst
        /\ \A i \in 1..Len(p) : r[i] = p[i]
    BY <2>3
  <2> HIDE DEF r
  <2>5. \A i \in 1..Len(q) : q[i] = r[i]
    <3>1. \A i \in 1..Len(q) : i \in 1..Len(p) \/ i = Len(p) + 1
      BY <2>2, <1>1
    <3> QED BY <3>1, <2>4, <1>1, <1>7
  <2>6. p[Len(p)] \in same
    <3>1. Len(q) - 1 = Len(p) /\ Len(q) # 1
      BY <2>2, <1>1
    <3> QED BY <3>1, <1>5 DEF Whole
  <2> QED BY <2>2, <2>4, <2>5, <2>6, SeqEqual DEF r
<1> QED BY <1>3, <1>4, <1>5, <1>6, <1>7

(***************************************************************************)
(* A beginning of no path stays one when it goes on, and a step to dst     *)
(* that is not recognised makes one.                                       *)
(***************************************************************************)
LEMMA LostGoesOn ==
  ASSUME NEW p \in Seq(Nodes), Open(p), NEW x \in Nodes,
         Lost(p) \/ (x = dst /\ p[Len(p)] \notin same)
  PROVE  Lost(Append(p, x))
<1>1. SUFFICES ASSUME NEW q \in Seq(Nodes), Whole(q), Begins(Append(p, x), q) PROVE FALSE
  BY DEF Lost
<1>2. Begins(p, q) /\ Len(p) < Len(q) /\ q[Len(p) + 1] = x
  BY <1>1, BeginsAppend
<1>3. ~Lost(p) /\ dst \notin Listed(p)
  BY <1>1, <1>2 DEF Lost, Open
<1>4. x = dst /\ p[Len(p)] \notin same
  BY <1>3
<1>5. Walk(p)
  BY DEF Open
<1> QED BY <1>1, <1>2, <1>3, <1>4, <1>5, GoesOn

(***************************************************************************)
(* The search goes on: the top of the stack is replaced by its extensions. *)
(* hit: dst is a neighbour of its end, and recognised.                     *)
(***************************************************************************)
Extends(st, fs, path, next, hit, order, st2, fs2) ==
  /\ hit = (dst \in next /\ path[Len(path)] \in same)
  /\ Len(st) > 0 /\ path = st[Len(st)]
  /\ next = adjacency(path[Len(path)]) \ Listed(path)
  /\ order \in Seq(Nodes) /\ Distinct(order) /\ Listed(order) = (IF hit THEN next \ {dst} ELSE next)
  /\ st2 \in Seq(Seq(Nodes)) /\ Len(st2) = (Len(st) - 1) + Len(order)
  /\ \A i \in 1..(Len(st) - 1) : st2[i] = st[i]
  /\ \A i \in 1..Len(order) : st2[(Len(st) - 1) + i] = Append(path, order[i])
  /\ fs2 = IF hit THEN Append(fs, Append(path, dst)) ELSE fs

LEMMA ExploreKeeps ==
  ASSUME NEW st, NEW fs, Searching(st, fs), dst \in Nodes,
         NEW path, NEW next, NEW hit, NEW order, NEW st2, NEW fs2,
         Extends(st, fs, path, next, hit, order, st2, fs2)
  PROVE  Searching(st2, fs2)
<1>0. /\ hit = (dst \in next /\ path[Len(path)] \in same) /\ Len(st) > 0 /\ path = st[Len(st)]
      /\ next = adjacency(path[Len(path)]) \ Listed(path)
      /\ order \in Seq(Nodes) /\ Distinct(order) /\ Listed(order) = (IF hit THEN next \ {dst} ELSE next)
      /\ st2 \in Seq(Seq(Nodes)) /\ Len(st2) = (Len(st) - 1) + Len(order)
  BY DEF Extends
<1> DEFINE k == Len(st) - 1
           m == Len(order)
<1>1. /\ st \in Seq(Seq(Nodes)) /\ Len(st) = k + 1 /\ k \in Nat /\ m \in Nat
      /\ fs \in Seq(Seq(Nodes)) /\ Len(fs) \in Nat
  BY <1>0 DEF Searching, Waiting, FoundOK
<1>2. /\ path \in Seq(Nodes) /\ Open(path) /\ Len(path) \in Nat
      /\ Len(path) >= 1 /\ k + 1 \in 1..Len(st) /\ path = st[k + 1]
  <2>1. k + 1 \in 1..Len(st) /\ path = st[k + 1]
    BY <1>0, <1>1
  <2> HIDE DEF k
  <2>2. Open(path)
    BY <2>1 DEF Searching, Waiting
  <2> QED BY <2>1, <2>2 DEF Open, Walk
<1>3. next \subseteq Nodes
  BY <1>0 DEF adjacency
<1>4. Len(st2) = k + m /\ \A i \in 1..k : st2[i] = st[i]
  BY DEF Extends
<1>5. \A i \in 1..m : st2[k + i] = Append(path, order[i])
  BY DEF Extends
<1>6. \A i \in 1..m : order[i] \in next /\ order[i] \in Nodes /\ (hit => order[i] # dst)
  BY <1>0, <1>3 DEF Listed
<1>7. \A x \in next : (hit /\ x = dst) \/ \E i \in 1..m : order[i] = x
  BY <1>0 DEF Listed
<1>8. \A i, j \in 1..m : order[i] = order[j] => i = j
  BY <1>0 DEF Distinct
<1>9. /\ \A i \in 1..k : i \in 1..Len(st) /\ i # k + 1
      /\ \A i \in 1..k : i \in 1..Len(st2)
      /\ \A i \in 1..m : k + i \in 1..Len(st2)
      /\ \A i \in 1..Len(st2) : i \in 1..k \/ \E a \in 1..m : i = k + a
  <2>1. \A i \in 1..Len(st2) : i \in 1..k \/ (i - k \in 1..m /\ i = k + (i - k))
    BY <1>1, <1>4
  <2> HIDE DEF k, m
  <2>2. \A i \in 1..k : i \in 1..Len(st) /\ i # k + 1 /\ i \in 1..Len(st2)
    BY <1>1, <1>4
  <2>3. \A i \in 1..m : k + i \in 1..Len(st2)
    BY <1>1, <1>4
  <2>4. \A i \in 1..Len(st2) : i \in 1..k \/ \E a \in 1..m : i = k + a
    BY <2>1
  <2> QED BY <2>2, <2>3, <2>4
<1>10. /\ \A i, j \in 1..Len(st) : Begins(st[i], st[j]) => i = j
       /\ \A i \in 1..Len(st), j \in 1..Len(fs) : ~Begins(st[i], fs[j])
  BY DEF Searching, Separate
<1>11. /\ \A i \in 1..Len(st) : st[i] \in Seq(Nodes) /\ Open(st[i])
       /\ \A i \in 1..Len(fs) : fs[i] \in Seq(Nodes) /\ Whole(fs[i])
       /\ Distinct(fs)
  BY <1>1 DEF Searching, Waiting, FoundOK
<1>12. \A p \in Seq(Nodes) : Whole(p) => p \in Listed(fs) \/ \E i \in 1..Len(st) : Begins(st[i], p)
  BY DEF Searching, Complete
<1> DEFINE new == Append(path, dst)
<1>13. /\ hit => fs2 = Append(fs, new)
       /\ ~hit => fs2 = fs
  BY DEF Extends
<1>14. new \in Seq(Nodes)
  BY <1>2
<1>15. /\ fs2 \in Seq(Seq(Nodes)) /\ Len(fs2) \in Nat
       /\ \A j \in 1..Len(fs2) : (j \in 1..Len(fs) /\ fs2[j] = fs[j])
                                 \/ (hit /\ j = Len(fs) + 1 /\ fs2[j] = new)
       /\ \A j \in 1..Len(fs) : j \in 1..Len(fs2) /\ fs2[j] = fs[j]
       /\ hit => Len(fs) + 1 \in 1..Len(fs2) /\ fs2[Len(fs) + 1] = new
  <2> HIDE DEF new
  <2>1. CASE hit
    <3>1. /\ Append(fs, new) \in Seq(Seq(Nodes)) /\ Len(Append(fs, new)) = Len(fs) + 1
          /\ Append(fs, new)[Len(fs) + 1] = new
          /\ \A j \in 1..Len(fs) : Append(fs, new)[j] = fs[j]
      BY <1>1, <1>14
    <3>2. fs2 \in Seq(Seq(Nodes)) /\ Len(fs2) = Len(fs) + 1 /\ fs2[Len(fs) + 1] = new
          /\ \A j \in 1..Len(fs) : fs2[j] = fs[j]
      BY <2>1, <3>1, <1>13
    <3>3. Len(fs2) \in Nat /\ Len(fs) + 1 \in 1..Len(fs2)
      BY <3>2, <1>1
    <3>4. \A j \in 1..Len(fs) : j \in 1..Len(fs2)
      BY <3>2, <1>1
    <3>5. \A j \in 1..Len(fs2) : j \in 1..Len(fs) \/ j = Len(fs) + 1
      BY <3>2, <1>1
    <3> QED BY <2>1, <3>2, <3>3, <3>4, <3>5
  <2>2. CASE ~hit
    BY <2>2, <1>1, <1>13
  <2> QED BY <2>1, <2>2
<1> HIDE DEF k, m
<1>20. Waiting(st2)
  <2>1. SUFFICES ASSUME NEW i \in 1..Len(st2) PROVE Open(st2[i])
    BY <1>0 DEF Waiting
  <2>2. CASE i \in 1..k
    BY <2>2, <1>4, <1>9, <1>11
  <2>3. ASSUME NEW a \in 1..m, i = k + a PROVE Open(st2[i])
    <3> DEFINE x == order[a]
    <3>1. x \in adjacency(path[Len(path)]) \ Listed(path) /\ x \in Nodes /\ x \in next
      BY <1>0, <1>6
    <3>2. st2[i] = Append(path, x) /\ (hit => x # dst)
      BY <2>3, <1>5, <1>6
    <3> HIDE DEF x
    <3>3. Walk(Append(path, x)) /\ Listed(Append(path, x)) = Listed(path) \cup {x}
      <4>1. Walk(path)
        BY <1>2 DEF Open
      <4> QED BY <3>1, <1>2, <4>1, AppendWalk
    <3>4. ASSUME dst \in Listed(Append(path, x)) PROVE Lost(Append(path, x))
      <4>1. Lost(path) \/ x = dst
        BY <3>3, <3>4, <1>2 DEF Open
      <4>2. x = dst => path[Len(path)] \notin same
        BY <3>1, <3>2, <1>0
      <4> QED BY <4>1, <4>2, <3>1, <1>2, LostGoesOn
    <3> QED BY <3>2, <3>3, <3>4 DEF Open
  <2> QED BY <2>2, <2>3, <1>9
<1>21. FoundOK(fs2)
  <2>1. hit => Whole(new)
    <3>1. SUFFICES ASSUME hit PROVE Whole(new)
      OBVIOUS
    <3>2. dst \in adjacency(path[Len(path)]) \ Listed(path) /\ Walk(path) /\ path[Len(path)] \in same
      BY <3>1, <1>0, <1>2 DEF Open
    <3>3. /\ Walk(new) /\ Len(new) = Len(path) + 1 /\ new[Len(path) + 1] = dst
          /\ \A i \in 1..Len(path) : new[i] = path[i]
      BY <3>2, <1>2, AppendWalk
    <3> HIDE DEF new
    <3>4. Len(new) - 1 = Len(path) /\ Len(path) \in 1..Len(path)
      BY <3>3, <1>2
    <3>5. new[Len(new) - 1] \in same
      BY <3>2, <3>3, <3>4
    <3> QED BY <3>3, <3>5 DEF Whole, Arrived
  <2>2. \A j \in 1..Len(fs) : fs[j] # new
    <3>1. Begins(path, new)
      BY <1>2, BeginsSelf
    <3> QED BY <3>1, <1>2, <1>10
  <2> HIDE DEF new
  <2>3. \A j \in 1..Len(fs2) : Whole(fs2[j])
    BY <2>1, <1>11, <1>15
  <2>4. Distinct(fs2)
    <3>1. SUFFICES ASSUME NEW i \in 1..Len(fs2), NEW j \in 1..Len(fs2), fs2[i] = fs2[j]
                   PROVE  i = j
      BY DEF Distinct
    <3>2. \A a, b \in 1..Len(fs) : fs[a] = fs[b] => a = b
      BY <1>11 DEF Distinct
    <3>3. CASE i = Len(fs) + 1 /\ fs2[i] = new
      BY <3>1, <3>3, <2>2, <1>15
    <3>4. CASE i \in 1..Len(fs) /\ fs2[i] = fs[i]
      BY <3>1, <3>2, <3>4, <2>2, <1>15
    <3> QED BY <3>3, <3>4, <1>15
  <2> QED BY <2>3, <2>4, <1>15 DEF FoundOK
<1>22. Complete(st2, fs2)
  <2>1. SUFFICES ASSUME NEW p \in Seq(Nodes), Whole(p), p \notin Listed(fs2)
                 PROVE  \E i \in 1..Len(st2) : Begins(st2[i], p)
    BY DEF Complete
  <2>2. p \notin Listed(fs)
    BY <2>1, <1>15 DEF Listed
  <2>3. PICK i \in 1..Len(st) : Begins(st[i], p)
    BY <2>1, <2>2, <1>12
  <2>4. CASE i \in 1..k
    <3>1. i \in 1..Len(st2) /\ Begins(st2[i], p)
      BY <2>3, <2>4, <1>4, <1>9
    <3> QED BY <3>1
  <2>5. CASE i = k + 1
    <3> DEFINE x == p[Len(path) + 1]
    <3>1. Begins(path, p)
      BY <2>3, <2>5, <1>2
    <3>2. /\ Len(path) < Len(p) /\ x \in adjacency(path[Len(path)]) \ Listed(path)
          /\ x = dst => p = new /\ path[Len(path)] \in same
      <4>1. Walk(path) /\ dst \notin Listed(path)
        BY <2>1, <3>1, <1>2 DEF Open, Lost
      <4> QED BY <2>1, <3>1, <4>1, <1>2, GoesOn
    <3>3. x \in next
      BY <3>2, <1>0
    <3>4. x # dst
      <4>1. SUFFICES ASSUME x = dst PROVE FALSE
        OBVIOUS
      <4>2. p = new /\ hit
        BY <4>1, <3>2, <3>3, <1>0
      <4> HIDE DEF new, x
      <4>3. new \in Listed(fs2)
        BY <4>2, <1>15 DEF Listed
      <4> QED BY <4>2, <4>3, <2>1
    <3> HIDE DEF x
    <3>5. PICK a \in 1..m : order[a] = x
      BY <3>3, <3>4, <1>7
    <3>6. st2[k + a] = Append(path, x) /\ k + a \in 1..Len(st2)
      BY <3>5, <1>5, <1>9
    <3>7. x \in Nodes
      BY <3>3, <1>3
    <3>8. Begins(Append(path, x), p)
      BY <3>1, <3>2, <3>7, <1>2, BeginsAppend DEF x
    <3> QED BY <3>6, <3>8
  <2> QED BY <2>4, <2>5, <1>1
<1>23. Separate(st2, fs2)
  <2>1. \A q \in Seq(Nodes), a \in 1..m :
            /\ Begins(st2[k + a], q) => Begins(path, q) /\ q[Len(path) + 1] = order[a]
            /\ Begins(q, st2[k + a]) => Begins(q, path) \/ Begins(path, q)
    <3>1. SUFFICES ASSUME NEW q \in Seq(Nodes), NEW a \in 1..m
                   PROVE  /\ Begins(st2[k + a], q) => Begins(path, q) /\ q[Len(path) + 1] = order[a]
                          /\ Begins(q, st2[k + a]) => Begins(q, path) \/ Begins(path, q)
      OBVIOUS
    <3> DEFINE x == order[a]
    <3>2. st2[k + a] = Append(path, x) /\ x \in Nodes
      BY <1>5, <1>6
    <3> HIDE DEF x
    <3>3. /\ Begins(Append(path, x), q) => Begins(path, q) /\ q[Len(path) + 1] = x
          /\ Begins(q, Append(path, x)) => Begins(q, path) \/ q = Append(path, x)
      BY <3>2, <1>2, BeginsAppend
    <3>4. Begins(path, Append(path, x))
      BY <3>2, <1>2, BeginsSelf
    <3> QED BY <3>2, <3>3, <3>4 DEF x
  <2>2. ASSUME NEW i \in 1..Len(st2), NEW j \in 1..Len(st2), Begins(st2[i], st2[j])
        PROVE  i = j
    <3>1. CASE i \in 1..k /\ j \in 1..k
      BY <2>2, <3>1, <1>4, <1>9, <1>10
    <3>2. ASSUME i \in 1..k, NEW b \in 1..m, j = k + b PROVE FALSE
      <4>1. st2[i] = st[i] /\ st[i] \in Seq(Nodes) /\ i \in 1..Len(st) /\ i # k + 1
        BY <3>2, <1>4, <1>9, <1>11
      <4>2. Begins(st[i], st2[k + b])
        BY <4>1, <3>2, <2>2
      <4>3. Begins(st[i], path) \/ Begins(path, st[i])
        BY <4>1, <4>2, <2>1
      <4> QED BY <4>1, <4>3, <1>2, <1>10
    <3>3. ASSUME NEW a \in 1..m, i = k + a, j \in 1..k PROVE FALSE
      <4>1. st2[j] = st[j] /\ st[j] \in Seq(Nodes) /\ j \in 1..Len(st) /\ j # k + 1
        BY <3>3, <1>4, <1>9, <1>11
      <4>2. Begins(st2[k + a], st[j])
        BY <4>1, <3>3, <2>2
      <4>3. Begins(path, st[j])
        BY <4>1, <4>2, <2>1
      <4> QED BY <4>1, <4>3, <1>2, <1>10
    <3>4. ASSUME NEW a \in 1..m, i = k + a, NEW b \in 1..m, j = k + b PROVE i = j
      <4>1. st2[k + b] \in Seq(Nodes) /\ order[b] \in Nodes
        <5>1. k + b \in 1..Len(st2)
          BY <1>9
        <5>2. st2[k + b] \in Seq(Nodes)
          BY <5>1, <1>0, ElementOfSeq
        <5> QED BY <5>2, <1>6
      <4>2. st2[k + b][Len(path) + 1] = order[a]
        BY <2>1, <2>2, <3>4, <4>1
      <4>3. st2[k + b] = Append(path, order[b])
        BY <1>5
      <4>4. Append(path, order[b])[Len(path) + 1] = order[b]
        BY <4>1, <1>2
      <4>5. order[a] = order[b]
        BY <4>2, <4>3, <4>4
      <4> QED BY <4>5, <3>4, <1>8
    <3> QED BY <3>1, <3>2, <3>3, <3>4, <1>9
  <2>3. ASSUME NEW i \in 1..Len(st2), NEW j \in 1..Len(fs2), Begins(st2[i], fs2[j])
        PROVE  FALSE
    <3>1. CASE j \in 1..Len(fs) /\ fs2[j] = fs[j]
      <4>1. CASE i \in 1..k
        BY <2>3, <3>1, <4>1, <1>4, <1>9, <1>10
      <4>2. ASSUME NEW a \in 1..m, i = k + a PROVE FALSE
        <5>1. Begins(st2[k + a], fs[j]) /\ fs[j] \in Seq(Nodes)
          BY <2>3, <3>1, <4>2, <1>11
        <5>2. Begins(path, fs[j])
          BY <5>1, <2>1
        <5> QED BY <5>2, <3>1, <1>2, <1>10
      <4> QED BY <4>1, <4>2, <1>9
    <3>2. CASE hit /\ fs2[j] = new
      <4>1. CASE i \in 1..k
        <5>1. st2[i] = st[i] /\ st[i] \in Seq(Nodes) /\ i \in 1..Len(st) /\ i # k + 1
          BY <4>1, <1>4, <1>9, <1>11
        <5>2. Begins(st[i], new)
          BY <5>1, <2>3, <3>2
        <5>3. Begins(st[i], path) \/ st[i] = new
          BY <5>1, <5>2, <1>2, BeginsAppend
        <5>4. Begins(path, new)
          BY <1>2, BeginsSelf
        <5> HIDE DEF new
        <5>5. Begins(st[i], path) \/ Begins(path, st[i])
          BY <5>3, <5>4
        <5> QED BY <5>1, <5>5, <1>2, <1>10
      <4>2. ASSUME NEW a \in 1..m, i = k + a PROVE FALSE
        <5>1. Begins(st2[k + a], new)
          BY <2>3, <3>2, <4>2
        <5>2. new[Len(path) + 1] = order[a]
          BY <5>1, <2>1, <1>14
        <5>3. new[Len(path) + 1] = dst
          BY <1>2
        <5> QED BY <5>2, <5>3, <3>2, <1>6
      <4> QED BY <4>1, <4>2, <1>9
    <3> QED BY <3>1, <3>2, <1>15
  <2> QED BY <2>2, <2>3 DEF Separate
<1> QED BY <1>20, <1>21, <1>22, <1>23 DEF Searching

LEMMA InitSearch == SearchInit => SearchInv
  BY DEF SearchInit, SearchInv

(***************************************************************************)
(* The search begins with src alone; when src is dst there is one path.    *)
(***************************************************************************)
LEMMA BeginsSearch ==
  ASSUME SearchInv, get_paths
  PROVE  SearchInv'
<1> DEFINE one == <<src>>
<1>1. /\ phase = "start" /\ paths = << >> /\ src \in Nodes /\ dst \in Nodes
      /\ src' = src /\ dst' = dst /\ gone' = gone /\ bandwidths' = bandwidths /\ same' = same
  BY DEF get_paths, given, SearchInv
<1>2. one \in Seq(Nodes) /\ Len(one) = 1 /\ one[1] = src /\ Listed(one) = {src}
  BY <1>1 DEF Listed
<1>3. <<one>> \in Seq(Seq(Nodes)) /\ Len(<<one>>) = 1 /\ <<one>>[1] = one
  BY <1>2
<1>4. Walk(one)
  BY <1>2 DEF Walk, Distinct
<1>5. \A p \in Seq(Nodes) : Whole(p) => Begins(one, p)
  BY <1>2 DEF Whole, Arrived, Walk, Begins
<1>6. CASE src = dst
  <2>1. paths' = <<one>> /\ phase' = "choose"
    BY <1>6 DEF get_paths
  <2>2. FoundOK(<<one>>)
    BY <1>2, <1>3, <1>4, <1>6 DEF FoundOK, Distinct, Whole, Arrived
  <2>3. ASSUME NEW p \in Seq(Nodes), Whole(p) PROVE p = one
    <3>1. Len(p) \in Nat /\ Len(p) >= 1 /\ p[1] = p[Len(p)] /\ Distinct(p) /\ p[1] = src
      BY <1>6, <2>3 DEF Whole, Arrived, Walk
    <3>2. Len(p) = 1
      <4>1. 1 \in 1..Len(p) /\ Len(p) \in 1..Len(p)
        BY <3>1
      <4> QED BY <3>1, <4>1 DEF Distinct
    <3>3. \A i \in 1..Len(p) : p[i] = one[i]
      BY <3>1, <3>2, <1>2
    <3> QED BY <3>2, <3>3, <1>2, SeqEqual
  <2>4. Listed(<<one>>) = {one}
    BY <1>3 DEF Listed
  <2>5. Complete(<< >>, <<one>>)
    BY <2>3, <2>4 DEF Complete
  <2>6. FoundOK(paths)' /\ Complete(<< >>, paths)'
    BY <1>1, <2>1, <2>2, <2>5 DEF FoundOK, Complete, Whole, Arrived, Walk, adjacency
  <2> QED BY <1>1, <2>1, <2>6 DEF SearchInv
<1>7. CASE src # dst
  <2>1. stack' = <<one>> /\ paths' = << >> /\ phase' = "search"
    BY <1>1, <1>7 DEF get_paths
  <2>2. Waiting(<<one>>)
    BY <1>2, <1>3, <1>4, <1>7 DEF Waiting, Open
  <2>3. FoundOK(<< >>)
    BY DEF FoundOK, Distinct
  <2>4. Complete(<<one>>, << >>)
    BY <1>3, <1>5 DEF Complete
  <2>5. Separate(<<one>>, << >>)
    BY <1>3 DEF Separate
  <2>6. Searching(stack, paths)'
    BY <1>1, <2>1, <2>2, <2>3, <2>4, <2>5
    DEF Searching, Waiting, Open, Lost, FoundOK, Complete, Separate, Whole, Arrived, Walk, adjacency
  <2> QED BY <1>1, <1>7, <2>1, <2>6 DEF SearchInv
<1> QED BY <1>6, <1>7

LEMMA ExploreStep ==
  ASSUME SearchInv, Explore
  PROVE  SearchInv'
<1> DEFINE path == Last(stack)
           next == adjacency(Last(path)) \ ToSet(path)
           found == next \cap is_dst(Last(path))
           hit == dst \in next /\ path[Len(path)] \in same
           k == Len(stack) - 1
<1>1. /\ phase = "search" /\ stack # << >> /\ phase' = "search" /\ src # dst
      /\ src' = src /\ dst' = dst /\ gone' = gone /\ bandwidths' = bandwidths /\ same' = same
      /\ src \in Nodes /\ dst \in Nodes /\ Searching(stack, paths)
  BY DEF SearchInv, Explore, given
<1>2. PICK order \in SetToSeqs(next \ found) :
         stack' = Front(stack) \o [i \in DOMAIN order |-> Append(path, order[i])]
  BY DEF Explore
<1>a. found = IF hit THEN {dst} ELSE {}
  BY DEF is_dst, Last
<1>3. paths' = IF hit THEN Append(paths, Append(path, dst)) ELSE paths
  BY <1>a DEF Explore
<1>4. /\ stack \in Seq(Seq(Nodes)) /\ Len(stack) \in Nat /\ Len(stack) > 0
      /\ \A i \in 1..Len(stack) : Walk(stack[i])
  BY <1>1 DEF Searching, Waiting, Open
<1>5. path = stack[Len(stack)] /\ path \in Seq(Nodes) /\ Walk(path)
  BY <1>4 DEF Last
<1>6. next = adjacency(path[Len(path)]) \ Listed(path)
  <2>1. ToSet(path) = Listed(path)
    BY <1>5 DEF ToSet, Listed
  <2> QED BY <2>1 DEF Last
<1>7. next \ found \subseteq Nodes /\ IsFiniteSet(next \ found)
  <2>1. next \ found \subseteq Nodes
    BY DEF adjacency
  <2> QED BY <2>1, SearchConstants, FS_Subset
<1> DEFINE S == next \ found
<1>8. order \in Seq(S) /\ Distinct(order) /\ Listed(order) = S
  <2> HIDE DEF S
  <2> QED BY <1>2, <1>7, OrdersDo DEF S
<1>9. order \in Seq(Nodes) /\ Len(order) \in Nat /\ DOMAIN order = 1..Len(order)
  BY <1>7, <1>8
<1> HIDE DEF path, next, S, found, hit
<1> DEFINE more == [i \in DOMAIN order |-> Append(path, order[i])]
           front == Front(stack)
<1>10. /\ front \in Seq(Seq(Nodes)) /\ Len(front) = k
       /\ \A i \in 1..k : front[i] = stack[i]
  <2>1. front = SubSeq(stack, 1, k) /\ k \in Nat /\ Len(stack) = k + 1
    BY <1>4 DEF Front
  <2>2. \A i \in 1..k : i \in 1..Len(stack)
    BY <2>1
  <2> HIDE DEF k, front
  <2>3. \A i \in 1..k : stack[i] \in Seq(Nodes)
    BY <2>2, <1>4
  <2>4. SubSeq(stack, 1, k) = [i \in 1..k |-> stack[i]]
    <3>1. SubSeq(stack, 1, k) = [i \in 1..((k - 1) + 1) |-> stack[(i + 1) - 1]]
      BY <2>1 DEF SubSeq
    <3>2. (k - 1) + 1 = k /\ \A i \in 1..k : (i + 1) - 1 = i
      BY <2>1
    <3> QED BY <3>1, <3>2
  <2> QED BY <2>1, <2>3, <2>4
<1>11. \A i \in 1..Len(order) : Append(path, order[i]) \in Seq(Nodes)
  BY <1>5, <1>9
<1>12. /\ more \in Seq(Seq(Nodes)) /\ Len(more) = Len(order)
       /\ \A i \in 1..Len(order) : more[i] = Append(path, order[i])
  BY <1>9, <1>11
<1>13. stack' = front \o more
  BY <1>2
<1> HIDE DEF more, front
<1> DEFINE st2 == front \o more
<1>14. /\ st2 \in Seq(Seq(Nodes)) /\ Len(st2) = k + Len(order)
       /\ \A i \in 1..k : st2[i] = stack[i]
       /\ \A i \in 1..Len(order) : st2[k + i] = Append(path, order[i])
  <2>1. k \in Nat
    BY <1>4
  <2> HIDE DEF k
  <2>2. /\ st2 \in Seq(Seq(Nodes)) /\ Len(st2) = k + Len(order)
        /\ \A i \in 1..Len(st2) : st2[i] = IF i <= k THEN front[i] ELSE more[i - k]
    <3> DEFINE T == Seq(Nodes)
    <3>1. front \in Seq(T) /\ more \in Seq(T)
      BY <1>10, <1>12
    <3> HIDE DEF T
    <3>2. /\ front \o more \in Seq(T) /\ Len(front \o more) = Len(front) + Len(more)
          /\ \A i \in 1..(Len(front) + Len(more)) :
               (front \o more)[i] = IF i <= Len(front) THEN front[i] ELSE more[i - Len(front)]
      BY <3>1, ConcatProperties
    <3> QED BY <3>2, <1>10, <1>12 DEF T
  <2>3. \A i \in 1..k : st2[i] = front[i]
    BY <2>1, <2>2, <1>9
  <2>4. \A i \in 1..Len(order) : st2[k + i] = more[i]
    <3>1. SUFFICES ASSUME NEW i \in 1..Len(order) PROVE st2[k + i] = more[i]
      OBVIOUS
    <3>2. k + i \in 1..Len(st2) /\ ~(k + i <= k) /\ (k + i) - k = i
      BY <2>1, <2>2, <1>9
    <3> QED BY <3>2, <2>2
  <2> QED BY <2>2, <2>3, <2>4, <1>10, <1>12
<1> DEFINE fs2 == IF hit THEN Append(paths, Append(path, dst)) ELSE paths
<1>15. stack' = st2 /\ paths' = fs2
  BY <1>3, <1>13
<1>16. Listed(order) = (IF hit THEN next \ {dst} ELSE next)
  BY <1>8, <1>a DEF S
<1>b. hit = (dst \in next /\ path[Len(path)] \in same)
  BY DEF hit
<1> HIDE DEF st2, fs2
<1>17. fs2 = IF hit THEN Append(paths, Append(path, dst)) ELSE paths
  BY DEF fs2
<1>18. Searching(st2, fs2)
  <2>1. Extends(stack, paths, path, next, hit, order, st2, fs2)
    BY <1>b, <1>4, <1>5, <1>6, <1>8, <1>9, <1>14, <1>16, <1>17 DEF Extends
  <2> QED BY <2>1, <1>1, ExploreKeeps
<1>19. Searching(stack, paths)'
  BY <1>1, <1>15, <1>18
  DEF Searching, Waiting, Open, Lost, FoundOK, Complete, Separate, Whole, Arrived, Walk, adjacency
<1> QED BY <1>1, <1>19 DEF SearchInv

LEMMA SearchStep ==
  ASSUME SearchInv, [SearchNext]_search_vars
  PROVE  SearchInv'
<1>1. CASE get_paths
  BY <1>1, BeginsSearch
<1>2. CASE Explore
  BY <1>2, ExploreStep
<1>3. CASE Searched
  <2>1. /\ phase = "search" /\ stack = << >> /\ phase' = "choose" /\ paths' = paths
        /\ src' = src /\ dst' = dst /\ gone' = gone /\ bandwidths' = bandwidths /\ same' = same
    BY <1>3 DEF Searched, given
  <2>2. src \in Nodes /\ dst \in Nodes /\ FoundOK(paths) /\ Complete(<< >>, paths)
    BY <2>1 DEF SearchInv, Searching
  <2>3. FoundOK(paths)' /\ Complete(<< >>, paths)'
    BY <2>1, <2>2 DEF FoundOK, Complete, Whole, Arrived, Walk, adjacency
  <2> QED BY <2>1, <2>2, <2>3 DEF SearchInv
<1>4. CASE get_optimal_paths
  <2>1. /\ phase = "choose" /\ phase' \in {"done", "failed"} /\ paths' = paths
        /\ src' = src /\ dst' = dst /\ gone' = gone /\ bandwidths' = bandwidths /\ same' = same
    BY <1>4 DEF get_optimal_paths, given
  <2>2. src \in Nodes /\ dst \in Nodes /\ FoundOK(paths) /\ Complete(<< >>, paths)
    BY <2>1 DEF SearchInv
  <2>3. FoundOK(paths)' /\ Complete(<< >>, paths)'
    BY <2>1, <2>2 DEF FoundOK, Complete, Whole, Arrived, Walk, adjacency
  <2> QED BY <2>1, <2>2, <2>3 DEF SearchInv
<1>5. CASE UNCHANGED search_vars
  BY <1>5 DEF search_vars, given, SearchInv, Searching, Waiting, Open, Lost, FoundOK, Complete, Separate,
     Whole, Arrived, Walk, adjacency
<1> QED BY <1>1, <1>2, <1>3, <1>4, <1>5 DEF SearchNext

(***************************************************************************)
(* A list without repetition has as many entries as it lists.              *)
(***************************************************************************)
LEMMA ListedCount ==
  ASSUME NEW T, NEW q \in Seq(T), Distinct(q)
  PROVE  Cardinality(Listed(q)) = Len(q)
<1>1. Len(q) \in Nat /\ q \in [1..Len(q) -> T]
  OBVIOUS
<1>2. q \in Bijection(1..Len(q), Listed(q))
  <2>1. q \in [1..Len(q) -> Listed(q)]
    BY <1>1 DEF Listed
  <2> QED BY <2>1 DEF Bijection, Injection, Surjection, IsInjective, Distinct, Listed
<1>3. IsFiniteSet(1..Len(q)) /\ Cardinality(1..Len(q)) = Len(q)
  BY <1>1, UpToSize
<1>4. ExistsBijection(1..Len(q), Listed(q))
  BY <1>2 DEF ExistsBijection
<1> QED BY <1>3, <1>4, FS_Bijection

(***************************************************************************)
(* get_paths finds the paths whose last step is recognised, each once, and *)
(* nothing else, whatever the links are and in whatever order the          *)
(* neighbours come.                                                        *)
(***************************************************************************)
THEOREM SearchIsExact == SearchSpec => []PathsFound
<1>1. ASSUME SearchInv PROVE PathsFound
  <2>1. SUFFICES ASSUME phase = "choose"
                 PROVE  /\ ToSet(paths) = RecognisedPaths
                        /\ Len(paths) = Cardinality(RecognisedPaths)
    BY DEF PathsFound
  <2>2. FoundOK(paths) /\ Complete(<< >>, paths)
    BY <1>1, <2>1 DEF SearchInv
  <2>3. ToSet(paths) = Listed(paths)
    BY <2>2 DEF FoundOK, ToSet, Listed
  <2>4. Listed(paths) \subseteq {p \in Seq(Nodes) : Whole(p)}
    BY <2>2 DEF FoundOK, Listed
  <2>5. {p \in Seq(Nodes) : Whole(p)} \subseteq Listed(paths)
    BY <2>2 DEF Complete
  <2>6. Listed(paths) = RecognisedPaths
    BY <2>4, <2>5, RecognisedAreWhole
  <2>7. Cardinality(Listed(paths)) = Len(paths)
    BY <2>2, ListedCount DEF FoundOK
  <2> QED BY <2>3, <2>6, <2>7
<1> QED BY <1>1, InitSearch, SearchStep, PTL DEF SearchSpec

(***************************************************************************)
(* "Get all paths from src to dst using DFS algorithm": when dst is one    *)
(* and the same object in the maps of all its neighbours and in hosts,     *)
(* get_paths finds all of them.  (Otherwise it does not, see PathsFound.)  *)
(***************************************************************************)
THEOREM SearchIsComplete == SearchSpec => [](same = Neighbours => AllPathsFound)
<1>1. ASSUME PathsFound PROVE same = Neighbours => AllPathsFound
  <2>1. SUFFICES ASSUME same = Neighbours PROVE SimplePaths = RecognisedPaths
    BY <1>1 DEF PathsFound, AllPathsFound
  <2>2. ASSUME NEW p \in SimplePaths PROVE Len(p) = 1 \/ p[Len(p) - 1] \in same
    <3>1. p \in Seq(Nodes) /\ Arrived(p)
      BY SimplePathsArrive
    <3>2. SUFFICES ASSUME Len(p) # 1 PROVE p[Len(p) - 1] \in same
      OBVIOUS
    <3>3. Len(p) \in 2..Len(p) /\ Len(p) - 1 \in 1..Len(p)
      <4>1. Len(p) \in Nat /\ Len(p) >= 1
        BY <3>1 DEF Arrived, Walk
      <4>2. \A n \in Nat : n >= 1 /\ n # 1 => n \in 2..n /\ n - 1 \in 1..n
        OBVIOUS
      <4> QED BY <4>1, <4>2, <3>2
    <3>4. p[Len(p) - 1] \in Nodes
      BY <3>1, <3>3, ElementOfSeq
    <3>5. dst \in adjacency(p[Len(p) - 1])
      BY <3>1, <3>3 DEF Arrived, Walk
    <3> QED BY <2>1, <3>4, <3>5 DEF Neighbours
  <2> QED BY <2>2 DEF RecognisedPaths
<1> QED BY <1>1, SearchIsExact, PTL

-----------------------------------------------------------------------------
(***************************************************************************)
(* The choice.  What get_optimal_paths keeps, as long as it is there.      *)
(***************************************************************************)
LEMMA MinOfTwo ==
  ASSUME NEW a \in Nat, NEW b \in Nat
  PROVE  Min({a, b}) \in {a, b} /\ Min({a, b}) <= a /\ Min({a, b}) <= b
<1>1. \E x \in {a, b} : \A y \in {a, b} : x <= y
  <2>1. CASE a <= b
    BY <2>1
  <2>2. CASE b <= a
    BY <2>2
  <2> QED BY <2>1, <2>2
<1>2. Min({a, b}) \in {a, b} /\ \A y \in {a, b} : Min({a, b}) <= y
  BY <1>1, Zenon DEF Min
<1> QED BY <1>2

LEMMA ChosenAre ==
  ASSUME SearchInv, get_optimal_paths, ~KeyError
  PROVE  /\ \A p \in ToSet(chosen'), q \in ToSet(paths) \ ToSet(chosen') :
               get_path_cost(p) <= get_path_cost(q)
         /\ Len(chosen') = Min({MAX_PATHS, Len(paths)})
         /\ ToSet(chosen') \subseteq ToSet(paths)
<1>1. phase = "choose" /\ FoundOK(paths)
  BY DEF SearchInv, get_optimal_paths
<1> DEFINE n == Len(paths)
           m == Min({n, MAX_PATHS})
<1>2. /\ paths \in Seq(Seq(Nodes)) /\ n \in Nat /\ DOMAIN paths = 1..n
      /\ MAX_PATHS \in Nat
  BY <1>1, SearchConstants DEF FoundOK
<1>3. m \in Nat /\ m <= n /\ (m = n \/ m = MAX_PATHS)
  BY <1>2, MinOfTwo
<1>4. m = Min({MAX_PATHS, n})
  <2>1. {n, MAX_PATHS} = {MAX_PATHS, n}
    OBVIOUS
  <2> QED BY <2>1
<1>5. PICK order \in SetToSeqs(DOMAIN paths) :
         ByCost(order) /\ chosen' = [i \in 1..m |-> paths[order[i]]]
  BY DEF get_optimal_paths
<1>6. IsFiniteSet(1..n) /\ Cardinality(1..n) = n
  BY <1>2, UpToSize
<1>7. order \in Seq(1..n) /\ Len(order) = n /\ Listed(order) = 1..n
  BY <1>2, <1>5, <1>6, OrdersDo
<1>a. m \in Nat /\ n \in Nat /\ m <= n
  BY <1>2, <1>3
<1> HIDE DEF m, n
<1>b. \A i \in 1..m : i \in 1..n
  BY <1>a
<1>8. DOMAIN order = 1..n /\ \A i \in 1..n : order[i] \in 1..n
  BY <1>7
<1>9. chosen' \in Seq(Seq(Nodes)) /\ Len(chosen') = m /\ DOMAIN chosen' = 1..m
  <2>1. \A i \in 1..m : paths[order[i]] \in Seq(Nodes)
    <3>1. \A i \in 1..m : order[i] \in 1..n
      BY <1>8, <1>b
    <3>2. \A i \in 1..n : paths[i] \in Seq(Nodes)
      BY <1>2 DEF n
    <3> QED BY <3>1, <3>2
  <2> QED BY <1>3, <1>5, <2>1
<1>10. \A p : p \in ToSet(chosen') <=> \E i \in 1..m : p = paths[order[i]]
  BY <1>5, <1>9 DEF ToSet
<1>11. \A p : p \in ToSet(paths) <=> \E i \in 1..n : p = paths[i]
  BY <1>2 DEF ToSet
<1>12. ToSet(chosen') \subseteq ToSet(paths)
  <2>1. SUFFICES ASSUME NEW i \in 1..m PROVE paths[order[i]] \in ToSet(paths)
    BY <1>10
  <2>2. order[i] \in 1..n
    BY <1>8, <1>b
  <2> QED BY <2>2, <1>11
<1>13. ASSUME NEW p \in ToSet(chosen'), NEW q \in ToSet(paths) \ ToSet(chosen')
       PROVE  get_path_cost(p) <= get_path_cost(q)
  <2>1. PICK i \in 1..m : p = paths[order[i]]
    BY <1>10
  <2>2. PICK a \in 1..n : q = paths[a]
    BY <1>11
  <2>3. PICK j \in 1..n : order[j] = a
    BY <1>7 DEF Listed
  <2>4. j \notin 1..m
    BY <2>2, <2>3, <1>10
  <2>5. i \in 1..n /\ i < j
    BY <2>4, <1>a
  <2> DEFINE cost == [k \in DOMAIN paths |-> get_path_cost(paths[k])]
  <2>6. cost[order[i]] <= cost[order[j]]
    BY <2>5, <1>5, <1>8 DEF ByCost
  <2>7. order[i] \in DOMAIN paths /\ order[j] \in DOMAIN paths
    BY <2>5, <1>2, <1>8
  <2>8. cost[order[i]] = get_path_cost(p) /\ cost[order[j]] = get_path_cost(q)
    BY <2>1, <2>2, <2>3, <2>7
  <2> QED BY <2>6, <2>8
<1> QED BY <1>4, <1>9, <1>12, <1>13 DEF m, n

(***************************************************************************)
(* A path that get_link_cost did not stop at leads to no switch that left: *)
(* the first has a neighbour, the others were looked up.                   *)
(***************************************************************************)
LEMMA NobodyLeft ==
  ASSUME FoundOK(paths), src # dst, ~KeyError, NEW p \in ToSet(paths)
  PROVE  ToSet(p) \cap gone = {}
<1>1. PICK k \in 1..Len(paths) : p = paths[k]
  <2>1. DOMAIN paths = 1..Len(paths)
    BY DEF FoundOK
  <2> QED BY <2>1, Zenon DEF ToSet
<1>2. p \in Seq(Nodes) /\ Whole(p) /\ k \in DOMAIN paths
  BY <1>1 DEF FoundOK, Whole, Arrived, Walk
<1>3. Len(p) \in Nat /\ Len(p) >= 2
  BY <1>2 DEF Whole, Arrived, Walk
<1>4. p[1] \notin gone
  <2>1. 2 \in 2..Len(p) /\ 2 - 1 = 1
    BY <1>3
  <2>2. p[2] \in adjacency(p[2 - 1])
    BY <2>1, <1>2 DEF Whole, Arrived, Walk
  <2> QED BY <2>1, <2>2 DEF adjacency
<1>5. \A j \in 2..Len(p) : p[j] \notin gone
  BY <1>1, <1>2 DEF KeyError
<1>6. \A j \in 1..Len(p) : j = 1 \/ j \in 2..Len(p)
  BY <1>3
<1>7. \A j \in 1..Len(p) : p[j] \notin gone
  BY <1>4, <1>5, <1>6
<1> QED BY <1>2, <1>7 DEF ToSet

ChosenInv == SearchInv /\ CheapestChosen

LEMMA ChoiceStep ==
  ASSUME ChosenInv, [SearchNext]_search_vars
  PROVE  ChosenInv'
<1>1. SearchInv'
  BY SearchStep DEF ChosenInv
<1>2. SUFFICES CheapestChosen'
  BY <1>1 DEF ChosenInv
<1>3. CASE get_optimal_paths /\ ~KeyError
  <2>1. /\ bandwidths' = bandwidths /\ same' = same /\ gone' = gone /\ paths' = paths
        /\ src' = src /\ dst' = dst
    BY <1>3 DEF get_optimal_paths, given
  <2>2. \A p : get_path_cost(p)' = get_path_cost(p)
    BY <2>1 DEF get_path_cost
  <2>3. FoundOK(paths)
    BY <1>3 DEF ChosenInv, SearchInv, get_optimal_paths
  <2>4. /\ \A p \in ToSet(chosen'), q \in ToSet(paths) \ ToSet(chosen') :
              get_path_cost(p) <= get_path_cost(q)
        /\ Len(chosen') = Min({MAX_PATHS, Len(paths)})
        /\ ToSet(chosen') \subseteq ToSet(paths)
    BY <1>3, ChosenAre DEF ChosenInv
  <2>5. src # dst => \A p \in ToSet(chosen') : ToSet(p) \cap gone = {}
    BY <1>3, <2>3, <2>4, NobodyLeft
  <2> QED BY <2>1, <2>2, <2>4, <2>5 DEF CheapestChosen
<1>4. CASE phase' # "done"
  BY <1>4 DEF CheapestChosen
<1>5. CASE UNCHANGED search_vars
  <2>1. /\ bandwidths' = bandwidths /\ same' = same /\ gone' = gone /\ paths' = paths /\ chosen' = chosen
        /\ src' = src /\ dst' = dst /\ phase' = phase
    BY <1>5 DEF search_vars, given
  <2>2. \A p : get_path_cost(p)' = get_path_cost(p)
    BY <2>1 DEF get_path_cost
  <2> QED BY <2>1, <2>2 DEF ChosenInv, CheapestChosen
<1>6. ASSUME phase' = "done" PROVE (get_optimal_paths /\ ~KeyError) \/ UNCHANGED search_vars
  BY <1>6 DEF SearchNext, get_paths, Explore, Searched, get_optimal_paths
<1> QED BY <1>3, <1>4, <1>5, <1>6

(***************************************************************************)
(* get_optimal_paths keeps the cheapest paths, as many as MAX_PATHS allows,*)
(* and none of them leads to a switch that left.                           *)
(***************************************************************************)
THEOREM CheapestAreChosen == SearchSpec => []CheapestChosen
<1>1. SearchInit => ChosenInv
  BY InitSearch DEF ChosenInv, SearchInit, CheapestChosen
<1>2. ChosenInv => CheapestChosen
  BY DEF ChosenInv
<1> QED BY <1>1, <1>2, ChoiceStep, PTL DEF SearchSpec
=============================================================================
