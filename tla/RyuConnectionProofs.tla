------------------------ MODULE RyuConnectionProofs -------------------------
(***************************************************************************)
(* Three results about the connection of a switch, for every size of the   *)
(* queues, every setup and every interleaving of the threads: the permits  *)
(* of the sending queue are never lost, a dead connection stays dead, and  *)
(* without an echo thread the end of a connection is announced.            *)
(*                                                                         *)
(* They rest on the shape of the programs: the few sequences of calls each *)
(* thread can have before it.                                              *)
(***************************************************************************)
EXTENDS RyuConnection, SequenceTheorems, TLAPS

(***************************************************************************)
(* What the switch sends, and what the queues of the applications hold.    *)
(***************************************************************************)
Up == {"hello", "bad_hello", "features", "port_desc_more", "port_desc", "echo_reply",
       "packet_in", "echo_request"}
Told == {"MAIN", "DEAD"}
EventNames == Up \cup Told \cup {"topology", "new"}

(***************************************************************************)
(* The programs.  TellMain and TellDead are the ones that announce a state.*)
(***************************************************************************)
TellMain == <<<<"event", "switches", "MAIN">>>>
TellDead == <<<<"event", "switches", "DEAD">>, <<"shut">>>>
Topology == <<<<"event", "multipath", "topology">>>>
Sends == {<<<<"send", m>>>> : m \in Messages}
SendAlls == {<<<<"sendall", m>>>> : m \in Messages}
Closing == {<< >>, <<<<"shut">>>>, TellDead}
Handling ==
       {<<<<"handle", m>>>> : m \in Up}
  \cup {<<<<"event", "multipath", m>>, <<"handle", m>>>> : m \in Up}
  \cup {<<<<"event", "switches", m>>, <<"event", "multipath", m>>, <<"handle", m>>>> : m \in Up}
Receiving == {<< >>, TellMain} \cup Sends \cup Handling
Programs == Closing \cup Receiving \cup SendAlls \cup {Topology}

ProgramOf(t) ==
  CASE t = "serve" -> IF pc["serve"] = "recv" THEN Receiving ELSE Closing
    [] t = "send" -> {<< >>} \cup SendAlls
    [] t = "echo" -> Closing \cup Sends
    [] t = "switches" -> Closing \cup {Topology}
    [] t = "multipath" -> {<< >>} \cup Sends

ProgShapes ==
  /\ pc \in [Threads -> {"recv", "kill", "close", "get", "sendall", "top", "sleep", "done"}]
  /\ prog \in [Threads -> Programs]
  /\ \A t \in Threads : prog[t] \in ProgramOf(t)
  /\ pc["serve"] \in {"recv", "kill", "close", "done"}
  /\ pc["serve"] \in {"kill", "close"} => prog["serve"] = << >>
  /\ pc["send"] = "sendall" => prog["send"] # << >>

QueueShapes ==
  /\ inbox \in Seq(Up) /\ asked \in Seq(Requests)
  /\ send_q \in Seq(Messages) /\ sem \in Int
  /\ events \in [Apps -> Seq(EventNames)] /\ told \in Seq(Told)
  /\ state \in States /\ open \in BOOLEAN /\ registered \in BOOLEAN

Shapes == ProgShapes /\ QueueShapes

-----------------------------------------------------------------------------
LEMMA Tuples ==
  /\ \A a : Head(<<a>>) = a /\ Tail(<<a>>) = << >> /\ <<a>> # << >>
  /\ \A a, b : Head(<<a, b>>) = a /\ Tail(<<a, b>>) = <<b>> /\ <<a, b>> # << >>
  /\ \A a, b, c : Head(<<a, b, c>>) = a /\ Tail(<<a, b, c>>) = <<b, c>> /\ <<a, b, c>> # << >>
OBVIOUS

(***************************************************************************)
(* A program goes on as one of the same kind.                              *)
(***************************************************************************)
LEMMA Concats ==
  ASSUME NEW a, NEW b, NEW c
  PROVE  /\ << >> \o <<a>> = <<a>> /\ <<a>> \o << >> = <<a>>
         /\ <<a>> \o <<b>> = <<a, b>> /\ <<a, b>> \o <<c>> = <<a, b, c>>
<1> DEFINE S == {a, b, c}
           s == <<a>>
           t == <<b>>
           u == <<a, b>>
           w == <<c>>
           x == <<a, b, c>>
<1>1. << >> \o <<a>> = <<a>> /\ <<a>> \o << >> = <<a>>
  OBVIOUS
<1>2. /\ s \in Seq(S) /\ t \in Seq(S) /\ u \in Seq(S) /\ w \in Seq(S) /\ x \in Seq(S)
      /\ Len(s) = 1 /\ Len(t) = 1 /\ Len(u) = 2 /\ Len(w) = 1 /\ Len(x) = 3
  OBVIOUS
<1>3. /\ s[1] = a /\ t[1] = b /\ u[1] = a /\ u[2] = b /\ w[1] = c
      /\ x[1] = a /\ x[2] = b /\ x[3] = c
  OBVIOUS
<1>4. \A i \in 1..2 : i = 1 \/ i = 2
  OBVIOUS
<1>5. \A i \in 1..3 : i = 1 \/ i = 2 \/ i = 3
  OBVIOUS
<1> HIDE DEF S, s, t, u, w, x
<1>6. s \o t = u
  <2>0. /\ s \o t \in Seq(S) /\ Len(s \o t) = Len(s) + Len(t)
        /\ \A i \in 1 .. Len(s) + Len(t) :
             (s \o t)[i] = IF i <= Len(s) THEN s[i] ELSE t[i - Len(s)]
    BY <1>2, ConcatProperties, Zenon
  <2>1. /\ s \o t \in Seq(S) /\ Len(s \o t) = 2 /\ (s \o t)[1] = a /\ (s \o t)[2] = b
    BY <1>2, <1>3, <2>0
  <2>2. \A i \in 1..2 : (s \o t)[i] = u[i]
    BY <1>3, <1>4, <2>1
  <2> QED BY <1>2, <2>1, <2>2, SeqEqual
<1>7. u \o w = x
  <2>0. /\ u \o w \in Seq(S) /\ Len(u \o w) = Len(u) + Len(w)
        /\ \A i \in 1 .. Len(u) + Len(w) :
             (u \o w)[i] = IF i <= Len(u) THEN u[i] ELSE w[i - Len(u)]
    BY <1>2, ConcatProperties, Zenon
  <2>1. /\ u \o w \in Seq(S) /\ Len(u \o w) = 3
        /\ (u \o w)[1] = a /\ (u \o w)[2] = b /\ (u \o w)[3] = c
    BY <1>2, <1>3, <2>0
  <2>2. \A i \in 1..3 : (u \o w)[i] = x[i]
    BY <1>3, <1>5, <2>1
  <2> QED BY <1>2, <2>1, <2>2, SeqEqual
<1> QED BY <1>1, <1>6, <1>7 DEF s, t, u, w, x

LEMMA Announcements ==
  /\ TellMain # << >> /\ Tail(TellMain) = << >> /\ Head(TellMain) = <<"event", "switches", "MAIN">>
  /\ TellDead # << >> /\ Tail(TellDead) = <<<<"shut">>>>
  /\ Head(TellDead) = <<"event", "switches", "DEAD">>
  /\ Topology # << >> /\ Tail(Topology) = << >>
  /\ Head(Topology) = <<"event", "multipath", "topology">>
  /\ <<<<"shut">>>> # << >> /\ Tail(<<<<"shut">>>>) = << >> /\ Head(<<<<"shut">>>>) = <<"shut">>
  /\ TellMain # TellDead /\ TellMain # Topology /\ TellDead # Topology
  /\ <<<<"shut">>>> \notin {TellMain, TellDead, Topology}
<1> DEFINE M == <<"event", "switches", "MAIN">>
           D == <<"event", "switches", "DEAD">>
           T == <<"event", "multipath", "topology">>
           S == <<"shut">>
<1>1. M # D /\ M # T /\ D # T /\ S # M /\ S # D /\ S # T
  OBVIOUS
<1>2. TellMain = <<M>> /\ TellDead = <<D, S>> /\ Topology = <<T>>
  BY DEF TellMain, TellDead, Topology
<1> HIDE DEF M, D, T, S
<1>3. /\ TellMain # << >> /\ Tail(TellMain) = << >> /\ Head(TellMain) = M
      /\ TellDead # << >> /\ Tail(TellDead) = <<S>> /\ Head(TellDead) = D
      /\ Topology # << >> /\ Tail(Topology) = << >> /\ Head(Topology) = T
      /\ <<S>> # << >> /\ Tail(<<S>>) = << >> /\ Head(<<S>>) = S
  BY <1>2, Tuples
<1>4. /\ TellMain # TellDead /\ TellMain # Topology /\ TellDead # Topology
      /\ <<S>> \notin {TellMain, TellDead, Topology}
  BY <1>1, <1>3
<1> QED BY <1>3, <1>4 DEF M, D, T, S

(***************************************************************************)
(* A program goes on as one of the same kind; what its first call is.      *)
(***************************************************************************)
LEMMA ClosingGoes ==
  ASSUME NEW p \in Closing, p # << >>
  PROVE  /\ Tail(p) \in Closing
         /\ p = TellDead \/ (p = <<<<"shut">>>> /\ Head(p)[1] = "shut")
<1>1. CASE p = <<<<"shut">>>>
  BY <1>1, Announcements DEF Closing
<1>2. CASE p = TellDead
  BY <1>2, Announcements DEF Closing
<1> QED BY <1>1, <1>2 DEF Closing

LEMMA SendsGoes ==
  ASSUME NEW p \in Sends
  PROVE  /\ p # << >> /\ Tail(p) = << >>
         /\ Head(p)[1] = "send" /\ Head(p)[2] \in Messages
<1>1. PICK m \in Messages : p = <<<<"send", m>>>>
  BY DEF Sends
<1> DEFINE a == <<"send", m>>
<1>2. a[1] = "send" /\ a[2] = m
  OBVIOUS
<1>3. p = <<a>>
  BY <1>1
<1> HIDE DEF a
<1>4. Head(p) = a /\ Tail(p) = << >> /\ p # << >>
  BY <1>3, Tuples
<1> QED BY <1>2, <1>4

LEMMA SendAllsGoes ==
  ASSUME NEW p \in SendAlls
  PROVE  p # << >> /\ Head(p)[1] = "sendall" /\ Head(p)[2] \in Messages
<1>1. PICK m \in Messages : p = <<<<"sendall", m>>>>
  BY DEF SendAlls
<1> DEFINE a == <<"sendall", m>>
<1>2. a[1] = "sendall" /\ a[2] = m
  OBVIOUS
<1>3. p = <<a>>
  BY <1>1
<1> HIDE DEF a
<1>4. Head(p) = a /\ p # << >>
  BY <1>3, Tuples
<1> QED BY <1>2, <1>4

LEMMA HandlingGoes ==
  ASSUME NEW p \in Handling
  PROVE  /\ p # << >> /\ p \notin {TellMain, TellDead}
         /\ \/ Head(p)[1] = "handle" /\ Head(p)[2] \in Up
            \/ /\ Head(p)[1] = "event" /\ Head(p)[2] \in Apps /\ Head(p)[3] \in Up
               /\ Tail(p) \in Handling
<1> DEFINE H(m) == <<"handle", m>>
           E(a, m) == <<"event", a, m>>
<1>1. \A a, m : /\ H(m)[1] = "handle" /\ H(m)[2] = m
               /\ E(a, m)[1] = "event" /\ E(a, m)[2] = a /\ E(a, m)[3] = m
  OBVIOUS
<1>2. PICK m \in Up : \/ p = <<H(m)>> \/ p = <<E("multipath", m), H(m)>>
                      \/ p = <<E("switches", m), E("multipath", m), H(m)>>
  BY DEF Handling
<1>3. <<H(m)>> \in Handling /\ <<E("multipath", m), H(m)>> \in Handling
  BY <1>2 DEF Handling
<1>4. "multipath" \in Apps /\ "switches" \in Apps /\ m \notin {"MAIN", "DEAD"}
  BY <1>2 DEF Apps, Up
<1>5. /\ Head(TellMain) = E("switches", "MAIN")
      /\ Head(TellDead) = E("switches", "DEAD")
  BY Announcements
<1> HIDE DEF H, E
<1>6. CASE p = <<H(m)>>
  <2>1. p # << >> /\ Head(p) = H(m)
    BY <1>6, Tuples
  <2>2. Head(p)[1] = "handle" /\ Head(p)[2] \in Up /\ Head(p)[1] # "event"
    BY <1>1, <1>2, <2>1
  <2>3. p \notin {TellMain, TellDead}
    BY <1>1, <1>5, <2>2
  <2> QED BY <2>1, <2>2, <2>3
<1>7. CASE p = <<E("multipath", m), H(m)>>
  <2>1. p # << >> /\ Head(p) = E("multipath", m) /\ Tail(p) = <<H(m)>>
    BY <1>7, Tuples
  <2>2. p \notin {TellMain, TellDead}
    BY <1>1, <1>5, <2>1
  <2>3. Head(p)[1] = "event" /\ Head(p)[2] \in Apps /\ Head(p)[3] \in Up
    BY <1>1, <1>2, <1>4, <2>1
  <2>4. Tail(p) \in Handling
    BY <1>3, <2>1
  <2> QED BY <2>1, <2>2, <2>3, <2>4
<1>8. CASE p = <<E("switches", m), E("multipath", m), H(m)>>
  <2>1. p # << >> /\ Head(p) = E("switches", m) /\ Tail(p) = <<E("multipath", m), H(m)>>
    BY <1>8, Tuples
  <2>2. p \notin {TellMain, TellDead}
    BY <1>1, <1>4, <1>5, <2>1
  <2>3. Head(p)[1] = "event" /\ Head(p)[2] \in Apps /\ Head(p)[3] \in Up
    BY <1>1, <1>2, <1>4, <2>1
  <2>4. Tail(p) \in Handling
    BY <1>3, <2>1
  <2> QED BY <2>1, <2>2, <2>3, <2>4
<1> QED BY <1>2, <1>6, <1>7, <1>8

LEMMA ThreadNames ==
  /\ Threads = {"serve", "send", "echo", "switches", "multipath"}
  /\ Callers = {"serve", "echo", "switches", "multipath"}
  /\ Apps = {"switches", "multipath"}
BY DEF Threads, Callers, Apps

LEMMA ProgramCases ==
  /\ ProgramOf("serve") = IF pc["serve"] = "recv" THEN Receiving ELSE Closing
  /\ ProgramOf("send") = {<< >>} \cup SendAlls
  /\ ProgramOf("echo") = Closing \cup Sends
  /\ ProgramOf("switches") = Closing \cup {Topology}
  /\ ProgramOf("multipath") = {<< >>} \cup Sends
  /\ \A t \in Threads : ProgramOf(t) \subseteq Programs
<1>1. /\ ProgramOf("serve") = IF pc["serve"] = "recv" THEN Receiving ELSE Closing
      /\ ProgramOf("send") = {<< >>} \cup SendAlls
      /\ ProgramOf("echo") = Closing \cup Sends
      /\ ProgramOf("switches") = Closing \cup {Topology}
      /\ ProgramOf("multipath") = {<< >>} \cup Sends
  BY DEF ProgramOf
<1>2. Closing \subseteq Programs /\ Receiving \subseteq Programs /\ Sends \subseteq Programs
      /\ SendAlls \subseteq Programs /\ Topology \in Programs /\ << >> \in Programs
  BY DEF Programs, Receiving, Closing
<1>3. ASSUME NEW t \in Threads PROVE ProgramOf(t) \subseteq Programs
  BY <1>1, <1>2, <1>3, ThreadNames
<1> QED BY <1>1, <1>3

(***************************************************************************)
(* The first call of a thread that has one, and what is left after it.     *)
(***************************************************************************)
LEMMA ProgramGoes ==
  ASSUME ProgShapes, NEW t \in Callers, prog[t] # << >>
  PROVE  /\ Head(prog[t])[1] # "handle" =>
              Tail(prog[t]) \in ProgramOf(t) /\ Tail(prog[t]) \notin {TellMain, TellDead}
         /\ Head(prog[t])[1] = "handle" =>
              t = "serve" /\ pc["serve"] = "recv" /\ prog[t] \in Handling /\ Head(prog[t])[2] \in Up
         /\ Head(prog[t])[1] = "send" => Head(prog[t])[2] \in Messages
         /\ Head(prog[t])[1] = "event" => Head(prog[t])[2] \in Apps /\ Head(prog[t])[3] \in EventNames
         /\ Head(prog[t])[1] = "event" /\ Head(prog[t])[3] \in States =>
              \/ t = "serve" /\ prog[t] = TellMain /\ Head(prog[t])[3] = "MAIN"
              \/ t # "multipath" /\ prog[t] = TellDead /\ Head(prog[t])[3] = "DEAD"
<1> DEFINE p == prog[t]
<1>1. t \in Threads /\ p \in ProgramOf(t)
  BY DEF ProgShapes, Callers
<1>2. \/ p = TellMain /\ t = "serve" /\ pc["serve"] = "recv"
      \/ p \in Handling /\ t = "serve" /\ pc["serve"] = "recv"
      \/ p = Topology /\ t = "switches"
      \/ p \in Sends
      \/ p \in Closing /\ Closing \subseteq ProgramOf(t) /\ t # "multipath"
  <2>1. CASE t = "serve"
    BY <1>1, <2>1, ProgramCases DEF Receiving
  <2>2. CASE t = "echo"
    BY <1>1, <2>2, ProgramCases
  <2>3. CASE t = "switches"
    BY <1>1, <2>3, ProgramCases
  <2>4. CASE t = "multipath"
    BY <1>1, <2>4, ProgramCases
  <2> QED BY <2>1, <2>2, <2>3, <2>4, ThreadNames
<1>3. << >> \in ProgramOf(t) /\ << >> \notin {TellMain, TellDead}
  BY <1>1, ProgramCases, ThreadNames, Announcements DEF Receiving, Closing
<1>4. "MAIN" \in EventNames /\ "DEAD" \in EventNames /\ "topology" \in EventNames
      /\ Up \subseteq EventNames /\ Up \cap States = {} /\ "topology" \notin States
      /\ "switches" \in Apps /\ "multipath" \in Apps
  BY DEF EventNames, Told, Up, States, Apps
<1>5. CASE p = TellMain /\ t = "serve" /\ pc["serve"] = "recv"
  <2>1. Head(p)[1] = "event" /\ Head(p)[2] = "switches" /\ Head(p)[3] = "MAIN" /\ Tail(p) = << >>
    BY <1>5, Announcements
  <2> QED BY <1>3, <1>4, <1>5, <2>1
<1>6. CASE p = Topology /\ t = "switches"
  <2>1. Head(p)[1] = "event" /\ Head(p)[2] = "multipath" /\ Head(p)[3] = "topology" /\ Tail(p) = << >>
    BY <1>6, Announcements
  <2> QED BY <1>3, <1>4, <2>1
<1>7. CASE p \in Handling /\ t = "serve" /\ pc["serve"] = "recv"
  <2>1. Handling \subseteq ProgramOf(t)
    BY <1>7, ProgramCases DEF Receiving
  <2> QED BY <1>4, <1>7, <2>1, HandlingGoes
<1>8. CASE p \in Sends
  BY <1>3, <1>8, SendsGoes
<1>9. CASE p \in Closing /\ Closing \subseteq ProgramOf(t) /\ t # "multipath"
  <2>1. CASE p = TellDead
    <3>1. Head(p)[1] = "event" /\ Head(p)[2] = "switches" /\ Head(p)[3] = "DEAD"
      BY <2>1, Announcements
    <3>2. Tail(p) \in ProgramOf(t) /\ Tail(p) \notin {TellMain, TellDead}
      BY <1>9, <2>1, ClosingGoes, Announcements
    <3> QED BY <1>4, <1>9, <2>1, <3>1, <3>2
  <2>2. CASE p # TellDead
    <3>1. p = <<<<"shut">>>> /\ Head(p)[1] = "shut" /\ Tail(p) = << >>
      BY <1>9, <2>2, ClosingGoes, Announcements
    <3> QED BY <1>3, <3>1
  <2> QED BY <2>1, <2>2
<1> QED BY <1>2, <1>5, <1>6, <1>7, <1>8, <1>9

(***************************************************************************)
(* A thread that gets another program of its kind, and does not move.      *)
(***************************************************************************)
LEMMA ThenShapes ==
  ASSUME ProgShapes, NEW t \in Threads, NEW p \in ProgramOf(t), Then(t, p),
         t = "serve" => prog["serve"] # << >> \/ pc["serve"] = "recv", t # "send"
  PROVE  ProgShapes'
<1>1. p \in Programs /\ pc' = pc
  BY ProgramCases DEF Then
<1>2. \A s \in Threads : ProgramOf(s)' = ProgramOf(s)
  BY <1>1 DEF ProgramOf
<1>3. prog' \in [Threads -> Programs] /\ \A s \in Threads : prog'[s] = IF s = t THEN p ELSE prog[s]
  BY <1>1 DEF ProgShapes, Then
<1>4. "serve" \in Threads /\ "send" \in Threads
  BY ThreadNames
<1> QED BY <1>1, <1>2, <1>3, <1>4 DEF ProgShapes

-----------------------------------------------------------------------------
(***************************************************************************)
(* The programs keep their shapes, one step per action.                    *)
(***************************************************************************)
LEMMA WaitsProg == ASSUME Shapes, NEW t \in Callers, Waits(t) PROVE ProgShapes'
<1>1. /\ prog[t] # << >> /\ Head(prog[t])[1] \in {"event", "send", "shut"}
      /\ Then(t, Tail(prog[t]))
  BY DEF Waits, _send_event, send, _close_write, Does, Idle
<1>2. Tail(prog[t]) \in ProgramOf(t)
  BY <1>1, ProgramGoes DEF Shapes
<1>3. t \in Threads /\ t # "send"
  BY ThreadNames
<1> QED BY <1>1, <1>2, <1>3, ThenShapes DEF Shapes

LEMMA RecvHandling == ASSUME Shapes, RecvMessage PROVE \E p \in Handling : Then("serve", p)
<1> DEFINE m == Head(inbox)
           p == Observers(m) \o <<<<"handle", m>>>>
<1>1. m \in Up
  BY DEF RecvMessage, Shapes, QueueShapes
<1>2. /\ << >> \o <<<<"handle", m>>>> = <<<<"handle", m>>>>
      /\ <<<<"event", "multipath", m>>>> \o <<<<"handle", m>>>>
           = <<<<"event", "multipath", m>>, <<"handle", m>>>>
      /\ <<<<"event", "switches", m>>, <<"event", "multipath", m>>>> \o <<<<"handle", m>>>>
           = <<<<"event", "switches", m>>, <<"event", "multipath", m>>, <<"handle", m>>>>
  BY Concats, Zenon
<1>3. Observers(m) \in {<< >>, <<<<"event", "multipath", m>>>>,
                       <<<<"event", "switches", m>>, <<"event", "multipath", m>>>>}
  BY DEF Observers
<1>4. p \in Handling
  BY <1>1, <1>2, <1>3 DEF Handling
<1> QED BY <1>4 DEF RecvMessage

LEMMA RecvProg == ASSUME Shapes, RecvMessage PROVE ProgShapes'
<1>1. PICK p \in Handling : Then("serve", p)
  BY RecvHandling
<1>2. p \in ProgramOf("serve") /\ "serve" \in Threads
  BY ProgramCases, ThreadNames DEF RecvMessage, Receiving
<1> QED BY <1>1, <1>2, ThenShapes DEF RecvMessage, Shapes

LEMMA AndThenCases ==
  /\ AndThen("CONFIG", <<<<"send", "features_request">>>>) = <<<<"send", "features_request">>>>
  /\ state # "MAIN" => AndThen("MAIN", << >>) = TellMain
  /\ AndThen("DEAD", <<<<"shut">>>>) = IF state = "DEAD" THEN <<<<"shut">>>> ELSE TellDead
<1> DEFINE S == <<"shut">>
           F == <<"send", "features_request">>
           D == <<"event", "switches", "DEAD">>
           M == <<"event", "switches", "MAIN">>
<1>1. \A a, b : << >> \o <<a>> = <<a>> /\ <<b>> \o << >> = <<b>> /\ <<b>> \o <<a>> = <<b, a>>
  BY Concats, Zenon
<1>2. /\ Notify("CONFIG") = << >> /\ Notify("MAIN") = <<M>> /\ Notify("DEAD") = <<D>>
  BY DEF Notify
<1>3. TellMain = <<M>> /\ TellDead = <<D, S>>
  BY DEF TellMain, TellDead
<1> HIDE DEF S, F, D, M
<1>4. /\ AndThen("CONFIG", <<F>>) = <<F>>
      /\ state # "MAIN" => AndThen("MAIN", << >>) = TellMain
      /\ AndThen("DEAD", <<S>>) = IF state = "DEAD" THEN <<S>> ELSE TellDead
  BY <1>1, <1>2, <1>3 DEF AndThen
<1> QED BY <1>4 DEF S, F

(***************************************************************************)
(* What the handlers leave to do, and what they do to the state.           *)
(***************************************************************************)
LEMMA HandleDoes ==
  ASSUME Shapes, Handle
  PROVE  \E p \in {<< >>, TellMain} \cup Sends :
           /\ Then("serve", p)
           /\ \/ state' = state /\ p # TellMain
              \/ state = "HANDSHAKE" /\ state' = "CONFIG" /\ p # TellMain
              \/ state = "CONFIG" /\ state' = "MAIN" /\ p = TellMain
<1>1. \A m \in Messages : <<<<"send", m>>>> \in Sends
  BY DEF Sends
<1>2. \A p \in Sends : p # TellMain
  <2>1. Head(TellMain)[1] = "event"
    BY Announcements
  <2> QED BY <2>1, SendsGoes
<1>3. {"error", "features_request", "port_desc_request", "echo_reply"} \subseteq Messages
      /\ << >> # TellMain
  BY Announcements DEF Messages, Requests
<1>4. CASE hello_handler
  BY <1>1, <1>2, <1>3, <1>4, AndThenCases DEF hello_handler, set_state
<1>5. CASE switch_features_handler
  BY <1>1, <1>2, <1>3, <1>5, AndThenCases DEF switch_features_handler, set_state
<1>6. CASE multipart_reply_handler
  BY <1>3, <1>6, AndThenCases DEF multipart_reply_handler, set_state
<1>7. CASE echo_request_handler
  BY <1>1, <1>2, <1>3, <1>7 DEF echo_request_handler
<1>8. CASE echo_reply_handler \/ NoHandler
  BY <1>3, <1>8 DEF echo_reply_handler, NoHandler
<1> QED BY <1>4, <1>5, <1>6, <1>7, <1>8 DEF Handle

LEMMA HandleProg == ASSUME Shapes, Handle PROVE ProgShapes'
<1>1. PICK p \in {<< >>, TellMain} \cup Sends : Then("serve", p)
  BY HandleDoes
<1>2. pc["serve"] = "recv"
  BY ProgramGoes, ThreadNames DEF Handle, Does, Idle, Shapes
<1>3. p \in ProgramOf("serve") /\ "serve" \in Threads
  BY <1>2, ProgramCases, ThreadNames DEF Receiving
<1> QED BY <1>1, <1>2, <1>3, ThenShapes DEF Shapes

(***************************************************************************)
(* A thread other than serve moves on with a program of its kind.          *)
(***************************************************************************)
LEMMA GoesShapes ==
  ASSUME ProgShapes, NEW t \in {"send", "echo"}, NEW w \in {"get", "sendall", "top", "sleep", "done"},
         NEW p \in ProgramOf(t), Goes(t, w, p), t = "send" /\ w = "sendall" => p # << >>
  PROVE  ProgShapes'
<1>1. t \in Threads /\ "serve" \in Threads /\ "send" \in Threads /\ p \in Programs
  BY ProgramCases, ThreadNames
<1>2. /\ prog' \in [Threads -> Programs] /\ \A s \in Threads : prog'[s] = IF s = t THEN p ELSE prog[s]
      /\ pc' \in [Threads -> {"recv", "kill", "close", "get", "sendall", "top", "sleep", "done"}]
      /\ \A s \in Threads : pc'[s] = IF s = t THEN w ELSE pc[s]
  BY <1>1 DEF ProgShapes, Goes
<1>3. \A s \in Threads : ProgramOf(s)' = ProgramOf(s)
  BY <1>1, <1>2 DEF ProgramOf
<1> QED BY <1>1, <1>2, <1>3 DEF ProgShapes

LEMMA SendProg == ASSUME Shapes, SendLoop PROVE ProgShapes'
<1>1. << >> \in ProgramOf("send") /\ SendAlls \subseteq ProgramOf("send")
  BY ProgramCases
<1>2. CASE SendGet
  <2>1. Head(send_q) \in Messages
    BY <1>2 DEF SendGet, Shapes, QueueShapes
  <2>2. <<<<"sendall", Head(send_q)>>>> \in SendAlls
    BY <2>1 DEF SendAlls
  <2>3. <<<<"sendall", Head(send_q)>>>> # << >>
    BY <2>2, SendAllsGoes
  <2> QED BY <1>1, <1>2, <2>2, <2>3, GoesShapes DEF SendGet, Shapes
<1>3. CASE SendAll
  BY <1>1, <1>3, GoesShapes DEF SendAll, Shapes
<1>4. CASE SendFails
  BY <1>1, <1>4, GoesShapes DEF SendFails, Shapes
<1> QED BY <1>2, <1>3, <1>4 DEF SendLoop

LEMMA EchoProg == ASSUME Shapes, EchoLoop PROVE ProgShapes'
<1>1. << >> \in ProgramOf("echo") /\ Sends \subseteq ProgramOf("echo")
      /\ Closing \subseteq ProgramOf("echo")
  BY ProgramCases DEF Closing
<1>2. CASE EchoRequest
  <2>1. <<<<"send", "echo_request">>>> \in Sends
    BY DEF Sends, Messages, Requests
  <2> QED BY <1>1, <1>2, <2>1, GoesShapes DEF EchoRequest, Shapes
<1>3. CASE EchoWakes
  BY <1>1, <1>3, GoesShapes DEF EchoWakes, Shapes
<1>4. CASE EchoCloses
  <2>1. AndThen("DEAD", <<<<"shut">>>>) \in Closing
    BY AndThenCases DEF Closing
  <2> QED BY <1>1, <1>4, <2>1, GoesShapes DEF EchoCloses, Shapes
<1> QED BY <1>2, <1>3, <1>4 DEF EchoLoop

LEMMA ServeEndProg == ASSUME Shapes, RecvEnds \/ RecvFails \/ KillEcho \/ close PROVE ProgShapes'
<1> DEFINE Q == {"recv", "kill", "close", "get", "sendall", "top", "sleep", "done"}
<1>t. /\ "serve" \in Threads /\ "send" \in Threads /\ "echo" \in Threads
      /\ pc \in [Threads -> Q] /\ prog \in [Threads -> Programs]
      /\ << >> \in Programs /\ << >> \in Closing /\ Closing \subseteq Programs
      /\ << >> \in ProgramOf("send") /\ << >> \in ProgramOf("echo")
      /\ \A s \in Threads : prog[s] \in ProgramOf(s)
  BY ThreadNames, ProgramCases DEF Shapes, ProgShapes, Programs, Closing
<1>p. ASSUME pc' \in [Threads -> Q], pc'["serve"] \in {"kill", "close", "done"},
             \A s \in Threads \ {"serve"} : prog'[s] \in ProgramOf(s),
             prog' \in [Threads -> Programs], prog'["serve"] \in Closing,
             pc'["serve"] \in {"kill", "close"} => prog'["serve"] = << >>,
             pc'["send"] = "sendall" => prog'["send"] # << >>
      PROVE  ProgShapes'
  <2>1. \A s \in Threads \ {"serve"} : ProgramOf(s)' = ProgramOf(s)
    BY ThreadNames DEF ProgramOf
  <2>2. ProgramOf("serve")' = Closing
    BY <1>p DEF ProgramOf
  <2> QED BY <1>p, <2>1, <2>2 DEF ProgShapes
<1>q. {"kill", "close", "done"} \subseteq Q /\ "serve" # "send" /\ "serve" # "echo" /\ "send" # "echo"
  OBVIOUS
<1>s. pc["send"] = "sendall" => prog["send"] # << >>
  BY DEF Shapes, ProgShapes
<1> HIDE DEF Q
<1>1. CASE RecvEnds \/ RecvFails
  <2>1. /\ pc' = [pc EXCEPT !["serve"] = "kill", !["send"] = "done"]
        /\ prog' = [prog EXCEPT !["serve"] = << >>, !["send"] = << >>]
    BY <1>1 DEF RecvEnds, RecvFails, KillSend
  <2>2. pc' \in [Threads -> Q] /\ pc'["serve"] = "kill" /\ pc'["send"] = "done"
    BY <1>q, <1>t, <2>1
  <2>3. /\ prog' \in [Threads -> Programs]
        /\ \A s \in Threads : prog'[s] = IF s \in {"serve", "send"} THEN << >> ELSE prog[s]
    BY <1>t, <2>1
  <2>4. prog'["serve"] = << >>
    BY <1>t, <2>3
  <2>5. \A s \in Threads \ {"serve"} : prog'[s] \in ProgramOf(s)
    BY <1>t, <2>3
  <2> QED BY <1>p, <1>t, <2>2, <2>3, <2>4, <2>5
<1>2. CASE KillEcho
  <2>1. pc' = [pc EXCEPT !["serve"] = "close", !["echo"] = "done"] /\ prog' = [prog EXCEPT !["echo"] = << >>]
    BY <1>2 DEF KillEcho
  <2>2. pc' \in [Threads -> Q] /\ pc'["serve"] = "close" /\ pc'["send"] = pc["send"]
    BY <1>q, <1>t, <2>1
  <2>3. prog' \in [Threads -> Programs] /\ \A s \in Threads : prog'[s] = IF s = "echo" THEN << >> ELSE prog[s]
    BY <1>t, <2>1
  <2>4. prog'["serve"] = << >> /\ prog'["send"] = prog["send"]
    BY <1>2, <1>q, <1>t, <2>3 DEF KillEcho, Shapes, ProgShapes
  <2>5. \A s \in Threads \ {"serve"} : prog'[s] \in ProgramOf(s)
    BY <1>t, <2>3
  <2> QED BY <1>p, <1>s, <1>t, <2>2, <2>3, <2>4, <2>5
<1>3. CASE close
  <2> DEFINE p == AndThen("DEAD", <<<<"shut">>>>)
  <2>1. p \in Closing
    BY AndThenCases DEF Closing
  <2>2. pc' = [pc EXCEPT !["serve"] = "done"] /\ prog' = [prog EXCEPT !["serve"] = p]
    BY <1>3 DEF close, Goes
  <2> HIDE DEF p
  <2>3. pc' \in [Threads -> Q] /\ pc'["serve"] = "done" /\ pc'["send"] = pc["send"]
    BY <1>q, <1>t, <2>2
  <2>4. prog' \in [Threads -> Programs] /\ \A s \in Threads : prog'[s] = IF s = "serve" THEN p ELSE prog[s]
    BY <1>t, <2>1, <2>2
  <2>5. prog'["serve"] \in Closing /\ prog'["send"] = prog["send"]
    BY <1>q, <1>t, <2>1, <2>4
  <2>6. \A s \in Threads \ {"serve"} : prog'[s] \in ProgramOf(s)
    BY <1>t, <2>4
  <2> QED BY <1>p, <1>s, <1>t, <2>3, <2>4, <2>5, <2>6
<1> QED BY <1>1, <1>2, <1>3

LEMMA AppsProg == ASSUME Shapes, SwitchesHandles \/ MultipathHandles PROVE ProgShapes'
<1>1. /\ "switches" \in Threads /\ "multipath" \in Threads
      /\ << >> \in ProgramOf("switches") /\ Topology \in ProgramOf("switches")
      /\ Closing \subseteq ProgramOf("switches")
      /\ << >> \in ProgramOf("multipath") /\ Sends \subseteq ProgramOf("multipath")
  BY ThreadNames, ProgramCases DEF Closing
<1>2. AndThen("DEAD", <<<<"shut">>>>) \in Closing /\ <<<<"send", "flow_mod">>>> \in Sends
  BY AndThenCases DEF Closing, Sends, Messages
<1>3. CASE SwitchesHandles
  <2>1. \E p \in ProgramOf("switches") : Then("switches", p)
    BY <1>1, <1>2, <1>3 DEF SwitchesHandles, Topology
  <2> QED BY <1>1, <2>1, ThenShapes DEF Shapes
<1>4. CASE MultipathHandles
  <2>1. \E p \in ProgramOf("multipath") : Then("multipath", p)
    BY <1>1, <1>2, <1>4 DEF MultipathHandles
  <2> QED BY <1>1, <2>1, ThenShapes DEF Shapes
<1> QED BY <1>3, <1>4

LEMMA ProgStep == ASSUME Shapes, [Next]_vars PROVE ProgShapes'
<1>1. ASSUME UNCHANGED <<pc, prog>> PROVE ProgShapes'
  BY <1>1 DEF Shapes, ProgShapes, ProgramOf
<1>2. CASE Switch
  BY <1>1, <1>2 DEF Switch, SwitchAnswers, SwitchSends, SwitchCloses, ConnectsAgain
<1>3. CASE UNCHANGED vars
  BY <1>1, <1>3 DEF vars
<1> QED BY <1>2, <1>3, WaitsProg, RecvProg, HandleProg, SendProg, EchoProg, ServeEndProg, AppsProg
        DEF Next, Serve

-----------------------------------------------------------------------------
(***************************************************************************)
(* The queues keep their shapes, and the permits are all accounted for.    *)
(***************************************************************************)
LEMMA AppendEvent ==
  ASSUME Shapes, NEW a \in Apps, NEW e \in EventNames,
         events' = [events EXCEPT ![a] = Append(@, e)]
  PROVE  events' \in [Apps -> Seq(EventNames)]
<1>1. Append(events[a], e) \in Seq(EventNames)
  BY DEF Shapes, QueueShapes
<1> QED BY <1>1 DEF Shapes, QueueShapes

LEMMA TailEvent ==
  ASSUME Shapes, NEW a \in Apps, events[a] # << >>,
         events' = [events EXCEPT ![a] = Tail(@)]
  PROVE  events' \in [Apps -> Seq(EventNames)]
<1>1. Tail(events[a]) \in Seq(EventNames)
  BY DEF Shapes, QueueShapes
<1> QED BY <1>1 DEF Shapes, QueueShapes

LEMMA WaitsQueue ==
  ASSUME Shapes, Permits, NEW t \in Callers, Waits(t)
  PROVE  QueueShapes' /\ Permits'
<1>1. CASE _send_event(t)
  <2> DEFINE a == Arg(t, 2)
             e == Arg(t, 3)
  <2>1. a \in Apps /\ e \in EventNames /\ (e \in States => e \in Told)
    BY <1>1, ProgramGoes DEF _send_event, Does, Idle, Arg, Shapes, Told
  <2>2. events' = [events EXCEPT ![a] = Append(@, e)]
    BY <1>1 DEF _send_event
  <2>3. told' \in Seq(Told)
    BY <1>1, <2>1 DEF _send_event, Shapes, QueueShapes
  <2>4. UNCHANGED <<inbox, asked, send_q, sem, state, open, registered>>
    BY <1>1 DEF _send_event, dp, switch
  <2> HIDE DEF a, e
  <2>5. events' \in [Apps -> Seq(EventNames)]
    BY <2>1, <2>2, AppendEvent
  <2> QED BY <2>3, <2>4, <2>5 DEF Shapes, QueueShapes, Permits
<1>2. CASE send(t)
  <2>1. Arg(t, 2) \in Messages
    BY <1>2, ProgramGoes DEF send, Does, Idle, Arg, Shapes
  <2>2. send_q \in Seq(Messages) /\ sem \in Int
    BY DEF Shapes, QueueShapes
  <2>3. send_q' \in Seq(Messages) /\ sem' \in Int /\ sem' + Len(send_q') = sem + Len(send_q)
    BY <1>2, <2>1, <2>2 DEF send
  <2>4. UNCHANGED <<inbox, asked, events, told, state, open, registered>>
    BY <1>2 DEF send, apps, switch
  <2> QED BY <2>3, <2>4 DEF Shapes, QueueShapes, Permits
<1>3. CASE _close_write(t)
  BY <1>3 DEF _close_write, apps, switch, Shapes, QueueShapes, Permits
<1> QED BY <1>1, <1>2, <1>3 DEF Waits

LEMMA DrainQueue ==
  ASSUME Shapes, Permits, Drain
  PROVE  send_q' \in Seq(Messages) /\ sem' \in Int /\ open' \in BOOLEAN /\ Permits'
<1>1. send_q \in Seq(Messages) /\ sem \in Int /\ Len(send_q) \in Nat
  BY DEF Shapes, QueueShapes
<1>2. send_q' = << >> /\ sem' = sem + Len(send_q) /\ open' = FALSE
  BY DEF Drain
<1>3. << >> \in Seq(Messages) /\ Len(<< >>) = 0
  OBVIOUS
<1>4. open' \in BOOLEAN
  BY <1>2
<1>5. sem' \in Int /\ send_q' \in Seq(Messages)
  BY <1>1, <1>2, <1>3
<1>6. sem' + Len(send_q') = sem + Len(send_q)
  BY <1>1, <1>2, <1>3
<1> QED BY <1>4, <1>5, <1>6 DEF Permits

LEMMA SendQueue ==
  ASSUME Shapes, Permits, SendLoop
  PROVE  QueueShapes' /\ Permits'
<1>1. CASE SendGet
  <2>1. send_q \in Seq(Messages) /\ send_q # << >> /\ sem \in Int
    BY <1>1 DEF SendGet, Shapes, QueueShapes
  <2>2. send_q' \in Seq(Messages) /\ sem' \in Int /\ sem' + Len(send_q') = sem + Len(send_q)
    BY <1>1, <2>1 DEF SendGet
  <2>3. UNCHANGED <<inbox, asked, events, told, state, open, registered>>
    BY <1>1 DEF SendGet, apps, switch
  <2> QED BY <2>2, <2>3 DEF Shapes, QueueShapes, Permits
<1>2. CASE SendAll
  <2>1. send_q' \in Seq(Messages) /\ sem' \in Int /\ open' \in BOOLEAN /\ Permits'
    <3>1. CASE Drain
      BY <3>1, DrainQueue
    <3>2. CASE UNCHANGED <<open, send_q, sem, shut>>
      BY <3>2 DEF Shapes, QueueShapes, Permits
    <3> QED BY <1>2, <3>1, <3>2 DEF SendAll
  <2>2. asked' \in Seq(Requests)
    BY <1>2 DEF SendAll, Shapes, QueueShapes
  <2>3. UNCHANGED <<inbox, events, told, state, registered>>
    BY <1>2 DEF SendAll, apps
  <2> QED BY <2>1, <2>2, <2>3 DEF Shapes, QueueShapes
<1>3. CASE SendFails
  <2>1. Drain /\ UNCHANGED <<inbox, asked, events, told, state, registered>>
    BY <1>3 DEF SendFails, apps, switch
  <2> QED BY <2>1, DrainQueue DEF Shapes, QueueShapes
<1> QED BY <1>1, <1>2, <1>3 DEF SendLoop

LEMMA ServeQueue ==
  ASSUME Shapes, Permits, Serve \/ RecvFails
  PROVE  QueueShapes' /\ Permits'
<1>1. CASE RecvMessage
  <2>1. inbox' \in Seq(Up)
    BY <1>1 DEF RecvMessage, Shapes, QueueShapes
  <2>2. UNCHANGED <<asked, send_q, sem, events, told, state, open, registered>>
    BY <1>1 DEF RecvMessage, dp, apps
  <2> QED BY <2>1, <2>2 DEF Shapes, QueueShapes, Permits
<1>2. CASE Handle
  <2>1. state' \in States
    BY <1>2, HandleDoes DEF Shapes, QueueShapes, States
  <2>2. UNCHANGED <<inbox, asked, send_q, sem, events, told, open, registered>>
    BY <1>2 DEF Handle, apps, switch
  <2> QED BY <2>1, <2>2 DEF Shapes, QueueShapes, Permits
<1>3. CASE RecvEnds \/ RecvFails
  <2>1. send_q' \in Seq(Messages) /\ sem' \in Int /\ open' \in BOOLEAN /\ Permits'
    <3>1. CASE Drain
      BY <3>1, DrainQueue
    <3>2. CASE UNCHANGED <<open, send_q, sem, shut>>
      BY <3>2 DEF Shapes, QueueShapes, Permits
    <3> QED BY <1>3, <3>1, <3>2 DEF RecvEnds, RecvFails, KillSend
  <2>2. UNCHANGED <<inbox, asked, events, told, state, registered>>
    BY <1>3 DEF RecvEnds, RecvFails, KillSend, apps, switch
  <2> QED BY <2>1, <2>2 DEF Shapes, QueueShapes
<1>4. CASE KillEcho
  BY <1>4 DEF KillEcho, dp, apps, switch, Shapes, QueueShapes, Permits
<1>5. CASE close
  <2>1. state' = "DEAD" /\ UNCHANGED <<inbox, asked, send_q, sem, events, told, open, registered>>
    BY <1>5 DEF close, set_state, apps, switch
  <2> QED BY <2>1 DEF Shapes, QueueShapes, Permits, States
<1> QED BY <1>1, <1>2, <1>3, <1>4, <1>5 DEF Serve

LEMMA RestQueue ==
  ASSUME Shapes, Permits, EchoLoop \/ SwitchesHandles \/ MultipathHandles \/ Switch \/ UNCHANGED vars
  PROVE  QueueShapes' /\ Permits'
<1>1. CASE EchoLoop
  <2>1. state' \in States /\ UNCHANGED <<inbox, asked, send_q, sem, events, told, open, registered>>
    BY <1>1 DEF EchoLoop, EchoRequest, EchoWakes, EchoCloses, set_state, dp, apps, switch, States,
               Shapes, QueueShapes
  <2> QED BY <2>1 DEF Shapes, QueueShapes, Permits
<1>2. CASE SwitchesHandles
  <2>1. events' \in [Apps -> Seq(EventNames)]
    BY <1>2, TailEvent, ThreadNames DEF SwitchesHandles
  <2>2. state' \in States
    BY <1>2 DEF SwitchesHandles, set_state, Shapes, QueueShapes, States
  <2>3. registered' \in BOOLEAN
    BY <1>2, Zenon DEF SwitchesHandles
  <2>4. UNCHANGED <<inbox, asked, send_q, sem, told, open>>
    BY <1>2 DEF SwitchesHandles, switch
  <2> QED BY <2>1, <2>2, <2>3, <2>4 DEF Shapes, QueueShapes, Permits
<1>3. CASE MultipathHandles
  <2>1. events' \in [Apps -> Seq(EventNames)]
    BY <1>3, TailEvent, ThreadNames DEF MultipathHandles
  <2>2. UNCHANGED <<inbox, asked, send_q, sem, told, open, state, registered>>
    BY <1>3 DEF MultipathHandles, dp, switch
  <2> QED BY <2>1, <2>2 DEF Shapes, QueueShapes, Permits
<1>4. CASE SwitchAnswers
  <2>1. \A m \in Requests : \A ms \in Answer(m) : ms \in Seq(Up)
    <3>1. <<"features">> \in Seq(Up) /\ <<"port_desc_more", "port_desc">> \in Seq(Up)
          /\ <<"port_desc">> \in Seq(Up) /\ <<"echo_reply">> \in Seq(Up)
      BY DEF Up
    <3>2. /\ Answer("features_request") = {<<"features">>}
          /\ Answer("port_desc_request") = {<<"port_desc_more", "port_desc">>, <<"port_desc">>}
          /\ Answer("echo_request") = {<<"echo_reply">>}
      BY DEF Answer
    <3> QED BY <3>1, <3>2 DEF Requests
  <2>2. Head(asked) \in Requests /\ asked' \in Seq(Requests)
    BY <1>4 DEF SwitchAnswers, Shapes, QueueShapes
  <2>3. inbox' \in Seq(Up)
    BY <1>4, <2>1, <2>2 DEF SwitchAnswers, Shapes, QueueShapes
  <2>4. UNCHANGED <<send_q, sem, events, told, open, state, registered>>
    BY <1>4 DEF SwitchAnswers, dp, apps
  <2> QED BY <2>2, <2>3, <2>4 DEF Shapes, QueueShapes, Permits
<1>5. CASE SwitchSends
  <2>1. inbox' \in Seq(Up)
    BY <1>5 DEF SwitchSends, Shapes, QueueShapes, Up
  <2>2. UNCHANGED <<asked, send_q, sem, events, told, open, state, registered>>
    BY <1>5 DEF SwitchSends, dp, apps
  <2> QED BY <2>1, <2>2 DEF Shapes, QueueShapes, Permits
<1>6. CASE SwitchCloses
  BY <1>6 DEF SwitchCloses, dp, apps, Shapes, QueueShapes, Permits
<1>7. CASE ConnectsAgain
  <2>1. events' \in [Apps -> Seq(EventNames)]
    BY <1>7, AppendEvent, ThreadNames DEF ConnectsAgain, EventNames
  <2>2. UNCHANGED <<inbox, asked, send_q, sem, told, open, state, registered>>
    BY <1>7 DEF ConnectsAgain, dp, switch
  <2> QED BY <2>1, <2>2 DEF Shapes, QueueShapes, Permits
<1>8. CASE UNCHANGED vars
  BY <1>8 DEF vars, dp, apps, switch, Shapes, QueueShapes, Permits
<1> QED BY <1>1, <1>2, <1>3, <1>4, <1>5, <1>6, <1>7, <1>8 DEF Switch

LEMMA ShapesInit == Init => Shapes /\ Permits
<1> SUFFICES ASSUME Init PROVE Shapes /\ Permits
  OBVIOUS
<1>1. \A t \in Threads : << >> \in ProgramOf(t)
  BY ProgramCases, ThreadNames DEF Receiving, Closing
<1>2. ProgShapes
  <2>1. /\ prog = [t \in Threads |-> << >>] /\ << >> \in Programs
    BY DEF Init, Programs, Closing
  <2>2. pc \in [Threads -> {"recv", "kill", "close", "get", "sendall", "top", "sleep", "done"}]
        /\ pc["serve"] = "recv" /\ pc["send"] = "get"
    BY ThreadNames DEF Init
  <2> QED BY <1>1, <2>1, <2>2 DEF ProgShapes
<1>3. QueueShapes
  <2>1. inbox \in Seq(Up) /\ asked \in Seq(Requests) /\ send_q \in Seq(Messages) /\ told \in Seq(Told)
    <3>1. <<"hello">> \in Seq(Up) /\ <<"bad_hello">> \in Seq(Up) /\ <<"hello">> \in Seq(Messages)
      BY DEF Up, Messages
    <3> QED BY <3>1 DEF Init
  <2>2. sem \in Int /\ state \in States /\ open \in BOOLEAN /\ registered \in BOOLEAN
    <3>1. sem \in Int /\ state \in States
      BY ConnectionConstants DEF Init, States
    <3>2. open \in BOOLEAN /\ registered \in BOOLEAN
      BY Zenon DEF Init
    <3> QED BY <3>1, <3>2
  <2>3. events \in [Apps -> Seq(EventNames)]
    BY DEF Init
  <2> QED BY <2>1, <2>2, <2>3 DEF QueueShapes
<1>4. Permits
  <2>1. Len(<<"hello">>) = 1
    OBVIOUS
  <2> QED BY <2>1, ConnectionConstants DEF Init, Permits
<1> QED BY <1>2, <1>3, <1>4 DEF Shapes

LEMMA ShapesAlways == Spec => [](Shapes /\ Permits)
<1>1. Shapes /\ Permits /\ [Next]_vars => Shapes' /\ Permits'
  <2> SUFFICES ASSUME Shapes, Permits, [Next]_vars PROVE QueueShapes' /\ Permits'
    BY ProgStep DEF Shapes
  <2> QED BY WaitsQueue, SendQueue, ServeQueue, RestQueue DEF Next
<1> QED BY <1>1, ShapesInit, PTL DEF Spec

(***************************************************************************)
(* The permits of send_q: a message is given one by send, and it comes     *)
(* back when _send_loop takes the message or drains the queue, whichever   *)
(* thread ends the connection and wherever the others are then.            *)
(***************************************************************************)
THEOREM PermitsAreKept == Spec => []Permits
BY ShapesAlways, PTL

(***************************************************************************)
(* A dead connection stays dead: the handlers of the handshake look at the *)
(* state in the same step as they change it.                               *)
(***************************************************************************)
THEOREM DeadStaysDead == Spec => DeadIsFinal
<1>1. Shapes /\ [Next]_vars => [state = "DEAD" => state' = "DEAD"]_vars
  <2> SUFFICES ASSUME Shapes, Next, state = "DEAD" PROVE state' = "DEAD"
    OBVIOUS
  <2>1. CASE Handle
    BY <2>1, HandleDoes
  <2>2. CASE SendLoop
    BY <2>2 DEF SendLoop, SendGet, SendAll, SendFails
  <2>3. CASE RecvMessage \/ RecvEnds \/ RecvFails \/ KillEcho \/ close
    BY <2>3 DEF RecvMessage, RecvEnds, RecvFails, KillSend, KillEcho, close, set_state, dp
  <2>4. CASE EchoLoop
    BY <2>4 DEF EchoLoop, EchoRequest, EchoWakes, EchoCloses, set_state, dp
  <2>5. CASE SwitchesHandles \/ MultipathHandles
    BY <2>5 DEF SwitchesHandles, MultipathHandles, set_state, dp
  <2>6. CASE Switch
    BY <2>6 DEF Switch, SwitchAnswers, SwitchSends, SwitchCloses, ConnectsAgain, dp
  <2>7. CASE \E t \in Callers : Waits(t)
    BY <2>7 DEF Waits, _send_event, send, _close_write, dp
  <2> QED BY <2>1, <2>2, <2>3, <2>4, <2>5, <2>6, <2>7 DEF Next, Serve
<1> QED BY <1>1, ShapesAlways, PTL DEF Spec, DeadIsFinal

-----------------------------------------------------------------------------
(***************************************************************************)
(* Who still has to tell what.  MAIN is announced by serve and before      *)
(* anything else; "switches" registers the connection only when it has     *)
(* been told, so that it cannot close it while serve still waits to tell   *)
(* MAIN; and once the state is DEAD, DEAD is what was told last or somebody*)
(* has it before him.                                                      *)
(***************************************************************************)
Quiet == state \in {"HANDSHAKE", "CONFIG"} => told = << >>
MainFirst == prog["serve"] = TellMain => told = << >> /\ state = "MAIN"
DeadLast ==
  /\ \A t \in {"serve", "switches"} : prog[t] = TellDead => state = "DEAD"
  /\ state = "DEAD" => \/ told = << >> \/ Last(told) = "DEAD"
                       \/ \E t \in {"serve", "switches"} : prog[t] = TellDead
Unregistered ==
  told = << >> => ~registered /\ \A i \in 1..Len(events["switches"]) : events["switches"][i] # "MAIN"
ClosedIsDead == pc["serve"] = "done" => state = "DEAD"
NoEcho == prog["echo"] = << >> /\ pc["echo"] = "done"

ToldInv == Quiet /\ MainFirst /\ DeadLast /\ Unregistered /\ ClosedIsDead /\ NoEcho

(***************************************************************************)
(* A step that touches nothing of this.                                    *)
(***************************************************************************)
LEMMA ToldUntouched ==
  ASSUME ToldInv, UNCHANGED <<state, told, registered>>,
         events'["switches"] = events["switches"],
         pc'["serve"] = "done" => pc["serve"] = "done", pc'["echo"] = pc["echo"],
         \A t \in {"serve", "switches", "echo"} :
            prog'[t] = prog[t] \/ (prog[t] \notin {TellMain, TellDead} /\ prog'[t] \notin {TellMain, TellDead}),
         prog'["echo"] = prog["echo"]
  PROVE  ToldInv'
<1>1. \A t \in {"serve", "switches"} : prog'[t] = TellDead <=> prog[t] = TellDead
  OBVIOUS
<1>2. prog'["serve"] = TellMain <=> prog["serve"] = TellMain
  OBVIOUS
<1>3. Quiet' /\ MainFirst' /\ Unregistered' /\ ClosedIsDead' /\ NoEcho'
  BY <1>2 DEF ToldInv, Quiet, MainFirst, Unregistered, ClosedIsDead, NoEcho
<1>4. DeadLast'
  BY <1>1 DEF ToldInv, DeadLast
<1> QED BY <1>3, <1>4 DEF ToldInv

LEMMA ThenProg ==
  ASSUME ProgShapes, NEW t \in Threads, NEW p, Then(t, p)
  PROVE  /\ \A s \in Threads : prog'[s] = IF s = t THEN p ELSE prog[s]
         /\ pc' = pc
BY DEF Then, ProgShapes

LEMMA LastAppend == ASSUME NEW e PROVE \A s \in Seq(Told) : e \in Told => Last(Append(s, e)) = e /\ Append(s, e) # << >>
BY DEF Last

(***************************************************************************)
(* Somebody tells "switches" a state, or anything else.                    *)
(***************************************************************************)
LEMMA ToldEvent ==
  ASSUME Shapes, ToldInv, NEW t \in Callers, _send_event(t)
  PROVE  ToldInv'
<1> DEFINE a == Arg(t, 2)
           e == Arg(t, 3)
<1>t. t \in Threads /\ ProgShapes /\ QueueShapes /\ {"serve", "switches", "echo"} \subseteq Threads
      /\ "switches" \in Apps
  BY ThreadNames DEF Shapes
<1>1. /\ prog[t] # << >> /\ Head(prog[t])[1] = "event" /\ Then(t, Tail(prog[t]))
      /\ events' = [events EXCEPT ![a] = Append(@, e)]
      /\ told' = IF e \in States THEN Append(told, e) ELSE told
      /\ UNCHANGED <<state, registered>>
  BY DEF _send_event, Does, Idle, dp
<1>2. /\ \A s \in Threads : prog'[s] = IF s = t THEN Tail(prog[t]) ELSE prog[s]
      /\ pc' = pc
  BY <1>1, <1>t, ThenProg
<1>3. /\ a \in Apps /\ e \in EventNames
      /\ e \in States => \/ t = "serve" /\ prog[t] = TellMain /\ e = "MAIN"
                         \/ t # "multipath" /\ prog[t] = TellDead /\ e = "DEAD"
  BY <1>1, ProgramGoes DEF Shapes, Arg
<1>4. t # "echo"
  BY <1>1 DEF ToldInv, NoEcho
<1>5. /\ TellMain # TellDead /\ Tail(TellMain) = << >> /\ Tail(TellDead) = <<<<"shut">>>>
      /\ << >> \notin {TellMain, TellDead} /\ <<<<"shut">>>> \notin {TellMain, TellDead}
  BY Announcements
<1> HIDE DEF a, e
<1>6. Tail(prog[t]) \notin {TellMain, TellDead}
  BY <1>1, ProgramGoes DEF Shapes
<1>7. prog'["echo"] = prog["echo"] /\ NoEcho' /\ ClosedIsDead'
  BY <1>1, <1>2, <1>4, <1>t DEF ToldInv, NoEcho, ClosedIsDead
<1>8. CASE e \notin States
  <2>1. prog[t] \notin {TellMain, TellDead}
    BY <1>8, Announcements DEF e, Arg, States
  <2>2. told' = told /\ e # "MAIN"
    BY <1>1, <1>8 DEF States
  <2>3. /\ \A s \in {"serve", "switches"} : prog'[s] = TellDead <=> prog[s] = TellDead
        /\ prog'["serve"] = TellMain <=> prog["serve"] = TellMain
    BY <1>2, <1>6, <1>t, <2>1
  <2>4. Unregistered'
    <3>1. events["switches"] \in Seq(EventNames)
      BY <1>t DEF QueueShapes
    <3>2. events'["switches"] \in {events["switches"], Append(events["switches"], e)}
      BY <1>1, <1>3, <1>t DEF QueueShapes
    <3>3. \A i \in 1..Len(Append(events["switches"], e)) :
             \/ Append(events["switches"], e)[i] = e
             \/ /\ i \in 1..Len(events["switches"])
                /\ Append(events["switches"], e)[i] = events["switches"][i]
      BY <1>3, <3>1
    <3> QED BY <1>1, <2>2, <3>2, <3>3 DEF ToldInv, Unregistered
  <2>5. Quiet' /\ MainFirst'
    BY <1>1, <2>2, <2>3 DEF ToldInv, Quiet, MainFirst
  <2>6. DeadLast'
    BY <1>1, <2>2, <2>3 DEF ToldInv, DeadLast
  <2> QED BY <1>7, <2>4, <2>5, <2>6 DEF ToldInv
<1>9. CASE t = "serve" /\ prog[t] = TellMain /\ e = "MAIN"
  <2>1. told = << >> /\ state = "MAIN"
    BY <1>9 DEF ToldInv, MainFirst
  <2>2. told' # << >> /\ state' = "MAIN"
    BY <1>1, <1>9, <1>t, <2>1, LastAppend DEF States, Told, QueueShapes
  <2>3. prog'["serve"] = << >> /\ prog'["switches"] = prog["switches"]
    BY <1>2, <1>5, <1>9, <1>t
  <2>4. Quiet' /\ Unregistered'
    BY <2>2 DEF Quiet, Unregistered
  <2>5. MainFirst' /\ DeadLast'
    BY <1>1, <1>5, <2>1, <2>2, <2>3 DEF ToldInv, MainFirst, DeadLast
  <2> QED BY <1>7, <2>4, <2>5 DEF ToldInv
<1>10. CASE t # "multipath" /\ prog[t] = TellDead /\ e = "DEAD"
  <2>1. state = "DEAD" /\ t \in {"serve", "switches"}
    BY <1>4, <1>10, ThreadNames DEF ToldInv, DeadLast
  <2>2. told' # << >> /\ Last(told') = "DEAD" /\ state' = "DEAD"
    BY <1>1, <1>10, <1>t, <2>1, LastAppend DEF States, Told, QueueShapes
  <2>3. prog["serve"] # TellMain
    BY <2>1 DEF ToldInv, MainFirst
  <2>4. prog'["serve"] # TellMain
    BY <1>2, <1>6, <1>t, <2>3
  <2>5. Quiet' /\ Unregistered' /\ MainFirst' /\ DeadLast'
    BY <2>2, <2>4 DEF Quiet, Unregistered, MainFirst, DeadLast
  <2> QED BY <1>7, <2>5 DEF ToldInv
<1> QED BY <1>3, <1>8, <1>9, <1>10

LEMMA ToldServe ==
  ASSUME Shapes, ToldInv, Serve \/ RecvFails
  PROVE  ToldInv'
<1>t. ProgShapes /\ QueueShapes /\ {"serve", "send", "switches", "echo"} \subseteq Threads
  BY ThreadNames DEF Shapes
<1>a. /\ TellMain # TellDead /\ << >> \notin {TellMain, TellDead} /\ <<<<"shut">>>> \notin {TellMain, TellDead}
  BY Announcements
<1>b. pc["echo"] = "done" /\ prog["echo"] = << >>
  BY DEF ToldInv, NoEcho
<1>1. CASE RecvMessage
  <2>1. PICK p \in Handling : Then("serve", p)
    BY <1>1, RecvHandling
  <2>2. pc' = pc /\ \A s \in Threads : prog'[s] = IF s = "serve" THEN p ELSE prog[s]
    BY <1>t, <2>1, ThenProg
  <2>3. p \notin {TellMain, TellDead} /\ prog["serve"] = << >>
    BY <1>1, HandlingGoes DEF RecvMessage, Idle
  <2>4. UNCHANGED <<state, told, registered, events>>
    BY <1>1 DEF RecvMessage, dp, apps
  <2> QED BY <1>a, <1>t, <2>2, <2>3, <2>4, ToldUntouched
<1>2. CASE Handle
  <2>1. PICK p \in {<< >>, TellMain} \cup Sends :
           /\ Then("serve", p)
           /\ \/ state' = state /\ p # TellMain
              \/ state = "HANDSHAKE" /\ state' = "CONFIG" /\ p # TellMain
              \/ state = "CONFIG" /\ state' = "MAIN" /\ p = TellMain
    BY <1>2, HandleDoes
  <2>2. pc' = pc /\ \A s \in Threads : prog'[s] = IF s = "serve" THEN p ELSE prog[s]
    BY <1>t, <2>1, ThenProg
  <2>3. p # TellDead
    BY <1>a, SendsGoes, Announcements
  <2>4. prog["serve"] \notin {TellMain, TellDead} /\ pc["serve"] = "recv"
    BY <1>2, ProgramGoes, HandlingGoes, ThreadNames DEF Handle, Does, Idle, Shapes
  <2>5. UNCHANGED <<told, registered, events>>
    BY <1>2 DEF Handle, apps
  <2>6. CASE state' = state /\ p # TellMain
    BY <1>t, <2>2, <2>3, <2>4, <2>5, <2>6, ToldUntouched
  <2>7. CASE state \in {"HANDSHAKE", "CONFIG"} /\ state' \in {"CONFIG", "MAIN"}
               /\ (p = TellMain => state' = "MAIN")
    <3>1. told = << >> /\ prog["switches"] # TellDead
      BY <2>7 DEF ToldInv, Quiet, DeadLast
    <3>2. prog'["serve"] = p /\ prog'["switches"] # TellDead /\ prog'["echo"] = << >>
      BY <1>b, <1>t, <2>2, <3>1
    <3>3. Quiet' /\ MainFirst' /\ DeadLast'
      BY <2>3, <2>5, <2>7, <3>1, <3>2 DEF Quiet, MainFirst, DeadLast
    <3>4. Unregistered' /\ ClosedIsDead' /\ NoEcho'
      BY <1>b, <2>2, <2>4, <2>5, <3>2 DEF ToldInv, Unregistered, ClosedIsDead, NoEcho
    <3> QED BY <3>3, <3>4 DEF ToldInv
  <2> QED BY <2>1, <2>6, <2>7
<1>3. CASE RecvEnds \/ RecvFails
  <2>1. \A s \in Threads : prog'[s] = IF s \in {"serve", "send"} THEN << >> ELSE prog[s]
    BY <1>3, <1>t DEF RecvEnds, RecvFails, KillSend, ProgShapes
  <2>2. pc'["serve"] = "kill" /\ pc'["echo"] = pc["echo"]
    BY <1>3, <1>t DEF RecvEnds, RecvFails, KillSend, ProgShapes
  <2>3. UNCHANGED <<state, told, registered, events>>
    BY <1>3 DEF RecvEnds, RecvFails, KillSend, apps
  <2>4. prog["serve"] \notin {TellMain, TellDead}
    <3>1. CASE prog["serve"] = << >>
      BY <1>a, <3>1
    <3>2. CASE prog["serve"] # << >>
      <4>1. Head(prog["serve"])[1] = "handle" /\ "serve" \in Callers
        BY <1>3, <3>2, ThreadNames DEF RecvEnds, RecvFails, Idle, Does
      <4>2. prog["serve"] \in Handling
        BY <1>t, <3>2, <4>1, ProgramGoes
      <4> QED BY <4>2, HandlingGoes
    <3> QED BY <3>1, <3>2
  <2> QED BY <1>a, <1>t, <2>1, <2>2, <2>3, <2>4, ToldUntouched
<1>4. CASE KillEcho
  <2>1. \A s \in Threads : prog'[s] = prog[s]
    BY <1>4, <1>b, <1>t DEF KillEcho, ProgShapes
  <2>2. pc'["serve"] = "close" /\ pc'["echo"] = pc["echo"]
    BY <1>4, <1>b, <1>t DEF KillEcho, ProgShapes
  <2>3. UNCHANGED <<state, told, registered, events>>
    BY <1>4 DEF KillEcho, dp, apps
  <2> QED BY <1>t, <2>1, <2>2, <2>3, ToldUntouched
<1>5. CASE close
  <2> DEFINE p == AndThen("DEAD", <<<<"shut">>>>)
  <2>1. p = IF state = "DEAD" THEN <<<<"shut">>>> ELSE TellDead
    BY AndThenCases
  <2>2. /\ pc' = [pc EXCEPT !["serve"] = "done"] /\ prog' = [prog EXCEPT !["serve"] = p]
        /\ state' = "DEAD" /\ UNCHANGED <<told, registered, events>>
    BY <1>5 DEF close, Goes, set_state, apps
  <2>3. prog["serve"] = << >>
    BY <1>5, <1>t DEF close, ProgShapes
  <2> HIDE DEF p
  <2>4. prog'["serve"] = p /\ prog'["switches"] = prog["switches"] /\ prog'["echo"] = prog["echo"]
        /\ pc'["echo"] = pc["echo"]
    BY <1>t, <2>2 DEF ProgShapes
  <2>5. Quiet' /\ ClosedIsDead' /\ NoEcho' /\ Unregistered'
    BY <1>b, <2>2, <2>4 DEF ToldInv, Quiet, ClosedIsDead, NoEcho, Unregistered
  <2>6. MainFirst'
    BY <1>a, <2>1, <2>4 DEF MainFirst
  <2>7. DeadLast'
    <3>1. CASE state = "DEAD"
      BY <1>a, <2>2, <2>3, <2>4, <3>1 DEF ToldInv, DeadLast
    <3>2. CASE state # "DEAD"
      BY <2>1, <2>2, <2>4, <3>2 DEF DeadLast
    <3> QED BY <3>1, <3>2
  <2> QED BY <2>5, <2>6, <2>7 DEF ToldInv
<1> QED BY <1>1, <1>2, <1>3, <1>4, <1>5 DEF Serve

(***************************************************************************)
(* "switches" takes an event, or gets the news of a second connection.     *)
(***************************************************************************)
LEMMA ToldSwitches ==
  ASSUME Shapes, ToldInv, SwitchesHandles
  PROVE  ToldInv'
<1> DEFINE s == events["switches"]
<1>t. ProgShapes /\ QueueShapes /\ {"serve", "send", "switches", "echo"} \subseteq Threads
      /\ "switches" \in Apps
  BY ThreadNames DEF Shapes
<1>a. /\ TellMain # TellDead /\ << >> \notin {TellMain, TellDead} /\ <<<<"shut">>>> \notin {TellMain, TellDead}
      /\ Topology \notin {TellMain, TellDead}
  BY Announcements
<1>b. pc["echo"] = "done" /\ prog["echo"] = << >>
  BY DEF ToldInv, NoEcho
<1>1. s \in Seq(EventNames) /\ s # << >> /\ events'["switches"] = Tail(s) /\ prog["switches"] = << >>
      /\ told' = told
  BY <1>t DEF SwitchesHandles, QueueShapes, Idle
<1>2. /\ registered' => registered \/ Head(s) = "MAIN"
      /\ Head(s) = s[1] /\ 1 \in 1..Len(s)
      /\ \A i \in 1..Len(Tail(s)) : i + 1 \in 1..Len(s) /\ Tail(s)[i] = s[i + 1]
  <2>1. registered' => registered \/ Head(s) = "MAIN"
    BY DEF SwitchesHandles
  <2>2. Head(s) = s[1] /\ 1 \in 1..Len(s) /\ \A i \in 1..Len(Tail(s)) : i + 1 \in 1..Len(s) /\ Tail(s)[i] = s[i + 1]
    BY <1>1
  <2> QED BY <2>1, <2>2
<1>3. Unregistered'
  BY <1>1, <1>2 DEF ToldInv, Unregistered
<1>4. ASSUME NEW p, Then("switches", p), p \notin {TellMain, TellDead}, state' = state
      PROVE  ToldInv'
  <2>1. pc' = pc /\ \A t \in Threads : prog'[t] = IF t = "switches" THEN p ELSE prog[t]
    BY <1>4, <1>t, ThenProg
  <2>2. prog'["serve"] = prog["serve"] /\ prog'["switches"] = p /\ prog'["echo"] = prog["echo"]
    BY <1>t, <2>1
  <2>3. Quiet' /\ MainFirst' /\ ClosedIsDead' /\ NoEcho'
    BY <1>1, <1>4, <2>1, <2>2 DEF ToldInv, Quiet, MainFirst, ClosedIsDead, NoEcho
  <2>4. DeadLast'
    BY <1>1, <1>4, <1>a, <2>2 DEF ToldInv, DeadLast
  <2> QED BY <1>3, <2>3, <2>4 DEF ToldInv
<1>5. CASE /\ Head(s) = "new" /\ registered
           /\ set_state("DEAD") /\ Then("switches", AndThen("DEAD", <<<<"shut">>>>))
  <2>1. CASE state = "DEAD"
    BY <1>4, <1>5, <1>a, <2>1, AndThenCases DEF set_state
  <2>2. CASE state # "DEAD"
    <3>1. Then("switches", TellDead) /\ state' = "DEAD"
      BY <1>5, <2>2, AndThenCases DEF set_state
    <3>2. pc' = pc /\ \A t \in Threads : prog'[t] = IF t = "switches" THEN TellDead ELSE prog[t]
      BY <1>t, <3>1, ThenProg
    <3>3. prog'["serve"] = prog["serve"] /\ prog'["switches"] = TellDead /\ prog'["echo"] = prog["echo"]
      BY <1>t, <3>2
    <3>4. told # << >>
      BY <1>5 DEF ToldInv, Unregistered
    <3>5. prog["serve"] # TellMain
      BY <3>4 DEF ToldInv, MainFirst
    <3>6. Quiet' /\ MainFirst' /\ ClosedIsDead' /\ NoEcho'
      BY <1>b, <3>1, <3>2, <3>3, <3>5 DEF Quiet, MainFirst, ClosedIsDead, NoEcho
    <3>7. DeadLast'
      BY <3>1, <3>3 DEF DeadLast
    <3> QED BY <1>3, <3>6, <3>7 DEF ToldInv
  <2> QED BY <2>1, <2>2
<1>6. CASE UNCHANGED state /\ (Then("switches", << >>) \/ Then("switches", Topology))
  <2>1. CASE Then("switches", << >>)
    <3>1. state' = state /\ << >> \notin {TellMain, TellDead}
      BY <1>6, <1>a
    <3> QED BY <1>4, <2>1, <3>1, Zenon
  <2>2. CASE Then("switches", Topology)
    <3>1. state' = state /\ Topology \notin {TellMain, TellDead}
      BY <1>6, <1>a
    <3> QED BY <1>4, <2>2, <3>1, Zenon
  <2> QED BY <1>6, <2>1, <2>2
<1> QED BY <1>5, <1>6 DEF SwitchesHandles, Topology

LEMMA ToldStep ==
  ASSUME Shapes, ToldInv, [Next]_vars
  PROVE  ToldInv'
<1>t. ProgShapes /\ QueueShapes /\ {"serve", "send", "switches", "echo"} \subseteq Threads
      /\ "switches" \in Apps
  BY ThreadNames DEF Shapes
<1>1. CASE SendLoop
  <2>1. \A t \in Threads : t # "send" => prog'[t] = prog[t] /\ pc'[t] = pc[t]
    BY <1>1, <1>t DEF SendLoop, SendGet, SendAll, SendFails, Goes, ProgShapes
  <2>2. UNCHANGED <<state, told, registered, events>>
    BY <1>1 DEF SendLoop, SendGet, SendAll, SendFails, apps
  <2> QED BY <1>t, <2>1, <2>2, ToldUntouched
<1>2. CASE EchoLoop
  BY <1>2 DEF EchoLoop, EchoRequest, EchoWakes, EchoCloses, ToldInv, NoEcho
<1>3. CASE MultipathHandles
  <2>1. pc' = pc /\ \A t \in Threads : t # "multipath" => prog'[t] = prog[t]
    BY <1>3, <1>t DEF MultipathHandles, Then, ProgShapes
  <2>2. UNCHANGED <<state, told, registered>> /\ events'["switches"] = events["switches"]
    BY <1>3, <1>t DEF MultipathHandles, dp, QueueShapes
  <2> QED BY <1>t, <2>1, <2>2, ToldUntouched
<1>4. CASE SwitchAnswers \/ SwitchSends \/ SwitchCloses \/ UNCHANGED vars
  BY <1>4, ToldUntouched DEF SwitchAnswers, SwitchSends, SwitchCloses, vars, dp, apps
<1>5. CASE ConnectsAgain
  <2> DEFINE s == events["switches"]
  <2>1. UNCHANGED <<state, told, registered, pc, prog>>
    BY <1>5 DEF ConnectsAgain, dp
  <2>2. s \in Seq(EventNames) /\ events'["switches"] = Append(s, "new")
    BY <1>5, <1>t DEF ConnectsAgain, QueueShapes
  <2>3. \A i \in 1..Len(Append(s, "new")) :
          Append(s, "new")[i] = "new" \/ (i \in 1..Len(s) /\ Append(s, "new")[i] = s[i])
    BY <2>2
  <2>4. Unregistered'
    BY <2>1, <2>2, <2>3 DEF ToldInv, Unregistered
  <2>5. Quiet' /\ MainFirst' /\ DeadLast' /\ ClosedIsDead' /\ NoEcho'
    BY <2>1 DEF ToldInv, Quiet, MainFirst, DeadLast, ClosedIsDead, NoEcho
  <2> QED BY <2>4, <2>5 DEF ToldInv
<1>6. ASSUME NEW t \in Callers, send(t) \/ _close_write(t) PROVE ToldInv'
  <2>1. /\ prog[t] # << >> /\ Head(prog[t])[1] \in {"send", "shut"} /\ Then(t, Tail(prog[t]))
        /\ UNCHANGED <<state, told, registered, events>>
    BY <1>6 DEF send, _close_write, Does, Idle, apps
  <2>2. prog[t] \notin {TellMain, TellDead}
    BY <2>1, Announcements
  <2>3. Tail(prog[t]) \notin {TellMain, TellDead}
    BY <2>1, <1>t, ProgramGoes
  <2>4. t \in Threads /\ t # "echo"
    BY <2>1, ThreadNames DEF ToldInv, NoEcho
  <2>5. pc' = pc /\ \A r \in Threads : prog'[r] = IF r = t THEN Tail(prog[t]) ELSE prog[r]
    BY <1>t, <2>1, <2>4, ThenProg
  <2> QED BY <1>t, <2>1, <2>2, <2>3, <2>4, <2>5, ToldUntouched
<1> QED BY <1>1, <1>2, <1>3, <1>4, <1>5, <1>6, ToldEvent, ToldServe, ToldSwitches
        DEF Next, Switch, Waits

LEMMA SetupFixed == [Next]_vars => setup' = setup
BY DEF Next, SendLoop, SendGet, SendAll, SendFails, Serve, RecvMessage, Handle, RecvEnds, RecvFails,
       KillSend, KillEcho,
       close, EchoLoop, EchoRequest, EchoWakes, EchoCloses, SwitchesHandles, MultipathHandles,
       Switch, SwitchAnswers, SwitchSends, SwitchCloses, ConnectsAgain, Waits, _send_event, send,
       _close_write, vars, switch

(***************************************************************************)
(* The end of a connection is announced to its observers, wherever serve,  *)
(* the applications and the switch are when it comes, and whoever closes   *)
(* it, if there is no echo thread (as in the deployment).                  *)
(***************************************************************************)
THEOREM DeathIsAnnounced == Spec => []DeadAnnounced
<1>1. Init => (setup.echo = 0 => ToldInv)
  <2> SUFFICES ASSUME Init, setup.echo = 0 PROVE ToldInv
    OBVIOUS
  <2>1. /\ state = "HANDSHAKE" /\ told = << >> /\ ~registered /\ events["switches"] = << >>
        /\ \A t \in {"serve", "switches", "echo"} : prog[t] = << >>
        /\ pc["serve"] = "recv" /\ pc["echo"] = "done"
    BY ThreadNames DEF Init
  <2>2. << >> \notin {TellMain, TellDead} /\ Len(<< >>) = 0
    BY Announcements
  <2>3. Unregistered
    BY <2>1, <2>2 DEF Unregistered
  <2>4. Quiet /\ MainFirst /\ DeadLast /\ ClosedIsDead /\ NoEcho
    BY <2>1, <2>2 DEF Quiet, MainFirst, DeadLast, ClosedIsDead, NoEcho
  <2> QED BY <2>3, <2>4 DEF ToldInv
<1>2. Shapes /\ (setup.echo = 0 => ToldInv) /\ [Next]_vars => (setup.echo = 0 => ToldInv)'
  BY ToldStep, SetupFixed
<1>3. Shapes /\ (setup.echo = 0 => ToldInv) => DeadAnnounced
  <2> SUFFICES ASSUME Shapes, ToldInv, pc["serve"] = "done", \A t \in Threads : ~Telling(t)
               PROVE  told = << >> \/ Last(told) = "DEAD"
    BY DEF DeadAnnounced
  <2>1. ASSUME NEW t \in {"serve", "switches"}, prog[t] = TellDead PROVE FALSE
    <3>1. TellDead[1] = <<"event", "switches", "DEAD">> /\ 1 \in DOMAIN TellDead
      BY DEF TellDead
    <3>2. TellDead[1][1] = "event"
      BY <3>1
    <3>3. t \in Threads
      BY ThreadNames
    <3> QED BY <2>1, <3>1, <3>2, <3>3 DEF Telling
  <2> QED BY <2>1 DEF ToldInv, DeadLast, ClosedIsDead
<1> QED BY <1>1, <1>2, <1>3, ShapesAlways, PTL DEF Spec
=============================================================================
