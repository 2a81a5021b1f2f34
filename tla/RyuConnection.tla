--------------------------- MODULE RyuConnection ---------------------------
(***************************************************************************)
(* One connection of a switch to the controller: the Datapath object with  *)
(* its receiving, sending and echo threads (controller/controller.py), the *)
(* handlers of OFPHandler that lead it from HANDSHAKE to MAIN              *)
(* (controller/ofp_handler.py), and the event loops of the two             *)
(* applications of the deployment with their bounded queues                *)
(* (base/app_manager.py): "switches" (topology/switches.py), which is told *)
(* the state of the connection, and "multipath" (app/ryu_multipath.py),    *)
(* which sends to the switch.                                              *)
(*                                                                         *)
(* The threads are greenlets: they run until they wait.  So a step here is *)
(* what a thread does between two points where it may wait, and prog[t]    *)
(* holds the calls that may wait and that thread t has still to make       *)
(* before it is back in its loop:                                          *)
(*   <<"event", a, e>>  _send_event of e to application a                  *)
(*   <<"send", m>>      Datapath.send of message m                         *)
(*   <<"handle", m>>    OFPHandler's handler of message m                  *)
(*   <<"shut">>         _close_write                                       *)
(***************************************************************************)
EXTENDS Integers, SequencesExt

CONSTANTS
  SEND_Q,       \* size of send_q (16 in the code)
  EVENTS,       \* size of an application's events queue (128 in the code)
  Setups        \* what a connection may be set up with (setup, below)

ASSUME ConnectionConstants ==
  /\ SEND_Q \in Nat \ {0} /\ EVENTS \in Nat \ {0}
  /\ Setups \subseteq [echo : Nat, version : Nat, packets : Nat, sends : Nat, news : Nat]

VARIABLES
  state,         \* Datapath.state
  send_q, open,  \* Datapath.send_q; open: it is not None
  sem,           \* the counter of _send_q_sem
  unreplied,     \* how many unreplied_echo_requests there are
  shut,          \* the controller's half of the connection is closed
  events,        \* RyuApp.events of the two applications
  registered,    \* Switches.dps holds this datapath
  told,          \* the states "switches" was told, in order
  pc, prog,      \* where each thread is
  inbox, eof,    \* what the switch sent, and whether it closed its half
  asked,         \* requests the switch has got and not answered
  packets, sends, news,
  setup          \* echo: max_unreplied_echo_requests, 0 if there is no echo
                 \* thread; version: the version agreed upon (4 is OpenFlow
                 \* 1.3); and bounds: the packets the switch sends up, the
                 \* messages the multipath application sends, and further
                 \* connections of the same switch

dp == <<state, send_q, open, sem, unreplied, shut>>
apps == <<events, registered, told>>
switch == <<inbox, eof, asked, packets, setup>>
vars == <<dp, apps, pc, prog, switch, sends, news>>

Apps == {"switches", "multipath"}
Threads == {"serve", "send", "echo"} \cup Apps
States == {"HANDSHAKE", "CONFIG", "MAIN", "DEAD"}
Requests == {"features_request", "port_desc_request", "echo_request"}
Messages == Requests \cup {"hello", "error", "echo_reply", "flow_mod"}

(***************************************************************************)
(* serve: the sending thread starts and the hello is queued; the switch    *)
(* says hello too.                                                         *)
(***************************************************************************)
Init ==
  /\ setup \in Setups
  /\ state = "HANDSHAKE"
  /\ send_q = <<"hello">> /\ open = TRUE /\ sem = SEND_Q - 1
  /\ unreplied = 0 /\ shut = FALSE
  /\ events = [a \in Apps |-> << >>] /\ registered = FALSE /\ told = << >>
  /\ pc = [t \in Threads |->
             CASE t = "serve" -> "recv"
               [] t = "send" -> "get"
               [] t = "echo" -> IF setup.echo = 0 THEN "done" ELSE "top"
               [] OTHER -> "get"]
  /\ prog = [t \in Threads |-> << >>]
  /\ inbox \in {<<"hello">>, <<"bad_hello">>} /\ eof = FALSE /\ asked = << >>
  /\ packets = 0 /\ sends = 0 /\ news = 0

-----------------------------------------------------------------------------
(***************************************************************************)
(* What a thread does next.                                                *)
(***************************************************************************)
Idle(t) == prog[t] = << >>
Does(t, op) == ~Idle(t) /\ Head(prog[t])[1] = op
Arg(t, i) == Head(prog[t])[i]
Goes(t, where, todo) == pc' = [pc EXCEPT ![t] = where] /\ prog' = [prog EXCEPT ![t] = todo]
Then(t, todo) == prog' = [prog EXCEPT ![t] = todo] /\ UNCHANGED pc

(***************************************************************************)
(* Datapath.set_state, called by thread t that is to do rest afterwards:   *)
(* "switches" observes MAIN and DEAD.                                      *)
(***************************************************************************)
Notify(s) == IF s \in {"MAIN", "DEAD"} THEN <<<<"event", "switches", s>>>> ELSE << >>
AndThen(s, rest) == (IF state = s THEN << >> ELSE Notify(s)) \o rest
set_state(s) == state' = s

(***************************************************************************)
(* RyuApp._send_event waits for room in the application's queue.           *)
(***************************************************************************)
_send_event(t) ==
  /\ Does(t, "event")
  /\ Len(events[Arg(t, 2)]) < EVENTS
  /\ events' = [events EXCEPT ![Arg(t, 2)] = Append(@, Arg(t, 3))]
  /\ told' = IF Arg(t, 3) \in States THEN Append(told, Arg(t, 3)) ELSE told
  /\ Then(t, Tail(prog[t]))
  /\ UNCHANGED <<dp, registered, switch, sends, news>>

(***************************************************************************)
(* Datapath.send gone wrong: a discarded message keeps its permit.         *)
(***************************************************************************)
SendKeepsPermit(t) ==
  /\ Does(t, "send")
  /\ sem > 0 /\ sem' = sem - 1
  /\ send_q' = IF open THEN Append(send_q, Arg(t, 2)) ELSE send_q
  /\ Then(t, Tail(prog[t]))
  /\ UNCHANGED <<state, open, unreplied, shut, apps, switch, sends, news>>

(***************************************************************************)
(* Datapath.send waits for a permit, and discards the message when the     *)
(* sending thread has ended.                                               *)
(***************************************************************************)
send(t) ==
  /\ Does(t, "send")
  /\ sem > 0
  /\ IF open THEN sem' = sem - 1 /\ send_q' = Append(send_q, Arg(t, 2))
             ELSE UNCHANGED <<sem, send_q>>
  /\ Then(t, Tail(prog[t]))
  /\ UNCHANGED <<state, open, unreplied, shut, apps, switch, sends, news>>

_close_write(t) ==
  /\ Does(t, "shut")
  /\ shut' = TRUE
  /\ Then(t, Tail(prog[t]))
  /\ UNCHANGED <<state, send_q, open, sem, unreplied, apps, switch, sends, news>>

-----------------------------------------------------------------------------
(***************************************************************************)
(* The observers of a message (their set_ev_cls decorators).               *)
(***************************************************************************)
Observers(m) ==
  CASE m = "features" /\ state = "CONFIG" -> <<<<"event", "multipath", m>>>>
    [] m = "port_desc" /\ state = "MAIN" -> <<<<"event", "multipath", m>>>>
    [] m = "packet_in" /\ state = "MAIN" ->
         <<<<"event", "switches", m>>, <<"event", "multipath", m>>>>
    [] OTHER -> << >>

(***************************************************************************)
(* _recv_loop takes a message: the observers are told, then the handlers   *)
(* for the state the connection is then in are called.                     *)
(***************************************************************************)
RecvMessage ==
  /\ pc["serve"] = "recv" /\ Idle("serve") /\ inbox # << >>
  /\ Then("serve", Observers(Head(inbox)) \o <<<<"handle", Head(inbox)>>>>)
  /\ inbox' = Tail(inbox)
  /\ UNCHANGED <<dp, apps, eof, asked, packets, setup, sends, news>>

(***************************************************************************)
(* hello_handler gone wrong: the request is sent before the state changes. *)
(***************************************************************************)
HelloSendsFirst ==
  /\ \/ /\ Arg("serve", 2) = "hello" /\ state = "HANDSHAKE"
        /\ Then("serve", <<<<"send", "features_request">>, <<"handle", "sent">>>>)
        /\ UNCHANGED state
     \/ /\ Arg("serve", 2) = "sent"
        /\ set_state("CONFIG")
        /\ Then("serve", << >>)
  /\ UNCHANGED unreplied

(***************************************************************************)
(* The handlers of OFPHandler.  A hello is acceptable or not; on which     *)
(* version the two agree is part of the setup.                             *)
(***************************************************************************)
hello_handler ==
  /\ state = "HANDSHAKE"
  /\ \/ /\ Arg("serve", 2) = "bad_hello"
        /\ Then("serve", <<<<"send", "error">>>>)
        /\ UNCHANGED <<state, unreplied>>
     \/ /\ Arg("serve", 2) = "hello"
        /\ set_state("CONFIG")
        /\ Then("serve", AndThen("CONFIG", <<<<"send", "features_request">>>>))
        /\ UNCHANGED unreplied

switch_features_handler ==
  /\ Arg("serve", 2) = "features" /\ state = "CONFIG"
  /\ IF setup.version < 4
     THEN set_state("MAIN") /\ Then("serve", AndThen("MAIN", << >>))
     ELSE Then("serve", <<<<"send", "port_desc_request">>>>) /\ UNCHANGED state
  /\ UNCHANGED unreplied

multipart_reply_handler ==
  /\ Arg("serve", 2) \in {"port_desc_more", "port_desc"} /\ state = "CONFIG"
  /\ IF Arg("serve", 2) = "port_desc"
     THEN set_state("MAIN") /\ Then("serve", AndThen("MAIN", << >>))
     ELSE Then("serve", << >>) /\ UNCHANGED state
  /\ UNCHANGED unreplied

echo_request_handler ==
  /\ Arg("serve", 2) = "echo_request" /\ state # "DEAD"
  /\ Then("serve", <<<<"send", "echo_reply">>>>)
  /\ UNCHANGED <<state, unreplied>>

echo_reply_handler ==
  /\ Arg("serve", 2) = "echo_reply" /\ state # "DEAD"
  /\ unreplied' = unreplied - 1
  /\ Then("serve", << >>)
  /\ UNCHANGED state

NoHandler ==
  /\ LET m == Arg("serve", 2) IN
       \/ state = "DEAD" \/ m = "packet_in"
       \/ m \in {"hello", "bad_hello"} /\ state # "HANDSHAKE"
       \/ m \in {"features", "port_desc_more", "port_desc"} /\ state # "CONFIG"
  /\ Then("serve", << >>)
  /\ UNCHANGED <<state, unreplied>>

Handle ==
  /\ Does("serve", "handle")
  /\ \/ hello_handler \/ switch_features_handler \/ multipart_reply_handler
     \/ echo_request_handler \/ echo_reply_handler \/ NoHandler
  /\ UNCHANGED <<send_q, open, sem, shut, apps, switch, sends, news>>

-----------------------------------------------------------------------------
(***************************************************************************)
(* The end of _send_loop gone wrong: send_q keeps its reference.           *)
(***************************************************************************)
QueueStays ==
  /\ send_q' = << >> /\ sem' = sem + Len(send_q)
  /\ shut' = TRUE
  /\ UNCHANGED open

(***************************************************************************)
(* The end of _send_loop gone wrong: the permits are not given back.       *)
(***************************************************************************)
PermitsStay ==
  /\ open' = FALSE
  /\ send_q' = << >> /\ shut' = TRUE
  /\ UNCHANGED sem

(***************************************************************************)
(* The end of _send_loop: no new references, the queue is drained and the  *)
(* permits of its messages are given back, no further sends.               *)
(***************************************************************************)
Drain ==
  /\ open' = FALSE
  /\ send_q' = << >> /\ sem' = sem + Len(send_q)
  /\ shut' = TRUE

(***************************************************************************)
(* _send_loop takes a message; sendall succeeds, or fails because the      *)
(* switch does not read (SocketTimeout) or is gone (IOError).              *)
(***************************************************************************)
SendGet ==
  /\ pc["send"] = "get" /\ send_q # << >>
  /\ send_q' = Tail(send_q) /\ sem' = sem + 1
  /\ Goes("send", "sendall", <<<<"sendall", Head(send_q)>>>>)
  /\ UNCHANGED <<state, open, unreplied, shut, apps, switch, sends, news>>

SendAll ==
  LET m == Arg("send", 2) IN
  /\ pc["send"] = "sendall" /\ ~eof
  /\ asked' = IF m \in Requests THEN Append(asked, m) ELSE asked
  /\ IF m = "error" \/ state = "DEAD"
     THEN Drain /\ Goes("send", "done", << >>)
     ELSE UNCHANGED <<open, send_q, sem, shut>> /\ Goes("send", "get", << >>)
  /\ UNCHANGED <<state, unreplied, apps, inbox, eof, packets, setup, sends, news>>

SendFails ==
  /\ pc["send"] = "sendall"
  /\ Drain /\ Goes("send", "done", << >>)
  /\ UNCHANGED <<state, unreplied, apps, switch, sends, news>>

(***************************************************************************)
(* _echo_request_loop: a request for every interval, until too many are    *)
(* unreplied or the sending thread has ended.                              *)
(***************************************************************************)
EchoRequest ==
  /\ pc["echo"] = "top" /\ open /\ unreplied <= setup.echo
  /\ unreplied' = unreplied + 1
  /\ Goes("echo", "sleep", <<<<"send", "echo_request">>>>)
  /\ UNCHANGED <<state, send_q, open, sem, shut, apps, switch, sends, news>>

EchoWakes ==
  /\ pc["echo"] = "sleep" /\ Idle("echo")
  /\ Goes("echo", "top", << >>)
  /\ UNCHANGED <<dp, apps, switch, sends, news>>

EchoCloses ==
  /\ pc["echo"] = "top" /\ ~(open /\ unreplied <= setup.echo)
  /\ set_state("DEAD")
  /\ Goes("echo", "done", AndThen("DEAD", <<<<"shut">>>>))
  /\ UNCHANGED <<send_q, open, sem, unreplied, shut, apps, switch, sends, news>>

-----------------------------------------------------------------------------
(***************************************************************************)
(* _recv_loop has ended in some way: serve kills the sending thread, whose *)
(* finally clause runs, and then the echo thread, wherever it is; then the *)
(* connection factory closes the datapath.                                 *)
(***************************************************************************)
KillSend ==
  /\ pc' = [pc EXCEPT !["serve"] = "kill", !["send"] = "done"]
  /\ prog' = [prog EXCEPT !["serve"] = << >>, !["send"] = << >>]
  /\ IF pc["send"] = "done" THEN UNCHANGED <<open, send_q, sem, shut>> ELSE Drain
  /\ UNCHANGED <<state, unreplied, apps, switch, sends, news>>

(***************************************************************************)
(* The switch has closed (recv may fail before all that it sent was read), *)
(* or the state is DEAD, which is noticed when recv times out.             *)
(***************************************************************************)
RecvEnds ==
  /\ pc["serve"] = "recv" /\ Idle("serve")
  /\ state = "DEAD" \/ eof
  /\ KillSend

(***************************************************************************)
(* An exception of the parser, or of a handler of OFPHandler.              *)
(***************************************************************************)
RecvFails ==
  /\ pc["serve"] = "recv"
  /\ (Idle("serve") /\ inbox # << >>) \/ Does("serve", "handle")
  /\ KillSend

KillEcho ==
  /\ pc["serve"] = "kill"
  /\ pc' = [pc EXCEPT !["serve"] = "close", !["echo"] = "done"]
  /\ prog' = [prog EXCEPT !["echo"] = << >>]
  /\ UNCHANGED <<dp, apps, switch, sends, news>>

(***************************************************************************)
(* datapath_connection_factory gone wrong: it does not close the datapath. *)
(***************************************************************************)
FactoryForgets ==
  /\ pc["serve"] = "close"
  /\ Goes("serve", "done", << >>)
  /\ UNCHANGED <<dp, apps, switch, sends, news>>

close ==
  /\ pc["serve"] = "close"
  /\ set_state("DEAD")
  /\ Goes("serve", "done", AndThen("DEAD", <<<<"shut">>>>))
  /\ UNCHANGED <<send_q, open, sem, unreplied, shut, apps, switch, sends, news>>

-----------------------------------------------------------------------------
(***************************************************************************)
(* _event_loop of the applications.  Switches registers the datapath, and  *)
(* closes it when the same switch connects again ("new"); it tells         *)
(* multipath of what it finds out.  The handlers of multipath send to the  *)
(* switch.                                                                 *)
(***************************************************************************)
SwitchesHandles ==
  LET ev == Head(events["switches"]) IN
  /\ Idle("switches") /\ events["switches"] # << >>
  /\ events' = [events EXCEPT !["switches"] = Tail(@)]
  /\ IF ev = "new" /\ registered
     THEN set_state("DEAD") /\ Then("switches", AndThen("DEAD", <<<<"shut">>>>))
     ELSE /\ UNCHANGED state
          /\ \/ Then("switches", << >>)
             \/ Then("switches", <<<<"event", "multipath", "topology">>>>)
  /\ registered' = (ev = "MAIN" \/ (registered /\ ev \notin {"DEAD", "new"}))
  /\ UNCHANGED <<send_q, open, sem, unreplied, shut, told, switch, sends, news>>

MultipathHandles ==
  /\ Idle("multipath") /\ events["multipath"] # << >>
  /\ events' = [events EXCEPT !["multipath"] = Tail(@)]
  /\ \/ Then("multipath", << >>) /\ UNCHANGED sends
     \/ /\ sends < setup.sends /\ sends' = sends + 1
        /\ Then("multipath", <<<<"send", "flow_mod">>>>)
  /\ UNCHANGED <<dp, registered, told, switch, news>>

(***************************************************************************)
(* The switch (external): it answers, sends packets and echo requests up,  *)
(* closes, and connects a second time, which another thread announces.     *)
(***************************************************************************)
Answer(m) == CASE m = "features_request" -> {<<"features">>}
               [] m = "port_desc_request" -> {<<"port_desc_more", "port_desc">>, <<"port_desc">>}
               [] m = "echo_request" -> {<<"echo_reply">>}

SwitchAnswers ==
  /\ asked # << >> /\ ~eof
  /\ \E ms \in Answer(Head(asked)) : inbox' = inbox \o ms
  /\ asked' = Tail(asked)
  /\ UNCHANGED <<dp, apps, pc, prog, eof, packets, setup, sends, news>>

SwitchSends ==
  /\ packets < setup.packets /\ ~eof
  /\ packets' = packets + 1
  /\ \E m \in {"packet_in", "echo_request"} : inbox' = Append(inbox, m)
  /\ UNCHANGED <<dp, apps, pc, prog, eof, asked, setup, sends, news>>

SwitchCloses ==
  /\ ~eof /\ eof' = TRUE
  /\ UNCHANGED <<dp, apps, pc, prog, inbox, asked, packets, setup, sends, news>>

ConnectsAgain ==
  /\ news < setup.news /\ news' = news + 1
  /\ Len(events["switches"]) < EVENTS
  /\ events' = [events EXCEPT !["switches"] = Append(@, "new")]
  /\ UNCHANGED <<dp, registered, told, pc, prog, switch, sends>>

-----------------------------------------------------------------------------
SendLoop == SendGet \/ SendAll \/ SendFails
Serve == RecvMessage \/ Handle \/ RecvEnds \/ KillEcho \/ close
EchoLoop == EchoRequest \/ EchoWakes \/ EchoCloses
Callers == Threads \ {"send"}
Waits(t) == _send_event(t) \/ send(t) \/ _close_write(t)
Switch == SwitchAnswers \/ SwitchSends \/ SwitchCloses \/ ConnectsAgain
Next == \/ SendLoop \/ Serve \/ RecvFails \/ EchoLoop \/ SwitchesHandles \/ MultipathHandles
        \/ Switch \/ \E t \in Callers : Waits(t)
Spec == Init /\ [][Next]_vars

(***************************************************************************)
(* Every greenlet that can run runs some time, recv and sendall end by the *)
(* socket timeout, and a semaphore serves those who wait in turn.  Nothing *)
(* is assumed of the switch.                                               *)
(***************************************************************************)
FairSpec ==
  /\ Spec
  /\ WF_vars(SendLoop) /\ SF_vars(RecvEnds) /\ WF_vars(Serve) /\ WF_vars(EchoLoop)
  /\ WF_vars(SwitchesHandles) /\ WF_vars(MultipathHandles)
  /\ \A t \in Callers : SF_vars(Waits(t))

-----------------------------------------------------------------------------
(***************************************************************************)
(* The types of the variables.                                             *)
(***************************************************************************)
TypeOK ==
  /\ state \in States /\ open \in BOOLEAN /\ shut \in BOOLEAN
  /\ sem \in 0..SEND_Q /\ send_q \in Seq(Messages)
  /\ unreplied \in 0..(setup.echo + 1)
  /\ \A a \in Apps : Len(events[a]) <= EVENTS
  /\ registered \in BOOLEAN /\ told \in Seq({"MAIN", "DEAD"})

(***************************************************************************)
(* The semaphore and the queue go together (send, _send_loop): every       *)
(* permit that is not free belongs to a message in send_q, also after the  *)
(* sending thread has ended in any way.                                    *)
(***************************************************************************)
Permits == sem + Len(send_q) = SEND_Q

(***************************************************************************)
(* A dead connection stays dead, although close may be called between any  *)
(* two steps of the handshake (set_state).                                 *)
(***************************************************************************)
DeadIsFinal == [][state = "DEAD" => state' = "DEAD"]_vars

(***************************************************************************)
(* EventOFPStateChange is "sent to observer after changing the negotiation *)
(* phase" (ofp_event.py, line 112): when the connection has been closed    *)
(* and nobody is still waiting to tell, an observer that was told MAIN has *)
(* been told DEAD last.  (Not so with an echo thread: it may be killed     *)
(* after it has set the state and before it has told anyone.)              *)
(***************************************************************************)
Telling(t) == \E i \in DOMAIN prog[t] : prog[t][i][1] = "event"
DeadAnnounced ==
  (setup.echo = 0 /\ pc["serve"] = "done" /\ \A t \in Threads : ~Telling(t))
    => (told = << >> \/ Last(told) = "DEAD")

(***************************************************************************)
(* Nobody waits forever: not for the queue of an application, not for a    *)
(* permit of send_q, whether the switch reads or not and however the       *)
(* connection ends (send, _send_loop, _send_event).  (Not so when the      *)
(* switch connects again: Switches closes the old connection in a handler, *)
(* and may have to wait for room in its own queue.)                        *)
(***************************************************************************)
CallsReturn ==
  \A t \in Callers : (prog[t] # << >> /\ setup.news = 0) ~> (prog[t] = << >>)

(***************************************************************************)
(* With echo requests on, a connection over which nothing can be sent any  *)
(* longer is taken down, even if the switch never closes it (_send_loop,   *)
(* _echo_request_loop, serve).                                             *)
(***************************************************************************)
HalfOpenEnds ==
  (pc["send"] = "done" /\ setup.echo > 0) ~> (pc["serve"] = "done" /\ state = "DEAD")

=============================================================================
