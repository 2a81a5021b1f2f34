---------------------------- MODULE LldpSchedule ----------------------------
(***************************************************************************)
(* The timetable of the LLDP packets (topology/switches.py, PortDataState  *)
(* and lldp_loop): the ports stand in a list, those that are to be served  *)
(* at once in front and the others in the order in which they were served, *)
(* so that lldp_loop may stop at the first port that is not due.           *)
(*                                                                         *)
(* Time is counted in ticks.  Instead of the time at which a port was      *)
(* served we keep its age, which is no longer counted once the port is     *)
(* due.                                                                    *)
(***************************************************************************)
EXTENDS Integers, SequencesExt

CONSTANTS
  Ports,
  PERIOD,      \* LLDP_SEND_PERIOD_PER_PORT
  MaxChanges   \* bound: changes of the ports

ASSUME ScheduleConstants == PERIOD \in Nat \ {0} /\ MaxChanges \in Nat

VARIABLES
  keys,        \* PortDataState: its keys in the order of the linked list
  is_down, age,  \* its values; age[p] = None when the timestamp is None
  step,        \* where lldp_loop is: "collect", "send", "sleep" or "wait"
  ports_now, ports, timeout,   \* local variables of lldp_loop
  lldp_event,  \* whether the event is set
  changes

data == <<keys, is_down, age>>
lldp_vars == <<data, step, ports_now, ports, timeout, lldp_event, changes>>

None == -1
LldpInit ==
  /\ keys = << >> /\ is_down = << >> /\ age = << >>
  /\ step = "collect" /\ ports_now = << >> /\ ports = << >> /\ timeout = None
  /\ lldp_event = FALSE /\ changes = 0

-----------------------------------------------------------------------------
(***************************************************************************)
(* PortDataState: _prepend_key, _append_key and _remove_key.  _map leads   *)
(* to the place of a port in the list.                                     *)
(***************************************************************************)
Place(p) == CHOOSE i \in DOMAIN keys : keys[i] = p
Removed(p) == RemoveAt(keys, Place(p))
MovedFront(p) == <<p>> \o Removed(p)
MovedLast(p) == Append(Removed(p), p)
Put(f, p, v) == [q \in DOMAIN f \cup {p} |-> IF q = p THEN v ELSE f[q]]

(***************************************************************************)
(* What the handlers of Switches do to the list while lldp_loop sleeps,    *)
(* waits or is about to send the next packet; all of them set lldp_event.  *)
(***************************************************************************)
Handler ==
  /\ step # "collect" /\ changes < MaxChanges
  /\ lldp_event' = TRUE /\ changes' = changes + 1
  /\ UNCHANGED <<step, ports_now, ports, timeout>>

add_port(p, down) ==
  /\ Handler
  /\ is_down' = Put(is_down, p, down)
  /\ IF p \in ToSet(keys) THEN UNCHANGED <<keys, age>>
     ELSE keys' = <<p>> \o keys /\ age' = Put(age, p, None)

del_port(p) ==
  /\ p \in ToSet(keys) /\ Handler
  /\ keys' = Removed(p)
  /\ is_down' = Restrict(is_down, DOMAIN is_down \ {p})
  /\ age' = Restrict(age, DOMAIN age \ {p})

set_down(p, down) ==
  /\ p \in ToSet(keys) /\ Handler
  /\ is_down' = [is_down EXCEPT ![p] = down]
  /\ age' = [age EXCEPT ![p] = None]
  /\ keys' = IF down THEN keys ELSE MovedFront(p)

move_front(p) ==
  /\ p \in ToSet(keys) /\ Handler
  /\ age' = [age EXCEPT ![p] = None]
  /\ keys' = MovedFront(p)
  /\ UNCHANGED is_down

-----------------------------------------------------------------------------
(***************************************************************************)
(* lldp_loop looks for ports that are due, up to the first one that is     *)
(* not.                                                                    *)
(***************************************************************************)
Due(p) == age[p] = None \/ age[p] >= PERIOD
UpToBreak == LET late == {i \in DOMAIN keys : ~Due(keys[i])}
             IN IF late = {} THEN Len(keys) ELSE Min(late) - 1

Collect ==
  LET seen == SubSeq(keys, 1, UpToBreak) IN
  /\ step = "collect"
  /\ lldp_event' = FALSE
  /\ ports_now' = SelectSeq(seen, LAMBDA p : age[p] = None)
  /\ ports' = SelectSeq(seen, LAMBDA p : age[p] # None)
  /\ timeout' = IF UpToBreak = Len(keys) THEN None
                ELSE IF ports' # << >> THEN 0
                ELSE PERIOD - age[keys[UpToBreak + 1]]
  /\ step' = "send"
  /\ UNCHANGED <<data, changes>>

(***************************************************************************)
(* PortDataState.lldp_sent gone wrong: the port keeps its place.           *)
(***************************************************************************)
SentInPlace(p) == age' = [age EXCEPT ![p] = 0] /\ UNCHANGED keys

(***************************************************************************)
(* send_lldp_packet: a port that has gone meanwhile is skipped.            *)
(***************************************************************************)
lldp_sent(p) == age' = [age EXCEPT ![p] = 0] /\ keys' = MovedLast(p)
Serve(p) == IF p \in ToSet(keys) THEN lldp_sent(p) ELSE UNCHANGED <<keys, age>>

(***************************************************************************)
(* lldp_loop gone wrong: the KeyError of a port that has gone ends it.     *)
(***************************************************************************)
SendOrDie ==
  /\ step = "send" /\ UNCHANGED <<is_down, timeout, lldp_event, changes>>
  /\ \/ /\ ports_now # << >> /\ Head(ports_now) \in ToSet(keys)
        /\ lldp_sent(Head(ports_now))
        /\ ports_now' = Tail(ports_now)
        /\ UNCHANGED <<ports, step>>
     \/ /\ ports_now = << >> /\ ports # << >> /\ Head(ports) \in ToSet(keys)
        /\ lldp_sent(Head(ports))
        /\ ports' = Tail(ports) /\ step' = "sleep"
        /\ UNCHANGED ports_now
     \/ /\ ports_now = << >> /\ ports = << >>
        /\ step' = "wait"
        /\ UNCHANGED <<keys, age, ports_now, ports>>

Send ==
  /\ step = "send"
  /\ \/ /\ ports_now # << >>
        /\ Serve(Head(ports_now))
        /\ ports_now' = Tail(ports_now)
        /\ UNCHANGED <<ports, step>>
     \/ /\ ports_now = << >> /\ ports # << >>
        /\ Serve(Head(ports))
        /\ ports' = Tail(ports) /\ step' = "sleep"
        /\ UNCHANGED ports_now
     \/ /\ ports_now = << >> /\ ports = << >>
        /\ step' = "wait"
        /\ UNCHANGED <<keys, age, ports_now, ports>>
  /\ UNCHANGED <<is_down, timeout, lldp_event, changes>>

(***************************************************************************)
(* The end of hub.sleep, which takes a tick or less.                       *)
(***************************************************************************)
WakeUp ==
  /\ step = "sleep" /\ step' = "send"
  /\ UNCHANGED <<data, ports_now, ports, timeout, lldp_event, changes>>

(***************************************************************************)
(* lldp_event.wait(timeout): without a timeout, only the event ends it.    *)
(***************************************************************************)
WaitEnds ==
  /\ step = "wait" /\ (lldp_event \/ timeout = 0)
  /\ step' = "collect"
  /\ UNCHANGED <<data, ports_now, ports, timeout, lldp_event, changes>>

(***************************************************************************)
(* A tick, while the loop sleeps (for at most one tick) or waits.          *)
(***************************************************************************)
Tick ==
  /\ \/ step = "sleep" /\ step' = "send" /\ UNCHANGED timeout
     \/ /\ step = "wait" /\ ~lldp_event /\ timeout # 0
        /\ timeout' = IF timeout = None THEN None ELSE timeout - 1
        /\ UNCHANGED step
  /\ age' = [p \in DOMAIN age |-> IF Due(p) THEN age[p] ELSE age[p] + 1]
  /\ UNCHANGED <<keys, is_down, ports_now, ports, lldp_event, changes>>

lldp_loop == Collect \/ Send \/ WakeUp \/ WaitEnds
LldpNext ==
  \/ lldp_loop \/ Tick
  \/ \E p \in Ports : del_port(p) \/ move_front(p)
  \/ \E p \in Ports, down \in BOOLEAN : add_port(p, down) \/ set_down(p, down)
LldpSpec == LldpInit /\ [][LldpNext]_lldp_vars /\ WF_lldp_vars(lldp_loop) /\ WF_lldp_vars(Tick)

-----------------------------------------------------------------------------
(***************************************************************************)
(* The types of the variables.                                             *)
(***************************************************************************)
LldpTypeOK ==
  /\ keys \in Seq(Ports) /\ IsInjective(keys)
  /\ is_down \in [ToSet(keys) -> BOOLEAN] /\ age \in [ToSet(keys) -> None..PERIOD]
  /\ step \in {"collect", "send", "sleep", "wait"}
  /\ timeout \in None..PERIOD /\ lldp_event \in BOOLEAN /\ changes \in 0..MaxChanges

(***************************************************************************)
(* lldp_loop may stop at the first port that is not due (line 943): the    *)
(* ports that have a timestamp stand in the order of their timestamps,     *)
(* whatever the handlers did to the list while lldp_loop slept.            *)
(***************************************************************************)
ServedInOrder ==
  \A i, j \in DOMAIN keys :
    (i < j /\ age[keys[i]] # None /\ age[keys[j]] # None)
      => age[keys[i]] >= age[keys[j]]

(***************************************************************************)
(* As long as lldp_loop does not wait without a timeout, a port that stays *)
(* up is served again and again.                                           *)
(***************************************************************************)
Stays(p) == p \in ToSet(keys) /\ ~is_down[p]
Served(p) == p \in ToSet(keys) /\ age[p] = 0
KeepsServing == <>[](timeout # None) => \A p \in Ports : <>[]Stays(p) => []<>Served(p)

(***************************************************************************)
(* LLDP_SEND_PERIOD_PER_PORT (line 510): a port that stays up is served    *)
(* again and again.  (No run checks this, and it is not so: when every     *)
(* port is due in the same round, lldp_loop waits without a timeout.)      *)
(***************************************************************************)
AlwaysServes == \A p \in Ports : <>[]Stays(p) => []<>Served(p)
=============================================================================
