------------------------------- MODULE RyuApps -------------------------------
(***************************************************************************)
(* The applications of a Ryu process and its shutdown (base/app_manager.py,*)
(* RyuApp and AppManager): each application has a bounded queue and an     *)
(* event loop, its handlers send events to other applications, and close   *)
(* stops them one after the other while the others go on.  close is called *)
(* twice: on the way out of the program and by run_apps.                   *)
(*                                                                         *)
(* An event is "early" when it was accepted while the application was      *)
(* active, and "late" otherwise.                                           *)
(***************************************************************************)
EXTENDS Integers, SequencesExt

CONSTANTS
  Apps,
  Flow,        \* pairs of applications: the first sends to the second
  EVENTS,      \* size of a queue (128 in the code)
  Threaded,    \* the applications with a thread of their own in RyuApp.threads
  Mains,       \* the applications that have a main_thread
  Closers,     \* the threads that call AppManager.close
  MaxEvents    \* bound: events from outside

ASSUME AppsConstants ==
  /\ Flow \subseteq Apps \X Apps /\ Threaded \subseteq Apps /\ Mains \subseteq Apps
  /\ EVENTS \in Nat \ {0} /\ MaxEvents \in Nat
  /\ {"nobody", "outside"} \cap (Apps \cup Closers) = {}

VARIABLES
  bricks,      \* the names in SERVICE_BRICKS
  applications,  \* AppManager.applications
  is_active, events,  \* of every application
  loop,        \* "top", "get", "handle" or "ended": its _event_loop
  sending,     \* the applications a handler is still to send an event to
  waits,       \* how a thread of an application waits: "timed", "untimed", or "ended"
  target,      \* the application whose queue a sender waits for, or "nobody"
  holder,      \* who holds close_sem, or "nobody"
  pc, names, at,  \* of the closers: where, the names still to do, the current one
  error,       \* an exception in close
  outside

appvars == <<bricks, applications, is_active, events, loop, waits, sending, target>>
closevars == <<holder, pc, names, at, error>>
vars == <<appvars, closevars, outside>>

Nobody == "nobody"
Senders == Apps \cup {"outside"}  \* the threads of the connections are outside
Init ==
  /\ bricks = Apps /\ applications = Apps
  /\ is_active = [a \in Apps |-> TRUE] /\ events = [a \in Apps |-> << >>]
  /\ loop = [a \in Apps |-> "get"] /\ sending = [a \in Apps |-> {}]
  /\ waits = [a \in Threaded |-> "timed"]
  /\ target = [a \in Senders |-> Nobody]
  /\ holder = Nobody /\ pc = [c \in Closers |-> "run"]
  /\ names = [c \in Closers |-> {}] /\ at = [c \in Closers |-> Nobody]
  /\ error = FALSE /\ outside = 0

-----------------------------------------------------------------------------
(***************************************************************************)
(* send_event looks the application up, and loses the event when it is     *)
(* gone.                                                                   *)
(***************************************************************************)
Found(t, b) == target' = IF b \in bricks THEN [target EXCEPT ![t] = b] ELSE target

OutsideEvent(b) ==
  /\ outside < MaxEvents /\ outside' = outside + 1
  /\ target["outside"] = Nobody /\ Found("outside", b)
  /\ UNCHANGED <<bricks, applications, is_active, events, loop, waits, sending, closevars>>

send_event(a, b) ==
  /\ loop[a] = "handle" /\ b \in sending[a]
  /\ target[a] = Nobody /\ Found(a, b)
  /\ sending' = [sending EXCEPT ![a] = @ \ {b}]
  /\ UNCHANGED <<bricks, applications, is_active, events, loop, waits, closevars, outside>>

(***************************************************************************)
(* _send_event waits for room in the queue, even of an application that    *)
(* has left the table meanwhile.                                           *)
(***************************************************************************)
_send_event(t) ==
  /\ target[t] # Nobody /\ Len(events[target[t]]) < EVENTS
  /\ events' = [events EXCEPT ![target[t]] =
                  Append(@, IF is_active[target[t]] THEN "early" ELSE "late")]
  /\ target' = [target EXCEPT ![t] = Nobody]
  /\ UNCHANGED <<bricks, applications, is_active, loop, waits, sending, closevars, outside>>

(***************************************************************************)
(* _event_loop gone wrong: it ends with the flag, whatever is left.        *)
(***************************************************************************)
EndsWithFlag(a) == ~is_active[a]

(***************************************************************************)
(* _event_loop: its condition, taking an event, the end of the handlers.   *)
(* A handler may wake the thread of its application (lldp_event.set).      *)
(***************************************************************************)
LoopEnds(a) == ~is_active[a] /\ events[a] = << >>

LoopTop(a) ==
  /\ loop[a] = "top"
  /\ loop' = [loop EXCEPT ![a] = IF LoopEnds(a) THEN "ended" ELSE "get"]
  /\ UNCHANGED <<bricks, applications, is_active, events, waits, sending, target, closevars, outside>>

GetEvent(a) ==
  /\ loop[a] = "get" /\ events[a] # << >>
  /\ events' = [events EXCEPT ![a] = Tail(@)]
  /\ IF Head(events[a]) = "stop"
     THEN loop' = [loop EXCEPT ![a] = "top"] /\ UNCHANGED <<sending, waits>>
     ELSE /\ loop' = [loop EXCEPT ![a] = "handle"]
          /\ waits' \in {waits, [t \in Threaded |->
                IF t = a /\ waits[t] = "untimed" THEN "timed" ELSE waits[t]]}
          /\ \E to \in SUBSET {b \in Apps : <<a, b>> \in Flow} :
               sending' = [sending EXCEPT ![a] = to]
  /\ UNCHANGED <<bricks, applications, is_active, target, closevars, outside>>

HandlerEnds(a) ==
  /\ loop[a] = "handle" /\ sending[a] = {} /\ target[a] = Nobody
  /\ loop' = [loop EXCEPT ![a] = "top"]
  /\ UNCHANGED <<bricks, applications, is_active, events, waits, sending, target, closevars, outside>>

(***************************************************************************)
(* A round of lldp_loop of the topology application, which ends when the   *)
(* flag is cleared, and waits again otherwise: without a timeout when      *)
(* there is no port to send to.  (link_loop always has a timeout.)         *)
(***************************************************************************)
ThreadRuns(a) ==
  /\ waits[a] = "timed"
  /\ \E w \in IF is_active[a] THEN {"timed", "untimed"} ELSE {"ended"} :
       waits' = [waits EXCEPT ![a] = w]
  /\ UNCHANGED <<bricks, applications, is_active, events, loop, sending, target, closevars,
                 outside>>

-----------------------------------------------------------------------------
(***************************************************************************)
(* close gone wrong: without the semaphore.                                *)
(***************************************************************************)
EnterAnyway(c) ==
  /\ pc[c] = "run"
  /\ pc' = [pc EXCEPT ![c] = "next"] /\ names' = [names EXCEPT ![c] = applications]
  /\ UNCHANGED <<appvars, holder, at, error, outside>>

(***************************************************************************)
(* AppManager.close, one closer at a time: the names of the applications   *)
(* are listed first.                                                       *)
(***************************************************************************)
Enter(c) ==
  /\ pc[c] = "run" /\ holder = Nobody
  /\ holder' = c
  /\ pc' = [pc EXCEPT ![c] = "next"] /\ names' = [names EXCEPT ![c] = applications]
  /\ UNCHANGED <<appvars, at, error, outside>>

(***************************************************************************)
(* uninstantiate, up to the first place where it waits: the application    *)
(* leaves both tables, and stop clears is_active, unless there is a        *)
(* main_thread to be killed first: hub.kill lets the other threads run.    *)
(***************************************************************************)
uninstantiate(c, a) ==
  /\ pc[c] = "next" /\ a \in names[c]
  /\ names' = [names EXCEPT ![c] = @ \ {a}] /\ at' = [at EXCEPT ![c] = a]
  /\ IF a \in applications
     THEN /\ pc' = [pc EXCEPT ![c] = IF a \in Mains THEN "kill" ELSE "stop"]
          /\ applications' = applications \ {a} /\ bricks' = bricks \ {a}
          /\ is_active' = IF a \in Mains THEN is_active ELSE [is_active EXCEPT ![a] = FALSE]
          /\ UNCHANGED error
     ELSE /\ pc' = [pc EXCEPT ![c] = "done"] /\ error' = TRUE
          /\ UNCHANGED <<applications, bricks, is_active>>
  /\ UNCHANGED <<events, loop, waits, sending, target, holder, outside>>

MainKilled(c) ==
  /\ pc[c] = "kill"
  /\ pc' = [pc EXCEPT ![c] = "stop"]
  /\ is_active' = [is_active EXCEPT ![at[c]] = FALSE]
  /\ UNCHANGED <<bricks, applications, events, loop, waits, sending, target, holder, names,
                 at, error, outside>>

(***************************************************************************)
(* stop gone wrong: nothing is sent to a loop that waits for an event.     *)
(***************************************************************************)
StopSilently(c) ==
  /\ pc[c] = "stop"
  /\ pc' = [pc EXCEPT ![c] = "join"]
  /\ UNCHANGED <<bricks, applications, is_active, events, loop, waits, sending, target, holder, names,
                 at, error, outside>>

stop(c) ==
  /\ pc[c] = "stop"
  /\ Len(events[at[c]]) < EVENTS
  /\ events' = [events EXCEPT ![at[c]] = Append(@, "stop")]
  /\ pc' = [pc EXCEPT ![c] = "join"]
  /\ UNCHANGED <<bricks, applications, is_active, loop, waits, sending, target, holder, names,
                 at, error, outside>>

(***************************************************************************)
(* stop waits for the event loop and the other threads.  The application's *)
(* own close, which would wake them, comes after that.                     *)
(***************************************************************************)
joinall(c) ==
  /\ pc[c] = "join" /\ loop[at[c]] = "ended"
  /\ at[c] \in Threaded => waits[at[c]] = "ended"
  /\ pc' = [pc EXCEPT ![c] = "next"] /\ at' = [at EXCEPT ![c] = Nobody]
  /\ UNCHANGED <<appvars, holder, names, error, outside>>

Leave(c) ==
  /\ pc[c] = "next" /\ names[c] = {}
  /\ pc' = [pc EXCEPT ![c] = "done"] /\ holder' = Nobody
  /\ UNCHANGED <<appvars, names, at, error, outside>>

-----------------------------------------------------------------------------
Loop(a) == LoopTop(a) \/ GetEvent(a) \/ HandlerEnds(a)
Close(c) == Enter(c) \/ MainKilled(c) \/ joinall(c) \/ Leave(c) \/ \E a \in Apps : uninstantiate(c, a)
Next ==
  \/ \E a \in Apps : Loop(a) \/ OutsideEvent(a)
  \/ \E a \in Threaded : ThreadRuns(a)
  \/ \E a, b \in Apps : send_event(a, b)
  \/ \E t \in Senders : _send_event(t)
  \/ \E c \in Closers : Close(c) \/ stop(c)
Spec == Init /\ [][Next]_vars

(***************************************************************************)
(* The greenlets run; the semaphores serve those who wait in turn.         *)
(***************************************************************************)
FairSpec ==
  /\ Spec
  /\ \A a \in Apps : WF_vars(Loop(a))
  /\ \A a \in Threaded : WF_vars(ThreadRuns(a))
  /\ \A a \in Apps : WF_vars(\E b \in Apps : send_event(a, b)) /\ SF_vars(_send_event(a))
  /\ \A c \in Closers : SF_vars(Close(c)) /\ SF_vars(stop(c))

-----------------------------------------------------------------------------
(***************************************************************************)
(* "This semaphore prevents parallel execution of this function" (line     *)
(* 545): no application is stopped twice, though close is called twice.    *)
(***************************************************************************)
StoppedOnce == ~error

(***************************************************************************)
(* _event_loop handles every event that was accepted before stop was       *)
(* called, even if the queue is full then and stop has to wait.            *)
(***************************************************************************)
NothingDropped == \A a \in Apps : loop[a] = "ended" => ~Contains(events[a], "early")

(***************************************************************************)
(* The two ways in which close does not end.  Someone waits for room in    *)
(* the queue of an application whose event loop has ended, so that nobody  *)
(* takes anything out any more; or a thread waits without a timeout, and   *)
(* the application's own close, which would wake it, comes after the       *)
(* joinall that waits for it.                                              *)
(***************************************************************************)
Blocked ==
  \E a \in Apps :
    /\ loop[a] = "ended" /\ Len(events[a]) = EVENTS
    /\ (\E t \in Senders : target[t] = a) \/ (\E c \in Closers : pc[c] = "stop" /\ at[c] = a)
Unwoken == \E a \in Threaded : waits[a] = "untimed"

(***************************************************************************)
(* "Closing RYU application manager..." (cmd/manager.py, line 112): but    *)
(* for these two, close ends, in whatever order the applications are       *)
(* stopped, although the ones still running go on sending to the others,   *)
(* into full queues too.                                                   *)
(***************************************************************************)
CloseEnds == []~Blocked /\ []<>~Unwoken => \A c \in Closers : <>(pc[c] = "done")
=============================================================================
