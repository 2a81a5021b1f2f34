---------------------------- MODULE WisprDaemon -----------------------------
(***************************************************************************)
(* The life of the WISPR daemon (wisprd.c, main): `wisprd -i ...' checks   *)
(* the PID file, forks, and waits for what the child reports; the child    *)
(* initialises, serves signals and packets, and cleans up; `wisprd -k'     *)
(* stops the daemon the PID file names.  The PID file and the return value *)
(* pipe are libdaemon's, modelled by what wisprd.c relies on: the file is  *)
(* created exclusively, a check removes it when its process is dead, and   *)
(* removing it does not look at whose it is.                               *)
(***************************************************************************)
EXTENDS Integers, Sequences, FiniteSets

CONSTANTS
  Launches,    \* the invocations of wisprd that start a daemon; each is its child's PID
  Kills,       \* the invocations of wisprd -k
  NoPid,       \* there is no PID file
  Serialised,  \* does the operator wait for one invocation to return before the next?
  GivesUp,     \* may a child need more than the 20 s its parent waits?
  Failures,    \* the initialisation steps that may fail
  MaxPending   \* bound: signals waiting in the signal pipe

InitSteps == {"close_all", "pid_file", "signals", "sockets"}

ASSUME DaemonConstants ==
  /\ NoPid \notin Launches
  /\ Serialised \in BOOLEAN /\ GivesUp \in BOOLEAN
  /\ Failures \subseteq InitSteps
  /\ MaxPending \in Nat

VARIABLES
  parent,    \* the invocation itself: "idle", "waiting" for its child, or "done"
  status,    \* its exit status
  child,     \* where the forked daemon is
  retval,    \* what was sent through the return value pipe
  usable,    \* history: did every call of init_wispr_sockets succeed?
  signals,   \* the signal pipe of the daemon
  readable,  \* is a packet waiting on the socket of the daemon?
  pidFile,   \* the process in the PID file
  killer,    \* wisprd -k: "idle", "waiting" for the daemon to end, or "done"
  target     \* the daemon it sent SIGTERM to

vars == <<parent, status, child, retval, usable, signals, readable, pidFile,
          killer, target>>

Statuses == {0, 1, 2, 3, 4, 255}
None == -1
Signals == {"SIGINT", "SIGQUIT", "SIGTERM", "SIGHUP"}

Alive(l) == child[l] \notin {"none", "exited"}
Serving(l) == child[l] = "loop"

Init ==
  /\ parent = [l \in Launches |-> "idle"]
  /\ status = [l \in Launches |-> None]
  /\ child = [l \in Launches |-> "none"]
  /\ retval = [l \in Launches |-> None]
  /\ usable = [l \in Launches |-> FALSE]
  /\ signals = [l \in Launches |-> << >>]
  /\ readable = [l \in Launches |-> FALSE]
  /\ pidFile = NoPid
  /\ killer = [k \in Kills |-> "idle"]
  /\ target = [k \in Kills |-> NoPid]

-----------------------------------------------------------------------------
(***************************************************************************)
(* libdaemon.  daemon_pid_file_is_running: the process of the PID file, if *)
(* it is alive; a file whose process is dead is removed.                   *)
(***************************************************************************)
is_running == pidFile # NoPid /\ Alive(pidFile)
AfterCheck == IF is_running THEN pidFile ELSE NoPid

(***************************************************************************)
(* daemon_retval_send closes the pipe, so only the first value counts.     *)
(***************************************************************************)
daemon_retval_send(l, v) ==
  retval' = [retval EXCEPT ![l] = IF @ = None THEN v ELSE @]

(***************************************************************************)
(* daemon_pid_file_remove.                                                 *)
(***************************************************************************)
daemon_pid_file_remove(l) == pidFile' = NoPid

-----------------------------------------------------------------------------
(***************************************************************************)
(* The parent.  One operator at a time, if Serialised.                     *)
(***************************************************************************)
NobodyWaits ==
  /\ \A l \in Launches : parent[l] # "waiting"
  /\ \A k \in Kills : killer[k] # "waiting"

(***************************************************************************)
(* Start gone wrong: forks without looking whether a daemon runs.          *)
(***************************************************************************)
StartUnchecked(l) ==
  /\ parent[l] = "idle"
  /\ Serialised => NobodyWaits
  /\ parent' = [parent EXCEPT ![l] = "waiting"]
  /\ child' = [child EXCEPT ![l] = "close_all"]
  /\ UNCHANGED <<status, retval, usable, signals, readable, pidFile, killer, target>>

(***************************************************************************)
(* main up to the fork: a daemon that runs already, or a call that fails   *)
(* before the fork, ends it with status 1.                                 *)
(***************************************************************************)
Start(l) ==
  /\ parent[l] = "idle"
  /\ Serialised => NobodyWaits
  /\ pidFile' = AfterCheck
  /\ \/ /\ ~is_running
        /\ parent' = [parent EXCEPT ![l] = "waiting"]
        /\ child' = [child EXCEPT ![l] = "close_all"]
        /\ UNCHANGED status
     \/ /\ parent' = [parent EXCEPT ![l] = "done"]
        /\ status' = [status EXCEPT ![l] = 1]
        /\ UNCHANGED child
  /\ UNCHANGED <<retval, usable, signals, readable, killer, target>>

(***************************************************************************)
(* daemon_retval_wait: the value the child sent, or 255 when the child is  *)
(* gone without one or the 20 seconds are over.                            *)
(***************************************************************************)
Wait(l) ==
  /\ parent[l] = "waiting"
  /\ retval[l] # None \/ child[l] = "exited" \/ GivesUp
  /\ parent' = [parent EXCEPT ![l] = "done"]
  /\ status' = [status EXCEPT ![l] = IF retval[l] # None THEN retval[l] ELSE 255]
  /\ UNCHANGED <<child, retval, usable, signals, readable, pidFile, killer, target>>

-----------------------------------------------------------------------------
(***************************************************************************)
(* The child.  It moves on from one step of the initialisation to the      *)
(* next, or reports a failure v and goes to its cleanup.                   *)
(***************************************************************************)
Advance(l, step) == child' = [child EXCEPT ![l] = step] /\ UNCHANGED retval

Fail(l, v) == child' = [child EXCEPT ![l] = "finish"] /\ daemon_retval_send(l, v)

CloseAll(l) ==
  /\ child[l] = "close_all"
  /\ \/ Advance(l, "pid_file")
     \/ "close_all" \in Failures /\ Fail(l, 1)
  /\ UNCHANGED <<parent, status, usable, signals, readable, pidFile, killer, target>>

(***************************************************************************)
(* PidFileCreate gone wrong: the file is forgotten.                        *)
(***************************************************************************)
PidFileForgotten(l) ==
  /\ child[l] = "pid_file"
  /\ Advance(l, "signals")
  /\ UNCHANGED <<parent, status, usable, signals, readable, pidFile, killer, target>>

(***************************************************************************)
(* daemon_pid_file_create fails when there is a file, and may fail for     *)
(* other reasons.                                                          *)
(***************************************************************************)
PidFileCreate(l) ==
  /\ child[l] = "pid_file"
  /\ \/ pidFile = NoPid /\ pidFile' = l /\ Advance(l, "signals")
     \/ /\ pidFile # NoPid \/ "pid_file" \in Failures
        /\ Fail(l, 2)
        /\ UNCHANGED pidFile
  /\ UNCHANGED <<parent, status, usable, signals, readable, killer, target>>

(***************************************************************************)
(* SignalInit gone wrong: OK is sent before the sockets are there.         *)
(***************************************************************************)
SignalInitReports(l) ==
  /\ child[l] = "signals"
  /\ child' = [child EXCEPT ![l] = "sockets"]
  /\ daemon_retval_send(l, 0)
  /\ UNCHANGED <<parent, status, usable, signals, readable, pidFile, killer, target>>

SignalInit(l) ==
  /\ child[l] = "signals"
  /\ \/ Advance(l, "sockets")
     \/ "signals" \in Failures /\ Fail(l, 3)
  /\ UNCHANGED <<parent, status, usable, signals, readable, pidFile, killer, target>>

(***************************************************************************)
(* init_wispr_sockets opens the sockets and configures them with calls     *)
(* that may fail.  A failed call stores -1 in the uint16_t fields and goes *)
(* on; in the end the fields get the descriptors, -1 or not, and main      *)
(* looks for a negative one.  (A failed call also frees the structure that *)
(* is used afterwards: the abort that may follow is a Crash.)              *)
(***************************************************************************)
Descriptors == {-1, 5}

init_wispr_sockets(sockfd, sendfd) ==
  [wisprsd |-> sockfd % (256 * 256), sendsd |-> sendfd % (256 * 256)]

InitSockets(l) ==
  /\ child[l] = "sockets"
  /\ \E sockfd, sendfd \in Descriptors, configured \in BOOLEAN :
       /\ usable' = [usable EXCEPT ![l] = sockfd # -1 /\ sendfd # -1 /\ configured]
       /\ usable'[l] \/ "sockets" \in Failures
       /\ LET wisprs == init_wispr_sockets(sockfd, sendfd)
          IN  IF wisprs.wisprsd < 0 \/ wisprs.sendsd < 0
                THEN Fail(l, 4)
                ELSE Advance(l, "tables")
  /\ UNCHANGED <<parent, status, signals, readable, pidFile, killer, target>>

(***************************************************************************)
(* Report gone wrong: nothing is sent.                                     *)
(***************************************************************************)
ReportNothing(l) ==
  /\ child[l] = "tables"
  /\ Advance(l, "loop")
  /\ UNCHANGED <<parent, status, usable, signals, readable, pidFile, killer, target>>

(***************************************************************************)
(* init_wisprtables, and OK to the parent.                                 *)
(***************************************************************************)
Report(l) ==
  /\ child[l] = "tables"
  /\ child' = [child EXCEPT ![l] = "loop"]
  /\ daemon_retval_send(l, 0)
  /\ UNCHANGED <<parent, status, usable, signals, readable, pidFile, killer, target>>

(***************************************************************************)
(* HandleSignal gone wrong: the case of SIGTERM is missing.                *)
(***************************************************************************)
HandleSignalNoTerm(l) ==
  /\ Serving(l)
  /\ signals[l] # << >>
  /\ signals' = [signals EXCEPT ![l] = Tail(@)]
  /\ child' = [child EXCEPT ![l] = IF Head(signals[l]) \in {"SIGHUP", "SIGTERM"}
                                     THEN "loop" ELSE "finish"]
  /\ UNCHANGED <<parent, status, retval, usable, readable, pidFile, killer, target>>

(***************************************************************************)
(* The loop around select: a signal is looked at before a packet.          *)
(***************************************************************************)
HandleSignal(l) ==
  /\ Serving(l)
  /\ signals[l] # << >>
  /\ signals' = [signals EXCEPT ![l] = Tail(@)]
  /\ child' = [child EXCEPT ![l] = IF Head(signals[l]) = "SIGHUP" THEN "loop" ELSE "finish"]
  /\ UNCHANGED <<parent, status, retval, usable, readable, pidFile, killer, target>>

ProcessNewPkt(l) ==
  /\ Serving(l)
  /\ signals[l] = << >>
  /\ readable[l]
  /\ readable' = [readable EXCEPT ![l] = FALSE]
  /\ UNCHANGED <<parent, status, child, retval, usable, signals, pidFile, killer,
                 target>>

(***************************************************************************)
(* select or daemon_signal_next fails: the loop is left.                   *)
(***************************************************************************)
LoopError(l) ==
  /\ Serving(l)
  /\ child' = [child EXCEPT ![l] = "finish"]
  /\ UNCHANGED <<parent, status, retval, usable, signals, readable, pidFile, killer,
                 target>>

(***************************************************************************)
(* A process that ends takes its pipe and its sockets with it.             *)
(***************************************************************************)
Exit(l) ==
  /\ child' = [child EXCEPT ![l] = "exited"]
  /\ signals' = [signals EXCEPT ![l] = << >>]
  /\ readable' = [readable EXCEPT ![l] = FALSE]

(***************************************************************************)
(* The cleanup at the label finish, which every way out of the child goes  *)
(* through.                                                                *)
(***************************************************************************)
Finish(l) ==
  /\ child[l] = "finish"
  /\ Exit(l)
  /\ daemon_retval_send(l, 255)
  /\ daemon_pid_file_remove(l)
  /\ UNCHANGED <<parent, status, usable, killer, target>>

-----------------------------------------------------------------------------
(***************************************************************************)
(* A signal for daemon l.  Before daemon_signal_init has run its default   *)
(* action ends the process on the spot; afterwards it waits in the pipe.   *)
(***************************************************************************)
Signal(l, sig) ==
  IF child[l] \in {"close_all", "pid_file", "signals"}
    THEN Exit(l)
    ELSE signals' = [signals EXCEPT ![l] = Append(@, sig)] /\ UNCHANGED <<child, readable>>

(***************************************************************************)
(* wisprd -k: daemon_pid_file_kill_wait sends SIGTERM to the process of    *)
(* the PID file, if it is alive, and polls it for 5 seconds.               *)
(***************************************************************************)
Kill(k) ==
  /\ killer[k] = "idle"
  /\ Serialised => NobodyWaits
  /\ pidFile' = AfterCheck
  /\ IF is_running
       THEN /\ Len(signals[pidFile]) < MaxPending
            /\ Signal(pidFile, "SIGTERM")
            /\ killer' = [killer EXCEPT ![k] = "waiting"]
            /\ target' = [target EXCEPT ![k] = pidFile]
       ELSE /\ killer' = [killer EXCEPT ![k] = "failed"]
            /\ UNCHANGED <<child, signals, readable, target>>
  /\ UNCHANGED <<parent, status, retval, usable>>

(***************************************************************************)
(* KillWait gone wrong: it does not wait for the daemon to end.            *)
(***************************************************************************)
KillNoWait(k) ==
  /\ killer[k] = "waiting"
  /\ killer' = [killer EXCEPT ![k] = "stopped"]
  /\ UNCHANGED <<parent, status, child, retval, usable, signals, readable, pidFile, target>>

KillWait(k) ==
  /\ killer[k] = "waiting"
  /\ killer' = [killer EXCEPT ![k] = IF child[target[k]] = "exited" THEN "stopped" ELSE "failed"]
  /\ UNCHANGED <<parent, status, child, retval, usable, signals, readable, pidFile,
                 target>>

(***************************************************************************)
(* The world: another signal, a packet, and the end of a process without   *)
(* any cleanup (SIGKILL, an abort).                                        *)
(***************************************************************************)
OtherSignal(l) ==
  /\ Alive(l)
  /\ Len(signals[l]) < MaxPending
  /\ \E sig \in {"SIGHUP", "SIGINT"} : Signal(l, sig)
  /\ UNCHANGED <<parent, status, retval, usable, pidFile, killer, target>>

PacketArrives(l) ==
  /\ Serving(l)
  /\ readable' = [readable EXCEPT ![l] = TRUE]
  /\ UNCHANGED <<parent, status, child, retval, usable, signals, pidFile, killer,
                 target>>

Crash(l) ==
  /\ Alive(l)
  /\ Exit(l)
  /\ UNCHANGED <<parent, status, retval, usable, pidFile, killer, target>>

ChildStep(l) ==
  \/ CloseAll(l) \/ PidFileCreate(l) \/ SignalInit(l) \/ InitSockets(l) \/ Report(l)
  \/ HandleSignal(l) \/ ProcessNewPkt(l) \/ Finish(l)

Next ==
  \/ \E l \in Launches :
       \/ Start(l) \/ Wait(l) \/ ChildStep(l) \/ LoopError(l)
       \/ OtherSignal(l) \/ PacketArrives(l) \/ Crash(l)
  \/ \E k \in Kills : Kill(k) \/ KillWait(k)

Spec == Init /\ [][Next]_vars

(***************************************************************************)
(* The operating system runs every process that can run.                   *)
(***************************************************************************)
FairSpec ==
  /\ Spec
  /\ \A l \in Launches : WF_vars(Wait(l)) /\ WF_vars(ChildStep(l))
  /\ \A k \in Kills : WF_vars(KillWait(k))

-----------------------------------------------------------------------------
(***************************************************************************)
(* Under which there is one daemon: nobody starts a second one before the  *)
(* first start has returned, a start waits for its child, and no child     *)
(* gets to its cleanup without having created the PID file.                *)
(***************************************************************************)
Orderly == Serialised /\ ~GivesUp /\ Failures \cap {"close_all", "pid_file"} = {}

(***************************************************************************)
(* Types of the variables.                                                 *)
(***************************************************************************)
TypeOK ==
  /\ parent \in [Launches -> {"idle", "waiting", "done"}]
  /\ status \in [Launches -> Statuses \cup {None}]
  /\ child \in [Launches -> InitSteps \cup {"none", "tables", "loop", "finish", "exited"}]
  /\ retval \in [Launches -> Statuses \cup {None}]
  /\ usable \in [Launches -> BOOLEAN]
  /\ signals \in [Launches -> Seq(Signals)]
  /\ \A l \in Launches : Len(signals[l]) <= MaxPending
  /\ readable \in [Launches -> BOOLEAN]
  /\ pidFile \in Launches \cup {NoPid}
  /\ killer \in [Kills -> {"idle", "waiting", "stopped", "failed"}]
  /\ target \in [Kills -> Launches \cup {NoPid}]

(***************************************************************************)
(* "Check that the daemon is not running twice a the same time"            *)
(* (wisprd.c:87): at most one daemon serves packets, over any number of    *)
(* starts, stops and crashes.                                              *)
(***************************************************************************)
AtMostOneServing == \A l, m \in Launches : Serving(l) /\ Serving(m) => l = m

(***************************************************************************)
(* A daemon that serves can be found through the PID file, by wisprd -k    *)
(* to stop it and by wisprd -i to refuse a second one.                     *)
(***************************************************************************)
ServerHasPidFile == \A l \in Launches : Serving(l) => pidFile = l

(***************************************************************************)
(* The status a start returns is what became of its daemon: a daemon that  *)
(* serves is never reported as failed, and status 0 stands for a daemon    *)
(* that has begun to serve, whatever happened to it later.                 *)
(***************************************************************************)
StatusIsTrue ==
  \A l \in Launches :
    /\ Serving(l) => status[l] \in {None, 0}
    /\ status[l] = 0 => child[l] \in {"loop", "finish", "exited"}

(***************************************************************************)
(* wisprd -k returns 0 only when no daemon serves any more.                *)
(***************************************************************************)
KillStops ==
  [][\A k \in Kills : killer[k] = "waiting" /\ killer'[k] = "stopped"
       => \A l \in Launches : ~Serving(l)]_vars

(***************************************************************************)
(* A socket that could not be set up is an "error condition" sent "to the  *)
(* parent process" (wisprd.c:163-166): a start that returns 0 has left     *)
(* behind a daemon with working sockets.  (No run checks this, and it is   *)
(* not so: added to the run of this module it is refuted.)                 *)
(***************************************************************************)
SocketErrorReported == \A l \in Launches : status[l] = 0 => usable[l]

(***************************************************************************)
(* A start returns.                                                        *)
(***************************************************************************)
StartReturns == \A l \in Launches : parent[l] = "waiting" ~> parent[l] = "done"

(***************************************************************************)
(* A daemon that was sent SIGTERM ends, however many packets keep coming.  *)
(***************************************************************************)
TermEnds ==
  \A k \in Kills, l \in Launches : killer[k] = "waiting" /\ target[k] = l ~> child[l] = "exited"
=============================================================================
