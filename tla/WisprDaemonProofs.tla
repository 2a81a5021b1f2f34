------------------------- MODULE WisprDaemonProofs --------------------------
(***************************************************************************)
(* The life cycle of the daemon, for any number of starts, stops and       *)
(* crashes. As long as the conditions Orderly of WisprDaemon hold, there   *)
(* is never more than one daemon that serves, it is the one in the PID     *)
(* file, and wisprd -k returns 0 only when nobody serves any more. However *)
(* starts overlap, the status a start returns is true of its daemon if it  *)
(* waits for it as long as it takes.                                       *)
(***************************************************************************)
EXTENDS WisprDaemon, TLAPS

(***************************************************************************)
(* A child that has not got as far as the PID file.                        *)
(***************************************************************************)
Early(l) == child[l] \in {"close_all", "pid_file"}

(***************************************************************************)
(* The inductive invariant.  An early child is alone: there is no PID      *)
(* file, no other child, and its parent still waits, which keeps everybody *)
(* else from starting.  Any other child that is alive owns the PID file.   *)
(***************************************************************************)
EarlyIsAlone ==
  \A l \in Launches : Early(l) =>
    /\ pidFile = NoPid
    /\ parent[l] = "waiting"
    /\ retval[l] = None
    /\ \A m \in Launches : Alive(m) => m = l

OwnsPidFile == \A l \in Launches : Alive(l) /\ ~Early(l) => pidFile = l

(***************************************************************************)
(* An invocation that has not begun has no child.                          *)
(***************************************************************************)
Fresh == \A l \in Launches : parent[l] = "idle" => child[l] = "none" /\ retval[l] = None

DaemonInv == TypeOK /\ EarlyIsAlone /\ OwnsPidFile /\ Fresh

-----------------------------------------------------------------------------
LEMMA TypeInit == Init => TypeOK
BY DaemonConstants DEF Init, TypeOK, InitSteps, Statuses

(***************************************************************************)
(* What ends a process keeps the types.                                    *)
(***************************************************************************)
LEMMA ExitTypes ==
  ASSUME TypeOK, NEW l \in Launches, Exit(l)
  PROVE  /\ child' \in [Launches -> InitSteps \cup {"none", "tables", "loop", "finish", "exited"}]
         /\ signals' \in [Launches -> Seq(Signals)]
         /\ \A m \in Launches : Len(signals'[m]) <= MaxPending
         /\ readable' \in [Launches -> BOOLEAN]
<1>1. << >> \in Seq(Signals) /\ Len(<< >>) = 0
  OBVIOUS
<1>2. \A m \in Launches : signals'[m] = IF m = l THEN << >> ELSE signals[m]
  BY DEF Exit, TypeOK
<1> QED BY <1>1, <1>2, DaemonConstants DEF Exit, TypeOK

LEMMA SignalTypes ==
  ASSUME TypeOK, NEW l \in Launches, NEW sig \in Signals, Signal(l, sig),
         Len(signals[l]) < MaxPending
  PROVE  /\ child' \in [Launches -> InitSteps \cup {"none", "tables", "loop", "finish", "exited"}]
         /\ signals' \in [Launches -> Seq(Signals)]
         /\ \A m \in Launches : Len(signals'[m]) <= MaxPending
         /\ readable' \in [Launches -> BOOLEAN]
<1>1. CASE child[l] \in {"close_all", "pid_file", "signals"}
  BY <1>1, ExitTypes DEF Signal
<1>2. CASE child[l] \notin {"close_all", "pid_file", "signals"}
  <2>1. signals' = [signals EXCEPT ![l] = Append(signals[l], sig)] /\ UNCHANGED <<child, readable>>
    BY <1>2 DEF Signal
  <2>2. signals[l] \in Seq(Signals)
    BY DEF TypeOK
  <2>3. Append(signals[l], sig) \in Seq(Signals) /\ Len(Append(signals[l], sig)) = Len(signals[l]) + 1
        /\ Len(signals[l]) \in Nat
    BY <2>2
  <2>4. \A m \in Launches : signals'[m] = IF m = l THEN Append(signals[l], sig) ELSE signals[m]
    BY <2>1 DEF TypeOK
  <2>5. Len(signals[l]) + 1 <= MaxPending
    BY <2>3, DaemonConstants
  <2> QED BY <2>1, <2>3, <2>4, <2>5 DEF TypeOK
<1> QED BY <1>1, <1>2

LEMMA TypeStep == TypeOK /\ [Next]_vars => TypeOK'
<1> SUFFICES ASSUME TypeOK, [Next]_vars PROVE TypeOK'
  OBVIOUS
<1> USE DEF Statuses, None, InitSteps
<1>1. ASSUME NEW l \in Launches, Start(l) PROVE TypeOK'
  BY <1>1 DEF Start, TypeOK, AfterCheck, is_running
<1>2. ASSUME NEW l \in Launches, Wait(l) PROVE TypeOK'
  BY <1>2 DEF Wait, TypeOK
<1>3. ASSUME NEW l \in Launches, CloseAll(l) PROVE TypeOK'
  BY <1>3 DEF CloseAll, Advance, Fail, daemon_retval_send, TypeOK
<1>4. ASSUME NEW l \in Launches, PidFileCreate(l) PROVE TypeOK'
  BY <1>4 DEF PidFileCreate, Advance, Fail, daemon_retval_send, TypeOK
<1>5. ASSUME NEW l \in Launches, SignalInit(l) PROVE TypeOK'
  BY <1>5 DEF SignalInit, Advance, Fail, daemon_retval_send, TypeOK
<1>6. ASSUME NEW l \in Launches, InitSockets(l) PROVE TypeOK'
  <2>1. /\ Fail(l, 4) \/ Advance(l, "tables")
        /\ UNCHANGED <<parent, status, signals, readable, pidFile, killer, target>>
    BY <1>6 DEF InitSockets
  <2>2. usable' \in [Launches -> BOOLEAN]
    BY <1>6 DEF InitSockets, TypeOK
  <2>3. /\ child' \in [Launches -> InitSteps \cup {"none", "tables", "loop", "finish", "exited"}]
        /\ retval' \in [Launches -> Statuses \cup {None}]
    <3>1. CASE Advance(l, "tables")
      BY <3>1 DEF Advance, TypeOK
    <3>2. CASE Fail(l, 4)
      BY <3>2 DEF Fail, daemon_retval_send, TypeOK
    <3> QED BY <2>1, <3>1, <3>2
  <2> QED BY <2>1, <2>2, <2>3 DEF TypeOK
<1>7. ASSUME NEW l \in Launches, Report(l) PROVE TypeOK'
  BY <1>7 DEF Report, daemon_retval_send, TypeOK
<1>8. ASSUME NEW l \in Launches, HandleSignal(l) PROVE TypeOK'
  <2>1. signals[l] \in Seq(Signals) /\ signals[l] # << >> /\ Len(signals[l]) <= MaxPending
    BY <1>8 DEF HandleSignal, TypeOK
  <2>2. Tail(signals[l]) \in Seq(Signals) /\ Len(Tail(signals[l])) <= MaxPending
    BY <2>1, DaemonConstants
  <2>3. \A m \in Launches : signals'[m] = IF m = l THEN Tail(signals[l]) ELSE signals[m]
    BY <1>8 DEF HandleSignal, TypeOK
  <2>4. signals' \in [Launches -> Seq(Signals)] /\ \A m \in Launches : Len(signals'[m]) <= MaxPending
    BY <1>8, <2>2, <2>3 DEF HandleSignal, TypeOK
  <2> QED BY <1>8, <2>4 DEF HandleSignal, Serving, TypeOK
<1>9. ASSUME NEW l \in Launches, ProcessNewPkt(l) \/ LoopError(l) \/ PacketArrives(l) PROVE TypeOK'
  <2>1. CASE LoopError(l)
    BY <2>1 DEF LoopError, TypeOK
  <2>2. CASE ProcessNewPkt(l) \/ PacketArrives(l)
    <3>1. \E v \in BOOLEAN : readable' = [readable EXCEPT ![l] = v]
      BY <2>2, Zenon DEF ProcessNewPkt, PacketArrives
    <3>2. readable' \in [Launches -> BOOLEAN]
      BY <3>1 DEF TypeOK
    <3>3. UNCHANGED <<parent, status, child, retval, usable, signals, pidFile, killer, target>>
      BY <2>2 DEF ProcessNewPkt, PacketArrives
    <3> QED BY <3>2, <3>3 DEF TypeOK
  <2> QED BY <1>9, <2>1, <2>2
<1>10. ASSUME NEW l \in Launches, Finish(l) PROVE TypeOK'
  <2>1. Exit(l) /\ UNCHANGED <<parent, status, usable, killer, target>>
    BY <1>10 DEF Finish
  <2>2. retval' \in [Launches -> Statuses \cup {None}] /\ pidFile' = NoPid
    BY <1>10 DEF Finish, daemon_retval_send, daemon_pid_file_remove, TypeOK
  <2> QED BY <2>1, <2>2, ExitTypes DEF TypeOK
<1>11. ASSUME NEW l \in Launches, Crash(l) PROVE TypeOK'
  BY <1>11, ExitTypes DEF Crash, TypeOK
<1>12. ASSUME NEW l \in Launches, OtherSignal(l) PROVE TypeOK'
  <2>1. PICK sig \in Signals : Signal(l, sig)
    BY <1>12 DEF OtherSignal, Signals
  <2> QED BY <1>12, <2>1, SignalTypes DEF OtherSignal, TypeOK
<1>13. ASSUME NEW k \in Kills, Kill(k) PROVE TypeOK'
  <2>1. CASE is_running
    <3>1. pidFile \in Launches /\ "SIGTERM" \in Signals
      BY <2>1 DEF is_running, TypeOK, Signals
    <3>2. /\ pidFile' = pidFile /\ Signal(pidFile, "SIGTERM") /\ Len(signals[pidFile]) < MaxPending
          /\ killer' = [killer EXCEPT ![k] = "waiting"]
          /\ target' = [target EXCEPT ![k] = pidFile]
          /\ UNCHANGED <<parent, status, retval, usable>>
      BY <1>13, <2>1 DEF Kill, AfterCheck
    <3> QED BY <3>1, <3>2, SignalTypes DEF TypeOK
  <2>2. CASE ~is_running
    BY <1>13, <2>2 DEF Kill, AfterCheck, TypeOK
  <2> QED BY <2>1, <2>2
<1>14. ASSUME NEW k \in Kills, KillWait(k) PROVE TypeOK'
  BY <1>14 DEF KillWait, TypeOK
<1>15. CASE UNCHANGED vars
  BY <1>15 DEF vars, TypeOK
<1> QED BY <1>1, <1>2, <1>3, <1>4, <1>5, <1>6, <1>7, <1>8, <1>9, <1>10, <1>11, <1>12, <1>13,
           <1>14, <1>15 DEF Next, ChildStep

(***************************************************************************)
(* The variables keep their types.                                         *)
(***************************************************************************)
THEOREM DaemonTypes == Spec => []TypeOK
BY TypeInit, TypeStep, PTL DEF Spec

-----------------------------------------------------------------------------
(***************************************************************************)
(* Steps that leave the PID file alone and move one child on, or end it.   *)
(***************************************************************************)
LEMMA ChildMoves ==
  ASSUME DaemonInv, NEW l \in Launches, Alive(l),
         NEW step, child' = [child EXCEPT ![l] = step], step \notin {"none", "close_all"},
         step = "pid_file" => Early(l) /\ retval' = retval,
         step \notin {"pid_file", "exited"} => ~Early(l),
         \A m \in Launches \ {l} : retval'[m] = retval[m],
         UNCHANGED <<parent, pidFile>>
  PROVE  EarlyIsAlone' /\ OwnsPidFile' /\ Fresh'
<1>1. \A m \in Launches : child'[m] = IF m = l THEN step ELSE child[m]
  BY DEF DaemonInv, TypeOK
<1>2. \A m \in Launches : Alive(m)' => Alive(m)
  BY <1>1 DEF Alive
<1>3. \A m \in Launches : Early(m)' => Early(m) /\ retval'[m] = retval[m]
  BY <1>1 DEF Early, Alive
<1>4. EarlyIsAlone'
  BY <1>2, <1>3 DEF EarlyIsAlone, DaemonInv, Early, Alive, None
<1>5. \A m \in Launches : Alive(m)' /\ ~Early(m)' => Alive(m) /\ ~Early(m)
  BY <1>1 DEF Early, Alive
<1>6. OwnsPidFile'
  BY <1>5 DEF OwnsPidFile, DaemonInv, Alive, Early
<1>7. Fresh'
  BY <1>1 DEF Fresh, DaemonInv, Alive, None
<1> QED BY <1>4, <1>6, <1>7

(***************************************************************************)
(* A step that changes no child keeps the invariant, if it leaves the      *)
(* pipe, the PID file and the parents of early children alone.             *)
(***************************************************************************)
LEMMA NoChildMoves ==
  ASSUME DaemonInv, UNCHANGED <<child, retval, pidFile>>,
         \A m \in Launches : Early(m) => parent'[m] = parent[m],
         \A m \in Launches : parent'[m] = "idle" => parent[m] = "idle"
  PROVE  EarlyIsAlone' /\ OwnsPidFile' /\ Fresh'
BY DEF DaemonInv, EarlyIsAlone, OwnsPidFile, Fresh, Early, Alive, None

LEMMA InvStart ==
  ASSUME Orderly, DaemonInv, NEW l \in Launches, Start(l)
  PROVE  EarlyIsAlone' /\ OwnsPidFile' /\ Fresh'
<1>1. /\ child \in [Launches -> InitSteps \cup {"none", "tables", "loop", "finish", "exited"}]
      /\ parent \in [Launches -> {"idle", "waiting", "done"}]
      /\ pidFile \in Launches \cup {NoPid}
      /\ retval' = retval
  BY DEF DaemonInv, TypeOK, Start
<1>2. \A m \in Launches : ~Early(m)
  BY DEF Start, Orderly, NobodyWaits, DaemonInv, EarlyIsAlone
<1>3. \A m \in Launches : Alive(m) => pidFile = m /\ pidFile' = m
  BY <1>2, DaemonConstants DEF DaemonInv, OwnsPidFile, Start, AfterCheck, is_running
<1>4. CASE parent' = [parent EXCEPT ![l] = "done"] /\ child' = child
  <2>1. \A m \in Launches : parent'[m] = "idle" => parent[m] = "idle"
    BY <1>1, <1>4
  <2> QED BY <1>1, <1>2, <1>3, <1>4, <2>1
          DEF DaemonInv, EarlyIsAlone, OwnsPidFile, Fresh, Early, Alive, None
<1>5. CASE /\ ~is_running
           /\ parent' = [parent EXCEPT ![l] = "waiting"]
           /\ child' = [child EXCEPT ![l] = "close_all"]
  <2>1. \A m \in Launches : ~Alive(m)
    BY <1>3, <1>5, DaemonConstants DEF is_running
  <2>2. pidFile' = NoPid
    BY <1>5 DEF Start, AfterCheck
  <2>3. \A m \in Launches : /\ child'[m] = IF m = l THEN "close_all" ELSE child[m]
                            /\ parent'[m] = IF m = l THEN "waiting" ELSE parent[m]
    BY <1>1, <1>5
  <2>4. retval[l] = None
    BY DEF Start, DaemonInv, Fresh
  <2>5. EarlyIsAlone'
    BY <1>1, <1>2, <2>1, <2>2, <2>3, <2>4 DEF EarlyIsAlone, Early, Alive, None
  <2>6. OwnsPidFile'
    BY <2>1, <2>3 DEF OwnsPidFile, Early, Alive
  <2>7. Fresh'
    BY <1>1, <2>3 DEF DaemonInv, Fresh, None
  <2> QED BY <2>5, <2>6, <2>7
<1> QED BY <1>4, <1>5 DEF Start

LEMMA InvStep == Orderly /\ DaemonInv /\ [Next]_vars => EarlyIsAlone' /\ OwnsPidFile' /\ Fresh'
<1> SUFFICES ASSUME Orderly, DaemonInv, [Next]_vars PROVE EarlyIsAlone' /\ OwnsPidFile' /\ Fresh'
  OBVIOUS
<1>t. /\ child \in [Launches -> InitSteps \cup {"none", "tables", "loop", "finish", "exited"}]
      /\ retval \in [Launches -> Statuses \cup {None}]
      /\ parent \in [Launches -> {"idle", "waiting", "done"}]
      /\ pidFile \in Launches \cup {NoPid}
  BY DEF DaemonInv, TypeOK
<1>1. ASSUME NEW l \in Launches, Start(l) PROVE EarlyIsAlone' /\ OwnsPidFile' /\ Fresh'
  BY <1>1, InvStart
<1>2. ASSUME NEW l \in Launches, Wait(l) PROVE EarlyIsAlone' /\ OwnsPidFile' /\ Fresh'
  <2>1. ~Early(l)
    BY <1>2 DEF Wait, Orderly, DaemonInv, EarlyIsAlone, Early
  <2>2. \A m \in Launches : parent'[m] = IF m = l THEN "done" ELSE parent[m]
    BY <1>2, <1>t DEF Wait
  <2> QED BY <1>2, <2>1, <2>2, NoChildMoves DEF Wait
<1>3. ASSUME NEW l \in Launches, CloseAll(l) PROVE EarlyIsAlone' /\ OwnsPidFile' /\ Fresh'
  <2>1. Alive(l) /\ Early(l)
    BY <1>3 DEF CloseAll, Alive, Early
  <2>2. Advance(l, "pid_file") /\ UNCHANGED <<parent, pidFile>>
    BY <1>3 DEF CloseAll, Orderly
  <2> QED BY <2>1, <2>2, ChildMoves DEF Advance
<1>4. ASSUME NEW l \in Launches, PidFileCreate(l) PROVE EarlyIsAlone' /\ OwnsPidFile' /\ Fresh'
  <2>1. Early(l) /\ Alive(l)
    BY <1>4 DEF PidFileCreate, Early, Alive
  <2>2. pidFile = NoPid /\ \A m \in Launches : Alive(m) => m = l
    BY <2>1 DEF DaemonInv, EarlyIsAlone
  <2>3. /\ pidFile' = l /\ child' = [child EXCEPT ![l] = "signals"]
        /\ UNCHANGED <<retval, parent>>
    BY <1>4, <2>2 DEF PidFileCreate, Orderly, Advance
  <2>4. \A m \in Launches : child'[m] = IF m = l THEN "signals" ELSE child[m]
    BY <1>t, <2>3
  <2>5. EarlyIsAlone'
    BY <2>2, <2>4 DEF EarlyIsAlone, Early, Alive
  <2>6. OwnsPidFile'
    BY <2>2, <2>3, <2>4 DEF OwnsPidFile, Early, Alive
  <2>7. Fresh'
    BY <2>1, <2>3, <2>4 DEF DaemonInv, Fresh, Alive, None
  <2> QED BY <2>5, <2>6, <2>7
<1>5. ASSUME NEW l \in Launches, SignalInit(l) PROVE EarlyIsAlone' /\ OwnsPidFile' /\ Fresh'
  <2>1. Alive(l) /\ ~Early(l) /\ UNCHANGED <<parent, pidFile>>
    BY <1>5 DEF SignalInit, Alive, Early
  <2>2. \A m \in Launches \ {l} : retval'[m] = retval[m]
    BY <1>5, <1>t DEF SignalInit, Advance, Fail, daemon_retval_send
  <2>3. child' = [child EXCEPT ![l] = "sockets"] \/ child' = [child EXCEPT ![l] = "finish"]
    BY <1>5 DEF SignalInit, Advance, Fail
  <2> QED BY <2>1, <2>2, <2>3, ChildMoves
<1>6. ASSUME NEW l \in Launches, InitSockets(l) PROVE EarlyIsAlone' /\ OwnsPidFile' /\ Fresh'
  <2>1. Alive(l) /\ ~Early(l) /\ UNCHANGED <<parent, pidFile>>
    BY <1>6 DEF InitSockets, Alive, Early
  <2>2. Fail(l, 4) \/ Advance(l, "tables")
    BY <1>6 DEF InitSockets
  <2>3. \A m \in Launches \ {l} : retval'[m] = retval[m]
    BY <1>t, <2>2 DEF Advance, Fail, daemon_retval_send
  <2>4. child' = [child EXCEPT ![l] = "tables"] \/ child' = [child EXCEPT ![l] = "finish"]
    BY <2>2 DEF Advance, Fail
  <2> QED BY <2>1, <2>3, <2>4, ChildMoves
<1>7. ASSUME NEW l \in Launches, Report(l) PROVE EarlyIsAlone' /\ OwnsPidFile' /\ Fresh'
  <2>1. Alive(l) /\ ~Early(l) /\ UNCHANGED <<parent, pidFile>>
    BY <1>7 DEF Report, Alive, Early
  <2>2. \A m \in Launches \ {l} : retval'[m] = retval[m]
    BY <1>7, <1>t DEF Report, daemon_retval_send
  <2> QED BY <1>7, <2>1, <2>2, ChildMoves DEF Report
<1>8. ASSUME NEW l \in Launches, HandleSignal(l) \/ LoopError(l)
      PROVE  EarlyIsAlone' /\ OwnsPidFile' /\ Fresh'
  <2>1. Alive(l) /\ ~Early(l) /\ UNCHANGED <<parent, pidFile, retval>>
    BY <1>8 DEF HandleSignal, LoopError, Serving, Alive, Early
  <2>2. child' = [child EXCEPT ![l] = "loop"] \/ child' = [child EXCEPT ![l] = "finish"]
    BY <1>8 DEF HandleSignal, LoopError
  <2> QED BY <2>1, <2>2, ChildMoves
<1>9. ASSUME UNCHANGED <<child, retval, pidFile, parent>>
      PROVE  EarlyIsAlone' /\ OwnsPidFile' /\ Fresh'
  BY <1>9, NoChildMoves
<1>10. ASSUME NEW l \in Launches, Finish(l) PROVE EarlyIsAlone' /\ OwnsPidFile' /\ Fresh'
  <2>1. Alive(l) /\ ~Early(l) /\ pidFile = l
    BY <1>10 DEF Finish, Alive, Early, DaemonInv, OwnsPidFile
  <2>2. \A m \in Launches : Alive(m) => m = l
    BY <2>1 DEF DaemonInv, OwnsPidFile, EarlyIsAlone
  <2>3. \A m \in Launches : child'[m] = IF m = l THEN "exited" ELSE child[m]
    BY <1>10, <1>t DEF Finish, Exit
  <2>4. \A m \in Launches \ {l} : retval'[m] = retval[m]
    BY <1>10, <1>t DEF Finish, daemon_retval_send
  <2>5. parent' = parent
    BY <1>10 DEF Finish
  <2>6. \A m \in Launches : ~Alive(m)'
    BY <2>2, <2>3 DEF Alive
  <2>7. EarlyIsAlone' /\ OwnsPidFile'
    BY <2>6 DEF EarlyIsAlone, OwnsPidFile, Early, Alive
  <2>8. Fresh'
    BY <2>1, <2>3, <2>4, <2>5 DEF DaemonInv, Fresh, Alive, None
  <2> QED BY <2>7, <2>8
<1>11. ASSUME NEW l \in Launches, Alive(l), Exit(l), UNCHANGED <<parent, pidFile, retval>>
       PROVE  EarlyIsAlone' /\ OwnsPidFile' /\ Fresh'
  BY <1>11, ChildMoves DEF Exit
<1>12. ASSUME NEW l \in Launches, NEW sig, Alive(l), Signal(l, sig),
              UNCHANGED <<parent, pidFile, retval>>
       PROVE  EarlyIsAlone' /\ OwnsPidFile' /\ Fresh'
  BY <1>9, <1>11, <1>12 DEF Signal
<1>13. ASSUME NEW k \in Kills, Kill(k) PROVE EarlyIsAlone' /\ OwnsPidFile' /\ Fresh'
  <2>1. CASE is_running
    <3>1. pidFile \in Launches /\ Alive(pidFile) /\ pidFile' = pidFile
      BY <1>13, <1>t, <2>1 DEF Kill, is_running, AfterCheck
    <3> QED BY <1>12, <1>13, <2>1, <3>1 DEF Kill
  <2>2. CASE ~is_running
    <3>1. UNCHANGED <<child, retval, parent>> /\ pidFile' = NoPid
      BY <1>13, <2>2 DEF Kill, AfterCheck
    <3>2. \A m \in Launches : Alive(m) => Early(m)
      BY <2>2, DaemonConstants DEF DaemonInv, OwnsPidFile, is_running
    <3> QED BY <3>1, <3>2 DEF DaemonInv, EarlyIsAlone, OwnsPidFile, Fresh, Early, Alive, None
  <2> QED BY <2>1, <2>2
<1>14. CASE \E l \in Launches : ProcessNewPkt(l) \/ PacketArrives(l)
  BY <1>9, <1>14 DEF ProcessNewPkt, PacketArrives
<1>15. CASE (\E k \in Kills : KillWait(k)) \/ UNCHANGED vars
  BY <1>9, <1>15 DEF KillWait, vars
<1>16. CASE \E l \in Launches : OtherSignal(l)
  BY <1>12, <1>16 DEF OtherSignal
<1>17. CASE \E l \in Launches : Crash(l)
  BY <1>11, <1>17 DEF Crash
<1> QED BY <1>1, <1>2, <1>3, <1>4, <1>5, <1>6, <1>7, <1>8, <1>10, <1>13, <1>14, <1>15, <1>16,
           <1>17 DEF Next, ChildStep

LEMMA DaemonInvariant ==
  ASSUME Orderly
  PROVE  Spec => []DaemonInv
<1>1. Init => DaemonInv
  BY TypeInit DEF Init, DaemonInv, EarlyIsAlone, OwnsPidFile, Fresh, Early, Alive
<1>2. DaemonInv /\ [Next]_vars => DaemonInv'
  BY TypeStep, InvStep DEF DaemonInv
<1> QED BY <1>1, <1>2, PTL DEF Spec

(***************************************************************************)
(* The daemon that serves is the one in the PID file.                      *)
(***************************************************************************)
THEOREM ServerIsInPidFile ==
  ASSUME Orderly
  PROVE  Spec => []ServerHasPidFile
<1>1. DaemonInv => ServerHasPidFile
  BY DEF DaemonInv, OwnsPidFile, ServerHasPidFile, Serving, Alive, Early
<1> QED BY <1>1, DaemonInvariant, PTL

(***************************************************************************)
(* The daemon does not run twice at the same time.                         *)
(***************************************************************************)
THEOREM OneDaemon ==
  ASSUME Orderly
  PROVE  Spec => []AtMostOneServing
<1>1. ServerHasPidFile => AtMostOneServing
  BY DEF ServerHasPidFile, AtMostOneServing
<1> QED BY <1>1, ServerIsInPidFile, PTL

-----------------------------------------------------------------------------
(***************************************************************************)
(* What a child reports, and what its parent makes of it.  Nothing is sent *)
(* before the initialisation is over one way or the other, and 0 is sent   *)
(* by a child that goes on to serve; a parent that has returned has passed *)
(* that value on, or had no child, or lost it without a report.            *)
(***************************************************************************)
Reports(l) ==
  /\ child[l] \in InitSteps \cup {"none", "tables"} => retval[l] = None
  /\ child[l] = "loop" => retval[l] = 0
  /\ child[l] = "finish" => retval[l] # None

Returns(l) ==
  /\ parent[l] = "idle" => child[l] = "none"
  /\ parent[l] # "done" => status[l] = None
  /\ parent[l] = "done" =>
       \/ status[l] = 1 /\ child[l] = "none"
       \/ status[l] = retval[l] /\ retval[l] # None
       \/ status[l] = 255 /\ child[l] = "exited"

StatusInv == TypeOK /\ \A l \in Launches : Reports(l) /\ Returns(l)

(***************************************************************************)
(* A step of child l that does not touch any parent: it is enough that l   *)
(* still reports what it should, and that a value once sent stays.         *)
(***************************************************************************)
LEMMA ChildReports ==
  ASSUME StatusInv, NEW l \in Launches, child[l] \notin {"none", "exited"}, child'[l] # "none",
         Reports(l)', retval[l] # None => retval'[l] = retval[l],
         \A m \in Launches \ {l} : child'[m] = child[m] /\ retval'[m] = retval[m],
         UNCHANGED <<parent, status>>
  PROVE  \A m \in Launches : Reports(m)' /\ Returns(m)'
<1>1. TAKE m \in Launches
<1>2. Reports(m)'
  BY DEF StatusInv, Reports
<1>3. Returns(m)'
  BY DEF StatusInv, Returns
<1> QED BY <1>2, <1>3

LEMMA StatusStep ==
  ASSUME ~GivesUp, StatusInv, [Next]_vars
  PROVE  \A l \in Launches : Reports(l)' /\ Returns(l)'
<1> DEFINE Goal == \A l \in Launches : Reports(l)' /\ Returns(l)'
<1>t. /\ child \in [Launches -> InitSteps \cup {"none", "tables", "loop", "finish", "exited"}]
      /\ retval \in [Launches -> Statuses \cup {None}]
      /\ status \in [Launches -> Statuses \cup {None}]
      /\ parent \in [Launches -> {"idle", "waiting", "done"}]
  BY DEF StatusInv, TypeOK
<1>1. ASSUME NEW l \in Launches, Start(l) PROVE Goal
  <2>1. /\ \A m \in Launches \ {l} : /\ parent'[m] = parent[m] /\ child'[m] = child[m]
                                    /\ status'[m] = status[m]
        /\ retval' = retval
    BY <1>1, <1>t DEF Start
  <2>2. child[l] = "none" /\ retval[l] = None /\ status[l] = None
    BY <1>1 DEF Start, StatusInv, Returns, Reports
  <2>3. \/ parent'[l] = "waiting" /\ child'[l] = "close_all" /\ status'[l] = status[l]
        \/ parent'[l] = "done" /\ child'[l] = child[l] /\ status'[l] = 1
    BY <1>1, <1>t DEF Start
  <2>4. Reports(l)' /\ Returns(l)'
    BY <2>1, <2>2, <2>3 DEF Reports, Returns, InitSteps
  <2>5. \A m \in Launches \ {l} : Reports(m)' /\ Returns(m)'
    BY <2>1 DEF StatusInv, Reports, Returns
  <2> QED BY <2>4, <2>5
<1>2. ASSUME NEW l \in Launches, Wait(l) PROVE Goal
  <2>1. /\ \A m \in Launches \ {l} : parent'[m] = parent[m] /\ status'[m] = status[m]
        /\ parent'[l] = "done" /\ UNCHANGED <<child, retval>>
        /\ status'[l] = IF retval[l] # None THEN retval[l] ELSE 255
        /\ retval[l] # None \/ child[l] = "exited"
    BY <1>2, <1>t DEF Wait
  <2>2. Reports(l)' /\ Returns(l)'
    BY <2>1 DEF StatusInv, Reports, Returns
  <2>3. \A m \in Launches \ {l} : Reports(m)' /\ Returns(m)'
    BY <2>1 DEF StatusInv, Reports, Returns
  <2> QED BY <2>2, <2>3
<1>3. ASSUME NEW l \in Launches, NEW step, NEW v \in Statuses,
             child[l] \in InitSteps, step \in InitSteps \cup {"tables"},
             Advance(l, step) \/ Fail(l, v), UNCHANGED <<parent, status>>
      PROVE  Goal
  <2>1. retval[l] = None
    BY <1>3 DEF StatusInv, Reports
  <2>2. CASE Advance(l, step)
    <3>1. /\ child'[l] = step /\ \A m \in Launches \ {l} : child'[m] = child[m]
          /\ retval' = retval
      BY <1>t, <2>2 DEF Advance
    <3> QED BY <1>3, <2>1, <3>1, ChildReports DEF Reports, InitSteps
  <2>3. CASE Fail(l, v)
    <3>1. v # None
      BY DEF Statuses, None
    <3>2. /\ child'[l] = "finish" /\ retval'[l] = v
          /\ \A m \in Launches \ {l} : child'[m] = child[m] /\ retval'[m] = retval[m]
      BY <1>t, <2>1, <2>3 DEF Fail, daemon_retval_send
    <3> QED BY <1>3, <2>1, <3>1, <3>2, ChildReports DEF Reports, InitSteps
  <2> QED BY <1>3, <2>2, <2>3
<1>4. ASSUME NEW l \in Launches, CloseAll(l) \/ PidFileCreate(l) \/ SignalInit(l) PROVE Goal
  BY <1>3, <1>4 DEF CloseAll, PidFileCreate, SignalInit, InitSteps, Statuses
<1>5. ASSUME NEW l \in Launches, InitSockets(l) PROVE Goal
  <2>1. child[l] = "sockets" /\ (Fail(l, 4) \/ Advance(l, "tables")) /\ UNCHANGED <<parent, status>>
    BY <1>5 DEF InitSockets
  <2>2. child[l] \in InitSteps /\ "tables" \in InitSteps \cup {"tables"} /\ 4 \in Statuses
    BY <2>1 DEF InitSteps, Statuses
  <2> QED BY <1>3, <2>1, <2>2
<1>6. ASSUME NEW l \in Launches, Report(l) PROVE Goal
  <2>1. child[l] = "tables" /\ retval[l] = None
    BY <1>6 DEF Report, StatusInv, Reports
  <2>2. /\ child'[l] = "loop" /\ retval'[l] = 0 /\ UNCHANGED <<parent, status>>
        /\ \A m \in Launches \ {l} : child'[m] = child[m] /\ retval'[m] = retval[m]
    BY <1>6, <1>t, <2>1 DEF Report, daemon_retval_send
  <2> QED BY <2>1, <2>2, ChildReports DEF Reports, InitSteps
<1>7. ASSUME NEW l \in Launches, HandleSignal(l) \/ LoopError(l) PROVE Goal
  <2>1. /\ child[l] = "loop" /\ UNCHANGED <<parent, status, retval>>
        /\ child'[l] \in {"loop", "finish"} /\ \A m \in Launches \ {l} : child'[m] = child[m]
    BY <1>7, <1>t DEF HandleSignal, LoopError, Serving
  <2>2. retval[l] = 0
    BY <2>1 DEF StatusInv, Reports
  <2> QED BY <2>1, <2>2, ChildReports DEF Reports, InitSteps, None
<1>8. ASSUME NEW l \in Launches, Finish(l) PROVE Goal
  <2>1. /\ child[l] = "finish" /\ child'[l] = "exited" /\ UNCHANGED <<parent, status>>
        /\ \A m \in Launches \ {l} : child'[m] = child[m] /\ retval'[m] = retval[m]
        /\ retval[l] # None => retval'[l] = retval[l]
    BY <1>8, <1>t DEF Finish, Exit, daemon_retval_send
  <2> QED BY <2>1, ChildReports DEF Reports, InitSteps
<1>9. ASSUME NEW l \in Launches, Alive(l), Exit(l), UNCHANGED <<parent, status, retval>>
      PROVE  Goal
  <2>1. /\ child[l] \notin {"none", "exited"} /\ child'[l] = "exited"
        /\ \A m \in Launches \ {l} : child'[m] = child[m]
    BY <1>9, <1>t DEF Alive, Exit
  <2> QED BY <1>9, <2>1, ChildReports DEF Reports, InitSteps
<1>10. ASSUME UNCHANGED <<parent, status, child, retval>> PROVE Goal
  BY <1>10 DEF StatusInv, Reports, Returns
<1>11. ASSUME NEW l \in Launches, NEW sig, Alive(l), Signal(l, sig),
              UNCHANGED <<parent, status, retval>>
       PROVE  Goal
  BY <1>9, <1>10, <1>11 DEF Signal
<1>12. ASSUME NEW k \in Kills, Kill(k) PROVE Goal
  <2>1. CASE is_running
    <3>1. pidFile \in Launches /\ Alive(pidFile)
      BY <2>1 DEF StatusInv, TypeOK, is_running
    <3> QED BY <1>11, <1>12, <2>1, <3>1 DEF Kill
  <2>2. CASE ~is_running
    BY <1>10, <1>12, <2>2 DEF Kill
  <2> QED BY <2>1, <2>2
<1>13. CASE \E l \in Launches : ProcessNewPkt(l) \/ PacketArrives(l)
  BY <1>10, <1>13 DEF ProcessNewPkt, PacketArrives
<1>14. CASE (\E k \in Kills : KillWait(k)) \/ UNCHANGED vars
  BY <1>10, <1>14 DEF KillWait, vars
<1>15. CASE \E l \in Launches : OtherSignal(l)
  BY <1>11, <1>15 DEF OtherSignal
<1>16. CASE \E l \in Launches : Crash(l)
  BY <1>9, <1>16 DEF Crash
<1> QED BY <1>1, <1>2, <1>4, <1>5, <1>6, <1>7, <1>8, <1>12, <1>13, <1>14, <1>15, <1>16
        DEF Next, ChildStep

(***************************************************************************)
(* The status of wisprd is what became of its daemon, also when starts,    *)
(* stops and crashes overlap, unless a parent gives up waiting after 20 s. *)
(***************************************************************************)
THEOREM StatusesAreTrue ==
  ASSUME ~GivesUp
  PROVE  Spec => []StatusIsTrue
<1>1. Init => StatusInv
  BY TypeInit DEF Init, StatusInv, Reports, Returns, None
<1>2. StatusInv /\ [Next]_vars => StatusInv'
  BY TypeStep, StatusStep DEF StatusInv
<1>3. StatusInv => StatusIsTrue
  <2> SUFFICES ASSUME StatusInv, NEW l \in Launches
               PROVE  /\ Serving(l) => status[l] \in {None, 0}
                      /\ status[l] = 0 => child[l] \in {"loop", "finish", "exited"}
    BY DEF StatusIsTrue
  <2>1. Reports(l) /\ Returns(l) /\ parent[l] \in {"idle", "waiting", "done"}
        /\ child[l] \in InitSteps \cup {"none", "tables", "loop", "finish", "exited"}
    BY DEF StatusInv, TypeOK
  <2> QED BY <2>1 DEF Reports, Returns, Serving, None
<1> QED BY <1>1, <1>2, <1>3, PTL DEF Spec

-----------------------------------------------------------------------------
(***************************************************************************)
(* While wisprd -k waits, nobody starts a daemon, and the one it has sent  *)
(* SIGTERM to is the only one that is alive.                               *)
(***************************************************************************)
KillerAlone ==
  \A k \in Kills : killer[k] = "waiting" =>
    \A l \in Launches : Alive(l) => l = target[k]

KillInv == DaemonInv /\ KillerAlone

LEMMA KillerStep ==
  ASSUME Orderly, KillInv, [Next]_vars
  PROVE  KillerAlone'
<1>t. /\ child \in [Launches -> InitSteps \cup {"none", "tables", "loop", "finish", "exited"}]
      /\ killer \in [Kills -> {"idle", "waiting", "stopped", "failed"}]
      /\ target \in [Kills -> Launches \cup {NoPid}]
      /\ pidFile \in Launches \cup {NoPid}
  BY DEF KillInv, DaemonInv, TypeOK
<1>1. ASSUME NEW l \in Launches, Start(l) PROVE KillerAlone'
  BY <1>1 DEF Start, Orderly, NobodyWaits, KillerAlone
<1>2. ASSUME NEW l \in Launches, Alive(l), NEW step, child' = [child EXCEPT ![l] = step],
             UNCHANGED <<killer, target>>
      PROVE  KillerAlone'
  <2>1. \A m \in Launches : Alive(m)' => Alive(m)
    BY <1>2, <1>t DEF Alive
  <2> QED BY <1>2, <2>1 DEF KillInv, KillerAlone
<1>3. ASSUME UNCHANGED <<child, killer, target>> PROVE KillerAlone'
  BY <1>3 DEF KillInv, KillerAlone, Alive
<1>4. ASSUME NEW l \in Launches, CloseAll(l) \/ PidFileCreate(l) \/ SignalInit(l)
      PROVE  KillerAlone'
  BY <1>2, <1>4 DEF CloseAll, PidFileCreate, SignalInit, Advance, Fail, Alive
<1>5. ASSUME NEW l \in Launches, InitSockets(l) PROVE KillerAlone'
  <2>1. child[l] = "sockets" /\ (Fail(l, 4) \/ Advance(l, "tables")) /\ UNCHANGED <<killer, target>>
    BY <1>5 DEF InitSockets
  <2> QED BY <1>2, <2>1 DEF Fail, Advance, Alive
<1>6. ASSUME NEW l \in Launches, Report(l) \/ HandleSignal(l) \/ LoopError(l) \/ Finish(l)
      PROVE  KillerAlone'
  BY <1>2, <1>6 DEF Report, HandleSignal, LoopError, Finish, Exit, Serving, Alive
<1>7. ASSUME NEW l \in Launches, Wait(l) \/ ProcessNewPkt(l) \/ PacketArrives(l)
      PROVE  KillerAlone'
  BY <1>3, <1>7 DEF Wait, ProcessNewPkt, PacketArrives
<1>8. ASSUME NEW l \in Launches, OtherSignal(l) \/ Crash(l) PROVE KillerAlone'
  BY <1>2, <1>3, <1>8 DEF OtherSignal, Crash, Signal, Exit
<1>9. ASSUME NEW k \in Kills, Kill(k) PROVE KillerAlone'
  <2>1. \A j \in Kills : killer[j] # "waiting"
    BY <1>9 DEF Kill, Orderly, NobodyWaits
  <2>2. CASE is_running
    <3>1. pidFile \in Launches /\ pidFile # NoPid
      BY <1>t, <2>2 DEF is_running
    <3>2. \A m \in Launches : Alive(m) => m = pidFile
      BY <3>1 DEF KillInv, DaemonInv, EarlyIsAlone, OwnsPidFile
    <3>3. \A m \in Launches : Alive(m)' => Alive(m)
      BY <1>9, <1>t, <2>2, <3>1 DEF Kill, Signal, Exit, Alive
    <3>4. \A j \in Kills : /\ killer'[j] = IF j = k THEN "waiting" ELSE killer[j]
                           /\ target'[j] = IF j = k THEN pidFile ELSE target[j]
      BY <1>9, <1>t, <2>2 DEF Kill
    <3> QED BY <2>1, <3>2, <3>3, <3>4 DEF KillerAlone
  <2>3. CASE ~is_running
    <3>1. \A j \in Kills : killer'[j] # "waiting"
      BY <1>9, <1>t, <2>1, <2>3 DEF Kill
    <3> QED BY <3>1 DEF KillerAlone
  <2> QED BY <2>2, <2>3
<1>10. ASSUME NEW k \in Kills, KillWait(k) PROVE KillerAlone'
  <2>1. \A j \in Kills : killer'[j] = "waiting" => killer[j] = "waiting"
    BY <1>10, <1>t DEF KillWait
  <2> QED BY <1>10, <2>1 DEF KillWait, KillInv, KillerAlone, Alive
<1>11. CASE UNCHANGED vars
  BY <1>3, <1>11 DEF vars
<1> QED BY <1>1, <1>4, <1>5, <1>6, <1>7, <1>8, <1>9, <1>10, <1>11 DEF Next, ChildStep

(***************************************************************************)
(* wisprd -k returns 0 only when no daemon serves any more, whatever was   *)
(* started, stopped or has crashed before.                                 *)
(***************************************************************************)
THEOREM KillIsTrue ==
  ASSUME Orderly
  PROVE  Spec => KillStops
<1>1. Init => KillerAlone
  BY DEF Init, KillerAlone
<1>2. KillInv /\ [Next]_vars => KillerAlone'
  BY KillerStep
<1> DEFINE Stops == \A k \in Kills : killer[k] = "waiting" /\ killer'[k] = "stopped"
                      => \A l \in Launches : ~Serving(l)
<1>3. KillInv /\ [Next]_vars => [Stops]_vars
  <2> SUFFICES ASSUME KillInv, Next, NEW k \in Kills, killer[k] = "waiting",
                      killer'[k] = "stopped", NEW l \in Launches
               PROVE  ~Serving(l)
    OBVIOUS
  <2>1. killer \in [Kills -> {"idle", "waiting", "stopped", "failed"}]
    BY DEF KillInv, DaemonInv, TypeOK
  <2>2. child[target[k]] = "exited"
    <3>1. killer' # killer
      OBVIOUS
    <3>2. ASSUME NEW j \in Kills, Kill(j) PROVE FALSE
      BY <3>2 DEF Kill, Orderly, NobodyWaits
    <3>3. PICK j \in Kills : KillWait(j)
      BY <3>1, <3>2 DEF Next, ChildStep, Start, Wait, CloseAll, PidFileCreate, SignalInit,
                       InitSockets, Report, HandleSignal, ProcessNewPkt, Finish, LoopError,
                       OtherSignal, PacketArrives, Crash
    <3>4. j = k
      BY <2>1, <3>3 DEF KillWait
    <3> QED BY <2>1, <3>3, <3>4 DEF KillWait
  <2> QED BY <2>2 DEF KillInv, KillerAlone, Serving, Alive
<1>4. Spec => []DaemonInv
  BY DaemonInvariant
<1>5. Spec => []KillInv
  BY <1>1, <1>2, <1>4, PTL DEF Spec, KillInv
<1> QED BY <1>3, <1>5, PTL DEF Spec, KillStops
=============================================================================
