--------------------------- MODULE MCWisprTunnel ----------------------------
(***************************************************************************)
(* WisprTunnel for TLC.  Time is bounded by MaxTime: when it is used up    *)
(* and nothing else is left to do, the behaviour ends.                     *)
(***************************************************************************)
EXTENDS WisprTunnel

AtHorizon == now = MaxTime /\ UNCHANGED vars

MCSpec == Init /\ [][Next \/ AtHorizon]_vars

MCFairSpec ==
  /\ Init
  /\ [][Next \/ AtHorizon]_vars
  /\ WF_vars(\E c \in wire : Receive(c) \/ Lose(c))
  /\ WF_vars(Tick)
=============================================================================
