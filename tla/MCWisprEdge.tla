---------------------------- MODULE MCWisprEdge -----------------------------
(***************************************************************************)
(* WisprEdge for TLC.  A behaviour is one of two kinds, chosen at the      *)
(* beginning: up to MaxMixed frames of any kind, and flooded ones; or      *)
(* MaxFrames TCP packets, more than there are slots.  When all of them are *)
(* sent, the network is empty and the clock is at MaxClock, it ends.       *)
(***************************************************************************)
EXTENDS WisprEdge

CONSTANTS a, b,
  MaxMixed     \* bound: frames in a behaviour with frames of any kind

MCDaemons == {a, b}
MCKeys == MCDaemons \X MCDaemons

VARIABLE mixed
mcVars == <<vars, mixed>>

InPlan ==
  IF mixed THEN Len(frames') <= MaxMixed
  ELSE /\ \A w \in wire' : w.frame.n # 0
       /\ \A n \in DOMAIN frames' : frames'[n].protocol = "TCP"

AllDone ==
  /\ Len(frames) = IF mixed THEN MaxMixed ELSE MaxFrames
  /\ wire = {} /\ clock = MaxClock
  /\ UNCHANGED mcVars

MCInit == mixed \in BOOLEAN /\ Init
MCNext == (Next /\ InPlan /\ UNCHANGED mixed) \/ AllDone

MCFairSpec ==
  /\ MCInit /\ [][MCNext]_mcVars
  /\ \A n \in 1..MaxFrames :
       WF_vars(\E w \in wire : w.frame.n = n /\ (Switch(w) \/ process_newpkt(w)))
=============================================================================
