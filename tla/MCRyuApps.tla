----------------------------- MODULE MCRyuApps -----------------------------
EXTENDS RyuApps

(***************************************************************************)
(* The applications of the deployment: the OpenFlow handler, the topology  *)
(* and the multipath controller, each observed by the next ones.           *)
(***************************************************************************)
Deployment == {"ofp_event", "switches", "multipath"}
Chain == {<<"ofp_event", "switches">>, <<"ofp_event", "multipath">>,
          <<"switches", "multipath">>}
=============================================================================
