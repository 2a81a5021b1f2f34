----------------------------- MODULE PathSearch -----------------------------
(***************************************************************************)
(* How the controller variants ryu_multipath2.py and ryu_multipath_3.py    *)
(* find their paths: get_paths walks the adjacency map with a stack of its *)
(* own, get_optimal_paths keeps the cheapest ones.  (ryu_multipath.py leaves *)
(* the search to networkx.)                                                *)
(*                                                                         *)
(* The search runs without a pause, so the map does not change under it.   *)
(* The order of a Python set is not fixed: the neighbours of a node come in *)
(* any order.                                                              *)
(***************************************************************************)
EXTENDS Integers, SequencesExt

CONSTANTS
  Nodes,         \* switches
  Cached,        \* those with a number up to 256, for which Python has one object only
  Speeds,        \* curr_speed of the ports
  REFERENCE_BW, MAX_PATHS

ASSUME SearchConstants ==
  /\ IsFiniteSet(Nodes) /\ Cached \subseteq Nodes
  /\ Speeds \subseteq Nat \ {0} /\ REFERENCE_BW \in Nat /\ MAX_PATHS \in Nat \ {0}

VARIABLES
  src, dst,
  gone,          \* the switches that left
  bandwidths,    \* the speed of the two ports of every link there is
  same,          \* the switches in whose map the key for dst is the object that hosts has
  stack, paths,  \* of get_paths
  chosen,        \* the result of get_optimal_paths
  phase

given == <<src, dst, gone, bandwidths, same>>
search_vars == <<given, stack, paths, chosen, phase>>

(***************************************************************************)
(* link_add_handler enters a link in both directions; switch_leave_handler *)
(* deletes the map of the switch that left, while the others still have it *)
(* as a neighbour.                                                         *)
(***************************************************************************)
Pairs == {{a, b} : a \in Nodes, b \in Nodes} \ {{a} : a \in Nodes}
adjacency(n) == IF n \in gone THEN {} ELSE {m \in Nodes : {n, m} \in DOMAIN bandwidths}

(***************************************************************************)
(* The number of dst in the map of a neighbour is an object of the Port    *)
(* that was there when the link was found, the one in hosts belongs to the *)
(* datapath that sent the host's first packet: one object while dst has    *)
(* one connection, two equal ones when it has connected again in between.  *)
(***************************************************************************)
Neighbours == {n \in Nodes : dst \in adjacency(n)}

SearchInit ==
  /\ src \in Nodes /\ dst \in Nodes
  /\ gone \in {{}} \cup {{n} : n \in Nodes}
  /\ \E links \in SUBSET Pairs : bandwidths \in [links -> Speeds]
  /\ same \in IF dst \in Cached THEN {Neighbours} ELSE SUBSET Neighbours
  /\ stack = << >> /\ paths = << >> /\ chosen = << >> /\ phase = "start"

get_paths ==
  /\ phase = "start"
  /\ IF src = dst THEN paths' = <<<<src>>>> /\ phase' = "choose" /\ UNCHANGED stack
     ELSE stack' = <<<<src>>>> /\ phase' = "search" /\ UNCHANGED paths
  /\ UNCHANGED <<given, chosen>>

(***************************************************************************)
(* `next is dst', for a neighbour of m: the same object, not an equal one. *)
(***************************************************************************)
is_dst(m) == IF m \in same THEN {dst} ELSE {}

(***************************************************************************)
(* The body of the loop gone wrong: enough paths end the search.           *)
(***************************************************************************)
StopsEarly ==
  LET path == Last(stack)
      next == adjacency(Last(path)) \ ToSet(path)
      found == next \cap is_dst(Last(path))
  IN /\ phase = "search" /\ stack # << >>
     /\ paths' = IF found = {} THEN paths ELSE Append(paths, Append(path, dst))
     /\ \E order \in SetToSeqs(next \ found) :
          stack' = IF Len(paths') >= MAX_PATHS THEN << >>
                   ELSE Front(stack) \o [i \in DOMAIN order |-> Append(path, order[i])]
     /\ UNCHANGED <<given, chosen, phase>>

(***************************************************************************)
(* The body of the loop: the path on top of the stack ends in dst, or goes *)
(* on with every neighbour that is not on it, with dst too when it is not  *)
(* recognised.                                                             *)
(***************************************************************************)
Explore ==
  LET path == Last(stack)
      next == adjacency(Last(path)) \ ToSet(path)
      found == next \cap is_dst(Last(path))
  IN /\ phase = "search" /\ stack # << >>
     /\ paths' = IF found = {} THEN paths ELSE Append(paths, Append(path, dst))
     /\ \E order \in SetToSeqs(next \ found) :
          stack' = Front(stack) \o [i \in DOMAIN order |-> Append(path, order[i])]
     /\ UNCHANGED <<given, chosen, phase>>

Searched ==
  /\ phase = "search" /\ stack = << >> /\ phase' = "choose"
  /\ UNCHANGED <<given, stack, paths, chosen>>

-----------------------------------------------------------------------------
(***************************************************************************)
(* get_link_cost looks a link up in both directions, and raises a KeyError *)
(* when the second switch has left.                                        *)
(***************************************************************************)
KeyError == \E i \in DOMAIN paths : \E j \in 2..Len(paths[i]) : paths[i][j] \in gone
get_link_cost(bw, a, b) == REFERENCE_BW \div bw[{a, b}]
CostWith(bw, p) ==
  FoldLeftDomain(LAMBDA cost, i : IF i = 1 THEN cost ELSE cost + get_link_cost(bw, p[i - 1], p[i]),
                 0, p)
get_path_cost(p) == CostWith(bandwidths, p)

(***************************************************************************)
(* get_optimal_paths gone wrong: the first paths found are kept.           *)
(***************************************************************************)
FirstFound ==
  /\ phase = "choose" /\ phase' = "done"
  /\ chosen' = SubSeq(paths, 1, Min({Len(paths), MAX_PATHS}))
  /\ UNCHANGED <<given, stack, paths>>

(***************************************************************************)
(* get_optimal_paths: sorted by cost, cut off after MAX_PATHS.  sorted     *)
(* leaves paths of equal cost in the order in which they were found.       *)
(***************************************************************************)
ByCost(order) ==
  LET cost == [k \in DOMAIN paths |-> get_path_cost(paths[k])]
  IN \A i, j \in DOMAIN order : i < j =>
       /\ cost[order[i]] <= cost[order[j]]
       /\ cost[order[i]] = cost[order[j]] => order[i] < order[j]

get_optimal_paths ==
  /\ phase = "choose"
  /\ IF KeyError THEN phase' = "failed" /\ UNCHANGED chosen
     ELSE /\ phase' = "done"
          /\ \E order \in SetToSeqs(DOMAIN paths) :
               /\ ByCost(order)
               /\ chosen' = [i \in 1..Min({Len(paths), MAX_PATHS}) |-> paths[order[i]]]
  /\ UNCHANGED <<given, stack, paths>>

SearchNext == get_paths \/ Explore \/ Searched \/ get_optimal_paths
SearchSpec == SearchInit /\ [][SearchNext]_search_vars

-----------------------------------------------------------------------------
(***************************************************************************)
(* The paths from src to dst without a repeated switch.                    *)
(***************************************************************************)
SimplePaths ==
  {p \in UNION {[1..n -> Nodes] : n \in 1..Cardinality(Nodes)} :
     /\ p[1] = src /\ Last(p) = dst
     /\ \A i, j \in DOMAIN p : i # j => p[i] # p[j]
     /\ \A i \in 2..Len(p) : p[i] \in adjacency(p[i - 1])}

(***************************************************************************)
(* Those whose last step is one to dst that `is' recognises; the path of a *)
(* single switch is not searched for.                                      *)
(***************************************************************************)
RecognisedPaths == {p \in SimplePaths : Len(p) = 1 \/ p[Len(p) - 1] \in same}

(***************************************************************************)
(* What get_paths finds, each path once, and nothing else: the paths whose *)
(* last step leads to the very object it looks for.                        *)
(***************************************************************************)
PathsFound ==
  phase = "choose" =>
    ToSet(paths) = RecognisedPaths /\ Len(paths) = Cardinality(RecognisedPaths)

(***************************************************************************)
(* "Get all paths from src to dst using DFS algorithm" (ryu_multipath2.py, *)
(* line 51): every path is found, once, and nothing else.  It holds as     *)
(* long as dst is one object in all maps (same = Neighbours).  Without     *)
(* this condition no run checks it, and added to the run of this module it *)
(* is refuted.                                                             *)
(***************************************************************************)
AllPathsFound ==
  phase = "choose" => (ToSet(paths) = SimplePaths /\ Len(paths) = Cardinality(SimplePaths))

(***************************************************************************)
(* "Get the n-most optimal paths according to MAX_PATHS" (line 89): no     *)
(* path that was left out is cheaper than one that was kept, none is left  *)
(* out without need, and none leads to a switch that left.                 *)
(***************************************************************************)
CheapestChosen ==
  phase = "done" =>
    /\ \A p \in ToSet(chosen), q \in ToSet(paths) \ ToSet(chosen) :
          get_path_cost(p) <= get_path_cost(q)
    /\ Len(chosen) = Min({MAX_PATHS, Len(paths)})
    /\ src # dst => \A p \in ToSet(chosen) : ToSet(p) \cap gone = {}
=============================================================================
