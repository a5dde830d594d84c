------------------------------ MODULE Topology ------------------------------
(***************************************************************************)
(* The nodes of a network and the connections between them, for peer       *)
(* exchange (PexNetwork) and for gossip (CraftSwarm).                      *)
(***************************************************************************)
CONSTANTS
  Nodes,  \* the nodes
  Links   \* pairs of nodes that are connected, both ways

ASSUME TopologyAssumption ==
  /\ Links \subseteq Nodes \X Nodes
  /\ \A l \in Links : l[1] # l[2] /\ <<l[2], l[1]>> \in Links
=============================================================================
