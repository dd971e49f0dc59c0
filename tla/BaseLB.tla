--------------------------------- MODULE BaseLB ---------------------------------
(***************************************************************************)
(* What the balancers of pkg/loadbalancer/loadbalancer.go have in common:  *)
(* the node list lb.nodes and what Add and Remove do to it under lb.mu.    *)
(* Node addresses are distinct: a list with the same address twice is not  *)
(* modelled.                                                               *)
(***************************************************************************)
EXTENDS BackendNode, Integers, Sequences

CONSTANT
  InitialNodes   \* the list a route is built with

Distinct(s) == \A i, j \in 1 .. Len(s) : s[i] = s[j] => i = j

ASSUME BaseLBAssumption == InitialNodes \in Seq(Node) /\ Distinct(InitialNodes)

VARIABLE
  nodes   \* lb.nodes

Listed == {nodes[i] : i \in 1 .. Len(nodes)}

ListTypeOK == nodes \in Seq(Node) /\ Distinct(nodes)

NewNodeList == nodes = InitialNodes

ListAppend(n) == n \notin Listed /\ nodes' = Append(nodes, n)

ListDelete(n) ==
  \E i \in 1 .. Len(nodes) :
    /\ nodes[i] = n
    /\ nodes' = SubSeq(nodes, 1, i - 1) \o SubSeq(nodes, i + 1, Len(nodes))
================================================================================
