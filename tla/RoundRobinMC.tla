------------------------------ MODULE RoundRobinMC ------------------------------
(* Three backends, all in the route's list to begin with. *)
EXTENDS RoundRobin

CONSTANTS n1, n2, n3

ThreeNodes == <<n1, n2, n3>>
================================================================================
