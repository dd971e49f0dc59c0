------------------------------ MODULE BackendNode ------------------------------
(***************************************************************************)
(* The BackendNode objects of pkg/loadbalancer/loadbalancer.go, as far as  *)
(* the balancers and the health checker share them: the health flag, under *)
(* the node's own lock.                                                    *)
(***************************************************************************)
CONSTANTS
  Node,   \* the backend nodes
  None    \* nil

ASSUME BackendNodeAssumption == None \notin Node

VARIABLE
  healthy   \* node.Healthy

NewBackendNodes == healthy = [n \in Node |-> TRUE]
================================================================================
