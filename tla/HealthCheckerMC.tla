----------------------------- MODULE HealthCheckerMC -----------------------------
(* One backend that appears as two nodes, as after a reload. *)
EXTENDS HealthChecker

CONSTANT a1

OneAddress == [n \in Node |-> a1]
==================================================================================
