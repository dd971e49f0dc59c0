---------------------------- MODULE SharedBalancerMC ----------------------------
(* Two backends; any number of interchangeable handlers. *)
EXTENDS SharedBalancer, TLC

CONSTANTS n1, n2

TwoNodes == <<n1, n2>>
HandlerSymmetry == Permutations(Handler)
================================================================================
