---------------------------- MODULE CircuitBreakerMC ----------------------------
(* Three callers; thresholds and timeouts that differ, and a breaker that is   *)
(* switched off.                                                               *)
EXTENDS CircuitBreaker, TLC

Strict == [failureThreshold |-> 1, successThreshold |-> 2, timeout |-> 1, enabled |-> TRUE]
Lenient == [failureThreshold |-> 3, successThreshold |-> 0, timeout |-> 2, enabled |-> TRUE]
Disabled == [failureThreshold |-> 2, successThreshold |-> 1, timeout |-> 0, enabled |-> FALSE]

ThreeConfigs == {Strict, Lenient, Disabled}
OneConfig == {[failureThreshold |-> 2, successThreshold |-> 2, timeout |-> 1, enabled |-> TRUE]}
SlotSymmetry == Permutations(Slot)
================================================================================
