------------------------------ MODULE RateLimiterMC ------------------------------
(* Two callers; a wide and a narrow limit per key, a global one, none set. *)
EXTENDS RateLimiter, TLC

Wide == [requestsPerSecond |-> 1, burstSize |-> 2, dimension |-> "ip", enabled |-> TRUE]
Narrow == [requestsPerSecond |-> 1, burstSize |-> 0, dimension |-> "ip", enabled |-> TRUE]
Unset == [requestsPerSecond |-> 0, burstSize |-> 0, dimension |-> "ip", enabled |-> TRUE]
Global == [requestsPerSecond |-> 1, burstSize |-> 2, dimension |-> "global", enabled |-> TRUE]

AllConfigs == {Wide, Narrow, Unset, Global}
OneConfig == {Wide}
CallerSymmetry == Permutations(Caller)
==================================================================================
