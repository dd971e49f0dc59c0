----------------------------- MODULE CircuitBreaker -----------------------------
(***************************************************************************)
(* The circuit breaker of pkg/middleware/circuitbreaker.go and the         *)
(* goroutines that call it.                                                *)
(*                                                                         *)
(* Allow reads config.Enabled without cb.mu and takes the lock afterwards, *)
(* so it is two steps; every other method is one critical section.  No     *)
(* code in the repository calls the breaker but its tests: the callers are *)
(* external and follow the tests, asking Allow and recording one result    *)
(* for every request it lets through.                                      *)
(*                                                                         *)
(* Time is a count of ticks.  The ages of events are kept instead of their *)
(* times, and stop growing at MaxAge.                                      *)
(***************************************************************************)
EXTENDS Integers, FiniteSets

CONSTANTS
  Slot,          \* the callers, each with one request at a time
  Configs,       \* the configurations NewCircuitBreaker and UpdateConfig get
  MaxThreshold,  \* no failure threshold is greater
  MaxAge         \* the age at which ages stop growing

ConfigType ==
  [failureThreshold : Int, successThreshold : Int, timeout : Int, enabled : BOOLEAN]

ASSUME CircuitBreakerAssumption ==
  /\ IsFiniteSet(Slot)
  /\ Configs \subseteq ConfigType
  /\ MaxThreshold \in Nat \ {0}
  /\ MaxAge \in Nat
  /\ \A c \in Configs : c.failureThreshold <= MaxThreshold /\ c.timeout < MaxAge

VARIABLES
  config,     \* cb.config
  state,      \* cb.state
  failures,   \* cb.failures
  successes,  \* cb.successes
  age,        \* time.Since(cb.lastFailureTime)
  pc,         \* what each caller is doing
  openAge,    \* history: time since the breaker last opened
  run         \* history: requests the enabled breaker let through since the last
              \* recorded success, Reset, or Allow that half-opened it

vars == <<config, state, failures, successes, age, pc, openAge, run>>

State == {"closed", "open", "half-open"}

TypeOK ==
  /\ config \in ConfigType /\ config.failureThreshold <= MaxThreshold
  /\ config.timeout < MaxAge
  /\ state \in State
  /\ failures \in Nat
  /\ successes \in Nat /\ (state # "half-open" => successes = 0)
  /\ age \in 0 .. MaxAge /\ openAge \in 0 .. MaxAge
  /\ pc \in [Slot -> {"idle", "checked", "gated", "ungated"}]
  /\ run \in Nat

\* NewCircuitBreaker raises a missing success threshold to one.
Normalized(c) ==
  IF c.successThreshold <= 0 THEN [c EXCEPT !.successThreshold = 1] ELSE c

Init ==
  /\ config \in {Normalized(c) : c \in Configs}
  /\ state = "closed"
  /\ failures = 0 /\ successes = 0
  /\ age = MaxAge /\ openAge = MaxAge
  /\ pc = [s \in Slot |-> "idle"]
  /\ run = 0

--------------------------------------------------------------------------------
(* Allow *)

AllowUnlocked(s) ==
  /\ pc[s] = "idle"
  /\ pc' = [pc EXCEPT ![s] = IF config.enabled THEN "checked" ELSE "ungated"]
  /\ UNCHANGED <<config, state, failures, successes, age, openAge, run>>

TimedOut == age > config.timeout

\* Mutant: the request is let through and the breaker stays open.
ProbeStaysOpen(s) ==
  /\ pc[s] = "checked" /\ state = "open" /\ TimedOut
  /\ pc' = [pc EXCEPT ![s] = "gated"]
  /\ run' = 1
  /\ UNCHANGED <<config, state, failures, successes, age, openAge>>

AllowProbe(s) ==
  /\ pc[s] = "checked" /\ state = "open" /\ TimedOut
  /\ state' = "half-open"
  /\ successes' = 0
  /\ pc' = [pc EXCEPT ![s] = "gated"]
  /\ run' = 1
  /\ UNCHANGED <<config, failures, age, openAge>>

AllowReject(s) ==
  /\ pc[s] = "checked" /\ state = "open" /\ ~TimedOut
  /\ pc' = [pc EXCEPT ![s] = "idle"]
  /\ UNCHANGED <<config, state, failures, successes, age, openAge, run>>

AllowPass(s) ==
  /\ pc[s] = "checked" /\ state # "open"
  /\ pc' = [pc EXCEPT ![s] = "gated"]
  /\ run' = run + 1
  /\ UNCHANGED <<config, state, failures, successes, age, openAge>>

--------------------------------------------------------------------------------
(* The results of the requests *)

Finish(s) ==
  /\ pc[s] \in {"gated", "ungated"}
  /\ pc' = [pc EXCEPT ![s] = "idle"]

RecordSuccess(s) ==
  /\ Finish(s)
  /\ run' = 0
  /\ IF state = "half-open" /\ successes + 1 >= config.successThreshold
       THEN state' = "closed" /\ successes' = 0
       ELSE /\ UNCHANGED state
            /\ successes' = IF state = "half-open" THEN successes + 1 ELSE successes
  /\ failures' = IF state = "closed" \/ state' = "closed" THEN 0 ELSE failures
  /\ UNCHANGED <<config, age, openAge>>

\* Mutant: off by one, the threshold must be exceeded.
OpensLate ==
  \/ state = "closed" /\ failures + 1 > config.failureThreshold
  \/ state = "half-open"

\* Does recording one more failure open the breaker?
Opens ==
  \/ state = "closed" /\ failures + 1 >= config.failureThreshold
  \/ state = "half-open"

\* Mutant: only a failure that is counted is timed, not one that half-opens.
FailureUntimed(s) ==
  /\ Finish(s)
  /\ age' = IF state = "closed" THEN 0 ELSE age
  /\ state' = IF Opens THEN "open" ELSE state
  /\ openAge' = IF Opens THEN 0 ELSE openAge
  /\ failures' = IF state = "closed" THEN failures + 1 ELSE failures
  /\ successes' = IF state = "half-open" THEN 0 ELSE successes
  /\ UNCHANGED <<config, run>>

\* Mutant: the successes of a half-open phase outlive the failure that ends it.
FailureKeepsSuccesses(s) ==
  /\ Finish(s)
  /\ age' = 0
  /\ state' = IF Opens THEN "open" ELSE state
  /\ openAge' = IF Opens THEN 0 ELSE openAge
  /\ failures' = IF state = "closed" THEN failures + 1 ELSE failures
  /\ UNCHANGED <<config, successes, run>>

RecordFailure(s) ==
  /\ Finish(s)
  /\ age' = 0
  /\ state' = IF Opens THEN "open" ELSE state
  /\ openAge' = IF Opens THEN 0 ELSE openAge
  /\ failures' = IF state = "closed" THEN failures + 1 ELSE failures
  /\ successes' = IF state = "half-open" THEN 0 ELSE successes
  /\ UNCHANGED <<config, run>>

--------------------------------------------------------------------------------
(* Administration and time *)

Reset ==
  /\ state' = "closed"
  /\ failures' = 0 /\ successes' = 0
  /\ run' = 0
  /\ UNCHANGED <<config, age, pc, openAge>>

UpdateConfig ==
  /\ config' \in Configs
  /\ UNCHANGED <<state, failures, successes, age, pc, openAge, run>>

Older(a) == IF a < MaxAge THEN a + 1 ELSE a

Tick ==
  /\ age' = Older(age)
  /\ openAge' = Older(openAge)
  /\ UNCHANGED <<config, state, failures, successes, pc, run>>

Allow(s) == AllowUnlocked(s) \/ AllowProbe(s) \/ AllowReject(s) \/ AllowPass(s)
Caller(s) == Allow(s) \/ RecordSuccess(s) \/ RecordFailure(s)

Next == (\E s \in Slot : Caller(s)) \/ Reset \/ UpdateConfig \/ Tick

Spec == Init /\ [][Next]_vars

\* Time passes, requests keep coming and every request ends; nobody is obliged
\* to call Reset or UpdateConfig.
FairSpec == Spec /\ WF_vars(Tick) /\ \A s \in Slot : WF_vars(Caller(s))

--------------------------------------------------------------------------------
(* Properties *)

\* How much a backend that only fails is exposed to: no matter how results that
\* arrive late, configuration changes and half-open phases interleave, the
\* enabled breaker never lets more than this many requests through in a row
\* without a recorded success, a Reset or a full Timeout in between.
Exposure == run <= MaxThreshold - 1 + Cardinality(Slot)

\* An open breaker stays shut for a full Timeout after it opened; a failure that
\* arrives late only extends that, and nothing but Reset cuts it short.
FullTimeout ==
  [][state = "open" /\ state' # "open" =>
       (state' = "half-open" /\ openAge > config.timeout) \/ Reset]_vars

\* An open breaker does not stay open, unless it is switched off again and
\* again: late failures are finitely many, so once time has passed a request is
\* let through to probe the backend, whatever timeouts it is given meanwhile.
ProbesAgain == []<>(~config.enabled) \/ (state = "open" ~> state # "open")

--------------------------------------------------------------------------------
(* What the documents say and the code does not do *)

\* circuitbreaker.go:88 and config.go:44: half-open lets a limited number of
\* probes through, the number being what server.go:148 passes as
\* SuccessThreshold.
LimitedProbes == state = "half-open" => run <= config.successThreshold
================================================================================
