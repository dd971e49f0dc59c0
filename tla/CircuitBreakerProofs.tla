-------------------------- MODULE CircuitBreakerProofs --------------------------
(***************************************************************************)
(* Exposure and the full timeout, for every set of callers, thresholds and *)
(* timeouts.                                                               *)
(***************************************************************************)
EXTENDS CircuitBreaker, FiniteSetTheorems, TLAPS

Gated == {s \in Slot : pc[s] = "gated"}
InFlight == Cardinality(Gated)

\* While the breaker is closed, each request of the run has failed and been
\* counted or is still running; while it is half-open, all are still running.
\* An open breaker lets nothing through, so the bound it opened with stays.
RunAccounted ==
  /\ state = "closed" => failures < MaxThreshold /\ run <= failures + InFlight
  /\ state = "half-open" => run <= InFlight
  /\ Exposure

\* The failure that opened the breaker is not older than the opening.
OpenedByFailure == state = "open" => age <= openAge

IInv == TypeOK /\ RunAccounted /\ OpenedByFailure

--------------------------------------------------------------------------------
(* The number of gated requests *)

LEMMA InFlightType == InFlight \in Nat /\ InFlight <= Cardinality(Slot) /\ IsFiniteSet(Gated)
  BY CircuitBreakerAssumption, FS_Subset, FS_CardinalityType DEF Gated, InFlight

LEMMA InFlightTypeNext == InFlight' \in Nat /\ InFlight' <= Cardinality(Slot)
<1>1. Gated' \in SUBSET Slot
  BY DEF Gated
<1> QED
  BY <1>1, CircuitBreakerAssumption, FS_Subset, FS_CardinalityType DEF InFlight

LEMMA SlotCount == Cardinality(Slot) \in Nat
  BY CircuitBreakerAssumption, FS_CardinalityType

\* One caller moves: the number of gated requests changes by what it does.
LEMMA InFlightStep ==
  ASSUME TypeOK, NEW s \in Slot, NEW v, pc' = [pc EXCEPT ![s] = v]
  PROVE  /\ pc[s] # "gated" /\ v = "gated" => InFlight' = InFlight + 1
         /\ pc[s] = "gated" /\ v # "gated" => InFlight' = InFlight - 1
         /\ pc[s] # "gated" /\ v # "gated" => InFlight' = InFlight
<1>1. pc[s] # "gated" /\ v = "gated" => Gated' = Gated \cup {s} /\ s \notin Gated
  BY DEF TypeOK, Gated
<1>2. pc[s] = "gated" /\ v # "gated" => Gated' = Gated \ {s} /\ s \in Gated
  BY DEF TypeOK, Gated
<1>3. pc[s] # "gated" /\ v # "gated" => Gated' = Gated
  BY DEF TypeOK, Gated
<1> QED
  BY <1>1, <1>2, <1>3, InFlightType, FS_AddElement, FS_RemoveElement, SMTT(30) DEF InFlight

\* A caller whose request ends, gated or not.
LEMMA InFlightEnds ==
  ASSUME TypeOK, NEW s \in Slot, pc' = [pc EXCEPT ![s] = "idle"]
  PROVE  InFlight' = InFlight - 1 \/ InFlight' = InFlight
<1>1. Gated' = Gated \ {s}
  BY DEF TypeOK, Gated
<1> QED
  BY <1>1, InFlightType, FS_RemoveElement DEF InFlight

LEMMA InFlightSame == UNCHANGED pc => InFlight' = InFlight
  BY DEF InFlight, Gated

--------------------------------------------------------------------------------
(* The invariant is inductive *)

LEMMA TypeInit == Init => TypeOK
<1> SUFFICES ASSUME Init PROVE TypeOK
  OBVIOUS
<1>1. PICK c \in Configs : config = Normalized(c)
  BY DEF Init
<1>2. c \in ConfigType /\ c.failureThreshold <= MaxThreshold /\ c.timeout < MaxAge
  BY CircuitBreakerAssumption
<1>3. /\ Normalized(c) \in ConfigType
      /\ Normalized(c).failureThreshold = c.failureThreshold
      /\ Normalized(c).timeout = c.timeout
  BY <1>2 DEF Normalized, ConfigType
<1> QED
  BY <1>1, <1>2, <1>3, CircuitBreakerAssumption DEF Init, TypeOK, State

LEMMA TypeNext == TypeOK /\ [Next]_vars => TypeOK'
<1> SUFFICES ASSUME TypeOK, [Next]_vars PROVE TypeOK'
  OBVIOUS
<1> USE DEF TypeOK, State
<1>1. ASSUME NEW s \in Slot, AllowUnlocked(s) PROVE TypeOK'
  BY <1>1 DEF AllowUnlocked
<1>2. ASSUME NEW s \in Slot, AllowProbe(s) PROVE TypeOK'
  BY <1>2 DEF AllowProbe
<1>3. ASSUME NEW s \in Slot, AllowReject(s) PROVE TypeOK'
  BY <1>3 DEF AllowReject
<1>4. ASSUME NEW s \in Slot, AllowPass(s) PROVE TypeOK'
  BY <1>4 DEF AllowPass
<1>5. ASSUME NEW s \in Slot, RecordSuccess(s) PROVE TypeOK'
  BY <1>5 DEF RecordSuccess, Finish
<1>6. ASSUME NEW s \in Slot, RecordFailure(s) PROVE TypeOK'
  BY <1>6, CircuitBreakerAssumption DEF RecordFailure, Finish
<1>7. ASSUME Reset PROVE TypeOK'
  BY <1>7 DEF Reset
<1>8. ASSUME UpdateConfig PROVE TypeOK'
  BY <1>8, CircuitBreakerAssumption DEF UpdateConfig
<1>9. ASSUME Tick PROVE TypeOK'
  BY <1>9, CircuitBreakerAssumption DEF Tick, Older
<1>10. ASSUME UNCHANGED vars PROVE TypeOK'
  BY <1>10 DEF vars
<1> QED
  BY <1>1, <1>2, <1>3, <1>4, <1>5, <1>6, <1>7, <1>8, <1>9, <1>10
  DEF Next, Caller, Allow

\* The breaker holds values of its declared types, and successes are counted in
\* the half-open state only: none survives the phase it was recorded in.
THEOREM TypeCorrect == Spec => []TypeOK
  BY TypeInit, TypeNext, PTL DEF Spec

LEMMA RunInit == Init => RunAccounted
<1> SUFFICES ASSUME Init PROVE RunAccounted
  OBVIOUS
<1> QED
  BY InFlightType, SlotCount, CircuitBreakerAssumption DEF Init, RunAccounted, Exposure

LEMMA RunNext == TypeOK /\ RunAccounted /\ [Next]_vars => RunAccounted'
<1> SUFFICES ASSUME TypeOK, RunAccounted, [Next]_vars PROVE RunAccounted'
  OBVIOUS
<1> DEFINE N == Cardinality(Slot)
           f == InFlight
           g == InFlight'
<1>1. /\ failures \in Nat /\ run \in Nat /\ state \in State
      /\ config.failureThreshold \in Int /\ config.failureThreshold <= MaxThreshold
      /\ N \in Nat /\ MaxThreshold \in Nat /\ MaxThreshold >= 1
      /\ f \in Nat /\ f <= N /\ g \in Nat /\ g <= N
  BY InFlightType, InFlightTypeNext, SlotCount, CircuitBreakerAssumption
  DEF TypeOK, ConfigType
<1>2. /\ state = "closed" => failures < MaxThreshold /\ run <= failures + f
      /\ state = "half-open" => run <= f
      /\ run <= MaxThreshold - 1 + N
  BY DEF RunAccounted, Exposure
<1>3. ASSUME /\ state' = "closed" => failures' < MaxThreshold /\ run' <= failures' + g
             /\ state' = "half-open" => run' <= g
             /\ run' <= MaxThreshold - 1 + N
      PROVE  RunAccounted'
  BY <1>3 DEF RunAccounted, Exposure
\* What one caller does to the number of requests in flight.
<1>4. ASSUME NEW s \in Slot, NEW v, pc' = [pc EXCEPT ![s] = v]
      PROVE  /\ pc[s] # "gated" /\ v = "gated" => g = f + 1
             /\ pc[s] = "gated" /\ v # "gated" => g = f - 1
             /\ pc[s] # "gated" /\ v # "gated" => g = f
  BY <1>4, InFlightStep
<1>5. ASSUME NEW s \in Slot, pc' = [pc EXCEPT ![s] = "idle"]
      PROVE  g = f - 1 \/ g = f
  BY <1>5, InFlightEnds
<1>6. UNCHANGED pc => g = f
  BY InFlightSame
<1> HIDE DEF N, f, g
<1>7. CASE \E s \in Slot : AllowUnlocked(s) \/ AllowReject(s)
  <2>1. /\ g = f
        /\ UNCHANGED <<state, failures, run>>
    BY <1>4, <1>7 DEF AllowUnlocked, AllowReject
  <2> QED BY <1>1, <1>2, <1>3, <2>1
<1>8. CASE \E s \in Slot : AllowProbe(s)
  <2>1. g = f + 1 /\ state' = "half-open" /\ run' = 1
    BY <1>4, <1>8 DEF AllowProbe
  <2> QED BY <1>1, <1>3, <2>1
<1>9. CASE \E s \in Slot : AllowPass(s)
  <2>1. /\ g = f + 1 /\ run' = run + 1 /\ state # "open"
        /\ UNCHANGED <<state, failures>>
    BY <1>4, <1>9 DEF AllowPass
  <2> QED BY <1>1, <1>2, <1>3, <2>1 DEF State
<1>10. CASE \E s \in Slot : RecordSuccess(s)
  <2>1. run' = 0 /\ (state' = "closed" => failures' = 0)
    BY <1>10 DEF RecordSuccess
  <2> QED BY <1>1, <1>3, <2>1
<1>11. CASE \E s \in Slot : RecordFailure(s)
  <2>1. g = f - 1 \/ g = f
    BY <1>5, <1>11 DEF RecordFailure, Finish
  <2>2. /\ run' = run
        /\ state' = "half-open" => FALSE
        /\ state' = "closed" => /\ state = "closed"
                                /\ failures' = failures + 1
                                /\ failures + 1 < config.failureThreshold
    BY <1>1, <1>11 DEF RecordFailure, Opens, State
  <2> QED BY <1>1, <1>2, <1>3, <2>1, <2>2
<1>12. CASE Reset
  <2>1. state' = "closed" /\ failures' = 0 /\ run' = 0
    BY <1>12 DEF Reset
  <2> QED BY <1>1, <1>3, <2>1
<1>13. CASE UpdateConfig \/ Tick \/ UNCHANGED vars
  <2>1. g = f /\ UNCHANGED <<state, failures, run>>
    BY <1>6, <1>13 DEF UpdateConfig, Tick, vars
  <2> QED BY <1>1, <1>2, <1>3, <2>1
<1> QED
  BY <1>7, <1>8, <1>9, <1>10, <1>11, <1>12, <1>13 DEF Next, Caller, Allow

LEMMA OpenedNext == TypeOK /\ OpenedByFailure /\ [Next]_vars => OpenedByFailure'
<1> SUFFICES ASSUME TypeOK, OpenedByFailure, [Next]_vars PROVE OpenedByFailure'
  OBVIOUS
<1> USE CircuitBreakerAssumption DEF TypeOK, OpenedByFailure
<1>1. ASSUME NEW s \in Slot, Caller(s) PROVE OpenedByFailure'
  BY <1>1 DEF Caller, Allow, AllowUnlocked, AllowProbe, AllowReject, AllowPass,
              RecordSuccess, RecordFailure, Finish, State
<1>2. ASSUME Reset \/ UpdateConfig \/ UNCHANGED vars PROVE OpenedByFailure'
  BY <1>2 DEF Reset, UpdateConfig, vars
<1>3. ASSUME Tick PROVE OpenedByFailure'
  BY <1>3 DEF Tick, Older
<1> QED
  BY <1>1, <1>2, <1>3 DEF Next

LEMMA InvHolds == Spec => []IInv
<1>1. Init => IInv
  BY TypeInit, RunInit DEF Init, IInv, OpenedByFailure
<1>2. IInv /\ [Next]_vars => IInv'
  BY TypeNext, RunNext, OpenedNext DEF IInv
<1> QED BY <1>1, <1>2, PTL DEF Spec

--------------------------------------------------------------------------------
(* The properties *)

\* Whatever the callers, the thresholds and the interleaving, no more than
\* MaxThreshold - 1 requests plus one per caller pass in a row without a
\* recorded success, a Reset or a full Timeout.
THEOREM ExposureBounded == Spec => []Exposure
  BY InvHolds, PTL DEF IInv, RunAccounted

LEMMA StepFullTimeout ==
  IInv /\ [Next]_vars =>
    (state = "open" /\ state' # "open" =>
       (state' = "half-open" /\ openAge > config.timeout) \/ Reset)
<1> SUFFICES ASSUME IInv, [Next]_vars, state = "open", state' # "open", ~Reset
             PROVE  state' = "half-open" /\ openAge > config.timeout
  OBVIOUS
<1>1. PICK s \in Slot : AllowProbe(s)
  BY DEF Next, vars, Caller, Allow, AllowUnlocked, AllowReject, AllowPass,
         RecordSuccess, RecordFailure, Opens, UpdateConfig, Tick
<1>2. age > config.timeout /\ age <= openAge
  BY <1>1 DEF AllowProbe, TimedOut, IInv, OpenedByFailure
<1>3. age \in Int /\ openAge \in Int /\ config.timeout \in Int
  BY CircuitBreakerAssumption DEF IInv, TypeOK, ConfigType
<1> QED BY <1>1, <1>2, <1>3 DEF AllowProbe

\* Only Reset, or a request after a full Timeout, moves an open breaker.
THEOREM OpenForFullTimeout == Spec => FullTimeout
  BY InvHolds, StepFullTimeout, PTL DEF Spec, FullTimeout
================================================================================
