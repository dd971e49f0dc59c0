-------------------------------- MODULE BucketOps --------------------------------
(***************************************************************************)
(* The arithmetic of TokenBucket (pkg/middleware/ratelimit.go).            *)
(*                                                                         *)
(* Tokens are counted in fractions: Unit of them make one token, and rate  *)
(* of them are refilled per tick of the clock.  The code's float64 rounds; *)
(* these counts are exact.  A bucket keeps idle, the time since            *)
(* lastRefill, which stops growing when it no longer matters: once the     *)
(* bucket has filled up and is idle enough for Cleanup.                    *)
(***************************************************************************)
EXTENDS Integers

CONSTANT Unit   \* what one request costs

ASSUME UnitAssumption == Unit \in Nat \ {0}

Bucket == [tokens : Nat, capacity : Nat, rate : Nat, idle : Nat]

NewTokenBucket(capacity, rate) ==
  [tokens |-> capacity, capacity |-> capacity, rate |-> rate, idle |-> 0]

\* Mutant: the refill is not capped.
RefilledUncapped(b) == b.tokens + b.idle * b.rate

\* The refill at the start of Allow: what b.tokens becomes.
Refilled(b) ==
  IF b.tokens + b.idle * b.rate > b.capacity THEN b.capacity
  ELSE b.tokens + b.idle * b.rate

\* Would Allow let a request through now?
HasToken(b) == Refilled(b) >= Unit

\* Mutant: lastRefill is only moved when the request passes.
AfterAllowLate(b) ==
  IF HasToken(b) THEN [b EXCEPT !.tokens = Refilled(b) - Unit, !.idle = 0]
  ELSE [b EXCEPT !.tokens = Refilled(b)]

\* The bucket after Allow.
AfterAllow(b) ==
  [b EXCEPT !.tokens = IF HasToken(b) THEN Refilled(b) - Unit ELSE Refilled(b),
            !.idle = 0]

\* One tick later.
Aged(b, enough) ==
  IF b.idle * b.rate >= b.capacity /\ b.idle >= enough THEN b
  ELSE [b EXCEPT !.idle = @ + 1]
==================================================================================
