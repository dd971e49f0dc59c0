------------------------------- MODULE TokenBucket -------------------------------
(***************************************************************************)
(* One TokenBucket of pkg/middleware/ratelimit.go.  The bucket is refilled *)
(* lazily, by the next Allow; TokenPool, which it implements, is refilled  *)
(* at every tick.  Allow runs under tb.mu, so it is one step.              *)
(*                                                                         *)
(* A window is any stretch of time: the history variables count from the   *)
(* last Restart, which happens at any moment.                              *)
(***************************************************************************)
EXTENDS BucketOps

CONSTANTS
  Capacity,     \* tb.capacity
  Rate,         \* tb.refillRate
  MaxWindow     \* bound on the length of a window

ASSUME TokenBucketAssumption ==
  Capacity \in Nat /\ Rate \in Nat \ {0} /\ MaxWindow \in Nat

VARIABLES
  bucket,     \* the bucket
  answer,     \* what the last Allow returned
  admitted,   \* history: requests let through in the window
  elapsed     \* history: ticks since the window began

vars == <<bucket, answer, admitted, elapsed>>

TypeOK ==
  /\ bucket \in Bucket
  /\ bucket.capacity = Capacity /\ bucket.rate = Rate
  /\ bucket.tokens <= Capacity
  /\ answer \in {"none", "allowed", "denied"}
  /\ admitted \in Nat
  /\ elapsed \in 0 .. MaxWindow

Init ==
  /\ bucket = NewTokenBucket(Capacity, Rate)
  /\ answer = "none"
  /\ admitted = 0
  /\ elapsed = 0

Allow ==
  /\ bucket' = AfterAllow(bucket)
  /\ answer' = IF HasToken(bucket) THEN "allowed" ELSE "denied"
  /\ admitted' = IF HasToken(bucket) THEN admitted + 1 ELSE admitted
  /\ UNCHANGED elapsed

Tick ==
  /\ elapsed < MaxWindow
  /\ elapsed' = elapsed + 1
  /\ bucket' = Aged(bucket, 0)
  /\ UNCHANGED <<answer, admitted>>

Restart ==
  /\ admitted' = 0
  /\ elapsed' = 0
  /\ UNCHANGED <<bucket, answer>>

Next == Allow \/ Tick \/ Restart

Spec == Init /\ [][Next]_vars

--------------------------------------------------------------------------------
(* Properties *)

\* No window of any length lets through more than a full bucket and what is
\* refilled while it lasts, wherever between two refills it begins.
WindowBound == Unit * admitted <= Capacity + Rate * elapsed

\* Refilling lazily makes no difference: every answer is the one a pool refilled
\* at every tick would have given.
Pool == INSTANCE TokenPool WITH available <- Refilled(bucket)
ImplementsPool == Pool!Spec
==================================================================================
