------------------------------ MODULE BucketOpsProofs ------------------------------
(***************************************************************************)
(* What the operations on a token bucket return, for every bucket.         *)
(***************************************************************************)
EXTENDS BucketOps, TLAPS

--------------------------------------------------------------------------------
(* Arithmetic the solver needs to be told *)

LEMMA Distribute == \A a, b \in Nat : a * b \in Nat /\ (a + 1) * b = a * b + b
                                        /\ b * (a + 1) = b * a + b /\ b * a \in Nat
  OBVIOUS

--------------------------------------------------------------------------------
(* The operations on a bucket *)

LEMMA RefilledType ==
  ASSUME NEW b \in Bucket
  PROVE  Refilled(b) \in Nat /\ Refilled(b) <= b.capacity
<1>1. b.idle * b.rate \in Nat
  BY Distribute DEF Bucket
<1> QED BY <1>1 DEF Refilled, Bucket

\* A tick adds the rate to what Allow will find, up to the capacity.
LEMMA RefilledAged ==
  ASSUME NEW b \in Bucket, NEW enough \in Nat
  PROVE  /\ Aged(b, enough) \in Bucket
         /\ Aged(b, enough).tokens = b.tokens
         /\ Aged(b, enough).capacity = b.capacity
         /\ Aged(b, enough).rate = b.rate
         /\ Aged(b, enough).idle \in {b.idle, b.idle + 1}
         /\ Refilled(Aged(b, enough)) = IF Refilled(b) + b.rate > b.capacity
                                     THEN b.capacity ELSE Refilled(b) + b.rate
<1> DEFINE r == b.rate
           x == b.idle * b.rate
<1>1. b.tokens \in Nat /\ b.capacity \in Nat /\ r \in Nat /\ x \in Nat /\ b.idle \in Nat
  BY Distribute DEF Bucket
<1>2. CASE x >= b.capacity /\ b.idle >= enough
  <2>1. Aged(b, enough) = b
    BY <1>1, <1>2 DEF Aged
  <2>2. Refilled(b) = b.capacity
    <3>1. Refilled(b) = IF b.tokens + x > b.capacity THEN b.capacity ELSE b.tokens + x
      BY DEF Refilled
    <3> HIDE DEF x
    <3> QED BY <1>1, <1>2, <3>1
  <2> QED BY <1>1, <2>1, <2>2
<1>3. CASE ~(x >= b.capacity /\ b.idle >= enough)
  <2>1. Aged(b, enough) = [b EXCEPT !.idle = b.idle + 1]
    BY <1>1, <1>3 DEF Aged
  <2>2. /\ Aged(b, enough) \in Bucket
        /\ Aged(b, enough).tokens = b.tokens /\ Aged(b, enough).capacity = b.capacity
        /\ Aged(b, enough).rate = r /\ Aged(b, enough).idle = b.idle + 1
    BY <1>1, <2>1 DEF Bucket
  <2>3. (b.idle + 1) * r = x + r
    BY <1>1, Distribute
  <2>4. Refilled(Aged(b, enough)) = IF b.tokens + (x + r) > b.capacity
                                 THEN b.capacity ELSE b.tokens + (x + r)
    BY <2>2, <2>3 DEF Refilled
  <2>5. Refilled(b) = IF b.tokens + x > b.capacity THEN b.capacity ELSE b.tokens + x
    BY DEF Refilled
  <2> HIDE DEF x, r
  <2> QED BY <1>1, <2>2, <2>4, <2>5 DEF r
<1> QED BY <1>2, <1>3

\* Allow takes one token or none.
LEMMA RefilledAfterAllow ==
  ASSUME NEW b \in Bucket
  PROVE  /\ AfterAllow(b) \in Bucket
         /\ AfterAllow(b).tokens <= b.capacity
         /\ AfterAllow(b).capacity = b.capacity
         /\ AfterAllow(b).rate = b.rate
         /\ AfterAllow(b).idle = 0
         /\ Refilled(AfterAllow(b)) =
              IF HasToken(b) THEN Refilled(b) - Unit ELSE Refilled(b)
<1> DEFINE t == IF HasToken(b) THEN Refilled(b) - Unit ELSE Refilled(b)
           c == AfterAllow(b)
<1>1. t \in Nat /\ t <= b.capacity /\ b.capacity \in Nat
  BY RefilledType, UnitAssumption DEF HasToken, Bucket
<1>2. /\ c \in Bucket /\ c.tokens = t /\ c.capacity = b.capacity
      /\ c.rate = b.rate /\ c.idle = 0
  BY <1>1 DEF AfterAllow, Bucket
<1>3. 0 * c.rate = 0
  BY <1>2 DEF Bucket
<1>4. Refilled(c) = t
  BY <1>1, <1>2, <1>3 DEF Refilled
<1> QED BY <1>1, <1>2, <1>4

\* A new bucket is full.
LEMMA NewBucketFull ==
  ASSUME NEW capacity \in Nat, NEW rate \in Nat
  PROVE  /\ NewTokenBucket(capacity, rate) \in Bucket
         /\ Refilled(NewTokenBucket(capacity, rate)) = capacity
         /\ NewTokenBucket(capacity, rate).idle = 0
<1>1. 0 * rate = 0
  OBVIOUS
<1> QED BY <1>1 DEF NewTokenBucket, Bucket, Refilled
====================================================================================
