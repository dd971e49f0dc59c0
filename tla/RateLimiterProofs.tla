---------------------------- MODULE RateLimiterProofs ----------------------------
(***************************************************************************)
(* One bucket per key, and no key above its limit, for every number of     *)
(* callers and keys, every set of configurations and every Cleanup timeout *)
(* in which a bucket fills up.                                             *)
(***************************************************************************)
EXTENDS RateLimiter, BucketOpsProofs, FiniteSetTheorems, TLAPS

\* How the map, the global limit and the callers share the heap.
Shape ==
  /\ \A c \in Caller : pc[c] # "idle" => key[c] \in Key
  /\ \A c \in Caller : bucket[c] # None <=> pc[c] \in {"takeGlobal", "take"}
  /\ \A k1, k2 \in Key : buckets[k1] # None /\ buckets[k1] = buckets[k2] => k1 = k2
  /\ \A k \in Key : buckets[k] # None =>
       /\ buckets[k] # globalBkt
       /\ \A c \in Caller : pc[c] = "takeGlobal" => bucket[c] # buckets[k]
  /\ \A c \in orphaned : pc[c] = "take" /\ \A k \in Key : bucket[c] # buckets[k]

\* What the bucket of a key holds is covered by the key's credit, and a bucket
\* idle for long has a credit to match: removing it costs nothing.
Funded(k) ==
  /\ credit[k] \in 0 .. MaxCapacity
  /\ buckets[k] = None => credit[k] = MaxCapacity
  /\ buckets[k] # None =>
       /\ heap[buckets[k]].capacity <= MaxCapacity
       /\ heap[buckets[k]].rate <= MaxRate
       /\ Refilled(heap[buckets[k]]) <= credit[k]
       /\ credit[k] = MaxCapacity \/ heap[buckets[k]].idle * MaxRate <= credit[k]

IInv == TypeOK /\ Shape /\ OneBucketPerKey /\ \A k \in Key : Funded(k)

--------------------------------------------------------------------------------
(* The heap *)

\* Every bucket is a bucket, and holds no more than its capacity.
Sound(b) == b \in Bucket /\ b.tokens <= b.capacity

LEMMA SoundHeap ==
  ASSUME TypeOK
  PROVE  \A a \in Reachable : Sound(heap[a])
  BY DEF TypeOK, Sound

\* Collecting garbage leaves the buckets that can be reached as they were.
LEMMA Collected ==
  ASSUME NEW new, Heap(new), \A a \in Reachable' : Sound(new[a])
  PROVE  /\ heap' \in [Reachable' -> Bucket]
         /\ \A a \in Reachable' : heap'[a].tokens <= heap'[a].capacity
         /\ \A a \in Reachable' : heap'[a] = new[a]
  BY DEF Heap, Sound

LEMMA SoundAfterAllow ==
  ASSUME NEW b, Sound(b)
  PROVE  Sound(AfterAllow(b))
  BY RefilledAfterAllow DEF Sound

LEMMA SoundNew ==
  ASSUME NEW c \in Configs
  PROVE  /\ Sound(NewBucket(c))
         /\ NewBucket(c).capacity <= MaxCapacity /\ NewBucket(c).rate <= MaxRate
         /\ Refilled(NewBucket(c)) <= MaxCapacity
         /\ NewBucket(c).idle = 0
<1>1. Capacity(c) \in Nat /\ c.requestsPerSecond \in Nat
  <2>1. c.burstSize \in Nat /\ c.requestsPerSecond \in Nat
    BY RateLimiterAssumption DEF ConfigType
  <2> QED BY <2>1, Distribute, UnitAssumption DEF Capacity
<1>2. Capacity(c) <= MaxCapacity /\ c.requestsPerSecond <= MaxRate
  BY RateLimiterAssumption
<1>3. /\ NewBucket(c).tokens = Capacity(c) /\ NewBucket(c).capacity = Capacity(c)
      /\ NewBucket(c).rate = c.requestsPerSecond
  BY DEF NewBucket, NewTokenBucket
<1> QED BY <1>1, <1>2, <1>3, NewBucketFull DEF Sound, NewBucket

LEMMA SoundAged ==
  ASSUME NEW b, Sound(b)
  PROVE  Sound(Aged(b, IdleTimeout + 1))
<1>1. IdleTimeout + 1 \in Nat
  BY RateLimiterAssumption
<1> QED BY <1>1, RefilledAged DEF Sound

LEMMA FreshIsNew ==
  ASSUME TypeOK, Free # {}
  PROVE  Fresh \in Address /\ Fresh # None /\ Fresh \notin Reachable
<1>1. Fresh \in Free
  BY DEF Fresh, Free
<1> QED BY <1>1, RateLimiterAssumption DEF Free, TypeOK

--------------------------------------------------------------------------------
(* Types *)

LEMMA TypeInit == Init => TypeOK
<1> SUFFICES ASSUME Init PROVE TypeOK
  OBVIOUS
<1>1. globalBkt \in Address \cup {None}
  BY RateLimiterAssumption DEF Init
<1>2. Reachable = {globalBkt} \ {None}
  BY DEF Init, Reachable
<1>3. Sound(NewBucket(config))
  BY SoundNew DEF Init
<1>4. /\ heap \in [Reachable -> Bucket]
      /\ \A a \in Reachable : heap[a].tokens <= heap[a].capacity
  BY <1>2, <1>3 DEF Init, Sound
<1>5. MaxCapacity \in Int
  BY RateLimiterAssumption
<1> QED BY <1>1, <1>4, <1>5 DEF Init, TypeOK

\* Shape says that a caller at TakeGlobal or TakeKey holds a bucket.
LEMMA TypeNext == TypeOK /\ Shape /\ [Next]_vars => TypeOK'
<1> SUFFICES ASSUME TypeOK, Shape, [Next]_vars PROVE TypeOK'
  OBVIOUS
<1> USE DEF limiterVars, callerVars, creditVars
<1>0. \A c \in Caller : Unit \in Int /\ globalCredit - Unit \in Int
                       /\ \A k \in Key : credit[k] - Unit \in Int
  BY UnitAssumption DEF TypeOK
<1>1. ASSUME NEW c \in Caller, NEW k \in Key, AllowEnabled(c, k) PROVE TypeOK'
  <2>1. Reachable' = Reachable
    BY <1>1 DEF AllowEnabled, Reachable
  <2> QED BY <1>1, <2>1 DEF AllowEnabled, Goto, TypeOK
<1>2. ASSUME NEW c \in Caller, ReadGlobal(c) PROVE TypeOK'
  <2>1. Reachable' = Reachable
    BY <1>2 DEF ReadGlobal, Reachable, Shape, TypeOK
  <2> QED BY <1>2, <2>1 DEF ReadGlobal, Goto, TypeOK
<1>3. ASSUME NEW c \in Caller, TakeGlobal(c) PROVE TypeOK'
  <2> DEFINE new == [heap EXCEPT ![bucket[c]] = AfterAllow(@)]
  <2>1. Reachable' \subseteq Reachable
    BY <1>3 DEF TakeGlobal, Return, Reachable, TypeOK
  <2>2. \A a \in Reachable' : Sound(new[a])
    BY <2>1, SoundHeap, SoundAfterAllow DEF TypeOK
  <2>3. Heap(new)
    BY <1>3 DEF TakeGlobal
  <2>4. /\ heap' \in [Reachable' -> Bucket]
        /\ \A a \in Reachable' : heap'[a].tokens <= heap'[a].capacity
    BY <2>2, <2>3, Collected
  <2> QED BY <1>0, <1>3, <2>4 DEF TakeGlobal, Return, Goto, TypeOK
<1>4. ASSUME NEW c \in Caller, ReadDimension(c) PROVE TypeOK'
  <2>1. Reachable' = Reachable
    BY <1>4 DEF ReadDimension, Return, Reachable, Shape, TypeOK
  <2> QED BY <1>4, <2>1 DEF ReadDimension, Return, Goto, TypeOK
<1>5. ASSUME NEW c \in Caller, Lookup(c) PROVE TypeOK'
  <2>0. key[c] \in Key /\ bucket[c] = None
    BY <1>5 DEF Lookup, Shape
  <2>1. Reachable' = Reachable
    BY <1>5, <2>0 DEF Lookup, Reachable, TypeOK
  <2> QED BY <1>5, <2>0, <2>1 DEF Lookup, Goto, TypeOK
<1>6. ASSUME NEW c \in Caller, Create(c) PROVE TypeOK'
  <2>0. key[c] \in Key /\ bucket[c] = None
    BY <1>6 DEF Create, Shape
  <2>1. CASE buckets[key[c]] # None
    <3>1. Reachable' = Reachable
      BY <1>6, <2>0, <2>1 DEF Create, Reachable, TypeOK
    <3> QED BY <1>6, <2>0, <2>1, <3>1 DEF Create, Goto, TypeOK
  <2>2. CASE buckets[key[c]] = None
    <3>1. Reachable' = Reachable \cup {Fresh}
      BY <1>6, <2>0, <2>2, FreshIsNew DEF Create, Reachable, TypeOK
    <3>2. Sound(NewBucket(config))
      BY SoundNew DEF TypeOK
    <3>3. heap' = With(Fresh, NewBucket(config))
      BY <1>6, <2>2 DEF Create
    <3>4. /\ heap' \in [Reachable' -> Bucket]
          /\ \A a \in Reachable' : heap'[a].tokens <= heap'[a].capacity
      BY <3>1, <3>2, <3>3 DEF With, Sound, TypeOK
    <3> QED BY <1>6, <2>0, <2>2, <3>4, FreshIsNew DEF Create, Goto, TypeOK
  <2> QED BY <2>1, <2>2
<1>7. ASSUME NEW c \in Caller, TakeKey(c) PROVE TypeOK'
  <2> DEFINE new == [heap EXCEPT ![bucket[c]] = AfterAllow(@)]
  <2>0. key[c] \in Key
    BY <1>7 DEF TakeKey, Shape
  <2>1. Reachable' \subseteq Reachable
    BY <1>7 DEF TakeKey, Return, Reachable, TypeOK
  <2>2. \A a \in Reachable' : Sound(new[a])
    BY <2>1, SoundHeap, SoundAfterAllow DEF TypeOK
  <2>3. Heap(new)
    BY <1>7 DEF TakeKey
  <2>4. /\ heap' \in [Reachable' -> Bucket]
        /\ \A a \in Reachable' : heap'[a].tokens <= heap'[a].capacity
    BY <2>2, <2>3, Collected
  <2> QED BY <1>0, <1>7, <2>0, <2>4 DEF TakeKey, Return, Goto, TypeOK
<1>8. CASE Cleanup
  <2>1. Reachable' \subseteq Reachable
    BY <1>8 DEF Cleanup, Reachable, TypeOK
  <2>2. Heap(heap)
    BY <1>8 DEF Cleanup
  <2>3. /\ heap' \in [Reachable' -> Bucket]
        /\ \A a \in Reachable' : heap'[a].tokens <= heap'[a].capacity
    BY <2>1, <2>2, Collected, SoundHeap
  <2> QED BY <1>8, <2>3 DEF Cleanup, TypeOK
<1>9. CASE UpdateConfig
  <2> DEFINE new == With(Fresh, NewBucket(config'))
  <2>0. config' \in Configs /\ Fresh \in Address
    BY <1>9, FreshIsNew DEF UpdateConfig
  <2>1. Reachable' \subseteq Reachable \cup {Fresh}
    BY <1>9 DEF UpdateConfig, Reachable, TypeOK
  <2>2. \A a \in Reachable' : Sound(new[a])
    BY <2>0, <2>1, SoundNew, SoundHeap DEF With, TypeOK
  <2>3. Heap(new)
    BY <1>9 DEF UpdateConfig
  <2>4. /\ heap' \in [Reachable' -> Bucket]
        /\ \A a \in Reachable' : heap'[a].tokens <= heap'[a].capacity
    BY <2>2, <2>3, Collected
  <2> QED BY <1>9, <2>0, <2>4, RateLimiterAssumption DEF UpdateConfig, TypeOK
<1>10. CASE Tick
  <2>1. Reachable' = Reachable
    BY <1>10 DEF Tick, Reachable
  <2>2. \A a \in Reachable : Sound(heap'[a])
    BY <1>10, SoundHeap, SoundAged DEF Tick, TypeOK
  <2>3. /\ heap' \in [Reachable' -> Bucket]
        /\ \A a \in Reachable' : heap'[a].tokens <= heap'[a].capacity
    BY <1>10, <2>1, <2>2 DEF Tick, Sound, TypeOK
  <2>4. \A p \in Int : Fuller(p) \in Int
    BY RateLimiterAssumption DEF Fuller
  <2> QED BY <1>10, <2>3, <2>4 DEF Tick, TypeOK
<1>11. CASE UNCHANGED vars
  <2>1. Reachable' = Reachable
    BY <1>11 DEF vars, Reachable
  <2> QED BY <1>11, <2>1 DEF vars, TypeOK
<1> QED
  BY <1>1, <1>2, <1>3, <1>4, <1>5, <1>6, <1>7, <1>8, <1>9, <1>10, <1>11
  DEF Next, AllowStep

--------------------------------------------------------------------------------
(* How the heap is shared *)

LEMMA ShapeInit == Init => Shape
<1> SUFFICES ASSUME Init PROVE Shape
  OBVIOUS
<1> QED BY DEF Init, Shape

LEMMA ShapeNext == TypeOK /\ Shape /\ OneBucketPerKey /\ [Next]_vars => Shape'
<1> SUFFICES ASSUME TypeOK, Shape, OneBucketPerKey, [Next]_vars PROVE Shape'
  OBVIOUS
<1> USE DEF limiterVars, callerVars, creditVars
<1>0. /\ pc \in [Caller -> {"idle", "global", "takeGlobal", "dimension", "lookup",
                            "create", "take"}]
      /\ key \in [Caller -> Key \cup {None}]
      /\ bucket \in [Caller -> Address \cup {None}]
      /\ buckets \in [Key -> Address \cup {None}]
      /\ orphaned \subseteq Caller
  BY DEF TypeOK
<1>1. ASSUME NEW c \in Caller, NEW k \in Key, AllowEnabled(c, k) PROVE Shape'
  BY <1>0, <1>1 DEF AllowEnabled, Goto, Shape
<1>2. ASSUME NEW c \in Caller, ReadGlobal(c) PROVE Shape'
  BY <1>0, <1>2 DEF ReadGlobal, Goto, Shape
<1>3. ASSUME NEW c \in Caller, TakeGlobal(c) PROVE Shape'
  BY <1>0, <1>3 DEF TakeGlobal, Return, Goto, Shape
<1>4. ASSUME NEW c \in Caller, ReadDimension(c) PROVE Shape'
  BY <1>0, <1>4 DEF ReadDimension, Return, Goto, Shape
<1>5. ASSUME NEW c \in Caller, Lookup(c) PROVE Shape'
  BY <1>0, <1>5 DEF Lookup, Goto, Shape
<1>6. ASSUME NEW c \in Caller, Create(c) PROVE Shape'
  <2>0. key[c] \in Key /\ c \notin orphaned
    BY <1>6 DEF Create, Shape
  <2>1. CASE buckets[key[c]] # None
    BY <1>0, <1>6, <2>0, <2>1 DEF Create, Goto, Shape
  <2>2. CASE buckets[key[c]] = None
    <3>1. /\ Fresh # None /\ Fresh # globalBkt
          /\ \A k \in Key : Fresh # buckets[k]
          /\ \A d \in Caller : Fresh # bucket[d]
      BY <1>6, FreshIsNew DEF Create, Reachable
    <3>2. /\ pc' = [pc EXCEPT ![c] = "take"]
          /\ bucket' = [bucket EXCEPT ![c] = Fresh]
          /\ buckets' = [buckets EXCEPT ![key[c]] = Fresh]
          /\ UNCHANGED <<globalBkt, key, orphaned>>
      BY <1>6, <2>2 DEF Create, Goto
    <3>3. pc[c] = "create"
      BY <1>6 DEF Create
    <3> QED BY <1>0, <2>0, <3>1, <3>2, <3>3 DEF Shape
  <2> QED BY <2>1, <2>2
<1>7. ASSUME NEW c \in Caller, TakeKey(c) PROVE Shape'
  BY <1>0, <1>7 DEF TakeKey, Return, Goto, Shape
<1>8. CASE Cleanup
  <2> DEFINE removed == {k \in Key : buckets[k] # None /\ Idle(heap[buckets[k]])}
  <2>1. /\ buckets' = [k \in Key |-> IF k \in removed THEN None ELSE buckets[k]]
        /\ orphaned' = orphaned \cup {c \in Caller : pc[c] = "take" /\ key[c] \in removed}
        /\ UNCHANGED <<globalBkt, pc, key, bucket>>
    BY <1>8 DEF Cleanup
  <2>2. ASSUME NEW c \in orphaned', NEW k \in Key
        PROVE  pc[c] = "take" /\ bucket[c] # buckets'[k]
    BY <1>0, <2>1, <2>2 DEF Shape, OneBucketPerKey
  <2> HIDE DEF removed
  <2> QED BY <1>0, <2>1, <2>2 DEF Shape
<1>9. CASE UpdateConfig
  <2>1. /\ \A k \in Key : Fresh # buckets[k]
        /\ None # Fresh
    BY <1>9, FreshIsNew DEF UpdateConfig, Reachable
  <2> QED BY <1>0, <1>9, <2>1 DEF UpdateConfig, Shape
<1>10. CASE Tick
  BY <1>10 DEF Tick, Shape
<1>11. CASE UNCHANGED vars
  BY <1>11 DEF vars, Shape
<1> QED
  BY <1>1, <1>2, <1>3, <1>4, <1>5, <1>6, <1>7, <1>8, <1>9, <1>10, <1>11
  DEF Next, AllowStep

LEMMA OneBucketNext ==
  TypeOK /\ Shape /\ OneBucketPerKey /\ [Next]_vars => OneBucketPerKey'
<1> SUFFICES ASSUME TypeOK, Shape, OneBucketPerKey, [Next]_vars PROVE OneBucketPerKey'
  OBVIOUS
<1> USE DEF limiterVars, callerVars, creditVars
<1>0. /\ pc \in [Caller -> {"idle", "global", "takeGlobal", "dimension", "lookup",
                            "create", "take"}]
      /\ key \in [Caller -> Key \cup {None}]
      /\ bucket \in [Caller -> Address \cup {None}]
      /\ buckets \in [Key -> Address \cup {None}]
      /\ orphaned \subseteq Caller
  BY DEF TypeOK
<1>1. ASSUME NEW c \in Caller, NEW k \in Key, AllowEnabled(c, k) PROVE OneBucketPerKey'
  BY <1>0, <1>1 DEF AllowEnabled, Goto, OneBucketPerKey
<1>2. ASSUME NEW c \in Caller, ReadGlobal(c) PROVE OneBucketPerKey'
  BY <1>0, <1>2 DEF ReadGlobal, Goto, OneBucketPerKey
<1>3. ASSUME NEW c \in Caller, TakeGlobal(c) PROVE OneBucketPerKey'
  BY <1>0, <1>3 DEF TakeGlobal, Return, Goto, OneBucketPerKey
<1>4. ASSUME NEW c \in Caller, ReadDimension(c) PROVE OneBucketPerKey'
  BY <1>0, <1>4 DEF ReadDimension, Return, Goto, OneBucketPerKey
<1>5. ASSUME NEW c \in Caller, Lookup(c) PROVE OneBucketPerKey'
  BY <1>0, <1>5 DEF Lookup, Goto, OneBucketPerKey
<1>6. ASSUME NEW c \in Caller, Create(c) PROVE OneBucketPerKey'
  <2>0. key[c] \in Key /\ \A d \in Caller : pc[d] = "take" => key[d] \in Key /\ bucket[d] # None
    BY <1>6 DEF Create, Shape
  <2> QED BY <1>0, <1>6, <2>0 DEF Create, Goto, OneBucketPerKey
<1>7. ASSUME NEW c \in Caller, TakeKey(c) PROVE OneBucketPerKey'
  BY <1>0, <1>7 DEF TakeKey, Return, Goto, OneBucketPerKey
<1>8. CASE Cleanup
  BY <1>0, <1>8 DEF Cleanup, OneBucketPerKey, Shape
<1>9. CASE UpdateConfig
  BY <1>9 DEF UpdateConfig, OneBucketPerKey
<1>10. CASE Tick
  BY <1>10 DEF Tick, OneBucketPerKey
<1>11. CASE UNCHANGED vars
  BY <1>11 DEF vars, OneBucketPerKey
<1> QED
  BY <1>1, <1>2, <1>3, <1>4, <1>5, <1>6, <1>7, <1>8, <1>9, <1>10, <1>11
  DEF Next, AllowStep

--------------------------------------------------------------------------------
(* What each key may still use *)

LEMMA Constants ==
  MaxCapacity \in Nat /\ MaxRate \in Nat /\ IdleTimeout \in Nat /\ Unit \in Nat \ {0}
  BY RateLimiterAssumption, UnitAssumption

LEMMA FundedInit == Init => \A k \in Key : Funded(k)
  BY Constants DEF Init, Funded

\* A bucket idle for longer than the timeout is as good as a full one.
LEMMA LongIdle ==
  ASSUME NEW x \in Nat, x > IdleTimeout
  PROVE  x * MaxRate >= MaxCapacity
<1> DEFINE d == x - (IdleTimeout + 1)
           low == (IdleTimeout + 1) * MaxRate
           high == d * MaxRate
<1>1. d \in Nat /\ x = d + (IdleTimeout + 1)
  BY Constants
<1>2. low >= MaxCapacity /\ low \in Nat /\ high \in Nat
  BY <1>1, Constants, Distribute, RateLimiterAssumption
<1>3. x * MaxRate = high + low
  BY <1>1, Constants
<1> HIDE DEF low, high
<1> QED BY <1>2, <1>3, Constants

\* An operation on another bucket, or on none, leaves a key funded.
LEMMA StillFunded ==
  ASSUME NEW k \in Key, Funded(k), credit'[k] = credit[k], buckets'[k] = buckets[k],
         buckets[k] # None => heap'[buckets[k]] = heap[buckets[k]]
  PROVE  Funded(k)'
  BY DEF Funded

\* Allow on the bucket of a key: what it lets through is taken from the credit.
LEMMA FundedTake ==
  ASSUME NEW k \in Key, Funded(k), buckets[k] # None, Sound(heap[buckets[k]]),
         buckets'[k] = buckets[k],
         heap'[buckets[k]] = AfterAllow(heap[buckets[k]]),
         credit'[k] = IF HasToken(heap[buckets[k]]) THEN credit[k] - Unit ELSE credit[k]
  PROVE  Funded(k)'
<1> DEFINE b == heap[buckets[k]]
<1>1. b \in Bucket
  BY DEF Sound
<1>2. /\ Refilled(b) \in Nat
      /\ AfterAllow(b).capacity = b.capacity /\ AfterAllow(b).rate = b.rate
      /\ AfterAllow(b).idle = 0
      /\ Refilled(AfterAllow(b)) = IF HasToken(b) THEN Refilled(b) - Unit ELSE Refilled(b)
  BY <1>1, RefilledType, RefilledAfterAllow
<1>3. HasToken(b) <=> Refilled(b) >= Unit
  BY DEF HasToken
<1>4. AfterAllow(b).idle * MaxRate = 0
  BY <1>2, Constants
<1>5. credit[k] \in 0 .. MaxCapacity /\ Refilled(b) <= credit[k]
  BY DEF Funded
<1>6. credit'[k] \in 0 .. MaxCapacity /\ Refilled(AfterAllow(b)) <= credit'[k]
  BY <1>2, <1>3, <1>5, Constants
<1> QED BY <1>2, <1>4, <1>6, Constants DEF Funded

\* A tick adds as much to the credit as to what any bucket would refill.
LEMMA FundedTick ==
  ASSUME NEW k \in Key, Funded(k),
         buckets[k] # None => Sound(heap[buckets[k]]),
         buckets'[k] = buckets[k],
         buckets[k] # None => heap'[buckets[k]] = Aged(heap[buckets[k]], IdleTimeout + 1),
         credit'[k] = Fuller(credit[k])
  PROVE  Funded(k)'
<1>1. /\ credit[k] \in 0 .. MaxCapacity /\ credit'[k] \in 0 .. MaxCapacity
      /\ credit'[k] = MaxCapacity \/ credit'[k] = credit[k] + MaxRate
      /\ credit'[k] >= credit[k]
      /\ credit[k] = MaxCapacity => credit'[k] = MaxCapacity
  BY Constants DEF Funded, Fuller
<1>2. CASE buckets[k] = None
  BY <1>1, <1>2 DEF Funded
<1>3. CASE buckets[k] # None
  <2> DEFINE b == heap[buckets[k]]
             a == Aged(b, IdleTimeout + 1)
  <2>1. /\ b \in Bucket /\ b.capacity <= MaxCapacity /\ b.rate <= MaxRate
        /\ Refilled(b) <= credit[k]
        /\ credit[k] = MaxCapacity \/ b.idle * MaxRate <= credit[k]
    BY <1>3 DEF Sound, Funded
  <2>2. b.idle \in Nat /\ b.rate \in Nat /\ b.capacity \in Nat
    BY <2>1 DEF Bucket
  <2>3. /\ a.capacity = b.capacity /\ a.rate = b.rate
        /\ a.idle = b.idle \/ a.idle = b.idle + 1
        /\ Refilled(a) = IF Refilled(b) + b.rate > b.capacity
                            THEN b.capacity ELSE Refilled(b) + b.rate
        /\ Refilled(b) \in Nat
    <3>1. IdleTimeout + 1 \in Nat
      BY Constants
    <3> HIDE DEF b
    <3> QED BY <2>1, <3>1, RefilledAged, RefilledType
  <2>4. Refilled(a) <= credit'[k]
    BY <1>1, <2>1, <2>2, <2>3, Constants
  <2>5. credit'[k] = MaxCapacity \/ a.idle * MaxRate <= credit'[k]
    <3> DEFINE m == b.idle * MaxRate
    <3>1. m \in Nat /\ (b.idle + 1) * MaxRate = m + MaxRate
      BY <2>2, Constants, Distribute
    <3>2. a.idle * MaxRate = m \/ a.idle * MaxRate = m + MaxRate
      BY <2>3, <3>1
    <3>3. credit[k] = MaxCapacity \/ m <= credit[k]
      BY <2>1
    <3> HIDE DEF m
    <3> QED BY <1>1, <3>1, <3>2, <3>3, Constants
  <2> QED BY <1>1, <1>3, <2>1, <2>3, <2>4, <2>5 DEF Funded
<1> QED BY <1>2, <1>3

LEMMA FundedNext == IInv /\ [Next]_vars => \A k \in Key : Funded(k)'
<1> SUFFICES ASSUME IInv, [Next]_vars, NEW k \in Key PROVE Funded(k)'
  OBVIOUS
<1> USE DEF limiterVars, callerVars, creditVars
<1>a. TypeOK /\ Shape /\ OneBucketPerKey /\ Funded(k)
  BY DEF IInv
<1>b. TypeOK'
  BY <1>a, TypeNext
<1>c. /\ heap \in [Reachable -> Bucket]
      /\ bucket \in [Caller -> Address \cup {None}]
      /\ buckets \in [Key -> Address \cup {None}] /\ buckets' \in [Key -> Address \cup {None}]
      /\ credit \in [Key -> Int]
      /\ buckets[k] # None => buckets[k] \in Reachable /\ Sound(heap[buckets[k]])
      /\ buckets'[k] # None => buckets'[k] \in Reachable'
  BY <1>a, <1>b, SoundHeap DEF TypeOK, Reachable
<1>1. ASSUME NEW c \in Caller, NEW j \in Key, AllowEnabled(c, j) PROVE Funded(k)'
  BY <1>1, <1>a, StillFunded DEF AllowEnabled
<1>2. ASSUME NEW c \in Caller, ReadGlobal(c) PROVE Funded(k)'
  BY <1>2, <1>a, StillFunded DEF ReadGlobal
<1>3. ASSUME NEW c \in Caller, TakeGlobal(c) PROVE Funded(k)'
  <2>1. buckets[k] # None => bucket[c] # buckets[k]
    BY <1>3, <1>a DEF TakeGlobal, Shape
  <2>2. buckets' = buckets /\ credit' = credit
    BY <1>3 DEF TakeGlobal
  <2>3. buckets[k] # None => heap'[buckets[k]] = heap[buckets[k]]
    BY <1>3, <1>c, <2>1, <2>2 DEF TakeGlobal, Heap
  <2> QED BY <1>a, <2>2, <2>3, StillFunded
<1>4. ASSUME NEW c \in Caller, ReadDimension(c) PROVE Funded(k)'
  BY <1>4, <1>a, StillFunded DEF ReadDimension
<1>5. ASSUME NEW c \in Caller, Lookup(c) PROVE Funded(k)'
  BY <1>5, <1>a, StillFunded DEF Lookup
<1>6. ASSUME NEW c \in Caller, Create(c) PROVE Funded(k)'
  <2>0. key[c] \in Key /\ credit' = credit
    BY <1>6, <1>a DEF Create, Shape
  <2>1. CASE buckets[key[c]] # None
    BY <1>6, <1>a, <2>1, StillFunded DEF Create
  <2>2. CASE buckets[key[c]] = None
    <3>1. /\ buckets' = [buckets EXCEPT ![key[c]] = Fresh]
          /\ heap' = With(Fresh, NewBucket(config))
          /\ Fresh # None /\ Fresh \notin Reachable
      BY <1>6, <1>a, <2>2, FreshIsNew DEF Create
    <3>2. CASE k = key[c]
      <4>1. buckets'[k] = Fresh /\ heap'[Fresh] = NewBucket(config)
        BY <1>c, <3>1, <3>2 DEF With
      <4>2. config \in Configs /\ credit[k] = MaxCapacity
        BY <1>a, <2>2, <3>2 DEF TypeOK, Funded
      <4> QED BY <2>0, <3>1, <4>1, <4>2, SoundNew, Constants DEF Funded
    <3>3. CASE k # key[c]
      <4>1. buckets'[k] = buckets[k]
        BY <1>c, <2>0, <3>1, <3>3
      <4>2. buckets[k] # None => heap'[buckets[k]] = heap[buckets[k]]
        BY <1>c, <3>1 DEF With
      <4> QED BY <1>a, <2>0, <4>1, <4>2, StillFunded
    <3> QED BY <3>2, <3>3
  <2> QED BY <2>1, <2>2
<1>7. ASSUME NEW c \in Caller, TakeKey(c) PROVE Funded(k)'
  <2>0. /\ buckets' = buckets /\ pc[c] = "take" /\ key[c] \in Key
        /\ credit' = IF HasToken(heap[bucket[c]]) /\ c \notin orphaned
                       THEN [credit EXCEPT ![key[c]] = @ - Unit] ELSE credit
        /\ bucket[c] # None
    BY <1>7, <1>a DEF TakeKey, Shape
  <2>1. buckets[k] # None =>
          heap'[buckets[k]] = IF bucket[c] = buckets[k] THEN AfterAllow(heap[buckets[k]])
                              ELSE heap[buckets[k]]
    BY <1>7, <1>c, <2>0 DEF TakeKey, Heap
  <2>2. CASE c \notin orphaned /\ k = key[c]
    <3>1. bucket[c] = buckets[k] /\ buckets[k] # None
      BY <1>a, <2>0, <2>2 DEF OneBucketPerKey
    <3>2. credit'[k] = IF HasToken(heap[buckets[k]]) THEN credit[k] - Unit ELSE credit[k]
      BY <1>c, <2>0, <2>2, <3>1
    <3> QED BY <1>a, <1>c, <2>0, <2>1, <3>1, <3>2, FundedTake
  <2>3. CASE c \in orphaned \/ k # key[c]
    <3>1. buckets[k] # None => bucket[c] # buckets[k]
      BY <1>a, <2>0, <2>3 DEF OneBucketPerKey, Shape
    <3>2. credit'[k] = credit[k]
      BY <1>c, <2>0, <2>3
    <3> QED BY <1>a, <2>0, <2>1, <3>1, <3>2, StillFunded
  <2> QED BY <2>2, <2>3
<1>8. CASE Cleanup
  <2>1. /\ credit' = credit
        /\ buckets'[k] = IF buckets[k] # None /\ Idle(heap[buckets[k]])
                           THEN None ELSE buckets[k]
        /\ Heap(heap)
    BY <1>8 DEF Cleanup
  <2>2. CASE buckets[k] # None /\ Idle(heap[buckets[k]])
    <3> DEFINE x == heap[buckets[k]].idle
    <3>1. x \in Nat /\ x > IdleTimeout
      BY <1>c, <2>2 DEF Idle, Sound, Bucket
    <3>2. credit[k] \in 0 .. MaxCapacity /\ (credit[k] = MaxCapacity \/ x * MaxRate <= credit[k])
      BY <1>a, <2>2 DEF Funded
    <3>3. credit[k] = MaxCapacity
      <4> HIDE DEF x
      <4>1. x * MaxRate >= MaxCapacity /\ x * MaxRate \in Nat
        BY <3>1, LongIdle, Distribute, Constants
      <4> DEFINE y == x * MaxRate
      <4>2. y >= MaxCapacity /\ y \in Nat /\ (credit[k] = MaxCapacity \/ y <= credit[k])
        BY <3>2, <4>1
      <4> HIDE DEF y
      <4> QED BY <3>2, <4>2, Constants
    <3> QED BY <2>1, <2>2, <3>2, <3>3 DEF Funded
  <2>3. CASE ~(buckets[k] # None /\ Idle(heap[buckets[k]]))
    <3>1. buckets'[k] = buckets[k]
      BY <2>1, <2>3
    <3>2. buckets[k] # None => heap'[buckets[k]] = heap[buckets[k]]
      BY <1>c, <2>1, <3>1 DEF Heap
    <3> QED BY <1>a, <2>1, <3>1, <3>2, StillFunded
  <2> QED BY <2>2, <2>3
<1>9. CASE UpdateConfig
  <2>1. /\ buckets' = buckets /\ credit' = credit
        /\ Heap(With(Fresh, NewBucket(config')))
        /\ Fresh \notin Reachable
    BY <1>9, <1>a, FreshIsNew DEF UpdateConfig
  <2>2. buckets[k] # None => heap'[buckets[k]] = heap[buckets[k]]
    BY <1>c, <2>1 DEF Heap, With
  <2> QED BY <1>a, <2>1, <2>2, StillFunded
<1>10. CASE Tick
  <2>1. /\ buckets' = buckets
        /\ credit'[k] = Fuller(credit[k])
        /\ buckets[k] # None => heap'[buckets[k]] = Aged(heap[buckets[k]], IdleTimeout + 1)
    BY <1>10, <1>c DEF Tick
  <2> QED BY <1>a, <1>c, <2>1, FundedTick
<1>11. CASE UNCHANGED vars
  BY <1>11, <1>a, StillFunded DEF vars
<1> QED
  BY <1>1, <1>2, <1>3, <1>4, <1>5, <1>6, <1>7, <1>8, <1>9, <1>10, <1>11
  DEF Next, AllowStep

--------------------------------------------------------------------------------
(* The theorems *)

LEMMA Inductive == Spec => []IInv
<1>1. Init => IInv
  BY TypeInit, ShapeInit, FundedInit DEF Init, OneBucketPerKey, IInv
<1>2. IInv /\ [Next]_vars => IInv'
  BY TypeNext, ShapeNext, OneBucketNext, FundedNext DEF IInv
<1> QED BY <1>1, <1>2, PTL DEF Spec

\* The limiter has its types: every bucket anyone can reach is a bucket, and none
\* holds more than its capacity.
THEOREM TypeCorrect == Spec => []TypeOK
<1>1. IInv => TypeOK
  BY DEF IInv
<1> QED BY <1>1, Inductive, PTL

\* Racing callers of one key use one bucket: the double check in Allow never
\* makes a second one.
THEOREM BucketsUnique == Spec => []OneBucketPerKey
<1>1. IInv => OneBucketPerKey
  BY DEF IInv
<1> QED BY <1>1, Inductive, PTL

\* No key is let through more than a full bucket and its refill in any stretch of
\* time, through creation races, cleanups and configuration changes.
THEOREM KeysBounded == Spec => []KeyBound
<1>1. IInv => KeyBound
  <2> SUFFICES ASSUME IInv, NEW k \in Key PROVE credit[k] >= 0
    BY DEF KeyBound
  <2> QED BY Constants DEF IInv, Funded
<1> QED BY <1>1, Inductive, PTL

--------------------------------------------------------------------------------
(* What the global limit may still let through *)

\* Callers that do not hold a global bucket that UpdateConfig has replaced.
Prompt == {c \in Caller : pc[c] = "takeGlobal" => bucket[c] = globalBkt}

GlobalHeld == IF globalBkt = None THEN 0 ELSE Refilled(heap[globalBkt])

\* GlobalBound says nothing of what the bucket holds, nor of who may still take
\* from another one: what the bucket holds is covered by the credit, but for one
\* token of each caller that cannot take from an old bucket any more.
GlobalFunded ==
  /\ globalCredit \in Int /\ globalCredit <= MaxCapacity
  /\ globalBkt # None =>
       heap[globalBkt].capacity <= MaxCapacity /\ heap[globalBkt].rate <= MaxRate
  /\ GlobalHeld <= globalCredit + Unit * Cardinality(Prompt)

\* No caller takes from the global bucket for a key.
GlobalApart == \A c \in Caller : pc[c] = "take" => bucket[c] # globalBkt

GlobalInv == IInv /\ GlobalApart /\ GlobalFunded

LEMMA CallersAreFinite ==
  ASSUME NEW S \in SUBSET Caller
  PROVE  /\ IsFiniteSet(S) /\ Cardinality(S) \in Nat /\ Cardinality(S) <= Cardinality(Caller)
         /\ Unit * Cardinality(S) \in Nat
         /\ Unit * Cardinality(S) <= Unit * Cardinality(Caller)
<1>1. /\ IsFiniteSet(S) /\ Cardinality(S) \in Nat /\ Cardinality(Caller) \in Nat
      /\ Cardinality(S) <= Cardinality(Caller)
  BY FS_Subset, FS_CardinalityType, RateLimiterAssumption
<1>2. ASSUME NEW m \in Nat, NEW n \in Nat, m <= n PROVE Unit * m \in Nat /\ Unit * m <= Unit * n
  <2>1. n - m \in Nat /\ n = m + (n - m)
    BY <1>2
  <2>2. Unit * n = Unit * m + Unit * (n - m) /\ Unit * m \in Nat /\ Unit * (n - m) \in Nat
    BY <2>1, Constants
  <2> QED BY <2>2
<1> QED BY <1>1, <1>2

LEMMA GlobalApartNext == IInv /\ GlobalApart /\ [Next]_vars => GlobalApart'
<1> SUFFICES ASSUME IInv, GlobalApart, [Next]_vars PROVE GlobalApart'
  OBVIOUS
<1> USE DEF limiterVars, callerVars, creditVars
<1>0. /\ TypeOK /\ Shape
      /\ pc \in [Caller -> {"idle", "global", "takeGlobal", "dimension", "lookup",
                            "create", "take"}]
      /\ bucket \in [Caller -> Address \cup {None}]
  BY DEF IInv, TypeOK
<1>1. ASSUME NEW c \in Caller, NEW k \in Key, AllowEnabled(c, k) PROVE GlobalApart'
  BY <1>0, <1>1 DEF AllowEnabled, Goto, GlobalApart
<1>2. ASSUME NEW c \in Caller, ReadGlobal(c) PROVE GlobalApart'
  BY <1>0, <1>2 DEF ReadGlobal, Goto, GlobalApart
<1>3. ASSUME NEW c \in Caller, TakeGlobal(c) PROVE GlobalApart'
  BY <1>0, <1>3 DEF TakeGlobal, Return, Goto, GlobalApart
<1>4. ASSUME NEW c \in Caller, ReadDimension(c) PROVE GlobalApart'
  BY <1>0, <1>4 DEF ReadDimension, Return, Goto, GlobalApart
<1>5. ASSUME NEW c \in Caller, Lookup(c) PROVE GlobalApart'
  BY <1>0, <1>5 DEF Lookup, Goto, GlobalApart, Shape
<1>6. ASSUME NEW c \in Caller, Create(c) PROVE GlobalApart'
  <2>1. key[c] \in Key /\ Fresh # globalBkt
    BY <1>0, <1>6, FreshIsNew DEF Create, Shape, Reachable
  <2> QED BY <1>0, <1>6, <2>1 DEF Create, Goto, GlobalApart, Shape
<1>7. ASSUME NEW c \in Caller, TakeKey(c) PROVE GlobalApart'
  BY <1>0, <1>7 DEF TakeKey, Return, Goto, GlobalApart
<1>8. CASE UpdateConfig
  <2>1. \A c \in Caller : bucket[c] # Fresh /\ Fresh # None
    BY <1>0, <1>8, FreshIsNew DEF UpdateConfig, Reachable
  <2> QED BY <1>0, <1>8, <2>1 DEF UpdateConfig, GlobalApart, Shape
<1>9. CASE Cleanup \/ Tick \/ UNCHANGED vars
  BY <1>9 DEF Cleanup, Tick, vars, GlobalApart
<1> QED
  BY <1>1, <1>2, <1>3, <1>4, <1>5, <1>6, <1>7, <1>8, <1>9 DEF Next, AllowStep

\* A step that leaves the global bucket and its callers alone.
LEMMA StillGlobal ==
  ASSUME GlobalFunded, globalCredit' = globalCredit, globalBkt' = globalBkt, Prompt' = Prompt,
         globalBkt # None => heap'[globalBkt] = heap[globalBkt]
  PROVE  GlobalFunded'
  BY DEF GlobalFunded, GlobalHeld

\* Allow on a global bucket: on the one in force the credit pays, and on an old
\* one the caller, who now has none.
LEMMA GlobalTake ==
  ASSUME GlobalInv, NEW c \in Caller, TakeGlobal(c)
  PROVE  GlobalFunded'
<1> USE DEF limiterVars
<1> DEFINE b == heap[bucket[c]]
           owed == Unit * Cardinality(Prompt)
<1>1. /\ pc \in [Caller -> {"idle", "global", "takeGlobal", "dimension", "lookup",
                            "create", "take"}]
      /\ bucket \in [Caller -> Address \cup {None}]
      /\ pc[c] = "takeGlobal" /\ bucket[c] # None /\ bucket[c] \in Reachable
      /\ globalBkt' = globalBkt
      /\ pc'[c] # "takeGlobal"
      /\ \A d \in Caller : d # c => pc'[d] = pc[d] /\ bucket'[d] = bucket[d]
      /\ globalCredit' = IF HasToken(b) THEN globalCredit - Unit ELSE globalCredit
      /\ globalBkt # None => globalBkt \in Reachable /\ globalBkt \in Reachable'
  BY DEF GlobalInv, IInv, TypeOK, Shape, TakeGlobal, Return, Goto, Reachable
<1>2. globalBkt # None =>
        heap'[globalBkt] = IF bucket[c] = globalBkt THEN AfterAllow(b) ELSE heap[globalBkt]
  BY <1>1 DEF TakeGlobal, Heap, GlobalInv, IInv, TypeOK
<1>3. Prompt' = Prompt \cup {c}
  BY <1>1 DEF Prompt
<1>4. /\ b \in Bucket /\ Refilled(b) \in Nat /\ Unit \in Nat
      /\ globalCredit \in Int /\ globalCredit <= MaxCapacity /\ GlobalHeld <= globalCredit + owed
      /\ globalBkt # None =>
           heap[globalBkt].capacity <= MaxCapacity /\ heap[globalBkt].rate <= MaxRate
  BY <1>1, SoundHeap, RefilledType, Constants DEF GlobalInv, GlobalFunded, IInv, Sound
<1>5. Prompt \in SUBSET Caller /\ Prompt' \in SUBSET Caller
  BY DEF Prompt
<1>6. IsFiniteSet(Prompt) /\ Cardinality(Prompt) \in Nat /\ owed \in Nat
  BY <1>5, CallersAreFinite
<1>7. CASE bucket[c] = globalBkt
  <2>1. Prompt' = Prompt
    BY <1>1, <1>3, <1>7 DEF Prompt
  <2>2. GlobalHeld = Refilled(b)
    BY <1>1, <1>7 DEF GlobalHeld
  <2>3. GlobalHeld' = IF HasToken(b) THEN Refilled(b) - Unit ELSE Refilled(b)
    BY <1>1, <1>2, <1>4, <1>7, RefilledAfterAllow DEF GlobalHeld
  <2>4. heap'[globalBkt].capacity = b.capacity /\ heap'[globalBkt].rate = b.rate
    BY <1>1, <1>2, <1>4, <1>7, RefilledAfterAllow
  <2>5. GlobalHeld' <= globalCredit' + owed /\ globalCredit' \in Int /\ globalCredit' <= MaxCapacity
    <3> HIDE DEF owed, b
    <3> QED BY <1>1, <1>4, <1>6, <2>2, <2>3, Constants
  <2> QED BY <1>1, <1>4, <1>7, <2>1, <2>4, <2>5 DEF GlobalFunded
<1>8. CASE bucket[c] # globalBkt
  <2>1. c \notin Prompt
    BY <1>1, <1>8 DEF Prompt
  <2>2. Cardinality(Prompt') = Cardinality(Prompt) + 1
    BY <1>3, <1>6, <2>1, FS_AddElement
  <2>3. Unit * Cardinality(Prompt') = owed + Unit
    BY <1>4, <1>6, <2>2, Distribute
  <2>4. GlobalHeld' = GlobalHeld
    BY <1>1, <1>2, <1>8 DEF GlobalHeld
  <2>5. GlobalHeld \in Int
    BY SoundHeap, RefilledType, <1>1 DEF GlobalHeld, GlobalInv, IInv, Sound
  <2>6. /\ GlobalHeld' <= globalCredit' + Unit * Cardinality(Prompt')
        /\ globalCredit' \in Int /\ globalCredit' <= MaxCapacity
    <3> HIDE DEF owed, b
    <3> QED BY <1>1, <1>4, <1>6, <2>3, <2>4, <2>5, Constants
  <2> QED BY <1>1, <1>2, <1>4, <1>8, <2>6 DEF GlobalFunded
<1> QED BY <1>7, <1>8

\* A tick adds as much to the credit as to the bucket in force.
LEMMA GlobalTick ==
  ASSUME GlobalInv, Tick
  PROVE  GlobalFunded'
<1> USE DEF limiterVars, callerVars
<1> DEFINE b == heap[globalBkt]
           owed == Unit * Cardinality(Prompt)
<1>1. /\ globalBkt' = globalBkt /\ Prompt' = Prompt /\ globalCredit' = Fuller(globalCredit)
      /\ globalBkt # None => /\ globalBkt \in Reachable
                             /\ heap'[globalBkt] = Aged(b, IdleTimeout + 1)
  BY DEF Tick, Prompt, Reachable, GlobalInv, IInv, TypeOK
<1>2. /\ globalCredit \in Int /\ globalCredit <= MaxCapacity /\ GlobalHeld <= globalCredit + owed
      /\ globalBkt # None => b.capacity <= MaxCapacity /\ b.rate <= MaxRate
  BY DEF GlobalInv, GlobalFunded
<1>3. /\ globalCredit' \in Int /\ globalCredit' <= MaxCapacity
      /\ globalCredit' >= globalCredit
      /\ globalCredit' = MaxCapacity \/ globalCredit' = globalCredit + MaxRate
  BY <1>1, <1>2, Constants DEF Fuller
<1>4. owed \in Nat
  <2>1. Prompt \in SUBSET Caller
    BY DEF Prompt
  <2> QED BY <2>1, CallersAreFinite
<1>5. CASE globalBkt = None
  <2>1. GlobalHeld = 0 /\ GlobalHeld' = 0
    BY <1>1, <1>5 DEF GlobalHeld
  <2>2. 0 <= globalCredit' + owed
    <3> HIDE DEF owed
    <3> QED BY <1>2, <1>3, <1>4, <2>1
  <2> QED BY <1>1, <1>3, <1>5, <2>1, <2>2 DEF GlobalFunded
<1>6. CASE globalBkt # None
  <2> DEFINE a == Aged(b, IdleTimeout + 1)
  <2>1. b \in Bucket /\ IdleTimeout + 1 \in Nat
    BY <1>1, <1>6, SoundHeap, Constants DEF GlobalInv, IInv, Sound
  <2>2. /\ a.capacity = b.capacity /\ a.rate = b.rate /\ b.capacity \in Nat /\ b.rate \in Nat
        /\ Refilled(a) = IF Refilled(b) + b.rate > b.capacity
                            THEN b.capacity ELSE Refilled(b) + b.rate
        /\ Refilled(b) \in Nat
    <3> HIDE DEF b
    <3> QED BY <2>1, RefilledAged, RefilledType DEF Bucket
  <2>3. GlobalHeld = Refilled(b) /\ GlobalHeld' = Refilled(a)
    BY <1>1, <1>6 DEF GlobalHeld
  <2>4. GlobalHeld' <= globalCredit' + owed
    <3> HIDE DEF a, b, owed
    <3>1. Refilled(b) <= globalCredit + owed /\ b.capacity <= MaxCapacity /\ b.rate <= MaxRate
      BY <1>2, <1>6, <2>3
    <3> QED BY <1>2, <1>3, <1>4, <2>2, <2>3, <3>1, Constants
  <2> QED BY <1>1, <1>2, <1>3, <1>6, <2>2, <2>4 DEF GlobalFunded
<1> QED BY <1>5, <1>6

LEMMA GlobalNext == GlobalInv /\ [Next]_vars => GlobalFunded'
<1> SUFFICES ASSUME GlobalInv, [Next]_vars PROVE GlobalFunded'
  OBVIOUS
<1> USE DEF limiterVars, callerVars, creditVars
<1>0. /\ TypeOK /\ Shape /\ GlobalFunded
      /\ pc \in [Caller -> {"idle", "global", "takeGlobal", "dimension", "lookup",
                            "create", "take"}]
      /\ bucket \in [Caller -> Address \cup {None}]
      /\ heap \in [Reachable -> Bucket]
      /\ globalBkt # None => globalBkt \in Reachable
  BY DEF GlobalInv, IInv, TypeOK, Reachable
<1>1. ASSUME NEW c \in Caller, NEW k \in Key, AllowEnabled(c, k) PROVE GlobalFunded'
  BY <1>0, <1>1, StillGlobal DEF AllowEnabled, Goto, Prompt
<1>2. ASSUME NEW c \in Caller, ReadGlobal(c) PROVE GlobalFunded'
  <2>1. Prompt' = Prompt
    BY <1>0, <1>2 DEF ReadGlobal, Goto, Prompt
  <2> QED BY <1>0, <1>2, <2>1, StillGlobal DEF ReadGlobal
<1>3. ASSUME NEW c \in Caller, TakeGlobal(c) PROVE GlobalFunded'
  BY <1>3, GlobalTake
<1>4. ASSUME NEW c \in Caller, ReadDimension(c) PROVE GlobalFunded'
  <2>1. Prompt' = Prompt
    BY <1>0, <1>4 DEF ReadDimension, Return, Goto, Prompt
  <2> QED BY <1>0, <1>4, <2>1, StillGlobal DEF ReadDimension
<1>5. ASSUME NEW c \in Caller, Lookup(c) PROVE GlobalFunded'
  <2>1. Prompt' = Prompt
    BY <1>0, <1>5 DEF Lookup, Goto, Prompt
  <2> QED BY <1>0, <1>5, <2>1, StillGlobal DEF Lookup
<1>6. ASSUME NEW c \in Caller, Create(c) PROVE GlobalFunded'
  <2>1. Prompt' = Prompt
    BY <1>0, <1>6 DEF Create, Goto, Prompt
  <2>2. globalBkt # None => globalBkt \in DOMAIN heap /\ Fresh # globalBkt
    BY <1>0, <1>6, FreshIsNew DEF Create
  <2>3. globalBkt # None => heap'[globalBkt] = heap[globalBkt]
    BY <1>6, <2>2 DEF Create, With
  <2> QED BY <1>0, <1>6, <2>1, <2>3, StillGlobal DEF Create
<1>7. ASSUME NEW c \in Caller, TakeKey(c) PROVE GlobalFunded'
  <2>1. Prompt' = Prompt
    BY <1>0, <1>7 DEF TakeKey, Return, Goto, Prompt
  <2>2. bucket[c] # globalBkt /\ globalBkt' = globalBkt
    BY <1>7 DEF TakeKey, GlobalInv, GlobalApart
  <2>3. globalBkt # None => heap'[globalBkt] = heap[globalBkt]
    BY <1>0, <1>7, <2>2 DEF TakeKey, Heap, Reachable
  <2> QED BY <1>0, <1>7, <2>1, <2>3, StillGlobal DEF TakeKey
<1>8. CASE Cleanup
  <2>1. Prompt' = Prompt
    BY <1>8 DEF Cleanup, Prompt
  <2>2. globalBkt # None => heap'[globalBkt] = heap[globalBkt]
    BY <1>8 DEF Cleanup, Heap, Reachable
  <2> QED BY <1>0, <1>8, <2>1, <2>2, StillGlobal DEF Cleanup
<1>9. CASE UpdateConfig
  <2>1. /\ config' \in Configs /\ globalCredit' = MaxCapacity
        /\ Heap(With(Fresh, NewBucket(config')))
        /\ globalBkt' # None => globalBkt' = Fresh /\ globalBkt' \in Reachable'
    BY <1>9 DEF UpdateConfig, Reachable
  <2>2. globalBkt' # None => heap'[globalBkt'] = NewBucket(config')
    BY <2>1 DEF Heap, With
  <2>3. GlobalHeld' <= MaxCapacity /\ GlobalHeld' \in Int
    BY <2>1, <2>2, SoundNew, RefilledType, Constants DEF GlobalHeld, Sound
  <2>4. Unit * Cardinality(Prompt') \in Nat
    <3>1. Prompt' \in SUBSET Caller
      BY DEF Prompt
    <3> QED BY <3>1, CallersAreFinite
  <2>5. GlobalHeld' <= MaxCapacity + Unit * Cardinality(Prompt')
    BY <2>3, <2>4, Constants
  <2> QED BY <2>1, <2>2, <2>5, SoundNew, Constants DEF GlobalFunded
<1>10. CASE Tick
  BY <1>10, GlobalTick
<1>11. CASE UNCHANGED vars
  BY <1>0, <1>11, StillGlobal DEF vars, Prompt
<1> QED
  BY <1>1, <1>2, <1>3, <1>4, <1>5, <1>6, <1>7, <1>8, <1>9, <1>10, <1>11
  DEF Next, AllowStep

LEMMA GlobalInit == Init => GlobalApart /\ GlobalFunded
<1> SUFFICES ASSUME Init PROVE GlobalApart /\ GlobalFunded
  OBVIOUS
<1>1. globalBkt # None => heap[globalBkt] = NewBucket(config)
  BY DEF Init
<1>2. config \in Configs /\ globalCredit = MaxCapacity
  BY DEF Init
<1>3. GlobalHeld <= MaxCapacity /\ GlobalHeld \in Int
  BY <1>1, <1>2, SoundNew, RefilledType, Constants DEF GlobalHeld, Sound
<1>4. Unit * Cardinality(Prompt) \in Nat
  <2>1. Prompt \in SUBSET Caller
    BY DEF Prompt
  <2> QED BY <2>1, CallersAreFinite
<1>5. GlobalHeld <= MaxCapacity + Unit * Cardinality(Prompt)
  BY <1>3, <1>4, Constants
<1>6. GlobalFunded
  BY <1>1, <1>2, <1>5, SoundNew, Constants DEF GlobalFunded
<1>7. GlobalApart
  BY DEF Init, GlobalApart
<1> QED BY <1>6, <1>7

\* Since the last UpdateConfig the global limit has let no more through than a
\* full bucket, its refill, and one request of each caller that held the bucket
\* it replaced.
THEOREM GlobalBounded == Spec => []GlobalBound
<1>1. GlobalInv => GlobalBound
  <2> SUFFICES ASSUME GlobalInv PROVE GlobalBound
    OBVIOUS
  <2> DEFINE owed == Unit * Cardinality(Prompt)
             all == Unit * Cardinality(Caller)
  <2>1. Prompt \in SUBSET Caller /\ Caller \in SUBSET Caller
    BY DEF Prompt
  <2>2. owed \in Nat /\ all \in Nat /\ owed <= all
    BY <2>1, CallersAreFinite
  <2>3. GlobalHeld \in Int /\ GlobalHeld >= 0
    BY SoundHeap, RefilledType DEF GlobalHeld, GlobalInv, IInv, Sound, Reachable
  <2>4. globalCredit \in Int /\ GlobalHeld <= globalCredit + owed
    BY DEF GlobalInv, GlobalFunded
  <2>5. -Unit * Cardinality(Caller) = -all
    BY <2>1, CallersAreFinite, Constants
  <2> HIDE DEF owed, all
  <2>6. globalCredit >= -all
    BY <2>2, <2>3, <2>4
  <2> QED BY <2>5, <2>6 DEF GlobalBound
<1>2. IInv /\ IInv' /\ GlobalApart /\ GlobalFunded /\ [Next]_vars => GlobalApart' /\ GlobalFunded'
  BY GlobalApartNext, GlobalNext DEF GlobalInv
<1>3. IInv /\ GlobalApart /\ GlobalFunded => GlobalInv
  BY DEF GlobalInv
<1> QED BY <1>1, <1>2, <1>3, Inductive, GlobalInit, PTL DEF Spec
==================================================================================
