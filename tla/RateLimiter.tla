------------------------------- MODULE RateLimiter -------------------------------
(***************************************************************************)
(* RateLimiter of pkg/middleware/ratelimit.go and the goroutines that call *)
(* it: a global bucket every request must pass, and under any dimension    *)
(* but "global" a bucket for each key, created on first use and removed    *)
(* again by Cleanup.                                                       *)
(*                                                                         *)
(* Allow holds rl.mu only while it looks a bucket up or creates one, and   *)
(* reads config and globalBkt under no lock at all, so it is a step for    *)
(* each of these reads and each critical section, and everything it read   *)
(* may be out of date by the next one.  A tick is 1/Unit seconds.          *)
(* Buckets live in a heap: a caller keeps using the bucket it found after  *)
(* UpdateConfig or Cleanup has replaced or removed it.  No code in the     *)
(* repository calls the limiter but its tests, so the callers are external.*)
(***************************************************************************)
EXTENDS BucketOps, FiniteSets

CONSTANTS
  Caller,       \* the goroutines calling Allow
  Key,          \* what they pass: client addresses, users or APIs
  None,         \* the nil *TokenBucket
  Address,      \* where buckets are allocated
  Configs,      \* the configurations NewRateLimiter and UpdateConfig get
  IdleTimeout,  \* what Cleanup is called with
  MaxCapacity,  \* no configuration gives a bucket more,
  MaxRate       \* nor refills it faster

ConfigType ==
  [requestsPerSecond : Nat, burstSize : Nat, dimension : {"ip", "global"}, enabled : BOOLEAN]

\* The float64 capacity, in fractions of a token.
Capacity(c) == Unit * (IF c.burstSize <= 0 THEN c.requestsPerSecond ELSE c.burstSize)

\* Cleanup must not be called with a timeout in which a bucket does not fill up.
ASSUME RateLimiterAssumption ==
  /\ IsFiniteSet(Caller) /\ IsFiniteSet(Key)
  /\ None \notin Key \cup Address /\ Address # {}
  /\ Configs \subseteq ConfigType
  /\ IdleTimeout \in Nat /\ MaxCapacity \in Nat /\ MaxRate \in Nat
  /\ \A c \in Configs : Capacity(c) <= MaxCapacity /\ c.requestsPerSecond <= MaxRate
  /\ (IdleTimeout + 1) * MaxRate >= MaxCapacity

VARIABLES
  config,        \* rl.config
  globalBkt,     \* rl.globalBkt
  buckets,       \* rl.buckets
  heap,          \* the bucket at each address in use
  pc,            \* where each caller is in Allow
  key,           \* its argument
  bucket,        \* the bucket it found
  orphaned,      \* history: Cleanup removed that bucket from the map
  credit,        \* history: what a pool of a key's maximal limits would hold
  globalCredit   \* history: the same for the global limit since UpdateConfig

vars == <<config, globalBkt, buckets, heap, pc, key, bucket, orphaned, credit, globalCredit>>
limiterVars == <<config, globalBkt, buckets>>
callerVars == <<pc, key, bucket, orphaned>>
creditVars == <<credit, globalCredit>>

\* The buckets someone can still reach.
Reachable ==
  ({globalBkt} \cup {buckets[k] : k \in Key} \cup {bucket[c] : c \in Caller}) \ {None}

TypeOK ==
  /\ config \in Configs
  /\ globalBkt \in Address \cup {None}
  /\ buckets \in [Key -> Address \cup {None}]
  /\ heap \in [Reachable -> Bucket]
  /\ \A a \in Reachable : heap[a].tokens <= heap[a].capacity
  /\ pc \in [Caller -> {"idle", "global", "takeGlobal", "dimension", "lookup", "create", "take"}]
  /\ key \in [Caller -> Key \cup {None}]
  /\ bucket \in [Caller -> Address \cup {None}]
  /\ orphaned \subseteq Caller
  /\ credit \in [Key -> Int] /\ globalCredit \in Int

\* What heap becomes: garbage is collected at once.
Heap(new) == heap' = [a \in Reachable' |-> new[a]]

Free == Address \ DOMAIN heap
Fresh == CHOOSE a \in Address : a \in Free
With(a, b) == [x \in DOMAIN heap \cup {a} |-> IF x = a THEN b ELSE heap[x]]

NewBucket(c) == NewTokenBucket(Capacity(c), c.requestsPerSecond)
HasGlobal(c) == c.enabled /\ c.requestsPerSecond > 0

Init ==
  /\ config \in Configs
  /\ globalBkt = IF HasGlobal(config) THEN CHOOSE a \in Address : TRUE ELSE None
  /\ heap = [a \in {globalBkt} \ {None} |-> NewBucket(config)]
  /\ buckets = [k \in Key |-> None]
  /\ pc = [c \in Caller |-> "idle"]
  /\ key = [c \in Caller |-> None]
  /\ bucket = [c \in Caller |-> None]
  /\ orphaned = {}
  /\ credit = [k \in Key |-> MaxCapacity]
  /\ globalCredit = MaxCapacity

--------------------------------------------------------------------------------
(* Allow *)

Goto(c, label) == pc' = [pc EXCEPT ![c] = label]

Return(c) ==
  /\ Goto(c, "idle")
  /\ key' = [key EXCEPT ![c] = None]
  /\ bucket' = [bucket EXCEPT ![c] = None]
  /\ orphaned' = orphaned \ {c}

\* With the limiter disabled Allow returns true and changes nothing.
AllowEnabled(c, k) ==
  /\ pc[c] = "idle" /\ config.enabled
  /\ Goto(c, "global")
  /\ key' = [key EXCEPT ![c] = k]
  /\ UNCHANGED <<limiterVars, heap, bucket, orphaned, creditVars>>

\* The pointer tested against nil is the one Allow is called on: nothing stores
\* to it in between, so the compiler loads it once.
ReadGlobal(c) ==
  /\ pc[c] = "global"
  /\ Goto(c, IF globalBkt = None THEN "dimension" ELSE "takeGlobal")
  /\ bucket' = [bucket EXCEPT ![c] = globalBkt]
  /\ UNCHANGED <<limiterVars, heap, key, orphaned, creditVars>>

TakeGlobal(c) ==
  /\ pc[c] = "takeGlobal"
  /\ IF HasToken(heap[bucket[c]])
       THEN /\ Goto(c, "dimension")
            /\ bucket' = [bucket EXCEPT ![c] = None]
            /\ globalCredit' = globalCredit - Unit
            /\ UNCHANGED <<key, orphaned>>
       ELSE Return(c) /\ UNCHANGED globalCredit
  /\ UNCHANGED <<limiterVars, credit>>
  /\ Heap([heap EXCEPT ![bucket[c]] = AfterAllow(@)])

ReadDimension(c) ==
  /\ pc[c] = "dimension"
  /\ IF config.dimension = "global"
       THEN Return(c)
       ELSE Goto(c, "lookup") /\ UNCHANGED <<key, bucket, orphaned>>
  /\ UNCHANGED <<limiterVars, heap, creditVars>>

Lookup(c) ==
  /\ pc[c] = "lookup"
  /\ Goto(c, IF buckets[key[c]] = None THEN "create" ELSE "take")
  /\ bucket' = [bucket EXCEPT ![c] = buckets[key[c]]]
  /\ UNCHANGED <<limiterVars, heap, key, orphaned, creditVars>>

\* Mutant: the map is not looked at again under the write lock.
CreateUnchecked(c) ==
  /\ pc[c] = "create" /\ Free # {}
  /\ Goto(c, "take")
  /\ bucket' = [bucket EXCEPT ![c] = Fresh]
  /\ buckets' = [buckets EXCEPT ![key[c]] = Fresh]
  /\ UNCHANGED <<config, globalBkt, key, orphaned, creditVars>>
  /\ Heap(With(Fresh, NewBucket(config)))

\* Double-checked: another caller may have created the bucket since the lookup.
Create(c) ==
  /\ pc[c] = "create" /\ Free # {}
  /\ Goto(c, "take")
  /\ IF buckets[key[c]] # None
       THEN /\ bucket' = [bucket EXCEPT ![c] = buckets[key[c]]]
            /\ UNCHANGED <<buckets, heap>>
       ELSE /\ bucket' = [bucket EXCEPT ![c] = Fresh]
            /\ buckets' = [buckets EXCEPT ![key[c]] = Fresh]
            /\ heap' = With(Fresh, NewBucket(config))
  /\ UNCHANGED <<config, globalBkt, key, orphaned, creditVars>>

\* Taking from the bucket found, which may no longer be the key's.
TakeKey(c) ==
  /\ pc[c] = "take"
  /\ Return(c)
  /\ credit' = IF HasToken(heap[bucket[c]]) /\ c \notin orphaned
                 THEN [credit EXCEPT ![key[c]] = @ - Unit] ELSE credit
  /\ UNCHANGED <<limiterVars, globalCredit>>
  /\ Heap([heap EXCEPT ![bucket[c]] = AfterAllow(@)])

AllowStep(c) ==
  \/ \E k \in Key : AllowEnabled(c, k)
  \/ ReadGlobal(c) \/ TakeGlobal(c) \/ ReadDimension(c)
  \/ Lookup(c) \/ Create(c) \/ TakeKey(c)

--------------------------------------------------------------------------------
(* Cleanup, UpdateConfig and time *)

\* Mutant: a bucket that has been idle for the timeout itself is removed too.
IdleTooSoon(b) == b.idle >= IdleTimeout

Idle(b) == b.idle > IdleTimeout

\* One step, though the buckets' own locks are taken one by one: rl.mu keeps the
\* map still, and a TakeKey in between concerns one bucket only.
Cleanup ==
  LET removed == {k \in Key : buckets[k] # None /\ Idle(heap[buckets[k]])} IN
  /\ removed # {}
  /\ buckets' = [k \in Key |-> IF k \in removed THEN None ELSE buckets[k]]
  /\ orphaned' = orphaned \cup {c \in Caller : pc[c] = "take" /\ key[c] \in removed}
  /\ UNCHANGED <<config, globalBkt, pc, key, bucket, creditVars>>
  /\ Heap(heap)

\* The key buckets stay what they were made from the old configuration.
UpdateConfig ==
  /\ Free # {}
  /\ config' \in Configs
  /\ globalBkt' = IF HasGlobal(config') THEN Fresh ELSE None
  /\ globalCredit' = MaxCapacity
  /\ UNCHANGED <<buckets, callerVars, credit>>
  /\ Heap(With(Fresh, NewBucket(config')))

Fuller(p) == IF p + MaxRate > MaxCapacity THEN MaxCapacity ELSE p + MaxRate

Tick ==
  /\ heap' = [a \in DOMAIN heap |-> Aged(heap[a], IdleTimeout + 1)]
  /\ credit' = [k \in Key |-> Fuller(credit[k])]
  /\ globalCredit' = Fuller(globalCredit)
  /\ UNCHANGED <<limiterVars, callerVars>>

Next == (\E c \in Caller : AllowStep(c)) \/ Cleanup \/ UpdateConfig \/ Tick

Spec == Init /\ [][Next]_vars

--------------------------------------------------------------------------------
(* Properties *)

\* Callers that use a key at the same time use the same bucket, the one in the
\* map; only a bucket that Cleanup removed while a caller held it is another.
OneBucketPerKey ==
  \A c \in Caller : pc[c] = "take" => c \in orphaned \/ bucket[c] = buckets[key[c]]

\* In no stretch of time does a key get more than a full bucket and its refill,
\* although its bucket is created by racing callers, removed when idle and
\* created again with another configuration.  Requests that held a bucket when
\* Cleanup removed it are not counted: one for each such caller.
KeyBound == \A k \in Key : credit[k] >= 0

\* Nor does the global limit let more through since the last UpdateConfig, but
\* for one request of each caller that still holds the bucket it replaced.
GlobalBound == globalCredit >= -Unit * Cardinality(Caller)

==================================================================================
