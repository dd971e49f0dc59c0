----------------------------- MODULE SharedBalancer -----------------------------
(***************************************************************************)
(* The random and least-connections balancers of                           *)
(* pkg/loadbalancer/loadbalancer.go, driven by the request handlers of     *)
(* cmd/main.go, which count a request on its node while they proxy it.     *)
(*                                                                         *)
(* Next holds lb.mu for reading only: several handlers scan the list at    *)
(* once, while others count their requests and the health checker flips    *)
(* nodes.  Each read of a node is a step; the node a handler chose is      *)
(* counted in a later step, outside any lock.                              *)
(***************************************************************************)
EXTENDS BaseLB, FiniteSets

CONSTANT
  Handler   \* the goroutines serving requests

ASSUME SharedBalancerAssumption == IsFiniteSet(Handler)

VARIABLES
  algorithm,  \* which of the two balancers NewLoadBalancer made
  conns,    \* node.ActiveConns
  pc,       \* what each handler is doing
  first,    \* index where a handler's scan starts: RandomLB's seed, else 0
  looked,   \* number of nodes its scan is done with
  chosen,   \* LeastConnLB's selected during a scan, then the node Next returned
  fewest,   \* LeastConnLB's minConns
  lasting,  \* history: nodes healthy ever since a handler's scan under way began
  moves     \* history: counts that changed since then, up to Cardinality(Handler)

listVars == <<algorithm, nodes, healthy>>
scanVars == <<first, looked, fewest>>
balancerVars == <<algorithm, nodes, healthy, conns, pc, first, looked, chosen, fewest, lasting, moves>>

\* What NewLoadBalancer distinguishes, round robin aside.
Algorithm == {"random", "least_conn"}

Scanning(h) == pc[h] \in {"look", "count"}

\* Mutant: RandomLB tries the seed's node and gives up.
LooksOnce == IF algorithm = "random" THEN 1 ELSE Len(nodes)

\* RandomLB goes round the list twice.
Looks == IF algorithm = "random" THEN 2 * Len(nodes) ELSE Len(nodes)

\* The node a handler's scan is at.
LookedAt(h) == nodes[((first[h] + looked[h]) % Len(nodes)) + 1]

BalancerTypeOK ==
  /\ algorithm \in Algorithm
  /\ ListTypeOK
  /\ healthy \in [Node -> BOOLEAN]
  /\ conns \in [Node -> Nat]
  /\ pc \in [Handler -> {"idle", "look", "count", "chosen", "proxy"}]
  /\ first \in [Handler -> Nat]
  /\ looked \in [Handler -> Nat]
  /\ chosen \in [Handler -> Node \cup {None}]
  /\ fewest \in [Handler -> Nat \cup {-1}]
  /\ lasting \in [Handler -> SUBSET Node]
  /\ moves \in [Handler -> 0 .. Cardinality(Handler)]

NewBalancer ==
  /\ algorithm \in Algorithm
  /\ NewNodeList /\ NewBackendNodes
  /\ conns = [n \in Node |-> 0]
  /\ pc = [h \in Handler |-> "idle"]
  /\ first = [h \in Handler |-> 0]
  /\ looked = [h \in Handler |-> 0]
  /\ chosen = [h \in Handler |-> None]
  /\ fewest = [h \in Handler |-> -1]
  /\ lasting = [h \in Handler |-> {}]
  /\ moves = [h \in Handler |-> 0]

--------------------------------------------------------------------------------
(* Next, called by a handler for a request that matched the route.          *)
(* An empty list makes it return nil at once and the handler answer 503,   *)
(* which changes nothing.                                                   *)

BeginScan(h) ==
  /\ pc[h] = "idle" /\ nodes # <<>>
  /\ pc' = [pc EXCEPT ![h] = "look"]
  /\ \E i \in 0 .. Len(nodes) - 1 :
       /\ algorithm = "random" \/ i = 0
       /\ first' = [first EXCEPT ![h] = i]
  /\ lasting' = [lasting EXCEPT ![h] = {n \in Listed : healthy[n]}]
  /\ UNCHANGED <<listVars, conns, looked, chosen, fewest, moves>>

\* The scan's locals are gone once Next returns.
Choose(h, n) ==
  /\ pc' = [pc EXCEPT ![h] = "chosen"]
  /\ chosen' = [chosen EXCEPT ![h] = n]
  /\ first' = [first EXCEPT ![h] = 0]
  /\ looked' = [looked EXCEPT ![h] = 0]
  /\ fewest' = [fewest EXCEPT ![h] = -1]
  /\ lasting' = [lasting EXCEPT ![h] = {}]
  /\ moves' = [moves EXCEPT ![h] = 0]

\* A healthy node: RandomLB returns it, LeastConnLB goes on to read its count.
LookHealthy(h) ==
  /\ pc[h] = "look" /\ looked[h] < Looks /\ healthy[LookedAt(h)]
  /\ IF algorithm = "random"
       THEN Choose(h, LookedAt(h))
       ELSE /\ pc' = [pc EXCEPT ![h] = "count"]
            /\ UNCHANGED <<scanVars, chosen, lasting, moves>>
  /\ UNCHANGED <<listVars, conns>>

LookUnhealthy(h) ==
  /\ pc[h] = "look" /\ looked[h] < Looks /\ ~healthy[LookedAt(h)]
  /\ looked' = [looked EXCEPT ![h] = @ + 1]
  /\ UNCHANGED <<listVars, conns, pc, first, chosen, fewest, lasting, moves>>

\* Mutant: the comparison keeps the busier node.
CountKeepsBusier(h) ==
  /\ pc[h] = "count"
  /\ pc' = [pc EXCEPT ![h] = "look"]
  /\ looked' = [looked EXCEPT ![h] = @ + 1]
  /\ IF fewest[h] = -1 \/ conns[LookedAt(h)] > fewest[h]
       THEN /\ fewest' = [fewest EXCEPT ![h] = conns[LookedAt(h)]]
            /\ chosen' = [chosen EXCEPT ![h] = LookedAt(h)]
       ELSE UNCHANGED <<fewest, chosen>>
  /\ UNCHANGED <<listVars, conns, first, lasting, moves>>

Count(h) ==
  /\ pc[h] = "count"
  /\ pc' = [pc EXCEPT ![h] = "look"]
  /\ looked' = [looked EXCEPT ![h] = @ + 1]
  /\ IF fewest[h] = -1 \/ conns[LookedAt(h)] < fewest[h]
       THEN /\ fewest' = [fewest EXCEPT ![h] = conns[LookedAt(h)]]
            /\ chosen' = [chosen EXCEPT ![h] = LookedAt(h)]
       ELSE UNCHANGED <<fewest, chosen>>
  /\ UNCHANGED <<listVars, conns, first, lasting, moves>>

\* Mutant: the loop leaves the last node out.
ScanEndEarly(h) ==
  /\ pc[h] = "look" /\ looked[h] + 1 >= Looks
  /\ Choose(h, IF chosen[h] = None THEN nodes[1] ELSE chosen[h])
  /\ UNCHANGED <<listVars, conns>>

\* The end of the loop: without a healthy node, degrade to the first one.
ScanEnd(h) ==
  /\ pc[h] = "look" /\ looked[h] = Looks
  /\ Choose(h, IF chosen[h] = None THEN nodes[1] ELSE chosen[h])
  /\ UNCHANGED <<listVars, conns>>

--------------------------------------------------------------------------------
(* The handler's accounting: IncrConns, proxying, the deferred DecrConns    *)

\* Every handler that is scanning sees one more change of the counts.
Moved ==
  moves' = [h \in Handler |->
    IF Scanning(h) /\ moves[h] < Cardinality(Handler) THEN moves[h] + 1 ELSE moves[h]]

AddConns(n, change) == conns' = [conns EXCEPT ![n] = @ + change]

IncrConns(h) ==
  /\ pc[h] = "chosen"
  /\ pc' = [pc EXCEPT ![h] = "proxy"]
  /\ AddConns(chosen[h], 1)
  /\ Moved
  /\ UNCHANGED <<listVars, scanVars, chosen, lasting>>

\* Mutant: the count is given back only for a request that succeeded.
FinishForgets(h) ==
  /\ pc[h] = "proxy"
  /\ pc' = [pc EXCEPT ![h] = "idle"]
  /\ chosen' = [chosen EXCEPT ![h] = None]
  /\ \/ AddConns(chosen[h], -1) /\ Moved
     \/ UNCHANGED <<conns, moves>>
  /\ UNCHANGED <<listVars, scanVars, lasting>>

\* ServeHTTP returned, the error handler answered 502, or the proxy panicked
\* with ErrAbortHandler: the deferred call runs in every case.
Finish(h) ==
  /\ pc[h] = "proxy"
  /\ pc' = [pc EXCEPT ![h] = "idle"]
  /\ chosen' = [chosen EXCEPT ![h] = None]
  /\ AddConns(chosen[h], -1)
  /\ Moved
  /\ UNCHANGED <<listVars, scanVars, lasting>>

HandlerStep(h) ==
  \/ BeginScan(h) \/ LookHealthy(h) \/ LookUnhealthy(h) \/ Count(h) \/ ScanEnd(h)
  \/ IncrConns(h) \/ Finish(h)

--------------------------------------------------------------------------------
(* Changes of the list, which wait for every scan to end, and of the        *)
(* nodes' health, which do not                                              *)

NoScan == \A h \in Handler : ~Scanning(h)

AddBackend(n) ==
  /\ NoScan /\ ListAppend(n)
  /\ UNCHANGED <<algorithm, healthy, conns, pc, scanVars, chosen, lasting, moves>>

RemoveBackend(n) ==
  /\ NoScan /\ ListDelete(n)
  /\ UNCHANGED <<algorithm, healthy, conns, pc, scanVars, chosen, lasting, moves>>

\* The health checker's SetHealthy; UpdateHealth finds a listed node by its
\* address, with a lock scans share, and does the same.
SetHealth(n, b) ==
  /\ healthy' = [healthy EXCEPT ![n] = b]
  /\ lasting' = [h \in Handler |-> IF b THEN lasting[h] ELSE lasting[h] \ {n}]
  /\ UNCHANGED <<algorithm, nodes, conns, pc, scanVars, chosen, moves>>

BalancerStep ==
  \/ \E h \in Handler : HandlerStep(h)
  \/ \E n \in Node : AddBackend(n) \/ RemoveBackend(n) \/ \E b \in BOOLEAN : SetHealth(n, b)

BalancerSpec == NewBalancer /\ [][BalancerStep]_balancerVars

--------------------------------------------------------------------------------
(* Properties *)

\* The count of a node is the number of handlers between its IncrConns and its
\* DecrConns, whatever became of the requests and of the node's place in the
\* list: no count leaks and none goes below zero.
ConnsMatchHandlers ==
  \A n \in Node : conns[n] = Cardinality({h \in Handler : pc[h] = "proxy" /\ chosen[h] = n})

\* A node that was healthy during the whole scan keeps Next from falling back,
\* and then the choice is a node the scan saw healthy.
NoFallbackIfSteady ==
  [][\A h \in Handler : ScanEnd(h) /\ chosen[h] = None => lasting[h] = {}]_balancerVars

\* What a scan has found healthy and may still return.
Found(h) ==
  (IF chosen[h] = None THEN {} ELSE {chosen[h]})
    \cup (IF pc[h] = "count" THEN {LookedAt(h)} ELSE {})

\* The promise of every balancer, for handlers that scan at the same time: what
\* Next returns is listed, and was healthy at some moment of the scan if any node
\* was healthy all through it, whatever the order of the scan and the counts.
SharedChoice == INSTANCE NodeChoice WITH
  Caller <- Handler,
  list <- Listed,
  phase <- [h \in Handler |-> IF Scanning(h) THEN "asking" ELSE "idle"],
  noticed <- [h \in Handler |-> IF Scanning(h) THEN Found(h) ELSE {}],
  lasting <- lasting,
  answer <- [h \in Handler |-> IF Scanning(h) THEN None ELSE chosen[h]]

ImplementsSharedChoice == SharedChoice!Spec

\* How stale a least-connections choice can be: when Next returns, the chosen
\* node may carry more requests than a node healthy throughout, by no more than
\* the number of requests that began or ended while it was scanning.
ChoiceStaleness ==
  [][\A h \in Handler : ScanEnd(h) =>
       \A n \in lasting[h] : conns[chosen'[h]] <= conns[n] + moves[h]]_balancerVars

================================================================================
