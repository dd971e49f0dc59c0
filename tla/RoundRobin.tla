------------------------------- MODULE RoundRobin -------------------------------
(***************************************************************************)
(* The round-robin balancer of pkg/loadbalancer/loadbalancer.go.           *)
(*                                                                         *)
(* Next, Add and Remove hold lb.mu; SetHealthy holds only the node's own   *)
(* lock, so the health checker flips nodes while Next is scanning.  Next   *)
(* is therefore one step per node it looks at.                             *)
(***************************************************************************)
EXTENDS BaseLB

CONSTANT
  MaxRemovals   \* bound on the calls of Remove

ASSUME RoundRobinAssumption == MaxRemovals \in Nat

VARIABLES
  current,    \* lb.current, an index from 0, or -1
  scanned,    \* nodes the Next that holds lb.mu has looked at, or Unlocked
  picked,     \* what the last Next returned
  removals,   \* Remove calls so far
  steady,     \* history: nodes healthy ever since the scan began
  since,      \* history: for a listed node, the nodes picked as healthy since it
              \* was last picked, added, or unhealthy
  disturbed   \* history: nodes since whose last pick a Remove moved the cursor

roundRobinVars == <<nodes, current, healthy, scanned, picked, removals, steady, since, disturbed>>

Unlocked == -1
At(index) == nodes[index + 1]

RoundRobinTypeOK ==
  /\ ListTypeOK
  /\ current \in {-1} \cup Nat
  /\ healthy \in [Node -> BOOLEAN]
  /\ scanned \in Unlocked .. Len(nodes) - 1
  /\ picked \in Node \cup {None}
  /\ removals \in 0 .. MaxRemovals
  /\ steady \subseteq Listed
  /\ since \in [Node -> SUBSET Node]
  /\ disturbed \subseteq Node

NewRoundRobinLB ==
  /\ NewNodeList /\ NewBackendNodes
  /\ current = -1
  /\ scanned = Unlocked
  /\ picked = None
  /\ removals = 0
  /\ steady = {}
  /\ since = [n \in Node |-> {}]
  /\ disturbed = {}

--------------------------------------------------------------------------------
(* Next *)

NextEmpty ==
  /\ scanned = Unlocked /\ nodes = <<>>
  /\ picked' = None
  /\ UNCHANGED <<nodes, current, healthy, scanned, removals, steady, since, disturbed>>

NextLock ==
  /\ scanned = Unlocked /\ nodes # <<>>
  /\ scanned' = 0
  /\ steady' = {n \in Listed : healthy[n]}
  /\ UNCHANGED <<nodes, current, healthy, picked, removals, since, disturbed>>

Return(n) == picked' = n /\ scanned' = Unlocked /\ steady' = {}

\* The node a scan step looks at.
Candidate == (current + 1) % Len(nodes)

\* Mutant: the cursor is only moved past nodes that were unhealthy.
HitKeepsCursor ==
  /\ scanned # Unlocked /\ healthy[At(Candidate)]
  /\ UNCHANGED current
  /\ Return(At(Candidate))
  /\ since' = [n \in Node |->
       IF n = At(Candidate) \/ n \notin Listed \/ ~healthy[n] THEN {}
       ELSE since[n] \cup {At(Candidate)}]
  /\ disturbed' = disturbed \ {At(Candidate)}
  /\ UNCHANGED <<nodes, healthy, removals>>

NextHit ==
  /\ scanned # Unlocked /\ healthy[At(Candidate)]
  /\ current' = Candidate
  /\ Return(At(Candidate))
  /\ since' = [n \in Node |->
       IF n = At(Candidate) \/ n \notin Listed \/ ~healthy[n] THEN {}
       ELSE since[n] \cup {At(Candidate)}]
  /\ disturbed' = disturbed \ {At(Candidate)}
  /\ UNCHANGED <<nodes, healthy, removals>>

NextMiss ==
  /\ scanned # Unlocked /\ ~healthy[At(Candidate)]
  /\ scanned + 1 < Len(nodes)
  /\ current' = Candidate
  /\ scanned' = scanned + 1
  /\ UNCHANGED <<nodes, healthy, picked, removals, steady, since, disturbed>>

\* Mutant: the loop stops one node early.
FallbackEarly ==
  /\ scanned # Unlocked /\ ~healthy[At(Candidate)]
  /\ scanned + 2 >= Len(nodes)
  /\ current' = Candidate
  /\ Return(nodes[1])
  /\ UNCHANGED <<nodes, healthy, removals, since, disturbed>>

\* The scan found no healthy node and degrades to the first of the list.
NextFallback ==
  /\ scanned # Unlocked /\ ~healthy[At(Candidate)]
  /\ scanned + 1 = Len(nodes)
  /\ current' = Candidate
  /\ Return(nodes[1])
  /\ UNCHANGED <<nodes, healthy, removals, since, disturbed>>

NextPick == NextEmpty \/ NextLock \/ NextHit \/ NextMiss \/ NextFallback

--------------------------------------------------------------------------------
(* Changes of the list and of the nodes' health *)

AddNode(n) ==
  /\ scanned = Unlocked /\ ListAppend(n)
  /\ since' = [since EXCEPT ![n] = {}]
  /\ disturbed' = disturbed \ {n}
  /\ UNCHANGED <<current, healthy, scanned, picked, removals, steady>>

\* Removing at or before the cursor moves the nodes after it towards the front;
\* lb.current stays what it was.
RemoveNode(n) ==
  /\ scanned = Unlocked /\ ListDelete(n) /\ removals < MaxRemovals
  /\ removals' = removals + 1
  /\ since' = [since EXCEPT ![n] = {}]
  /\ disturbed' = IF \E i \in 0 .. current : i < Len(nodes) /\ At(i) = n
                    THEN (disturbed \cup Listed) \ {n}
                    ELSE disturbed \ {n}
  /\ UNCHANGED <<current, healthy, scanned, picked, steady>>

ChangeHealth(n, h) ==
  /\ healthy' = [healthy EXCEPT ![n] = h]
  /\ steady' = IF h THEN steady ELSE steady \ {n}
  /\ since' = IF h THEN since ELSE [since EXCEPT ![n] = {}]
  /\ disturbed' = IF h THEN disturbed ELSE disturbed \ {n}
  /\ UNCHANGED <<nodes, current, scanned, picked, removals>>

\* The health checker, through its own pointer to the node.
SetHealthy(n, h) == healthy[n] # h /\ ChangeHealth(n, h)

\* Through the balancer, which waits for a scan to end and looks the node up.
UpdateHealth(n, h) == scanned = Unlocked /\ n \in Listed /\ ChangeHealth(n, h)

RoundRobinStep ==
  \/ NextPick
  \/ \E n \in Node :
       \/ AddNode(n)
       \/ RemoveNode(n)
       \/ \E h \in BOOLEAN : SetHealthy(n, h) \/ UpdateHealth(n, h)

RoundRobinSpec == NewRoundRobinLB /\ [][RoundRobinStep]_roundRobinVars

\* Requests keep coming, and a Next that holds the lock runs to its end.
FairRoundRobinSpec == RoundRobinSpec /\ WF_roundRobinVars(NextPick)

--------------------------------------------------------------------------------
(* Properties *)

\* Rotation.  While a listed node is waiting and healthy, no other node is
\* picked twice before it, whatever nodes fail, recover, join or leave in the
\* meantime; the one exception is a Remove at or before the cursor.
Rotation ==
  [][NextHit => \A n \in Listed \ disturbed :
       picked' # n => picked' \notin since[n]]_roundRobinVars

\* Next falls back to the first node only when every listed node was unhealthy
\* at some point of the scan: a node healthy all along is never missed.
FallbackOnlyIfNoneSteady == [][NextFallback => steady = {}]_roundRobinVars

\* The promise of every balancer: what Next returns is listed, and was healthy if
\* any node was healthy all along.  A scan that holds the lock is a call, and the
\* only one at that time.
Choice == INSTANCE NodeChoice WITH
  Caller <- {"holder"},
  list <- Listed,
  phase <- [c \in {"holder"} |-> IF scanned = Unlocked THEN "idle" ELSE "asking"],
  noticed <- [c \in {"holder"} |-> {}],
  lasting <- [c \in {"holder"} |-> steady],
  answer <- [c \in {"holder"} |-> picked]

ImplementsChoice == Choice!Spec

\* A node that is listed and healthy for good is picked again and again, even
\* if all the others keep failing and recovering.
NoStarvation ==
  \A n \in Node :
    <>[](n \in Listed /\ healthy[n]) => []<>(picked = n)

================================================================================
