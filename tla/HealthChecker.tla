------------------------------ MODULE HealthChecker ------------------------------
(***************************************************************************)
(* The health checker of pkg/health/health.go, with the health flags of    *)
(* the nodes it watches (pkg/loadbalancer/loadbalancer.go).                *)
(*                                                                         *)
(* One goroutine, run(), sweeps over the checkers registered when the      *)
(* sweep began and probes them one by one.  RegisterBackend and            *)
(* UnregisterBackend only change the map, so a checker may be probed after *)
(* it left the map, while a new one is already registered for the node.    *)
(* Checkers therefore have identities, and are forgotten when neither the  *)
(* map nor the sweep holds them.                                           *)
(*                                                                         *)
(* Consecutive results are counted up to Enough, the larger threshold:     *)
(* more makes no difference to checkOne.  Main registers no node at all;   *)
(* Register and Unregister are the calls of an embedding program, and each *)
(* node stands for a *BackendNode, of which several may have one address.  *)
(***************************************************************************)
EXTENDS BackendNode, Integers

CONSTANTS
  Address,             \* the nodes' addresses
  AddressOf,           \* the address of each node
  Checker,             \* where checkers are allocated
  UnhealthyThreshold,
  HealthyThreshold

Larger(a, b) == IF a > b THEN a ELSE b
Enough == Larger(UnhealthyThreshold, HealthyThreshold)

ASSUME HealthCheckerAssumption ==
  /\ AddressOf \in [Node -> Address]
  /\ None \notin Checker
  /\ UnhealthyThreshold \in Nat /\ HealthyThreshold \in Nat

VARIABLES
  up,         \* would a probe of an address succeed: is its URL one, and does the
              \* backend answer 2xx or 3xx in time?
  failCount,  \* node.FailCount
  checkers,   \* hc.checkers
  heap,       \* the *backendChecker objects in use
  loop,       \* where run() is
  sweep,      \* the checkers checkAll has yet to look at
  probing,    \* the one it is at
  result,     \* what doCheck returned
  stopped,    \* hc.stopCh is closed
  streak      \* history: a node's successful probes in a row, or, below zero,
              \* its failed ones

checkerVars == <<up, healthy, failCount, checkers, heap, loop, sweep, probing, result,
          stopped, streak>>

CheckerType ==
  [node : Node, fails : 0 .. Enough, successes : 0 .. Enough, lastStatus : BOOLEAN]

InMap == {checkers[a] : a \in Address} \ {None}

CheckerTypeOK ==
  /\ up \in [Address -> BOOLEAN]
  /\ healthy \in [Node -> BOOLEAN]
  /\ failCount \in [Node -> 0 .. Enough]
  /\ checkers \in [Address -> Checker \cup {None}]
  /\ DOMAIN heap = InMap \cup sweep \cup ({probing} \ {None})
  /\ \A i \in DOMAIN heap :
       heap[i] \in CheckerType /\ (heap[i].fails = 0 \/ heap[i].successes = 0)
  /\ \A a \in Address : checkers[a] # None => AddressOf[heap[checkers[a]].node] = a
  /\ loop \in {"new", "waiting", "sweeping", "checking", "applying", "ended"}
  /\ sweep \subseteq Checker
  /\ probing \in Checker \cup {None}
  /\ result \in BOOLEAN
  /\ stopped \in BOOLEAN
  /\ streak \in [Node -> -Enough .. Enough]

NewHealthChecker ==
  /\ up \in [Address -> BOOLEAN]
  /\ NewBackendNodes
  /\ failCount = [n \in Node |-> 0]
  /\ checkers = [a \in Address |-> None]
  /\ heap = [i \in {} |-> None]
  /\ loop = "new"
  /\ sweep = {}
  /\ probing = None
  /\ result = FALSE
  /\ stopped = FALSE
  /\ streak = [n \in Node |-> 0]

\* What heap becomes: a checker nobody holds is gone.
Heap(new) == heap' = [i \in InMap' \cup sweep' \cup ({probing'} \ {None}) |-> new[i]]

nodeVars == <<healthy, failCount, streak>>
loopVars == <<loop, sweep, probing, result>>

--------------------------------------------------------------------------------
(* The calls of the embedding program *)

Free == Checker \ DOMAIN heap

\* An address that is registered already keeps its checker and its node.
RegisterBackend(n) ==
  LET new == CHOOSE i \in Checker : i \in Free IN
  /\ checkers[AddressOf[n]] = None /\ Free # {}
  /\ checkers' = [checkers EXCEPT ![AddressOf[n]] = new]
  /\ UNCHANGED <<up, nodeVars, loopVars, stopped>>
  /\ Heap([i \in DOMAIN heap \cup {new} |->
             IF i = new
               THEN [node |-> n, fails |-> 0, successes |-> 0, lastStatus |-> TRUE]
               ELSE heap[i]])

UnregisterBackend(a) ==
  /\ checkers[a] # None
  /\ checkers' = [checkers EXCEPT ![a] = None]
  /\ UNCHANGED <<up, nodeVars, loopVars, stopped>>
  /\ Heap(heap)

Start ==
  /\ loop = "new"
  /\ loop' = "waiting"
  /\ UNCHANGED <<up, nodeVars, checkers, heap, sweep, probing, result, stopped>>

\* Called once, by main's shutdown; a second close would panic.
Stop ==
  /\ ~stopped
  /\ stopped' = TRUE
  /\ UNCHANGED <<up, nodeVars, checkers, heap, loopVars>>

--------------------------------------------------------------------------------
(* run() *)

\* The ticker fires: checkAll takes its snapshot of the map.
Sweep ==
  /\ loop = "waiting"
  /\ loop' = "sweeping"
  /\ sweep' = InMap
  /\ UNCHANGED <<up, nodeVars, checkers, heap, probing, result, stopped>>

\* The select also takes the closed stopCh; when both are ready it picks either.
RunReturn ==
  /\ loop = "waiting" /\ stopped
  /\ loop' = "ended"
  /\ UNCHANGED <<up, nodeVars, checkers, heap, sweep, probing, result, stopped>>

SweepEnd ==
  /\ loop = "sweeping" /\ sweep = {}
  /\ loop' = "waiting"
  /\ UNCHANGED <<up, nodeVars, checkers, heap, sweep, probing, result, stopped>>

\* Mutant: the map is read again, and a checker no longer in it is passed over.
CheckOneRegistered ==
  /\ loop = "sweeping"
  /\ \E i \in sweep \cap InMap :
       /\ probing' = i
       /\ sweep' = sweep \ {i}
  /\ loop' = "checking"
  /\ UNCHANGED <<up, nodeVars, checkers, heap, result, stopped>>

\* checkOne sends its request; map order is arbitrary.
CheckOne ==
  /\ loop = "sweeping"
  /\ \E i \in sweep :
       /\ probing' = i
       /\ sweep' = sweep \ {i}
  /\ loop' = "checking"
  /\ UNCHANGED <<up, nodeVars, checkers, heap, result, stopped>>

Probed == heap[probing].node

Counted(n) == IF n < Enough THEN n + 1 ELSE n
Streak(n, ok) ==
  IF ok THEN Counted(Larger(n, 0)) ELSE -Counted(Larger(-n, 0))

\* IncrFail or ResetFail, and neither when NewRequest failed.
Recount(n, ok) ==
  \/ failCount' = [failCount EXCEPT ![n] = IF ok THEN 0 ELSE Counted(@)]
  \/ ~ok /\ UNCHANGED failCount

\* The backend's answer, or the lack of one within the timeout, is in; or
\* NewRequest returned an error.
DoCheck ==
  /\ loop = "checking"
  /\ loop' = "applying"
  /\ result' = up[AddressOf[Probed]]
  /\ Recount(Probed, result')
  /\ streak' = [streak EXCEPT ![Probed] = Streak(@, result')]
  /\ UNCHANGED <<up, healthy, checkers, heap, sweep, probing, stopped>>

AfterSuccess(c) == [c EXCEPT !.fails = 0, !.successes = Counted(@)]

\* Mutant: a failure does not clear the successes counted before it.
AfterFailureKeeps(c) == [c EXCEPT !.fails = Counted(@)]
AfterFailure(c) == [c EXCEPT !.successes = 0, !.fails = Counted(@)]

\* Does the checker's count call for setting the node to ok?
Flips(c, ok) ==
  /\ healthy[c.node] # ok
  /\ IF ok THEN c.successes >= HealthyThreshold ELSE c.fails >= UnhealthyThreshold

\* Mutant: a node that went down is never taken back.
ApplyOneWay ==
  LET counted == IF result THEN AfterSuccess(heap[probing]) ELSE AfterFailure(heap[probing])
      flips == Flips(counted, result) /\ ~result
  IN
  /\ loop = "applying"
  /\ loop' = "sweeping"
  /\ healthy' = IF flips THEN [healthy EXCEPT ![Probed] = result] ELSE healthy
  /\ probing' = None
  /\ result' = FALSE
  /\ UNCHANGED <<up, failCount, checkers, sweep, stopped, streak>>
  /\ Heap([heap EXCEPT ![probing] =
             [counted EXCEPT !.lastStatus = IF flips THEN result ELSE @]])

\* The rest of checkOne: nobody else writes a checker or, while the balancers'
\* UpdateHealth has no caller, a node's flag.
Apply ==
  LET counted == IF result THEN AfterSuccess(heap[probing]) ELSE AfterFailure(heap[probing])
      flips == Flips(counted, result)
  IN
  /\ loop = "applying"
  /\ loop' = "sweeping"
  /\ healthy' = IF flips THEN [healthy EXCEPT ![Probed] = result] ELSE healthy
  /\ probing' = None
  /\ result' = FALSE
  /\ UNCHANGED <<up, failCount, checkers, sweep, stopped, streak>>
  /\ Heap([heap EXCEPT ![probing] =
             [counted EXCEPT !.lastStatus = IF flips THEN result ELSE @]])

Run == Sweep \/ SweepEnd \/ CheckOne \/ DoCheck \/ Apply \/ RunReturn

--------------------------------------------------------------------------------
(* The backends *)

BackendChanges(a) ==
  /\ up' = [up EXCEPT ![a] = ~@]
  /\ UNCHANGED <<nodeVars, checkers, heap, loopVars, stopped>>

CheckerStep ==
  \/ Run \/ Start \/ Stop
  \/ \E n \in Node : RegisterBackend(n)
  \/ \E a \in Address : UnregisterBackend(a) \/ BackendChanges(a)

CheckerSpec == NewHealthChecker /\ [][CheckerStep]_checkerVars

\* The ticker keeps firing and every request ends, by the timeout if need be;
\* select picks at random between the ticker and stopCh when both are ready, so
\* it does not prefer the ticker for ever.
FairCheckerSpec == CheckerSpec /\ WF_checkerVars(Start) /\ WF_checkerVars(Run) /\ SF_checkerVars(RunReturn)

--------------------------------------------------------------------------------
(* Properties *)

\* A node changes its state only after as many probes of it in a row as the
\* threshold asks for, even when it was unregistered and registered again while
\* a sweep was probing its old checker.
Hysteresis ==
  [][\A n \in Node :
       /\ healthy[n] /\ ~healthy'[n] => streak[n] <= -UnhealthyThreshold
       /\ ~healthy[n] /\ healthy'[n] => streak[n] >= HealthyThreshold]_checkerVars

\* The checker running at node n's address watches n.
Watched(n) ==
  checkers[AddressOf[n]] # None /\ heap[checkers[AddressOf[n]]].node = n

\* While the checker runs, a node that stays registered follows its backend: it
\* is taken out if the backend stays down, and back in if it stays up.
FollowsBackend ==
  \A n \in Node : \A ok \in BOOLEAN :
    <>[](Watched(n) /\ up[AddressOf[n]] = ok /\ ~stopped) => <>[](healthy[n] = ok)

\* Stop ends the loop, in the middle of a sweep too.
StopEnds == stopped ~> loop = "ended"

==================================================================================
