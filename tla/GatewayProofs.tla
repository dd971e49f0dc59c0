----------------------------- MODULE GatewayProofs ------------------------------
(***************************************************************************)
(* What the request handler and the stop of cmd/main.go keep, for any      *)
(* number of requests, backends and tables.                                *)
(***************************************************************************)
EXTENDS Gateway, FiniteSetTheorems, SequenceTheorems, TLAPS

\* What the handlers work with is changed by a handler, by a new table, or not.
LEMMA StepsOfHandlers ==
  ASSUME [Next]_vars
  PROVE  \/ \E q \in Request : Accept(q) \/ FindRoute(q) \/ NextNode(q) \/ IncrConns(q)
                               \/ AccessLog(q) \/ Relay(q) \/ ErrorHandler(q) \/ Abort(q)
         \/ \E new \in Table : UpdateRoutes(new)
         \/ UNCHANGED <<table, requestVars>>
  BY DEF Next, vars, HandlerStep, BackendStep, MainStep, StopperStep, Start, ListenAndServe,
         ServeReturns, Notify, Shutdown, ShutdownReturns, StopChecker, Signal, Expire

--------------------------------------------------------------------------------
(* Where a handler is, and what it has *)

Places == {"absent", "accepted", "routed", "chosen", "proxying", "relayed", "done"}

\* A handler has a route once it is routed and a node once one is chosen, of the
\* table its route is in.
HandlerInv ==
  /\ table \in Table
  /\ pc \in [Request -> Places]
  /\ route \in [Request -> Table \cup {None}]
  /\ node \in [Request -> Node \cup {None}]
  /\ \A q \in Request :
       /\ pc[q] \in {"routed", "chosen", "proxying", "relayed"} => route[q] \in Table
       /\ pc[q] \in {"chosen", "proxying", "relayed"} =>
            node[q] \in Node /\ node[q][1] = route[q].version
       /\ pc[q] \in {"absent", "accepted", "routed", "done"} => node[q] = None

\* A step moves at most one handler, from a place to one of the next.
LEMMA HandlerStepKeeps ==
  ASSUME HandlerInv, [Next]_vars
  PROVE  HandlerInv'
<1> USE DEF HandlerInv, Places
<1>1. ASSUME NEW q \in Request, Accept(q) PROVE HandlerInv'
  BY <1>1 DEF Accept
<1>2. ASSUME NEW q \in Request, FindRoute(q) PROVE HandlerInv'
  BY <1>2 DEF FindRoute, Refuse
<1>3. ASSUME NEW q \in Request, NextNode(q) PROVE HandlerInv'
  <2>1. CASE route[q].backends = {}
    BY <1>3, <2>1 DEF NextNode, Refuse
  <2>2. CASE route[q].backends # {}
    <3>1. PICK a \in route[q].backends : node' = [node EXCEPT ![q] = <<route[q].version, a>>]
      BY <1>3, <2>2 DEF NextNode
    <3>2. route[q] \in Table
      BY <1>3 DEF NextNode
    <3>3. <<route[q].version, a>> \in Node /\ <<route[q].version, a>>[1] = route[q].version
      BY <3>1, <3>2 DEF Table, Node
    <3> QED BY <1>3, <2>2, <3>1, <3>2, <3>3 DEF NextNode
  <2> QED BY <2>1, <2>2
<1>4. ASSUME NEW q \in Request, IncrConns(q) PROVE HandlerInv'
  BY <1>4 DEF IncrConns
<1>5. ASSUME NEW q \in Request, AccessLog(q) PROVE HandlerInv'
  BY <1>5 DEF AccessLog, Leave
<1>6. ASSUME NEW q \in Request, Relay(q) \/ ErrorHandler(q) PROVE HandlerInv'
  BY <1>6 DEF Relay, ErrorHandler
<1>7. ASSUME NEW q \in Request, Abort(q) PROVE HandlerInv'
  BY <1>7 DEF Abort, Leave
<1>8. ASSUME NEW new \in Table, UpdateRoutes(new) PROVE HandlerInv'
  BY <1>8 DEF UpdateRoutes, requestVars
<1>9. CASE UNCHANGED <<table, requestVars>>
  BY <1>9 DEF requestVars
<1> QED BY <1>1, <1>2, <1>3, <1>4, <1>5, <1>6, <1>7, <1>8, <1>9, StepsOfHandlers

LEMMA HandlerInvariant == Spec => []HandlerInv
<1>1. Init => HandlerInv
  BY DEF Init, HandlerInv, Places
<1>2. HandlerInv /\ [Next]_vars => HandlerInv'
  BY HandlerStepKeeps
<1> QED BY <1>1, <1>2, PTL DEF Spec

\* A request keeps the route it found until it ends, a new one gets the table in
\* force, and a node is of the table its route was found in.
THEOREM TablesDrain == Spec => OldTablesDrain
<1>1. ASSUME HandlerInv, [Next]_vars, NEW q \in Request
      PROVE  route'[q] \in {None, table', route[q]}
  BY <1>1, StepsOfHandlers
     DEF HandlerInv, Accept, FindRoute, NextNode, Refuse, IncrConns, AccessLog, Relay,
         ErrorHandler, Abort, Leave, UpdateRoutes, requestVars
<1>2. ASSUME HandlerInv, HandlerInv', NEW q \in Request
      PROVE  node'[q] # None => node'[q][1] = route'[q].version
  BY <1>2 DEF HandlerInv, Places
<1>3. HandlerInv /\ HandlerInv' /\ [Next]_vars =>
        [\A q \in Request :
           /\ route'[q] \in {None, table', route[q]}
           /\ node'[q] # None => node'[q][1] = route'[q].version]_vars
  BY <1>1, <1>2
<1> QED BY <1>3, HandlerInvariant, PTL DEF Spec, OldTablesDrain

--------------------------------------------------------------------------------
(* The connection counts *)

Active(n) == {q \in Request : pc[q] \in {"proxying", "relayed"} /\ node[q] = n}

\* The count of a node is that of the handlers between IncrConns and DecrConns,
\* which are finitely many, whatever Request is.
ConnsInv ==
  /\ conns \in [Node -> Int]
  /\ \A n \in Node : IsFiniteSet(Active(n)) /\ conns[n] = Cardinality(Active(n))

LEMMA ConnsStepKeeps ==
  ASSUME HandlerInv, ConnsInv, [Next]_vars
  PROVE  ConnsInv'
<1> USE DEF HandlerInv
<1>1. ASSUME UNCHANGED conns, \A n \in Node : Active(n)' = Active(n) PROVE ConnsInv'
  BY <1>1 DEF ConnsInv
<1>2. ASSUME NEW q \in Request, Accept(q) PROVE ConnsInv'
  BY <1>1, <1>2 DEF Accept, Active
<1>3. ASSUME NEW q \in Request, FindRoute(q) PROVE ConnsInv'
  BY <1>1, <1>3 DEF FindRoute, Refuse, Active
<1>4. ASSUME NEW q \in Request, NextNode(q) PROVE ConnsInv'
  BY <1>1, <1>4 DEF NextNode, Refuse, Active
<1>5. ASSUME NEW q \in Request, IncrConns(q) PROVE ConnsInv'
  <2>1. /\ pc[q] = "chosen" /\ node[q] \in Node /\ conns' = [conns EXCEPT ![node[q]] = @ + 1]
        /\ pc' = [pc EXCEPT ![q] = "proxying"] /\ node' = node
    BY <1>5 DEF IncrConns
  <2>2. \A n \in Node : Active(n)' = IF n = node[q] THEN Active(n) \cup {q} ELSE Active(n)
    BY <2>1 DEF Active
  <2>3. q \notin Active(node[q])
    BY <2>1 DEF Active
  <2>4. /\ IsFiniteSet(Active(node[q]) \cup {q})
        /\ Cardinality(Active(node[q]) \cup {q}) = Cardinality(Active(node[q])) + 1
    BY <2>1, <2>3, FS_AddElement DEF ConnsInv
  <2>5. conns' \in [Node -> Int]
        /\ \A n \in Node : conns'[n] = IF n = node[q] THEN conns[n] + 1 ELSE conns[n]
    BY <2>1 DEF ConnsInv
  <2>6. ASSUME NEW n \in Node PROVE IsFiniteSet(Active(n)') /\ conns'[n] = Cardinality(Active(n)')
    <3>1. CASE n = node[q]
      BY <2>2, <2>4, <2>5, <3>1 DEF ConnsInv
    <3>2. CASE n # node[q]
      <4>1. Active(n)' = Active(n) /\ conns'[n] = conns[n]
        BY <2>2, <2>5, <3>2
      <4> QED BY <4>1 DEF ConnsInv
    <3> QED BY <3>1, <3>2
  <2> QED BY <2>5, <2>6 DEF ConnsInv
<1>6. ASSUME NEW q \in Request, AccessLog(q) \/ Abort(q) PROVE ConnsInv'
  <2>1. /\ q \in Active(node[q]) /\ node[q] \in Node /\ conns' = [conns EXCEPT ![node[q]] = @ - 1]
        /\ pc' = [pc EXCEPT ![q] = "done"] /\ node' = [node EXCEPT ![q] = None]
    BY <1>6 DEF AccessLog, Abort, Leave, Active
  <2>2. \A n \in Node : Active(n)' = IF n = node[q] THEN Active(n) \ {q} ELSE Active(n)
    BY <2>1 DEF Active
  <2>3. /\ IsFiniteSet(Active(node[q]) \ {q})
        /\ Cardinality(Active(node[q]) \ {q}) = Cardinality(Active(node[q])) - 1
    BY <2>1, FS_RemoveElement DEF ConnsInv
  <2>4. conns' \in [Node -> Int]
        /\ \A n \in Node : conns'[n] = IF n = node[q] THEN conns[n] - 1 ELSE conns[n]
    BY <2>1 DEF ConnsInv
  <2>5. ASSUME NEW n \in Node PROVE IsFiniteSet(Active(n)') /\ conns'[n] = Cardinality(Active(n)')
    <3>1. CASE n = node[q]
      BY <2>2, <2>3, <2>4, <3>1 DEF ConnsInv
    <3>2. CASE n # node[q]
      <4>1. Active(n)' = Active(n) /\ conns'[n] = conns[n]
        BY <2>2, <2>4, <3>2
      <4> QED BY <4>1 DEF ConnsInv
    <3> QED BY <3>1, <3>2
  <2> QED BY <2>4, <2>5 DEF ConnsInv
<1>7. ASSUME NEW q \in Request, Relay(q) \/ ErrorHandler(q) PROVE ConnsInv'
  BY <1>1, <1>7 DEF Relay, ErrorHandler, Active
<1>8. ASSUME NEW new \in Table, UpdateRoutes(new) PROVE ConnsInv'
  BY <1>1, <1>8 DEF UpdateRoutes, requestVars, Active
<1>9. CASE UNCHANGED <<table, requestVars>>
  BY <1>1, <1>9 DEF requestVars, Active
<1> QED BY <1>2, <1>3, <1>4, <1>5, <1>6, <1>7, <1>8, <1>9, StepsOfHandlers

LEMMA ConnsInvariant == Spec => []ConnsInv
<1>1. Init => ConnsInv
  <2> SUFFICES ASSUME Init PROVE ConnsInv
    OBVIOUS
  <2>1. \A n \in Node : Active(n) = {}
    BY DEF Init, Active
  <2>2. ASSUME NEW n \in Node PROVE IsFiniteSet(Active(n)) /\ conns[n] = Cardinality(Active(n))
    <3>1. Active(n) = {} /\ conns[n] = 0
      BY <2>1 DEF Init
    <3> QED BY <3>1, FS_EmptySet
  <2> QED BY <2>2 DEF Init, ConnsInv
<1>2. HandlerInv /\ ConnsInv /\ [Next]_vars => ConnsInv'
  BY ConnsStepKeeps
<1> QED BY <1>1, <1>2, HandlerInvariant, PTL DEF Spec

\* ActiveConns of a node is the number of requests it is serving, whatever the
\* number of requests and however tables are replaced and proxies panic.
THEOREM ConnsAreExact == Spec => []ConnsMatchHandlers
<1>1. ConnsInv => ConnsMatchHandlers
  BY DEF ConnsInv, ConnsMatchHandlers, Active
<1> QED BY <1>1, ConnsInvariant, PTL

--------------------------------------------------------------------------------
(* The access log *)

\* Nothing is logged before the answer; the error handler has logged its own.
LogInv ==
  /\ pc \in [Request -> Places]
  /\ answer \in [Request -> Status \cup {None}]
  /\ logs \in [Request -> Seq(Status)]
  /\ \A q \in Request :
       /\ pc[q] \in {"absent", "accepted", "routed", "chosen", "proxying"} => logs[q] = <<>>
       /\ pc[q] = "relayed" => \/ answer[q] = "upstream" /\ logs[q] = <<>>
                               \/ answer[q] = "502" /\ logs[q] = <<"502">>
  /\ RecordsMatchAnswers

\* What is appended to a short log.
LEMMA ShortLogs ==
  /\ <<>> \in Seq(Status) /\ <<"502">> \in Seq(Status)
  /\ \A s \in Status : Append(<<>>, s) = <<s>> /\ <<s>> \in Seq(Status)
  /\ Append(<<"502">>, "502") = <<"502", "502">> /\ <<"502", "502">> \in Seq(Status)
<1>1. "502" \in Status
  BY DEF Status
<1>2. <<>> \in Seq(Status) /\ <<"502">> \in Seq(Status) /\ <<"502", "502">> \in Seq(Status)
  BY <1>1
<1>3. ASSUME NEW s \in Status PROVE Append(<<>>, s) = <<s>> /\ <<s>> \in Seq(Status)
  OBVIOUS
<1>4. ASSUME NEW s \in Status, NEW t \in Status PROVE Append(<<s>>, t) = <<s, t>>
  <2> DEFINE a == Append(<<s>>, t)
             b == <<s, t>>
  <2>1. a \in Seq(Status) /\ Len(a) = 2 /\ a[1] = s /\ a[2] = t
    <3>1. <<s>> \in Seq(Status) /\ Len(<<s>>) = 1 /\ <<s>>[1] = s
      OBVIOUS
    <3> QED BY <3>1, AppendProperties
  <2>2. b \in Seq(Status) /\ Len(b) = 2 /\ b[1] = s /\ b[2] = t
    OBVIOUS
  <2> HIDE DEF a, b
  <2>3. \A i \in 1 .. Len(a) : a[i] = b[i]
    BY <2>1, <2>2
  <2>4. a = b
    BY <2>1, <2>2, <2>3, SeqEqual
  <2> QED BY <2>4 DEF a, b
<1> QED BY <1>1, <1>2, <1>3, <1>4

LEMMA LogStepKeeps ==
  ASSUME LogInv, [Next]_vars
  PROVE  LogInv'
<1> USE DEF LogInv, Places, RecordsMatchAnswers
<1>1. ASSUME NEW q \in Request, NEW status \in {"404", "503"}, Refuse(q, status),
             pc[q] \in {"accepted", "routed"}
      PROVE  LogInv'
  <2>1. /\ status \in Status /\ status \notin {"aborted", "502"}
        /\ logs' = [logs EXCEPT ![q] = <<status>>]
    BY <1>1, ShortLogs DEF Refuse, Record, Status
  <2> QED BY <1>1, <2>1, ShortLogs DEF Refuse
<1>2. ASSUME UNCHANGED <<answer, logs>>, NEW q \in Request,
             pc[q] \in {"absent", "accepted", "routed", "chosen"},
             NEW to \in {"accepted", "routed", "chosen", "proxying"},
             pc' = [pc EXCEPT ![q] = to]
      PROVE  LogInv'
  BY <1>2
<1>3. ASSUME NEW q \in Request, Accept(q) PROVE LogInv'
  BY <1>2, <1>3 DEF Accept
<1>4. ASSUME NEW q \in Request, FindRoute(q) PROVE LogInv'
  BY <1>1, <1>2, <1>4 DEF FindRoute
<1>5. ASSUME NEW q \in Request, NextNode(q) PROVE LogInv'
  BY <1>1, <1>2, <1>5 DEF NextNode
<1>6. ASSUME NEW q \in Request, IncrConns(q) PROVE LogInv'
  BY <1>2, <1>6 DEF IncrConns
<1>7. ASSUME NEW q \in Request, AccessLog(q) PROVE LogInv'
  <2>1. CASE answer[q] = "upstream"
    <3>1. logs' = [logs EXCEPT ![q] = <<"upstream">>] /\ pc' = [pc EXCEPT ![q] = "done"]
      BY <1>7, <2>1, ShortLogs DEF AccessLog, Record, Leave, Status
    <3> QED BY <1>7, <2>1, <3>1, ShortLogs DEF AccessLog, Status
  <2>2. CASE answer[q] = "502"
    <3>1. logs' = [logs EXCEPT ![q] = <<"502", "502">>] /\ pc' = [pc EXCEPT ![q] = "done"]
      BY <1>7, <2>2, ShortLogs DEF AccessLog, Record, Leave, Status
    <3> QED BY <1>7, <2>2, <3>1, ShortLogs DEF AccessLog
  <2> QED BY <1>7, <2>1, <2>2 DEF AccessLog
<1>8. ASSUME NEW q \in Request, Relay(q) PROVE LogInv'
  BY <1>8 DEF Relay, Status
<1>9. ASSUME NEW q \in Request, ErrorHandler(q) PROVE LogInv'
  <2>1. logs' = [logs EXCEPT ![q] = <<"502">>]
    BY <1>9, ShortLogs DEF ErrorHandler, Record, Status
  <2> QED BY <1>9, <2>1, ShortLogs DEF ErrorHandler, Status
<1>10. ASSUME NEW q \in Request, Abort(q) PROVE LogInv'
  BY <1>10 DEF Abort, Leave, Status
<1>11. ASSUME NEW new \in Table, UpdateRoutes(new) PROVE LogInv'
  BY <1>11 DEF UpdateRoutes, requestVars
<1>12. CASE UNCHANGED <<table, requestVars>>
  BY <1>12 DEF requestVars
<1> QED BY <1>3, <1>4, <1>5, <1>6, <1>7, <1>8, <1>9, <1>10, <1>11, <1>12, StepsOfHandlers

LEMMA LogInvariant == Spec => []LogInv
<1>1. Init => LogInv
  BY ShortLogs DEF Init, LogInv, Places, RecordsMatchAnswers
<1>2. LogInv /\ [Next]_vars => LogInv'
  BY LogStepKeeps
<1> QED BY <1>1, <1>2, PTL DEF Spec

\* A request that has ended is in the access log as often, and with the status,
\* that its way through the handler says, whatever the others do.
THEOREM LogsMatchAnswers == Spec => []RecordsMatchAnswers
<1>1. LogInv => RecordsMatchAnswers
  BY DEF LogInv
<1> QED BY <1>1, LogInvariant, PTL

--------------------------------------------------------------------------------
(* The stop *)

Drained == expired \/ \A q \in Request : ~InFlight(q)

\* Once the listener is closed nothing is accepted, so that what Shutdown has
\* waited for stays so, and only the goroutine that called it stops the checker.
StopInv ==
  /\ stopper \in {"shutdown", "stop", "done"} => server = "closed"
  /\ stopper \in {"stop", "done"} => Drained
  /\ checker = "stopped" => stopper = "done"
  /\ main = "setup" => stopper = "absent"

LEMMA StopStepKeeps ==
  ASSUME StopInv, [Next]_vars
  PROVE  StopInv'
<1> USE DEF StopInv
<1>1. ASSUME UNCHANGED <<server, stopper, checker, main, expired>>,
             \A q \in Request : InFlight(q)' => InFlight(q)
      PROVE  StopInv'
  BY <1>1 DEF Drained
<1>2. ASSUME NEW q \in Request, Accept(q) PROVE StopInv'
  BY <1>2 DEF Accept, processVars
<1>3. ASSUME NEW q \in Request, HandlerStep(q) \/ BackendStep(q) PROVE StopInv'
  <2>1. UNCHANGED processVars /\ InFlight(q)
    BY <1>3 DEF HandlerStep, BackendStep, FindRoute, NextNode, Refuse, IncrConns, AccessLog, Relay,
                ErrorHandler, Abort, InFlight
  <2>2. \E to : pc' = [pc EXCEPT ![q] = to]
    BY <1>3 DEF HandlerStep, BackendStep, FindRoute, NextNode, Refuse, IncrConns, AccessLog, Relay,
                ErrorHandler, Abort, Leave
  <2>3. \A r \in Request : InFlight(r)' => InFlight(r)
    BY <2>1, <2>2 DEF InFlight
  <2> QED BY <1>1, <2>1, <2>3 DEF processVars
<1>4. ASSUME NEW new \in Table, UpdateRoutes(new) PROVE StopInv'
  BY <1>1, <1>4 DEF UpdateRoutes, requestVars, processVars, InFlight
<1>5. ASSUME UNCHANGED pc PROVE \A q \in Request : InFlight(q)' = InFlight(q)
  BY <1>5 DEF InFlight
<1>6. CASE MainStep
  BY <1>5, <1>6 DEF MainStep, Start, ListenAndServe, ServeReturns, Drained, requestVars
<1>7. CASE Notify \/ Shutdown \/ StopChecker
  BY <1>5, <1>7 DEF Notify, Shutdown, StopChecker, Drained, requestVars
<1>8. CASE ShutdownReturns
  BY <1>5, <1>8 DEF ShutdownReturns, Drained, requestVars
<1>9. CASE Signal \/ Expire
  BY <1>5, <1>9 DEF Signal, Expire, Drained, requestVars
<1>10. CASE UNCHANGED vars
  BY <1>1, <1>5, <1>10 DEF vars, processVars, requestVars
<1> QED BY <1>2, <1>3, <1>4, <1>6, <1>7, <1>8, <1>9, <1>10 DEF Next, StopperStep

\* The health checker is not stopped before the requests under way have ended or
\* the deadline has passed, in whatever order main, Shutdown and signals come.
THEOREM CheckerOutlivesRequests == Spec => []CheckedUntilDrained
<1>1. Init => StopInv
  BY DEF Init, StopInv
<1>2. StopInv /\ [Next]_vars => StopInv'
  BY StopStepKeeps
<1>3. StopInv => CheckedUntilDrained
  BY DEF StopInv, CheckedUntilDrained, Drained
<1> QED BY <1>1, <1>2, <1>3, PTL DEF Spec

--------------------------------------------------------------------------------
(* Types *)

ProcessTypeOK ==
  /\ server \in {"new", "listening", "closed"}
  /\ main \in {"setup", "started", "serving", "exited"}
  /\ stopper \in {"absent", "spawned", "waiting", "shutdown", "stop", "done"}
  /\ signal \in BOOLEAN /\ expired \in BOOLEAN
  /\ checker \in {"off", "running", "stopped"}

LEMMA ProcessStepKeeps ==
  ASSUME ProcessTypeOK, [Next]_vars
  PROVE  ProcessTypeOK'
<1> USE DEF ProcessTypeOK
<1>1. CASE UNCHANGED processVars
  BY <1>1 DEF processVars
<1>2. ASSUME NEW q \in Request, Accept(q) \/ HandlerStep(q) \/ BackendStep(q)
      PROVE  UNCHANGED processVars
  BY <1>2 DEF Accept, HandlerStep, BackendStep, FindRoute, NextNode, Refuse, IncrConns, AccessLog,
              Relay, ErrorHandler, Abort
<1>3. CASE \E new \in Table : UpdateRoutes(new)
  BY <1>1, <1>3 DEF UpdateRoutes
<1>4. CASE MainStep
  BY <1>4 DEF MainStep, Start, ListenAndServe, ServeReturns
<1>5. CASE StopperStep
  BY <1>5 DEF StopperStep, Notify, Shutdown, ShutdownReturns, StopChecker
<1>6. CASE Signal \/ Expire
  BY <1>6 DEF Signal, Expire
<1>7. CASE UNCHANGED vars
  BY <1>1, <1>7 DEF vars
<1> QED BY <1>1, <1>2, <1>3, <1>4, <1>5, <1>6, <1>7 DEF Next

\* Every variable keeps its type; in particular ActiveConns never drops below
\* zero.
THEOREM TypeCorrect == Spec => []TypeOK
<1>1. Init => ProcessTypeOK
  BY DEF Init, ProcessTypeOK
<1>2. ProcessTypeOK /\ [Next]_vars => ProcessTypeOK'
  BY ProcessStepKeeps
<1>3. ASSUME ConnsInv PROVE conns \in [Node -> Nat]
  <2>1. ASSUME NEW n \in Node PROVE conns[n] \in Nat
    <3>1. IsFiniteSet(Active(n)) /\ conns[n] = Cardinality(Active(n))
      BY <1>3 DEF ConnsInv
    <3> QED BY <3>1, FS_CardinalityType
  <2> QED BY <1>3, <2>1 DEF ConnsInv
<1>4. HandlerInv /\ ConnsInv /\ LogInv /\ ProcessTypeOK => TypeOK
  BY <1>3 DEF HandlerInv, LogInv, ProcessTypeOK, TypeOK, Places
<1> QED
  BY <1>1, <1>2, <1>4, HandlerInvariant, ConnsInvariant, LogInvariant, PTL DEF Spec
================================================================================
