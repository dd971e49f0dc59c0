--------------------------------- MODULE Gateway ---------------------------------
(***************************************************************************)
(* The gateway process of cmd/main.go: the handler every request runs in   *)
(* (createGatewayHandler) over the route table of pkg/router, and the life *)
(* of the process: main, which serves, and the goroutine that waits for a  *)
(* signal and shuts the server down.                                       *)
(*                                                                         *)
(* The requests considered are those one route matches, when the table has *)
(* it.  A table builds its balancers and its *BackendNode objects anew, so *)
(* a node is the version of its table with the backend's address.  How a   *)
(* balancer picks a node is in RoundRobin and SharedBalancer.              *)
(***************************************************************************)
EXTENDS Integers, Sequences, FiniteSets

CONSTANTS
  Request,
  Address,    \* the backends' addresses
  None,       \* nil: no node, no route, no answer yet
  MaxTables   \* bound on the number of route tables ever built

ASSUME GatewayAssumption == MaxTables \in Nat \ {0}

Node == (1 .. MaxTables) \X Address

\* matches: the table has the route; backends: those the route lists.
Table == [version : 1 .. MaxTables, matches : BOOLEAN, backends : SUBSET Address]

VARIABLES
  table,     \* r.routes
  pc,        \* where each request's handler is
  route,     \* the table its route was found in
  node,      \* the node Next chose
  conns,     \* node.ActiveConns
  answer,    \* what the client was sent: a status, "upstream" for the backend's
             \* own answer, "aborted" for a connection that was cut
  logs,      \* the statuses in the request's access log entries
  server,    \* the http.Server: "new", "listening", "closed" by Shutdown
  main,      \* where main() is
  stopper,   \* where the goroutine that waits for a signal is
  signal,    \* sigCh holds a signal
  expired,   \* the deadline of Shutdown's context has passed
  checker    \* the health checker: "off", "running", "stopped"

requestVars == <<pc, route, node, conns, answer, logs>>
processVars == <<server, main, stopper, signal, expired, checker>>
vars == <<table, requestVars, processVars>>

\* What the response recorder takes for the status, and what the client sees.
Status == {"404", "502", "503", "upstream", "aborted"}

TypeOK ==
  /\ table \in Table
  /\ pc \in [Request -> {"absent", "accepted", "routed", "chosen", "proxying",
                         "relayed", "done"}]
  /\ route \in [Request -> Table \cup {None}]
  /\ node \in [Request -> Node \cup {None}]
  /\ conns \in [Node -> Nat]
  /\ answer \in [Request -> Status \cup {None}]
  /\ logs \in [Request -> Seq(Status)]
  /\ server \in {"new", "listening", "closed"}
  /\ main \in {"setup", "started", "serving", "exited"}
  /\ stopper \in {"absent", "spawned", "waiting", "shutdown", "stop", "done"}
  /\ signal \in BOOLEAN /\ expired \in BOOLEAN
  /\ checker \in {"off", "running", "stopped"}

Init ==
  /\ table \in {t \in Table : t.version = 1}
  /\ pc = [q \in Request |-> "absent"]
  /\ route = [q \in Request |-> None]
  /\ node = [q \in Request |-> None]
  /\ conns = [n \in Node |-> 0]
  /\ answer = [q \in Request |-> None]
  /\ logs = [q \in Request |-> <<>>]
  /\ server = "new"
  /\ main = "setup"
  /\ stopper = "absent"
  /\ signal = FALSE
  /\ expired = FALSE
  /\ checker = "off"

Running == main # "exited"

InFlight(q) == pc[q] \notin {"absent", "done"}

--------------------------------------------------------------------------------
(* A request *)

\* net/http's Serve accepts a connection and runs the handler in a goroutine.
Accept(q) ==
  /\ main = "serving" /\ server = "listening"
  /\ pc[q] = "absent"
  /\ pc' = [pc EXCEPT ![q] = "accepted"]
  /\ UNCHANGED <<table, route, node, conns, answer, logs, processVars>>

\* An entry of the access log, whose level and sampling let it through.
Record(q, status) == logs' = [logs EXCEPT ![q] = Append(@, status)]

\* The handler answers by itself, before it has a node.
Refuse(q, status) ==
  /\ pc' = [pc EXCEPT ![q] = "done"]
  /\ answer' = [answer EXCEPT ![q] = status]
  /\ Record(q, status)
  /\ UNCHANGED <<table, route, node, conns, processVars>>

\* Mutant: the route is looked up in a table kept from earlier.
FindRouteCached(q) ==
  /\ Running /\ pc[q] = "accepted"
  /\ \E v \in 1 .. table.version :
       /\ pc' = [pc EXCEPT ![q] = "routed"]
       /\ route' = [route EXCEPT ![q] = [table EXCEPT !.version = v]]
  /\ UNCHANGED <<table, node, conns, answer, logs, processVars>>

FindRoute(q) ==
  /\ Running /\ pc[q] = "accepted"
  /\ IF ~table.matches
       THEN Refuse(q, "404")
       ELSE /\ pc' = [pc EXCEPT ![q] = "routed"]
            /\ route' = [route EXCEPT ![q] = table]
            /\ UNCHANGED <<table, node, conns, answer, logs, processVars>>

\* route.LB.Next: nil without backends, else one of the route's nodes.
NextNode(q) ==
  /\ Running /\ pc[q] = "routed"
  /\ IF route[q].backends = {}
       THEN Refuse(q, "503")
       ELSE /\ pc' = [pc EXCEPT ![q] = "chosen"]
            /\ \E a \in route[q].backends :
                 node' = [node EXCEPT ![q] = <<route[q].version, a>>]
            /\ UNCHANGED <<table, route, conns, answer, logs, processVars>>

IncrConns(q) ==
  /\ Running /\ pc[q] = "chosen"
  /\ pc' = [pc EXCEPT ![q] = "proxying"]
  /\ conns' = [conns EXCEPT ![node[q]] = @ + 1]
  /\ UNCHANGED <<table, route, node, answer, logs, processVars>>

\* The backend answers; its status passes through the recorder.
Relay(q) ==
  /\ Running /\ pc[q] = "proxying"
  /\ pc' = [pc EXCEPT ![q] = "relayed"]
  /\ answer' = [answer EXCEPT ![q] = "upstream"]
  /\ UNCHANGED <<table, route, node, conns, logs, processVars>>

\* Mutant: the error handler does not write the access log.
ErrorHandlerSilent(q) ==
  /\ Running /\ pc[q] = "proxying"
  /\ pc' = [pc EXCEPT ![q] = "relayed"]
  /\ answer' = [answer EXCEPT ![q] = "502"]
  /\ UNCHANGED <<table, route, node, conns, logs, processVars>>

\* The backend cannot be reached: answered through the recorder, and logged.
ErrorHandler(q) ==
  /\ Running /\ pc[q] = "proxying"
  /\ pc' = [pc EXCEPT ![q] = "relayed"]
  /\ answer' = [answer EXCEPT ![q] = "502"]
  /\ Record(q, "502")
  /\ UNCHANGED <<table, route, node, conns, processVars>>

\* The handler ends: its goroutine's references are gone.
Leave(q) ==
  /\ pc' = [pc EXCEPT ![q] = "done"]
  /\ route' = [route EXCEPT ![q] = None]
  /\ node' = [node EXCEPT ![q] = None]

\* Mutant: DecrConns is called at the end of the handler, not deferred.
AbortLeaks(q) ==
  /\ Running /\ pc[q] = "proxying"
  /\ answer' = [answer EXCEPT ![q] = "aborted"]
  /\ Leave(q)
  /\ UNCHANGED <<table, conns, logs, processVars>>

\* The answer breaks off: the proxy panics with http.ErrAbortHandler, which runs
\* the deferred DecrConns and skips the access log.
Abort(q) ==
  /\ Running /\ pc[q] = "proxying"
  /\ answer' = [answer EXCEPT ![q] = "aborted"]
  /\ conns' = [conns EXCEPT ![node[q]] = @ - 1]
  /\ Leave(q)
  /\ UNCHANGED <<table, logs, processVars>>

\* The entry with the recorder's status, then the deferred DecrConns.
AccessLog(q) ==
  /\ Running /\ pc[q] = "relayed"
  /\ Record(q, answer[q])
  /\ conns' = [conns EXCEPT ![node[q]] = @ - 1]
  /\ Leave(q)
  /\ UNCHANGED <<table, answer, processVars>>

\* The watcher goroutine replaces the table while requests are under way.
UpdateRoutes(new) ==
  /\ Running
  /\ new.version = table.version + 1
  /\ table' = new
  /\ UNCHANGED <<requestVars, processVars>>

--------------------------------------------------------------------------------
(* The process *)

\* main starts the health checker if the configuration asks for it, and the
\* goroutine of the graceful stop.
Start ==
  /\ main = "setup"
  /\ main' = "started"
  /\ stopper' = "spawned"
  /\ checker' \in {"off", "running"}
  /\ UNCHANGED <<table, requestVars, server, signal, expired>>

\* ListenAndServe: the address may be taken, or Shutdown may have come first.
ListenAndServe ==
  /\ main = "started"
  /\ \/ server = "new" /\ main' = "serving" /\ server' = "listening"
     \/ main' = "exited" /\ UNCHANGED server
  /\ UNCHANGED <<table, requestVars, stopper, signal, expired, checker>>

\* Mutant: main waits for the requests under way, without a limit.
ServeReturnsLate ==
  /\ main = "serving" /\ server = "closed" /\ stopper = "done"
  /\ \A q \in Request : ~InFlight(q)
  /\ main' = "exited"
  /\ UNCHANGED <<table, requestVars, server, stopper, signal, expired, checker>>

\* Shutdown closes the listener: ListenAndServe returns ErrServerClosed, main
\* returns, and the process is over with every goroutine in it.
ServeReturns ==
  /\ main = "serving" /\ server = "closed"
  /\ main' = "exited"
  /\ UNCHANGED <<table, requestVars, server, stopper, signal, expired, checker>>

Notify ==
  /\ Running /\ stopper = "spawned"
  /\ stopper' = "waiting"
  /\ UNCHANGED <<table, requestVars, server, main, signal, expired, checker>>

\* SIGINT or SIGTERM: before signal.Notify it kills the process, after that one
\* waits in the channel and further ones are dropped.
Signal ==
  /\ Running /\ ~signal
  /\ IF stopper \in {"absent", "spawned"}
       THEN main' = "exited" /\ UNCHANGED signal
       ELSE signal' = TRUE /\ UNCHANGED main
  /\ UNCHANGED <<table, requestVars, server, stopper, expired, checker>>

\* <-sigCh, and Shutdown as far as closing the listener.
Shutdown ==
  /\ Running /\ stopper = "waiting" /\ signal
  /\ stopper' = "shutdown"
  /\ signal' = FALSE
  /\ server' = "closed"
  /\ UNCHANGED <<table, requestVars, main, expired, checker>>

\* Thirty seconds have passed.
Expire ==
  /\ Running /\ stopper = "shutdown" /\ ~expired
  /\ expired' = TRUE
  /\ UNCHANGED <<table, requestVars, server, main, stopper, signal, checker>>

\* Mutant: the server is closed without waiting.
ShutdownReturnsAtOnce ==
  /\ Running /\ stopper = "shutdown"
  /\ stopper' = "stop"
  /\ UNCHANGED <<table, requestVars, server, main, signal, expired, checker>>

\* Shutdown waits for the requests under way or for its context.
ShutdownReturns ==
  /\ Running /\ stopper = "shutdown"
  /\ expired \/ \A q \in Request : ~InFlight(q)
  /\ stopper' = "stop"
  /\ UNCHANGED <<table, requestVars, server, main, signal, expired, checker>>

\* hc.Stop, also when the checker was never started.
StopChecker ==
  /\ Running /\ stopper = "stop"
  /\ stopper' = "done"
  /\ checker' = IF checker = "running" THEN "stopped" ELSE checker
  /\ UNCHANGED <<table, requestVars, server, main, signal, expired>>

--------------------------------------------------------------------------------

HandlerStep(q) ==
  FindRoute(q) \/ NextNode(q) \/ IncrConns(q) \/ AccessLog(q)
BackendStep(q) == Relay(q) \/ ErrorHandler(q) \/ Abort(q)
MainStep == Start \/ ListenAndServe \/ ServeReturns
StopperStep == Notify \/ Shutdown \/ ShutdownReturns \/ StopChecker

Next ==
  \/ \E q \in Request : Accept(q) \/ HandlerStep(q) \/ BackendStep(q)
  \/ \E new \in Table : UpdateRoutes(new)
  \/ MainStep \/ StopperStep \/ Signal \/ Expire

Spec == Init /\ [][Next]_vars

\* Goroutines that can run do.  Nothing makes a backend answer: the proxy sets no
\* limit on how long it may take.
FairSpec ==
  /\ Spec
  /\ WF_vars(MainStep) /\ WF_vars(StopperStep)
  /\ \A q \in Request : WF_vars(HandlerStep(q))

--------------------------------------------------------------------------------
(* Properties *)

\* A node counts the requests between its IncrConns and its DecrConns, also
\* when its table has been replaced and when the proxy panics: no replaced node
\* keeps a count, and no count goes to the node that took its place.
ConnsMatchHandlers ==
  \A n \in Node :
    conns[n] = Cardinality({q \in Request : pc[q] \in {"proxying", "relayed"} /\ node[q] = n})

\* Once a table is replaced, the requests on it only get fewer: a reload applies
\* to every request that has not been routed.  The others go on with the route
\* they found, and end up on a node of that table and of no other.
OldTablesDrain ==
  [][\A q \in Request :
       /\ route'[q] \in {None, table', route[q]}
       /\ node'[q] # None => node'[q][1] = route'[q].version]_vars

\* What the access log holds of a request that has ended: one entry with the
\* status the client was sent, two when the backend could not be reached, none
\* when the answer broke off.
RecordsMatchAnswers ==
  \A q \in Request : pc[q] = "done" =>
    /\ answer[q] = "aborted" => logs[q] = <<>>
    /\ answer[q] = "502" => logs[q] = <<"502", "502">>
    /\ answer[q] \notin {"aborted", "502"} => logs[q] = <<answer[q]>>

\* The health checker goes on as long as requests may still need it.
CheckedUntilDrained ==
  checker = "stopped" => expired \/ \A q \in Request : ~InFlight(q)

\* A signal that was received ends the process, whatever backends do, and a
\* request is answered or under way at its backend unless the process is gone.
StopsAndServes ==
  /\ signal ~> ~Running
  /\ \A q \in Request : pc[q] = "accepted" ~> pc[q] \in {"proxying", "done"} \/ ~Running

\* PRD.md:72: after a stop signal the process finishes the requests under way
\* before it exits, for as long as the deadline allows.
GracefulStop ==
  ~Running /\ server = "closed" => expired \/ \A q \in Request : ~InFlight(q)

================================================================================
