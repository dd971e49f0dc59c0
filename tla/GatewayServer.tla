----------------------------- MODULE GatewayServer ------------------------------
(***************************************************************************)
(* The gateway as NewGatewayServer (pkg/server/server.go) builds it: the   *)
(* configuration decides which parts there are, and each runs on its own   *)
(* from then on.  The server has no operation that touches two of them, so *)
(* that its steps are the steps of one part with the others as they were.  *)
(*                                                                         *)
(* The parts with a module and a run of their own (the balancers, the      *)
(* circuit breaker, the limiter with its keys, the health checker, the     *)
(* reloads, the handler and the harness) are left out here.  Since parts   *)
(* share nothing, it is enough to follow a few of them at a time: Watched  *)
(* is the sets of parts that are followed together, and a part that is not *)
(* among them stays as it was built.                                       *)
(***************************************************************************)
EXTENDS TokenBucket, ReplayProtection, Authentication, AccessControl, AuditLog,
        AgentFramework, EvolutionBase, RouteTable

CONSTANTS
  Watched,      \* the sets of parts to follow
  Label,        \* the routes that requests are recorded for
  MaxRecorded   \* bound on the requests recorded for one of them

Parts == {"limit", "replay", "auth", "acl", "audit", "agent", "evolution", "routes", "metrics"}

ASSUME GatewayServerAssumption == Watched \subseteq SUBSET Parts

VARIABLES
  followed,   \* the parts of this behaviour
  metrics     \* server.metrics: requests and errors of each route

serverVars == <<followed, metrics, vars, replayVars, authVars, accessVars, auditVars,
                agentVars, evolutionVars, routeVars>>

ServerTypeOK ==
  /\ followed \subseteq Parts
  /\ metrics \in [Label -> {e \in [requests : Nat, errors : Nat] : e.errors <= e.requests}]
  /\ TypeOK
  /\ ReplayTypeOK
  /\ AuthTypeOK
  /\ AccessTypeOK
  /\ AgentTypeOK
  /\ EvolutionTypeOK

--------------------------------------------------------------------------------

Some(S) == CHOOSE x \in S : TRUE

NewMetrics == metrics = [r \in Label |-> [requests |-> 0, errors |-> 0]]

\* The middleware.  What is not followed has one way to begin.
NewMiddleware ==
  /\ Init
  /\ NewReplayProtection /\ ("replay" \notin followed => stamp = [n \in Nonce |-> 0])
  /\ NewAuthMiddleware /\ ("auth" \notin followed => authConfig = Some(AuthConfig))
  /\ NewACL /\ ("acl" \notin followed => blocked = {} /\ StartsAs(Some(AclConfig)))
  /\ NewAuditLog /\ ("audit" \notin followed => auditSize = Some(AuditSizes))

\* The agents and the evolution base.  The configurations given here switch the
\* memories and the strategies on; others come by UpdateConfig.
NewLayers ==
  /\ NewAgentFramework
  /\ "agent" \notin followed => agentConfig = [a \in Agents |-> Some(AgentConfig)]
  /\ NewSelfEvolutionBase
  /\ "evolution" \notin followed => BuiltFrom(Some(EvolutionConfig))

NewGatewayServer ==
  /\ followed \in Watched
  /\ NewMetrics
  /\ NewRouteTable
  /\ NewMiddleware
  /\ NewLayers

\* RecordRequest, under its lock; the sum of the latencies is left out.
RecordRequest ==
  \E r \in Label, failed \in {0, 1} :
    /\ metrics[r].requests < MaxRecorded
    /\ metrics' = [metrics EXCEPT ![r] =
                    [requests |-> @.requests + 1, errors |-> @.errors + failed]]

\* The clean-up goroutine of the nonce table.
ServerCleanup ==
  /\ "replay" \in followed /\ Cleanup
  /\ UNCHANGED <<followed, metrics, vars, authVars, accessVars, auditVars, agentVars,
                 evolutionVars, routeVars>>

ServerStep ==
  \/ /\ "limit" \in followed /\ Next
     /\ UNCHANGED <<followed, metrics, replayVars, authVars, accessVars, auditVars,
                    agentVars, evolutionVars, routeVars>>
  \/ /\ "replay" \in followed /\ ReplayStep
     /\ UNCHANGED <<followed, metrics, vars, authVars, accessVars, auditVars, agentVars,
                    evolutionVars, routeVars>>
  \/ /\ "auth" \in followed /\ AuthStep
     /\ UNCHANGED <<followed, metrics, vars, replayVars, accessVars, auditVars, agentVars,
                    evolutionVars, routeVars>>
  \/ /\ "acl" \in followed /\ AccessStep
     /\ UNCHANGED <<followed, metrics, vars, replayVars, authVars, auditVars, agentVars,
                    evolutionVars, routeVars>>
  \/ /\ "audit" \in followed /\ AuditStep
     /\ UNCHANGED <<followed, metrics, vars, replayVars, authVars, accessVars, agentVars,
                    evolutionVars, routeVars>>
  \/ /\ "agent" \in followed /\ AgentStep
     /\ UNCHANGED <<followed, metrics, vars, replayVars, authVars, accessVars, auditVars,
                    evolutionVars, routeVars>>
  \/ /\ "evolution" \in followed /\ EvolutionStep
     /\ UNCHANGED <<followed, metrics, vars, replayVars, authVars, accessVars, auditVars,
                    agentVars, routeVars>>
  \/ /\ "routes" \in followed /\ RouteStep
     /\ UNCHANGED <<followed, metrics, vars, replayVars, authVars, accessVars, auditVars,
                    agentVars, evolutionVars>>
  \/ /\ "metrics" \in followed /\ RecordRequest
     /\ UNCHANGED <<followed, vars, replayVars, authVars, accessVars, auditVars, agentVars,
                    evolutionVars, routeVars>>

ServerSpec == NewGatewayServer /\ [][ServerStep]_serverVars

\* The ticker of cleanupLoop never stops and a clean-up waits for nothing.
FairServerSpec == ServerSpec /\ WF_serverVars(ServerCleanup)

--------------------------------------------------------------------------------

\* What is bounded stays so: the three lists that drop their oldest entry and the
\* registry that refuses keep to their limits, while limits go up and down and
\* callers store, clear and unregister in any order.  The limit meant is the
\* largest so far: nothing is dropped when a limit is lowered.
KeepsToLimits ==
  /\ AuditHoldsLatest
  /\ HistoryHoldsLatest
  /\ MemoriesHoldLatest
  /\ SkillsWithinLimit
================================================================================
