-------------------------- MODULE GatewayServerProofs ---------------------------
(***************************************************************************)
(* The parts of the gateway keep what they promise, for every value of the *)
(* constants: each property is proved of the part's own specification, and *)
(* a behaviour of the server is a behaviour of each part.                  *)
(***************************************************************************)
EXTENDS GatewayServer, BucketOpsProofs, TLAPS, FiniteSetTheorems, SequenceTheorems,
        WellFoundedInduction

--------------------------------------------------------------------------------
(* The server runs its parts. *)

\* No step of the server touches two parts, so each part takes steps of its own
\* or none.
LEMMA PartsTakeTurns ==
  ASSUME [ServerStep]_serverVars
  PROVE  /\ [Next]_vars
         /\ [ReplayStep]_replayVars /\ [AuthStep]_authVars /\ [AccessStep]_accessVars
         /\ [AuditStep]_auditVars /\ [AgentStep]_agentVars /\ [EvolutionStep]_evolutionVars
         /\ [RouteStep]_routeVars
  BY DEF ServerStep, serverVars

\* A behaviour of the server is one of each of its parts: a token bucket, the nonce table of
\* auth.go, the authentication, the access lists, the audit log, the agents,
\* the evolution base and the route table.
THEOREM ServerRunsItsParts ==
  ServerSpec => /\ Spec /\ ReplaySpec /\ AuthSpec /\ AccessSpec
                /\ AuditSpec /\ AgentSpec /\ EvolutionSpec /\ RouteSpec
<1>1. NewGatewayServer => /\ Init /\ NewReplayProtection /\ NewAuthMiddleware /\ NewACL
                          /\ NewAuditLog /\ NewAgentFramework /\ NewSelfEvolutionBase
                          /\ NewRouteTable
  BY DEF NewGatewayServer, NewMiddleware, NewLayers
<1>2. QED
  BY <1>1, PartsTakeTurns, PTL
     DEF ServerSpec, Spec, ReplaySpec, AuthSpec, AccessSpec, AuditSpec, AgentSpec, EvolutionSpec,
         RouteSpec

--------------------------------------------------------------------------------
(* TokenBucket *)

LEMMA NewBucket ==
  /\ NewTokenBucket(Capacity, Rate) \in Bucket
  /\ Refilled(NewTokenBucket(Capacity, Rate)) = Capacity
  BY NewBucketFull, TokenBucketAssumption

\* WindowBound is not inductive: it says nothing of what the bucket still holds.
\* What it holds and what the window let through together are bounded.
Accounted == Refilled(bucket) + Unit * admitted <= Capacity + Rate * elapsed

LEMMA BucketTypeInit == Init => TypeOK
  BY NewBucket, TokenBucketAssumption DEF Init, TypeOK, NewTokenBucket

LEMMA BucketTypeNext == TypeOK /\ [Next]_vars => TypeOK'
<1> SUFFICES ASSUME TypeOK, [Next]_vars PROVE TypeOK'
  OBVIOUS
<1>1. CASE Allow
  BY <1>1, RefilledAfterAllow DEF Allow, TypeOK
<1>2. CASE Tick
  BY <1>2, RefilledAged, TokenBucketAssumption, SMTT(30) DEF Tick, TypeOK
<1>3. CASE Restart
  BY <1>3, TokenBucketAssumption DEF Restart, TypeOK
<1>4. CASE UNCHANGED vars
  BY <1>4 DEF vars, TypeOK
<1> QED BY <1>1, <1>2, <1>3, <1>4 DEF Next

\* The bucket never holds more than its capacity.
LEMMA BucketTypeInvariant == Spec => []TypeOK
  BY BucketTypeInit, BucketTypeNext, PTL DEF Spec

LEMMA AccountedInit == Init => Accounted
<1> SUFFICES ASSUME Init PROVE Accounted
  OBVIOUS
<1>1. Unit * 0 = 0 /\ Rate * 0 = 0
  BY UnitAssumption, TokenBucketAssumption
<1> QED BY <1>1, NewBucket, TokenBucketAssumption DEF Init, Accounted

LEMMA AccountedNext == TypeOK /\ Accounted /\ [Next]_vars => Accounted'
<1> SUFFICES ASSUME TypeOK, Accounted, [Next]_vars PROVE Accounted'
  OBVIOUS
<1> DEFINE held == Refilled(bucket)
           given == Unit * admitted
           earned == Rate * elapsed
<1>1. /\ bucket \in Bucket /\ bucket.capacity = Capacity /\ bucket.rate = Rate
      /\ held \in Nat /\ held <= Capacity /\ Capacity \in Nat /\ Rate \in Nat
      /\ Unit \in Nat
  BY RefilledType, TokenBucketAssumption, UnitAssumption DEF TypeOK
<1>2. given \in Nat /\ earned \in Nat /\ Unit * (admitted + 1) = given + Unit
      /\ Rate * (elapsed + 1) = earned + Rate
  BY <1>1, Distribute DEF TypeOK
<1>3. held + given <= Capacity + earned
  BY DEF Accounted
<1>4. CASE Allow
  <2>1. Refilled(bucket') = IF HasToken(bucket) THEN held - Unit ELSE held
    BY <1>1, <1>4, RefilledAfterAllow DEF Allow
  <2>2. Unit * admitted' = IF HasToken(bucket) THEN given + Unit ELSE given
    BY <1>2, <1>4 DEF Allow
  <2>3. Rate * elapsed' = earned
    BY <1>4 DEF Allow
  <2> HIDE DEF held, given, earned
  <2>4. Refilled(bucket') + Unit * admitted' = held + given
    BY <1>1, <1>2, <2>1, <2>2
  <2> QED BY <1>3, <2>3, <2>4 DEF Accounted
<1>5. CASE Tick
  <2>1. Refilled(bucket') <= held + Rate /\ Refilled(bucket') \in Nat
    <3>1. Refilled(bucket') = IF held + Rate > Capacity THEN Capacity ELSE held + Rate
      BY <1>1, <1>5, RefilledAged DEF Tick
    <3> HIDE DEF held
    <3> QED BY <1>1, <3>1
  <2>2. Unit * admitted' = given /\ Rate * elapsed' = earned + Rate
    BY <1>2, <1>5 DEF Tick
  <2> HIDE DEF held, given, earned
  <2>3. Refilled(bucket') + given <= Capacity + (earned + Rate)
    BY <1>1, <1>2, <1>3, <2>1
  <2> QED BY <2>2, <2>3 DEF Accounted
<1>6. CASE Restart
  <2>1. Refilled(bucket') = held /\ Unit * admitted' = 0 /\ Rate * elapsed' = 0
    BY <1>1, <1>6 DEF Restart
  <2> HIDE DEF held, given, earned
  <2> QED BY <1>1, <2>1 DEF Accounted
<1>7. CASE UNCHANGED vars
  BY <1>7 DEF vars, Accounted
<1> QED BY <1>4, <1>5, <1>6, <1>7 DEF Next

\* Every window of every bucket: no more requests pass than the capacity and the
\* refill of the window pay for.
LEMMA WindowInvariant == Spec => []WindowBound
<1>1. TypeOK /\ Accounted => WindowBound
  <2> SUFFICES ASSUME TypeOK, Accounted PROVE WindowBound
    OBVIOUS
  <2> DEFINE given == Unit * admitted
             limit == Capacity + Rate * elapsed
             held == Refilled(bucket)
  <2>1. given \in Nat /\ limit \in Nat /\ held \in Nat
    BY Distribute, RefilledType, TokenBucketAssumption, UnitAssumption DEF TypeOK
  <2>2. held + given <= limit
    BY DEF Accounted
  <2> HIDE DEF given, limit, held
  <2>3. given <= limit
    BY <2>1, <2>2
  <2> QED BY <2>3 DEF WindowBound, given, limit
<1> QED BY <1>1, BucketTypeInit, BucketTypeNext, AccountedInit, AccountedNext, PTL DEF Spec

\* The lazy bucket gives the answers of the pool: initial states map to initial
\* states, Allow to Admit or Refuse, Tick to Tick, Restart to a stutter.
LEMMA BucketRefinesPool == Spec => ImplementsPool
<1>1. Init => Pool!Init
  BY NewBucket DEF Init, Pool!Init
<1>2. TypeOK /\ [Next]_vars => [Pool!Next]_(Pool!vars)
  <2> SUFFICES ASSUME TypeOK, [Next]_vars PROVE [Pool!Next]_(Pool!vars)
    OBVIOUS
  <2>1. bucket \in Bucket /\ bucket.capacity = Capacity /\ bucket.rate = Rate
    BY DEF TypeOK
  <2>2. CASE Allow
    <3>1. Refilled(bucket') = IF HasToken(bucket) THEN Refilled(bucket) - Unit
                              ELSE Refilled(bucket)
      BY <2>1, <2>2, RefilledAfterAllow DEF Allow
    <3>2. Refilled(bucket) \in Nat /\ Unit \in Nat
      BY <2>1, RefilledType, UnitAssumption
    <3>3. CASE HasToken(bucket)
      BY <2>2, <3>1, <3>3 DEF Allow, HasToken, Pool!Next, Pool!Admit
    <3>4. CASE ~HasToken(bucket)
      BY <2>2, <3>1, <3>2, <3>4 DEF Allow, HasToken, Pool!Next, Pool!Refuse
    <3> QED BY <3>3, <3>4
  <2>3. CASE Tick
    <3>1. Refilled(bucket') = IF Refilled(bucket) + Rate > Capacity
                              THEN Capacity ELSE Refilled(bucket) + Rate
      BY <2>1, <2>3, RefilledAged DEF Tick
    <3> QED BY <2>3, <3>1 DEF Tick, Pool!Next, Pool!Tick
  <2>4. CASE Restart \/ UNCHANGED vars
    BY <2>4 DEF Restart, vars, Pool!vars
  <2> QED BY <2>2, <2>3, <2>4 DEF Next
<1> QED
  BY <1>1, <1>2, BucketTypeInit, BucketTypeNext, PTL DEF Spec, ImplementsPool, Pool!Spec

--------------------------------------------------------------------------------
(* The lists that drop their oldest entry *)

\* A new latest entry is pushed: the list holds the latest of one more.
LEMMA PushHoldsLatest ==
  ASSUME NEW es \in Seq(Nat), NEW total \in Nat, NEW limit \in Nat,
         NEW least \in Nat, NEW most \in Nat, least <= limit, limit <= most,
         HoldsLatest(es, total, least, most)
  PROVE  /\ Push(es, total + 1, limit) \in Seq(Nat)
         /\ HoldsLatest(Push(es, total + 1, limit), total + 1, least, most)
<1> DEFINE all == Append(es, total + 1)
<1>1. /\ all \in Seq(Nat) /\ Len(all) = Len(es) + 1
      /\ \A i \in 1 .. Len(all) : all[i] = IF i <= Len(es) THEN es[i] ELSE total + 1
  OBVIOUS
<1>2. EndsWith(all, total + 1)
  BY <1>1, SMTT(30) DEF EndsWith, HoldsLatest
<1>3. /\ Tail(all) \in Seq(Nat) /\ Len(Tail(all)) = Len(es)
      /\ \A i \in 1 .. Len(es) : Tail(all)[i] = all[i + 1]
  <2> HIDE DEF all
  <2>1. Len(es) \in Nat /\ all # <<>>
    BY <1>1
  <2>2. QED
    BY <1>1, <2>1, HeadTailProperties
<1> DEFINE rest == Tail(all)
<1>4. EndsWith(rest, total + 1)
  <2>1. rest \in Seq(Nat) /\ Len(rest) = Len(es) /\ Len(all) = Len(es) + 1
    BY <1>1, <1>3
  <2>2. \A i \in 1 .. Len(es) : rest[i] = all[i + 1]
    BY <1>3
  <2> HIDE DEF all, rest
  <2>3. ASSUME NEW i \in 1 .. Len(rest)
        PROVE  rest[i] = total + 1 - Len(rest) + i
    <3>1. Len(es) \in Nat /\ i \in 1 .. Len(es) /\ i + 1 \in 1 .. Len(all)
      BY <2>1
    <3>2. all[i + 1] = total + 1 - Len(all) + (i + 1)
      BY <1>2, <3>1 DEF EndsWith
    <3> QED BY <2>1, <2>2, <3>1, <3>2
  <2> QED BY <2>3 DEF EndsWith
<1> HIDE DEF all
<1>5. Push(es, total + 1, limit) = IF Len(es) + 1 > limit THEN rest ELSE all
  BY DEF Push, all
<1>6. Len(es) \in Nat
  OBVIOUS
<1>7. CASE Len(es) + 1 > limit
  <2>1. rest \in Seq(Nat) /\ Len(rest) = Len(es)
    BY <1>3
  <2> HIDE DEF rest
  <2> QED BY <1>4, <1>5, <1>6, <1>7, <2>1 DEF HoldsLatest
<1>8. CASE ~(Len(es) + 1 > limit)
  BY <1>1, <1>2, <1>5, <1>6, <1>8 DEF HoldsLatest
<1> QED BY <1>7, <1>8

\* An entry is appended whatever the limit: the list is one longer.
LEMMA AppendHoldsLatest ==
  ASSUME NEW es \in Seq(Nat), NEW total \in Nat, NEW least \in Nat, NEW most \in Nat,
         HoldsLatest(es, total, least, most)
  PROVE  /\ Append(es, total + 1) \in Seq(Nat)
         /\ HoldsLatest(Append(es, total + 1), total + 1, least, most + 1)
<1> DEFINE all == Append(es, total + 1)
<1>1. /\ all \in Seq(Nat) /\ Len(all) = Len(es) + 1
      /\ \A i \in 1 .. Len(all) : all[i] = IF i <= Len(es) THEN es[i] ELSE total + 1
  OBVIOUS
<1>2. Len(es) \in Nat
  OBVIOUS
<1>3. EndsWith(all, total + 1)
  BY <1>1 DEF EndsWith, HoldsLatest
<1> HIDE DEF all
<1>4. all \in Seq(Nat) /\ HoldsLatest(all, total + 1, least, most + 1)
  BY <1>1, <1>2, <1>3 DEF HoldsLatest
<1> QED BY <1>4 DEF all

\* Limits that move apart ask less of a list.
LEMMA HoldsLatestWeakens ==
  ASSUME NEW es \in Seq(Nat), NEW total \in Nat, NEW least \in Nat, NEW most \in Nat,
         NEW lower \in Nat, NEW upper \in Nat, lower <= least, most <= upper,
         HoldsLatest(es, total, least, most)
  PROVE  HoldsLatest(es, total, lower, upper)
<1>1. Len(es) \in Nat
  OBVIOUS
<1> QED BY <1>1 DEF HoldsLatest

\* Nothing is held of nothing.
LEMMA EmptyHoldsLatest ==
  ASSUME NEW least \in Nat, NEW most \in Nat
  PROVE  <<>> \in Seq(Nat) /\ HoldsLatest(<<>>, 0, least, most)
  BY DEF HoldsLatest, EndsWith

--------------------------------------------------------------------------------
(* AuditLog *)

AuditInv ==
  /\ auditSize \in Nat /\ audited \in Nat /\ entries \in Seq(Nat)
  /\ AuditHoldsLatest

\* The audit log is the latest entries, as many as fit its size.
LEMMA AuditLogHoldsLatest == AuditSpec => []AuditHoldsLatest
<1>1. NewAuditLog => AuditInv
  BY EmptyHoldsLatest DEF NewAuditLog, AuditInv, AuditHoldsLatest
<1>2. AuditInv /\ [AuditStep]_auditVars => AuditInv'
  <2> SUFFICES ASSUME AuditInv, [AuditStep]_auditVars PROVE AuditInv'
    OBVIOUS
  <2> USE DEF AuditInv, AuditHoldsLatest
  <2>1. CASE Add
    <3>1. /\ Push(entries, audited + 1, auditSize) \in Seq(Nat)
          /\ HoldsLatest(Push(entries, audited + 1, auditSize), audited + 1, auditSize, auditSize)
      BY PushHoldsLatest
    <3> QED BY <2>1, <3>1 DEF Add
  <2>2. CASE UNCHANGED auditVars
    BY <2>2 DEF auditVars
  <2> QED BY <2>1, <2>2 DEF AuditStep
<1>3. QED BY <1>1, <1>2, PTL DEF AuditSpec, AuditInv

--------------------------------------------------------------------------------
(* AgentFramework *)

LEMMA FourAgents ==
  /\ Agents = {"planner", "executor", "validator", "coordinator"}
  /\ Agent[4] = "coordinator"
  /\ \A i \in 1 .. 4 : Agent[i] \in Agents
  BY DEF Agents, Agent

\* The limit that counts is between the extremes that are remembered.
HistoryInv ==
  /\ AgentTypeOK
  /\ limits.least <= agentConfig["coordinator"].limit
  /\ agentConfig["coordinator"].limit <= limits.most
  /\ HistoryHoldsLatest

LEMMA ConfigureKeepsHistory ==
  ASSUME HistoryInv, NEW a \in Agents, NEW c \in AgentConfig, Configure(a, c),
         UNCHANGED <<history, completed>>
  PROVE  /\ agentConfig' \in [Agents -> AgentConfig]
         /\ limits' \in [least : Nat, most : Nat]
         /\ limits'.least <= agentConfig'["coordinator"].limit
         /\ agentConfig'["coordinator"].limit <= limits'.most
         /\ HistoryHoldsLatest'
<1> USE DEF HistoryInv, AgentTypeOK, HistoryHoldsLatest
<1>1. agentConfig' = [agentConfig EXCEPT ![a] = c] /\ c.limit \in Nat
  BY AgentAssumption DEF Configure
<1>2. CASE a # "coordinator"
  BY <1>1, <1>2, FourAgents DEF Configure
<1>3. CASE a = "coordinator"
  <2>1. /\ limits' = [least |-> Smaller(limits.least, c.limit), most |-> Larger(limits.most, c.limit)]
        /\ agentConfig'["coordinator"] = c
    BY <1>1, <1>3, FourAgents DEF Configure
  <2>2. /\ limits'.least \in Nat /\ limits'.least <= limits.least /\ limits'.least <= c.limit
        /\ limits'.most \in Nat /\ limits.most <= limits'.most /\ c.limit <= limits'.most
    BY <1>1, <2>1 DEF Smaller, Larger
  <2>3. HoldsLatest(history, completed, limits'.least, limits'.most)
    BY <2>2, HoldsLatestWeakens
  <2>4. limits' \in [least : Nat, most : Nat]
    BY <2>1, <2>2
  <2> QED BY <1>1, <2>1, <2>2, <2>3, <2>4
<1> QED BY <1>2, <1>3

\* The types, and that the history is the latest completions.
LEMMA HistoryInvariant == AgentSpec => []HistoryInv
<1>1. NewAgentFramework => HistoryInv
  <2> SUFFICES ASSUME NewAgentFramework PROVE HistoryInv
    OBVIOUS
  <2>1. PICK c \in AgentConfig :
          /\ agentConfig = [a \in Agents |-> c]
          /\ limits = [least |-> c.limit, most |-> c.limit]
    BY DEF NewAgentFramework
  <2>2. c.limit \in Nat /\ agentConfig["coordinator"] = c
    BY <2>1, AgentAssumption, FourAgents
  <2>3. NotUpdating \in [to : AgentConfig, given : 0 .. 4]
    BY DEF NotUpdating
  <2>4. AgentTypeOK
    <3>1. agentConfig \in [Agents -> AgentConfig] /\ limits \in [least : Nat, most : Nat]
      BY <2>1, <2>2
    <3>2. history \in Seq(Nat) /\ task \in [Worker -> 0 .. 4] /\ usedBy \in [Worker -> SUBSET AgentConfig]
      BY EmptyHoldsLatest DEF NewAgentFramework
    <3> QED BY <2>3, <3>1, <3>2 DEF NewAgentFramework, AgentTypeOK
  <2>5. HistoryHoldsLatest
    BY <2>1, <2>2, EmptyHoldsLatest DEF NewAgentFramework, HistoryHoldsLatest
  <2> QED BY <2>1, <2>2, <2>4, <2>5 DEF HistoryInv
<1>2. HistoryInv /\ [AgentStep]_agentVars => HistoryInv'
  <2> SUFFICES ASSUME HistoryInv, [AgentStep]_agentVars PROVE HistoryInv'
    OBVIOUS
  <2> USE DEF HistoryInv, AgentTypeOK
  <2>0. NotUpdating \in [to : AgentConfig, given : 0 .. 4]
    BY FourAgents DEF NotUpdating
  <2>1. ASSUME NEW w \in Worker, StartTask(w) PROVE HistoryInv'
    BY <2>1 DEF StartTask, HistoryHoldsLatest
  <2>2. ASSUME NEW w \in Worker, AskAgent(w) PROVE HistoryInv'
    <3>1. task[w] + 1 \in 0 .. 4 /\ agentConfig[Agent[task[w]]] \in AgentConfig
      BY <2>2, FourAgents DEF AskAgent
    <3>2. usedBy' \in [Worker -> SUBSET AgentConfig] /\ task' \in [Worker -> 0 .. 4]
      BY <2>2, <3>1 DEF AskAgent, Witnessed
    <3> QED BY <2>2, <3>2 DEF AskAgent, HistoryHoldsLatest
  <2>3. ASSUME NEW w \in Worker, RecordCompletion(w) PROVE HistoryInv'
    <3> DEFINE c == agentConfig["coordinator"]
    <3>1. c \in AgentConfig /\ c.limit \in Nat
      BY FourAgents, AgentAssumption
    <3>2. usedBy' \in [Worker -> SUBSET AgentConfig] /\ task' \in [Worker -> 0 .. 4]
      BY <2>3, <3>1 DEF RecordCompletion, Witnessed
    <3>3. /\ Push(history, completed + 1, c.limit) \in Seq(Nat)
          /\ HoldsLatest(Push(history, completed + 1, c.limit), completed + 1,
                         limits.least, limits.most)
      BY <3>1, PushHoldsLatest DEF HistoryHoldsLatest
    <3>4. history' \in Seq(Nat) /\ completed' \in Nat /\ HistoryHoldsLatest'
      BY <2>3, <3>3 DEF RecordCompletion, HistoryHoldsLatest
    <3> QED BY <2>3, <3>2, <3>4 DEF RecordCompletion
  <2>4. CASE LockForUpdate
    BY <2>4 DEF LockForUpdate, HistoryHoldsLatest
  <2>5. CASE UpdateAgent
    <3>1. updating.given + 1 \in 1 .. 4 /\ updating.to \in AgentConfig
      BY <2>5 DEF UpdateAgent, WriteLocked
    <3>2. Agent[updating.given + 1] \in Agents
      BY <3>1, FourAgents
    <3>3. updating' \in [to : AgentConfig, given : 0 .. 4]
      <4>1. updating.given + 1 \in 0 .. 4
        BY <3>1
      <4>2. [updating EXCEPT !.given = @ + 1] \in [to : AgentConfig, given : 0 .. 4]
        BY <4>1
      <4> QED BY <2>0, <2>5, <4>2 DEF UpdateAgent
    <3> QED BY <2>5, <3>1, <3>2, <3>3, ConfigureKeepsHistory DEF UpdateAgent
  <2>6. CASE ConfigureDirectly
    <3>1. PICK a \in Agents, c \in AgentConfig : Configure(a, c)
      BY <2>6 DEF ConfigureDirectly
    <3>2. usedBy' \in [Worker -> SUBSET AgentConfig]
      BY <2>6 DEF ConfigureDirectly
    <3> QED BY <2>6, <3>1, <3>2, ConfigureKeepsHistory DEF ConfigureDirectly
  <2>7. CASE UNCHANGED agentVars
    BY <2>7 DEF agentVars, HistoryHoldsLatest
  <2> QED BY <2>1, <2>2, <2>3, <2>4, <2>5, <2>6, <2>7 DEF AgentStep
<1> QED BY <1>1, <1>2, PTL DEF AgentSpec

\* While the framework is not locked for writing its agents have one
\* configuration; while it is, no task is under way and those that have been
\* given the new one have it.
OneInv ==
  ~bypassed =>
    /\ WriteLocked => /\ ~ReadLocked
                      /\ \A i \in 1 .. updating.given : agentConfig[Agent[i]] = updating.to
    /\ ~WriteLocked => \A a, b \in Agents : agentConfig[a] = agentConfig[b]
    /\ \A w \in Worker : task[w] # 0 => \A c \in usedBy[w], a \in Agents : c = agentConfig[a]
    /\ \A w \in Worker, c, d \in AgentConfig : c \in usedBy[w] /\ d \in usedBy[w] => c = d

\* A task is worked on under one configuration.
LEMMA OneInvariant == AgentSpec => []OneConfigurationPerTask
<1>1. NewAgentFramework => OneInv
  BY DEF NewAgentFramework, OneInv, NotUpdating, WriteLocked
<1>2. AgentTypeOK /\ OneInv /\ [AgentStep]_agentVars => OneInv'
  <2> SUFFICES ASSUME AgentTypeOK, OneInv, [AgentStep]_agentVars, ~bypassed' PROVE OneInv'
    BY DEF OneInv
  <2> USE DEF AgentTypeOK
  <2>1. ASSUME NEW w \in Worker, StartTask(w) PROVE OneInv'
    BY <2>1 DEF StartTask, OneInv, WriteLocked, ReadLocked
  <2>2. ASSUME NEW w \in Worker, NEW c \in AgentConfig, NEW a \in Agents,
               task[w] # 0, Witnessed(w, c), c = agentConfig[a], ~bypassed,
               UNCHANGED <<agentConfig, updating, bypassed>>,
               task' \in [Worker -> 0 .. 4],
               \A v \in Worker : task'[v] # 0 => task[v] # 0
        PROVE  OneInv'
    <3>1. ~WriteLocked /\ ~WriteLocked'
      BY <2>2 DEF OneInv, WriteLocked, ReadLocked
    <3>2. \A e \in usedBy[w] : e = c
      BY <2>2 DEF OneInv
    <3>3. usedBy' = [usedBy EXCEPT ![w] = @ \cup {c}]
      BY <2>2 DEF Witnessed
    <3>4. /\ usedBy'[w] = usedBy[w] \cup {c}
          /\ \A v \in Worker : v # w => usedBy'[v] = usedBy[v]
      BY <3>3
    <3>5. \A b, d \in Agents : agentConfig'[b] = agentConfig'[d]
      BY <2>2, <3>1 DEF OneInv
    <3>6. \A v \in Worker : task'[v] # 0 => \A e \in usedBy'[v], b \in Agents : e = agentConfig'[b]
      BY <2>2, <3>2, <3>4, <3>5 DEF OneInv
    <3>7. \A v \in Worker, e, d \in AgentConfig : e \in usedBy'[v] /\ d \in usedBy'[v] => e = d
      BY <2>2, <3>2, <3>4 DEF OneInv
    <3> QED BY <3>1, <3>5, <3>6, <3>7 DEF OneInv
  <2>3. ASSUME NEW w \in Worker, AskAgent(w) PROVE OneInv'
    <3>1. /\ Agent[task[w]] \in Agents /\ ~bypassed
          /\ task' \in [Worker -> 0 .. 4]
          /\ \A v \in Worker : task'[v] # 0 => task[v] # 0
      BY <2>3, FourAgents DEF AskAgent
    <3> QED BY <2>2, <2>3, <3>1 DEF AskAgent
  <2>4. ASSUME NEW w \in Worker, RecordCompletion(w) PROVE OneInv'
    <3>1. /\ "coordinator" \in Agents /\ ~bypassed
          /\ task' \in [Worker -> 0 .. 4]
          /\ \A v \in Worker : task'[v] # 0 => task[v] # 0
      BY <2>4, FourAgents DEF RecordCompletion
    <3> QED BY <2>2, <2>4, <3>1 DEF RecordCompletion
  <2>5. CASE LockForUpdate
    BY <2>5 DEF LockForUpdate, OneInv, WriteLocked, ReadLocked
  <2>6. CASE UpdateAgent
    <3> DEFINE n == updating.given + 1
    <3>1. /\ n \in 1 .. 4 /\ updating.to \in AgentConfig /\ ~ReadLocked /\ ~ReadLocked'
          /\ agentConfig' = [agentConfig EXCEPT ![Agent[n]] = updating.to]
          /\ UNCHANGED <<task, usedBy>>
      BY <2>6 DEF UpdateAgent, WriteLocked, OneInv, Configure, ReadLocked
    <3>2. \A i \in 1 .. n : agentConfig'[Agent[i]] = updating.to
      BY <2>6, <3>1, FourAgents DEF UpdateAgent, WriteLocked, OneInv
    <3>3. CASE n = 4
      <4>1. ~WriteLocked' /\ \A a \in Agents : agentConfig'[a] = updating.to
        <5>1. updating.given = 3
          BY <3>3
        <5>2. ~WriteLocked'
          BY <2>6, <5>1 DEF UpdateAgent, WriteLocked, NotUpdating
        <5>3. \A i \in 1 .. 4 : agentConfig'[Agent[i]] = updating.to
          BY <3>2, <3>3
        <5> QED BY <5>2, <5>3 DEF Agents
      <4> QED BY <2>6, <3>1, <4>1 DEF OneInv, UpdateAgent, ReadLocked
    <3>4. CASE n # 4
      <4>1. updating' = [updating EXCEPT !.given = n]
        BY <2>6, <3>4 DEF UpdateAgent
      <4>2. updating'.given = n /\ updating'.to = updating.to /\ WriteLocked'
        BY <3>1, <3>4, <4>1 DEF WriteLocked
      <4> QED BY <2>6, <3>1, <3>2, <4>2 DEF OneInv, UpdateAgent, ReadLocked
    <3> QED BY <3>3, <3>4
  <2>7. CASE ConfigureDirectly
    BY <2>7 DEF ConfigureDirectly
  <2>8. CASE UNCHANGED agentVars
    BY <2>8 DEF agentVars, OneInv, WriteLocked, ReadLocked
  <2> QED BY <2>1, <2>3, <2>4, <2>5, <2>6, <2>7, <2>8 DEF AgentStep
<1>3. AgentTypeOK /\ OneInv => OneConfigurationPerTask
  BY DEF AgentTypeOK, OneInv, OneConfigurationPerTask
<1>4. HistoryInv => AgentTypeOK
  BY DEF HistoryInv
<1> QED BY <1>1, <1>2, <1>3, <1>4, HistoryInvariant, PTL DEF AgentSpec

--------------------------------------------------------------------------------
(* Authentication *)

\* What is cached is what the validator says, and who looks a token up is one
\* whom the validator would answer.
CacheInv ==
  /\ AuthTypeOK
  /\ \A c \in Credential : cache[c] # Missing => cache[c] = Validate(c)
  /\ \A l \in Login : login[l].step # "idle" =>
       /\ LooksUp(login[l].carries) /\ login[l].carries \in Credential
       /\ login[l].answer = "none"
  /\ CacheIsTransparent

\* A JWT gets the answer of the validator.
LEMMA LookedUpIsValidated ==
  ASSUME NEW c, LooksUp(c)
  PROVE  AuthenticateAtOnce(c) = Validate(c)
  BY DEF LooksUp, AuthenticateAtOnce

LEMMA AnswersAreAnswers ==
  ASSUME NEW c \in Credential \cup {Missing}
  PROVE  AuthenticateAtOnce(c) \in Answer
<1>1. CASE c = Missing
  BY <1>1 DEF AuthenticateAtOnce, Answer
<1>2. CASE c \in Credential
  <2>1. Validate(c) \in Answer
    BY <1>2 DEF Validate, Answer
  <2> QED BY <2>1 DEF AuthenticateAtOnce, Answer
<1> QED BY <1>1, <1>2

\* The cache of tokens makes no difference to any answer.
LEMMA CacheInvariant == AuthSpec => []CacheInv
<1>1. NewAuthMiddleware => CacheInv
  BY DEF NewAuthMiddleware, CacheInv, AuthTypeOK, Answer, CacheIsTransparent
<1>2. CacheInv /\ [AuthStep]_authVars => CacheInv'
  <2> SUFFICES ASSUME CacheInv, [AuthStep]_authVars PROVE CacheInv'
    OBVIOUS
  <2> USE DEF CacheInv, AuthTypeOK
  <2>0. authConfig' = authConfig
    BY DEF AuthStep, Authenticate, LoadToken, ValidateToken, ForgetToken, authVars
  <2>1. \A c : /\ Validate(c)' = Validate(c)
               /\ LooksUp(c)' = LooksUp(c)
               /\ AuthenticateAtOnce(c)' = AuthenticateAtOnce(c)
    BY <2>0 DEF Validate, LooksUp, AuthenticateAtOnce
  <2>2. ASSUME NEW l \in Login, NEW c \in Credential \cup {Missing}, Authenticate(l, c)
        PROVE  CacheInv'
    <3> DEFINE next == IF LooksUp(c) THEN [step |-> "load", carries |-> c, answer |-> "none"]
                       ELSE [step |-> "idle", carries |-> c, answer |-> AuthenticateAtOnce(c)]
    <3>1. login' = [login EXCEPT ![l] = next] /\ cache' = cache
      BY <2>2 DEF Authenticate
    <3>2. /\ next.step \in {"idle", "load"} /\ next.carries = c
          /\ next \in [step : {"idle", "load", "validate"},
                        carries : Credential \cup {Missing}, answer : Answer]
          /\ next.step # "idle" => LooksUp(c) /\ c \in Credential /\ next.answer = "none"
          /\ next.answer # "none" => next.answer = AuthenticateAtOnce(c)
      BY AnswersAreAnswers DEF LooksUp, Answer
    <3> HIDE DEF next
    <3>3. login'[l] = next /\ \A k \in Login : k # l => login'[k] = login[k]
      BY <3>1
    <3> QED BY <2>0, <2>1, <3>1, <3>2, <3>3 DEF CacheIsTransparent
  <2>3. ASSUME NEW l \in Login, LoadToken(l) PROVE CacheInv'
    <3> DEFINE c == login[l].carries
               found == cache[c]
    <3>1. /\ login[l].step = "load" /\ cache' = cache
          /\ login' = [login EXCEPT ![l] =
               IF found = Missing THEN [@ EXCEPT !.step = "validate"]
               ELSE [@ EXCEPT !.step = "idle", !.answer = found]]
      BY <2>3 DEF LoadToken
    <3>2. c \in Credential /\ LooksUp(c)
      BY <3>1
    <3>3. CASE found = Missing
      <4>1. /\ login'[l].step = "validate" /\ login'[l].carries = c
            /\ login'[l].answer = "none"
            /\ \A k \in Login : k # l => login'[k] = login[k]
        BY <3>1, <3>3
      <4>2. AuthTypeOK'
        BY <2>0, <3>1, <3>3
      <4> QED BY <2>0, <2>1, <3>1, <3>2, <4>1, <4>2 DEF CacheIsTransparent
    <3>4. CASE found # Missing
      <4>1. found = AuthenticateAtOnce(c) /\ found \in Answer
        BY <3>2, <3>4, LookedUpIsValidated DEF Answer
      <4>2. /\ login'[l].step = "idle" /\ login'[l].carries = c
            /\ login'[l].answer = found
            /\ \A k \in Login : k # l => login'[k] = login[k]
        BY <3>1, <3>4
      <4>3. AuthTypeOK'
        BY <2>0, <3>1, <3>4, <4>1
      <4> QED BY <2>0, <2>1, <3>1, <3>2, <4>1, <4>2, <4>3 DEF CacheIsTransparent
    <3> QED BY <3>3, <3>4
  <2>4. ASSUME NEW l \in Login, ValidateToken(l) PROVE CacheInv'
    <3> DEFINE c == login[l].carries
    <3>1. /\ login[l].step = "validate"
          /\ login' = [login EXCEPT ![l].step = "idle", ![l].answer = Validate(c)]
          /\ cache' = IF Validate(c) = "refused" THEN cache ELSE [cache EXCEPT ![c] = c]
      BY <2>4 DEF ValidateToken
    <3>2. c \in Credential /\ LooksUp(c) /\ Validate(c) \in Answer
      BY <3>1 DEF Validate, Answer
    <3>3. /\ login'[l].step = "idle" /\ login'[l].carries = c
          /\ login'[l].answer = AuthenticateAtOnce(c)
          /\ \A k \in Login : k # l => login'[k] = login[k]
      BY <3>1, <3>2, LookedUpIsValidated
    <3>4. \A d \in Credential : cache'[d] # Missing => cache'[d] = Validate(d)
      BY <3>1, <3>2 DEF Validate
    <3>5. AuthTypeOK'
      <4>1. cache' \in [Credential -> Credential \cup {Missing}]
        BY <3>1, <3>2
      <4>2. login' \in [Login -> [step : {"idle", "load", "validate"},
                                  carries : Credential \cup {Missing}, answer : Answer]]
        <5> DEFINE next == [login[l] EXCEPT !.step = "idle", !.answer = Validate(c)]
        <5>1. login' = [login EXCEPT ![l] = next]
          BY <3>1
        <5>2. next \in [step : {"idle", "load", "validate"},
                        carries : Credential \cup {Missing}, answer : Answer]
          BY <3>2
        <5> HIDE DEF next
        <5> QED BY <5>1, <5>2
      <4> QED BY <2>0, <4>1, <4>2
    <3> QED BY <2>0, <2>1, <3>3, <3>4, <3>5 DEF CacheIsTransparent
  <2>5. ASSUME NEW c \in Credential, ForgetToken(c) PROVE CacheInv'
    BY <2>0, <2>1, <2>5 DEF ForgetToken, CacheIsTransparent
  <2>6. CASE UNCHANGED authVars
    BY <2>0, <2>1, <2>6 DEF authVars, CacheIsTransparent
  <2> QED BY <2>2, <2>3, <2>4, <2>5, <2>6 DEF AuthStep
<1> QED BY <1>1, <1>2, PTL DEF AuthSpec

--------------------------------------------------------------------------------
(* AccessControl *)

\* A call that is under way has seen what is in force.
DecisionInv ==
  /\ AccessTypeOK
  /\ \A v \in Visitor : visit[v].step # "idle" => InForce(visit[v].asks) \subseteq visit[v].inForce
  /\ DecisionsWereInForce

\* A compiled list has a length.
LEMMA CompiledIsNat ==
  ASSUME NEW c \in AclConfig
  PROVE  Compiled(c.white) \in Nat /\ Compiled(c.black) \in Nat
  BY AccessAssumption DEF Compiled

\* Whatever changes the rules tells the calls under way.
LEMMA WitnessKeeps ==
  ASSUME DecisionInv, Witness,
         aclEnabled' \in BOOLEAN, defaultAllow' \in BOOLEAN, whitelist' \in Nat,
         blacklist' \in Nat, geoEnabled' \in BOOLEAN, blocked' \subseteq Country
  PROVE  DecisionInv'
<1> DEFINE now == [q \in Asks |-> InForce(q)']
<1>1. visit' = [v \in Visitor |->
        IF visit[v].step = "idle" THEN visit[v]
        ELSE [visit[v] EXCEPT !.inForce = @ \cup now[visit[v].asks]]]
  BY DEF Witness
<1>2. \A q \in Asks : now[q] = InForce(q)' /\ now[q] \subseteq {"pass", "refuse", "off"}
  BY DEF InForce
<1> HIDE DEF now
<1>3. ASSUME NEW v \in Visitor
      PROVE  /\ visit'[v] \in Visit /\ visit'[v].step = visit[v].step
             /\ visit[v].step # "idle" => now[visit'[v].asks] \subseteq visit'[v].inForce
             /\ visit[v].step = "idle" => visit'[v] = visit[v]
  <2>1. visit[v] \in Visit /\ now[visit[v].asks] \subseteq {"pass", "refuse", "off"}
    BY <1>2 DEF DecisionInv, AccessTypeOK, Visit
  <2> QED BY <1>1, <2>1 DEF Visit
<1>4. AccessTypeOK'
  <2>1. visit' \in [Visitor -> Visit]
    BY <1>1, <1>3
  <2> QED BY <2>1 DEF AccessTypeOK
<1>5. ASSUME NEW v \in Visitor, visit'[v].step # "idle"
      PROVE  InForce(visit[v].asks)' \subseteq visit'[v].inForce
  <2>1. visit'[v].asks \in Asks /\ now[visit'[v].asks] \subseteq visit'[v].inForce
    BY <1>3, <1>5 DEF Visit
  <2>2. \A q \in Asks : q = visit'[v].asks => now[q] = InForce(visit[v].asks)'
    BY DEF now, InForce, PassesNow, SwitchedOff, AllowedNow, BlockedNow
  <2> QED BY <2>1, <2>2
<1>6. DecisionsWereInForce'
  <2> SUFFICES ASSUME NEW v \in Visitor, visit'[v].step = "idle"
               PROVE  \/ visit'[v].answer \in visit'[v].inForce
                      \/ visit'[v].answer = "refuse" /\ "off" \in visit'[v].inForce
    BY DEF DecisionsWereInForce
  <2>1. visit[v].step = "idle" /\ visit'[v] = visit[v]
    BY <1>3
  <2> QED BY <2>1 DEF DecisionInv, DecisionsWereInForce
<1> QED BY <1>4, <1>5, <1>6 DEF DecisionInv

\* A step of one call leaves the rules, and the other calls, as they are.
LEMMA VisitKeeps ==
  ASSUME DecisionInv, UNCHANGED <<aclState, geoState>>, NEW v \in Visitor, NEW next \in Visit,
         visit' = [visit EXCEPT ![v] = next],
         next.step # "idle" => InForce(next.asks) \subseteq next.inForce,
         next.step = "idle" =>
           next.answer \in next.inForce \/ (next.answer = "refuse" /\ "off" \in next.inForce)
  PROVE  DecisionInv'
<1>1. /\ visit' \in [Visitor -> Visit]
      /\ \A u \in Visitor : visit'[u] = IF u = v THEN next ELSE visit[u]
  BY DEF DecisionInv, AccessTypeOK
<1>2. AccessTypeOK'
  BY <1>1 DEF DecisionInv, AccessTypeOK, aclState, geoState
<1>3. ASSUME NEW u \in Visitor, visit'[u].step # "idle"
      PROVE  InForce(visit[u].asks)' \subseteq visit'[u].inForce
  <2>1. \A q : q = visit'[u].asks => InForce(visit[u].asks)' = InForce(q)
    BY DEF InForce, PassesNow, SwitchedOff, AllowedNow, BlockedNow, aclState, geoState
  <2>2. CASE u = v
    BY <1>1, <1>3, <2>1, <2>2
  <2>3. CASE u # v
    BY <1>1, <1>3, <2>1, <2>3 DEF DecisionInv
  <2> QED BY <2>2, <2>3
<1>4. DecisionsWereInForce'
  <2> SUFFICES ASSUME NEW u \in Visitor, visit'[u].step = "idle"
               PROVE  \/ visit'[u].answer \in visit'[u].inForce
                      \/ visit'[u].answer = "refuse" /\ "off" \in visit'[u].inForce
    BY DEF DecisionsWereInForce
  <2> QED BY <1>1 DEF DecisionInv, DecisionsWereInForce
<1> QED BY <1>2, <1>3, <1>4 DEF DecisionInv

\* Every decision was in force during its call.
LEMMA DecisionInvariant == AccessSpec => []DecisionInv
<1>1. NewACL => DecisionInv
  <2> SUFFICES ASSUME NewACL PROVE DecisionInv
    OBVIOUS
  <2>1. PICK c \in AclConfig : StartsAs(c)
    BY DEF NewACL
  <2>2. whitelist \in Nat /\ blacklist \in Nat
    BY <2>1, CompiledIsNat DEF StartsAs
  <2>3. aclEnabled \in BOOLEAN /\ defaultAllow \in BOOLEAN
    BY <2>1, AccessAssumption DEF StartsAs
  <2>4. /\ visit \in [Visitor -> Visit]
        /\ \A v \in Visitor : visit[v].step = "idle" /\ visit[v].answer \in visit[v].inForce
    BY DEF NewACL, Visit, Asks
  <2> QED BY <2>2, <2>3, <2>4 DEF NewACL, DecisionInv, AccessTypeOK, DecisionsWereInForce
<1>2. DecisionInv /\ [AccessStep]_accessVars => DecisionInv'
  <2> SUFFICES ASSUME DecisionInv, [AccessStep]_accessVars PROVE DecisionInv'
    OBVIOUS
  <2>0. AccessTypeOK
    BY DEF DecisionInv
  <2>1. ASSUME NEW v \in Visitor, NEW q \in Asks, Call(v, q) PROVE DecisionInv'
    <3> DEFINE next == [step |-> "enabled", asks |-> q, answer |-> "refuse", inForce |-> InForce(q)]
    <3>1. next \in Visit
      BY DEF Visit, InForce
    <3> QED BY <2>1, <3>1, VisitKeeps DEF Call
  <2>2. ASSUME NEW v \in Visitor, ReadEnabledFlag(v) PROVE DecisionInv'
    <3>1. /\ visit[v] \in Visit /\ visit[v].step = "enabled"
          /\ InForce(visit[v].asks) \subseteq visit[v].inForce
      BY <2>0, <2>2 DEF ReadEnabledFlag, AccessTypeOK, DecisionInv
    <3>2. CASE SwitchedOff(visit[v].asks)
      <4> DEFINE next == [visit[v] EXCEPT !.step = "idle", !.answer = "pass"]
      <4>1. PassesNow(visit[v].asks)
        BY <3>2 DEF SwitchedOff, PassesNow, AllowedNow, BlockedNow
      <4>2. "pass" \in visit[v].inForce
        BY <3>1, <4>1 DEF InForce
      <4>3. next \in Visit /\ next.step = "idle" /\ next.answer \in next.inForce
        BY <3>1, <4>2 DEF Visit
      <4> QED BY <2>2, <3>2, <4>3, VisitKeeps DEF ReadEnabledFlag
    <3>3. CASE ~SwitchedOff(visit[v].asks)
      <4> DEFINE next == [visit[v] EXCEPT !.step = "rules"]
      <4>1. /\ next \in Visit /\ next.step = "rules" /\ next.asks = visit[v].asks
            /\ next.inForce = visit[v].inForce
        BY <3>1 DEF Visit
      <4> QED BY <2>2, <3>1, <3>3, <4>1, VisitKeeps DEF ReadEnabledFlag
    <3> QED BY <3>2, <3>3
  <2>3. ASSUME NEW v \in Visitor, ReadRules(v) PROVE DecisionInv'
    <3> DEFINE q == visit[v].asks
               passes == IF q = "address" THEN ByRules(whitelist, blacklist, defaultAllow)
                         ELSE q \notin blocked
               answer_ == IF passes THEN "pass" ELSE "refuse"
               next == [visit[v] EXCEPT !.step = "idle", !.answer = answer_]
    <3>1. /\ visit[v] \in Visit /\ visit[v].step = "rules" /\ InForce(q) \subseteq visit[v].inForce
          /\ visit' = [visit EXCEPT ![v].step = "idle", ![v].answer = answer_]
      BY <2>0, <2>3 DEF ReadRules, AccessTypeOK, DecisionInv
    <3>2. ~SwitchedOff(q) => (PassesNow(q) <=> passes)
      BY DEF SwitchedOff, PassesNow, AllowedNow, BlockedNow
    <3>3. SwitchedOff(q) => PassesNow(q)
      BY DEF SwitchedOff, PassesNow, AllowedNow, BlockedNow
    <3> HIDE DEF passes
    <3>4. answer_ \in InForce(q) \/ (answer_ = "refuse" /\ "off" \in InForce(q))
      BY <3>2, <3>3 DEF InForce
    <3>5. answer_ \in {"pass", "refuse"}
      OBVIOUS
    <3> HIDE DEF answer_
    <3>6. /\ next \in Visit /\ next.step = "idle" /\ next.answer = answer_
          /\ next.inForce = visit[v].inForce
      BY <3>1, <3>5 DEF Visit
    <3>7. visit' = [visit EXCEPT ![v] = next]
      BY <3>1
    <3> HIDE DEF next
    <3> QED BY <2>3, <3>1, <3>4, <3>6, <3>7, VisitKeeps DEF ReadRules
  <2>4. CASE UpdateACL
    <3>1. PICK c \in AclConfig :
            /\ aclEnabled' = c.enabled /\ defaultAllow' = c.allow
            /\ whitelist' = Compiled(c.white) /\ blacklist' = Compiled(c.black)
      BY <2>4 DEF UpdateACL
    <3>2. whitelist' \in Nat /\ blacklist' \in Nat
      BY <3>1, CompiledIsNat
    <3> QED BY <2>0, <2>4, <3>1, <3>2, AccessAssumption, WitnessKeeps
            DEF UpdateACL, geoState, AccessTypeOK
  <2>5. CASE AddRule
    BY <2>0, <2>5, WitnessKeeps DEF AddRule, geoState, AccessTypeOK
  <2>6. CASE RemoveRule
    BY <2>0, <2>6, WitnessKeeps DEF RemoveRule, geoState, AccessTypeOK
  <2>7. CASE SetGeoEnabled
    BY <2>0, <2>7, WitnessKeeps DEF SetGeoEnabled, aclState, AccessTypeOK
  <2>8. ASSUME NEW country \in Country, SetBlocked(country) PROVE DecisionInv'
    BY <2>0, <2>8, WitnessKeeps DEF SetBlocked, aclState, AccessTypeOK
  <2>9. CASE UNCHANGED accessVars
    BY <2>9 DEF accessVars, aclState, geoState, DecisionInv, AccessTypeOK, InForce, PassesNow,
                SwitchedOff, AllowedNow, BlockedNow, DecisionsWereInForce
  <2> QED BY <2>1, <2>2, <2>3, <2>4, <2>5, <2>6, <2>7, <2>8, <2>9 DEF AccessStep
<1> QED BY <1>1, <1>2, PTL DEF AccessSpec

--------------------------------------------------------------------------------
(* ReplayProtection *)

\* n is a request that nobody has taken before its timestamp.
Punctual(n) == n \in Nonce /\ n \notin ahead

\* A record of such a request is no older than its timestamp, and so is the time
\* a call has read; an accepted one is recorded as long as it has not expired;
\* what is about to be deleted is of a request that has.
ReplayInv ==
  /\ ReplayTypeOK
  /\ \A n \in Nonce : Punctual(n) /\ seen[n] # Unseen => seen[n] >= stamp[n]
  /\ \A s \in Sender : check[s].step # "idle" /\ Punctual(check[s].nonce) =>
       check[s].at >= stamp[check[s].nonce]
  /\ \A n \in accepted : Punctual(n) /\ ~Expired(n) => seen[n] # Unseen
  /\ \A n \in doomed : Punctual(n) => Expired(n)
  /\ expiry <= clock - Window
  /\ \A s \in Sender : check[s].again => check[s].nonce \in accepted
  /\ AcceptedOnce

LEMMA NoCheckIsCheck == NoCheck \in Check /\ NoCheck.step = "idle" /\ ~NoCheck.again
  BY ReplayAssumption DEF NoCheck, Check

\* A request that was accepted is not accepted by a later call.
LEMMA ReplayInvariant == ReplaySpec => []ReplayInv
<1>1. NewReplayProtection => ReplayInv
  BY NoCheckIsCheck, ReplayAssumption
     DEF NewReplayProtection, ReplayInv, ReplayTypeOK, Punctual, AcceptedOnce, Unseen
<1>2. ReplayInv /\ [ReplayStep]_replayVars => ReplayInv'
  <2> SUFFICES ASSUME ReplayInv, [ReplayStep]_replayVars PROVE ReplayInv'
    OBVIOUS
  <2> USE ReplayAssumption DEF ReplayInv, ReplayTypeOK
  <2>0. \A s \in Sender : check[s] \in Check
    OBVIOUS
  <2>1. ASSUME NEW s \in Sender, NEW n \in Nonce, BeginCheck(s, n) PROVE ReplayInv'
    <3> DEFINE next == [step |-> "load", nonce |-> n, at |-> clock,
                        again |-> n \in accepted, late |-> FALSE]
    <3>1. /\ check' = [check EXCEPT ![s] = next] /\ ~Expired(n)
          /\ ahead' = IF stamp[n] > clock THEN ahead \cup {n} ELSE ahead
          /\ UNCHANGED <<clock, stamp, seen, unvisited, expiry, doomed, accepted>>
      BY <2>1 DEF BeginCheck
    <3>2. /\ next \in Check /\ next.step = "load" /\ next.nonce = n /\ next.at = clock
          /\ next.again => n \in accepted
      <4>1. clock \in 0 .. MaxTime
        OBVIOUS
      <4>2. \A b \in BOOLEAN :
              LET r == [step |-> "load", nonce |-> n, at |-> clock, again |-> b, late |-> FALSE]
              IN  r \in Check /\ r.step = "load" /\ r.nonce = n /\ r.at = clock /\ r.again = b
        BY <4>1 DEF Check
      <4>3. (n \in accepted) \in BOOLEAN
        OBVIOUS
      <4>4. /\ next \in Check /\ next.step = "load" /\ next.nonce = n /\ next.at = clock
            /\ next.again = (n \in accepted)
        BY <4>2, <4>3, Zenon
      <4> QED BY <4>4
    <3> HIDE DEF next
    <3>3. check' \in [Sender -> Check] /\ \A r \in Sender : check'[r] = IF r = s THEN next ELSE check[r]
      BY <3>1, <3>2
    <3>4. ahead \subseteq ahead' /\ ahead' \subseteq Nonce
      BY <3>1
    <3>5. Punctual(n)' => clock >= stamp[n]
      BY <3>1 DEF Punctual
    <3>6. \A m \in Nonce : Punctual(m)' => Punctual(m)
      BY <3>4 DEF Punctual
    <3>7. \A m \in Nonce : Expired(m)' = Expired(m)
      BY <3>1 DEF Expired
    <3>8. ReplayTypeOK'
      BY <3>1, <3>3, <3>4
    <3>9. \A r \in Sender : check'[r].step # "idle" /\ check'[r].nonce \notin ahead' =>
            check'[r].at >= stamp'[check'[r].nonce]
      BY <2>0, <3>1, <3>2, <3>3, <3>4, <3>5 DEF Punctual, Check
    <3>10. AcceptedOnce'
      BY <3>2, <3>3, <3>4 DEF AcceptedOnce
    <3> QED BY <3>1, <3>2, <3>3, <3>4, <3>6, <3>7, <3>8, <3>9, <3>10 DEF Punctual, Expired
  <2>2. ASSUME NEW s \in Sender, LoadNonce(s) PROVE ReplayInv'
    <3> DEFINE n == check[s].nonce
               next == IF seen[n] # Unseen THEN NoCheck
                       ELSE [check[s] EXCEPT !.step = "store", !.late = Expired(n)]
    <3>1. /\ check[s].step = "load" /\ check' = [check EXCEPT ![s] = next]
          /\ UNCHANGED <<clock, stamp, seen, unvisited, expiry, doomed, accepted, ahead>>
      BY <2>2 DEF LoadNonce
    <3>2. n \in Nonce /\ Expired(n) \in BOOLEAN
      BY <2>0 DEF Check, Expired
    <3>3. /\ next \in Check
          /\ next.step # "idle" => next.nonce = n /\ next.at = check[s].at
          /\ next.again => next.nonce \in accepted
      BY <2>0, <3>2, NoCheckIsCheck DEF Check
    <3>4. next.step = "store" /\ next.again => next.late \/ next.nonce \in ahead
      <4>1. CASE seen[n] # Unseen
        BY <4>1, NoCheckIsCheck
      <4>2. CASE seen[n] = Unseen
        <5>1. next.nonce = n /\ (next.late <=> Expired(n)) /\ (next.again => n \in accepted)
          BY <2>0, <3>2, <4>2 DEF Check
        <5> QED BY <3>2, <4>2, <5>1 DEF Punctual
      <4> QED BY <4>1, <4>2
    <3> HIDE DEF next
    <3>5. check' \in [Sender -> Check] /\ \A r \in Sender : check'[r] = IF r = s THEN next ELSE check[r]
      BY <3>1, <3>3
    <3>6. \A r \in Sender : check'[r].step # "idle" /\ check'[r].nonce \notin ahead =>
            check'[r].at >= stamp[check'[r].nonce]
      BY <2>0, <3>1, <3>2, <3>3, <3>5 DEF Punctual, Check
    <3>7. AcceptedOnce'
      BY <3>1, <3>4, <3>5 DEF AcceptedOnce
    <3>8. \A r \in Sender : check'[r].again => check'[r].nonce \in accepted
      BY <3>3, <3>5
    <3> QED BY <3>1, <3>5, <3>6, <3>7, <3>8 DEF Punctual, Expired
  <2>3. ASSUME NEW s \in Sender, StoreNonce(s) PROVE ReplayInv'
    <3> DEFINE n == check[s].nonce
    <3>1. /\ check[s].step = "store" /\ seen' = [seen EXCEPT ![n] = check[s].at]
          /\ check' = [check EXCEPT ![s] = NoCheck]
          /\ accepted' \in {accepted, accepted \cup {n}}
          /\ UNCHANGED <<clock, stamp, unvisited, expiry, doomed, ahead>>
      BY <2>3 DEF StoreNonce
    <3>2. n \in Nonce /\ check[s].at \in 0 .. MaxTime
      BY <2>0 DEF Check
    <3>3. check' \in [Sender -> Check] /\ \A r \in Sender : check'[r] = IF r = s THEN NoCheck ELSE check[r]
      BY <3>1, NoCheckIsCheck
    <3>4. /\ seen' \in [Nonce -> {Unseen} \cup 0 .. MaxTime] /\ seen'[n] # Unseen
          /\ \A m \in Nonce : m # n => seen'[m] = seen[m]
          /\ Punctual(n) => seen'[n] >= stamp[n]
      BY <3>1, <3>2 DEF Unseen
    <3>5. accepted \subseteq accepted' /\ accepted' \subseteq accepted \cup {n}
      BY <3>1
    <3>6. AcceptedOnce'
      BY <3>1, <3>3, NoCheckIsCheck DEF AcceptedOnce
    <3>7. \A r \in Sender : check'[r].again => check'[r].nonce \in accepted'
      BY <3>3, <3>5, NoCheckIsCheck
    <3>8. \A r \in Sender : check'[r].step # "idle" /\ check'[r].nonce \notin ahead =>
            check'[r].at >= stamp[check'[r].nonce]
      BY <2>0, <3>3, NoCheckIsCheck DEF Punctual, Check
    <3>9. \A m \in accepted' : m \notin ahead /\ ~Expired(m) => seen'[m] # Unseen
      BY <3>2, <3>4, <3>5 DEF Punctual
    <3> QED BY <3>1, <3>2, <3>3, <3>4, <3>5, <3>6, <3>7, <3>8, <3>9 DEF Punctual, Expired
  <2>4. CASE CleanupStart
    <3>1. /\ expiry' = clock - Window /\ unvisited' \subseteq Nonce
          /\ UNCHANGED <<clock, stamp, seen, check, doomed, accepted, ahead>>
      BY <2>4 DEF CleanupStart
    <3>2. expiry' \in -Window .. MaxTime /\ expiry' <= clock - Window
      BY <3>1
    <3> QED BY <3>1, <3>2 DEF Punctual, Expired, AcceptedOnce
  <2>5. ASSUME NEW n \in Nonce, CleanupVisit(n) PROVE ReplayInv'
    <3>1. /\ unvisited' \subseteq Nonce
          /\ doomed' = IF seen[n] # Unseen /\ seen[n] < expiry THEN {n} ELSE {}
          /\ UNCHANGED <<clock, stamp, seen, check, expiry, accepted, ahead>>
      BY <2>5 DEF CleanupVisit
    <3>2. \A m \in doomed' : Punctual(m) => Expired(m)
      BY <3>1 DEF Expired, Unseen
    <3> QED BY <3>1, <3>2 DEF Punctual, Expired, AcceptedOnce
  <2>6. CASE CleanupDelete
    <3>1. /\ seen' = [n \in Nonce |-> IF n \in doomed THEN Unseen ELSE seen[n]] /\ doomed' = {}
          /\ UNCHANGED <<clock, stamp, check, unvisited, expiry, accepted, ahead>>
      BY <2>6 DEF CleanupDelete
    <3>2. seen' \in [Nonce -> {Unseen} \cup 0 .. MaxTime]
      BY <3>1
    <3>3. \A n \in accepted : Punctual(n) /\ ~Expired(n) => seen'[n] # Unseen
      BY <3>1
    <3> QED BY <3>1, <3>2, <3>3 DEF Punctual, Expired, AcceptedOnce
  <2>7. CASE Second
    <3>1. /\ clock' = clock + 1 /\ clock' \in 0 .. MaxTime
          /\ UNCHANGED <<stamp, seen, check, unvisited, expiry, doomed, accepted, ahead>>
      BY <2>7 DEF Second
    <3>2. \A n \in Nonce : Expired(n) => Expired(n)'
      BY <3>1 DEF Expired
    <3>3. expiry' <= clock' - Window
      BY <3>1
    <3> QED BY <3>1, <3>2, <3>3 DEF Punctual, Expired, AcceptedOnce
  <2>8. CASE UNCHANGED replayVars
    BY <2>8 DEF replayVars, Punctual, Expired, AcceptedOnce
  <2> QED BY <2>1, <2>2, <2>3, <2>4, <2>5, <2>6, <2>7, <2>8 DEF ReplayStep, Cleanup
<1> QED BY <1>1, <1>2, PTL DEF ReplaySpec

--------------------------------------------------------------------------------
(* EvolutionBase *)

Bases == [by : {"nobody", "evolve", "skills", "memories", "strategies"}, to : EvolutionConfig]

\* The limit of the memories is one of those memoryLimits spans.
MemoryInv ==
  /\ base \in Bases
  /\ memories \in Seq(Nat) /\ stored \in Nat /\ lessons \in Nat
  /\ memoryLimits \in [least : Nat, most : Nat]
  /\ memoryConfig.limit \in memoryLimits.least .. memoryLimits.most
  /\ MemoriesHoldLatest

LEMMA FreeIsAConfiguration ==
  ASSUME EvolutionConfig # {}
  PROVE  Free.by = "nobody" /\ Free \in Bases
  BY DEF Free, Bases

\* Remember keeps the memories the latest entries, lessons over and above.
LEMMA RememberKeeps ==
  ASSUME MemoryInv, NEW isLesson \in BOOLEAN, Remember(isLesson, memoryConfig.limit)
  PROVE  /\ memories' \in Seq(Nat) /\ stored' \in Nat /\ lessons' \in Nat
         /\ HoldsLatest(memories', stored', memoryLimits.least, memoryLimits.most + lessons')
<1> USE DEF MemoryInv, MemoriesHoldLatest
<1> DEFINE most == memoryLimits.most + lessons
<1>1. /\ memoryLimits.least \in Nat /\ most \in Nat /\ memoryConfig.limit \in Nat
      /\ memoryLimits.least <= memoryConfig.limit /\ memoryConfig.limit <= most
      /\ stored' = stored + 1 /\ stored' \in Nat
  BY DEF Remember
<1>2. HoldsLatest(memories, stored, memoryLimits.least, most)
  OBVIOUS
<1>3. CASE isLesson
  <2>1. memories' = Append(memories, stored + 1) /\ lessons' = lessons + 1
    BY <1>3 DEF Remember
  <2>2. lessons' \in Nat /\ memoryLimits.most + lessons' = most + 1
    BY <2>1
  <2> HIDE DEF most
  <2> QED BY <1>1, <1>2, <2>1, <2>2, AppendHoldsLatest
<1>4. CASE ~isLesson
  <2>1. memories' = Push(memories, stored + 1, memoryConfig.limit) /\ lessons' = lessons
    BY <1>4 DEF Remember
  <2>2. memoryLimits.most + lessons' = most
    BY <2>1
  <2> HIDE DEF most
  <2> QED BY <1>1, <1>2, <2>1, <2>2, PushHoldsLatest
<1> QED BY <1>3, <1>4

\* The memories are the latest entries, whatever the limits and whoever stores.
LEMMA MemoryInvariant == EvolutionSpec => []MemoryInv
<1>1. NewSelfEvolutionBase => MemoryInv
  <2> SUFFICES ASSUME NewSelfEvolutionBase PROVE MemoryInv
    OBVIOUS
  <2>1. PICK c \in EvolutionConfig : BuiltFrom(c)
    BY DEF NewSelfEvolutionBase
  <2>2. /\ memoryLimits = [least |-> c.memory.limit, most |-> c.memory.limit]
        /\ memoryConfig.limit = c.memory.limit /\ c.memory.limit \in Nat
    BY <2>1, EvolutionAssumption DEF BuiltFrom
  <2>3. memories = <<>> /\ stored = 0 /\ lessons = 0 /\ base \in Bases
    BY FreeIsAConfiguration DEF NewSelfEvolutionBase
  <2> QED BY <2>2, <2>3, EmptyHoldsLatest DEF MemoryInv, MemoriesHoldLatest
<1>2. MemoryInv /\ [EvolutionStep]_evolutionVars => MemoryInv'
  <2> SUFFICES ASSUME MemoryInv, [EvolutionStep]_evolutionVars PROVE MemoryInv'
    OBVIOUS
  <2>1. ASSUME NEW isLesson \in BOOLEAN, Remember(isLesson, memoryConfig.limit),
               UNCHANGED <<memoryConfig, memoryLimits>>, base' \in Bases
        PROVE  MemoryInv'
    BY <2>1, RememberKeeps DEF MemoryInv, MemoriesHoldLatest
  <2>2. ASSUME NEW c \in EvolutionConfig, ConfigureMemories(c), UNCHANGED memoryVars,
               base' \in Bases
        PROVE  MemoryInv'
    <3> DEFINE least == memoryLimits.least
               most == memoryLimits.most + lessons
               lower == Smaller(memoryLimits.least, c.memory.limit)
               upper == Larger(memoryLimits.most, c.memory.limit)
    <3>1. c.memory.limit \in Nat /\ least \in Nat /\ most \in Nat /\ memoryLimits.most \in Nat
      BY EvolutionAssumption DEF MemoryInv
    <3>2. /\ lower \in Nat /\ upper \in Nat /\ lower <= least /\ most <= upper + lessons
          /\ upper + lessons \in Nat /\ c.memory.limit \in lower .. upper
      BY <3>1, SMTT(30) DEF MemoryInv, Smaller, Larger
    <3>3. /\ memoryConfig' = c.memory /\ memoryLimits' = [least |-> lower, most |-> upper]
          /\ UNCHANGED <<memories, stored, lessons>>
      BY <2>2 DEF ConfigureMemories, memoryVars
    <3>4. HoldsLatest(memories, stored, least, most)
      BY DEF MemoryInv, MemoriesHoldLatest
    <3> HIDE DEF least, most, lower, upper
    <3>5. HoldsLatest(memories, stored, lower, upper + lessons)
      BY <3>1, <3>2, <3>4, HoldsLatestWeakens DEF MemoryInv
    <3> QED BY <2>2, <3>2, <3>3, <3>5 DEF MemoryInv, MemoriesHoldLatest
  <2>3. ASSUME UNCHANGED <<memoryVars, memoryConfig, memoryLimits>>, base' \in Bases
        PROVE  MemoryInv'
    BY <2>3 DEF MemoryInv, MemoriesHoldLatest, memoryVars
  <2>4. EvolutionConfig # {} /\ base \in Bases /\ base.to \in EvolutionConfig
    BY DEF MemoryInv, Bases
  <2>5. CASE EvolveStore
    <3>1. base' \in Bases
      BY <2>4, <2>5, FreeIsAConfiguration DEF EvolveStore, Bases
    <3> QED BY <2>1, <2>3, <2>5, <3>1 DEF EvolveStore
  <2>6. CASE EvolveOptimize
    BY <2>3, <2>4, <2>6, FreeIsAConfiguration DEF EvolveOptimize
  <2>7. CASE BeginUpdate
    BY <2>3, <2>7 DEF BeginUpdate, Bases
  <2>8. CASE UpdatePart
    <3>1. base' \in Bases
      BY <2>4, <2>8, FreeIsAConfiguration DEF UpdatePart, Bases
    <3>2. CASE base.by = "skills" /\ ConfigureSkills(base.to)
      BY <2>3, <2>8, <3>1, <3>2 DEF UpdatePart, ConfigureSkills
    <3>3. CASE base.by = "memories" /\ ConfigureMemories(base.to)
      BY <2>2, <2>4, <2>8, <3>1, <3>3 DEF UpdatePart
    <3>4. CASE base.by = "strategies" /\ ConfigureStrategies(base.to)
      BY <2>3, <2>8, <3>1, <3>4 DEF UpdatePart, ConfigureStrategies
    <3> QED BY <2>8, <3>2, <3>3, <3>4 DEF UpdatePart
  <2>9. CASE ConfigurePart
    BY <2>2, <2>3, <2>4, <2>9 DEF ConfigurePart, ConfigureSkills, ConfigureStrategies
  <2>10. CASE Store
    BY <2>1, <2>4, <2>10 DEF Store
  <2>11. CASE Clear
    <3>1. MemoryInv' <=> /\ base \in Bases
                         /\ <<>> \in Seq(Nat) /\ 0 \in Nat
                         /\ memoryLimits \in [least : Nat, most : Nat]
                         /\ memoryConfig.limit \in memoryLimits.least .. memoryLimits.most
                         /\ HoldsLatest(<<>>, 0, memoryLimits.least, memoryLimits.most + 0)
      BY <2>11 DEF Clear, MemoryInv, MemoriesHoldLatest
    <3>2. memoryLimits.least \in Nat /\ memoryLimits.most + 0 \in Nat
      BY DEF MemoryInv
    <3> QED BY <3>1, <3>2, EmptyHoldsLatest DEF MemoryInv
  <2>12. ASSUME NEW s \in Skill, Register(s) \/ Unregister(s) PROVE MemoryInv'
    BY <2>3, <2>4, <2>12 DEF Register, Unregister
  <2>13. ASSUME NEW s \in Strategy, RegisterStrategy(s) PROVE MemoryInv'
    BY <2>3, <2>4, <2>13 DEF RegisterStrategy
  <2>14. CASE UNCHANGED evolutionVars
    BY <2>3, <2>4, <2>14 DEF evolutionVars, memoryVars
  <2> QED BY <2>5, <2>6, <2>7, <2>8, <2>9, <2>10, <2>11, <2>12, <2>13, <2>14 DEF EvolutionStep
<1> QED BY <1>1, <1>2, PTL DEF EvolutionSpec

\* The registry's present limit is no larger than the largest so far.
SkillInv ==
  /\ base \in Bases
  /\ skillConfig.limit \in Nat /\ skillLimit \in Nat /\ skillConfig.limit <= skillLimit
  /\ IsFiniteSet(skills)
  /\ SkillsWithinLimit

\* The registry is never over the largest limit it has had.
LEMMA SkillInvariant == EvolutionSpec => []SkillInv
<1>1. NewSelfEvolutionBase => SkillInv
  <2> SUFFICES ASSUME NewSelfEvolutionBase PROVE SkillInv
    OBVIOUS
  <2>1. PICK c \in EvolutionConfig : BuiltFrom(c)
    BY DEF NewSelfEvolutionBase
  <2>2. skillConfig.limit \in Nat /\ skillLimit = skillConfig.limit
    BY <2>1, EvolutionAssumption DEF BuiltFrom
  <2>3. skills = {} /\ base \in Bases
    BY FreeIsAConfiguration DEF NewSelfEvolutionBase
  <2> QED BY <2>2, <2>3, FS_EmptySet DEF SkillInv, SkillsWithinLimit
<1>2. SkillInv /\ [EvolutionStep]_evolutionVars => SkillInv'
  <2> SUFFICES ASSUME SkillInv, [EvolutionStep]_evolutionVars PROVE SkillInv'
    OBVIOUS
  <2>1. EvolutionConfig # {} /\ base \in Bases /\ base.to \in EvolutionConfig
    BY DEF SkillInv, Bases
  <2>2. ASSUME UNCHANGED <<skillConfig, skills, skillLimit>>, base' \in Bases PROVE SkillInv'
    BY <2>2 DEF SkillInv, SkillsWithinLimit
  <2>3. ASSUME NEW c \in EvolutionConfig, ConfigureSkills(c), UNCHANGED skills, base' \in Bases
        PROVE  SkillInv'
    <3>1. /\ skillConfig' = c.skill /\ skillLimit' = Larger(skillLimit, c.skill.limit)
          /\ c.skill.limit \in Nat /\ Cardinality(skills) \in Nat
      BY <2>3, EvolutionAssumption, FS_CardinalityType DEF ConfigureSkills, SkillInv
    <3>2. skillLimit' \in Nat /\ skillLimit <= skillLimit' /\ c.skill.limit <= skillLimit'
      BY <3>1 DEF Larger, SkillInv
    <3>3. Cardinality(skills) <= skillLimit'
      BY <3>1, <3>2 DEF SkillInv, SkillsWithinLimit
    <3> QED BY <2>3, <3>1, <3>2, <3>3 DEF SkillInv, SkillsWithinLimit
  <2>4. CASE EvolveStore
    BY <2>1, <2>2, <2>4 DEF EvolveStore, skillVars, Bases
  <2>5. CASE EvolveOptimize
    BY <2>1, <2>2, <2>5, FreeIsAConfiguration DEF EvolveOptimize, skillVars
  <2>6. CASE BeginUpdate
    BY <2>2, <2>6 DEF BeginUpdate, Bases
  <2>7. CASE UpdatePart
    <3>1. base' \in Bases /\ UNCHANGED skills
      BY <2>1, <2>7, FreeIsAConfiguration DEF UpdatePart, Bases
    <3>2. CASE ConfigureSkills(base.to)
      BY <2>1, <2>3, <3>1, <3>2
    <3>3. CASE UNCHANGED <<skillConfig, skillLimit>>
      BY <2>2, <3>1, <3>3
    <3> QED BY <2>7, <3>2, <3>3 DEF UpdatePart, ConfigureMemories, ConfigureStrategies
  <2>8. CASE ConfigurePart
    BY <2>1, <2>2, <2>3, <2>8 DEF ConfigurePart, ConfigureMemories, ConfigureStrategies
  <2>9. CASE Store
    BY <2>1, <2>2, <2>9 DEF Store, skillVars
  <2>10. CASE Clear
    BY <2>1, <2>2, <2>10 DEF Clear, skillVars
  <2>11. ASSUME NEW s \in Skill, Register(s) PROVE SkillInv'
    <3>1. /\ Cardinality(skills) < skillConfig.limit /\ skills' = skills \cup {s}
          /\ UNCHANGED <<skillConfig, skillLimit, base>>
      BY <2>11 DEF Register
    <3>2. /\ IsFiniteSet(skills \cup {s}) /\ Cardinality(skills) \in Nat
          /\ Cardinality(skills \cup {s}) \in {Cardinality(skills), Cardinality(skills) + 1}
      BY FS_AddElement, FS_CardinalityType DEF SkillInv
    <3>3. Cardinality(skills') <= skillLimit
      BY <3>1, <3>2 DEF SkillInv
    <3> QED BY <3>1, <3>2, <3>3 DEF SkillInv, SkillsWithinLimit
  <2>12. ASSUME NEW s \in Skill, Unregister(s) PROVE SkillInv'
    <3>1. skills' = skills \ {s} /\ UNCHANGED <<skillConfig, skillLimit, base>>
      BY <2>12 DEF Unregister
    <3>2. /\ IsFiniteSet(skills') /\ Cardinality(skills') <= Cardinality(skills)
          /\ Cardinality(skills) \in Nat /\ Cardinality(skills') \in Nat
      BY <3>1, FS_Subset, FS_CardinalityType DEF SkillInv
    <3>3. Cardinality(skills') <= skillLimit
      BY <3>2 DEF SkillInv, SkillsWithinLimit
    <3> QED BY <3>1, <3>2, <3>3 DEF SkillInv, SkillsWithinLimit
  <2>13. ASSUME NEW s \in Strategy, RegisterStrategy(s) PROVE SkillInv'
    BY <2>1, <2>2, <2>13 DEF RegisterStrategy, skillVars
  <2>14. CASE UNCHANGED evolutionVars
    BY <2>1, <2>2, <2>14 DEF evolutionVars, skillVars
  <2> QED BY <2>4, <2>5, <2>6, <2>7, <2>8, <2>9, <2>10, <2>11, <2>12, <2>13, <2>14 DEF EvolutionStep
<1> QED BY <1>1, <1>2, PTL DEF EvolutionSpec

\* Between the last two parts of UpdateConfig the memories have their new
\* configuration and the strategies the one before; at all other times both are
\* on or both are off, so that Evolve stores and analyses or does neither.
WholeInv ==
  /\ base \in Bases
  /\ scores \in [Strategy -> {Unregistered} \cup Nat] /\ scoredFrom \in [Strategy -> Nat]
  /\ evolved \in Nat /\ analysed \in Nat
  /\ SwitchedTogether /\ ~reconfigured =>
       /\ base.by = "strategies" => memoryConfig = base.to.memory
       /\ base.by # "strategies" => memoryConfig.enabled = strategyConfig.enabled
       /\ base.by # "evolve" => evolved = analysed
       /\ base.by = "evolve" => evolved = IF memoryConfig.enabled THEN analysed + 1 ELSE analysed
       /\ \A s \in Strategy : scores[s] # Unregistered => scores[s] + scoredFrom[s] = analysed

LEMMA WholeIsWhole == ASSUME WholeInv PROVE EvolvesWhole
  BY DEF WholeInv, EvolvesWhole

\* Nothing is left half evolved while the parts are switched together.
LEMMA WholeInvariant == EvolutionSpec => []WholeInv
<1>1. NewSelfEvolutionBase => WholeInv
  <2> SUFFICES ASSUME NewSelfEvolutionBase PROVE WholeInv
    OBVIOUS
  <2>1. PICK c \in EvolutionConfig : memoryConfig = c.memory /\ strategyConfig = c.strategy
    BY DEF NewSelfEvolutionBase, BuiltFrom
  <2>2. SwitchedTogether => memoryConfig.enabled = strategyConfig.enabled
    BY <2>1 DEF SwitchedTogether
  <2>3. base.by = "nobody" /\ base \in Bases
    BY FreeIsAConfiguration DEF NewSelfEvolutionBase
  <2> QED BY <2>2, <2>3 DEF NewSelfEvolutionBase, WholeInv, Unregistered
<1>2. WholeInv /\ [EvolutionStep]_evolutionVars => WholeInv'
  <2> SUFFICES ASSUME WholeInv, [EvolutionStep]_evolutionVars PROVE WholeInv'
    OBVIOUS
  <2>1. EvolutionConfig # {} /\ base \in Bases /\ base.to \in EvolutionConfig
    BY DEF WholeInv, Bases
  <2>2. ASSUME UNCHANGED <<memoryConfig, strategyConfig, base, scores, scoredFrom, evolved, analysed,
                           reconfigured>>
        PROVE  WholeInv'
    BY <2>2 DEF WholeInv, SwitchedTogether
  <2>3. CASE EvolveStore
    <3>1. /\ base.by = "nobody" /\ base' \in Bases /\ base'.by = "evolve"
          /\ UNCHANGED <<memoryConfig, strategyConfig, scores, scoredFrom, analysed, reconfigured>>
          /\ evolved' = IF memoryConfig.enabled THEN evolved + 1 ELSE evolved
      BY <2>1, <2>3, FreeIsAConfiguration DEF EvolveStore, Bases, scoreVars
    <3>2. evolved' \in Nat
      BY <3>1 DEF WholeInv
    <3> QED BY <3>1, <3>2 DEF WholeInv, SwitchedTogether
  <2>4. CASE EvolveOptimize
    <3>1. /\ base.by = "evolve" /\ base' \in Bases /\ base'.by = "nobody"
          /\ UNCHANGED <<memoryConfig, strategyConfig, scoredFrom, evolved, reconfigured>>
          /\ analysed' = evolved
          /\ scores' = [s \in Strategy |->
               IF strategyConfig.enabled /\ scores[s] # Unregistered THEN scores[s] + 1 ELSE scores[s]]
      BY <2>1, <2>4, FreeIsAConfiguration DEF EvolveOptimize
    <3>2. scores' \in [Strategy -> {Unregistered} \cup Nat]
      BY <3>1 DEF WholeInv
    <3>3. ASSUME SwitchedTogether, ~reconfigured, NEW s \in Strategy, scores'[s] # Unregistered
          PROVE  scores'[s] + scoredFrom[s] = evolved
      <4>1. CASE strategyConfig.enabled
        <5>1. memoryConfig.enabled = strategyConfig.enabled
          BY <3>1, <3>3 DEF WholeInv
        <5>2. memoryConfig.enabled
          BY <4>1, <5>1, Zenon
        <5>3. evolved = analysed + 1
          BY <3>1, <3>3, <5>2 DEF WholeInv
        <5>4. scores[s] # Unregistered /\ scores'[s] = scores[s] + 1
          BY <3>1, <3>3, <4>1
        <5> QED BY <3>3, <5>3, <5>4 DEF WholeInv, Unregistered
      <4>2. CASE ~strategyConfig.enabled
        BY <3>1, <3>3, <4>2 DEF WholeInv, Unregistered
      <4> QED BY <4>1, <4>2
    <3> QED BY <3>1, <3>2, <3>3 DEF WholeInv, SwitchedTogether
  <2>5. CASE BeginUpdate
    <3>1. /\ base.by = "nobody" /\ base' \in Bases /\ base'.by = "skills"
          /\ UNCHANGED <<memoryConfig, strategyConfig, scores, scoredFrom, evolved, analysed,
                         reconfigured>>
      BY <2>1, <2>5, FreeIsAConfiguration DEF BeginUpdate, Bases, scoreVars
    <3> QED BY <3>1 DEF WholeInv, SwitchedTogether
  <2>6. CASE UpdatePart
    <3>1. UNCHANGED <<scores, scoredFrom, evolved, analysed, reconfigured>>
      BY <2>6 DEF UpdatePart, scoreVars
    <3>2. CASE base.by = "skills" /\ ConfigureSkills(base.to) /\ base' = [base EXCEPT !.by = "memories"]
      <4>1. base' \in Bases /\ base'.by = "memories"
        BY <2>1, <3>2 DEF Bases
      <4> QED BY <3>1, <3>2, <4>1 DEF WholeInv, SwitchedTogether, ConfigureSkills
    <3>3. CASE base.by = "memories" /\ ConfigureMemories(base.to) /\ base' = [base EXCEPT !.by = "strategies"]
      <4>1. base' \in Bases /\ base'.by = "strategies" /\ base'.to = base.to
        BY <2>1, <3>3 DEF Bases
      <4> QED BY <3>1, <3>3, <4>1 DEF WholeInv, SwitchedTogether, ConfigureMemories
    <3>4. CASE base.by = "strategies" /\ ConfigureStrategies(base.to) /\ base' = Free
      <4>1. base' \in Bases /\ base'.by = "nobody"
        BY <2>1, <3>4, FreeIsAConfiguration
      <4>2. SwitchedTogether /\ ~reconfigured => memoryConfig'.enabled = strategyConfig'.enabled
        BY <2>1, <3>4 DEF WholeInv, SwitchedTogether, ConfigureStrategies
      <4> QED BY <3>1, <3>4, <4>1, <4>2 DEF WholeInv, SwitchedTogether
    <3> QED BY <2>6, <3>2, <3>3, <3>4 DEF UpdatePart
  <2>7. CASE ConfigurePart
    BY <2>7 DEF ConfigurePart, scoreVars, WholeInv
  <2>8. CASE Store
    BY <2>2, <2>8 DEF Store, scoreVars
  <2>9. CASE Clear
    BY <2>2, <2>9 DEF Clear, scoreVars
  <2>10. ASSUME NEW s \in Skill, Register(s) \/ Unregister(s) PROVE WholeInv'
    BY <2>2, <2>10 DEF Register, Unregister, scoreVars
  <2>11. ASSUME NEW s \in Strategy, RegisterStrategy(s) PROVE WholeInv'
    <3>1. /\ scores' = [scores EXCEPT ![s] = 0] /\ scoredFrom' = [scoredFrom EXCEPT ![s] = analysed]
          /\ UNCHANGED <<memoryConfig, strategyConfig, base, evolved, analysed, reconfigured>>
      BY <2>11 DEF RegisterStrategy
    <3>2. /\ scores' \in [Strategy -> {Unregistered} \cup Nat] /\ scoredFrom' \in [Strategy -> Nat]
          /\ \A t \in Strategy :
               \/ scores'[t] = 0 /\ scoredFrom'[t] = analysed
               \/ scores'[t] = scores[t] /\ scoredFrom'[t] = scoredFrom[t]
      BY <3>1 DEF WholeInv
    <3> QED BY <3>1, <3>2 DEF WholeInv, SwitchedTogether
  <2>12. CASE UNCHANGED evolutionVars
    BY <2>2, <2>12 DEF evolutionVars, scoreVars
  <2> QED BY <2>3, <2>4, <2>5, <2>6, <2>7, <2>8, <2>9, <2>10, <2>11, <2>12 DEF EvolutionStep
<1> QED BY <1>1, <1>2, PTL DEF EvolutionSpec

\* Each part runs under some configuration it has been given.
ConfiguredInv ==
  /\ base \in Bases
  /\ \E c \in EvolutionConfig : memoryConfig = c.memory
  /\ \E c \in EvolutionConfig : skillConfig = c.skill
  /\ \E c \in EvolutionConfig : strategyConfig = c.strategy
  /\ skills \in SUBSET Skill
  /\ reconfigured \in BOOLEAN

\* No part is ever without a configuration.
LEMMA ConfiguredInvariant == EvolutionSpec => []ConfiguredInv
<1>1. NewSelfEvolutionBase => ConfiguredInv
  BY FreeIsAConfiguration DEF NewSelfEvolutionBase, BuiltFrom, ConfiguredInv
<1>2. ConfiguredInv /\ [EvolutionStep]_evolutionVars => ConfiguredInv'
  <2> SUFFICES ASSUME ConfiguredInv, [EvolutionStep]_evolutionVars PROVE ConfiguredInv'
    OBVIOUS
  <2>1. EvolutionConfig # {} /\ base \in Bases /\ base.to \in EvolutionConfig
    BY DEF ConfiguredInv, Bases
  <2>2. ASSUME UNCHANGED <<memoryConfig, skillConfig, strategyConfig, reconfigured>>,
               skills' \in SUBSET Skill, base' \in Bases
        PROVE  ConfiguredInv'
    BY <2>2 DEF ConfiguredInv
  <2>3. ASSUME NEW c \in EvolutionConfig,
               ConfigureSkills(c) \/ ConfigureMemories(c) \/ ConfigureStrategies(c),
               UNCHANGED skills, reconfigured' \in BOOLEAN, base' \in Bases
        PROVE  ConfiguredInv'
    BY <2>3 DEF ConfiguredInv, ConfigureSkills, ConfigureMemories, ConfigureStrategies
  <2>4. CASE EvolveStore
    BY <2>1, <2>2, <2>4 DEF EvolveStore, skillVars, Bases, ConfiguredInv
  <2>5. CASE EvolveOptimize
    BY <2>1, <2>2, <2>5, FreeIsAConfiguration DEF EvolveOptimize, skillVars, ConfiguredInv
  <2>6. CASE BeginUpdate
    BY <2>2, <2>6 DEF BeginUpdate, Bases, ConfiguredInv
  <2>7. CASE UpdatePart
    <3>1. base' \in Bases /\ UNCHANGED <<skills, reconfigured>>
      BY <2>1, <2>7, FreeIsAConfiguration DEF UpdatePart, Bases
    <3> QED BY <2>1, <2>3, <2>7, <3>1 DEF UpdatePart, ConfiguredInv
  <2>8. CASE ConfigurePart
    BY <2>1, <2>3, <2>8 DEF ConfigurePart
  <2>9. CASE Store
    BY <2>1, <2>2, <2>9 DEF Store, skillVars, ConfiguredInv
  <2>10. CASE Clear
    BY <2>1, <2>2, <2>10 DEF Clear, skillVars, ConfiguredInv
  <2>11. ASSUME NEW s \in Skill, Register(s) \/ Unregister(s) PROVE ConfiguredInv'
    <3>1. skills' \in SUBSET Skill
      BY <2>11 DEF Register, Unregister, ConfiguredInv
    <3> QED BY <2>1, <2>2, <2>11, <3>1 DEF Register, Unregister
  <2>12. ASSUME NEW s \in Strategy, RegisterStrategy(s) PROVE ConfiguredInv'
    BY <2>1, <2>2, <2>12 DEF RegisterStrategy, skillVars, ConfiguredInv
  <2>13. CASE UNCHANGED evolutionVars
    BY <2>1, <2>2, <2>13 DEF evolutionVars, ConfiguredInv
  <2> QED BY <2>4, <2>5, <2>6, <2>7, <2>8, <2>9, <2>10, <2>11, <2>12, <2>13 DEF EvolutionStep
<1> QED BY <1>1, <1>2, PTL DEF EvolutionSpec

\* The types of the evolution base, from the four invariants of its parts.
LEMMA EvolutionTypes ==
  ASSUME MemoryInv, SkillInv, WholeInv, ConfiguredInv
  PROVE  EvolutionTypeOK
  BY DEF EvolutionTypeOK, MemoryInv, SkillInv, WholeInv, ConfiguredInv, Bases

--------------------------------------------------------------------------------
(* Metrics *)

\* No route of the server has counted more errors than requests.
Counters == {e \in [requests : Nat, errors : Nat] : e.errors <= e.requests}

MetricsInv == followed \subseteq Parts /\ metrics \in [Label -> Counters]

\* RecordRequest counts an error only with its request.
LEMMA MetricsInvariant == ServerSpec => []MetricsInv
<1>1. NewGatewayServer => MetricsInv
  BY GatewayServerAssumption DEF NewGatewayServer, NewMetrics, MetricsInv, Counters
<1>2. MetricsInv /\ [ServerStep]_serverVars => MetricsInv'
  <2> SUFFICES ASSUME MetricsInv, [ServerStep]_serverVars PROVE MetricsInv'
    OBVIOUS
  <2>1. ASSUME RecordRequest, UNCHANGED followed PROVE MetricsInv'
    <3>1. PICK r \in Label, failed \in {0, 1} :
            metrics' = [metrics EXCEPT ![r] =
                         [requests |-> @.requests + 1, errors |-> @.errors + failed]]
      BY <2>1 DEF RecordRequest
    <3>2. metrics[r] \in Counters
      BY DEF MetricsInv
    <3> DEFINE counted == [requests |-> metrics[r].requests + 1, errors |-> metrics[r].errors + failed]
    <3>3. counted \in Counters
      BY <3>2 DEF Counters
    <3>4. metrics' = [metrics EXCEPT ![r] = counted]
      BY <3>1
    <3> QED BY <2>1, <3>3, <3>4 DEF MetricsInv
  <2> QED BY <2>1 DEF ServerStep, serverVars, MetricsInv
<1> QED BY <1>1, <1>2, PTL DEF ServerSpec

--------------------------------------------------------------------------------
(* Induction over the numbers, from the theorems on well-founded relations that *)
(* speak of sets.                                                               *)

\* A set of numbers has a least one.
LEMMA LeastElement ==
  ASSUME NEW T, T \subseteq Nat, T # {}
  PROVE  \E x \in T : \A y \in T : x <= y
<1>1. PICK x \in T : \A y \in T : <<y, x>> \notin OpToRel(<, Nat)
  BY WFMin, NatLessThanWellFounded, Zenon
<1>2. \A y \in T : ~(y < x)
  BY <1>1, Zenon DEF OpToRel
<1> QED BY <1>2

\* What holds of 0, and of n + 1 if of n, holds of every number.
LEMMA ByInduction ==
  ASSUME NEW S, 0 \in S, \A n \in Nat : n \in S => n + 1 \in S
  PROVE  \A n \in Nat : n \in S
<1> DEFINE T == {n \in Nat : n \notin S}
<1>1. SUFFICES ASSUME T # {} PROVE FALSE
  OBVIOUS
<1>2. PICK x \in T : \A y \in T : x <= y
  BY <1>1, LeastElement
<1>3. x \in Nat /\ x # 0 /\ x - 1 \in Nat
  BY <1>2
<1>4. x - 1 \in S
  BY <1>2, <1>3
<1>5. (x - 1) + 1 \in S
  BY <1>3, <1>4
<1> QED BY <1>2, <1>3, <1>5

--------------------------------------------------------------------------------
(* RouteTable: what a pattern reads *)

\* The recursion in Reached up to n.
ReachedUpTo(f, regex, text, n) ==
  f = [k \in 0 .. n |-> IF k = 0 THEN SkipRuns(regex, {0})
                        ELSE ReadOne(regex, f[k - 1], text[k])]

\* The recursion is well-founded: there is such a function, which is then Reached.
LEMMA ReachedStepwise ==
  ASSUME NEW regex, NEW text, Len(text) \in Nat
  PROVE  /\ Reached(regex, text)[0] = SkipRuns(regex, {0})
         /\ \A k \in 1 .. Len(text) :
              Reached(regex, text)[k] = ReadOne(regex, Reached(regex, text)[k - 1], text[k])
<1> DEFINE S == {n \in Nat : \E f : ReachedUpTo(f, regex, text, n)}
<1>1. 0 \in S
  <2> DEFINE g == [k \in 0 .. 0 |-> SkipRuns(regex, {0})]
  <2>1. ReachedUpTo(g, regex, text, 0)
    BY DEF ReachedUpTo
  <2> QED BY <2>1
<1>2. ASSUME NEW n \in Nat, n \in S PROVE n + 1 \in S
  <2>1. PICK f : ReachedUpTo(f, regex, text, n)
    BY <1>2
  <2> DEFINE g == [k \in 0 .. n + 1 |-> IF k <= n THEN f[k] ELSE ReadOne(regex, f[n], text[n + 1])]
             h == [k \in 0 .. n + 1 |-> IF k = 0 THEN SkipRuns(regex, {0})
                                        ELSE ReadOne(regex, g[k - 1], text[k])]
  <2>2. ASSUME NEW k \in 0 .. n + 1
        PROVE  g[k] = IF k = 0 THEN SkipRuns(regex, {0}) ELSE ReadOne(regex, g[k - 1], text[k])
    <3>1. CASE k = n + 1
      <4>1. g[k] = ReadOne(regex, f[n], text[k]) /\ g[k - 1] = f[n] /\ k # 0
        BY <3>1
      <4> QED BY <4>1
    <3>2. CASE k # n + 1
      <4>1. k \in 0 .. n /\ g[k] = f[k] /\ (k # 0 => g[k - 1] = f[k - 1])
        BY <3>2
      <4>2. f[k] = IF k = 0 THEN SkipRuns(regex, {0}) ELSE ReadOne(regex, f[k - 1], text[k])
        BY <2>1, <4>1 DEF ReachedUpTo
      <4> QED BY <4>1, <4>2
    <3> QED BY <3>1, <3>2
  <2>3. g = h
    BY <2>2
  <2>4. ReachedUpTo(g, regex, text, n + 1)
    BY <2>3 DEF ReachedUpTo
  <2> QED BY <2>4
<1>3. Len(text) \in S
  <2> HIDE DEF S
  <2> QED BY <1>1, <1>2, ByInduction
<1>4. PICK f : ReachedUpTo(f, regex, text, Len(text))
  BY <1>3
<1>5. ReachedUpTo(Reached(regex, text), regex, text, Len(text))
  BY <1>4 DEF Reached, ReachedUpTo
<1> QED BY <1>5 DEF ReachedUpTo

\* The regular expression stands for the pattern.
StandsFor(regex, pattern) ==
  /\ pattern \in Text /\ Len(regex) = Len(pattern)
  /\ \A i \in 1 .. Len(pattern) :
       IF pattern[i] = "*" THEN regex[i] = AnyRun
       ELSE regex[i] = pattern[i] \/ (regex[i] = AnyOne /\ pattern[i] # Newline)

\* The i-th character of a pattern reads the text from the place a up to b.
ReadsPart(pattern, text, i, a, b) ==
  \/ pattern[i] = "*" /\ b >= a /\ OneLine(text, a, b)
  \/ b = a + 1 /\ text[a] = pattern[i]

\* Reads for the first j characters of the pattern and k of the text.
ReadsTo(pattern, text, j, k) ==
  \E at \in [1 .. j + 1 -> 1 .. Len(text) + 1] :
    /\ at[1] = 1 /\ at[j + 1] = k + 1
    /\ \A i \in 1 .. j : ReadsPart(pattern, text, i, at[i], at[i + 1])

\* A text is read when all of it is read by all of the pattern.
LEMMA ReadsIsReadsTo ==
  ASSUME NEW pattern \in Text, NEW text \in Text
  PROVE  Reads(pattern, text) <=> ReadsTo(pattern, text, Len(pattern), Len(text))
<1>1. DOMAIN pattern = 1 .. Len(pattern)
  BY DEF Text
<1> QED BY <1>1, Zenon DEF Reads, ReadsTo, ReadsPart

\* One character of the pattern more.
LEMMA ReadsOneMore ==
  ASSUME NEW pattern, NEW text \in Text, NEW j \in Nat, NEW k \in 0 .. Len(text),
         NEW l \in 0 .. Len(text), ReadsTo(pattern, text, j, k),
         ReadsPart(pattern, text, j + 1, k + 1, l + 1)
  PROVE  ReadsTo(pattern, text, j + 1, l)
<1>1. PICK at \in [1 .. j + 1 -> 1 .. Len(text) + 1] :
        /\ at[1] = 1 /\ at[j + 1] = k + 1
        /\ \A i \in 1 .. j : ReadsPart(pattern, text, i, at[i], at[i + 1])
  BY DEF ReadsTo
<1>2. Len(text) \in Nat
  BY DEF Text
<1> DEFINE far == [i \in 1 .. (j + 1) + 1 |-> IF i <= j + 1 THEN at[i] ELSE l + 1]
<1>3. far \in [1 .. (j + 1) + 1 -> 1 .. Len(text) + 1] /\ far[1] = 1 /\ far[(j + 1) + 1] = l + 1
  BY <1>1, <1>2
<1>4. ASSUME NEW i \in 1 .. j + 1
      PROVE  ReadsPart(pattern, text, i, far[i], far[i + 1])
  <2>1. CASE i = j + 1
    <3>1. far[i] = k + 1 /\ far[i + 1] = l + 1
      BY <1>1, <2>1
    <3> QED BY <2>1, <3>1
  <2>2. CASE i # j + 1
    <3>1. i \in 1 .. j /\ far[i] = at[i] /\ far[i + 1] = at[i + 1]
      BY <2>2
    <3> QED BY <1>1, <3>1
  <2> QED BY <2>1, <2>2
<1> HIDE DEF far
<1> QED BY <1>3, <1>4 DEF ReadsTo

\* Wildcards that read nothing.
LEMMA ReadsRuns ==
  ASSUME NEW pattern, NEW text \in Text, NEW j \in Nat, NEW k \in 0 .. Len(text),
         ReadsTo(pattern, text, j, k), NEW l \in Nat, j <= l,
         \A i \in j + 1 .. l : pattern[i] = "*"
  PROVE  ReadsTo(pattern, text, l, k)
<1>1. PICK at \in [1 .. j + 1 -> 1 .. Len(text) + 1] :
        /\ at[1] = 1 /\ at[j + 1] = k + 1
        /\ \A i \in 1 .. j : ReadsPart(pattern, text, i, at[i], at[i + 1])
  BY DEF ReadsTo
<1>2. Len(text) \in Nat
  BY DEF Text
<1> DEFINE far == [i \in 1 .. l + 1 |-> IF i <= j THEN at[i] ELSE k + 1]
<1>3. far \in [1 .. l + 1 -> 1 .. Len(text) + 1] /\ far[1] = 1 /\ far[l + 1] = k + 1
  BY <1>1, <1>2
<1>4. ASSUME NEW i \in 1 .. l
      PROVE  ReadsPart(pattern, text, i, far[i], far[i + 1])
  <2>1. CASE i <= j
    <3>1. i \in 1 .. j /\ far[i] = at[i] /\ far[i + 1] = at[i + 1]
      BY <1>1, <2>1
    <3> QED BY <1>1, <3>1
  <2>2. CASE ~(i <= j)
    <3>1. i \in j + 1 .. l /\ far[i] = k + 1 /\ far[i + 1] = k + 1
      BY <2>2
    <3>2. OneLine(text, k + 1, k + 1)
      BY DEF OneLine
    <3> QED BY <3>1, <3>2 DEF ReadsPart
  <2> QED BY <2>1, <2>2
<1> HIDE DEF far
<1> QED BY <1>3, <1>4 DEF ReadsTo

\* A place that is reached by k characters: the pattern before it reads them, or
\* the first of them, when a wildcard that follows is reading the others, which
\* are of one line.
MeetsAt(pattern, text, j, k) ==
  /\ j \in 0 .. Len(pattern)
  /\ \E h \in 0 .. k :
       /\ ReadsTo(pattern, text, j, h)
       /\ h = k \/ (j < Len(pattern) /\ pattern[j + 1] = "*")
       /\ OneLine(text, h + 1, k + 1)

\* What has been read of a line, if anything, and a character that ends none.
LEMMA OneLineMore ==
  ASSUME NEW text, NEW h \in Nat, NEW k \in Nat, OneLine(text, h + 1, (k - 1) + 1),
         text[k] # Newline
  PROVE  OneLine(text, h + 1, k + 1)
<1> SUFFICES ASSUME NEW l \in h + 1 .. (k + 1) - 1 PROVE text[l] # Newline
  BY DEF OneLine
<1>1. l = k \/ l \in h + 1 .. ((k - 1) + 1) - 1
  OBVIOUS
<1> QED BY <1>1 DEF OneLine

\* Skipping wildcards stays with what the pattern reads.
LEMMA SkipRunsMeets ==
  ASSUME NEW regex, NEW pattern, StandsFor(regex, pattern), NEW text \in Text,
         NEW k \in 0 .. Len(text), \A i \in 1 .. Len(pattern) : regex[i] # AnyOne,
         NEW places, \A i \in places : MeetsAt(pattern, text, i, k)
  PROVE  \A j \in SkipRuns(regex, places) : MeetsAt(pattern, text, j, k)
<1> SUFFICES ASSUME NEW j \in SkipRuns(regex, places)
             PROVE  MeetsAt(pattern, text, j, k)
  OBVIOUS
<1>1. Len(pattern) \in Nat /\ Len(text) \in Nat
  BY DEF Text, StandsFor
<1>2. PICK i \in places : i <= j /\ \A m \in i + 1 .. j : regex[m] = AnyRun
  BY DEF SkipRuns
<1>3. j \in 0 .. Len(pattern) /\ i \in 0 .. Len(pattern)
  BY DEF SkipRuns, StandsFor, MeetsAt
<1>4. \A m \in i + 1 .. j : pattern[m] = "*"
  <2> SUFFICES ASSUME NEW m \in i + 1 .. j PROVE pattern[m] = "*"
    OBVIOUS
  <2>1. m \in 1 .. Len(pattern) /\ regex[m] = AnyRun /\ pattern[m] \in STRING \ {AnyRun, AnyOne}
    BY <1>1, <1>2, <1>3 DEF StandsFor, Text
  <2> QED BY <2>1 DEF StandsFor, AnyRun, AnyOne
<1>5. CASE i = j
  BY <1>5
<1>6. CASE i # j
  <2>1. i + 1 \in i + 1 .. j /\ i + 1 <= j /\ pattern[i + 1] = "*"
    BY <1>2, <1>3, <1>4, <1>6
  <2>2. PICK h \in 0 .. k : ReadsTo(pattern, text, i, h) /\ OneLine(text, h + 1, k + 1)
    BY DEF MeetsAt
  <2>3. h \in 0 .. Len(text) /\ ReadsPart(pattern, text, i + 1, h + 1, k + 1)
    BY <1>1, <2>1, <2>2 DEF ReadsPart
  <2>4. ReadsTo(pattern, text, i + 1, k)
    BY <1>3, <2>2, <2>3, ReadsOneMore
  <2>5. \A m \in (i + 1) + 1 .. j : pattern[m] = "*"
    BY <1>3, <1>4
  <2>6. ReadsTo(pattern, text, j, k)
    BY <1>3, <2>1, <2>4, <2>5, ReadsRuns
  <2>7. OneLine(text, k + 1, k + 1)
    BY DEF OneLine
  <2> QED BY <1>3, <2>6, <2>7 DEF MeetsAt
<1> QED BY <1>5, <1>6

\* So does reading one character more.
LEMMA ReadOneMeets ==
  ASSUME NEW regex, NEW pattern, StandsFor(regex, pattern), NEW text \in Text,
         NEW k \in 1 .. Len(text), \A i \in 1 .. Len(pattern) : regex[i] # AnyOne,
         NEW places, \A i \in places : MeetsAt(pattern, text, i, k - 1)
  PROVE  \A j \in ReadOne(regex, places, text[k]) : MeetsAt(pattern, text, j, k)
<1> DEFINE next == {i \in places : i < Len(regex) /\ Takes(regex[i + 1], text[k])}
           within == {i \in next : regex[i + 1] = AnyRun}
           beyond == next \ within
<1>1. Len(pattern) \in Nat /\ Len(text) \in Nat /\ Len(regex) = Len(pattern)
      /\ text[k] \in STRING \ {AnyRun, AnyOne}
  BY DEF Text, StandsFor
<1>2. ASSUME NEW i \in places, i < Len(regex)
      PROVE  /\ i \in 0 .. Len(pattern) - 1 /\ i + 1 \in 1 .. Len(pattern)
             /\ pattern[i + 1] \in STRING \ {AnyRun, AnyOne}
  <2>1. i \in 0 .. Len(pattern) /\ i < Len(pattern)
    BY <1>1, <1>2 DEF MeetsAt
  <2>2. i + 1 \in 1 .. Len(pattern)
    BY <1>1, <2>1
  <2> QED BY <1>1, <2>1, <2>2 DEF StandsFor, Text
<1>3. ASSUME NEW i \in within PROVE MeetsAt(pattern, text, i, k)
  <2>0. /\ i + 1 \in 1 .. Len(pattern) /\ pattern[i + 1] \in STRING \ {AnyRun, AnyOne}
        /\ regex[i + 1] = AnyRun /\ i < Len(pattern) /\ i \in 0 .. Len(pattern)
        /\ Takes(AnyRun, text[k])
    BY <1>1, <1>2
  <2>1. pattern[i + 1] = "*" /\ i < Len(pattern) /\ i \in 0 .. Len(pattern)
    BY <2>0 DEF StandsFor, AnyRun, AnyOne
  <2>2. PICK h \in 0 .. k - 1 :
          ReadsTo(pattern, text, i, h) /\ OneLine(text, h + 1, (k - 1) + 1)
    BY DEF MeetsAt
  <2>3. h \in 0 .. k /\ h \in Nat /\ k \in Nat
    BY <1>1
  <2>4. text[k] # Newline
    BY <1>1, <2>0 DEF Takes
  <2>5. OneLine(text, h + 1, k + 1)
    BY <2>2, <2>3, <2>4, OneLineMore
  <2> QED BY <2>1, <2>2, <2>3, <2>5 DEF MeetsAt
<1>4. ASSUME NEW i \in beyond PROVE MeetsAt(pattern, text, i + 1, k)
  <2>0. /\ i \in places /\ i < Len(regex) /\ Takes(regex[i + 1], text[k])
        /\ regex[i + 1] # AnyRun
    OBVIOUS
  <2>1. regex[i + 1] = text[k] /\ i + 1 \in 1 .. Len(pattern) /\ i \in 0 .. Len(pattern)
    BY <1>1, <1>2, <2>0 DEF Takes
  <2>2. pattern[i + 1] = text[k]
    BY <1>1, <1>2, <2>1 DEF StandsFor, AnyRun, AnyOne
  <2>3. PICK h \in 0 .. k - 1 :
          /\ ReadsTo(pattern, text, i, h)
          /\ h = k - 1 \/ (i < Len(pattern) /\ pattern[i + 1] = "*")
          /\ OneLine(text, h + 1, (k - 1) + 1)
    BY <2>0 DEF MeetsAt
  <2>4. h \in 0 .. Len(text) /\ k \in 0 .. Len(text) /\ h <= k /\ h \in Nat
    BY <1>1
  <2>5. ReadsPart(pattern, text, i + 1, h + 1, k + 1)
    <3>1. CASE h = k - 1
      BY <1>1, <2>2, <2>4, <3>1 DEF ReadsPart
    <3>2. CASE pattern[i + 1] = "*"
      <4>1. text[k] # Newline
        BY <2>2, <3>2 DEF Newline
      <4>2. OneLine(text, h + 1, k + 1)
        BY <2>3, <2>4, <4>1, OneLineMore
      <4> QED BY <2>4, <3>2, <4>2 DEF ReadsPart
    <3> QED BY <2>3, <3>1, <3>2
  <2>6. ReadsTo(pattern, text, i + 1, k)
    BY <2>1, <2>3, <2>4, <2>5, ReadsOneMore
  <2>7. OneLine(text, k + 1, k + 1)
    BY DEF OneLine
  <2> QED BY <2>1, <2>4, <2>6, <2>7 DEF MeetsAt
<1> DEFINE all == within \cup {i + 1 : i \in beyond}
<1>5. \A j \in all : MeetsAt(pattern, text, j, k)
  BY <1>3, <1>4
<1>6. k \in 0 .. Len(text)
  BY <1>1
<1>7. ReadOne(regex, places, text[k]) = SkipRuns(regex, all)
  BY DEF ReadOne
<1> HIDE DEF all
<1> QED BY <1>5, <1>6, <1>7, SkipRunsMeets

\* What a regular expression without a loose dot accepts, its pattern reads.
LEMMA AcceptedIsRead ==
  ASSUME NEW regex, NEW pattern, StandsFor(regex, pattern), NEW text \in Text,
         \A i \in 1 .. Len(pattern) : regex[i] # AnyOne, Accepts(regex, text)
  PROVE  Reads(pattern, text)
<1> DEFINE at == Reached(regex, text)
           S == {k \in Nat : k <= Len(text) => \A j \in at[k] : MeetsAt(pattern, text, j, k)}
<1>1. Len(pattern) \in Nat /\ Len(text) \in Nat /\ Len(regex) = Len(pattern)
      /\ pattern \in Text
  BY DEF Text, StandsFor
<1>2. at[0] = SkipRuns(regex, {0}) /\ \A k \in 1 .. Len(text) : at[k] = ReadOne(regex, at[k - 1], text[k])
  BY <1>1, ReachedStepwise
<1> HIDE DEF at
<1>3. 0 \in S
  <2> DEFINE start == [i \in 1 .. 1 |-> 1]
  <2>1. start \in [1 .. 0 + 1 -> 1 .. Len(text) + 1] /\ start[1] = 1 /\ start[0 + 1] = 0 + 1
    BY <1>1
  <2> HIDE DEF start
  <2>2. ReadsTo(pattern, text, 0, 0)
    <3>1. \A i \in 1 .. 0 : ReadsPart(pattern, text, i, start[i], start[i + 1])
      OBVIOUS
    <3> QED BY <2>1, <3>1, Zenon DEF ReadsTo
  <2>3. \A i \in {0} : MeetsAt(pattern, text, i, 0)
    BY <1>1, <2>2 DEF MeetsAt, OneLine
  <2>4. 0 \in 0 .. Len(text)
    BY <1>1
  <2> QED BY <1>2, <2>3, <2>4, SkipRunsMeets
<1>4. ASSUME NEW k \in Nat, k \in S PROVE k + 1 \in S
  <2> SUFFICES ASSUME k + 1 <= Len(text)
               PROVE  \A j \in at[k + 1] : MeetsAt(pattern, text, j, k + 1)
    OBVIOUS
  <2>1. k + 1 \in 1 .. Len(text) /\ (k + 1) - 1 = k /\ k <= Len(text)
    BY <1>1
  <2>2. \A j \in at[k] : MeetsAt(pattern, text, j, (k + 1) - 1)
    BY <1>4, <2>1
  <2>3. at[k + 1] = ReadOne(regex, at[k], text[k + 1])
    BY <1>2, <2>1
  <2> HIDE DEF S
  <2> QED BY <2>1, <2>2, <2>3, ReadOneMeets
<1>5. Len(text) \in S
  <2> HIDE DEF S
  <2> QED BY <1>1, <1>3, <1>4, ByInduction
<1>6. MeetsAt(pattern, text, Len(pattern), Len(text))
  BY <1>1, <1>5 DEF Accepts, at
<1>7. ReadsTo(pattern, text, Len(pattern), Len(text))
  BY <1>1, <1>6 DEF MeetsAt
<1> QED BY <1>1, <1>7, ReadsIsReadsTo

\* Numbers each of which is no more than the next.
LEMMA Climbs ==
  ASSUME NEW n \in Nat, NEW at \in [1 .. n + 1 -> Nat], \A i \in 1 .. n : at[i] <= at[i + 1]
  PROVE  \A i, l \in 1 .. n + 1 : i <= l => at[i] <= at[l]
<1> DEFINE S == {d \in Nat : \A i \in 1 .. n + 1 : i + d <= n + 1 => at[i] <= at[i + d]}
<1>1. 0 \in S
  OBVIOUS
<1>2. ASSUME NEW d \in Nat, d \in S PROVE d + 1 \in S
  <2> SUFFICES ASSUME NEW i \in 1 .. n + 1, i + (d + 1) <= n + 1
               PROVE  at[i] <= at[i + (d + 1)]
    OBVIOUS
  <2>1. i + d \in 1 .. n /\ i + d <= n + 1 /\ (i + d) + 1 = i + (d + 1)
    OBVIOUS
  <2>2. at[i] <= at[i + d] /\ at[i + d] <= at[i + (d + 1)]
    BY <1>2, <2>1
  <2>3. at[i] \in Nat /\ at[i + d] \in Nat /\ at[i + (d + 1)] \in Nat
    BY <2>1
  <2> QED BY <2>2, <2>3
<1>3. \A d \in Nat : d \in S
  <2> HIDE DEF S
  <2> QED BY <1>1, <1>2, ByInduction
<1> SUFFICES ASSUME NEW i \in 1 .. n + 1, NEW l \in 1 .. n + 1, i <= l
             PROVE  at[i] <= at[l]
  OBVIOUS
<1>4. l - i \in Nat /\ i + (l - i) = l /\ i + (l - i) <= n + 1
  OBVIOUS
<1>5. l - i \in S
  BY <1>3, <1>4
<1> QED BY <1>4, <1>5

\* Whatever is looked for in a text, the places that have been reached by the time
\* the k-th character is read are those where the pattern needs them.
LEMMA ReadIsAccepted ==
  ASSUME NEW regex, NEW pattern, StandsFor(regex, pattern), NEW text \in Text,
         Reads(pattern, text)
  PROVE  Accepts(regex, text)
<1> DEFINE n == Len(pattern)
           reached == Reached(regex, text)
<1>1. n \in Nat /\ Len(text) \in Nat /\ Len(regex) = n /\ DOMAIN pattern = 1 .. n
  BY DEF Text, StandsFor
<1>2. /\ reached[0] = SkipRuns(regex, {0})
      /\ \A k \in 1 .. Len(text) : reached[k] = ReadOne(regex, reached[k - 1], text[k])
  BY <1>1, ReachedStepwise
<1>3. PICK at \in [1 .. n + 1 -> 1 .. Len(text) + 1] :
        /\ at[1] = 1 /\ at[n + 1] = Len(text) + 1
        /\ \A i \in 1 .. n : ReadsPart(pattern, text, i, at[i], at[i + 1])
  BY <1>1, ReadsIsReadsTo DEF ReadsTo, StandsFor
<1> HIDE DEF n, reached
<1>4. at \in [1 .. n + 1 -> Nat] /\ \A i \in 1 .. n : at[i] <= at[i + 1]
  <2>1. at \in [1 .. n + 1 -> Nat]
    BY <1>1, <1>3
  <2>2. ASSUME NEW i \in 1 .. n PROVE at[i] <= at[i + 1]
    <3>1. at[i] \in Nat /\ at[i + 1] \in Nat
      BY <1>1, <2>1
    <3> QED BY <1>3, <3>1 DEF ReadsPart
  <2> QED BY <2>1, <2>2
<1>5. \A i, l \in 1 .. n + 1 : i <= l => at[i] <= at[l]
  BY <1>1, <1>4, Climbs
<1>6. \A i \in 1 .. n :
        IF pattern[i] = "*" THEN regex[i] = AnyRun
        ELSE /\ regex[i] = pattern[i] \/ (regex[i] = AnyOne /\ pattern[i] # Newline)
             /\ regex[i] # AnyRun
  <2>1. \A i \in 1 .. n : pattern[i] # AnyRun
    BY <1>1 DEF StandsFor, Text
  <2> QED BY <2>1 DEF StandsFor, n, AnyRun, AnyOne
\* Between two places in the pattern that begin at the same place of the text
\* there are wildcards only.
<1>7. ASSUME NEW first \in 1 .. n + 1, NEW i \in 1 .. n + 1, at[first] = at[i],
             NEW l \in first .. i - 1
      PROVE  l \in 1 .. n /\ regex[l] = AnyRun
  <2>1. l \in 1 .. n /\ l + 1 \in 1 .. n + 1 /\ l \in 1 .. n + 1 /\ first <= l /\ l + 1 <= i
    BY <1>1
  <2>2. at[first] <= at[l] /\ at[l] <= at[l + 1] /\ at[l + 1] <= at[i]
    BY <1>4, <1>5, <2>1
  <2>3. at[l] \in Nat /\ at[l + 1] \in Nat /\ at[i] \in Nat
    BY <1>4, <2>1
  <2>4. at[l + 1] = at[l]
    BY <1>7, <2>2, <2>3
  <2>5. pattern[l] = "*"
    BY <1>3, <2>1, <2>3, <2>4 DEF ReadsPart
  <2> QED BY <1>6, <2>1, <2>5
<1> DEFINE Within(i, k) == i \in 1 .. n /\ at[i] <= k + 1 /\ k + 1 <= at[i + 1] /\ pattern[i] = "*"
           Begun(k) == /\ \A i \in 1 .. n + 1 : at[i] = k + 1 => i - 1 \in reached[k]
                       /\ \A i \in 1 .. n : Within(i, k) => i - 1 \in reached[k]
           S == {k \in Nat : k <= Len(text) => Begun(k)}
<1>8. ASSUME NEW k \in Nat, NEW i \in 1 .. n, Within(i, k)
      PROVE  at[i] = k + 1 \/ (k # 0 /\ Within(i, k - 1))
  <2>1. at[i] \in 1 .. Len(text) + 1 /\ at[i + 1] \in 1 .. Len(text) + 1
    BY <1>1, <1>3
  <2> QED BY <1>1, <1>8, <2>1
\* What a wildcard reads is of one line.
<1>8a. ASSUME NEW k \in 1 .. Len(text), NEW i \in 1 .. n, pattern[i] = "*",
              at[i] <= k, k + 1 <= at[i + 1]
       PROVE  text[k] # Newline
  <2>1. at[i] \in Nat /\ at[i + 1] \in Nat
    BY <1>1, <1>4
  <2>2. CASE OneLine(text, at[i], at[i + 1])
    <3>1. k \in at[i] .. at[i + 1] - 1
      BY <1>8a, <2>1
    <3> QED BY <2>2, <3>1 DEF OneLine
  <2>3. CASE at[i + 1] = at[i] + 1 /\ text[at[i]] = pattern[i]
    <3>1. at[i] = k
      BY <1>8a, <2>1, <2>3
    <3> QED BY <1>8a, <2>3, <3>1 DEF Newline
  <2> QED BY <1>3, <2>2, <2>3 DEF ReadsPart
<1>9. Begun(0)
  <2>1. ASSUME NEW i \in 1 .. n + 1, at[i] = 0 + 1 PROVE i - 1 \in reached[0]
    <3>1. 1 \in 1 .. n + 1 /\ at[1] = at[i]
      BY <1>1, <1>3, <2>1
    <3>2. \A l \in 0 + 1 .. i - 1 : regex[l] = AnyRun
      BY <1>7, <3>1
    <3>3. i - 1 \in 0 .. n /\ 0 <= i - 1
      BY <1>1
    <3> QED BY <1>1, <1>2, <3>2, <3>3 DEF SkipRuns
  <2>2. \A i \in 1 .. n : i \in 1 .. n + 1
    BY <1>1
  <2>3. ASSUME NEW i \in 1 .. n, Within(i, 0) PROVE i - 1 \in reached[0]
    BY <1>8, <2>1, <2>2, <2>3
  <2> QED BY <2>1, <2>3
<1>10. ASSUME NEW k \in 1 .. Len(text), Begun(k - 1) PROVE Begun(k)
  <2> DEFINE next == {i \in reached[k - 1] : i < Len(regex) /\ Takes(regex[i + 1], text[k])}
             within == {i \in next : regex[i + 1] = AnyRun}
             beyond == next \ within
             all == within \cup {i + 1 : i \in beyond}
  <2>1. reached[k] = SkipRuns(regex, all)
    BY <1>2 DEF ReadOne
  <2>2. ASSUME NEW i \in 1 .. n, Within(i, k - 1), text[k] # Newline
        PROVE  i - 1 \in within
    <3>1. i - 1 \in reached[k - 1]
      BY <1>10, <2>2
    <3>2. i - 1 < Len(regex) /\ (i - 1) + 1 = i /\ regex[i] = AnyRun
      BY <1>1, <1>6, <2>2
    <3>3. Takes(regex[i], text[k])
      BY <2>2, <3>2 DEF Takes
    <3> QED BY <3>1, <3>2, <3>3
  <2>3. ASSUME NEW i \in 1 .. n, at[i] = k, at[i + 1] = k + 1, text[k] = pattern[i], pattern[i] # "*"
        PROVE  i \in all
    <3>1. i - 1 \in reached[k - 1]
      BY <1>1, <1>10, <2>3
    <3>2. i - 1 < Len(regex) /\ (i - 1) + 1 = i /\ regex[i] # AnyRun
      BY <1>1, <1>6, <2>3
    <3>3. Takes(regex[i], text[k])
      BY <1>6, <2>3 DEF Takes
    <3>4. i - 1 \in beyond
      BY <3>1, <3>2, <3>3
    <3> QED BY <3>2, <3>4
  <2> HIDE DEF all
  <2>4. ASSUME NEW i \in 1 .. n + 1, at[i] = k + 1 PROVE i - 1 \in reached[k]
    <3>1. PICK first \in {l \in 1 .. n + 1 : at[l] = k + 1} :
                 \A l \in {m \in 1 .. n + 1 : at[m] = k + 1} : first <= l
      <4>1. {l \in 1 .. n + 1 : at[l] = k + 1} \subseteq Nat /\ {l \in 1 .. n + 1 : at[l] = k + 1} # {}
        BY <1>1, <2>4
      <4> QED BY <4>1, LeastElement
    <3>2. first \in 1 .. n + 1 /\ first <= i /\ at[first] = at[i] /\ first # 1
      BY <1>1, <1>3, <2>4, <3>1
    <3>3. PICK h \in 1 .. n : h + 1 = first
      <4>1. first - 1 \in 1 .. n /\ (first - 1) + 1 = first
        BY <1>1, <3>2
      <4> QED BY <4>1
    <3>4. h \in 1 .. n + 1 /\ at[h] \in Nat /\ at[h] <= k
      <4>1. h \in 1 .. n + 1 /\ at[h] \in Nat /\ at[h + 1] = k + 1 /\ ~(first <= h)
        BY <1>1, <1>4, <2>4, <3>2, <3>3
      <4>2. at[h] # k + 1 /\ at[h] <= k + 1
        BY <1>4, <3>1, <3>3, <4>1
      <4> QED BY <4>1, <4>2
    <3>5. \A l \in h + 1 .. i - 1 : regex[l] = AnyRun
      BY <1>7, <3>2, <3>3
    <3>6. i - 1 \in 0 .. Len(regex) /\ h <= i - 1 /\ h - 1 <= i - 1
      BY <1>1, <3>2, <3>3
    <3>7. CASE pattern[h] = "*"
      <4>1. at[h + 1] = k + 1
        BY <2>4, <3>2, <3>3
      <4>2. Within(h, k - 1)
        BY <3>4, <3>7, <4>1
      <4>3. text[k] # Newline
        BY <1>8a, <3>4, <3>7, <4>1
      <4>4. h - 1 \in all
        BY <2>2, <4>2, <4>3 DEF all
      <4>5. \A l \in (h - 1) + 1 .. i - 1 : regex[l] = AnyRun
        <5> SUFFICES ASSUME NEW l \in (h - 1) + 1 .. i - 1 PROVE regex[l] = AnyRun
          OBVIOUS
        <5>1. l = h \/ l \in h + 1 .. i - 1
          BY <1>1, <3>2
        <5> QED BY <1>6, <3>5, <3>7, <5>1
      <4> QED BY <2>1, <3>6, <4>4, <4>5 DEF SkipRuns
    <3>8. CASE pattern[h] # "*"
      <4>1. at[h + 1] = k + 1
        BY <2>4, <3>2, <3>3
      <4>2. at[h] = k /\ text[k] = pattern[h]
        <5>1. at[h + 1] = at[h] + 1 /\ text[at[h]] = pattern[h]
          BY <1>3, <3>8 DEF ReadsPart
        <5>2. at[h] = k
          BY <3>4, <4>1, <5>1
        <5> QED BY <5>1, <5>2
      <4>3. h \in all
        BY <2>3, <3>8, <4>1, <4>2
      <4> QED BY <2>1, <3>5, <3>6, <4>3 DEF SkipRuns
    <3> QED BY <3>7, <3>8
  <2>5. ASSUME NEW i \in 1 .. n, Within(i, k) PROVE i - 1 \in reached[k]
    <3>1. k \in Nat /\ i \in 1 .. n + 1
      BY <1>1
    <3>2. CASE at[i] = k + 1
      BY <2>4, <3>1, <3>2
    <3>3. CASE k # 0 /\ Within(i, k - 1) /\ at[i] # k + 1
      <4>0. text[k] # Newline
        <5>1. at[i] \in Nat /\ at[i] <= k /\ k + 1 <= at[i + 1]
          BY <1>4, <2>5, <3>1, <3>3
        <5> QED BY <1>8a, <2>5, <5>1
      <4>1. i - 1 \in all
        BY <2>2, <3>3, <4>0 DEF all
      <4>2. i - 1 \in 0 .. Len(regex) /\ i - 1 <= i - 1
        BY <1>1
      <4>3. \A l \in (i - 1) + 1 .. i - 1 : FALSE
        OBVIOUS
      <4> QED BY <2>1, <4>1, <4>2, <4>3 DEF SkipRuns
    <3> QED BY <1>8, <2>5, <3>1, <3>2, <3>3
  <2> QED BY <2>4, <2>5
<1> HIDE DEF Begun
<1>11. Len(text) \in S
  <2>1. 0 \in S
    BY <1>9
  <2>2. ASSUME NEW k \in Nat, k \in S PROVE k + 1 \in S
    <3> SUFFICES ASSUME k + 1 <= Len(text) PROVE Begun(k + 1)
      OBVIOUS
    <3>1. k + 1 \in 1 .. Len(text) /\ (k + 1) - 1 = k /\ k <= Len(text)
      BY <1>1
    <3>2. Begun((k + 1) - 1)
      BY <2>2, <3>1
    <3> QED BY <1>10, <3>1, <3>2
  <2> HIDE DEF S
  <2> QED BY <1>1, <2>1, <2>2, ByInduction
<1>12. (n + 1) - 1 \in reached[Len(text)]
  BY <1>1, <1>3, <1>11 DEF Begun
<1> QED BY <1>1, <1>12 DEF Accepts, reached

\* Without a wildcard a pattern reads itself.
LEMMA PlainReadsItself ==
  ASSUME NEW pattern \in Text, NEW text \in Text, ~HasWildcard(pattern)
  PROVE  Reads(pattern, text) <=> text = pattern
<1> DEFINE n == Len(pattern)
<1>1. n \in Nat /\ Len(text) \in Nat /\ DOMAIN pattern = 1 .. n
      /\ \A i \in 1 .. n : pattern[i] # "*"
  BY DEF Text, HasWildcard
<1>2. ASSUME text = pattern PROVE Reads(pattern, text)
  <2> DEFINE at == [i \in 1 .. n + 1 |-> i]
  <2>1. at \in [1 .. n + 1 -> 1 .. Len(text) + 1] /\ at[1] = 1 /\ at[n + 1] = Len(text) + 1
    BY <1>1, <1>2
  <2>2. \A i \in 1 .. n : ReadsPart(pattern, text, i, at[i], at[i + 1])
    BY <1>1, <1>2 DEF ReadsPart
  <2> HIDE DEF at
  <2>3. ReadsTo(pattern, text, n, Len(text))
    BY <2>1, <2>2 DEF ReadsTo
  <2> QED BY <2>3, ReadsIsReadsTo
<1>3. ASSUME Reads(pattern, text) PROVE text = pattern
  <2>1. PICK at \in [1 .. n + 1 -> 1 .. Len(text) + 1] :
          /\ at[1] = 1 /\ at[n + 1] = Len(text) + 1
          /\ \A i \in 1 .. n : ReadsPart(pattern, text, i, at[i], at[i + 1])
    BY <1>3, ReadsIsReadsTo DEF ReadsTo
  <2> HIDE DEF n
  <2>2. \A i \in 1 .. n : at[i + 1] = at[i] + 1 /\ text[at[i]] = pattern[i]
    BY <1>1, <2>1 DEF ReadsPart
  <2> DEFINE S == {i \in Nat : i <= n => at[i + 1] = i + 1}
  <2>3. 0 \in S
    BY <1>1, <2>1
  <2>4. ASSUME NEW i \in Nat, i \in S PROVE i + 1 \in S
    <3> SUFFICES ASSUME i + 1 <= n PROVE at[(i + 1) + 1] = (i + 1) + 1
      OBVIOUS
    <3>1. i + 1 \in 1 .. n /\ i <= n
      BY <1>1
    <3> QED BY <2>2, <2>4, <3>1
  <2>5. \A i \in Nat : i \in S
    <3> HIDE DEF S
    <3> QED BY <2>3, <2>4, ByInduction
  <2>6. Len(text) = n
    BY <1>1, <2>1, <2>5
  <2>7. ASSUME NEW i \in 1 .. n PROVE text[i] = pattern[i]
    <3>1. i - 1 \in Nat /\ i - 1 <= n /\ (i - 1) + 1 = i
      BY <1>1
    <3>2. at[i] = i
      BY <2>5, <3>1
    <3> QED BY <2>2, <3>2
  <2>8. text \in Seq(STRING) /\ pattern \in Seq(STRING) /\ Len(pattern) = n
    BY DEF Text, n
  <2>9. DOMAIN text = 1 .. n /\ DOMAIN pattern = 1 .. n
    BY <1>1, <2>6, <2>8
  <2>10. text = [i \in 1 .. n |-> text[i]] /\ pattern = [i \in 1 .. n |-> pattern[i]]
    BY <2>8, <2>9
  <2> QED BY <2>7, <2>10
<1> QED BY <1>2, <1>3

\* The regular expression of a host has no loose dot.
LEMMA HostRegexStandsFor ==
  ASSUME NEW host \in Text
  PROVE  StandsFor(HostRegex(host), host) /\ \A i \in 1 .. Len(host) : HostRegex(host)[i] # AnyOne
<1>1. Len(host) \in Nat /\ DOMAIN host = 1 .. Len(host)
      /\ \A i \in 1 .. Len(host) : host[i] \in STRING \ {AnyRun, AnyOne}
  BY DEF Text
<1>2. Len(HostRegex(host)) = Len(host)
  BY <1>1 DEF HostRegex
<1> QED BY <1>1, <1>2 DEF StandsFor, HostRegex, AnyRun, AnyOne

\* That of a path has one for each dot of the path.
LEMMA PathRegexStandsFor ==
  ASSUME NEW path \in Text
  PROVE  /\ StandsFor(PathRegex(path), path)
         /\ (\A i \in DOMAIN path : path[i] # ".")
              => \A i \in 1 .. Len(path) : PathRegex(path)[i] # AnyOne
<1>1. Len(path) \in Nat /\ DOMAIN path = 1 .. Len(path)
      /\ \A i \in 1 .. Len(path) : path[i] \in STRING \ {AnyRun, AnyOne}
  BY DEF Text
<1>2. Len(PathRegex(path)) = Len(path)
  BY <1>1 DEF PathRegex
<1>3. \A i \in 1 .. Len(path) :
        PathRegex(path)[i] = IF path[i] = "*" THEN AnyRun
                             ELSE IF path[i] = "." THEN AnyOne ELSE path[i]
  BY <1>1 DEF PathRegex
<1>4. StandsFor(PathRegex(path), path)
  BY <1>1, <1>2, <1>3 DEF StandsFor, AnyRun, AnyOne, Newline
<1>5. ASSUME \A i \in DOMAIN path : path[i] # ".", NEW i \in 1 .. Len(path)
      PROVE  PathRegex(path)[i] # AnyOne
  BY <1>1, <1>3, <1>5 DEF AnyRun, AnyOne
<1> QED BY <1>4, <1>5

\* A host matches what its pattern reads.
LEMMA HostMatches ==
  ASSUME NEW host \in Text, NEW text \in Text
  PROVE  (IF HasWildcard(host) THEN Accepts(HostRegex(host), text) ELSE text = host)
           <=> Reads(host, text)
  BY HostRegexStandsFor, AcceptedIsRead, ReadIsAccepted, PlainReadsItself

\* A path matches what its pattern reads, and if it is loose more than that.
LEMMA PathMatches ==
  ASSUME NEW path \in Text, NEW text \in Text
  PROVE  LET matches == IF HasWildcard(path) THEN Accepts(PathRegex(path), text) ELSE text = path
         IN  /\ Reads(path, text) => matches
             /\ matches => \/ Reads(path, text)
                           \/ HasWildcard(path) /\ \E i \in DOMAIN path : path[i] = "."
  BY PathRegexStandsFor, AcceptedIsRead, ReadIsAccepted, PlainReadsItself

--------------------------------------------------------------------------------
(* RouteTable: the table *)

\* What NewSimpleRouteMatcher makes of a route, whatever middleware was added.
MadeFrom(m, r) ==
  m = [name |-> r.name, host |-> r.host, path |-> r.path, prefix |-> r.prefix,
       methods |-> r.methods, headers |-> r.headers,
       hostRegex |-> HostRegex(r.host), pathRegex |-> PathRegex(r.path),
       middleware |-> m.middleware]

\* The table is made of the configuration in force, route by route.
RouteInv ==
  /\ DOMAIN inForce = 1 .. Len(inForce) /\ Len(inForce) \in Nat
  /\ \A i \in DOMAIN inForce : inForce[i].host \in Text /\ inForce[i].path \in Text
  /\ DOMAIN routes = DOMAIN inForce
  /\ \A i \in DOMAIN inForce : MadeFrom(routes[i], inForce[i])

\* The table is empty at first.
LEMMA RouteInvInit == NewRouteTable => RouteInv
  BY DEF NewRouteTable, RouteInv

\* A new configuration makes a new table; middleware changes no matcher.
LEMMA RouteInvNext == RouteInv /\ [RouteStep]_routeVars => RouteInv'
<1> SUFFICES ASSUME RouteInv, [RouteStep]_routeVars PROVE RouteInv'
  OBVIOUS
<1>1. CASE UpdateRoutes
  <2>1. PICK cfg \in RouteConfigs :
          /\ inForce' = cfg
          /\ routes' = [i \in DOMAIN cfg |-> NewSimpleRouteMatcher(cfg[i])]
    BY <1>1 DEF UpdateRoutes
  <2>2. /\ DOMAIN cfg = 1 .. Len(cfg) /\ Len(cfg) \in Nat
        /\ \A i \in DOMAIN cfg : cfg[i].host \in Text /\ cfg[i].path \in Text
    BY RouteTableAssumption
  <2>3. ASSUME NEW i \in DOMAIN cfg PROVE MadeFrom(routes'[i], cfg[i])
    BY <2>1 DEF MadeFrom, NewSimpleRouteMatcher
  <2> QED BY <2>1, <2>2, <2>3 DEF RouteInv
<1>2. CASE AddMiddleware
  <2>1. PICK i \in DOMAIN routes :
          /\ routes' = [routes EXCEPT ![i].middleware = @ + 1]
          /\ UNCHANGED inForce
    BY <1>2 DEF AddMiddleware
  <2>2. DOMAIN routes' = DOMAIN routes
    BY <2>1
  <2>3. ASSUME NEW j \in DOMAIN inForce PROVE MadeFrom(routes'[j], inForce[j])
    <3>1. MadeFrom(routes[j], inForce[j]) /\ j \in DOMAIN routes
      BY DEF RouteInv
    <3>2. CASE j = i
      <4>1. routes'[j] = [routes[j] EXCEPT !.middleware = @ + 1]
        BY <2>1, <3>1, <3>2
      <4> QED BY <3>1, <4>1 DEF MadeFrom
    <3>3. CASE j # i
      BY <2>1, <3>1, <3>3
    <3> QED BY <3>2, <3>3
  <2> QED BY <2>1, <2>2, <2>3 DEF RouteInv
<1>3. CASE UNCHANGED routeVars
  BY <1>3 DEF routeVars, RouteInv
<1> QED BY <1>1, <1>2, <1>3 DEF RouteStep

\* FindRoute gives the least place whose route matches.
LEMMA FindsFirst ==
  ASSUME NEW req, RouteInv
  PROVE  LET fits == {i \in DOMAIN routes : Match(routes[i], req)}
         IN  /\ fits # {} => FindRoute(req) \in fits /\ \A i \in fits : FindRoute(req) <= i
             /\ fits = {} => FindRoute(req) = 0
<1> DEFINE fits == {i \in DOMAIN routes : Match(routes[i], req)}
<1>1. fits \subseteq Nat
  BY DEF RouteInv
<1>2. FindRoute(req) = IF fits = {} THEN 0 ELSE CHOOSE i \in fits : \A j \in fits : i <= j
  BY DEF FindRoute
<1> HIDE DEF fits
<1>3. CASE fits # {}
  <2>1. \E i \in fits : \A j \in fits : i <= j
    BY <1>1, <1>3, LeastElement
  <2> QED BY <1>2, <1>3, <2>1 DEF fits
<1>4. CASE fits = {}
  BY <1>2, <1>4 DEF fits
<1> QED BY <1>3, <1>4

\* A route matches what it is meant for, and if it is loose more than that.
LEMMA MatchesWanted ==
  ASSUME NEW m, NEW r, MadeFrom(m, r), r.host \in Text, r.path \in Text,
         NEW req, req.host \in Text, req.path \in Text
  PROVE  /\ Wanted(r, req) => Match(m, req)
         /\ Match(m, req) => Wanted(r, req) \/ Loose(r)
<1>1. /\ m.host = r.host /\ m.path = r.path /\ m.prefix = r.prefix /\ m.methods = r.methods
      /\ m.headers = r.headers /\ m.hostRegex = HostRegex(r.host) /\ m.pathRegex = PathRegex(r.path)
  BY DEF MadeFrom
<1> DEFINE onHost == IF HasWildcard(r.host) THEN Accepts(HostRegex(r.host), req.host)
                     ELSE req.host = r.host
           onPath == IF HasWildcard(r.path) THEN Accepts(PathRegex(r.path), req.path)
                     ELSE req.path = r.path
           others == /\ HasPrefix(req.path, r.prefix)
                     /\ r.methods # {} => req.method \in r.methods
                     /\ \A h \in DOMAIN r.headers : req.headers[h] = r.headers[h]
<1>2. Match(m, req) <=> (r.host # <<>> => onHost) /\ (r.path # <<>> => onPath) /\ others
  BY <1>1, ZenonT(60) DEF Match
<1>3. Wanted(r, req) <=> /\ r.host = <<>> \/ Reads(r.host, req.host)
                         /\ r.path = <<>> \/ Reads(r.path, req.path)
                         /\ others
  BY Zenon DEF Wanted
<1>4. onHost <=> Reads(r.host, req.host)
  BY HostMatches
<1>5. /\ Reads(r.path, req.path) => onPath
      /\ onPath => Reads(r.path, req.path) \/ Loose(r)
  BY PathMatches DEF Loose
<1> HIDE DEF onHost, onPath, others
<1> QED BY <1>2, <1>3, <1>4, <1>5

\* So the first route that matches is the first that is wanted, or a loose one
\* before it.
LEMMA TableServesAsWritten == RouteInv => ServesAsWritten
<1> SUFFICES ASSUME RouteInv, NEW req \in Requests
             PROVE  LET wanted == {i \in DOMAIN inForce : Wanted(inForce[i], req)}
                        found == FindRoute(req)
                    IN  /\ wanted # {} => found # 0 /\ \A i \in wanted : found <= i
                        /\ found # 0 => found \in wanted \/ Loose(inForce[found])
  BY DEF ServesAsWritten
<1> DEFINE wanted == {i \in DOMAIN inForce : Wanted(inForce[i], req)}
           fits == {i \in DOMAIN routes : Match(routes[i], req)}
<1>1. ASSUME NEW i \in DOMAIN inForce
      PROVE  /\ i \in wanted => i \in fits
             /\ i \in fits => i \in wanted \/ Loose(inForce[i])
  <2>1. /\ MadeFrom(routes[i], inForce[i]) /\ i \in DOMAIN routes
        /\ inForce[i].host \in Text /\ inForce[i].path \in Text
        /\ req.host \in Text /\ req.path \in Text
    BY RouteTableAssumption DEF RouteInv
  <2> QED BY <2>1, MatchesWanted
<1>2. /\ fits # {} => FindRoute(req) \in fits /\ \A i \in fits : FindRoute(req) <= i
      /\ fits = {} => FindRoute(req) = 0
  BY FindsFirst
<1>3. wanted \subseteq fits /\ fits \subseteq DOMAIN inForce /\ 0 \notin DOMAIN inForce
  BY <1>1 DEF RouteInv
<1> HIDE DEF wanted, fits
<1>4. ASSUME wanted # {} PROVE FindRoute(req) # 0 /\ \A i \in wanted : FindRoute(req) <= i
  BY <1>2, <1>3, <1>4
<1>5. ASSUME FindRoute(req) # 0
      PROVE  FindRoute(req) \in wanted \/ Loose(inForce[FindRoute(req)])
  <2>1. FindRoute(req) \in fits /\ FindRoute(req) \in DOMAIN inForce
    BY <1>2, <1>3, <1>5
  <2> QED BY <1>1, <2>1
<1> QED BY <1>4, <1>5 DEF wanted

\* Every request is served by the first route of the configuration in force that is meant for it.
LEMMA RoutesServeAsWritten == RouteSpec => []ServesAsWritten
  BY RouteInvInit, RouteInvNext, TableServesAsWritten, PTL DEF RouteSpec

--------------------------------------------------------------------------------
(* What the server promises *)

\* Every window of every token bucket: no more requests pass than the capacity
\* and the refill of the window pay for.
THEOREM WindowBounded == ServerSpec => []WindowBound
  BY ServerRunsItsParts, WindowInvariant, PTL

\* The token bucket, which TokenBucket.Allow refills lazily, gives the answers of
\* a pool that is refilled at every tick.
THEOREM RefinesPool == ServerSpec => ImplementsPool
  BY ServerRunsItsParts, BucketRefinesPool, PTL

\* A request that ReplayProtection.Check has let pass is not let pass by a call
\* that begins afterwards, whatever cleanup forgets: for any number of requests,
\* callers and seconds and any window.
THEOREM NoReplay == ServerSpec => []AcceptedOnce
<1>1. ReplayInv => AcceptedOnce
  BY DEF ReplayInv
<1>2. QED
  BY <1>1, ServerRunsItsParts, ReplayInvariant, PTL

\* The token cache of AuthMiddleware never lets a credential pass that the
\* validator would refuse, however calls of Authenticate and Cleanup interleave.
THEOREM CacheAddsNothing == ServerSpec => []CacheIsTransparent
<1>1. CacheInv => CacheIsTransparent
  BY DEF CacheInv
<1>2. QED
  BY <1>1, ServerRunsItsParts, CacheInvariant, PTL

\* Every answer of ACLMiddleware.Allow and GeoIPBlocker.IsBlocked is that of some
\* configuration in force during the call, although the switch and the rules are
\* read apart.
THEOREM DecisionsAreSome == ServerSpec => []DecisionsWereInForce
<1>1. DecisionInv => DecisionsWereInForce
  BY DEF DecisionInv
<1>2. QED
  BY <1>1, ServerRunsItsParts, DecisionInvariant, PTL

\* The four agents that ProcessTask runs one after the other have one
\* configuration for one task, while UpdateConfig replaces theirs one by one.
THEOREM TasksSeeOneConfiguration == ServerSpec => []OneConfigurationPerTask
  BY ServerRunsItsParts, OneInvariant, PTL

\* The audit log, the history of the coordinator, the memories and the skills keep
\* to the limits they have been given, for any limits in any order.
THEOREM LimitsAreKept == ServerSpec => []KeepsToLimits
<1>1. HistoryInv => HistoryHoldsLatest
  BY DEF HistoryInv
<1>2. MemoryInv => MemoriesHoldLatest
  BY DEF MemoryInv
<1>3. SkillInv => SkillsWithinLimit
  BY DEF SkillInv
<1>4. ServerSpec => /\ []AuditHoldsLatest /\ []HistoryHoldsLatest
                    /\ []MemoriesHoldLatest /\ []SkillsWithinLimit
  BY <1>1, <1>2, <1>3, ServerRunsItsParts, AuditLogHoldsLatest, HistoryInvariant,
     MemoryInvariant, SkillInvariant, PTL
<1>5. AuditHoldsLatest /\ HistoryHoldsLatest /\ MemoriesHoldLatest /\ SkillsWithinLimit
        => KeepsToLimits
  BY DEF KeepsToLimits
<1>6. QED
  BY <1>4, <1>5, PTL

\* Evolve stores an experience and analyses it, or does neither, while
\* UpdateConfig switches one part after the other.
THEOREM EvolutionIsWhole == ServerSpec => []EvolvesWhole
<1>1. WholeInv => EvolvesWhole
  BY WholeIsWhole
<1>2. QED
  BY <1>1, ServerRunsItsParts, WholeInvariant, PTL

\* FindRoute serves a request by the first route of the configuration in force that
\* is meant for it: MatchString accepts exactly what the pattern of a host says, and
\* more than that of a path only for a wildcard together with a dot.  A wildcard
\* stands for any run of characters without a line break.  For patterns and
\* requests of any length.
THEOREM RoutesServeWhatIsWritten == ServerSpec => []ServesAsWritten
  BY ServerRunsItsParts, RoutesServeAsWritten, PTL

\* Every part of the server keeps to its types: a bucket holds no more than its
\* capacity, and no route has more errors than requests.
THEOREM ServerTypesCorrect == ServerSpec => []ServerTypeOK
<1>1. ReplayInv => ReplayTypeOK
  BY DEF ReplayInv
<1>2. CacheInv => AuthTypeOK
  BY DEF CacheInv
<1>3. DecisionInv => AccessTypeOK
  BY DEF DecisionInv
<1>4. HistoryInv => AgentTypeOK
  BY DEF HistoryInv
<1>5. MemoryInv /\ SkillInv /\ WholeInv /\ ConfiguredInv => EvolutionTypeOK
  BY EvolutionTypes
<1>6. MetricsInv /\ TypeOK /\ ReplayTypeOK /\ AuthTypeOK /\ AccessTypeOK /\ AgentTypeOK
        /\ EvolutionTypeOK => ServerTypeOK
  BY DEF MetricsInv, Counters, ServerTypeOK
<1>7. ServerSpec => /\ []MetricsInv /\ []TypeOK /\ []ReplayTypeOK /\ []AuthTypeOK
                    /\ []AccessTypeOK /\ []AgentTypeOK /\ []EvolutionTypeOK
  BY <1>1, <1>2, <1>3, <1>4, <1>5, ServerRunsItsParts, MetricsInvariant, BucketTypeInvariant,
     ReplayInvariant, CacheInvariant, DecisionInvariant, HistoryInvariant, MemoryInvariant,
     SkillInvariant, WholeInvariant, ConfiguredInvariant, PTL
<1>8. QED
  BY <1>6, <1>7, PTL
================================================================================
