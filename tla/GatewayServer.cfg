SPECIFICATION FairServerSpec

CONSTANTS
  Watched <- FollowedAlone
  Unit = 3
  Capacity = 7
  Rate = 2
  MaxWindow = 8
  Nonce = {n1}
  Sender = {s1, s2}
  Window = 1
  MaxTime = 4
  Credential = {"good", "bad"}
  Genuine = {"good"}
  Login = {l1, l2}
  AclConfig <- ThreeACLs
  Country = {"CN"}
  Visitor = {v1, v2}
  MaxRules = 2
  AuditSizes = {0, 2}
  MaxAudited = 4
  AgentConfig <- ThreeAgentConfigs
  Worker = {w1, w2}
  MaxTasks = 3
  EvolutionConfig <- ThreeEvolutionConfigs
  Skill = {"k1"}
  Strategy = {"s1"}
  MaxStored = 3
  MaxEvolved = 2
  RouteConfigs <- OneOrTwoRoutes
  Requests <- SomeRequests
  MaxMiddleware = 1
  Label = {"r1"}
  MaxRecorded = 2

INVARIANTS
  ServerTypeOK
  WindowBound
  AcceptedOnce
  CacheIsTransparent
  DecisionsWereInForce
  OneConfigurationPerTask
  KeepsToLimits
  EvolvesWhole
  ServesAsWritten

PROPERTIES
  ImplementsPool
  Forgets
