----------------------------- MODULE AgentFramework -----------------------------
(***************************************************************************)
(* The agent framework (pkg/agent and its planner, executor, validator and *)
(* coordinator).  Each agent has a configuration under a lock of its own;  *)
(* the framework has a RWMutex, which ProcessTask holds for reading while  *)
(* it asks one agent after the other, and UpdateConfig for writing while   *)
(* it replaces one configuration after the other.  GetPlanner and the      *)
(* other getters hand the agents out, and then neither lock nor order      *)
(* binds anybody.                                                          *)
(*                                                                         *)
(* The agents are stubs: a plan, its execution and its validation always   *)
(* succeed, so that what is left of them is which configuration they had.  *)
(* A record of the history is its number.                                  *)
(***************************************************************************)
EXTENDS RecordOps

CONSTANTS
  AgentConfig,   \* the configurations: [name, tracked, limit]
  Worker,        \* the goroutines that call ProcessTask
  MaxTasks       \* bound on the tasks completed

ASSUME AgentAssumption ==
  \A c \in AgentConfig : c.tracked \in BOOLEAN /\ c.limit \in Nat

Agent == <<"planner", "executor", "validator", "coordinator">>
Agents == {Agent[i] : i \in 1 .. 4}

VARIABLES
  agentConfig,   \* each agent's part of a configuration, as that configuration
  updating,      \* the configuration UpdateConfig is giving out, and to how many
  task,          \* each worker: how many agents have had its task, 0 if it has none
  usedBy,        \* history: the configurations the agents had for it; kept until
                 \* an agent is configured behind the framework's back
  history,       \* c.history
  completed,     \* history: how many completions were recorded
  limits,        \* history: the smallest and the largest limit so far
  bypassed       \* history: an agent was configured through a getter

agentVars == <<agentConfig, updating, task, usedBy, history, completed, limits, bypassed>>

NotUpdating == [to |-> CHOOSE c \in AgentConfig : TRUE, given |-> 4]

AgentTypeOK ==
  /\ agentConfig \in [Agents -> AgentConfig]
  /\ updating \in [to : AgentConfig, given : 0 .. 4]
  /\ task \in [Worker -> 0 .. 4]
  /\ usedBy \in [Worker -> SUBSET AgentConfig]
  /\ history \in Seq(Nat)
  /\ completed \in Nat
  /\ limits \in [least : Nat, most : Nat]
  /\ bypassed \in BOOLEAN

NewAgentFramework ==
  /\ \E c \in AgentConfig :
       /\ agentConfig = [a \in Agents |-> c]
       /\ limits = [least |-> c.limit, most |-> c.limit]
  /\ updating = NotUpdating
  /\ task = [w \in Worker |-> 0]
  /\ usedBy = [w \in Worker |-> {}]
  /\ history = <<>>
  /\ completed = 0
  /\ bypassed = FALSE

--------------------------------------------------------------------------------
(* ProcessTask.  In a worker's task, 1 to 4 is the agent it asks next.     *)

WriteLocked == updating.given < 4
ReadLocked == \E w \in Worker : task[w] # 0

StartTask(w) ==
  /\ task[w] = 0
  /\ ~WriteLocked
  /\ completed < MaxTasks
  /\ task' = [task EXCEPT ![w] = 1]
  /\ usedBy' = [usedBy EXCEPT ![w] = {}]
  /\ UNCHANGED <<agentConfig, updating, history, completed, limits, bypassed>>

Witnessed(w, c) == usedBy' = IF bypassed THEN usedBy ELSE [usedBy EXCEPT ![w] = @ \cup {c}]

\* CreatePlan, Execute and Validate: whatever their configuration, they succeed.
AskAgent(w) ==
  /\ task[w] \in 1 .. 3
  /\ task' = [task EXCEPT ![w] = @ + 1]
  /\ Witnessed(w, agentConfig[Agent[task[w]]])
  /\ UNCHANGED <<agentConfig, updating, history, completed, limits, bypassed>>

\* The coordinator records the completion if it tracks them; the task is done.
RecordCompletion(w) ==
  LET c == agentConfig["coordinator"] IN
  /\ task[w] = 4
  /\ task' = [task EXCEPT ![w] = 0]
  /\ Witnessed(w, c)
  /\ IF c.tracked
       THEN /\ completed' = completed + 1
            /\ history' = Push(history, completed + 1, c.limit)
       ELSE UNCHANGED <<history, completed>>
  /\ UNCHANGED <<agentConfig, updating, limits, bypassed>>

--------------------------------------------------------------------------------
(* UpdateConfig of the framework, and of an agent got from it *)

\* Mutant: UpdateConfig does not wait for the tasks under way.
LockForUpdateEagerly ==
  /\ ~WriteLocked
  /\ \E c \in AgentConfig : updating' = [to |-> c, given |-> 0]
  /\ UNCHANGED <<agentConfig, task, usedBy, history, completed, limits, bypassed>>

LockForUpdate ==
  /\ ~WriteLocked /\ ~ReadLocked
  /\ \E c \in AgentConfig : updating' = [to |-> c, given |-> 0]
  /\ UNCHANGED <<agentConfig, task, usedBy, history, completed, limits, bypassed>>

\* The coordinator keeps its history when its limit changes.
Configure(a, c) ==
  /\ agentConfig' = [agentConfig EXCEPT ![a] = c]
  /\ limits' = IF a # "coordinator" THEN limits
               ELSE [least |-> Smaller(limits.least, c.limit), most |-> Larger(limits.most, c.limit)]

UpdateAgent ==
  /\ WriteLocked
  /\ Configure(Agent[updating.given + 1], updating.to)
  /\ updating' = IF updating.given = 3 THEN NotUpdating ELSE [updating EXCEPT !.given = @ + 1]
  /\ UNCHANGED <<task, usedBy, history, completed, bypassed>>

ConfigureDirectly ==
  /\ \E a \in Agents, c \in AgentConfig : Configure(a, c)
  /\ bypassed' = TRUE
  /\ usedBy' = [w \in Worker |-> {}]
  /\ UNCHANGED <<updating, task, history, completed>>

AgentStep ==
  \/ \E w \in Worker : StartTask(w) \/ AskAgent(w) \/ RecordCompletion(w)
  \/ LockForUpdate
  \/ UpdateAgent
  \/ ConfigureDirectly

AgentSpec == NewAgentFramework /\ [][AgentStep]_agentVars

--------------------------------------------------------------------------------

\* A task is planned, executed, validated and recorded under one configuration,
\* although it asks four agents and an update changes them one by one; unless an
\* agent has been configured behind the framework's back.
OneConfigurationPerTask ==
  ~bypassed => \A w \in Worker : \A c, d \in usedBy[w] : c = d

\* The history is the latest completions, whoever completes and whatever limit
\* comes into force.  It is not promised to fit a limit that was lowered: one
\* record goes for each that comes.
HistoryHoldsLatest == HoldsLatest(history, completed, limits.least, limits.most)
================================================================================
