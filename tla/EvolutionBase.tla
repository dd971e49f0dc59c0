----------------------------- MODULE EvolutionBase ------------------------------
(***************************************************************************)
(* The self-evolution base (pkg/evolution): the memory system, the skill   *)
(* registry and the strategy optimizer, each under a lock of its own.  The *)
(* base has a lock that Evolve and UpdateConfig hold while they go from    *)
(* one part to the next; the getters hand the parts out without it.        *)
(*                                                                         *)
(* An entry of the memories is its number; lessons are experiences that    *)
(* are stored without a look at the limit.  A score is in tenths.          *)
(***************************************************************************)
EXTENDS RecordOps, FiniteSets

CONSTANTS
  EvolutionConfig,   \* the configurations: [memory, skill : [enabled, limit],
                     \*                      strategy : [enabled]]
  Skill,             \* IDs of skills
  Strategy,          \* IDs of strategies
  MaxStored,         \* bound on the entries ever stored
  MaxEvolved         \* bound on the experiences Evolve stores and on the scores

ASSUME EvolutionAssumption ==
  /\ IsFiniteSet(Skill)
  /\ \A c \in EvolutionConfig :
       /\ c.memory.enabled \in BOOLEAN /\ c.memory.limit \in Nat
       /\ c.skill.enabled \in BOOLEAN /\ c.skill.limit \in Nat
       /\ c.strategy.enabled \in BOOLEAN

VARIABLES
  memoryConfig, skillConfig, strategyConfig,   \* the configuration of each part
  base,          \* who holds seb.mu, and how far it has got
  memories,      \* m.memories
  stored,        \* history: entries stored since the memories were last empty
  lessons,       \* history: how many of these were lessons
  memoryLimits,  \* history: the smallest and the largest limit so far
  skills,        \* the IDs in r.skills
  skillLimit,    \* history: the largest limit of the registry so far
  scores,        \* o.strategies: the score of each, or Unregistered
  evolved,       \* history: experiences stored by Evolve
  analysed,      \* history: of these, those whose Evolve has gone on to the scores
  scoredFrom,    \* history: the value of analysed when a strategy was registered
  reconfigured   \* history: a part was configured through a getter

evolutionVars == <<memoryConfig, skillConfig, strategyConfig, base, memories, stored,
                   lessons, memoryLimits, skills, skillLimit, scores, evolved,
                   analysed, scoredFrom, reconfigured>>

memoryVars == <<memories, stored, lessons>>
skillVars == <<skillConfig, skills, skillLimit>>
scoreVars == <<scores, scoredFrom, analysed>>

Unregistered == -1

Free == [by |-> "nobody", to |-> CHOOSE c \in EvolutionConfig : TRUE]

EvolutionTypeOK ==
  /\ \E c \in EvolutionConfig : memoryConfig = c.memory
  /\ \E c \in EvolutionConfig : skillConfig = c.skill
  /\ \E c \in EvolutionConfig : strategyConfig = c.strategy
  /\ base \in [by : {"nobody", "evolve", "skills", "memories", "strategies"},
               to : EvolutionConfig]
  /\ memories \in Seq(Nat) /\ stored \in Nat /\ lessons \in Nat
  /\ memoryLimits \in [least : Nat, most : Nat]
  /\ skills \in SUBSET Skill /\ skillLimit \in Nat
  /\ scores \in [Strategy -> {Unregistered} \cup Nat]
  /\ evolved \in Nat /\ analysed \in Nat
  /\ scoredFrom \in [Strategy -> Nat]
  /\ reconfigured \in BOOLEAN

BuiltFrom(c) ==
  /\ memoryConfig = c.memory /\ skillConfig = c.skill /\ strategyConfig = c.strategy
  /\ memoryLimits = [least |-> c.memory.limit, most |-> c.memory.limit]
  /\ skillLimit = c.skill.limit

NewSelfEvolutionBase ==
  /\ \E c \in EvolutionConfig : BuiltFrom(c)
  /\ base = Free
  /\ memories = <<>> /\ stored = 0 /\ lessons = 0
  /\ skills = {}
  /\ scores = [s \in Strategy |-> Unregistered]
  /\ evolved = 0 /\ analysed = 0
  /\ scoredFrom = [s \in Strategy |-> 0]
  /\ reconfigured = FALSE

--------------------------------------------------------------------------------
(* Evolve *)

Remember(isLesson, limit) ==
  /\ stored' = stored + 1
  /\ memories' = IF isLesson THEN Append(memories, stored + 1)
                 ELSE Push(memories, stored + 1, limit)
  /\ lessons' = IF isLesson THEN lessons + 1 ELSE lessons

\* Evolve takes the lock and stores its experience.
EvolveStore ==
  /\ base = Free
  /\ evolved < MaxEvolved /\ stored < MaxStored
  /\ \A s \in Strategy : scores[s] < MaxEvolved
  /\ base' = [base EXCEPT !.by = "evolve"]
  /\ IF memoryConfig.enabled
       THEN Remember(FALSE, memoryConfig.limit) /\ evolved' = evolved + 1
       ELSE UNCHANGED <<memoryVars, evolved>>
  /\ UNCHANGED <<memoryConfig, strategyConfig, memoryLimits, skillVars, scoreVars, reconfigured>>

\* AnalyzeAndOptimize raises every score, and Evolve gives the lock back.
EvolveOptimize ==
  /\ base.by = "evolve"
  /\ base' = Free
  /\ scores' = [s \in Strategy |->
       IF strategyConfig.enabled /\ scores[s] # Unregistered THEN scores[s] + 1 ELSE scores[s]]
  /\ analysed' = evolved
  /\ UNCHANGED <<memoryConfig, strategyConfig, memoryVars, memoryLimits, skillVars, evolved,
                 scoredFrom, reconfigured>>

--------------------------------------------------------------------------------
(* UpdateConfig, one part after the other *)

ConfigureSkills(c) ==
  /\ skillConfig' = c.skill
  /\ skillLimit' = Larger(skillLimit, c.skill.limit)
  /\ UNCHANGED <<memoryConfig, strategyConfig, memoryLimits>>

ConfigureMemories(c) ==
  /\ memoryConfig' = c.memory
  /\ memoryLimits' = [least |-> Smaller(memoryLimits.least, c.memory.limit),
                      most |-> Larger(memoryLimits.most, c.memory.limit)]
  /\ UNCHANGED <<skillConfig, strategyConfig, skillLimit>>

ConfigureStrategies(c) ==
  /\ strategyConfig' = c.strategy
  /\ UNCHANGED <<memoryConfig, skillConfig, memoryLimits, skillLimit>>

BeginUpdate ==
  /\ base = Free
  /\ \E c \in EvolutionConfig : base' = [by |-> "skills", to |-> c]
  /\ UNCHANGED <<memoryConfig, skillConfig, strategyConfig, memoryVars, memoryLimits, skills,
                 skillLimit, scoreVars, evolved, reconfigured>>

\* Mutant: the strategies are left with the configuration they have.
UpdatePartForgetful ==
  /\ \/ base.by = "skills" /\ ConfigureSkills(base.to) /\ base' = [base EXCEPT !.by = "memories"]
     \/ base.by = "memories" /\ ConfigureMemories(base.to) /\ base' = Free
  /\ UNCHANGED <<memoryVars, skills, scoreVars, evolved, reconfigured>>

UpdatePart ==
  /\ \/ base.by = "skills" /\ ConfigureSkills(base.to) /\ base' = [base EXCEPT !.by = "memories"]
     \/ base.by = "memories" /\ ConfigureMemories(base.to) /\ base' = [base EXCEPT !.by = "strategies"]
     \/ base.by = "strategies" /\ ConfigureStrategies(base.to) /\ base' = Free
  /\ UNCHANGED <<memoryVars, skills, scoreVars, evolved, reconfigured>>

--------------------------------------------------------------------------------
(* Calls of a part that a getter has handed out *)

ConfigurePart ==
  /\ \E c \in EvolutionConfig :
       ConfigureSkills(c) \/ ConfigureMemories(c) \/ ConfigureStrategies(c)
  /\ reconfigured' = TRUE
  /\ UNCHANGED <<base, memoryVars, skills, scoreVars, evolved>>

\* StoreExperience and StoreLesson
Store ==
  /\ stored < MaxStored
  /\ memoryConfig.enabled
  /\ \E isLesson \in BOOLEAN : Remember(isLesson, memoryConfig.limit)
  /\ UNCHANGED <<memoryConfig, strategyConfig, base, memoryLimits, skillVars, scoreVars, evolved,
                 reconfigured>>

Clear ==
  /\ memories' = <<>> /\ stored' = 0 /\ lessons' = 0
  /\ UNCHANGED <<memoryConfig, strategyConfig, base, memoryLimits, skillVars, scoreVars, evolved,
                 reconfigured>>

\* A registry that is full takes no skill, not even a new version of one it has.
Register(s) ==
  /\ skillConfig.enabled
  /\ Cardinality(skills) < skillConfig.limit
  /\ skills' = skills \cup {s}
  /\ UNCHANGED <<memoryConfig, skillConfig, strategyConfig, base, memoryVars, memoryLimits,
                 skillLimit, scoreVars, evolved, reconfigured>>

Unregister(s) ==
  /\ s \in skills
  /\ skills' = skills \ {s}
  /\ UNCHANGED <<memoryConfig, skillConfig, strategyConfig, base, memoryVars, memoryLimits,
                 skillLimit, scoreVars, evolved, reconfigured>>

\* A strategy comes with no score; one that was registered under its ID is gone.
RegisterStrategy(s) ==
  /\ scores' = [scores EXCEPT ![s] = 0]
  /\ scoredFrom' = [scoredFrom EXCEPT ![s] = analysed]
  /\ UNCHANGED <<memoryConfig, strategyConfig, base, memoryVars, memoryLimits, skillVars, evolved,
                 analysed, reconfigured>>

EvolutionStep ==
  \/ EvolveStore
  \/ EvolveOptimize
  \/ BeginUpdate
  \/ UpdatePart
  \/ ConfigurePart
  \/ Store
  \/ Clear
  \/ \E s \in Skill : Register(s) \/ Unregister(s)
  \/ \E s \in Strategy : RegisterStrategy(s)

EvolutionSpec == NewSelfEvolutionBase /\ [][EvolutionStep]_evolutionVars

--------------------------------------------------------------------------------

\* The memories are the latest entries.  What exceeds the largest limit so far
\* is no more than the lessons, which are stored whatever the limit; an
\* experience stored after them takes one entry away, not all that are too many.
MemoriesHoldLatest ==
  HoldsLatest(memories, stored, memoryLimits.least, memoryLimits.most + lessons)

\* Register never takes the registry over the largest limit it has had, however
\* callers register, unregister and change the limit; a lowered limit removes
\* nothing.
SkillsWithinLimit == Cardinality(skills) <= skillLimit

\* An experience and its analysis go together: as long as nobody configures a
\* part behind the base's back, and configurations switch memories and strategies
\* on and off together, the score of a strategy is the number of experiences
\* Evolve has stored since it was registered, and none is left without its
\* analysis, but for the one whose Evolve is under way.
SwitchedTogether == \A c \in EvolutionConfig : c.memory.enabled = c.strategy.enabled

EvolvesWhole ==
  SwitchedTogether /\ ~reconfigured =>
    /\ \A s \in Strategy : scores[s] # Unregistered => scores[s] + scoredFrom[s] = analysed
    /\ evolved = analysed \/ (base.by = "evolve" /\ evolved = analysed + 1)
================================================================================
