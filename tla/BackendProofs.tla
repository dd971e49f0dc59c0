----------------------------- MODULE BackendProofs ------------------------------
(***************************************************************************)
(* The balancers and the health checker of pkg/loadbalancer and            *)
(* pkg/health, for any number of nodes and handlers, any list and any      *)
(* thresholds.                                                             *)
(***************************************************************************)
EXTENDS RoundRobin, SharedBalancer, HealthChecker, FiniteSetTheorems, SequenceTheorems, TLAPS

--------------------------------------------------------------------------------
(* Places on a ring *)

\* What a remainder is for the indices the balancers compute.
LEMMA Wraps ==
  ASSUME NEW L \in Nat \ {0}
  PROVE  /\ \A i \in Int : i % L \in 0 .. L - 1
         /\ \A i \in 0 .. L - 1 : i % L = i
         /\ \A i \in L .. 2 * L - 1 : i % L = i - L
<1>1. \A i \in Int : i % L \in 0 .. L - 1
  OBVIOUS
<1>2. ASSUME NEW i \in 0 .. L - 1 PROVE i % L = i
  <2>1. i = L * (i \div L) + (i % L) /\ i % L \in 0 .. L - 1 /\ i \div L \in Int
    OBVIOUS
  <2> QED BY <2>1
<1>3. ASSUME NEW i \in L .. 2 * L - 1 PROVE i % L = i - L
  OBVIOUS
<1> QED BY <1>1, <1>2, <1>3

--------------------------------------------------------------------------------
(* The list of nodes *)

\* Add puts its node behind the others.
LEMMA AppendKeepsList ==
  ASSUME ListTypeOK, NEW n \in Node, ListAppend(n)
  PROVE  /\ ListTypeOK' /\ Len(nodes') = Len(nodes) + 1
         /\ \A i \in 1 .. Len(nodes) : nodes'[i] = nodes[i]
         /\ nodes'[Len(nodes) + 1] = n
         /\ Listed' = Listed \cup {n}
<1>1. /\ nodes \in Seq(Node) /\ nodes' = Append(nodes, n) /\ Len(nodes) \in Nat
      /\ nodes' \in Seq(Node) /\ Len(nodes') = Len(nodes) + 1
      /\ \A i \in 1 .. Len(nodes) : nodes'[i] = nodes[i]
      /\ nodes'[Len(nodes) + 1] = n
  BY DEF ListTypeOK, ListAppend
<1>2. n \notin Listed
  BY DEF ListAppend
<1>3. Distinct(nodes')
  BY <1>1, <1>2 DEF Distinct, Listed, ListTypeOK
<1>4. Listed' = Listed \cup {n}
  BY <1>1 DEF Listed
<1> QED BY <1>1, <1>3, <1>4 DEF ListTypeOK

\* Remove moves the nodes behind the one it takes out one place up.
LEMMA DeleteKeepsList ==
  ASSUME ListTypeOK, NEW n, ListDelete(n)
  PROVE  \E p \in 1 .. Len(nodes) :
           /\ nodes[p] = n
           /\ ListTypeOK' /\ Len(nodes') = Len(nodes) - 1
           /\ \A i \in 1 .. Len(nodes') : nodes'[i] = IF i < p THEN nodes[i] ELSE nodes[i + 1]
           /\ Listed' = Listed \ {n}
<1>1. PICK p \in 1 .. Len(nodes) :
        nodes[p] = n /\ nodes' = SubSeq(nodes, 1, p - 1) \o SubSeq(nodes, p + 1, Len(nodes))
  BY DEF ListDelete
<1>2. nodes \in Seq(Node) /\ Len(nodes) \in Nat
  BY DEF ListTypeOK
<1> DEFINE front == SubSeq(nodes, 1, p - 1)
           back == SubSeq(nodes, p + 1, Len(nodes))
<1>3. /\ front \in Seq(Node) /\ Len(front) = p - 1
      /\ \A i \in 1 .. p - 1 : front[i] = nodes[i]
  BY <1>1, <1>2
<1>4. /\ back \in Seq(Node) /\ Len(back) = Len(nodes) - p
      /\ \A i \in 1 .. Len(nodes) - p : back[i] = nodes[p + i]
  BY <1>1, <1>2
<1> HIDE DEF front, back
<1>5. nodes' = front \o back
  BY <1>1 DEF front, back
<1>6. /\ nodes' \in Seq(Node) /\ Len(nodes') = Len(nodes) - 1
      /\ \A i \in 1 .. Len(nodes') : nodes'[i] = IF i <= p - 1 THEN front[i] ELSE back[i - (p - 1)]
  BY <1>2, <1>3, <1>4, <1>5
<1>7. \A i \in 1 .. Len(nodes') : nodes'[i] = IF i < p THEN nodes[i] ELSE nodes[i + 1]
  <2> TAKE i \in 1 .. Len(nodes')
  <2>1. CASE i < p
    BY <1>2, <1>3, <1>6, <2>1
  <2>2. CASE i >= p
    <3>1. i - (p - 1) \in 1 .. Len(nodes) - p /\ p + (i - (p - 1)) = i + 1 /\ ~(i <= p - 1)
      BY <1>2, <1>6, <2>2
    <3>2. back[i - (p - 1)] = nodes[i + 1]
      BY <1>4, <3>1
    <3> QED BY <1>6, <3>1, <3>2, <2>2
  <2> QED BY <1>2, <1>6, <2>1, <2>2
\* The place a node had before.
<1> DEFINE old(i) == IF i < p THEN i ELSE i + 1
<1>10. \A i \in 1 .. Len(nodes') :
         old(i) \in 1 .. Len(nodes) /\ old(i) # p /\ nodes'[i] = nodes[old(i)]
  <2> TAKE i \in 1 .. Len(nodes')
  <2>1. i \in Int /\ i >= 1 /\ i <= Len(nodes) - 1 /\ p \in Int
    BY <1>2, <1>6
  <2>2. old(i) \in 1 .. Len(nodes) /\ old(i) # p
    BY <1>2, <2>1
  <2> QED BY <1>7, <2>2
<1>8. Distinct(nodes')
  <2> SUFFICES ASSUME NEW i \in 1 .. Len(nodes'), NEW j \in 1 .. Len(nodes'), nodes'[i] = nodes'[j]
               PROVE  i = j
    BY DEF Distinct
  <2>1. Distinct(nodes)
    BY DEF ListTypeOK
  <2>2. old(i) = old(j)
    <3> HIDE DEF old
    <3> QED BY <1>10, <2>1 DEF Distinct
  <2>3. i \in Int /\ j \in Int /\ p \in Int
    BY <1>2, <1>6
  <2> QED BY <2>2, <2>3
<1>9. Listed' = Listed \ {n}
  <2>1. ASSUME NEW m \in Listed' PROVE m \in Listed \ {n}
    <3>1. PICK i \in 1 .. Len(nodes') : nodes'[i] = m
      BY <2>1 DEF Listed
    <3>2. PICK j \in 1 .. Len(nodes) : j # p /\ nodes[j] = m
      <4> HIDE DEF old
      <4> QED BY <1>10, <3>1
    <3>3. m # n
      BY <1>1, <3>2 DEF Distinct, ListTypeOK
    <3> QED BY <3>2, <3>3 DEF Listed
  <2>2. ASSUME NEW m \in Listed \ {n} PROVE m \in Listed'
    <3>1. PICK i \in 1 .. Len(nodes) : nodes[i] = m
      BY DEF Listed
    <3>2. i # p
      BY <1>1, <3>1
    <3>3. CASE i < p
      <4>1. i \in 1 .. Len(nodes')
        BY <1>2, <1>6, <3>3
      <4>2. nodes'[i] = nodes[i]
        BY <1>7, <3>3, <4>1
      <4> QED BY <3>1, <4>1, <4>2 DEF Listed
    <3>4. CASE i > p
      <4>1. i - 1 \in 1 .. Len(nodes') /\ ~(i - 1 < p) /\ (i - 1) + 1 = i
        BY <1>2, <1>6, <3>4
      <4>2. nodes'[i - 1] = nodes[i]
        BY <1>7, <4>1
      <4> QED BY <3>1, <4>1, <4>2 DEF Listed
    <3> QED BY <1>2, <3>2, <3>3, <3>4
  <2> QED BY <2>1, <2>2
<1> QED BY <1>1, <1>6, <1>7, <1>8, <1>9 DEF ListTypeOK

--------------------------------------------------------------------------------
(* RoundRobin: the scan *)

Index == 0 .. Len(nodes) - 1

\* How long ago the scan's cursor was at an index.
Behind(i) == IF i <= current THEN current - i ELSE current - i + Len(nodes)

\* A scan knows the nodes behind its cursor not to have been healthy all along.
ScanInv ==
  /\ scanned = Unlocked => steady = {}
  /\ scanned # Unlocked =>
       /\ \A n \in steady : healthy[n]
       /\ scanned > 0 =>
            /\ current \in Index
            /\ \A i \in Index : Behind(i) < scanned => At(i) \notin steady

\* The node a scan looks at is the one behind the cursor, or the first.
LEMMA CandidateIsNext ==
  ASSUME RoundRobinTypeOK, scanned # Unlocked
  PROVE  /\ Len(nodes) \in Nat \ {0} /\ Candidate \in Index
         /\ \A i \in Index : At(i) \in Listed /\ At(i) \in Node
         /\ current < Len(nodes) =>
              Candidate = IF current + 1 = Len(nodes) THEN 0 ELSE current + 1
<1> DEFINE L == Len(nodes)
           c == current + 1
<1>1. nodes \in Seq(Node) /\ L \in Nat \ {0} /\ c \in Nat /\ current \in Int /\ c = current + 1
  BY DEF RoundRobinTypeOK, ListTypeOK, Unlocked
<1>2. \A i \in Index : At(i) \in Listed /\ At(i) \in Node
  BY <1>1 DEF Index, At, Listed
<1>3. Candidate = c % L /\ Index = 0 .. L - 1
  BY DEF Candidate, Index
<1>4. c < L + 1 <=> current < Len(nodes)
  BY <1>1
<1> HIDE DEF L, c
<1>5. c % L \in 0 .. L - 1
  <2>1. c \in Int
    BY <1>1
  <2> QED BY <1>1, <2>1, Wraps
<1>6. ASSUME c < L + 1 PROVE c % L = IF c = L THEN 0 ELSE c
  <2>1. CASE c = L
    <3>1. c \in L .. 2 * L - 1
      BY <1>1, <2>1
    <3>2. c % L = c - L
      BY <1>1, <3>1, Wraps
    <3> QED BY <1>1, <2>1, <3>2
  <2>2. CASE c # L
    <3>1. c \in 0 .. L - 1
      BY <1>1, <1>6, <2>2
    <3> QED BY <1>1, <2>2, <3>1, Wraps
  <2> QED BY <2>1, <2>2
<1> QED BY <1>1, <1>2, <1>3, <1>4, <1>5, <1>6 DEF L, c

LEMMA RoundRobinInit == NewRoundRobinLB => RoundRobinTypeOK /\ ScanInv
  BY BaseLBAssumption, RoundRobinAssumption
     DEF NewRoundRobinLB, NewNodeList, NewBackendNodes, RoundRobinTypeOK, ListTypeOK,
         ScanInv, Unlocked

LEMMA HealthKeepsScan ==
  ASSUME RoundRobinTypeOK, ScanInv, NEW n \in Node, NEW h \in BOOLEAN, ChangeHealth(n, h)
  PROVE  RoundRobinTypeOK' /\ ScanInv'
<1>1. /\ healthy' = [healthy EXCEPT ![n] = h]
      /\ steady' \subseteq steady /\ (~h => n \notin steady')
      /\ UNCHANGED <<nodes, current, scanned, picked, removals>>
      /\ since' = since \/ since' = [since EXCEPT ![n] = {}]
      /\ disturbed' \subseteq disturbed
  BY DEF ChangeHealth
<1>2. RoundRobinTypeOK'
  BY <1>1 DEF RoundRobinTypeOK, ListTypeOK, Listed
<1>3. \A m \in steady' : healthy[m] => healthy'[m]
  BY <1>1 DEF RoundRobinTypeOK
<1>4. ScanInv'
  BY <1>1, <1>3 DEF ScanInv, Unlocked, Index, Behind, At
<1> QED BY <1>2, <1>4

LEMMA RoundRobinNext ==
  RoundRobinTypeOK /\ ScanInv /\ [RoundRobinStep]_roundRobinVars
    => RoundRobinTypeOK' /\ ScanInv'
<1> SUFFICES ASSUME RoundRobinTypeOK, ScanInv, [RoundRobinStep]_roundRobinVars
             PROVE  RoundRobinTypeOK' /\ ScanInv'
  OBVIOUS
<1>1. CASE NextEmpty
  BY <1>1 DEF NextEmpty, RoundRobinTypeOK, ListTypeOK, Listed, ScanInv, Index, Behind, At
<1>2. CASE NextLock
  <2>1. nodes \in Seq(Node) /\ Len(nodes) \in Nat \ {0}
    BY <1>2 DEF NextLock, RoundRobinTypeOK, ListTypeOK
  <2>2. RoundRobinTypeOK'
    BY <1>2, <2>1 DEF NextLock, RoundRobinTypeOK, ListTypeOK, Listed, Unlocked
  <2> QED BY <1>2, <2>2 DEF NextLock, ScanInv, Unlocked
<1>3. CASE NextHit
  <2>1. Candidate \in Index /\ At(Candidate) \in Node /\ Len(nodes) \in Nat
    BY <1>3, CandidateIsNext DEF NextHit
  <2>2. /\ current' \in Nat /\ picked' \in Node /\ scanned' = Unlocked /\ steady' = {}
        /\ disturbed' \subseteq Node /\ UNCHANGED <<nodes, healthy, removals>>
    BY <1>3, <2>1 DEF NextHit, Return, Index, RoundRobinTypeOK
  <2>3. since' \in [Node -> SUBSET Node]
    BY <1>3, <2>1 DEF NextHit, RoundRobinTypeOK
  <2>4. RoundRobinTypeOK'
    BY <2>1, <2>2, <2>3 DEF RoundRobinTypeOK, ListTypeOK, Unlocked
  <2> QED BY <2>2, <2>4 DEF ScanInv
<1>4. CASE NextMiss
  <2>1. Candidate \in Index /\ Len(nodes) \in Nat \ {0} /\ scanned \in Nat /\ Candidate \in Nat
    BY <1>4, CandidateIsNext DEF NextMiss, RoundRobinTypeOK, Unlocked, Index
  <2>2. RoundRobinTypeOK'
    BY <1>4, <2>1 DEF NextMiss, RoundRobinTypeOK, ListTypeOK, Listed, Unlocked, Index
  <2>3. ASSUME NEW i \in Index, Behind(i)' < scanned' PROVE At(i) \notin steady
    <3>1. Behind(i)' = IF i <= Candidate THEN Candidate - i ELSE Candidate - i + Len(nodes)
      BY <1>4 DEF NextMiss, Behind
    <3>2. CASE i = Candidate
      BY <1>4, <3>2 DEF NextMiss, ScanInv
    <3>3. CASE i # Candidate
      <4>1. Behind(i)' > 0
        BY <2>1, <3>1, <3>3 DEF Index
      <4>2. scanned > 0
        BY <1>4, <2>1, <2>3, <3>1, <4>1 DEF NextMiss, Index
      <4>3. current \in Index
        BY <1>4, <4>2 DEF ScanInv, NextMiss
      <4>4. Candidate = IF current + 1 = Len(nodes) THEN 0 ELSE current + 1
        BY <1>4, <2>1, <4>3, CandidateIsNext DEF NextMiss, Index
      <4>5. Behind(i) < scanned
        BY <1>4, <2>1, <2>3, <3>1, <3>3, <4>3, <4>4 DEF NextMiss, Behind, Index
      <4> QED BY <1>4, <4>2, <4>5 DEF ScanInv, NextMiss
    <3> QED BY <3>2, <3>3
  <2> QED BY <1>4, <2>1, <2>2, <2>3 DEF NextMiss, ScanInv, Index, At, Unlocked
<1>5. CASE NextFallback
  <2>1. Candidate \in Index /\ Len(nodes) \in Nat \ {0} /\ Candidate \in Nat /\ nodes[1] \in Node
    BY <1>5, CandidateIsNext DEF NextFallback, RoundRobinTypeOK, ListTypeOK, Index
  <2>2. RoundRobinTypeOK'
    BY <1>5, <2>1 DEF NextFallback, Return, RoundRobinTypeOK, ListTypeOK, Unlocked
  <2> QED BY <1>5, <2>2 DEF NextFallback, Return, ScanInv
<1>6. ASSUME NEW n \in Node, AddNode(n) PROVE RoundRobinTypeOK' /\ ScanInv'
  <2>1. ListTypeOK' /\ Len(nodes') = Len(nodes) + 1 /\ Len(nodes) \in Nat
    BY <1>6, AppendKeepsList DEF AddNode, RoundRobinTypeOK, ListTypeOK
  <2>2. steady = {} /\ steady' = {} /\ scanned' = Unlocked
    BY <1>6 DEF AddNode, ScanInv
  <2>3. RoundRobinTypeOK'
    BY <1>6, <2>1, <2>2 DEF AddNode, RoundRobinTypeOK, Unlocked
  <2> QED BY <2>2, <2>3 DEF ScanInv
<1>7. ASSUME NEW n \in Node, RemoveNode(n) PROVE RoundRobinTypeOK' /\ ScanInv'
  <2>1. ListTypeOK' /\ Len(nodes') \in Nat /\ Listed \subseteq Node
    <3>1. ListTypeOK'
      BY <1>7, DeleteKeepsList DEF RemoveNode, RoundRobinTypeOK
    <3> QED BY <3>1 DEF ListTypeOK, Listed, RoundRobinTypeOK
  <2>2. steady = {} /\ steady' = {} /\ scanned' = Unlocked
    BY <1>7 DEF RemoveNode, ScanInv
  <2>3. since' \in [Node -> SUBSET Node] /\ disturbed' \subseteq Node
    BY <1>7, <2>1 DEF RemoveNode, RoundRobinTypeOK
  <2>4. removals' \in 0 .. MaxRemovals
    BY <1>7, RoundRobinAssumption DEF RemoveNode, RoundRobinTypeOK
  <2>5. RoundRobinTypeOK'
    BY <1>7, <2>1, <2>2, <2>3, <2>4 DEF RemoveNode, RoundRobinTypeOK, Unlocked
  <2> QED BY <2>2, <2>5 DEF ScanInv
<1>8. ASSUME NEW n \in Node, NEW h \in BOOLEAN, SetHealthy(n, h) \/ UpdateHealth(n, h)
      PROVE  RoundRobinTypeOK' /\ ScanInv'
  BY <1>8, HealthKeepsScan DEF SetHealthy, UpdateHealth
<1>9. CASE UNCHANGED roundRobinVars
  BY <1>9 DEF roundRobinVars, RoundRobinTypeOK, ListTypeOK, Listed, ScanInv, Index, Behind, At
<1> QED
  BY <1>1, <1>2, <1>3, <1>4, <1>5, <1>6, <1>7, <1>8, <1>9 DEF RoundRobinStep, NextPick

\* The cursor, the scan and the list stay in their ranges.
THEOREM RoundRobinTypeCorrect == RoundRobinSpec => []RoundRobinTypeOK
  BY RoundRobinInit, RoundRobinNext, PTL DEF RoundRobinSpec

\* A scan that comes to its end without a hit has seen each node of the list
\* unhealthy.
LEMMA FallbackSeesNoneSteady ==
  ASSUME RoundRobinTypeOK, ScanInv, NextFallback
  PROVE  steady = {}
<1>1. Candidate \in Index /\ Len(nodes) \in Nat \ {0} /\ scanned \in Nat
  BY CandidateIsNext DEF NextFallback, RoundRobinTypeOK, Unlocked
<1>2. ASSUME NEW i \in Index PROVE At(i) \notin steady
  <2>1. CASE i = Candidate
    BY <2>1 DEF NextFallback, ScanInv
  <2>2. CASE i # Candidate
    <3>1. scanned > 0
      BY <1>1, <2>2 DEF NextFallback, Index
    <3>2. current \in Index
      BY <3>1 DEF ScanInv, NextFallback
    <3>3. Candidate = IF current + 1 = Len(nodes) THEN 0 ELSE current + 1
      BY <1>1, <3>2, CandidateIsNext DEF NextFallback, Index
    <3>4. Behind(i) < scanned
      BY <1>1, <2>2, <3>2, <3>3 DEF NextFallback, Behind, Index
    <3> QED BY <3>1, <3>4 DEF ScanInv, NextFallback
  <2> QED BY <2>1, <2>2
<1>3. ASSUME NEW n \in steady PROVE FALSE
  <2>1. PICK p \in 1 .. Len(nodes) : nodes[p] = n
    BY <1>3 DEF RoundRobinTypeOK, Listed
  <2>2. p - 1 \in Index /\ At(p - 1) = n
    BY <1>1, <2>1 DEF Index, At
  <2> QED BY <1>2, <2>2
<1> QED BY <1>3

\* RoundRobinLB.Next falls back to the first node only if each node of the list
\* was unhealthy at some moment of its scan.
THEOREM HealthyNodeFound == RoundRobinSpec => FallbackOnlyIfNoneSteady
<1>1. RoundRobinTypeOK /\ ScanInv /\ [RoundRobinStep]_roundRobinVars
        => [NextFallback => steady = {}]_roundRobinVars
  BY FallbackSeesNoneSteady
<1> QED BY <1>1, RoundRobinInit, RoundRobinNext, PTL DEF RoundRobinSpec, FallbackOnlyIfNoneSteady

--------------------------------------------------------------------------------
(* RoundRobin: the choice its callers see *)

\* What a caller of RoundRobinLB sees of it is a choice as NodeChoice has it: the
\* scan of the list under the lock, with the nodes' health changing under it, is
\* one call that answers with a node healthy at the time, or with the first one if
\* none was healthy all along.
LEMMA RoundRobinChooses ==
  ASSUME RoundRobinTypeOK, ScanInv, [RoundRobinStep]_roundRobinVars
  PROVE  [Choice!Next]_(Choice!vars)
<1> DEFINE phase == [c \in {"holder"} |-> IF scanned = Unlocked THEN "idle" ELSE "asking"]
           noticed == [c \in {"holder"} |-> {}]
           kept == [c \in {"holder"} |-> steady]
           answer == [c \in {"holder"} |-> picked]
           ChoiceStep == [Choice!Next]_(Choice!vars)
<1> SUFFICES ChoiceStep
  OBVIOUS
<1>0. Listed \subseteq Node
  BY DEF RoundRobinTypeOK, ListTypeOK, Listed
<1>1. ASSUME UNCHANGED <<nodes, healthy, steady, picked>>, phase' = phase PROVE ChoiceStep
  BY <1>1 DEF Choice!vars, Listed
<1>2. ASSUME NEW n \in Node, NEW b \in BOOLEAN, ChangeHealth(n, b) PROVE ChoiceStep
  <2>1. /\ healthy' = [healthy EXCEPT ![n] = b] /\ UNCHANGED <<nodes, scanned, picked>>
        /\ steady' = IF b THEN steady ELSE steady \ {n}
    BY <1>2 DEF ChangeHealth
  <2>2. CASE healthy[n] = b
    <3>1. healthy' = healthy
      BY <2>1, <2>2 DEF RoundRobinTypeOK
    <3>2. steady' = steady
      BY <2>1, <2>2 DEF ScanInv
    <3> QED BY <1>1, <2>1, <3>1, <3>2
  <2>3. CASE healthy[n] # b
    <3>1. Choice!SetHealthy(n, b)
      BY <2>1, <2>3 DEF Choice!SetHealthy, Listed
    <3> QED BY <3>1 DEF Choice!Next
  <2> QED BY <2>2, <2>3
<1>3. CASE NextEmpty
  <2>1. Choice!AnswerNil("holder")
    BY <1>3 DEF NextEmpty, Choice!AnswerNil, Listed
  <2> QED BY <2>1 DEF Choice!Next
<1>4. CASE NextLock
  <2>1. Listed # {} /\ Listed' = Listed
    BY <1>4 DEF NextLock, Listed, RoundRobinTypeOK, ListTypeOK
  <2>2. scanned' # Unlocked
    BY <1>4 DEF NextLock, Unlocked
  <2>3. Choice!Ask("holder")
    BY <1>4, <2>1, <2>2 DEF NextLock, Choice!Ask, Choice!HealthyNow
  <2> QED BY <2>3 DEF Choice!Next
<1>5. ASSUME NEW n \in Listed, scanned # Unlocked, Return(n), healthy[n] \/ steady = {},
             UNCHANGED <<nodes, healthy>>
      PROVE  ChoiceStep
  <2>1. Listed' = Listed
    BY <1>5 DEF Listed
  <2>2. Choice!Answer("holder")
    BY <1>5, <2>1 DEF Return, Choice!Answer, Choice!HealthyNow
  <2> QED BY <2>2 DEF Choice!Next
<1>6. CASE NextHit
  <2>1. At(Candidate) \in Listed
    BY <1>6, CandidateIsNext DEF NextHit
  <2> QED BY <1>5, <1>6, <2>1 DEF NextHit
<1>7. CASE NextMiss
  <2>1. scanned # Unlocked /\ scanned' # Unlocked
    BY <1>7 DEF NextMiss, Unlocked, RoundRobinTypeOK
  <2> QED BY <1>1, <1>7, <2>1 DEF NextMiss
<1>8. CASE NextFallback
  <2>1. nodes[1] \in Listed
    BY <1>8, CandidateIsNext DEF NextFallback, Listed
  <2> QED BY <1>5, <1>8, <2>1, FallbackSeesNoneSteady DEF NextFallback
<1>9. ASSUME NEW n \in Node, AddNode(n) \/ RemoveNode(n) PROVE ChoiceStep
  <2>1. /\ scanned = Unlocked /\ UNCHANGED <<healthy, scanned, picked, steady>>
        /\ ListAppend(n) \/ ListDelete(n)
    BY <1>9 DEF AddNode, RemoveNode
  <2>2. Listed' \subseteq Node
    BY <1>0, <2>1, AppendKeepsList, DeleteKeepsList DEF RoundRobinTypeOK
  <2>3. Choice!ChangeList
    BY <2>1, <2>2 DEF Choice!ChangeList
  <2> QED BY <2>3 DEF Choice!Next
<1>10. ASSUME NEW n \in Node, NEW b \in BOOLEAN, SetHealthy(n, b) \/ UpdateHealth(n, b)
       PROVE  ChoiceStep
  BY <1>2, <1>10 DEF SetHealthy, UpdateHealth
<1>11. CASE UNCHANGED roundRobinVars
  BY <1>1, <1>11 DEF roundRobinVars
<1> HIDE DEF ChoiceStep
<1>12. CASE NextPick
  BY <1>3, <1>4, <1>6, <1>7, <1>8, <1>12 DEF NextPick
<1>13. CASE \E n \in Node : AddNode(n) \/ RemoveNode(n)
                \/ \E b \in BOOLEAN : SetHealthy(n, b) \/ UpdateHealth(n, b)
  BY <1>9, <1>10, <1>13
<1> QED BY <1>11, <1>12, <1>13 DEF RoundRobinStep

\* RoundRobinLB keeps the promise of every balancer: Next answers with a listed
\* node, and with one healthy at the time if any was healthy all through the scan.
THEOREM RoundRobinImplementsChoice == RoundRobinSpec => ImplementsChoice
<1>1. NewRoundRobinLB => Choice!Init
  <2> SUFFICES ASSUME NewRoundRobinLB PROVE Choice!Init
    OBVIOUS
  <2>1. Listed \subseteq Node
    BY RoundRobinInit DEF RoundRobinTypeOK, ListTypeOK, Listed
  <2> QED BY <2>1 DEF NewRoundRobinLB, NewBackendNodes, Choice!Init
<1>2. RoundRobinTypeOK /\ ScanInv /\ [RoundRobinStep]_roundRobinVars
        => [Choice!Next]_(Choice!vars)
  BY RoundRobinChooses
<1> QED BY <1>1, <1>2, RoundRobinInit, RoundRobinNext, PTL
        DEF RoundRobinSpec, ImplementsChoice, Choice!Spec

--------------------------------------------------------------------------------
(* RoundRobin: the turns *)

\* Going round from the cursor, i's turn comes before j's.
Before(i, j) ==
  \/ i > current /\ (j > current => i < j)
  \/ i <= current /\ j <= current /\ i < j

\* The nodes picked since a node's own turn come after it: they are listed there,
\* or have left the list while the node was ahead of the cursor.
InTurn(i, m) ==
  /\ current < Len(nodes)
  /\ m \notin Listed => i > current
  /\ \A j \in Index : At(j) = m => Before(i, j)

TurnsInv ==
  /\ \A n \in Node : n \notin Listed \/ ~healthy[n] => since[n] = {}
  /\ \A i \in Index : At(i) \notin disturbed => \A m \in since[At(i)] : InTurn(i, m)

\* Moving the cursor on makes the node it passes the last; the order of the others
\* is the same.
LEMMA TurnsAdvance ==
  ASSUME RoundRobinTypeOK, TurnsInv, scanned # Unlocked,
         current' = Candidate, UNCHANGED nodes,
         NEW i \in Index, i # Candidate, At(i) \notin disturbed, NEW m \in since[At(i)]
  PROVE  InTurn(i, m)'
<1>1. /\ current < Len(nodes)
      /\ m \notin Listed => i > current
      /\ \A j \in Index : At(j) = m => Before(i, j)
  BY DEF TurnsInv, InTurn
<1>2. /\ Len(nodes) \in Nat \ {0} /\ current \in Int /\ Candidate \in Index
      /\ Candidate = IF current + 1 = Len(nodes) THEN 0 ELSE current + 1
  BY <1>1, CandidateIsNext DEF RoundRobinTypeOK
<1>3. ASSUME NEW j \in Index, At(j) = m PROVE Before(i, j)'
  <2>1. Before(i, j)
    BY <1>1, <1>3
  <2> QED BY <1>1, <1>2, <2>1 DEF Before, Index
<1>4. current' < Len(nodes') /\ (m \notin Listed => i > current')
  BY <1>1, <1>2 DEF Index
<1>5. Index' = Index /\ Listed' = Listed /\ \A j \in Index : At(j)' = At(j)
  BY DEF Index, Listed, At
<1> QED BY <1>3, <1>4, <1>5 DEF InTurn

\* The turns of a list and a cursor that stay what they were.
LEMMA TurnsStay ==
  ASSUME UNCHANGED <<nodes, current>>
  PROVE  /\ Index' = Index /\ Listed' = Listed
         /\ \A i \in Index : At(i)' = At(i)
         /\ \A i, m : InTurn(i, m)' <=> InTurn(i, m)
<1>1. Index' = Index /\ Listed' = Listed /\ \A i : At(i)' = At(i)
  BY DEF Index, Listed, At
<1>2. \A i, j : Before(i, j)' <=> Before(i, j)
  BY DEF Before
<1> QED BY <1>1, <1>2 DEF InTurn

\* A node that changes its health loses what it has waited for or keeps it.
LEMMA HealthKeepsTurns ==
  ASSUME RoundRobinTypeOK, TurnsInv, NEW n \in Node, NEW h \in BOOLEAN, ChangeHealth(n, h)
  PROVE  TurnsInv'
<1>1. UNCHANGED <<nodes, current>> /\ healthy' = [healthy EXCEPT ![n] = h]
  BY DEF ChangeHealth
<1>2. /\ since' = IF h THEN since ELSE [since EXCEPT ![n] = {}]
      /\ disturbed' = IF h THEN disturbed ELSE disturbed \ {n}
  BY DEF ChangeHealth
<1>3. ASSUME NEW k \in Node
      PROVE  /\ k # n => since'[k] = since[k] /\ healthy'[k] = healthy[k]
             /\ k = n => since'[k] = {} \/ (h /\ since'[k] = since[k])
             /\ k \notin disturbed' => k \notin disturbed \/ since'[k] = {}
  BY <1>1, <1>2 DEF RoundRobinTypeOK
<1>4. \A i \in Index : At(i) \in Node
  BY DEF Index, At, RoundRobinTypeOK, ListTypeOK
<1>5. ASSUME NEW k \in Node, k \notin Listed \/ ~healthy'[k] PROVE since'[k] = {}
  BY <1>1, <1>3, <1>5 DEF TurnsInv, RoundRobinTypeOK
<1>6. ASSUME NEW i \in Index, At(i) \notin disturbed', NEW m \in since'[At(i)]
      PROVE  At(i) \notin disturbed /\ m \in since[At(i)]
  BY <1>3, <1>4, <1>6
<1>7. /\ Index' = Index /\ Listed' = Listed /\ \A i \in Index : At(i)' = At(i)
      /\ \A i, m : InTurn(i, m)' <=> InTurn(i, m)
  BY <1>1, TurnsStay
<1>8. \A i \in Index' : At(i)' \notin disturbed' => \A m \in since'[At(i)'] : InTurn(i, m)'
  BY <1>6, <1>7 DEF TurnsInv
<1>9. \A k \in Node : k \notin Listed' \/ ~healthy'[k] => since'[k] = {}
  BY <1>5, <1>7
<1> QED BY <1>8, <1>9 DEF TurnsInv

\* A scan that passes an unhealthy node leaves the turns as they are.
LEMMA MissKeepsTurns ==
  ASSUME RoundRobinTypeOK, TurnsInv, scanned # Unlocked, ~healthy[At(Candidate)],
         current' = Candidate, UNCHANGED <<nodes, healthy, since, disturbed>>
  PROVE  TurnsInv'
<1>1. since[At(Candidate)] = {}
  BY CandidateIsNext DEF TurnsInv
<1>2. ASSUME NEW i \in Index, At(i) \notin disturbed, NEW m \in since[At(i)]
      PROVE  InTurn(i, m)'
  BY <1>1, <1>2, TurnsAdvance
<1>3. Index' = Index /\ Listed' = Listed /\ \A i \in Index : At(i)' = At(i)
  BY DEF Index, Listed, At
<1>4. \A k \in Node : k \notin Listed' \/ ~healthy'[k] => since'[k] = {}
  BY <1>3 DEF TurnsInv
<1> QED BY <1>2, <1>3, <1>4 DEF TurnsInv

LEMMA TurnsNext ==
  ASSUME RoundRobinTypeOK, ScanInv, TurnsInv, [RoundRobinStep]_roundRobinVars
  PROVE  TurnsInv'
<1>0. /\ \A i \in Index : At(i) \in Node /\ At(i) \in Listed
      /\ \A i, j \in Index : At(i) = At(j) => i = j
      /\ Len(nodes) \in Nat /\ current \in Int
  BY DEF Index, At, Listed, RoundRobinTypeOK, ListTypeOK, Distinct
<1>1. CASE NextHit
  <2> DEFINE hit == At(Candidate)
  <2>1. /\ scanned # Unlocked /\ current' = Candidate /\ UNCHANGED <<nodes, healthy>>
        /\ hit \in Node /\ Candidate \in Index
        /\ disturbed' = disturbed \ {hit}
    BY <1>1, CandidateIsNext DEF NextHit
  <2>2. \A n \in Node : since'[n] = IF n = hit \/ n \notin Listed \/ ~healthy[n] THEN {}
                                    ELSE since[n] \cup {hit}
    BY <1>1 DEF NextHit
  <2>0. Index' = Index /\ Listed' = Listed /\ \A i \in Index : At(i)' = At(i)
    BY <2>1 DEF Index, Listed, At
  <2>3. ASSUME NEW i \in Index, At(i) \notin disturbed', NEW m \in since'[At(i)]
        PROVE  InTurn(i, m)'
    <3>1. /\ At(i) # hit /\ i # Candidate /\ At(i) \notin disturbed
          /\ m \in since[At(i)] \/ m = hit
      BY <1>0, <2>1, <2>2, <2>3
    <3>2. CASE m \in since[At(i)]
      BY <2>1, <3>1, <3>2, TurnsAdvance
    <3>3. CASE m = hit
      <4>1. m \in Listed /\ \A j \in Index : At(j) = m => j = Candidate
        BY <1>0, <2>1, <3>3
      <4>2. i \in Int /\ Candidate \in Int /\ i # Candidate /\ Candidate < Len(nodes)
        BY <1>0, <2>1, <3>1 DEF Index
      <4>3. current' < Len(nodes') /\ m \in Listed'
        BY <2>0, <2>1, <4>1, <4>2
      <4>4. ASSUME NEW j \in Index', At(j)' = m PROVE Before(i, j)'
        <5>1. j = Candidate /\ j = current'
          BY <2>0, <2>1, <4>1, <4>4
        <5> QED BY <4>2, <5>1 DEF Before
      <4> QED BY <4>3, <4>4 DEF InTurn
    <3> QED BY <3>1, <3>2, <3>3
  <2>4. \A n \in Node : n \notin Listed \/ ~healthy[n] => since'[n] = {}
    BY <2>2
  <2> QED BY <2>0, <2>1, <2>3, <2>4 DEF TurnsInv
<1>2. CASE NextMiss
  BY <1>2, MissKeepsTurns DEF NextMiss
<1>3. CASE NextFallback
  BY <1>3, MissKeepsTurns DEF NextFallback
<1>4. ASSUME NEW n \in Node, AddNode(n) PROVE TurnsInv'
  <2>1. /\ Len(nodes') = Len(nodes) + 1
        /\ \A i \in 1 .. Len(nodes) : nodes'[i] = nodes[i]
        /\ nodes'[Len(nodes) + 1] = n
        /\ Listed' = Listed \cup {n} /\ n \notin Listed
    BY <1>4, AppendKeepsList DEF AddNode, ListAppend, RoundRobinTypeOK
  <2>2. UNCHANGED <<current, healthy>> /\ disturbed' = disturbed \ {n}
        /\ \A k \in Node : since'[k] = IF k = n THEN {} ELSE since[k]
    BY <1>4 DEF AddNode, RoundRobinTypeOK
  <2>3. PICK last \in Nat :
          /\ last = Len(nodes) /\ Index' = Index \cup {last} /\ At(last)' = n
          /\ \A i \in Index : At(i)' = At(i)
    <3>1. Index' = Index \cup {Len(nodes)}
      BY <1>0, <2>1 DEF Index
    <3>2. \A i \in Index : At(i)' = At(i)
      BY <1>0, <2>1 DEF Index, At
    <3>3. PICK last \in Nat : last = Len(nodes)
      BY <1>0
    <3>4. At(last)' = n
      BY <2>1, <3>3 DEF At
    <3> QED BY <3>1, <3>2, <3>3, <3>4
  <2>4. ASSUME NEW i \in Index', At(i)' \notin disturbed', NEW m \in since'[At(i)']
        PROVE  InTurn(i, m)'
    <3>0. i \in Index
      <4> SUFFICES ASSUME i = last PROVE FALSE
        BY <2>3, <2>4
      <4>1. since'[At(i)'] = {}
        BY <1>4, <2>2, <2>3
      <4> QED BY <2>4, <4>1
    <3>1. At(i) # n /\ At(i) \notin disturbed /\ m \in since[At(i)] /\ At(i)' = At(i)
      <4>1. At(i)' = At(i) /\ At(i) \in Node /\ At(i) \in Listed
        BY <1>0, <2>3, <3>0
      <4> QED BY <2>1, <2>2, <2>4, <4>1
    <3>2. InTurn(i, m)
      BY <3>0, <3>1 DEF TurnsInv
    <3>3. ASSUME NEW j \in Index', At(j)' = m PROVE Before(i, j)'
      <4>1. CASE j \in Index
        <5>1. Before(i, j)
          BY <2>3, <3>2, <3>3, <4>1 DEF InTurn
        <5> QED BY <2>2, <5>1 DEF Before
      <4>2. CASE j = last
        <5>1. m = n /\ m \notin Listed
          BY <2>1, <2>3, <3>3, <4>2
        <5>2. i > current /\ i < j
          BY <1>0, <2>3, <3>0, <3>2, <4>2, <5>1 DEF InTurn, Index
        <5> QED BY <2>2, <5>2 DEF Before
      <4> QED BY <2>3, <4>1, <4>2
    <3>4. current' < Len(nodes') /\ (m \notin Listed' => i > current')
      BY <1>0, <2>1, <2>2, <3>2 DEF InTurn
    <3> QED BY <3>3, <3>4 DEF InTurn
  <2>5. \A k \in Node : k \notin Listed' \/ ~healthy'[k] => since'[k] = {}
    BY <2>1, <2>2 DEF TurnsInv
  <2> QED BY <2>4, <2>5 DEF TurnsInv
<1>5. ASSUME NEW n \in Node, RemoveNode(n) PROVE TurnsInv'
  <2>1. PICK p \in 1 .. Len(nodes) :
          /\ nodes[p] = n
          /\ Len(nodes') = Len(nodes) - 1
          /\ \A i \in 1 .. Len(nodes') : nodes'[i] = IF i < p THEN nodes[i] ELSE nodes[i + 1]
          /\ Listed' = Listed \ {n}
    BY <1>5, DeleteKeepsList DEF RemoveNode, RoundRobinTypeOK
  <2>2. /\ UNCHANGED <<current, healthy>>
        /\ \A k \in Node : since'[k] = IF k = n THEN {} ELSE since[k]
        /\ disturbed' = IF \E i \in 0 .. current : i < Len(nodes) /\ At(i) = n
                          THEN (disturbed \cup Listed) \ {n} ELSE disturbed \ {n}
    BY <1>5 DEF RemoveNode, RoundRobinTypeOK
  <2>3. \A k \in Node : k \notin Listed' \/ ~healthy'[k] => since'[k] = {}
    BY <2>1, <2>2 DEF TurnsInv
  <2>4. /\ p - 1 \in Index /\ At(p - 1) = n
        /\ Index' = 0 .. Len(nodes) - 2
        /\ \A i \in Index' : At(i)' = At(IF i < p - 1 THEN i ELSE i + 1)
    BY <1>0, <2>1 DEF Index, At
  <2>5. ASSUME NEW i \in Index' PROVE At(i)' \in Listed /\ At(i)' # n
    BY <1>0, <2>1, <2>4 DEF Index
  <2>6. CASE p - 1 <= current
    <3>1. disturbed' = (disturbed \cup Listed) \ {n}
      BY <1>0, <2>2, <2>4, <2>6 DEF Index
    <3>2. \A i \in Index' : At(i)' \in disturbed'
      BY <2>5, <3>1
    <3> QED BY <2>3, <3>2 DEF TurnsInv
  <2>7. CASE p - 1 > current
    <3>1. disturbed' = disturbed \ {n} /\ current < Len(nodes')
      BY <1>0, <2>1, <2>2, <2>4, <2>7 DEF Index
    <3>2. ASSUME NEW i \in Index', At(i)' \notin disturbed', NEW m \in since'[At(i)']
          PROVE  InTurn(i, m)'
      <4> DEFINE old(k) == IF k < p - 1 THEN k ELSE k + 1
      <4>1. /\ \A k \in Index' : old(k) \in Index /\ old(k) # p - 1
                                 /\ (old(k) > current <=> k > current) /\ At(k)' = At(old(k))
            /\ \A k, j \in Index' : old(k) < old(j) <=> k < j
        <5>1. \A k \in Index' : k \in Int /\ k >= 0 /\ k <= Len(nodes) - 2
          BY <1>0, <2>4
        <5>2. p - 1 \in Int /\ p \in Int /\ current \in Int /\ Len(nodes) \in Nat
          BY <1>0, <2>1, <2>4
        <5>3. ASSUME NEW k \in Index'
              PROVE  /\ old(k) \in Index /\ old(k) # p - 1
                     /\ (old(k) > current <=> k > current)
          BY <2>7, <5>1, <5>2 DEF Index
        <5>4. \A k \in Index' : At(k)' = At(old(k))
          BY <2>4
        <5>5. ASSUME NEW k \in Index', NEW j \in Index' PROVE old(k) < old(j) <=> k < j
          BY <5>1, <5>2
        <5> QED BY <5>3, <5>4, <5>5
      <4> HIDE DEF old
      <4>2. At(old(i)) \notin disturbed /\ m \in since[At(old(i))] /\ old(i) \in Index
        BY <1>0, <2>2, <2>5, <3>1, <3>2, <4>1
      <4>3. /\ m \notin Listed => old(i) > current
            /\ \A j \in Index : At(j) = m => Before(old(i), j)
        BY <4>2 DEF TurnsInv, InTurn
      <4>4. m \notin Listed' => i > current
        <5>1. CASE m \notin Listed
          BY <4>1, <4>3, <5>1
        <5>2. CASE m = n
          <6>1. Before(old(i), p - 1)
            BY <2>4, <4>3, <5>2
          <6>2. old(i) > current
            BY <1>0, <2>7, <4>2, <6>1 DEF Before, Index
          <6> QED BY <4>1, <6>2
        <5> QED BY <2>1, <5>1, <5>2
      <4>5. ASSUME NEW j \in Index', At(j)' = m PROVE Before(i, j)'
        <5>1. Before(old(i), old(j))
          BY <4>1, <4>3, <4>5
        <5>2. /\ old(i) \in Int /\ old(j) \in Int /\ i \in Int /\ j \in Int
              /\ (old(i) > current <=> i > current) /\ (old(j) > current <=> j > current)
              /\ (old(i) < old(j) <=> i < j)
          BY <1>0, <2>4, <4>1 DEF Index
        <5> QED BY <1>0, <2>2, <5>1, <5>2 DEF Before
      <4> QED BY <2>2, <3>1, <4>4, <4>5 DEF InTurn
    <3> QED BY <2>3, <3>2 DEF TurnsInv
  <2> QED BY <1>0, <2>1, <2>6, <2>7
<1>6. ASSUME NEW n \in Node, NEW h \in BOOLEAN, SetHealthy(n, h) \/ UpdateHealth(n, h)
      PROVE  TurnsInv'
  BY <1>6, HealthKeepsTurns DEF SetHealthy, UpdateHealth
<1>7. CASE NextEmpty \/ NextLock \/ UNCHANGED roundRobinVars
  <2>1. UNCHANGED <<nodes, current, healthy, since, disturbed>>
    BY <1>7 DEF NextEmpty, NextLock, roundRobinVars
  <2> QED BY <2>1, TurnsStay DEF TurnsInv
<1> QED BY <1>1, <1>2, <1>3, <1>4, <1>5, <1>6, <1>7 DEF RoundRobinStep, NextPick

\* Healthy nodes take turns: RoundRobinLB.Next picks no node twice while another
\* one is healthy and waiting, whatever joins, leaves, fails or recovers meanwhile.
THEOREM NodesTakeTurns == RoundRobinSpec => Rotation
<1>1. NewRoundRobinLB => TurnsInv
  <2> SUFFICES ASSUME NewRoundRobinLB PROVE TurnsInv
    OBVIOUS
  <2>1. \A i \in Index : At(i) \in Node
    BY BaseLBAssumption DEF NewRoundRobinLB, NewNodeList, Index, At
  <2>2. \A n \in Node : since[n] = {}
    BY DEF NewRoundRobinLB
  <2> QED BY <2>1, <2>2 DEF TurnsInv
<1>2. RoundRobinTypeOK /\ ScanInv /\ TurnsInv /\ [RoundRobinStep]_roundRobinVars
        => [NextHit => \A n \in Listed \ disturbed : picked' # n => picked' \notin since[n]]_roundRobinVars
  <2> SUFFICES ASSUME RoundRobinTypeOK, TurnsInv, NextHit,
                      NEW n \in Listed \ disturbed, picked' # n
               PROVE  picked' \notin since[n]
    OBVIOUS
  <2>1. PICK p \in 1 .. Len(nodes) : nodes[p] = n
    BY DEF Listed
  <2> DEFINE i == p - 1
  <2>2. i \in Index /\ At(i) = n /\ Len(nodes) \in Nat /\ current \in Int
    BY <2>1 DEF Index, At, RoundRobinTypeOK, ListTypeOK
  <2> HIDE DEF i
  <2>3. picked' = At(Candidate) /\ Candidate \in Index
    BY CandidateIsNext DEF NextHit, Return
  <2>4. SUFFICES ASSUME picked' \in since[n] PROVE FALSE
    OBVIOUS
  <2>5. current < Len(nodes) /\ Before(i, Candidate)
    BY <2>2, <2>3, <2>4 DEF TurnsInv, InTurn
  <2>6. Candidate = IF current + 1 = Len(nodes) THEN 0 ELSE current + 1
    BY <2>5, CandidateIsNext DEF NextHit
  <2> QED BY <2>2, <2>5, <2>6 DEF Before, Index
<1>3. RoundRobinTypeOK /\ ScanInv /\ TurnsInv /\ [RoundRobinStep]_roundRobinVars => TurnsInv'
  BY TurnsNext
<1>4. QED
  BY <1>1, <1>2, <1>3, RoundRobinInit, RoundRobinNext, PTL DEF RoundRobinSpec, Rotation

--------------------------------------------------------------------------------
(* SharedBalancer: the handlers *)

\* A handler has the node it chose until its request ends, and outside a scan
\* none of the scan's locals.
HandlersInv ==
  /\ algorithm \in Algorithm
  /\ ListTypeOK
  /\ healthy \in [Node -> BOOLEAN]
  /\ conns \in [Node -> Int]
  /\ pc \in [Handler -> {"idle", "look", "count", "chosen", "proxy"}]
  /\ first \in [Handler -> Nat]
  /\ looked \in [Handler -> Nat]
  /\ chosen \in [Handler -> Node \cup {None}]
  /\ fewest \in [Handler -> Int]
  /\ lasting \in [Handler -> SUBSET Node]
  /\ moves \in [Handler -> 0 .. Cardinality(Handler)]
  /\ \A h \in Handler :
       /\ pc[h] \in {"chosen", "proxy"} => chosen[h] \in Node
       /\ pc[h] = "idle" => chosen[h] = None
       /\ ~Scanning(h) => /\ looked[h] = 0 /\ first[h] = 0 /\ fewest[h] = -1
                          /\ lasting[h] = {} /\ moves[h] = 0
       /\ Scanning(h) => nodes # <<>>

\* The places a scan looks at are places of the list.
LEMMA LookedAtListed ==
  ASSUME HandlersInv, NEW h \in Handler, nodes # <<>>
  PROVE  LookedAt(h) \in Listed /\ LookedAt(h) \in Node
<1> DEFINE L == Len(nodes)
           i == first[h] + looked[h]
<1>1. L \in Nat \ {0} /\ i \in Int /\ nodes \in Seq(Node)
  BY DEF HandlersInv, ListTypeOK
<1> HIDE DEF L, i
<1>2. i % L \in 0 .. L - 1
  BY <1>1, Wraps
<1>3. (i % L) + 1 \in 1 .. L
  BY <1>1, <1>2
<1> QED BY <1>1, <1>3 DEF L, i, LookedAt, Listed

\* A scan counts no request.
LEMMA ScansMoveNothing ==
  ASSUME HandlersInv, NEW g \in Handler,
         BeginScan(g) \/ LookHealthy(g) \/ LookUnhealthy(g) \/ Count(g) \/ ScanEnd(g)
  PROVE  ~(IncrConns(g) \/ Finish(g))
BY DEF BeginScan, LookHealthy, LookUnhealthy, Count, ScanEnd, IncrConns, Finish, HandlersInv

\* What one handler does leaves the locals of the others alone.
LEMMA OthersStay ==
  ASSUME HandlersInv, NEW g \in Handler, HandlerStep(g), NEW h \in Handler, g # h
  PROVE  /\ UNCHANGED listVars /\ pc'[h] = pc[h] /\ first'[h] = first[h]
         /\ looked'[h] = looked[h] /\ chosen'[h] = chosen[h] /\ fewest'[h] = fewest[h]
         /\ lasting'[h] = lasting[h]
         /\ ~(IncrConns(g) \/ Finish(g)) => UNCHANGED conns /\ moves'[h] = moves[h]
<1>1. CASE BeginScan(g)
  BY <1>1 DEF BeginScan, HandlersInv
<1>2. CASE LookHealthy(g)
  <2>1. CASE algorithm = "random"
    BY <1>2, <2>1 DEF LookHealthy, Choose, HandlersInv
  <2>2. CASE algorithm # "random"
    BY <1>2, <2>2 DEF LookHealthy, scanVars, HandlersInv
  <2> QED BY <2>1, <2>2
<1>3. CASE LookUnhealthy(g)
  BY <1>3 DEF LookUnhealthy, HandlersInv
<1>4. CASE Count(g)
  <2>1. fewest'[h] = fewest[h] /\ chosen'[h] = chosen[h]
    BY <1>4 DEF Count, HandlersInv
  <2> QED BY <1>4, <2>1 DEF Count, HandlersInv
<1>5. CASE ScanEnd(g)
  BY <1>5 DEF ScanEnd, Choose, HandlersInv
<1>6. CASE IncrConns(g)
  BY <1>6 DEF IncrConns, scanVars, HandlersInv
<1>7. CASE Finish(g)
  BY <1>7 DEF Finish, scanVars, HandlersInv
<1> QED BY <1>1, <1>2, <1>3, <1>4, <1>5, <1>6, <1>7 DEF HandlerStep

LEMMA HandlersStepKeeps ==
  ASSUME HandlersInv, [BalancerStep]_balancerVars
  PROVE  HandlersInv'
<1> DEFINE N == Cardinality(Handler)
<1>0. N \in Nat
  BY SharedBalancerAssumption, FS_CardinalityType
<1> HIDE DEF N
<1>1. ASSUME NEW h \in Handler, BeginScan(h) PROVE HandlersInv'
  <2>1. Len(nodes) \in Nat /\ Listed \subseteq Node
    BY DEF HandlersInv, ListTypeOK, Listed
  <2>2. PICK i \in 0 .. Len(nodes) - 1 : first' = [first EXCEPT ![h] = i]
    BY <1>1 DEF BeginScan
  <2>3. {n \in Listed : healthy[n]} \subseteq Node /\ i \in Nat
    BY <2>1
  <2> QED BY <1>1, <2>2, <2>3 DEF BeginScan, HandlersInv, ListTypeOK, listVars, Scanning
<1>2. ASSUME NEW h \in Handler, NEW n \in Node, Choose(h, n), UNCHANGED <<listVars, conns>>
      PROVE  HandlersInv'
  BY <1>0, <1>2, SMTT(30) DEF N, Choose, HandlersInv, ListTypeOK, listVars, Scanning
<1>3. ASSUME NEW h \in Handler, LookHealthy(h) PROVE HandlersInv'
  <2>1. LookedAt(h) \in Node
    BY <1>3, LookedAtListed DEF LookHealthy, HandlersInv, Scanning
  <2>2. CASE algorithm = "random"
    BY <1>2, <1>3, <2>1, <2>2 DEF LookHealthy
  <2>3. CASE algorithm # "random"
    <3>1. /\ pc[h] = "look" /\ pc' = [pc EXCEPT ![h] = "count"]
          /\ UNCHANGED <<algorithm, nodes, healthy, first, looked, fewest, chosen, moves, conns, lasting>>
      BY <1>3, <2>3 DEF LookHealthy, listVars, scanVars
    <3> QED BY <3>1 DEF HandlersInv, ListTypeOK, Scanning
  <2> QED BY <2>2, <2>3
<1>4. ASSUME NEW h \in Handler, LookUnhealthy(h) PROVE HandlersInv'
  BY <1>4 DEF LookUnhealthy, HandlersInv, ListTypeOK, listVars, Scanning
<1>5. ASSUME NEW h \in Handler, Count(h) PROVE HandlersInv'
  <2>1. LookedAt(h) \in Node /\ conns[LookedAt(h)] \in Int
    BY <1>5, LookedAtListed DEF Count, HandlersInv, Scanning
  <2>2. /\ fewest' \in [Handler -> Int] /\ chosen' \in [Handler -> Node \cup {None}]
        /\ \A g \in Handler : g # h => fewest'[g] = fewest[g] /\ chosen'[g] = chosen[g]
    BY <1>5, <2>1 DEF Count, HandlersInv
  <2>3. /\ pc[h] = "count" /\ pc' = [pc EXCEPT ![h] = "look"]
        /\ looked' = [looked EXCEPT ![h] = @ + 1]
        /\ UNCHANGED <<algorithm, nodes, healthy, conns, first, lasting, moves>>
    BY <1>5 DEF Count, listVars
  <2>4. \A g \in Handler :
          /\ g # h => pc'[g] = pc[g] /\ looked'[g] = looked[g]
          /\ g = h => pc'[g] = "look"
    BY <2>3 DEF HandlersInv
  <2>5. /\ pc' \in [Handler -> {"idle", "look", "count", "chosen", "proxy"}]
        /\ looked' \in [Handler -> Nat]
    BY <2>3 DEF HandlersInv
  <2> QED BY <2>2, <2>3, <2>4, <2>5, SMTT(30) DEF HandlersInv, ListTypeOK, Scanning
<1>6. ASSUME NEW h \in Handler, ScanEnd(h) PROVE HandlersInv'
  <2>1. nodes[1] \in Node
    BY <1>6 DEF ScanEnd, HandlersInv, ListTypeOK, Scanning
  <2> DEFINE n == IF chosen[h] = None THEN nodes[1] ELSE chosen[h]
  <2>2. n \in Node
    BY <2>1 DEF HandlersInv
  <2>3. Choose(h, n) /\ UNCHANGED <<listVars, conns>>
    BY <1>6 DEF ScanEnd
  <2> HIDE DEF n
  <2> QED BY <1>2, <2>2, <2>3
<1>7. ASSUME Moved, HandlersInv
      PROVE  /\ moves' \in [Handler -> 0 .. Cardinality(Handler)]
             /\ \A h \in Handler : ~Scanning(h) => moves'[h] = 0
  BY <1>0, <1>7 DEF N, Moved, HandlersInv
<1>8. ASSUME NEW h \in Handler, IncrConns(h) PROVE HandlersInv'
  <2>1. /\ pc[h] = "chosen" /\ pc' = [pc EXCEPT ![h] = "proxy"]
        /\ UNCHANGED <<algorithm, nodes, healthy, first, looked, fewest, chosen, lasting>> /\ Moved
    BY <1>8 DEF IncrConns, listVars, scanVars
  <2>2. conns' \in [Node -> Int]
    BY <1>8 DEF IncrConns, AddConns, HandlersInv
  <2> QED BY <1>7, <2>1, <2>2 DEF HandlersInv, ListTypeOK, Scanning
<1>9. ASSUME NEW h \in Handler, Finish(h) PROVE HandlersInv'
  <2>1. /\ pc[h] = "proxy" /\ pc' = [pc EXCEPT ![h] = "idle"]
        /\ UNCHANGED <<algorithm, nodes, healthy, first, looked, fewest, lasting>>
        /\ chosen' = [chosen EXCEPT ![h] = None] /\ Moved
    BY <1>9 DEF Finish, listVars, scanVars
  <2>2. conns' \in [Node -> Int]
    BY <1>9 DEF Finish, AddConns, HandlersInv
  <2> QED BY <1>7, <2>1, <2>2 DEF HandlersInv, ListTypeOK, Scanning
<1>10. ASSUME NEW n \in Node, AddBackend(n) PROVE HandlersInv'
  <2>1. ListTypeOK'
    BY <1>10, AppendKeepsList DEF AddBackend, HandlersInv
  <2> QED BY <1>10, <2>1 DEF AddBackend, NoScan, HandlersInv, scanVars, Scanning
<1>11. ASSUME NEW n \in Node, RemoveBackend(n) PROVE HandlersInv'
  <2>1. ListTypeOK'
    BY <1>11, DeleteKeepsList DEF RemoveBackend, HandlersInv
  <2> QED BY <1>11, <2>1 DEF RemoveBackend, NoScan, HandlersInv, scanVars, Scanning
<1>12. ASSUME NEW n \in Node, NEW b \in BOOLEAN, SetHealth(n, b) PROVE HandlersInv'
  <2>1. healthy' \in [Node -> BOOLEAN] /\ lasting' \in [Handler -> SUBSET Node]
    BY <1>12 DEF SetHealth, HandlersInv
  <2> QED BY <1>12, <2>1 DEF SetHealth, HandlersInv, ListTypeOK, scanVars, Scanning
<1>13. CASE UNCHANGED balancerVars
  BY <1>13 DEF balancerVars, HandlersInv, ListTypeOK, Scanning
<1> QED BY <1>1, <1>3, <1>4, <1>5, <1>6, <1>8, <1>9, <1>10, <1>11, <1>12, <1>13
        DEF BalancerStep, HandlerStep

LEMMA HandlersInvariant == BalancerSpec => []HandlersInv
<1>1. NewBalancer => HandlersInv
  BY BaseLBAssumption, SharedBalancerAssumption, FS_CardinalityType
     DEF NewBalancer, NewNodeList, NewBackendNodes, HandlersInv, ListTypeOK, Scanning
<1>2. HandlersInv /\ [BalancerStep]_balancerVars => HandlersInv'
  BY HandlersStepKeeps
<1> QED BY <1>1, <1>2, PTL DEF BalancerSpec

--------------------------------------------------------------------------------
(* SharedBalancer: the connection counts *)

\* The handlers that are proxying to a node.
Active(n) == {h \in Handler : pc[h] = "proxy" /\ chosen[h] = n}

LEMMA HandlersAreFinite ==
  ASSUME NEW S, S \subseteq Handler
  PROVE  IsFiniteSet(S) /\ Cardinality(S) \in 0 .. Cardinality(Handler)
<1>1. /\ IsFiniteSet(S) /\ Cardinality(S) <= Cardinality(Handler)
      /\ Cardinality(S) \in Nat /\ Cardinality(Handler) \in Nat
  BY FS_Subset, FS_CardinalityType, SharedBalancerAssumption
<1> QED BY <1>1

LEMMA ActiveIsFinite ==
  ASSUME NEW n PROVE IsFiniteSet(Active(n)) /\ Cardinality(Active(n)) \in 0 .. Cardinality(Handler)
BY HandlersAreFinite DEF Active

\* Only IncrConns and DecrConns move a handler in or out of those a node counts,
\* and each changes that node's count by one.
LEMMA ConnsStepKeeps ==
  ASSUME HandlersInv, ConnsMatchHandlers, [BalancerStep]_balancerVars
  PROVE  ConnsMatchHandlers'
<1> DEFINE Matched(n) == conns[n] = Cardinality(Active(n))
<1>a. ConnsMatchHandlers <=> \A n \in Node : Matched(n)
  BY DEF ConnsMatchHandlers, Active
<1>b. ConnsMatchHandlers' <=> \A n \in Node : Matched(n)'
  BY DEF ConnsMatchHandlers, Active
<1>1. ASSUME UNCHANGED conns, \A n \in Node : Active(n)' = Active(n) PROVE ConnsMatchHandlers'
  BY <1>a, <1>b, <1>1
<1>2. ASSUME NEW h \in Handler, BeginScan(h) \/ LookUnhealthy(h) \/ LookHealthy(h) \/ Count(h) \/ ScanEnd(h)
      PROVE  ConnsMatchHandlers'
  <2>1. /\ pc[h] # "proxy" /\ pc'[h] # "proxy" /\ UNCHANGED conns
        /\ \A g \in Handler : g # h => pc'[g] = pc[g] /\ chosen'[g] = chosen[g]
    BY <1>2 DEF HandlersInv, BeginScan, LookUnhealthy, LookHealthy, Count, ScanEnd, Choose
  <2>2. \A n \in Node : Active(n)' = Active(n)
    BY <2>1 DEF Active
  <2> QED BY <1>1, <2>1, <2>2
<1>3. ASSUME NEW h \in Handler, IncrConns(h) PROVE ConnsMatchHandlers'
  <2> DEFINE c == chosen[h]
  <2>1. /\ c \in Node /\ pc[h] = "chosen" /\ pc' = [pc EXCEPT ![h] = "proxy"] /\ chosen' = chosen
        /\ \A n \in Node : conns'[n] = IF n = c THEN conns[n] + 1 ELSE conns[n]
    BY <1>3 DEF IncrConns, AddConns, HandlersInv
  <2>2. /\ h \notin Active(c)
        /\ \A n \in Node : Active(n)' = IF n = c THEN Active(n) \cup {h} ELSE Active(n)
    BY <2>1 DEF Active, HandlersInv
  <2>3. Cardinality(Active(c) \cup {h}) = Cardinality(Active(c)) + 1
    BY <2>2, ActiveIsFinite, FS_AddElement
  <2> HIDE DEF c
  <2>4. \A n \in Node : Matched(n)'
    BY <1>a, <2>1, <2>2, <2>3
  <2> QED BY <1>b, <2>4
<1>4. ASSUME NEW h \in Handler, Finish(h) PROVE ConnsMatchHandlers'
  <2> DEFINE c == chosen[h]
  <2>1. /\ c \in Node /\ pc[h] = "proxy" /\ pc' = [pc EXCEPT ![h] = "idle"]
        /\ chosen' = [chosen EXCEPT ![h] = None]
        /\ \A n \in Node : conns'[n] = IF n = c THEN conns[n] - 1 ELSE conns[n]
    BY <1>4 DEF Finish, AddConns, HandlersInv
  <2>2. /\ h \in Active(c)
        /\ \A n \in Node : Active(n)' = IF n = c THEN Active(n) \ {h} ELSE Active(n)
    BY <2>1 DEF Active, HandlersInv
  <2>3. Cardinality(Active(c) \ {h}) = Cardinality(Active(c)) - 1
    BY <2>2, ActiveIsFinite, FS_RemoveElement
  <2> HIDE DEF c
  <2>4. \A n \in Node : Matched(n)'
    BY <1>a, <2>1, <2>2, <2>3
  <2> QED BY <1>b, <2>4
<1>5. ASSUME UNCHANGED <<conns, pc, chosen>> PROVE ConnsMatchHandlers'
  <2>1. \A n \in Node : Active(n)' = Active(n)
    BY <1>5 DEF Active
  <2> QED BY <1>1, <1>5, <2>1
<1> QED BY <1>2, <1>3, <1>4, <1>5
        DEF BalancerStep, HandlerStep, AddBackend, RemoveBackend, SetHealth, balancerVars

\* The count of a node is the number of handlers between its IncrConns and its
\* DecrConns: no count leaks, and none goes below zero.
THEOREM ConnsCountHandlers == BalancerSpec => []ConnsMatchHandlers
<1>1. NewBalancer => ConnsMatchHandlers
  <2> SUFFICES ASSUME NewBalancer, NEW n \in Node PROVE conns[n] = Cardinality(Active(n))
    BY DEF ConnsMatchHandlers, Active
  <2>1. conns[n] = 0 /\ Active(n) = {}
    BY DEF NewBalancer, Active
  <2> QED BY <2>1, FS_EmptySet
<1>2. HandlersInv /\ ConnsMatchHandlers /\ [BalancerStep]_balancerVars => ConnsMatchHandlers'
  BY ConnsStepKeeps
<1> QED BY <1>1, <1>2, HandlersInvariant, PTL DEF BalancerSpec

\* No count exceeds the number of handlers.
LEMMA ConnsAreBounded ==
  ASSUME ConnsMatchHandlers PROVE \A n \in Node : conns[n] \in 0 .. Cardinality(Handler)
BY ActiveIsFinite DEF ConnsMatchHandlers, Active

--------------------------------------------------------------------------------
(* SharedBalancer: what a scan has seen *)

\* The place of the list that the k-th look of a handler's scan goes to.
Place(h, k) == ((first[h] + k) % Len(nodes)) + 1

\* A scan that has chosen nothing has seen no node that was healthy throughout:
\* such a node is listed and healthy still, so the look at it would have ended
\* RandomLB's scan and given LeastConnLB's a first candidate.
ScanTells(h) ==
  /\ first[h] < Len(nodes) /\ looked[h] <= Looks
  /\ pc[h] = "count" => algorithm = "least_conn" /\ looked[h] < Looks
  /\ algorithm = "least_conn" => first[h] = 0
  /\ algorithm = "random" => chosen[h] = None
  /\ chosen[h] \in Listed \cup {None}
  /\ fewest[h] \in Nat \cup {-1}
  /\ fewest[h] = -1 <=> chosen[h] = None
  /\ lasting[h] \subseteq {n \in Listed : healthy[n]}
  /\ chosen[h] = None => \A k \in Nat : k < looked[h] => nodes[Place(h, k)] \notin lasting[h]

LookInv == \A h \in Handler : Scanning(h) => ScanTells(h)

\* A step that leaves a handler's scan alone leaves it true what the scan tells:
\* nothing but the nodes' health can change under it.
LEMMA OtherScansKeep ==
  ASSUME NEW h \in Handler, ScanTells(h), UNCHANGED listVars,
         pc'[h] = pc[h], first'[h] = first[h], looked'[h] = looked[h],
         chosen'[h] = chosen[h], fewest'[h] = fewest[h], lasting'[h] \subseteq lasting[h]
  PROVE  ScanTells(h)'
<1>1. algorithm' = algorithm /\ nodes' = nodes /\ healthy' = healthy
  BY DEF listVars
<1>2. Listed' = Listed /\ Looks' = Looks
  BY <1>1 DEF Listed, Looks
<1>3. \A k \in Nat : nodes'[Place(h, k)'] = nodes[Place(h, k)]
  BY <1>1 DEF Place
<1> QED BY <1>1, <1>2, <1>3 DEF ScanTells

\* The look of a scan is at the place after those of its earlier looks.
LEMMA LooksGoOn ==
  ASSUME NEW h \in Handler, ScanTells(h), UNCHANGED listVars, HandlersInv,
         looked' = [looked EXCEPT ![h] = @ + 1], UNCHANGED <<first, lasting>>,
         looked[h] < Looks, chosen'[h] = None => chosen[h] = None /\ ~healthy[LookedAt(h)],
         pc'[h] = "look", fewest'[h] \in Nat \cup {-1}, fewest'[h] = -1 <=> chosen'[h] = None,
         algorithm = "random" => chosen'[h] = None, chosen'[h] \in Listed \cup {None}
  PROVE  ScanTells(h)'
<1>1. /\ algorithm' = algorithm /\ nodes' = nodes /\ healthy' = healthy
      /\ looked'[h] = looked[h] + 1 /\ looked[h] \in Nat
  BY DEF listVars, HandlersInv
<1>2. Listed' = Listed /\ Looks' = Looks /\ Looks \in Nat
  BY <1>1 DEF Listed, Looks, HandlersInv, ListTypeOK
<1>3. \A k \in Nat : nodes'[Place(h, k)'] = nodes[Place(h, k)]
  BY <1>1 DEF Place
<1>4. LookedAt(h) = nodes[Place(h, looked[h])]
  BY DEF LookedAt, Place
<1>5. ASSUME chosen'[h] = None, NEW k \in Nat, k < looked[h] + 1
      PROVE  nodes[Place(h, k)] \notin lasting[h]
  <2>1. CASE k < looked[h]
    BY <1>5, <2>1 DEF ScanTells
  <2>2. CASE k = looked[h]
    BY <1>4, <1>5, <2>2 DEF ScanTells
  <2> QED BY <1>1, <1>5, <2>1, <2>2
<1> QED BY <1>1, <1>2, <1>3, <1>5 DEF ScanTells

LEMMA LookStepKeeps ==
  ASSUME HandlersInv, ConnsMatchHandlers, LookInv, [BalancerStep]_balancerVars
  PROVE  LookInv'
<1> SUFFICES ASSUME NEW h \in Handler, Scanning(h)' PROVE ScanTells(h)'
  BY DEF LookInv
<1>1. ASSUME UNCHANGED listVars, pc'[h] = pc[h], first'[h] = first[h], looked'[h] = looked[h],
             chosen'[h] = chosen[h], fewest'[h] = fewest[h], lasting'[h] \subseteq lasting[h]
      PROVE  ScanTells(h)'
  BY <1>1, OtherScansKeep DEF LookInv, Scanning
<1>2. ASSUME NEW g \in Handler, BeginScan(g) PROVE ScanTells(h)'
  <2>1. CASE g # h
    BY <1>1, <1>2, <2>1, OthersStay DEF HandlerStep
  <2>2. CASE g = h
    <3>1. PICK i \in 0 .. Len(nodes) - 1 :
            (algorithm = "random" \/ i = 0) /\ first' = [first EXCEPT ![h] = i]
      BY <1>2, <2>2 DEF BeginScan
    <3>2. /\ algorithm' = algorithm /\ nodes' = nodes /\ healthy' = healthy
          /\ pc'[h] = "look" /\ first'[h] = i /\ looked'[h] = 0 /\ chosen'[h] = None
          /\ fewest'[h] = -1 /\ lasting'[h] = {n \in Listed : healthy[n]}
      BY <1>2, <2>2, <3>1 DEF BeginScan, HandlersInv, Scanning, listVars
    <3>3. Listed' = Listed /\ Looks' = Looks /\ Looks \in Nat
      <4>1. Len(nodes) \in Nat
        BY DEF HandlersInv, ListTypeOK
      <4> QED BY <3>2, <4>1 DEF Listed, Looks
    <3>4. i < Len(nodes)
      BY DEF HandlersInv, ListTypeOK
    <3>5. algorithm = "least_conn" => i = 0
      BY <3>1
    <3> QED BY <3>2, <3>3, <3>4, <3>5 DEF ScanTells
  <2> QED BY <2>1, <2>2
<1>3. ASSUME NEW g \in Handler, LookHealthy(g) PROVE ScanTells(h)'
  <2>1. CASE g # h
    BY <1>1, <1>3, <2>1, OthersStay DEF HandlerStep
  <2>2. CASE g = h
    <3>1. algorithm = "least_conn"
      BY <1>3, <2>2 DEF LookHealthy, Choose, HandlersInv, Algorithm, Scanning
    <3>2. /\ ScanTells(h) /\ looked[h] < Looks /\ pc'[h] = "count"
          /\ UNCHANGED <<algorithm, nodes, healthy, first, looked, chosen, fewest, lasting>>
      BY <1>3, <2>2, <3>1 DEF LookHealthy, LookInv, Scanning, listVars, scanVars, HandlersInv
    <3>3. Listed' = Listed /\ Looks' = Looks
      BY <3>2 DEF Listed, Looks
    <3>4. \A k \in Nat : nodes'[Place(h, k)'] = nodes[Place(h, k)]
      BY <3>2 DEF Place
    <3> QED BY <3>1, <3>2, <3>3, <3>4 DEF ScanTells
  <2> QED BY <2>1, <2>2
<1>4. ASSUME NEW g \in Handler, LookUnhealthy(g) PROVE ScanTells(h)'
  <2>1. CASE g # h
    BY <1>1, <1>4, <2>1, OthersStay DEF HandlerStep
  <2>2. CASE g = h
    <3>1. ScanTells(h)
      BY <1>4, <2>2 DEF LookUnhealthy, LookInv, Scanning
    <3>2. /\ UNCHANGED <<listVars, pc, first, chosen, fewest, lasting>> /\ pc[h] = "look"
          /\ looked' = [looked EXCEPT ![h] = @ + 1] /\ looked[h] < Looks /\ ~healthy[LookedAt(h)]
      BY <1>4, <2>2 DEF LookUnhealthy
    <3>3. /\ fewest'[h] \in Nat \cup {-1} /\ (fewest'[h] = -1 <=> chosen'[h] = None)
          /\ (algorithm = "random" => chosen'[h] = None) /\ chosen'[h] = chosen[h]
          /\ pc'[h] = "look" /\ chosen[h] \in Listed \cup {None}
      BY <3>1, <3>2 DEF ScanTells
    <3> QED BY <3>1, <3>2, <3>3, LooksGoOn
  <2> QED BY <2>1, <2>2
<1>5. ASSUME NEW g \in Handler, Count(g) PROVE ScanTells(h)'
  <2>1. CASE g # h
    BY <1>1, <1>5, <2>1, OthersStay DEF HandlerStep
  <2>2. CASE g = h
    <3>1. /\ ScanTells(h) /\ looked[h] < Looks /\ algorithm = "least_conn"
          /\ LookedAt(h) \in Node /\ LookedAt(h) \in Listed
      BY <1>5, <2>2, LookedAtListed DEF Count, LookInv, Scanning, ScanTells, HandlersInv
    <3>2. conns[LookedAt(h)] \in Nat /\ LookedAt(h) # None
      BY <3>1, ConnsAreBounded, BackendNodeAssumption
    <3>3. /\ fewest'[h] \in Nat \cup {-1} /\ (fewest'[h] = -1 <=> chosen'[h] = None)
          /\ chosen'[h] # None /\ chosen'[h] \in Listed
      <4>1. CASE fewest[h] = -1 \/ conns[LookedAt(h)] < fewest[h]
        BY <1>5, <2>2, <3>1, <3>2, <4>1 DEF Count, HandlersInv
      <4>2. CASE ~(fewest[h] = -1 \/ conns[LookedAt(h)] < fewest[h])
        BY <1>5, <2>2, <3>1, <4>2 DEF Count, ScanTells
      <4> QED BY <4>1, <4>2
    <3>4. /\ UNCHANGED <<listVars, first, lasting>> /\ pc'[h] = "look"
          /\ looked' = [looked EXCEPT ![h] = @ + 1]
      BY <1>5, <2>2 DEF Count, HandlersInv
    <3> QED BY <3>1, <3>3, <3>4, LooksGoOn
  <2> QED BY <2>1, <2>2
<1>6. ASSUME NEW g \in Handler, ScanEnd(g) PROVE ScanTells(h)'
  <2>1. g # h
    BY <1>6 DEF ScanEnd, Choose, HandlersInv, Scanning
  <2> QED BY <1>1, <1>6, <2>1, OthersStay DEF HandlerStep
<1>7. ASSUME NEW g \in Handler, IncrConns(g) \/ Finish(g) PROVE ScanTells(h)'
  <2>1. g # h
    BY <1>7 DEF IncrConns, Finish, HandlersInv, Scanning
  <2> QED BY <1>1, <1>7, <2>1, OthersStay DEF HandlerStep
<1>8. ASSUME NEW n \in Node, AddBackend(n) \/ RemoveBackend(n) PROVE ScanTells(h)'
  BY <1>8 DEF AddBackend, RemoveBackend, NoScan, Scanning
<1>9. ASSUME NEW n \in Node, NEW b \in BOOLEAN, SetHealth(n, b) PROVE ScanTells(h)'
  <2>1. /\ ScanTells(h) /\ healthy' = [healthy EXCEPT ![n] = b] /\ healthy \in [Node -> BOOLEAN]
        /\ UNCHANGED <<algorithm, nodes, pc, first, looked, chosen, fewest>>
        /\ lasting'[h] = IF b THEN lasting[h] ELSE lasting[h] \ {n}
    BY <1>9 DEF SetHealth, LookInv, Scanning, scanVars, HandlersInv
  <2>2. Listed' = Listed /\ Looks' = Looks
    BY <2>1 DEF Listed, Looks
  <2>3. \A k \in Nat : nodes'[Place(h, k)'] = nodes[Place(h, k)]
    BY <2>1 DEF Place
  <2>4. \A m \in lasting'[h] : m \in lasting[h] /\ m \in Listed /\ healthy'[m]
    <3>1. \A m \in lasting[h] : m \in Listed /\ healthy[m] /\ m \in Node
      BY <2>1 DEF ScanTells, HandlersInv
    <3> QED BY <2>1, <3>1
  <2>5. lasting'[h] \subseteq {m \in Listed' : healthy'[m]} /\ lasting'[h] \subseteq lasting[h]
    BY <2>2, <2>4
  <2> QED BY <2>1, <2>2, <2>3, <2>5 DEF ScanTells
<1>10. CASE UNCHANGED balancerVars
  BY <1>1, <1>10 DEF balancerVars, listVars
<1> QED BY <1>2, <1>3, <1>4, <1>5, <1>6, <1>7, <1>8, <1>9, <1>10 DEF BalancerStep, HandlerStep

LEMMA LookInvariant == BalancerSpec => []LookInv
<1>1. NewBalancer => LookInv
  BY DEF NewBalancer, LookInv, Scanning
<1>2. HandlersInv /\ ConnsMatchHandlers /\ LookInv /\ [BalancerStep]_balancerVars => LookInv'
  BY LookStepKeeps
<1> QED BY <1>1, <1>2, HandlersInvariant, ConnsCountHandlers, PTL DEF BalancerSpec

\* The types of the two balancers' state: a count of requests is a natural
\* number although DecrConns checks nothing.
THEOREM BalancerTypeCorrect == BalancerSpec => []BalancerTypeOK
<1>1. ASSUME HandlersInv, ConnsMatchHandlers, LookInv PROVE BalancerTypeOK
  <2>1. conns \in [Node -> Nat]
    BY <1>1, ConnsAreBounded DEF HandlersInv
  <2>2. \A h \in Handler : fewest[h] \in Nat \cup {-1}
    BY <1>1 DEF HandlersInv, LookInv, ScanTells
  <2>3. fewest \in [Handler -> Nat \cup {-1}]
    BY <1>1, <2>2 DEF HandlersInv
  <2> QED BY <1>1, <2>1, <2>3 DEF HandlersInv, BalancerTypeOK
<1> QED BY <1>1, HandlersInvariant, ConnsCountHandlers, LookInvariant, PTL

\* Once it is over, a scan has looked at every place of the list: LeastConnLB's
\* in order, RandomLB's from the seed on and round.
LEMMA ScansLookEverywhere ==
  ASSUME HandlersInv, LookInv, NEW h \in Handler, ScanEnd(h), NEW i \in 1 .. Len(nodes)
  PROVE  \E k \in Nat : k < looked[h] /\ Place(h, k) = i
<1> DEFINE L == Len(nodes)
           f == first[h]
<1>1. L \in Nat \ {0} /\ f \in 0 .. L - 1 /\ looked[h] = Looks /\ ScanTells(h) /\ i \in 1 .. L
  BY DEF ScanEnd, HandlersInv, ListTypeOK, LookInv, Scanning, ScanTells
<1>2. ASSUME NEW k \in Nat, NEW j \in Int, f + k = j PROVE Place(h, k) = (j % L) + 1
  BY <1>2 DEF Place
<1>3. looked[h] = IF algorithm = "random" THEN 2 * L ELSE L
  BY <1>1 DEF Looks
<1>4. algorithm \in {"random", "least_conn"} /\ (algorithm = "least_conn" => f = 0)
  BY <1>1 DEF HandlersInv, Algorithm, ScanTells
<1> HIDE DEF L, f
<1>5. CASE i - 1 >= f
  <2>1. i - 1 \in 0 .. L - 1
    BY <1>1
  <2>2. f + (i - 1 - f) = i - 1 /\ i - 1 - f \in Nat /\ i - 1 - f < L
    BY <1>1, <1>5
  <2>3. (i - 1) % L = i - 1
    BY <1>1, <2>1, Wraps
  <2>4. Place(h, i - 1 - f) = ((i - 1) % L) + 1
    BY <1>2, <2>1, <2>2
  <2>5. Place(h, i - 1 - f) = i
    BY <1>1, <2>3, <2>4
  <2> QED BY <1>1, <1>3, <2>2, <2>5
<1>6. CASE i - 1 < f
  <2>1. i - 1 + L \in L .. 2 * L - 1 /\ algorithm = "random"
    BY <1>1, <1>4, <1>6
  <2>2. /\ f + (i - 1 + L - f) = i - 1 + L /\ i - 1 + L - f \in Nat
        /\ i - 1 + L - f < 2 * L
    BY <1>1, <1>6
  <2>3. PICK j \in L .. 2 * L - 1 : j = i - 1 + L
    BY <2>1
  <2>4. j % L = j - L
    BY <1>1, Wraps
  <2>5. Place(h, i - 1 + L - f) = (j % L) + 1
    BY <1>1, <1>2, <2>2, <2>3
  <2>6. Place(h, i - 1 + L - f) = i
    <3>1. j - L + 1 = i
      BY <1>1, <2>3
    <3> QED BY <2>4, <2>5, <3>1
  <2> QED BY <1>3, <2>1, <2>2, <2>6
<1> QED BY <1>1, <1>5, <1>6

LEMMA NoFallback ==
  ASSUME HandlersInv, LookInv, NEW h \in Handler, ScanEnd(h), chosen[h] = None
  PROVE  lasting[h] = {}
<1> SUFFICES ASSUME NEW n \in lasting[h] PROVE FALSE
  OBVIOUS
<1>1. ScanTells(h)
  BY DEF LookInv, ScanEnd, Scanning
<1>2. PICK i \in 1 .. Len(nodes) : nodes[i] = n
  BY <1>1 DEF ScanTells, Listed
<1>3. PICK k \in Nat : k < looked[h] /\ Place(h, k) = i
  BY <1>2, ScansLookEverywhere
<1> QED BY <1>1, <1>2, <1>3 DEF ScanTells

\* A node that was healthy during the whole scan keeps Next from falling back to
\* the first node of the list, whichever the algorithm and wherever its scan
\* began.
THEOREM SteadyNodeChosen == BalancerSpec => NoFallbackIfSteady
<1>1. HandlersInv /\ LookInv /\ [BalancerStep]_balancerVars =>
        [\A h \in Handler : ScanEnd(h) /\ chosen[h] = None => lasting[h] = {}]_balancerVars
  BY NoFallback
<1> QED BY <1>1, HandlersInvariant, LookInvariant, PTL DEF BalancerSpec, NoFallbackIfSteady

--------------------------------------------------------------------------------
(* SharedBalancer: the choice its callers see *)

\* A handler's call of Next, as NodeChoice has it.
PhaseOf(h) == IF Scanning(h) THEN "asking" ELSE "idle"
NoticedBy(h) == IF Scanning(h) THEN Found(h) ELSE {}
AnswerTo(h) == IF Scanning(h) THEN None ELSE chosen[h]

\* A step that leaves a handler's scan alone leaves its call alone.
LEMMA OtherCallsKeep ==
  ASSUME NEW h \in Handler, nodes' = nodes, pc'[h] = pc[h], first'[h] = first[h],
         looked'[h] = looked[h], chosen'[h] = chosen[h]
  PROVE  PhaseOf(h)' = PhaseOf(h) /\ NoticedBy(h)' = NoticedBy(h) /\ AnswerTo(h)' = AnswerTo(h)
<1>1. Scanning(h)' = Scanning(h) /\ LookedAt(h)' = LookedAt(h)
  BY DEF Scanning, LookedAt
<1>2. Found(h)' = Found(h)
  BY <1>1 DEF Found
<1> QED BY <1>1, <1>2 DEF PhaseOf, NoticedBy, AnswerTo

\* What a handler does is a step of its own call, or none: what its scan has found
\* healthy is what the call noticed, and the end of the scan is the answer.
LEMMA HandlerChooses ==
  ASSUME HandlersInv, LookInv, NEW h \in Handler, HandlerStep(h)
  PROVE  [SharedChoice!Next]_(SharedChoice!vars)
<1> DEFINE phase == [g \in Handler |-> PhaseOf(g)]
           noticed == [g \in Handler |-> NoticedBy(g)]
           answer == [g \in Handler |-> AnswerTo(g)]
           ChoiceStep == [SharedChoice!Next]_(SharedChoice!vars)
<1> SUFFICES ChoiceStep
  OBVIOUS
<1>1. \A g \in Handler \ {h} :
        /\ PhaseOf(g)' = PhaseOf(g) /\ NoticedBy(g)' = NoticedBy(g) /\ AnswerTo(g)' = AnswerTo(g)
        /\ lasting'[g] = lasting[g]
  BY OthersStay, OtherCallsKeep DEF listVars
<1>2. nodes' = nodes /\ healthy' = healthy /\ Listed' = Listed
  BY DEF HandlerStep, BeginScan, LookHealthy, LookUnhealthy, Count, ScanEnd, IncrConns, Finish,
         listVars, Listed
<1>3. lasting \in [Handler -> SUBSET Node] /\ lasting' \in [Handler -> SUBSET Node]
  BY HandlersStepKeeps DEF HandlersInv, BalancerStep
\* The call stands where it stood, or has noticed something.
<1>4. ASSUME Scanning(h), Scanning(h)', UNCHANGED lasting,
             Found(h)' \subseteq Found(h) \cup {n \in Listed : healthy[n]}
      PROVE  ChoiceStep
  <2>1. PhaseOf(h) = "asking" /\ PhaseOf(h)' = PhaseOf(h) /\ AnswerTo(h)' = AnswerTo(h)
        /\ NoticedBy(h) = Found(h) /\ NoticedBy(h)' = Found(h)'
    BY <1>4 DEF PhaseOf, AnswerTo, NoticedBy
  <2>2. phase' = phase /\ answer' = answer /\ noticed' = [noticed EXCEPT ![h] = Found(h)']
    BY <1>1, <2>1
  <2>3. phase[h] = "asking" /\ noticed[h] = Found(h)
    BY <2>1
  <2>4. SharedChoice!Notice(h)
    BY <1>2, <1>4, <2>2, <2>3
       DEF SharedChoice!Notice, SharedChoice!HealthyNow, PhaseOf, NoticedBy, AnswerTo
  <2> QED BY <2>4 DEF SharedChoice!Next
\* The call ends with an answer.
<1>5. ASSUME Scanning(h), NEW n \in Listed, Choose(h, n),
             n \in Found(h) \/ healthy[n] \/ lasting[h] = {}
      PROVE  ChoiceStep
  <2>1. PhaseOf(h) = "asking" /\ NoticedBy(h) = Found(h)
    BY <1>5 DEF PhaseOf, NoticedBy
  <2>2. PhaseOf(h)' = "idle" /\ NoticedBy(h)' = {} /\ AnswerTo(h)' = n
    BY <1>5 DEF Choose, Scanning, PhaseOf, NoticedBy, AnswerTo, HandlersInv
  <2>3. /\ phase' = [phase EXCEPT ![h] = "idle"] /\ noticed' = [noticed EXCEPT ![h] = {}]
        /\ answer' = [answer EXCEPT ![h] = n] /\ lasting' = [lasting EXCEPT ![h] = {}]
    BY <1>1, <1>5, <2>2 DEF Choose
  <2>4. phase[h] = "asking" /\ noticed[h] = Found(h)
    BY <2>1
  <2>5. SharedChoice!Answer(h)
    BY <1>2, <1>5, <2>3, <2>4
       DEF SharedChoice!Answer, SharedChoice!HealthyNow, PhaseOf, NoticedBy, AnswerTo
  <2> QED BY <2>5 DEF SharedChoice!Next
<1>6. CASE BeginScan(h)
  <2>1. /\ pc[h] = "idle" /\ pc'[h] = "look" /\ chosen' = chosen /\ chosen[h] = None
        /\ nodes # <<>> /\ lasting' = [lasting EXCEPT ![h] = {n \in Listed : healthy[n]}]
    BY <1>6 DEF BeginScan, HandlersInv
  <2>2. /\ PhaseOf(h) = "idle" /\ PhaseOf(h)' = "asking"
        /\ NoticedBy(h)' = NoticedBy(h) /\ AnswerTo(h)' = AnswerTo(h)
    BY <2>1 DEF Scanning, Found, PhaseOf, NoticedBy, AnswerTo
  <2>3. phase' = [phase EXCEPT ![h] = "asking"] /\ noticed' = noticed /\ answer' = answer
    BY <1>1, <2>2
  <2>4. phase[h] = "idle"
    BY <2>2
  <2>6. Listed # {}
    <3>1. 1 \in 1 .. Len(nodes)
      BY <2>1 DEF HandlersInv, ListTypeOK
    <3> QED BY <3>1 DEF Listed
  <2>5. SharedChoice!Ask(h)
    BY <1>2, <2>1, <2>3, <2>4, <2>6
       DEF SharedChoice!Ask, SharedChoice!HealthyNow, PhaseOf, NoticedBy, AnswerTo
  <2> QED BY <2>5 DEF SharedChoice!Next
<1>7. CASE LookHealthy(h)
  <2>1. Scanning(h) /\ healthy[LookedAt(h)] /\ LookedAt(h) \in Listed
    BY <1>7, LookedAtListed DEF LookHealthy, Scanning, HandlersInv
  <2>2. CASE algorithm = "random"
    BY <1>5, <1>7, <2>1, <2>2 DEF LookHealthy
  <2>3. CASE algorithm # "random"
    <3>1. /\ Scanning(h)' /\ UNCHANGED lasting /\ chosen' = chosen /\ LookedAt(h)' = LookedAt(h)
      BY <1>7, <2>3 DEF LookHealthy, Scanning, LookedAt, HandlersInv, listVars, scanVars
    <3>2. Found(h)' \subseteq Found(h) \cup {n \in Listed : healthy[n]}
      BY <2>1, <3>1 DEF Found
    <3> QED BY <1>4, <2>1, <3>1, <3>2
  <2> QED BY <2>2, <2>3
<1>8. CASE LookUnhealthy(h)
  <2>1. pc[h] = "look" /\ UNCHANGED <<pc, chosen, lasting>>
    BY <1>8 DEF LookUnhealthy
  <2> QED BY <1>4, <2>1 DEF Scanning, Found
<1>9. CASE Count(h)
  <2>1. pc[h] = "count" /\ pc'[h] = "look" /\ UNCHANGED lasting
    BY <1>9 DEF Count, HandlersInv
  <2>2. chosen'[h] \in {chosen[h], LookedAt(h)}
    BY <1>9 DEF Count, HandlersInv
  <2> QED BY <1>4, <2>1, <2>2 DEF Scanning, Found
<1>10. CASE ScanEnd(h)
  <2> DEFINE n == IF chosen[h] = None THEN nodes[1] ELSE chosen[h]
  <2>1. Scanning(h) /\ ScanTells(h) /\ nodes[1] \in Listed
    BY <1>10 DEF ScanEnd, Scanning, LookInv, HandlersInv, ListTypeOK, Listed
  <2>2. n \in Listed /\ (n \in Found(h) \/ lasting[h] = {})
    <3>1. CASE chosen[h] = None
      BY <1>10, <2>1, <3>1, NoFallback
    <3>2. CASE chosen[h] # None
      BY <2>1, <3>2 DEF ScanTells, Found
    <3> QED BY <3>1, <3>2
  <2>3. Choose(h, n)
    BY <1>10 DEF ScanEnd
  <2> HIDE DEF n
  <2> QED BY <1>5, <2>1, <2>2, <2>3
<1>11. CASE IncrConns(h)
  <2>1. ~Scanning(h) /\ ~Scanning(h)' /\ UNCHANGED <<chosen, lasting>>
    BY <1>11 DEF IncrConns, Scanning, HandlersInv
  <2>2. PhaseOf(h)' = PhaseOf(h) /\ NoticedBy(h)' = NoticedBy(h) /\ AnswerTo(h)' = AnswerTo(h)
    BY <2>1 DEF PhaseOf, NoticedBy, AnswerTo
  <2>3. phase' = phase /\ noticed' = noticed /\ answer' = answer
    BY <1>1, <2>2
  <2> QED BY <1>2, <2>1, <2>3 DEF SharedChoice!vars, PhaseOf, NoticedBy, AnswerTo
<1>12. CASE Finish(h)
  <2>1. /\ ~Scanning(h) /\ ~Scanning(h)' /\ chosen'[h] = None /\ UNCHANGED lasting
        /\ chosen[h] \in Node
    BY <1>12 DEF Finish, Scanning, HandlersInv
  <2>2. /\ PhaseOf(h) = "idle" /\ PhaseOf(h)' = PhaseOf(h) /\ NoticedBy(h)' = NoticedBy(h)
        /\ AnswerTo(h) # None /\ AnswerTo(h)' = None
    BY <2>1, BackendNodeAssumption DEF PhaseOf, NoticedBy, AnswerTo
  <2>3. phase' = phase /\ noticed' = noticed /\ answer' = [answer EXCEPT ![h] = None]
    BY <1>1, <2>2
  <2>4. phase[h] = "idle" /\ answer[h] # None
    BY <2>2
  <2>5. SharedChoice!GiveUp(h)
    BY <1>2, <2>1, <2>3, <2>4 DEF SharedChoice!GiveUp, PhaseOf, NoticedBy, AnswerTo
  <2> QED BY <2>5 DEF SharedChoice!Next
<1> QED BY <1>6, <1>7, <1>8, <1>9, <1>10, <1>11, <1>12 DEF HandlerStep

LEMMA SharedBalancerChooses ==
  ASSUME HandlersInv, LookInv, [BalancerStep]_balancerVars
  PROVE  [SharedChoice!Next]_(SharedChoice!vars)
<1> DEFINE phase == [g \in Handler |-> PhaseOf(g)]
           noticed == [g \in Handler |-> NoticedBy(g)]
           answer == [g \in Handler |-> AnswerTo(g)]
           ChoiceStep == [SharedChoice!Next]_(SharedChoice!vars)
<1> SUFFICES ChoiceStep
  OBVIOUS
<1>0. Listed \subseteq Node
  BY DEF HandlersInv, ListTypeOK, Listed
<1>1. ASSUME NEW h \in Handler, HandlerStep(h) PROVE ChoiceStep
  BY <1>1, HandlerChooses
<1>2. ASSUME UNCHANGED <<nodes, pc, first, looked, chosen>>
      PROVE  Listed' = Listed /\ phase' = phase /\ noticed' = noticed /\ answer' = answer
  BY <1>2, OtherCallsKeep DEF Listed
<1>3. ASSUME NEW n \in Node, AddBackend(n) \/ RemoveBackend(n) PROVE ChoiceStep
  <2>1. /\ NoScan /\ UNCHANGED <<healthy, pc, chosen, lasting>>
        /\ ListAppend(n) \/ ListDelete(n)
    BY <1>3 DEF AddBackend, RemoveBackend
  <2>2. Listed' \subseteq Node
    BY <1>0, <2>1, AppendKeepsList, DeleteKeepsList DEF HandlersInv
  <2>3. \A g \in Handler :
          /\ PhaseOf(g) = "idle" /\ PhaseOf(g)' = PhaseOf(g)
          /\ NoticedBy(g)' = NoticedBy(g) /\ AnswerTo(g)' = AnswerTo(g)
    BY <2>1 DEF NoScan, Scanning, PhaseOf, NoticedBy, AnswerTo
  <2>4. phase' = phase /\ noticed' = noticed /\ answer' = answer
    BY <2>3
  <2>5. SharedChoice!ChangeList
    BY <2>1, <2>2, <2>3, <2>4 DEF SharedChoice!ChangeList, PhaseOf, NoticedBy, AnswerTo
  <2> QED BY <2>5 DEF SharedChoice!Next
<1>4. ASSUME NEW n \in Node, NEW b \in BOOLEAN, SetHealth(n, b) PROVE ChoiceStep
  <2>1. /\ healthy' = [healthy EXCEPT ![n] = b]
        /\ lasting' = [h \in Handler |-> IF b THEN lasting[h] ELSE lasting[h] \ {n}]
    BY <1>4 DEF SetHealth
  <2>2. Listed' = Listed /\ phase' = phase /\ noticed' = noticed /\ answer' = answer
    <3>1. UNCHANGED <<nodes, pc, first, looked, chosen>>
      BY <1>4 DEF SetHealth, scanVars
    <3> QED BY <1>2, <3>1
  <2>3. CASE healthy[n] # b
    <3>1. SharedChoice!SetHealthy(n, b)
      BY <2>1, <2>2, <2>3 DEF SharedChoice!SetHealthy, PhaseOf, NoticedBy, AnswerTo
    <3> QED BY <3>1 DEF SharedChoice!Next
  <2>4. CASE healthy[n] = b
    <3>1. healthy' = healthy
      BY <2>1, <2>4 DEF HandlersInv
    <3>2. \A h \in Handler : ~b => n \notin lasting[h]
      BY <2>4 DEF HandlersInv, LookInv, ScanTells
    <3>3. lasting' = lasting
      BY <2>1, <3>2 DEF HandlersInv
    <3> QED BY <2>2, <3>1, <3>3 DEF SharedChoice!vars, PhaseOf, NoticedBy, AnswerTo
  <2> QED BY <2>3, <2>4
<1>5. CASE UNCHANGED balancerVars
  <2>1. UNCHANGED <<nodes, healthy, pc, first, looked, chosen, lasting>>
    BY <1>5 DEF balancerVars
  <2>2. Listed' = Listed /\ phase' = phase /\ noticed' = noticed /\ answer' = answer
    BY <1>2, <2>1
  <2> QED BY <2>1, <2>2 DEF SharedChoice!vars, PhaseOf, NoticedBy, AnswerTo
<1> HIDE DEF ChoiceStep
<1> QED BY <1>1, <1>3, <1>4, <1>5 DEF BalancerStep

\* RandomLB and LeastConnLB keep the promise of every balancer for any number of
\* handlers that scan at the same time: Next answers with a listed node, and with
\* one healthy at some moment of the scan if any was healthy all through it.
THEOREM SharedBalancerImplementsChoice == BalancerSpec => ImplementsSharedChoice
<1>1. NewBalancer => SharedChoice!Init
  <2> SUFFICES ASSUME NewBalancer PROVE SharedChoice!Init
    OBVIOUS
  <2>1. Listed \subseteq Node
    BY BaseLBAssumption DEF NewBalancer, NewNodeList, Listed
  <2>2. \A h \in Handler : ~Scanning(h) /\ chosen[h] = None
    BY DEF NewBalancer, Scanning
  <2> QED BY <2>1, <2>2 DEF NewBalancer, NewBackendNodes, SharedChoice!Init
<1>2. HandlersInv /\ LookInv /\ [BalancerStep]_balancerVars
        => [SharedChoice!Next]_(SharedChoice!vars)
  BY SharedBalancerChooses
<1> QED BY <1>1, <1>2, HandlersInvariant, LookInvariant, PTL
        DEF BalancerSpec, ImplementsSharedChoice, SharedChoice!Spec

--------------------------------------------------------------------------------
(* SharedBalancer: how stale a choice is *)

\* LeastConnLB compares counts it read at different times.  Each has moved since
\* by no more than the changes the scan has seen, and a number of changes that
\* is too large to be kept exactly is larger than any count.
Stale(h) ==
  /\ fewest[h] <= Cardinality(Handler)
  /\ conns[chosen[h]] <= fewest[h] + moves[h]
  /\ \A k \in 1 .. looked[h] : nodes[k] \in lasting[h] =>
       /\ fewest[h] <= conns[nodes[k]] + moves[h]
       /\ conns[chosen[h]] <= conns[nodes[k]] + moves[h]

StaleInv == \A h \in Handler : Scanning(h) /\ chosen[h] # None => Stale(h)

\* The k-th look of LeastConnLB is at the k-th node.
LEMMA LooksInOrder ==
  ASSUME HandlersInv, LookInv, NEW h \in Handler, Scanning(h), algorithm = "least_conn"
  PROVE  /\ \A k \in 1 .. Len(nodes) : Place(h, k - 1) = k
         /\ looked[h] <= Len(nodes)
<1> DEFINE L == Len(nodes)
<1>1. L \in Nat \ {0} /\ first[h] = 0 /\ looked[h] <= L
  BY DEF HandlersInv, ListTypeOK, LookInv, ScanTells, Looks
<1>2. \A k : Place(h, k) = ((0 + k) % L) + 1
  BY <1>1 DEF Place
<1> HIDE DEF L
<1>3. ASSUME NEW k \in 1 .. L PROVE Place(h, k - 1) = k
  <2>1. k - 1 \in 0 .. L - 1 /\ 0 + (k - 1) = k - 1
    BY <1>1
  <2> QED BY <1>1, <1>2, <2>1, Wraps
<1> QED BY <1>1, <1>3 DEF L

\* A step that moves no count and leaves a handler's scan alone.
LEMMA OtherChoicesKeep ==
  ASSUME NEW h \in Handler, Stale(h), UNCHANGED <<nodes, conns>>, looked'[h] = looked[h],
         chosen'[h] = chosen[h], fewest'[h] = fewest[h], moves'[h] = moves[h],
         lasting'[h] \subseteq lasting[h]
  PROVE  Stale(h)'
BY DEF Stale

\* A count that goes up or down by one counts as one change to every scan, while
\* the number of changes can be kept; after that it is beyond every count.
LEMMA ChangesCount ==
  ASSUME HandlersInv, ConnsMatchHandlers, ConnsMatchHandlers', HandlersInv',
         NEW h \in Handler, Scanning(h), Stale(h), chosen[h] \in Node, fewest[h] \in Nat,
         UNCHANGED <<nodes, fewest>>, looked'[h] = looked[h], chosen'[h] = chosen[h],
         lasting'[h] \subseteq lasting[h], Moved, looked[h] <= Len(nodes),
         NEW d \in {-1, 1}, NEW c \in Node, AddConns(c, d)
  PROVE  Stale(h)'
<1> DEFINE N == Cardinality(Handler)
<1>1. N \in Nat
  BY SharedBalancerAssumption, FS_CardinalityType
<1>2. \A n \in Node : conns[n] \in 0 .. N /\ conns'[n] \in 0 .. N
  <2>1. \A n \in Node : conns[n] \in 0 .. N
    BY ConnsAreBounded
  <2>2. (\A n \in Node : conns[n] \in 0 .. N)'
    BY HandlersAreFinite DEF ConnsMatchHandlers
  <2> QED BY <2>1, <2>2
<1>3. \A n \in Node : conns'[n] = IF n = c THEN conns[n] + d ELSE conns[n]
  BY DEF AddConns, HandlersInv
<1>4. \A k \in 1 .. looked[h] : nodes[k] \in Node
  <2>1. nodes \in Seq(Node) /\ looked[h] \in Nat
    BY DEF HandlersInv, ListTypeOK
  <2>2. \A k \in 1 .. looked[h] : k \in 1 .. Len(nodes)
    BY <2>1
  <2> QED BY <2>1, <2>2
<1>5. moves[h] \in 0 .. N /\ moves'[h] = IF moves[h] < N THEN moves[h] + 1 ELSE moves[h]
  BY DEF Moved, HandlersInv
<1>6. /\ fewest[h] <= N /\ conns[chosen[h]] <= fewest[h] + moves[h]
      /\ \A k \in 1 .. looked[h] : nodes[k] \in lasting[h] =>
           /\ fewest[h] <= conns[nodes[k]] + moves[h]
           /\ conns[chosen[h]] <= conns[nodes[k]] + moves[h]
  BY DEF Stale
<1> HIDE DEF N
\* Both counts of a comparison are one request further apart at most.
<1>7. ASSUME NEW a \in Node, NEW b \in Node, conns[a] <= conns[b] + moves[h]
      PROVE  conns'[a] <= conns'[b] + moves'[h]
  <2>1. CASE moves[h] < N
    <3>1. /\ d = 1 => conns'[a] <= conns[a] + 1 /\ conns'[b] >= conns[b]
          /\ d = -1 => conns'[a] <= conns[a] /\ conns'[b] >= conns[b] - 1
      BY <1>2, <1>3
    <3> QED BY <1>2, <1>5, <1>7, <2>1, <3>1, SMTT(30)
  <2>2. CASE moves[h] = N
    BY <1>1, <1>2, <1>5, <2>2
  <2> QED BY <1>1, <1>5, <2>1, <2>2
<1>8. ASSUME NEW a \in Node, conns[a] <= fewest[h] + moves[h]
      PROVE  conns'[a] <= fewest[h] + moves'[h]
  <2>1. conns'[a] <= conns[a] + 1 /\ conns[a] \in 0 .. N /\ conns'[a] \in 0 .. N
    BY <1>2, <1>3
  <2>2. CASE moves[h] < N
    BY <1>5, <1>8, <2>1, <2>2
  <2>3. CASE moves[h] = N
    BY <1>1, <1>5, <2>1, <2>3
  <2> QED BY <1>1, <1>5, <2>2, <2>3
<1>9. ASSUME NEW b \in Node, fewest[h] <= conns[b] + moves[h]
      PROVE  fewest[h] <= conns'[b] + moves'[h]
  <2>1. conns'[b] >= conns[b] - 1 /\ conns[b] \in 0 .. N /\ conns'[b] \in 0 .. N
    BY <1>2, <1>3
  <2>2. CASE moves[h] < N
    BY <1>5, <1>9, <2>1, <2>2
  <2>3. CASE moves[h] = N
    BY <1>1, <1>5, <1>6, <2>1, <2>3
  <2> QED BY <1>1, <1>5, <2>2, <2>3
<1>10. nodes' = nodes /\ fewest' = fewest
  OBVIOUS
<1>11. conns'[chosen[h]] <= fewest[h] + moves'[h]
  BY <1>6, <1>8
<1>12. ASSUME NEW k \in 1 .. looked[h], nodes[k] \in lasting[h]
       PROVE  /\ fewest[h] <= conns'[nodes[k]] + moves'[h]
              /\ conns'[chosen[h]] <= conns'[nodes[k]] + moves'[h]
  <2>1. nodes[k] \in Node
    BY <1>4
  <2> QED BY <1>6, <1>7, <1>9, <1>12, <2>1
<1> QED BY <1>6, <1>10, <1>11, <1>12 DEF Stale, N

LEMMA StaleStepKeeps ==
  ASSUME HandlersInv, ConnsMatchHandlers, LookInv, StaleInv, [BalancerStep]_balancerVars,
         HandlersInv', ConnsMatchHandlers', LookInv'
  PROVE  StaleInv'
<1> SUFFICES ASSUME NEW h \in Handler, Scanning(h)', chosen'[h] # None PROVE Stale(h)'
  BY DEF StaleInv
<1>1. ASSUME UNCHANGED <<nodes, conns>>, pc'[h] = pc[h], looked'[h] = looked[h],
             chosen'[h] = chosen[h], fewest'[h] = fewest[h], moves'[h] = moves[h],
             lasting'[h] \subseteq lasting[h]
      PROVE  Stale(h)'
  BY <1>1, OtherChoicesKeep DEF StaleInv, Scanning
<1>2. ASSUME NEW g \in Handler, BeginScan(g) PROVE Stale(h)'
  <2>1. g # h
    BY <1>2 DEF BeginScan, HandlersInv
  <2> QED BY <1>1, <1>2, <2>1, OthersStay, ScansMoveNothing DEF HandlerStep, listVars
<1>3. ASSUME NEW g \in Handler, LookHealthy(g) PROVE Stale(h)'
  <2>1. CASE g # h
    BY <1>1, <1>3, <2>1, OthersStay, ScansMoveNothing DEF HandlerStep, listVars
  <2>2. CASE g = h
    <3>1. /\ Scanning(h) /\ pc'[h] # "chosen"
          /\ UNCHANGED <<nodes, conns, looked, chosen, fewest, moves, lasting>>
      BY <1>3, <2>2 DEF LookHealthy, Choose, Scanning, HandlersInv, scanVars, listVars
    <3> QED BY <3>1, OtherChoicesKeep DEF StaleInv
  <2> QED BY <2>1, <2>2
<1>4. ASSUME NEW g \in Handler, LookUnhealthy(g) PROVE Stale(h)'
  <2>1. CASE g # h
    BY <1>1, <1>4, <2>1, OthersStay, ScansMoveNothing DEF HandlerStep, listVars
  <2>2. CASE g = h
    <3>1. /\ Scanning(h) /\ ~healthy[LookedAt(h)] /\ looked[h] < Looks /\ looked[h] \in Nat
          /\ UNCHANGED <<nodes, conns, chosen, fewest, moves, lasting>>
          /\ looked'[h] = looked[h] + 1
      BY <1>4, <2>2 DEF LookUnhealthy, Scanning, HandlersInv, listVars
    <3>2. Stale(h) /\ ScanTells(h)
      BY <3>1 DEF StaleInv, LookInv
    <3>3. algorithm = "least_conn"
      BY <3>1, <3>2 DEF ScanTells, HandlersInv, Algorithm
    <3>4. nodes[looked[h] + 1] \notin lasting[h]
      <4>1. looked[h] < Len(nodes) /\ looked[h] + 1 \in 1 .. Len(nodes)
        <5>1. nodes \in Seq(Node) /\ Looks = Len(nodes)
          BY <3>3 DEF Looks, HandlersInv, ListTypeOK
        <5> QED BY <3>1, <5>1
      <4>2. Place(h, (looked[h] + 1) - 1) = looked[h] + 1
        BY <3>1, <3>3, <4>1, LooksInOrder
      <4>3. LookedAt(h) = nodes[looked[h] + 1]
        BY <3>1, <4>2 DEF Place, LookedAt
      <4> QED BY <3>1, <3>2, <4>3 DEF ScanTells
    <3>5. \A k \in 1 .. looked[h] + 1 : nodes[k] \in lasting[h] => k \in 1 .. looked[h]
      BY <3>1, <3>4
    <3> QED BY <3>1, <3>2, <3>5 DEF Stale
  <2> QED BY <2>1, <2>2
<1>5. ASSUME NEW g \in Handler, Count(g) PROVE Stale(h)'
  <2>1. CASE g # h
    BY <1>1, <1>5, <2>1, OthersStay, ScansMoveNothing DEF HandlerStep, listVars
  <2>2. CASE g = h
    <3> DEFINE n == LookedAt(h)
               l == looked[h]
    <3>1. /\ Scanning(h) /\ UNCHANGED <<nodes, conns, moves, lasting>>
          /\ looked'[h] = l + 1 /\ l \in Nat /\ moves[h] \in Nat /\ fewest[h] \in Int
      BY <1>5, <2>2 DEF Count, Scanning, HandlersInv, listVars
    <3>2. ScanTells(h) /\ algorithm = "least_conn" /\ l < Len(nodes)
      BY <1>5, <2>2, <3>1 DEF Count, LookInv, ScanTells, Looks
    <3>3. /\ n = nodes[l + 1] /\ n \in Node
          /\ \A k \in 1 .. l : nodes[k] \in Node /\ nodes[k] = nodes[Place(h, k - 1)]
      <4>1. \A k \in 1 .. Len(nodes) : Place(h, k - 1) = k
        BY <3>1, <3>2, LooksInOrder
      <4>2. Len(nodes) \in Nat /\ \A k \in 1 .. Len(nodes) : nodes[k] \in Node
        <5>1. nodes \in Seq(Node)
          BY DEF HandlersInv, ListTypeOK
        <5> QED BY <5>1
      <4>5. l + 1 \in 1 .. Len(nodes) /\ (l + 1) - 1 = l /\ \A k \in 1 .. l : k \in 1 .. Len(nodes)
        BY <3>1, <3>2, <4>2
      <4>3. Place(h, l) = l + 1
        BY <4>1, <4>5
      <4>4. n = nodes[l + 1]
        BY <4>3 DEF Place, LookedAt
      <4>6. n \in Node
        BY <4>2, <4>4, <4>5
      <4>7. \A k \in 1 .. l : nodes[k] \in Node /\ nodes[k] = nodes[Place(h, k - 1)]
        BY <4>1, <4>2, <4>5
      <4> HIDE DEF n
      <4> QED BY <4>4, <4>6, <4>7
    <3>4. conns[n] \in 0 .. Cardinality(Handler) /\ \A k \in 1 .. l : conns[nodes[k]] \in Nat
      BY <3>3, ConnsAreBounded
    <3>5. chosen[h] # None => Stale(h) /\ chosen[h] \in Node
      BY <3>1 DEF StaleInv, HandlersInv
    <3> HIDE DEF n
    <3>6. Cardinality(Handler) \in Nat
      BY SharedBalancerAssumption, FS_CardinalityType
    <3>7. CASE fewest[h] = -1 \/ conns[n] < fewest[h]
      <4>1. fewest'[h] = conns[n] /\ chosen'[h] = n
        BY <1>5, <2>2, <3>7 DEF Count, HandlersInv, n
      <4>2. ASSUME NEW k \in 1 .. l, nodes[k] \in lasting[h]
            PROVE  conns[n] <= conns[nodes[k]] + moves[h]
        <5>1. CASE chosen[h] = None
          <6>1. k - 1 \in Nat /\ k - 1 < l
            BY <3>1
          <6> QED BY <3>2, <3>3, <4>2, <5>1, <6>1 DEF ScanTells
        <5>2. CASE chosen[h] # None
          <6>1. fewest[h] <= conns[nodes[k]] + moves[h] /\ fewest[h] # -1
            BY <3>2, <3>5, <4>2, <5>2 DEF Stale, ScanTells
          <6> QED BY <3>1, <3>4, <3>7, <6>1
        <5> QED BY <5>1, <5>2
      <4>3. \A k \in 1 .. l + 1 : k \in 1 .. l \/ k = l + 1
        BY <3>1
      <4>4. \A k \in 1 .. l + 1 : nodes[k] \in lasting[h] => conns[n] <= conns[nodes[k]] + moves[h]
        BY <3>1, <3>3, <3>4, <4>2, <4>3
      <4>5. conns[n] <= conns[n] + moves[h] /\ conns[n] <= Cardinality(Handler)
        BY <3>1, <3>4, <3>6
      <4> QED BY <3>1, <4>1, <4>4, <4>5 DEF Stale
    <3>8. CASE ~(fewest[h] = -1 \/ conns[n] < fewest[h])
      <4>1. /\ fewest'[h] = fewest[h] /\ chosen'[h] = chosen[h] /\ chosen[h] # None
            /\ fewest[h] <= conns[n]
        BY <1>5, <2>2, <3>1, <3>2, <3>4, <3>8 DEF Count, ScanTells, n
      <4>2. conns[chosen[h]] \in Nat
        BY <3>5, <4>1, ConnsAreBounded
      <4>3. fewest[h] <= conns[n] + moves[h] /\ conns[chosen[h]] <= conns[n] + moves[h]
        BY <3>1, <3>4, <3>5, <4>1, <4>2 DEF Stale
      <4>4. \A k \in 1 .. l + 1 : k \in 1 .. l \/ k = l + 1
        BY <3>1
      <4> QED BY <3>1, <3>3, <3>5, <4>1, <4>3, <4>4 DEF Stale
    <3> QED BY <3>7, <3>8
  <2> QED BY <2>1, <2>2
<1>6. ASSUME NEW g \in Handler, ScanEnd(g) PROVE Stale(h)'
  <2>1. g # h
    BY <1>6 DEF ScanEnd, Choose, HandlersInv, Scanning
  <2> QED BY <1>1, <1>6, <2>1, OthersStay, ScansMoveNothing DEF HandlerStep, listVars
<1>7. ASSUME NEW g \in Handler, IncrConns(g) \/ Finish(g) PROVE Stale(h)'
  <2>1. g # h
    BY <1>7 DEF IncrConns, Finish, HandlersInv, Scanning
  <2>2. /\ Scanning(h) /\ chosen'[h] = chosen[h] /\ chosen[h] \in Node /\ Moved
        /\ UNCHANGED <<nodes, fewest, looked, algorithm>> /\ lasting'[h] \subseteq lasting[h]
        /\ chosen[g] \in Node /\ (AddConns(chosen[g], 1) \/ AddConns(chosen[g], -1))
    <3>1. /\ pc'[h] = pc[h] /\ chosen'[h] = chosen[h] /\ lasting'[h] = lasting[h]
          /\ UNCHANGED listVars
      BY <1>7, <2>1, OthersStay DEF HandlerStep
    <3>2. /\ pc[g] \in {"chosen", "proxy"} /\ Moved /\ UNCHANGED <<fewest, looked>>
          /\ AddConns(chosen[g], 1) \/ AddConns(chosen[g], -1)
      BY <1>7 DEF IncrConns, Finish, scanVars
    <3> QED BY <3>1, <3>2 DEF HandlersInv, Scanning, listVars
  <2>3. Stale(h) /\ ScanTells(h) /\ chosen[h] # None
    BY <2>2, BackendNodeAssumption DEF StaleInv, LookInv
  <2>4. algorithm = "least_conn" /\ fewest[h] \in Nat
    BY <2>3 DEF ScanTells, HandlersInv, Algorithm
  <2>5. looked[h] <= Len(nodes)
    BY <2>2, <2>4, LooksInOrder
  <2> QED BY <2>2, <2>3, <2>4, <2>5, ChangesCount
<1>8. ASSUME NEW n \in Node, AddBackend(n) \/ RemoveBackend(n) PROVE Stale(h)'
  BY <1>8 DEF AddBackend, RemoveBackend, NoScan, Scanning
<1>9. ASSUME NEW n \in Node, NEW b \in BOOLEAN, SetHealth(n, b) PROVE Stale(h)'
  <2>1. lasting'[h] \subseteq lasting[h]
    BY <1>9 DEF SetHealth
  <2> QED BY <1>1, <1>9, <2>1 DEF SetHealth, scanVars
<1>10. CASE UNCHANGED balancerVars
  BY <1>1, <1>10 DEF balancerVars
<1> QED BY <1>2, <1>3, <1>4, <1>5, <1>6, <1>7, <1>8, <1>9, <1>10 DEF BalancerStep, HandlerStep

\* When Next returns, the node LeastConnLB chose may carry more requests than a
\* node healthy throughout, by no more than the number of requests that began or
\* ended while it was scanning.
THEOREM ChoiceIsRecent == BalancerSpec => ChoiceStaleness
<1>1. ASSUME HandlersInv, LookInv, StaleInv, NEW h \in Handler, ScanEnd(h), NEW n \in lasting[h]
      PROVE  conns[chosen'[h]] <= conns[n] + moves[h]
  <2>1. chosen[h] # None
    BY <1>1, NoFallback
  <2>2. Scanning(h) /\ chosen'[h] = chosen[h] /\ ScanTells(h) /\ Stale(h)
    BY <1>1, <2>1 DEF ScanEnd, Choose, Scanning, HandlersInv, LookInv, StaleInv
  <2>3. algorithm = "least_conn"
    BY <1>1, <2>1, <2>2 DEF ScanTells, HandlersInv, Algorithm
  <2>4. PICK i \in 1 .. Len(nodes) : nodes[i] = n
    BY <1>1, <2>2 DEF ScanTells, Listed
  <2>5. looked[h] = Len(nodes)
    BY <1>1, <2>3 DEF ScanEnd, Looks
  <2> QED BY <1>1, <2>2, <2>4, <2>5 DEF Stale
<1>2. HandlersInv /\ LookInv /\ StaleInv /\ [BalancerStep]_balancerVars =>
        [\A h \in Handler : ScanEnd(h) =>
           \A n \in lasting[h] : conns[chosen'[h]] <= conns[n] + moves[h]]_balancerVars
  BY <1>1
<1>3. NewBalancer => StaleInv
  BY DEF NewBalancer, StaleInv, Scanning
<1>4. HandlersInv /\ ConnsMatchHandlers /\ LookInv /\ StaleInv /\ [BalancerStep]_balancerVars
      /\ HandlersInv' /\ ConnsMatchHandlers' /\ LookInv' => StaleInv'
  BY StaleStepKeeps
<1> QED BY <1>2, <1>3, <1>4, HandlersInvariant, ConnsCountHandlers, LookInvariant, PTL
        DEF BalancerSpec, ChoiceStaleness

--------------------------------------------------------------------------------
(* HealthChecker: the checkers in use *)

\* What checkOne makes of a checker, given what doCheck returned and whether it
\* sets the node.
After(c, ok, flips) ==
  LET counted == IF ok THEN AfterSuccess(c) ELSE AfterFailure(c)
  IN [counted EXCEPT !.lastStatus = IF flips THEN ok ELSE @]

LEMMA CountedStays ==
  /\ Enough \in Nat
  /\ \A a \in 0 .. Enough : Counted(a) \in 0 .. Enough
  /\ \A a, b \in Int : a <= b => Counted(a) <= Counted(b)
  /\ \A a \in -Enough .. Enough, ok \in BOOLEAN : Streak(a, ok) \in -Enough .. Enough
BY HealthCheckerAssumption DEF Enough, Larger, Counted, Streak

\* One result clears the count of the other kind and adds to that of its own.
LEMMA CheckerAfter ==
  ASSUME NEW c \in CheckerType, NEW ok \in BOOLEAN, NEW flips \in BOOLEAN
  PROVE  /\ After(c, ok, flips) \in CheckerType
         /\ After(c, ok, flips).node = c.node
         /\ ok => After(c, ok, flips).fails = 0 /\ After(c, ok, flips).successes = Counted(c.successes)
         /\ ~ok => After(c, ok, flips).fails = Counted(c.fails) /\ After(c, ok, flips).successes = 0
<1>1. /\ Counted(c.fails) \in 0 .. Enough /\ Counted(c.successes) \in 0 .. Enough
      /\ 0 \in 0 .. Enough
  BY CountedStays DEF CheckerType
<1>2. CASE ok
  <2>1. AfterSuccess(c) \in CheckerType
    BY <1>1 DEF AfterSuccess, CheckerType
  <2>2. /\ AfterSuccess(c).node = c.node /\ AfterSuccess(c).fails = 0
        /\ AfterSuccess(c).successes = Counted(c.successes)
    BY DEF AfterSuccess, CheckerType
  <2>3. After(c, ok, flips) = [AfterSuccess(c) EXCEPT !.lastStatus = IF flips THEN ok ELSE @]
    BY <1>2 DEF After
  <2> QED BY <1>2, <2>1, <2>2, <2>3 DEF CheckerType
<1>3. CASE ~ok
  <2>1. AfterFailure(c) \in CheckerType
    BY <1>1 DEF AfterFailure, CheckerType
  <2>2. /\ AfterFailure(c).node = c.node /\ AfterFailure(c).successes = 0
        /\ AfterFailure(c).fails = Counted(c.fails)
    BY DEF AfterFailure, CheckerType
  <2>3. After(c, ok, flips) = [AfterFailure(c) EXCEPT !.lastStatus = IF flips THEN ok ELSE @]
    BY <1>3 DEF After
  <2> QED BY <1>3, <2>1, <2>2, <2>3 DEF CheckerType
<1> QED BY <1>2, <1>3

\* The checkers the sweep holds, the one being probed among them.
Due == sweep \cup ({probing} \ {None})

\* A checker is being probed exactly while a probe is under way, and a sweep that
\* is over holds none.
LoopInv ==
  /\ loop \in {"checking", "applying"} <=> probing # None
  /\ loop \in {"new", "waiting", "ended"} => sweep = {}
  /\ probing \notin sweep

\* Every checker the map or the sweep holds is in the heap, and only those.
LEMMA HeapHolds ==
  ASSUME NEW new, Heap(new)
  PROVE  /\ DOMAIN heap' = InMap' \cup Due'
         /\ \A i \in DOMAIN heap' : heap'[i] = new[i]
BY DEF Heap, Due

LEMMA CheckerNext ==
  ASSUME CheckerTypeOK, LoopInv, [CheckerStep]_checkerVars
  PROVE  CheckerTypeOK' /\ LoopInv'
<1> DEFINE Fit(i) == heap[i] \in CheckerType /\ (heap[i].fails = 0 \/ heap[i].successes = 0)
           Placed(a) == checkers[a] # None => AddressOf[heap[checkers[a]].node] = a
<1>a. /\ \A i \in DOMAIN heap : Fit(i)
      /\ \A a \in Address : Placed(a)
      /\ DOMAIN heap = InMap \cup Due
  BY DEF CheckerTypeOK, Due
<1>b. Enough \in Nat
  BY CountedStays
<1>1. ASSUME NEW n \in Node, RegisterBackend(n) PROVE CheckerTypeOK' /\ LoopInv'
  <2> DEFINE new == CHOOSE i \in Checker : i \in Free
             address == AddressOf[n]
             fresh == [node |-> n, fails |-> 0, successes |-> 0, lastStatus |-> TRUE]
             old == [i \in DOMAIN heap \cup {new} |-> IF i = new THEN fresh ELSE heap[i]]
  <2>1. /\ checkers[address] = None /\ Free # {} /\ Heap(old)
        /\ checkers' = [checkers EXCEPT ![address] = new]
        /\ UNCHANGED <<up, healthy, failCount, streak, loop, sweep, probing, result, stopped>>
    BY <1>1 DEF RegisterBackend, nodeVars, loopVars
  <2>2. new \in Checker /\ new \notin DOMAIN heap /\ address \in Address
    BY <2>1, HealthCheckerAssumption DEF Free
  <2>3. fresh \in CheckerType /\ fresh.node = n /\ fresh.fails = 0
    BY <1>b DEF CheckerType
  <2> HIDE DEF new, address, fresh
  <2>4. new # None /\ checkers' \in [Address -> Checker \cup {None}]
    BY <2>1, <2>2, HealthCheckerAssumption DEF CheckerTypeOK
  <2>5. InMap' \subseteq InMap \cup {new} /\ Due' = Due
    BY <2>1 DEF InMap, Due, CheckerTypeOK
  <2>6. /\ DOMAIN heap' = InMap' \cup Due'
        /\ \A i \in DOMAIN heap' : heap'[i] = old[i]
    BY <2>1, HeapHolds
  <2>7. ASSUME NEW i \in DOMAIN heap'
        PROVE  (i = new /\ heap'[i] = fresh) \/ (i \in DOMAIN heap /\ i # new /\ heap'[i] = heap[i])
    BY <1>a, <2>2, <2>5, <2>6
  <2>8. ASSUME NEW i \in DOMAIN heap'
        PROVE  heap'[i] \in CheckerType /\ (heap'[i].fails = 0 \/ heap'[i].successes = 0)
    BY <1>a, <2>3, <2>7
  <2>9. ASSUME NEW a \in Address, checkers'[a] # None
        PROVE  AddressOf[heap'[checkers'[a]].node] = a
    <3>1. checkers'[a] \in DOMAIN heap'
      BY <2>6, <2>9 DEF InMap
    <3>2. CASE a = address
      <4>1. checkers'[a] = new
        BY <2>1, <3>2 DEF CheckerTypeOK
      <4> QED BY <2>2, <2>3, <2>7, <3>1, <3>2, <4>1 DEF address
    <3>3. CASE a # address
      <4>1. checkers'[a] = checkers[a] /\ checkers[a] \in DOMAIN heap
        BY <1>a, <2>1, <2>9, <3>3 DEF CheckerTypeOK, InMap
      <4> QED BY <1>a, <2>2, <2>7, <2>9, <3>1, <4>1
    <3> QED BY <3>2, <3>3
  <2> QED BY <2>1, <2>4, <2>6, <2>8, <2>9 DEF CheckerTypeOK, LoopInv, Due
<1>2. ASSUME NEW b \in Address, UnregisterBackend(b) PROVE CheckerTypeOK' /\ LoopInv'
  <2>1. /\ checkers' = [checkers EXCEPT ![b] = None] /\ Heap(heap)
        /\ UNCHANGED <<up, healthy, failCount, streak, loop, sweep, probing, result, stopped>>
    BY <1>2 DEF UnregisterBackend, nodeVars, loopVars
  <2>2. /\ checkers' \in [Address -> Checker \cup {None}]
        /\ InMap' \subseteq InMap /\ Due' = Due
        /\ \A a \in Address : checkers'[a] # None => checkers'[a] = checkers[a] /\ checkers[a] \in InMap'
    BY <2>1 DEF InMap, Due, CheckerTypeOK
  <2>3. /\ DOMAIN heap' = InMap' \cup Due' /\ DOMAIN heap' \subseteq DOMAIN heap
        /\ \A i \in DOMAIN heap' : heap'[i] = heap[i]
    BY <1>a, <2>1, <2>2, HeapHolds
  <2>4. \A a \in Address : checkers'[a] # None => AddressOf[heap'[checkers'[a]].node] = a
    BY <1>a, <2>2, <2>3
  <2>5. \A i \in DOMAIN heap' : heap'[i] \in CheckerType /\ (heap'[i].fails = 0 \/ heap'[i].successes = 0)
    BY <1>a, <2>3
  <2> QED BY <2>1, <2>2, <2>3, <2>4, <2>5 DEF CheckerTypeOK, LoopInv, Due
<1>3. ASSUME UNCHANGED <<checkers, heap>>, InMap \cup Due' = InMap \cup Due,
             healthy' \in [Node -> BOOLEAN], up' \in [Address -> BOOLEAN],
             failCount' \in [Node -> 0 .. Enough], streak' \in [Node -> -Enough .. Enough],
             loop' \in {"new", "waiting", "sweeping", "checking", "applying", "ended"},
             sweep' \subseteq Checker, probing' \in Checker \cup {None}, result' \in BOOLEAN,
             stopped' \in BOOLEAN
      PROVE  CheckerTypeOK'
  <2>1. InMap' = InMap /\ DOMAIN heap' = InMap' \cup Due'
    BY <1>a, <1>3 DEF InMap
  <2>2. /\ \A i \in DOMAIN heap' : heap'[i] \in CheckerType /\ (heap'[i].fails = 0 \/ heap'[i].successes = 0)
        /\ \A a \in Address : checkers'[a] # None => AddressOf[heap'[checkers'[a]].node] = a
        /\ checkers' \in [Address -> Checker \cup {None}]
    BY <1>a, <1>3 DEF CheckerTypeOK
  <2> QED BY <1>3, <2>1, <2>2 DEF CheckerTypeOK, Due
<1>4. CASE Sweep
  <2>1. InMap \subseteq Checker
    BY DEF InMap, CheckerTypeOK
  <2>2. Due = {} /\ Due' = InMap /\ LoopInv'
    BY <1>4, HealthCheckerAssumption DEF Sweep, Due, LoopInv, InMap, CheckerTypeOK
  <2>3. CheckerTypeOK'
    BY <1>3, <1>4, <2>1, <2>2 DEF Sweep, CheckerTypeOK, nodeVars
  <2> QED BY <2>2, <2>3
<1>5. CASE SweepEnd
  <2>1. Due' = Due /\ LoopInv'
    BY <1>5 DEF SweepEnd, Due, LoopInv
  <2>2. CheckerTypeOK'
    BY <1>3, <1>5, <2>1 DEF SweepEnd, CheckerTypeOK, nodeVars
  <2> QED BY <2>1, <2>2
<1>6. CASE CheckOne
  <2>1. PICK i \in sweep : probing' = i /\ sweep' = sweep \ {i}
    BY <1>6 DEF CheckOne
  <2>2. i \in Checker /\ i # None /\ probing = None
    BY <1>6, HealthCheckerAssumption DEF CheckerTypeOK, CheckOne, LoopInv
  <2>3. Due' = Due /\ LoopInv'
    BY <1>6, <2>1, <2>2 DEF CheckOne, Due, LoopInv
  <2>4. CheckerTypeOK'
    BY <1>3, <1>6, <2>1, <2>2, <2>3 DEF CheckOne, CheckerTypeOK, nodeVars
  <2> QED BY <2>3, <2>4
<1>7. CASE DoCheck
  <2>1. probing \in DOMAIN heap /\ Probed \in Node
    BY <1>7, <1>a DEF DoCheck, Due, LoopInv, Probed, CheckerType
  <2>2. result' = up[AddressOf[Probed]] /\ AddressOf[Probed] \in Address
    BY <1>7, <2>1, HealthCheckerAssumption DEF DoCheck
  <2>3. result' \in BOOLEAN
    BY <2>2 DEF CheckerTypeOK
  <2>4. failCount' \in [Node -> 0 .. Enough]
    <3>1. \/ failCount' = [failCount EXCEPT ![Probed] = IF result' THEN 0 ELSE Counted(@)]
          \/ UNCHANGED failCount
      BY <1>7 DEF DoCheck, Recount
    <3>2. failCount[Probed] \in 0 .. Enough
      BY <2>1 DEF CheckerTypeOK
    <3>3. Counted(failCount[Probed]) \in 0 .. Enough /\ 0 \in 0 .. Enough
      BY <1>b, <3>2, CountedStays
    <3> QED BY <3>1, <3>3 DEF CheckerTypeOK
  <2>5. streak' \in [Node -> -Enough .. Enough]
    <3>1. streak' = [streak EXCEPT ![Probed] = Streak(@, result')]
      BY <1>7 DEF DoCheck
    <3>2. Streak(streak[Probed], result') \in -Enough .. Enough
      BY <2>1, <2>3, CountedStays DEF CheckerTypeOK
    <3> QED BY <3>1, <3>2 DEF CheckerTypeOK
  <2>6. Due' = Due /\ LoopInv'
    BY <1>7 DEF DoCheck, Due, LoopInv
  <2>7. CheckerTypeOK'
    BY <1>3, <1>7, <2>3, <2>4, <2>5, <2>6 DEF DoCheck, CheckerTypeOK
  <2> QED BY <2>6, <2>7
<1>8. CASE Apply
  <2> DEFINE counted == IF result THEN AfterSuccess(heap[probing]) ELSE AfterFailure(heap[probing])
             flips == Flips(counted, result)
             new == [heap EXCEPT ![probing] = After(heap[probing], result, flips)]
  <2>1. /\ loop = "applying" /\ loop' = "sweeping" /\ probing' = None /\ result' = FALSE
        /\ UNCHANGED <<up, failCount, checkers, sweep, stopped, streak>>
        /\ healthy' = IF flips THEN [healthy EXCEPT ![Probed] = result] ELSE healthy
    BY <1>8 DEF Apply
  <2>2. Heap(new)
    BY <1>8 DEF Apply, After
  <2>3. probing \in DOMAIN heap /\ probing # None
    BY <1>a, <2>1 DEF LoopInv, Due
  <2>4. flips \in BOOLEAN /\ result \in BOOLEAN
    BY DEF Flips, CheckerTypeOK
  <2> HIDE DEF flips
  <2>5. healthy' \in [Node -> BOOLEAN]
    BY <2>1, <2>4 DEF CheckerTypeOK
  <2>6. InMap' = InMap /\ Due' = sweep
    BY <2>1, HealthCheckerAssumption DEF InMap, Due
  <2>7. /\ DOMAIN heap' = InMap' \cup Due' /\ DOMAIN heap' \subseteq DOMAIN heap
        /\ \A i \in DOMAIN heap' :
             heap'[i] = IF i = probing THEN After(heap[probing], result, flips) ELSE heap[i]
    <3>1. DOMAIN heap' = InMap' \cup Due' /\ \A i \in DOMAIN heap' : heap'[i] = new[i]
      BY <2>2, HeapHolds
    <3>2. DOMAIN heap' \subseteq DOMAIN heap
      BY <1>a, <2>6, <3>1 DEF Due
    <3>3. \A i \in DOMAIN heap :
            new[i] = IF i = probing THEN After(heap[probing], result, flips) ELSE heap[i]
      BY <2>3
    <3> QED BY <3>1, <3>2, <3>3
  <2>8. ASSUME NEW i \in DOMAIN heap'
        PROVE  heap'[i] \in CheckerType /\ (heap'[i].fails = 0 \/ heap'[i].successes = 0) /\ heap'[i].node = heap[i].node
    BY <1>a, <2>3, <2>4, <2>7, CheckerAfter
  <2>9. \A a \in Address : checkers'[a] # None => AddressOf[heap'[checkers'[a]].node] = a
    <3>1. \A a \in Address : checkers'[a] # None => checkers'[a] \in DOMAIN heap'
      BY <2>7 DEF InMap
    <3> QED BY <1>a, <2>1, <2>8, <3>1
  <2>10. LoopInv'
    BY <2>1, HealthCheckerAssumption DEF LoopInv, CheckerTypeOK
  <2> HIDE DEF new
  <2>11. CheckerTypeOK'
    <3>1. /\ probing' \in Checker \cup {None} /\ result' \in BOOLEAN /\ sweep' \subseteq Checker
          /\ loop' \in {"new", "waiting", "sweeping", "checking", "applying", "ended"}
          /\ DOMAIN heap' = InMap' \cup sweep' \cup ({probing'} \ {None})
      BY <2>1, <2>7 DEF CheckerTypeOK, Due
    <3>2. /\ up' \in [Address -> BOOLEAN] /\ failCount' \in [Node -> 0 .. Enough]
          /\ checkers' \in [Address -> Checker \cup {None}] /\ stopped' \in BOOLEAN
          /\ streak' \in [Node -> -Enough .. Enough]
      BY <2>1 DEF CheckerTypeOK
    <3> QED BY <2>5, <2>8, <2>9, <3>1, <3>2 DEF CheckerTypeOK
  <2> QED BY <2>10, <2>11
<1>9. CASE Start \/ Stop \/ RunReturn
  <2>1. Due' = Due /\ LoopInv'
    BY <1>9 DEF Start, Stop, RunReturn, Due, LoopInv, loopVars
  <2>2. CheckerTypeOK'
    BY <1>3, <1>9, <2>1 DEF Start, Stop, RunReturn, CheckerTypeOK, nodeVars, loopVars
  <2> QED BY <2>1, <2>2
<1>10. ASSUME NEW a \in Address, BackendChanges(a) PROVE CheckerTypeOK' /\ LoopInv'
  <2>1. Due' = Due /\ LoopInv'
    BY <1>10 DEF BackendChanges, Due, LoopInv, loopVars
  <2>2. up' \in [Address -> BOOLEAN]
    BY <1>10 DEF BackendChanges, CheckerTypeOK
  <2>3. CheckerTypeOK'
    BY <1>3, <1>10, <2>1, <2>2 DEF BackendChanges, CheckerTypeOK, nodeVars, loopVars
  <2> QED BY <2>1, <2>3
<1>11. CASE UNCHANGED checkerVars
  <2>1. Due' = Due /\ LoopInv'
    BY <1>11 DEF checkerVars, Due, LoopInv
  <2>2. CheckerTypeOK'
    BY <1>3, <1>11, <2>1 DEF checkerVars, CheckerTypeOK
  <2> QED BY <2>1, <2>2
<1> QED BY <1>1, <1>2, <1>4, <1>5, <1>6, <1>7, <1>8, <1>9, <1>10, <1>11 DEF CheckerStep, Run

\* The types of the health checker's state: whatever is registered and
\* unregistered during a sweep, the map and the sweep hold checkers in use, each
\* at its own node's address, whose results of one kind have cleared the count of
\* the other.
THEOREM CheckerTypeCorrect == CheckerSpec => []CheckerTypeOK
<1>1. NewHealthChecker => CheckerTypeOK /\ LoopInv
  <2> SUFFICES ASSUME NewHealthChecker PROVE CheckerTypeOK /\ LoopInv
    OBVIOUS
  <2>1. InMap = {} /\ sweep = {} /\ probing = None /\ DOMAIN heap = {} /\ loop = "new"
    BY DEF NewHealthChecker, InMap
  <2>2. Enough \in Nat
    BY CountedStays
  <2>3. /\ healthy \in [Node -> BOOLEAN] /\ failCount \in [Node -> 0 .. Enough]
        /\ streak \in [Node -> -Enough .. Enough]
    BY <2>2 DEF NewHealthChecker, NewBackendNodes
  <2> QED BY <2>1, <2>3, HealthCheckerAssumption DEF NewHealthChecker, CheckerTypeOK, LoopInv
<1>2. CheckerTypeOK /\ LoopInv /\ [CheckerStep]_checkerVars => CheckerTypeOK' /\ LoopInv'
  BY CheckerNext
<1> QED BY <1>1, <1>2, PTL DEF CheckerSpec

LEMMA LoopInvariant == CheckerSpec => []LoopInv
<1>1. NewHealthChecker => LoopInv
  BY DEF NewHealthChecker, LoopInv
<1>2. CheckerTypeOK /\ LoopInv /\ [CheckerStep]_checkerVars => LoopInv'
  BY CheckerNext
<1> QED BY <1>1, <1>2, CheckerTypeCorrect, PTL DEF CheckerSpec

--------------------------------------------------------------------------------
(* HealthChecker: one node, two checkers *)

\* A node that is registered again while a sweep still holds its old checker has
\* two, but only one of them is probed in this sweep: until the next one the new
\* checker has counted nothing.
OnePerNode ==
  /\ \A i, j \in Due : heap[i].node = heap[j].node => i = j
  /\ \A i \in InMap, j \in Due :
       i # j /\ heap[i].node = heap[j].node => heap[i].fails = 0 /\ heap[i].successes = 0

LEMMA OneInMapPerNode ==
  ASSUME CheckerTypeOK, NEW i \in InMap, NEW j \in InMap, heap[i].node = heap[j].node
  PROVE  i = j
BY DEF CheckerTypeOK, InMap

\* Registering takes a checker nobody holds; the others stay what they were.
LEMMA RegisterKeepsHeap ==
  ASSUME CheckerTypeOK, NEW n \in Node, RegisterBackend(n)
  PROVE  \E new \in Checker :
           /\ new \notin DOMAIN heap /\ InMap' \subseteq InMap \cup {new} /\ Due' = Due
           /\ \A i \in DOMAIN heap' :
                \/ i \in DOMAIN heap /\ i # new /\ heap'[i] = heap[i]
                \/ i = new /\ heap'[i].fails = 0 /\ heap'[i].successes = 0
           /\ DOMAIN heap' = InMap' \cup Due'
<1> DEFINE new == CHOOSE i \in Checker : i \in Free
           fresh == [node |-> n, fails |-> 0, successes |-> 0, lastStatus |-> TRUE]
           old == [i \in DOMAIN heap \cup {new} |-> IF i = new THEN fresh ELSE heap[i]]
<1>1. /\ Free # {} /\ Heap(old) /\ UNCHANGED <<sweep, probing>>
      /\ checkers' = [checkers EXCEPT ![AddressOf[n]] = new]
  BY DEF RegisterBackend, nodeVars, loopVars
<1>2. new \in Checker /\ new \notin DOMAIN heap
  BY <1>1 DEF Free
<1>3. fresh.fails = 0 /\ fresh.successes = 0
  OBVIOUS
<1> HIDE DEF new, fresh
<1>4. InMap' \subseteq InMap \cup {new} /\ Due' = Due
  BY <1>1 DEF InMap, Due, CheckerTypeOK
<1>5. DOMAIN heap' = InMap' \cup Due' /\ \A i \in DOMAIN heap' : heap'[i] = old[i]
  BY <1>1, HeapHolds
<1>6. DOMAIN heap' \subseteq DOMAIN heap \cup {new}
  BY <1>4, <1>5 DEF CheckerTypeOK, Due
<1>7. \A i \in DOMAIN heap' :
        \/ i \in DOMAIN heap /\ i # new /\ heap'[i] = heap[i]
        \/ i = new /\ heap'[i].fails = 0 /\ heap'[i].successes = 0
  BY <1>3, <1>5, <1>6
<1> QED BY <1>2, <1>4, <1>5, <1>7

\* checkOne changes the checker it probes, which the sweep then holds no longer.
LEMMA ApplyKeepsHeap ==
  ASSUME CheckerTypeOK, LoopInv, Apply
  PROVE  /\ probing \in DOMAIN heap /\ InMap' = InMap /\ Due' = sweep /\ probing \notin Due'
         /\ DOMAIN heap' = InMap' \cup Due' /\ DOMAIN heap' \subseteq DOMAIN heap
         /\ \A i \in DOMAIN heap' : i # probing => heap'[i] = heap[i]
         /\ probing \in DOMAIN heap' =>
              \E flips \in BOOLEAN : heap'[probing] = After(heap[probing], result, flips)
<1> DEFINE counted == IF result THEN AfterSuccess(heap[probing]) ELSE AfterFailure(heap[probing])
           flips == Flips(counted, result)
           new == [heap EXCEPT ![probing] = After(heap[probing], result, flips)]
<1>1. Heap(new) /\ loop = "applying" /\ probing' = None /\ UNCHANGED <<checkers, sweep>>
  BY DEF Apply, After
<1>2. probing \in DOMAIN heap /\ probing # None /\ flips \in BOOLEAN
  BY <1>1 DEF LoopInv, CheckerTypeOK, Flips
<1> HIDE DEF flips
<1>3. InMap' = InMap /\ Due' = sweep /\ probing \notin sweep
  BY <1>1, HealthCheckerAssumption DEF InMap, Due, LoopInv
<1>4. DOMAIN heap' = InMap' \cup Due' /\ \A i \in DOMAIN heap' : heap'[i] = new[i]
  BY <1>1, HeapHolds
<1>5. DOMAIN heap' \subseteq DOMAIN heap
  BY <1>3, <1>4 DEF CheckerTypeOK
<1>6. \A i \in DOMAIN heap :
        new[i] = IF i = probing THEN After(heap[probing], result, flips) ELSE heap[i]
  BY <1>2
<1> HIDE DEF new
<1>7. \A i \in DOMAIN heap' : i # probing => heap'[i] = heap[i]
  BY <1>4, <1>5, <1>6
<1>8. probing \in DOMAIN heap' => heap'[probing] = After(heap[probing], result, flips)
  BY <1>4, <1>5, <1>6
<1> QED BY <1>2, <1>3, <1>4, <1>5, <1>7, <1>8

LEMMA OnePerNodeNext ==
  ASSUME CheckerTypeOK, LoopInv, OnePerNode, [CheckerStep]_checkerVars
  PROVE  OnePerNode'
<1>0. DOMAIN heap = InMap \cup Due
  BY DEF CheckerTypeOK, Due
<1>1. ASSUME NEW n \in Node, RegisterBackend(n) PROVE OnePerNode'
  <2>1. PICK new \in Checker :
           /\ new \notin DOMAIN heap /\ InMap' \subseteq InMap \cup {new} /\ Due' = Due
           /\ \A i \in DOMAIN heap' :
                \/ i \in DOMAIN heap /\ i # new /\ heap'[i] = heap[i]
                \/ i = new /\ heap'[i].fails = 0 /\ heap'[i].successes = 0
           /\ DOMAIN heap' = InMap' \cup Due'
    BY <1>1, RegisterKeepsHeap
  <2>2. \A i \in Due' : i \in Due /\ heap'[i] = heap[i]
    BY <1>0, <2>1
  <2>3. \A i \in InMap' : \/ i \in InMap /\ heap'[i] = heap[i]
                          \/ heap'[i].fails = 0 /\ heap'[i].successes = 0
    BY <2>1
  <2> QED BY <2>2, <2>3 DEF OnePerNode
<1>2. ASSUME NEW a \in Address, UnregisterBackend(a) PROVE OnePerNode'
  <2>1. Heap(heap) /\ InMap' \subseteq InMap /\ Due' = Due
    BY <1>2 DEF UnregisterBackend, InMap, Due, CheckerTypeOK, loopVars
  <2>2. \A i \in InMap' \cup Due' : heap'[i] = heap[i]
    BY <2>1, HeapHolds
  <2> QED BY <2>1, <2>2 DEF OnePerNode
<1>3. ASSUME InMap' = InMap, Due' = Due, heap' = heap PROVE OnePerNode'
  BY <1>3 DEF OnePerNode
<1>4. CASE Sweep
  <2>1. InMap' = InMap /\ Due' = InMap /\ heap' = heap
    BY <1>4, HealthCheckerAssumption DEF Sweep, LoopInv, InMap, Due, CheckerTypeOK
  <2> QED BY <2>1, OneInMapPerNode DEF OnePerNode
<1>5. CASE CheckOne
  <2>1. PICK i \in sweep : probing' = i /\ sweep' = sweep \ {i} /\ UNCHANGED <<checkers, heap>>
    BY <1>5 DEF CheckOne
  <2>2. i # None /\ probing = None
    BY <1>5, HealthCheckerAssumption DEF CheckerTypeOK, CheckOne, LoopInv
  <2> QED BY <1>3, <2>1, <2>2 DEF Due, InMap
<1>6. CASE Apply
  <2>1. /\ InMap' = InMap /\ Due' = sweep /\ probing \notin Due' /\ probing \in DOMAIN heap
        /\ DOMAIN heap' = InMap' \cup Due' /\ DOMAIN heap' \subseteq DOMAIN heap
        /\ \A i \in DOMAIN heap' : i # probing => heap'[i] = heap[i]
    BY <1>6, ApplyKeepsHeap
  <2>2. sweep \subseteq Due /\ probing \in Due
    BY <1>6 DEF Due, Apply, LoopInv
  <2>3. ASSUME NEW i \in InMap', NEW j \in Due', i # j, heap'[i].node = heap'[j].node
        PROVE  heap'[i].fails = 0 /\ heap'[i].successes = 0
    <3>1. heap'[j] = heap[j]
      BY <2>1, <2>3
    <3>2. CASE i # probing
      BY <2>1, <2>2, <2>3, <3>1, <3>2 DEF OnePerNode
    <3>3. CASE i = probing
      <4>1. PICK flips \in BOOLEAN : heap'[i] = After(heap[i], result, flips)
        BY <1>6, <2>1, <2>3, <3>3, ApplyKeepsHeap
      <4>2. heap'[i].node = heap[i].node
        <5>1. heap[i] \in CheckerType /\ result \in BOOLEAN
          BY <2>1, <3>3 DEF CheckerTypeOK
        <5>2. After(heap[i], result, flips).node = heap[i].node
          BY <5>1, CheckerAfter
        <5> QED BY <4>1, <5>2
      <4> QED BY <2>1, <2>2, <2>3, <3>1, <3>3, <4>2 DEF OnePerNode
    <3> QED BY <3>2, <3>3
  <2>4. \A i, j \in Due' : heap'[i].node = heap'[j].node => i = j
    BY <2>1, <2>2 DEF OnePerNode
  <2> QED BY <2>3, <2>4 DEF OnePerNode
<1>7. CASE SweepEnd \/ DoCheck \/ Start \/ Stop \/ RunReturn
  BY <1>3, <1>7 DEF SweepEnd, DoCheck, Start, Stop, RunReturn, InMap, Due, loopVars
<1>8. ASSUME NEW a \in Address, BackendChanges(a) PROVE OnePerNode'
  BY <1>3, <1>8 DEF BackendChanges, InMap, Due, loopVars
<1>9. CASE UNCHANGED checkerVars
  BY <1>3, <1>9 DEF checkerVars, InMap, Due
<1> QED BY <1>1, <1>2, <1>4, <1>5, <1>6, <1>7, <1>8, <1>9 DEF CheckerStep, Run

LEMMA OnePerNodeInvariant == CheckerSpec => []OnePerNode
<1>1. NewHealthChecker => OnePerNode
  BY DEF NewHealthChecker, OnePerNode, Due, InMap
<1>2. CheckerTypeOK /\ LoopInv /\ OnePerNode /\ [CheckerStep]_checkerVars => OnePerNode'
  BY OnePerNodeNext
<1> QED BY <1>1, <1>2, CheckerTypeCorrect, LoopInvariant, PTL DEF CheckerSpec

--------------------------------------------------------------------------------
(* HealthChecker: a checker's counts and its node's last probes *)

\* A checker has counted no more results of a kind than its node has had in a
\* row.  While its own last result is not applied yet, the node is ahead by that
\* result.
Bounded(i) ==
  LET s == streak[heap[i].node] IN
  IF loop = "applying" /\ i = probing
    THEN IF result THEN Counted(heap[i].successes) <= s ELSE Counted(heap[i].fails) <= -s
    ELSE heap[i].fails <= Larger(-s, 0) /\ heap[i].successes <= Larger(s, 0)

BoundedInv == \A i \in DOMAIN heap : Bounded(i)

\* A probe that confirms the last ones makes the streak of its node longer, any
\* other starts a new one.
LEMMA StreakCounts ==
  ASSUME NEW s \in -Enough .. Enough, NEW f \in Int, NEW g \in Int,
         f <= Larger(-s, 0), g <= Larger(s, 0)
  PROVE  Counted(g) <= Streak(s, TRUE) /\ Counted(f) <= -Streak(s, FALSE)
<1>1. Larger(-s, 0) \in Int /\ Larger(s, 0) \in Int
  BY CountedStays DEF Larger
<1>2. Counted(g) <= Counted(Larger(s, 0)) /\ Counted(f) <= Counted(Larger(-s, 0))
  BY <1>1, CountedStays
<1>3. Counted(Larger(s, 0)) \in Int /\ Counted(Larger(-s, 0)) \in Int
  BY <1>1, CountedStays DEF Counted
<1> QED BY <1>2, <1>3 DEF Streak

LEMMA BoundedNext ==
  ASSUME CheckerTypeOK, LoopInv, OnePerNode, BoundedInv, [CheckerStep]_checkerVars
  PROVE  BoundedInv'
<1>0. DOMAIN heap = InMap \cup Due
  BY DEF CheckerTypeOK, Due
<1>a. \A i \in DOMAIN heap : streak[heap[i].node] \in -Enough .. Enough
  BY DEF CheckerTypeOK, CheckerType
<1>1. ASSUME UNCHANGED <<loop, probing, result, streak>>,
             \A i \in DOMAIN heap' : \/ i \in DOMAIN heap /\ heap'[i] = heap[i]
                                     \/ /\ i # probing \/ loop # "applying"
                                        /\ heap'[i].fails = 0 /\ heap'[i].successes = 0
                                        /\ streak[heap'[i].node] \in Int
      PROVE  BoundedInv'
  <2> SUFFICES ASSUME NEW i \in DOMAIN heap' PROVE Bounded(i)'
    BY DEF BoundedInv
  <2>1. CASE i \in DOMAIN heap /\ heap'[i] = heap[i]
    BY <1>1, <2>1 DEF BoundedInv, Bounded
  <2>2. CASE /\ i # probing \/ loop # "applying"
             /\ heap'[i].fails = 0 /\ heap'[i].successes = 0
             /\ streak[heap'[i].node] \in Int
    BY <1>1, <2>2 DEF Bounded, Larger
  <2> QED BY <1>1, <2>1, <2>2
<1>2. ASSUME NEW n \in Node, RegisterBackend(n) PROVE BoundedInv'
  <2>1. UNCHANGED <<loop, probing, result, streak>>
    BY <1>2 DEF RegisterBackend, nodeVars, loopVars
  <2>2. PICK new \in Checker :
           /\ new \notin DOMAIN heap
           /\ \A i \in DOMAIN heap' :
                \/ i \in DOMAIN heap /\ i # new /\ heap'[i] = heap[i]
                \/ i = new /\ heap'[i].fails = 0 /\ heap'[i].successes = 0
    BY <1>2, RegisterKeepsHeap
  <2>3. loop = "applying" => new # probing
    BY <1>0, <2>2 DEF LoopInv, Due
  <2>4. \A i \in DOMAIN heap' : streak[heap'[i].node] \in Int
    <3>1. CheckerTypeOK'
      BY CheckerNext
    <3>2. \A i \in DOMAIN heap' : streak'[heap'[i].node] \in -Enough .. Enough
      BY <3>1 DEF CheckerTypeOK, CheckerType
    <3> QED BY <2>1, <3>2, CountedStays
  <2> QED BY <1>1, <2>1, <2>2, <2>3, <2>4
<1>3. ASSUME NEW a \in Address, UnregisterBackend(a) PROVE BoundedInv'
  <2>1. Heap(heap) /\ InMap' \subseteq InMap /\ Due' = Due /\ UNCHANGED <<loop, probing, result, streak>>
    BY <1>3 DEF UnregisterBackend, InMap, Due, CheckerTypeOK, loopVars, nodeVars
  <2>2. \A i \in DOMAIN heap' : i \in DOMAIN heap /\ heap'[i] = heap[i]
    BY <1>0, <2>1, HeapHolds
  <2> QED BY <1>1, <2>1, <2>2
<1>4. ASSUME UNCHANGED <<heap, streak>>, loop # "applying", loop' # "applying" PROVE BoundedInv'
  BY <1>4 DEF BoundedInv, Bounded
<1>5. CASE Sweep \/ SweepEnd \/ CheckOne \/ RunReturn \/ Start
  BY <1>4, <1>5 DEF Sweep, SweepEnd, CheckOne, RunReturn, Start, nodeVars
<1>6. CASE DoCheck
  <2> DEFINE s == streak[Probed]
  <2>1. /\ probing \in DOMAIN heap /\ probing \in Due /\ Probed \in Node
        /\ s \in -Enough .. Enough /\ result' \in BOOLEAN
    <3>1. probing \in DOMAIN heap /\ probing \in Due
      BY <1>0, <1>6 DEF DoCheck, Due, LoopInv
    <3>2. Probed \in Node
      BY <3>1 DEF Probed, CheckerTypeOK, CheckerType
    <3>3. result' \in BOOLEAN
      BY CheckerNext DEF CheckerTypeOK
    <3> QED BY <3>1, <3>2, <3>3 DEF CheckerTypeOK
  <2>2. /\ loop = "checking" /\ loop' = "applying" /\ heap' = heap /\ probing' = probing
        /\ streak' = [streak EXCEPT ![Probed] = Streak(s, result')]
    BY <1>6 DEF DoCheck
  <2>3. /\ streak'[Probed] = Streak(s, result')
        /\ \A n \in Node : n # Probed => streak'[n] = streak[n]
    BY <2>1, <2>2 DEF CheckerTypeOK
  <2>4. \A i \in DOMAIN heap :
          /\ heap[i].node \in Node /\ heap[i].fails \in Int /\ heap[i].successes \in Int
          /\ heap[i].fails <= Larger(-streak[heap[i].node], 0)
          /\ heap[i].successes <= Larger(streak[heap[i].node], 0)
    BY <2>2, CountedStays DEF BoundedInv, Bounded, CheckerTypeOK, CheckerType
  <2>5. ASSUME NEW i \in DOMAIN heap, i # probing PROVE Bounded(i)'
    <3>1. CASE heap[i].node = Probed
      <4>1. i \in InMap /\ i \notin Due
        BY <1>0, <2>1, <2>5, <3>1 DEF OnePerNode, Probed
      <4>2. heap[i].fails = 0 /\ heap[i].successes = 0
        BY <2>1, <2>5, <3>1, <4>1 DEF OnePerNode, Probed
      <4>3. streak'[Probed] \in Int
        BY <2>1, <2>3, CountedStays
      <4>4. 0 <= Larger(-streak'[Probed], 0) /\ 0 <= Larger(streak'[Probed], 0)
        BY <4>3 DEF Larger
      <4> QED BY <2>2, <2>5, <3>1, <4>2, <4>4 DEF Bounded
    <3>2. CASE heap[i].node # Probed
      BY <2>2, <2>3, <2>4, <2>5, <3>2 DEF Bounded
    <3> QED BY <3>1, <3>2
  <2>6. Bounded(probing)'
    <3>1. /\ Counted(heap[probing].successes) <= Streak(s, TRUE)
          /\ Counted(heap[probing].fails) <= -Streak(s, FALSE)
      BY <2>1, <2>4, StreakCounts DEF Probed
    <3>2. heap'[probing'].node = Probed /\ heap'[probing'] = heap[probing]
      BY <2>2 DEF Probed
    <3>3. CASE result' = TRUE
      BY <2>2, <2>3, <3>1, <3>2, <3>3 DEF Bounded
    <3>4. CASE result' = FALSE
      BY <2>2, <2>3, <3>1, <3>2, <3>4 DEF Bounded
    <3> QED BY <2>1, <3>3, <3>4
  <2> QED BY <2>2, <2>5, <2>6 DEF BoundedInv
<1>7. CASE Apply
  <2>1. /\ probing \in DOMAIN heap /\ DOMAIN heap' \subseteq DOMAIN heap
        /\ \A i \in DOMAIN heap' : i # probing => heap'[i] = heap[i]
    BY <1>7, ApplyKeepsHeap
  <2>2. /\ loop = "applying" /\ loop' = "sweeping" /\ streak' = streak /\ result \in BOOLEAN
    BY <1>7 DEF Apply, CheckerTypeOK
  <2>3. ASSUME NEW i \in DOMAIN heap', i # probing PROVE Bounded(i)'
    BY <2>1, <2>2, <2>3 DEF BoundedInv, Bounded
  <2>4. ASSUME probing \in DOMAIN heap'
        PROVE  LET c == heap'[probing] IN
               c.fails <= Larger(-streak[c.node], 0) /\ c.successes <= Larger(streak[c.node], 0)
    <3> DEFINE c == heap'[probing]
               s == streak[heap[probing].node]
    <3>1. PICK flips \in BOOLEAN : c = After(heap[probing], result, flips)
      BY <1>7, <2>4, ApplyKeepsHeap
    <3>2. heap[probing] \in CheckerType /\ s \in Int
      BY <1>a, <2>1, CountedStays DEF CheckerTypeOK
    <3>3. /\ c.node = heap[probing].node
          /\ result => c.fails = 0 /\ c.successes = Counted(heap[probing].successes)
          /\ ~result => c.fails = Counted(heap[probing].fails) /\ c.successes = 0
      BY <2>2, <3>1, <3>2, CheckerAfter
    <3>4. /\ Counted(heap[probing].successes) \in Int /\ Counted(heap[probing].fails) \in Int
      BY <3>2, CountedStays DEF CheckerType
    <3>5. IF result THEN Counted(heap[probing].successes) <= s ELSE Counted(heap[probing].fails) <= -s
      BY <2>1, <2>2 DEF BoundedInv, Bounded
    <3> HIDE DEF c, s
    <3>6. c.fails <= Larger(-s, 0) /\ c.successes <= Larger(s, 0)
      BY <3>2, <3>3, <3>4, <3>5 DEF Larger
    <3> QED BY <3>3, <3>6 DEF c, s
  <2>5. ASSUME NEW i \in DOMAIN heap', i = probing PROVE Bounded(i)'
    BY <2>2, <2>4, <2>5 DEF Bounded
  <2> QED BY <2>3, <2>5 DEF BoundedInv
<1>8. CASE Stop
  BY <1>1, <1>8 DEF Stop, nodeVars, loopVars
<1>9. ASSUME NEW a \in Address, BackendChanges(a) PROVE BoundedInv'
  BY <1>1, <1>9 DEF BackendChanges, nodeVars, loopVars
<1>10. CASE UNCHANGED checkerVars
  BY <1>1, <1>10 DEF checkerVars
<1> QED BY <1>2, <1>3, <1>5, <1>6, <1>7, <1>8, <1>9, <1>10 DEF CheckerStep, Run

\* A node changes its state only after as many probes of it in a row as the
\* threshold asks for, even when it was unregistered and registered again while
\* a sweep was probing its old checker.
THEOREM ProbesInARow == CheckerSpec => Hysteresis
<1> DEFINE Flip(n) == /\ healthy[n] /\ ~healthy'[n] => streak[n] <= -UnhealthyThreshold
                      /\ ~healthy[n] /\ healthy'[n] => streak[n] >= HealthyThreshold
<1>1. ASSUME CheckerTypeOK, LoopInv, BoundedInv, Apply, NEW n \in Node, healthy'[n] # healthy[n]
      PROVE  Flip(n)
  <2> DEFINE c == heap[probing]
             counted == IF result THEN AfterSuccess(c) ELSE AfterFailure(c)
  <2>1. /\ loop = "applying" /\ probing \in DOMAIN heap /\ c \in CheckerType /\ result \in BOOLEAN
        /\ streak[c.node] \in Int
    <3>1. loop = "applying" /\ probing \in DOMAIN heap /\ result \in BOOLEAN
      BY <1>1 DEF Apply, LoopInv, CheckerTypeOK
    <3>2. c \in CheckerType
      BY <1>1, <3>1 DEF CheckerTypeOK
    <3>3. c.node \in Node
      BY <3>2 DEF CheckerType
    <3>4. streak[c.node] \in Int
      BY <1>1, <3>3, CountedStays DEF CheckerTypeOK
    <3> QED BY <3>1, <3>2, <3>4
  <2>2. /\ Flips(counted, result) /\ n = c.node
        /\ healthy' = [healthy EXCEPT ![n] = result]
    BY <1>1 DEF Apply, Probed, CheckerTypeOK
  <2>3. healthy'[n] = result /\ healthy[n] \in BOOLEAN
    BY <1>1, <2>2 DEF CheckerTypeOK
  <2>4. IF result THEN Counted(c.successes) <= streak[n] ELSE Counted(c.fails) <= -streak[n]
    BY <1>1, <2>1, <2>2 DEF BoundedInv, Bounded
  <2>5. /\ AfterSuccess(c).successes = Counted(c.successes)
        /\ AfterFailure(c).fails = Counted(c.fails)
    BY <2>1 DEF AfterSuccess, AfterFailure, CheckerType
  <2>6. Counted(c.successes) \in Int /\ Counted(c.fails) \in Int
    BY <2>1, CountedStays DEF CheckerType
  <2>7. CASE result = TRUE
    <3>1. Counted(c.successes) >= HealthyThreshold
      BY <2>2, <2>5, <2>7 DEF Flips
    <3>2. streak[n] >= HealthyThreshold
      BY <2>1, <2>2, <2>4, <2>6, <2>7, <3>1, HealthCheckerAssumption
    <3> QED BY <2>3, <2>7, <3>2
  <2>8. CASE result = FALSE
    <3>1. Counted(c.fails) >= UnhealthyThreshold
      BY <2>2, <2>5, <2>8 DEF Flips
    <3>2. streak[n] <= -UnhealthyThreshold
      BY <2>1, <2>2, <2>4, <2>6, <2>8, <3>1, HealthCheckerAssumption
    <3> QED BY <2>3, <2>8, <3>2
  <2> QED BY <2>1, <2>7, <2>8
<1>2. ASSUME CheckerTypeOK, LoopInv, BoundedInv, [CheckerStep]_checkerVars, NEW n \in Node
      PROVE  Flip(n)
  <2>1. CASE Apply
    BY <1>1, <1>2, <2>1 DEF CheckerTypeOK
  <2>2. CASE ~Apply
    <3>1. healthy' = healthy
      BY <1>2, <2>2 DEF CheckerStep, Run, Sweep, SweepEnd, CheckOne, DoCheck, RunReturn, Start,
                       Stop, RegisterBackend, UnregisterBackend, BackendChanges, nodeVars, checkerVars
    <3> QED BY <3>1
  <2> QED BY <2>1, <2>2
<1>3. CheckerTypeOK /\ LoopInv /\ BoundedInv /\ [CheckerStep]_checkerVars =>
        [\A n \in Node :
           /\ healthy[n] /\ ~healthy'[n] => streak[n] <= -UnhealthyThreshold
           /\ ~healthy[n] /\ healthy'[n] => streak[n] >= HealthyThreshold]_checkerVars
  BY <1>2
<1>4. NewHealthChecker => BoundedInv
  BY DEF NewHealthChecker, BoundedInv
<1>5. CheckerTypeOK /\ LoopInv /\ OnePerNode /\ BoundedInv /\ [CheckerStep]_checkerVars => BoundedInv'
  BY BoundedNext
<1> QED BY <1>3, <1>4, <1>5, CheckerTypeCorrect, LoopInvariant, OnePerNodeInvariant, PTL
        DEF CheckerSpec, Hysteresis
================================================================================
