------------------------------- MODULE NodeChoice -------------------------------
(***************************************************************************)
(* What a request handler relies on when it asks a balancer of             *)
(* pkg/loadbalancer for a node, whichever of the three it is: Next answers *)
(* with a node of a list that stays as it is during the call, and with one *)
(* that was healthy at some moment of the call if any of them was healthy  *)
(* all through it.  How a balancer gets there is in RoundRobin and         *)
(* SharedBalancer.                                                         *)
(***************************************************************************)
CONSTANTS
  Node,
  None,
  Caller   \* who may be in a call of Next at the same time

VARIABLES
  list,      \* the nodes to choose from
  healthy,   \* the health of every node
  phase,     \* whether a caller's call is under way: "idle", "asking"
  noticed,   \* nodes that were healthy during a caller's call, as far as it may
             \* still come back to them
  lasting,   \* nodes that have been healthy all through a caller's call
  answer     \* the node each caller was given, None for none

vars == <<list, healthy, phase, noticed, lasting, answer>>

Init ==
  /\ list \subseteq Node
  /\ healthy = [n \in Node |-> TRUE]
  /\ phase = [c \in Caller |-> "idle"]
  /\ noticed = [c \in Caller |-> {}]
  /\ lasting = [c \in Caller |-> {}]
  /\ answer = [c \in Caller |-> None]

HealthyNow == {n \in list : healthy[n]}

Ask(c) ==
  /\ phase[c] = "idle" /\ list # {}
  /\ UNCHANGED <<list, healthy, noticed, answer>>
  /\ phase' = [phase EXCEPT ![c] = "asking"]
  /\ lasting' = [lasting EXCEPT ![c] = HealthyNow]

Notice(c) ==
  /\ phase[c] = "asking"
  /\ UNCHANGED <<list, healthy, phase, lasting, answer>>
  /\ \E some \in SUBSET (noticed[c] \cup HealthyNow) :
       noticed' = [noticed EXCEPT ![c] = some]

\* If no node was healthy for the whole of the call the answer may be any of them.
Answer(c) ==
  /\ phase[c] = "asking"
  /\ UNCHANGED <<list, healthy>>
  /\ phase' = [phase EXCEPT ![c] = "idle"]
  /\ noticed' = [noticed EXCEPT ![c] = {}]
  /\ lasting' = [lasting EXCEPT ![c] = {}]
  /\ \E n \in list :
       /\ n \in noticed[c] \cup HealthyNow \/ lasting[c] = {}
       /\ answer' = [answer EXCEPT ![c] = n]

\* There is no node to be had.
AnswerNil(c) ==
  /\ phase[c] = "idle" /\ list = {}
  /\ answer' = [answer EXCEPT ![c] = None]
  /\ UNCHANGED <<list, healthy, phase, noticed, lasting>>

\* The caller is done with its node.
GiveUp(c) ==
  /\ phase[c] = "idle" /\ answer[c] # None
  /\ answer' = [answer EXCEPT ![c] = None]
  /\ UNCHANGED <<list, healthy, phase, noticed, lasting>>

\* Adding and removing nodes waits for the calls under way.
ChangeList ==
  /\ \A c \in Caller : phase[c] = "idle"
  /\ list' \in SUBSET Node
  /\ UNCHANGED <<healthy, phase, noticed, lasting, answer>>

\* A change of a node's health waits for nothing.
SetHealthy(n, b) ==
  /\ healthy[n] # b
  /\ healthy' = [healthy EXCEPT ![n] = b]
  /\ lasting' = [c \in Caller |-> IF b THEN lasting[c] ELSE lasting[c] \ {n}]
  /\ UNCHANGED <<list, phase, noticed, answer>>

Next ==
  \/ \E c \in Caller : Ask(c) \/ Notice(c) \/ Answer(c) \/ AnswerNil(c) \/ GiveUp(c)
  \/ ChangeList
  \/ \E n \in Node, b \in BOOLEAN : SetHealthy(n, b)

Spec == Init /\ [][Next]_vars
================================================================================
