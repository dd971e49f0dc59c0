-------------------------------- MODULE TokenPool --------------------------------
(***************************************************************************)
(* What a rate limit promises: a pool of Capacity fractions of tokens, to  *)
(* which every tick adds Rate until it is full.  A request is let through  *)
(* when the pool holds one token, and takes it.                            *)
(***************************************************************************)
EXTENDS Integers

CONSTANTS Unit, Capacity, Rate

VARIABLES
  available,   \* what the pool holds
  answer       \* the answer to the last request

vars == <<available, answer>>

Init == available = Capacity /\ answer = "none"

Tick ==
  /\ available' = IF available + Rate > Capacity THEN Capacity ELSE available + Rate
  /\ UNCHANGED answer

Admit ==
  /\ available >= Unit
  /\ available' = available - Unit
  /\ answer' = "allowed"

Refuse ==
  /\ available < Unit
  /\ answer' = "denied"
  /\ UNCHANGED available

Next == Tick \/ Admit \/ Refuse

Spec == Init /\ [][Next]_vars
==================================================================================
