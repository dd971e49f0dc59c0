------------------------------- MODULE RecordOps --------------------------------
(***************************************************************************)
(* The bounded lists of the repository: the history of the agents'         *)
(* coordinator, the memories of the evolution base and the audit log of    *)
(* the middleware add an entry and drop one in the same way.               *)
(***************************************************************************)
EXTENDS Integers, Sequences

\* Mutant: nothing is dropped before the list is one longer than its limit.
PushKeepsOneMore(entries, e, limit) ==
  IF Len(entries) > limit THEN Tail(Append(entries, e)) ELSE Append(entries, e)

\* The entry is appended; a list that is then too long loses its first entry.
Push(entries, e, limit) ==
  IF Len(entries) + 1 > limit THEN Tail(Append(entries, e)) ELSE Append(entries, e)

Smaller(x, y) == IF x < y THEN x ELSE y
Larger(x, y) == IF x > y THEN x ELSE y

\* The entries are those numbered up to last, without a gap, the latest last.
EndsWith(entries, last) ==
  \A i \in 1 .. Len(entries) : entries[i] = last - Len(entries) + i

\* The list holds the latest of total entries: never more than the largest limit
\* it has had, and never fewer than the smallest could hold.
HoldsLatest(entries, total, least, most) ==
  /\ EndsWith(entries, total)
  /\ Len(entries) <= total /\ Len(entries) <= most
  /\ Len(entries) >= total \/ Len(entries) >= least
================================================================================
