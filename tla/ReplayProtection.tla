---------------------------- MODULE ReplayProtection ----------------------------
(***************************************************************************)
(* The nonce table of ReplayProtection and its use by                      *)
(* ValidateRequestSignature (pkg/middleware/auth.go).  Any number of       *)
(* goroutines validate requests while the clean-up goroutine forgets old   *)
(* nonces; rp.mu is never locked, so each access to the sync.Map is a step *)
(* of its own.                                                             *)
(*                                                                         *)
(* A request is its nonce; stamp gives the timestamp its sender put on it. *)
(* The same request may arrive any number of times, as a client that got   *)
(* no answer sends it again.  Time is whole seconds, as Unix() gives it.   *)
(***************************************************************************)
EXTENDS Integers

CONSTANTS
  Nonce,     \* the requests
  Sender,    \* the goroutines that validate one
  Window,    \* rp.window
  MaxTime    \* bound on the clock

ASSUME ReplayAssumption == Nonce # {} /\ Window \in Nat /\ MaxTime \in Nat

VARIABLES
  clock,      \* time.Now().Unix()
  stamp,      \* the timestamp of each request
  seen,       \* rp.seenRequests: when the nonce was recorded, or Unseen
  check,      \* where each call of Check is, and what it has read
  unvisited,  \* what the Range of a clean-up has still to visit
  expiry,     \* the local variable of cleanup
  doomed,     \* the nonce it is about to delete, if any
  accepted,   \* history: requests that some call has accepted
  ahead       \* history: requests that some call took before their timestamp

replayVars == <<clock, stamp, seen, check, unvisited, expiry, doomed, accepted, ahead>>

Unseen == -1

Check == [step : {"idle", "load", "store"}, nonce : Nonce, at : 0 .. MaxTime,
          again : BOOLEAN,   \* the request had been accepted when the call began
          late : BOOLEAN]    \* the request had expired when its nonce was looked up

NoCheck == [step |-> "idle", nonce |-> CHOOSE n \in Nonce : TRUE, at |-> 0,
            again |-> FALSE, late |-> FALSE]

ReplayTypeOK ==
  /\ clock \in 0 .. MaxTime
  /\ stamp \in [Nonce -> 0 .. MaxTime]
  /\ seen \in [Nonce -> {Unseen} \cup 0 .. MaxTime]
  /\ check \in [Sender -> Check]
  /\ unvisited \subseteq Nonce
  /\ expiry \in -Window .. MaxTime
  /\ doomed \subseteq Nonce
  /\ accepted \subseteq Nonce
  /\ ahead \subseteq Nonce

NewReplayProtection ==
  /\ clock = 0
  /\ stamp \in [Nonce -> 0 .. MaxTime]
  /\ seen = [n \in Nonce |-> Unseen]
  /\ check = [s \in Sender |-> NoCheck]
  /\ unvisited = {}
  /\ expiry = -Window
  /\ doomed = {}
  /\ accepted = {}
  /\ ahead = {}

--------------------------------------------------------------------------------
(* ValidateRequestSignature *)

Expired(n) == clock - stamp[n] > Window

\* Check reads the clock once.  A request without its headers, or that has
\* expired, is refused and leaves nothing behind; one from the future is not.
BeginCheck(s, n) ==
  /\ check[s].step = "idle"
  /\ ~Expired(n)
  /\ check' = [check EXCEPT ![s] = [step |-> "load", nonce |-> n, at |-> clock,
                                    again |-> n \in accepted, late |-> FALSE]]
  /\ ahead' = IF stamp[n] > clock THEN ahead \cup {n} ELSE ahead
  /\ UNCHANGED <<clock, stamp, seen, unvisited, expiry, doomed, accepted>>

LoadNonce(s) ==
  LET n == check[s].nonce IN
  /\ check[s].step = "load"
  /\ check' = [check EXCEPT ![s] = IF seen[n] # Unseen THEN NoCheck
                                   ELSE [@ EXCEPT !.step = "store", !.late = Expired(n)]]
  /\ UNCHANGED <<clock, stamp, seen, unvisited, expiry, doomed, accepted, ahead>>

\* The nonce is recorded with the time read at the beginning, and before the
\* signature, good or bad, is compared.
StoreNonce(s) ==
  LET n == check[s].nonce IN
  /\ check[s].step = "store"
  /\ seen' = [seen EXCEPT ![n] = check[s].at]
  /\ check' = [check EXCEPT ![s] = NoCheck]
  /\ accepted' \in {accepted, accepted \cup {n}}
  /\ UNCHANGED <<clock, stamp, unvisited, expiry, doomed, ahead>>

--------------------------------------------------------------------------------
(* cleanupLoop.  Range visits what is in the map and does not stop it from *)
(* changing; a value is read and its key is deleted in two steps.          *)

Sweeping == unvisited # {} \/ doomed # {}

\* The clean-up of a tick that finds nothing in the map ends at once.
CleanupStart ==
  /\ ~Sweeping
  /\ expiry' = clock - Window
  /\ unvisited' = {n \in Nonce : seen[n] # Unseen}
  /\ UNCHANGED <<clock, stamp, seen, check, doomed, accepted, ahead>>

\* Mutant: a record exactly as old as the window is deleted too.
CleanupVisitEarly(n) ==
  /\ doomed = {}
  /\ n \in unvisited
  /\ unvisited' = unvisited \ {n}
  /\ doomed' = IF seen[n] # Unseen /\ seen[n] <= expiry THEN {n} ELSE {}
  /\ UNCHANGED <<clock, stamp, seen, check, expiry, accepted, ahead>>

\* Mutant: what is past the window by as much again is deleted.
CleanupVisitLate(n) ==
  /\ doomed = {}
  /\ n \in unvisited
  /\ unvisited' = unvisited \ {n}
  /\ doomed' = IF seen[n] # Unseen /\ seen[n] < expiry - Window THEN {n} ELSE {}
  /\ UNCHANGED <<clock, stamp, seen, check, expiry, accepted, ahead>>

CleanupVisit(n) ==
  /\ doomed = {}
  /\ n \in unvisited
  /\ unvisited' = unvisited \ {n}
  /\ doomed' = IF seen[n] # Unseen /\ seen[n] < expiry THEN {n} ELSE {}
  /\ UNCHANGED <<clock, stamp, seen, check, expiry, accepted, ahead>>

CleanupDelete ==
  /\ doomed # {}
  /\ seen' = [n \in Nonce |-> IF n \in doomed THEN Unseen ELSE seen[n]]
  /\ doomed' = {}
  /\ UNCHANGED <<clock, stamp, check, unvisited, expiry, accepted, ahead>>

Cleanup == CleanupStart \/ (\E n \in Nonce : CleanupVisit(n)) \/ CleanupDelete

Second ==
  /\ clock < MaxTime
  /\ clock' = clock + 1
  /\ UNCHANGED <<stamp, seen, check, unvisited, expiry, doomed, accepted, ahead>>

ReplayStep ==
  \/ \E s \in Sender : (\E n \in Nonce : BeginCheck(s, n)) \/ LoadNonce(s) \/ StoreNonce(s)
  \/ Cleanup
  \/ Second

ReplaySpec == NewReplayProtection /\ [][ReplayStep]_replayVars

--------------------------------------------------------------------------------
(* Properties *)

\* A request that has been accepted is not accepted again by a call that begins
\* afterwards, whatever cleanup forgets in the meantime: a nonce found unused is
\* that of a new request.  Two exceptions are the code's: a sender whose clock is
\* ahead of the gateway's, since its request stays valid longer than its nonce is
\* kept, and a call held up, after it has read the clock, until the request has
\* expired.  Calls that overlap are not promised anything: both may find the
\* nonce unused.
AcceptedOnce ==
  \A s \in Sender :
    check[s].step = "store" /\ check[s].again => check[s].late \/ check[s].nonce \in ahead

\* The table does not keep a nonce for ever: a record older than the window is
\* deleted by one of the next clean-ups, although each works on what it found at
\* its beginning, unless a slow call has written a newer one in its place.
Overdue(n) == seen[n] # Unseen /\ seen[n] < clock - Window

Forgets == \A n \in Nonce : Overdue(n) ~> ~Overdue(n)
================================================================================
