------------------------------ MODULE AtomicHarness ------------------------------
(***************************************************************************)
(* What the control layer of pkg/harness promises its callers: a request   *)
(* is judged by one configuration, the permission check first and the      *)
(* compliance check second, and the decision and its audit record are one  *)
(* step.  The rules are stated here by what they accept; module Harness    *)
(* follows the order of the code.                                          *)
(***************************************************************************)
EXTENDS Integers, Sequences, SequencesExt

CONSTANTS
  Caller,    \* the goroutines that call CheckRequest
  Request,   \* the contexts they pass: [role, path, method, headers, encodable]
  Config,    \* the harness configurations: [auth, compliance, audit]
  None       \* what a context lacks, and no request or answer yet

VARIABLES
  config,    \* the configuration in force
  asked,     \* the context of each caller's call, None between calls
  answer,    \* how each caller's latest call ended
  trail      \* its audit records

vars == <<config, asked, answer, trail>>

Permits(auth, req) ==
  auth.enabled =>
    IF req.role = None
      THEN ~auth.requireAuth /\ auth.default = "allow"
      ELSE /\ req.role \notin auth.denied
           /\ auth.allowed = {} \/ req.role \in auth.allowed

\* The check of a header or of a method applies to a context that has them.
Complies(compliance, req) ==
  compliance.enabled =>
    /\ req.headers # None =>
         /\ compliance.required \subseteq req.headers
         /\ compliance.requireContentType => "Content-Type" \in req.headers
    /\ \A blocked \in compliance.blocked :
         req.path # blocked /\ (blocked # <<>> => ~IsPrefix(blocked, req.path))
    /\ compliance.methods = {} \/ req.method \in compliance.methods \cup {None}

\* A blocked path longer than the request's is sliced past the end.
Panics(compliance, req) ==
  compliance.enabled /\ \E blocked \in compliance.blocked : Len(blocked) > Len(req.path)

Judge(c, req) ==
  IF ~Permits(c.auth, req) THEN "access_denied"
  ELSE IF Panics(c.compliance, req) THEN "panic"
  ELSE IF ~Complies(c.compliance, req) THEN "compliance_violation"
  ELSE "access_granted"

Init ==
  /\ config \in Config
  /\ asked = [k \in Caller |-> None]
  /\ answer = [k \in Caller |-> None]
  /\ trail = [k \in Caller |-> <<>>]

Ask(k, req) ==
  /\ asked[k] = None
  /\ asked' = [asked EXCEPT ![k] = req]
  /\ answer' = [answer EXCEPT ![k] = None]
  /\ trail' = [trail EXCEPT ![k] = <<>>]
  /\ UNCHANGED config

Check(k) ==
  /\ asked[k] # None
  /\ asked' = [asked EXCEPT ![k] = None]
  /\ LET decision == Judge(config, asked[k])
         kept == config.audit.enabled /\ asked[k].encodable /\ decision # "panic"
     IN  /\ answer' = [answer EXCEPT ![k] = decision]
         /\ trail' = [trail EXCEPT ![k] = IF kept THEN <<decision>> ELSE <<>>]
  /\ UNCHANGED config

UpdateConfig ==
  /\ config' \in Config
  /\ UNCHANGED <<asked, answer, trail>>

Next ==
  \/ \E k \in Caller : Check(k) \/ \E req \in Request : Ask(k, req)
  \/ UpdateConfig

Spec == Init /\ [][Next]_vars

================================================================================
