--------------------------------- MODULE Harness ---------------------------------
(***************************************************************************)
(* The control layer of pkg/harness: CheckRequest runs the permission      *)
(* check, the compliance check and the audit log one after the other while *)
(* it holds h.mu for reading; UpdateConfig replaces the configurations of  *)
(* the three controllers one after the other while it holds h.mu for       *)
(* writing.  Each controller holds its own lock during a call, which never *)
(* blocks inside, so that a call of a controller is one step.              *)
(*                                                                         *)
(* The accessors Auth, Compliance and Audit hand out the controllers, whose*)
(* UpdateConfig does not take h.mu: `accessors` says whether anyone uses   *)
(* them to reconfigure a controller.                                       *)
(***************************************************************************)
EXTENDS Integers, Sequences

CONSTANTS
  Caller,    \* the goroutines that call CheckRequest
  Request,   \* the contexts they pass: [role, path, method, headers, encodable]
  Config,    \* the harness configurations: [auth, compliance, audit]
  None       \* what a context lacks, and no request or answer yet

ASSUME HarnessAssumption ==
  /\ None \notin Request \cup Config
  /\ \A req \in Request : req.path \in Seq(STRING)
  /\ \A c \in Config :
       /\ c = [auth |-> c.auth, compliance |-> c.compliance, audit |-> c.audit]
       /\ c.compliance.blocked \subseteq Seq(STRING)

VARIABLES
  auth, compliance, audit,   \* the controllers' configurations
  readers,   \* the callers that hold h.mu for reading
  writer,    \* where UpdateConfig is
  new,       \* its argument, None between calls
  pc,        \* where each CheckRequest is: the controller it calls next
  asked,     \* its context, None between calls
  outcome,   \* the decision it is about to log
  answer,    \* how each caller's latest call ended, None during a call
  trail,     \* the audit records of that call
  accessors

configVars == <<auth, compliance, audit>>
callVars == <<asked, outcome, answer, trail>>
vars == <<configVars, readers, writer, new, pc, callVars, accessors>>

Outcome == {"access_denied", "compliance_violation", "access_granted"}

TypeOK ==
  /\ \E c \in Config : auth = c.auth
  /\ \E c \in Config : compliance = c.compliance
  /\ \E c \in Config : audit = c.audit
  /\ readers \subseteq Caller
  /\ writer \in {"idle", "waiting", "auth", "compliance", "audit"}
  /\ new \in Config \cup {None}
  /\ pc \in [Caller -> {"idle", "blocked", "auth", "compliance", "audit"}]
  /\ asked \in [Caller -> Request \cup {None}]
  /\ outcome \in [Caller -> Outcome \cup {None}]
  /\ answer \in [Caller -> Outcome \cup {"panic", None}]
  /\ trail \in [Caller -> {<<>>} \cup {<<e>> : e \in Outcome}]
  /\ accessors \in BOOLEAN

Init ==
  /\ \E c \in Config :
       auth = c.auth /\ compliance = c.compliance /\ audit = c.audit
  /\ readers = {}
  /\ writer = "idle"
  /\ new = None
  /\ pc = [k \in Caller |-> "idle"]
  /\ asked = [k \in Caller |-> None]
  /\ outcome = [k \in Caller |-> None]
  /\ answer = [k \in Caller |-> None]
  /\ trail = [k \in Caller |-> <<>>]
  /\ accessors \in BOOLEAN

--------------------------------------------------------------------------------
(* CheckRequest *)

\* Mutant: the read lock is granted whatever the writer does.
RLockBargesIn(k) ==
  /\ pc' = [pc EXCEPT ![k] = "auth"]
  /\ readers' = readers \cup {k}

\* sync.RWMutex: a writer that waits or writes keeps new readers out.
RLock(k) ==
  IF writer = "idle"
    THEN pc' = [pc EXCEPT ![k] = "auth"] /\ readers' = readers \cup {k}
    ELSE pc' = [pc EXCEPT ![k] = "blocked"] /\ UNCHANGED readers

Call(k, req) ==
  /\ pc[k] = "idle"
  /\ RLock(k)
  /\ asked' = [asked EXCEPT ![k] = req]
  /\ answer' = [answer EXCEPT ![k] = None]
  /\ trail' = [trail EXCEPT ![k] = <<>>]
  /\ UNCHANGED <<configVars, writer, new, outcome, accessors>>

\* CheckPermission: TRUE, or FALSE with or without an error.
CheckPermission(req) ==
  IF ~auth.enabled THEN TRUE
  ELSE IF req.role = None THEN IF auth.requireAuth THEN FALSE ELSE auth.default = "allow"
  ELSE IF req.role \in auth.denied THEN FALSE
  ELSE IF auth.allowed # {} THEN req.role \in auth.allowed
  ELSE TRUE

Authorize(k) ==
  /\ pc[k] = "auth"
  /\ IF CheckPermission(asked[k])
       THEN pc' = [pc EXCEPT ![k] = "compliance"] /\ UNCHANGED outcome
       ELSE /\ pc' = [pc EXCEPT ![k] = "audit"]
            /\ outcome' = [outcome EXCEPT ![k] = "access_denied"]
  /\ UNCHANGED <<configVars, readers, writer, new, asked, answer, trail, accessors>>

Violates(req) ==
  \/ req.headers # None /\ ~(compliance.required \subseteq req.headers)
  \/ \E b \in compliance.blocked :
       req.path = b \/ (b # <<>> /\ SubSeq(req.path, 1, Len(b)) = b)
  \/ req.method # None /\ compliance.methods # {} /\ req.method \notin compliance.methods
  \/ compliance.requireContentType /\ req.headers # None /\ "Content-Type" \notin req.headers

\* path[:len(blocked)] of a path that is shorter.
SlicePastEnd(req) == \E b \in compliance.blocked : Len(b) > Len(req.path)

\* Mutant: the locks are released by hand at the end, not deferred.
ReturnKeepsLock(k, how) ==
  /\ pc' = [pc EXCEPT ![k] = "idle"]
  /\ readers' = IF how = "panic" THEN readers ELSE readers \ {k}
  /\ asked' = [asked EXCEPT ![k] = None]
  /\ outcome' = [outcome EXCEPT ![k] = None]
  /\ answer' = [answer EXCEPT ![k] = how]

\* Both locks are released by deferred calls, also when Validate panics; the
\* caller (an HTTP handler) recovers.
Return(k, how) ==
  /\ pc' = [pc EXCEPT ![k] = "idle"]
  /\ readers' = readers \ {k}
  /\ asked' = [asked EXCEPT ![k] = None]
  /\ outcome' = [outcome EXCEPT ![k] = None]
  /\ answer' = [answer EXCEPT ![k] = how]

Validate(k) ==
  /\ pc[k] = "compliance"
  /\ IF compliance.enabled /\ SlicePastEnd(asked[k])
       THEN Return(k, "panic")
       ELSE /\ pc' = [pc EXCEPT ![k] = "audit"]
            /\ outcome' = [outcome EXCEPT ![k] =
                 IF compliance.enabled /\ Violates(asked[k])
                   THEN "compliance_violation" ELSE "access_granted"]
            /\ UNCHANGED <<readers, asked, answer>>
  /\ UNCHANGED <<configVars, writer, new, trail, accessors>>

\* An event whose context json.Marshal cannot encode is lost.
logEvent(k) == IF asked[k].encodable THEN Append(trail[k], outcome[k]) ELSE trail[k]

\* Mutant: CheckRequest goes on after LogAccessDenied instead of returning.
LogFallsThrough(k) ==
  /\ pc[k] = "audit"
  /\ trail' = [trail EXCEPT ![k] = IF audit.enabled THEN logEvent(k) ELSE @]
  /\ IF outcome[k] = "access_denied"
       THEN pc' = [pc EXCEPT ![k] = "compliance"] /\ UNCHANGED <<readers, asked, outcome, answer>>
       ELSE Return(k, outcome[k])
  /\ UNCHANGED <<configVars, writer, new, accessors>>

\* LogAccessDenied, LogComplianceViolation or LogAccessGranted, then the end of
\* the call.
Log(k) ==
  /\ pc[k] = "audit"
  /\ trail' = [trail EXCEPT ![k] = IF audit.enabled THEN logEvent(k) ELSE @]
  /\ Return(k, outcome[k])
  /\ UNCHANGED <<configVars, writer, new, accessors>>

--------------------------------------------------------------------------------
(* UpdateConfig *)

\* h.mu.Lock announces the writer, then waits for the readers to leave.
Lock(c) ==
  /\ writer = "idle"
  /\ writer' = "waiting"
  /\ new' = c
  /\ UNCHANGED <<configVars, readers, pc, callVars, accessors>>

LockGranted ==
  /\ writer = "waiting" /\ readers = {}
  /\ writer' = "auth"
  /\ UNCHANGED <<configVars, readers, new, pc, callVars, accessors>>

UpdateAuth ==
  /\ writer = "auth"
  /\ auth' = new.auth
  /\ writer' = "compliance"
  /\ UNCHANGED <<compliance, audit, readers, new, pc, callVars, accessors>>

UpdateCompliance ==
  /\ writer = "compliance"
  /\ compliance' = new.compliance
  /\ writer' = "audit"
  /\ UNCHANGED <<auth, audit, readers, new, pc, callVars, accessors>>

Blocked == {k \in Caller : pc[k] = "blocked"}

\* The deferred Unlock lets in every reader that was kept out.
UpdateAudit ==
  /\ writer = "audit"
  /\ audit' = new.audit
  /\ writer' = "idle"
  /\ readers' = readers \cup Blocked
  /\ pc' = [k \in Caller |-> IF k \in Blocked THEN "auth" ELSE pc[k]]
  /\ new' = None
  /\ UNCHANGED <<auth, compliance, callVars, accessors>>

\* UpdateConfig of a controller that an accessor handed out.
ControllerUpdateConfig(c) ==
  /\ accessors
  /\ \/ auth' = c.auth /\ UNCHANGED <<compliance, audit>>
     \/ compliance' = c.compliance /\ UNCHANGED <<auth, audit>>
     \/ audit' = c.audit /\ UNCHANGED <<auth, compliance>>
  /\ UNCHANGED <<readers, writer, new, pc, callVars, accessors>>

--------------------------------------------------------------------------------

CheckStep(k) == Authorize(k) \/ Validate(k) \/ Log(k)
UpdateStep == LockGranted \/ UpdateAuth \/ UpdateCompliance \/ UpdateAudit

Next ==
  \/ \E k \in Caller : CheckStep(k) \/ \E req \in Request : Call(k, req)
  \/ UpdateStep
  \/ \E c \in Config : Lock(c) \/ ControllerUpdateConfig(c)

Spec == Init /\ [][Next]_vars

\* A goroutine that can run does: nothing in a call waits for anything but h.mu.
FairSpec == Spec /\ WF_vars(UpdateStep) /\ \A k \in Caller : WF_vars(CheckStep(k))

--------------------------------------------------------------------------------
(* Properties *)

\* From the moment UpdateConfig has the lock, its argument is in force.
Atomic == INSTANCE AtomicHarness WITH
  config <- IF writer \in {"auth", "compliance", "audit"} THEN new
            ELSE [auth |-> auth, compliance |-> compliance, audit |-> audit]

\* As long as nobody reconfigures a controller behind the harness's back, every
\* call is judged by one whole configuration, according to the rules, and leaves
\* exactly the record of its decision, although the configuration is replaced
\* in three steps and read in three.
ImplementsAtomic == Atomic!Init /\ [][accessors \/ Atomic!Next]_(Atomic!vars)

\* Every call returns and every update gets the lock, whatever is asked and
\* however often, also after a panic in the middle of a check: readers cannot
\* starve a writer, nor writers a reader.
EveryoneReturns ==
  /\ \A k \in Caller : pc[k] # "idle" ~> pc[k] = "idle"
  /\ writer # "idle" ~> writer = "idle"

================================================================================
