------------------------------ MODULE HarnessProofs ------------------------------
(***************************************************************************)
(* The control layer implements AtomicHarness, for any number of callers   *)
(* and any set of contexts and configurations.                             *)
(***************************************************************************)
EXTENDS Harness, SequenceTheorems, TLAPS

Updating == writer \in {"auth", "compliance", "audit"}
Checking(k) == pc[k] \in {"auth", "compliance", "audit"}

\* What h.mu guarantees, and where the locals of a call are set.
Locking ==
  /\ \A k \in Caller : k \in readers <=> Checking(k)
  /\ Updating => readers = {}
  /\ writer # "idle" => new \in Config
  /\ \A k \in Caller : pc[k] = "idle" <=> asked[k] = None
  /\ \A k \in Caller : pc[k] # "idle" => trail[k] = <<>>
  /\ \A k \in Caller : pc[k] = "audit" => outcome[k] \in Outcome

Whole == [auth |-> auth, compliance |-> compliance, audit |-> audit]

\* What the steps of a call that are done have established still holds, and so
\* does what the steps of an update that are done have established.
Consistent ==
  /\ writer \in {"compliance", "audit"} => auth = new.auth
  /\ writer = "audit" => compliance = new.compliance
  /\ \A k \in Caller : pc[k] = "compliance" => Atomic!Permits(auth, asked[k])
  /\ \A k \in Caller : pc[k] = "audit" => outcome[k] = Atomic!Judge(Whole, asked[k])

IInv == TypeOK /\ Locking /\ (accessors \/ Consistent)

--------------------------------------------------------------------------------
(* The rules of the two modules agree *)

LEMMA PermissionAgrees ==
  ASSUME NEW req PROVE CheckPermission(req) <=> Atomic!Permits(auth, req)
  BY DEF CheckPermission, Atomic!Permits

LEMMA PanicAgrees ==
  ASSUME NEW req
  PROVE  Atomic!Panics(compliance, req) <=> compliance.enabled /\ SlicePastEnd(req)
  BY DEF SlicePastEnd, Atomic!Panics

\* On paths no blocked one exceeds, a slice is a prefix.
LEMMA ComplianceAgrees ==
  ASSUME TypeOK, NEW req \in Request, ~SlicePastEnd(req)
  PROVE  Atomic!Complies(compliance, req) <=> ~(compliance.enabled /\ Violates(req))
<1>1. \A b \in compliance.blocked :
        Atomic!IsPrefix(b, req.path) <=> SubSeq(req.path, 1, Len(b)) = b
  <2> SUFFICES ASSUME NEW b \in compliance.blocked
               PROVE  Atomic!IsPrefix(b, req.path) <=> SubSeq(req.path, 1, Len(b)) = b
    OBVIOUS
  <2>1. b \in Seq(STRING) /\ req.path \in Seq(STRING)
    BY HarnessAssumption DEF TypeOK
  <2>2. Len(b) <= Len(req.path)
    BY <2>1 DEF SlicePastEnd
  <2>3. SubSeq(b, 1, Len(b)) = b
    BY <2>1, SubSeqFull
  <2> QED BY <2>2, <2>3 DEF Atomic!IsPrefix
<1> QED BY <1>1 DEF Violates, Atomic!Complies

LEMMA JudgeAgrees ==
  ASSUME TypeOK, NEW req \in Request
  PROVE  Atomic!Judge(Whole, req) =
           IF ~CheckPermission(req) THEN "access_denied"
           ELSE IF compliance.enabled /\ SlicePastEnd(req) THEN "panic"
           ELSE IF compliance.enabled /\ Violates(req) THEN "compliance_violation"
           ELSE "access_granted"
<1>1. Whole.auth = auth /\ Whole.compliance = compliance
  BY DEF Whole
<1>2. CASE ~CheckPermission(req)
  BY <1>1, <1>2, PermissionAgrees DEF Atomic!Judge
<1>3. CASE CheckPermission(req) /\ compliance.enabled /\ SlicePastEnd(req)
  BY <1>1, <1>3, PermissionAgrees, PanicAgrees DEF Atomic!Judge
<1>4. CASE CheckPermission(req) /\ ~SlicePastEnd(req)
  BY <1>1, <1>4, PermissionAgrees, PanicAgrees, ComplianceAgrees DEF Atomic!Judge
<1>5. CASE CheckPermission(req) /\ ~compliance.enabled
  <2>1. Atomic!Complies(compliance, req)
    BY <1>5 DEF Atomic!Complies
  <2> QED BY <1>1, <1>5, <2>1, PermissionAgrees, PanicAgrees DEF Atomic!Judge
<1> QED BY <1>2, <1>3, <1>4, <1>5

--------------------------------------------------------------------------------
(* The invariant *)

LEMMA InvInit == Init => IInv
<1> SUFFICES ASSUME Init PROVE IInv
  OBVIOUS
<1>1. TypeOK
  BY DEF Init, TypeOK
<1>2. Locking
  BY DEF Init, Locking, Checking, Updating
<1>3. Consistent
  BY DEF Init, Consistent
<1> QED BY <1>1, <1>2, <1>3 DEF IInv

\* Types need Locking: a record is appended to an empty trail.
LEMMA TypeNext == TypeOK /\ Locking /\ [Next]_vars => TypeOK'
<1> SUFFICES ASSUME TypeOK, Locking, [Next]_vars PROVE TypeOK'
  OBVIOUS
<1>1. ASSUME NEW k \in Caller, NEW req \in Request, Call(k, req) PROVE TypeOK'
  BY <1>1 DEF TypeOK, Call, RLock, configVars
<1>2. ASSUME NEW k \in Caller, Authorize(k) PROVE TypeOK'
  BY <1>2 DEF TypeOK, Authorize, configVars, Outcome
<1>3. ASSUME NEW k \in Caller, Validate(k) PROVE TypeOK'
  BY <1>3 DEF TypeOK, Validate, Return, configVars, Outcome
<1>4. ASSUME NEW k \in Caller, Log(k) PROVE TypeOK'
  <2>1. outcome[k] \in Outcome /\ trail[k] = <<>>
    BY <1>4 DEF Locking, Log
  <2>2. trail' \in [Caller -> {<<>>} \cup {<<e>> : e \in Outcome}]
    <3>1. Append(<<>>, outcome[k]) = <<outcome[k]>>
      OBVIOUS
    <3> QED BY <1>4, <2>1, <3>1 DEF TypeOK, Log, logEvent
  <2> QED BY <1>4, <2>1, <2>2 DEF TypeOK, Log, Return, configVars
<1>5. ASSUME NEW c \in Config, Lock(c) PROVE TypeOK'
  BY <1>5 DEF TypeOK, Lock, configVars, callVars
<1>6. ASSUME NEW c \in Config, ControllerUpdateConfig(c) PROVE TypeOK'
  BY <1>6 DEF TypeOK, ControllerUpdateConfig, callVars
<1>7. CASE LockGranted
  BY <1>7 DEF TypeOK, LockGranted, configVars, callVars
<1>8. CASE UpdateAuth
  BY <1>8 DEF TypeOK, Locking, UpdateAuth, callVars
<1>9. CASE UpdateCompliance
  BY <1>9 DEF TypeOK, Locking, UpdateCompliance, callVars
<1>10. CASE UpdateAudit
  BY <1>10 DEF TypeOK, Locking, UpdateAudit, Blocked, callVars
<1>11. CASE UNCHANGED vars
  BY <1>11 DEF TypeOK, vars, configVars, callVars
<1> QED
  BY <1>1, <1>2, <1>3, <1>4, <1>5, <1>6, <1>7, <1>8, <1>9, <1>10, <1>11
  DEF Next, CheckStep, UpdateStep

LEMMA LockingNext == TypeOK /\ Locking /\ [Next]_vars => Locking'
<1> SUFFICES ASSUME TypeOK, Locking, [Next]_vars PROVE Locking'
  OBVIOUS
<1> USE DEF Locking, Checking, Updating
<1>1. ASSUME NEW k \in Caller, NEW req \in Request, Call(k, req) PROVE Locking'
  <2>1. req # None
    BY HarnessAssumption
  <2> QED BY <1>1, <2>1 DEF TypeOK, Call, RLock, configVars
<1>2. ASSUME NEW k \in Caller, Authorize(k) PROVE Locking'
  BY <1>2 DEF TypeOK, Authorize, configVars, Outcome
<1>3. ASSUME NEW k \in Caller, Validate(k) PROVE Locking'
  BY <1>3 DEF TypeOK, Validate, Return, configVars, Outcome
<1>4. ASSUME NEW k \in Caller, Log(k) PROVE Locking'
  BY <1>4 DEF TypeOK, Log, Return, configVars
<1>5. ASSUME NEW c \in Config, Lock(c) PROVE Locking'
  BY <1>5 DEF TypeOK, Lock, configVars, callVars
<1>6. ASSUME NEW c \in Config, ControllerUpdateConfig(c) PROVE Locking'
  BY <1>6 DEF TypeOK, ControllerUpdateConfig, callVars
<1>7. CASE LockGranted
  BY <1>7 DEF TypeOK, LockGranted, configVars, callVars
<1>8. CASE UpdateAuth
  BY <1>8 DEF TypeOK, UpdateAuth, callVars
<1>9. CASE UpdateCompliance
  BY <1>9 DEF TypeOK, UpdateCompliance, callVars
<1>10. CASE UpdateAudit
  BY <1>10 DEF TypeOK, UpdateAudit, Blocked, callVars
<1>11. CASE UNCHANGED vars
  BY <1>11 DEF TypeOK, vars, configVars, callVars
<1> QED
  BY <1>1, <1>2, <1>3, <1>4, <1>5, <1>6, <1>7, <1>8, <1>9, <1>10, <1>11
  DEF Next, CheckStep, UpdateStep

LEMMA Asked ==
  ASSUME TypeOK, Locking, NEW k \in Caller, pc[k] # "idle" PROVE asked[k] \in Request
  BY DEF TypeOK, Locking

\* As long as nobody goes round h.mu, an update changes nothing that a check in
\* progress has read: its steps need the readers gone.
LEMMA ConsistentNext ==
  TypeOK /\ Locking /\ Consistent /\ ~accessors /\ [Next]_vars => Consistent'
<1> SUFFICES ASSUME TypeOK, Locking, Consistent, ~accessors, [Next]_vars
             PROVE  Consistent'
  OBVIOUS
<1>1. ASSUME NEW k \in Caller, NEW req \in Request, Call(k, req) PROVE Consistent'
  BY <1>1 DEF TypeOK, Consistent, Whole, Call, RLock, configVars
<1>2. ASSUME NEW k \in Caller, Authorize(k) PROVE Consistent'
  <2>1. asked[k] \in Request
    BY <1>2, Asked DEF Authorize
  <2>2. CheckPermission(asked[k]) => Atomic!Permits(auth, asked[k])
    BY PermissionAgrees
  <2>3. ~CheckPermission(asked[k]) => Atomic!Judge(Whole, asked[k]) = "access_denied"
    BY <2>1, JudgeAgrees
  <2> QED BY <1>2, <2>2, <2>3 DEF TypeOK, Consistent, Whole, Authorize, configVars
<1>3. ASSUME NEW k \in Caller, Validate(k) PROVE Consistent'
  <2>1. asked[k] \in Request /\ CheckPermission(asked[k])
    BY <1>3, Asked, PermissionAgrees DEF Validate, Consistent
  <2>2. ~(compliance.enabled /\ SlicePastEnd(asked[k])) =>
          Atomic!Judge(Whole, asked[k]) =
            IF compliance.enabled /\ Violates(asked[k])
              THEN "compliance_violation" ELSE "access_granted"
    BY <2>1, JudgeAgrees
  <2> QED BY <1>3, <2>2 DEF TypeOK, Consistent, Whole, Validate, Return, configVars
<1>4. ASSUME NEW k \in Caller, Log(k) PROVE Consistent'
  BY <1>4 DEF TypeOK, Consistent, Whole, Log, Return, configVars
<1>5. ASSUME NEW c \in Config, Lock(c) PROVE Consistent'
  BY <1>5 DEF TypeOK, Consistent, Whole, Lock, configVars, callVars
<1>6. ASSUME NEW c \in Config, ControllerUpdateConfig(c) PROVE Consistent'
  BY <1>6 DEF ControllerUpdateConfig
<1>7. CASE LockGranted
  BY <1>7 DEF TypeOK, Consistent, Whole, LockGranted, configVars, callVars
<1>8. CASE UpdateAuth \/ UpdateCompliance
  <2>1. \A k \in Caller : pc[k] \notin {"compliance", "audit"}
    BY <1>8 DEF Locking, Checking, Updating, UpdateAuth, UpdateCompliance
  <2> QED BY <1>8, <2>1 DEF TypeOK, Consistent, UpdateAuth, UpdateCompliance, callVars
<1>9. CASE UpdateAudit
  <2>1. \A k \in Caller : pc[k] \notin {"compliance", "audit"}
    BY <1>9 DEF Locking, Checking, Updating, UpdateAudit
  <2> QED BY <1>9, <2>1 DEF TypeOK, Consistent, UpdateAudit, Blocked, callVars
<1>10. CASE UNCHANGED vars
  BY <1>10 DEF Consistent, Whole, vars, configVars, callVars
<1> QED
  BY <1>1, <1>2, <1>3, <1>4, <1>5, <1>6, <1>7, <1>8, <1>9, <1>10
  DEF Next, CheckStep, UpdateStep

LEMMA AccessorsStay == [Next]_vars => accessors' = accessors
  BY DEF Next, CheckStep, UpdateStep, Call, Authorize, Validate, Log, Lock, LockGranted,
     UpdateAuth, UpdateCompliance, UpdateAudit, ControllerUpdateConfig, vars

LEMMA Inductive == Spec => []IInv
<1>1. IInv /\ [Next]_vars => IInv'
  BY TypeNext, LockingNext, ConsistentNext, AccessorsStay DEF IInv
<1> QED BY <1>1, InvInit, PTL DEF Spec

\* The lock, the locals of the calls and the audit trail have their types: in
\* particular a call leaves one record at most.
THEOREM TypeCorrect == Spec => []TypeOK
<1>1. IInv => TypeOK
  BY DEF IInv
<1> QED BY <1>1, Inductive, PTL

--------------------------------------------------------------------------------
(* The refinement *)

\* The configuration AtomicHarness sees.
InForce == IF Updating THEN new ELSE Whole

LEMMA InitRefines == Init => Atomic!Init
<1> SUFFICES ASSUME Init PROVE Atomic!Init
  OBVIOUS
<1>1. Whole \in Config /\ ~Updating
  BY HarnessAssumption DEF Init, Whole, Updating
<1> QED BY <1>1 DEF Init, Atomic!Init, Whole, Updating

\* What a step leaves alone as far as AtomicHarness is concerned.
LEMMA Stutters ==
  ASSUME InForce' = InForce, UNCHANGED <<asked, answer, trail>> PROVE UNCHANGED Atomic!vars
  BY DEF Atomic!vars, InForce, Updating, Whole

\* A call asks, the panic and the log are the check, the lock granted to the
\* writer is the update; every other step is a stutter.
LEMMA StepRefines ==
  IInv /\ [Next]_vars => accessors \/ Atomic!Next \/ UNCHANGED Atomic!vars
<1> SUFFICES ASSUME TypeOK, Locking, Consistent, ~accessors, [Next]_vars
             PROVE  Atomic!Next \/ UNCHANGED Atomic!vars
  BY DEF IInv
<1>1. ASSUME NEW k \in Caller, NEW req \in Request, Call(k, req) PROVE Atomic!Next
  <2>1. Atomic!Ask(k, req)
    BY <1>1 DEF Locking, Call, Atomic!Ask, configVars
  <2> QED BY <2>1 DEF Atomic!Next
<1>2. ASSUME NEW k \in Caller, Authorize(k) PROVE UNCHANGED Atomic!vars
  BY <1>2, Stutters DEF Authorize, InForce, Whole, Updating, configVars
<1>3. ASSUME NEW k \in Caller, Validate(k) PROVE Atomic!Next \/ UNCHANGED Atomic!vars
  <2>1. CASE ~(compliance.enabled /\ SlicePastEnd(asked[k]))
    BY <1>3, <2>1, Stutters DEF Validate, InForce, Whole, Updating, configVars
  <2>2. CASE compliance.enabled /\ SlicePastEnd(asked[k])
    <3>1. asked[k] \in Request /\ CheckPermission(asked[k]) /\ ~Updating /\ asked[k] # None
      BY <1>3, Asked, PermissionAgrees DEF Validate, Consistent, Locking, Checking
    <3>2. Atomic!Judge(Whole, asked[k]) = "panic"
      BY <2>2, <3>1, JudgeAgrees
    <3>3. trail[k] = <<>> /\ trail \in [Caller -> {<<>>} \cup {<<e>> : e \in Outcome}]
      BY <1>3 DEF TypeOK, Locking, Validate
    <3>4. trail' = [trail EXCEPT ![k] = <<>>]
      BY <1>3, <3>3 DEF Validate
    <3>5. Atomic!Check(k)
      BY <1>3, <2>2, <3>1, <3>2, <3>4
      DEF Validate, Return, Atomic!Check, Whole, Updating, configVars
    <3> QED BY <3>5 DEF Atomic!Next
  <2> QED BY <2>1, <2>2
<1>4. ASSUME NEW k \in Caller, Log(k) PROVE Atomic!Next
  <2>1. ~Updating /\ asked[k] # None /\ trail[k] = <<>> /\ outcome[k] \in Outcome
    BY <1>4 DEF Log, Locking, Checking
  <2>2. Atomic!Judge(Whole, asked[k]) = outcome[k]
    BY <1>4 DEF Log, Consistent
  <2>3. outcome[k] # "panic"
    BY <2>1 DEF Outcome
  <2>4. Append(<<>>, outcome[k]) = <<outcome[k]>>
    OBVIOUS
  <2>5. trail' = [trail EXCEPT ![k] =
                    IF audit.enabled /\ asked[k].encodable THEN <<outcome[k]>> ELSE <<>>]
    BY <1>4, <2>1, <2>4 DEF Log, logEvent
  <2>6. Atomic!Check(k)
    BY <1>4, <2>1, <2>2, <2>3, <2>5
    DEF Log, Return, Atomic!Check, Whole, Updating, configVars
  <2> QED BY <2>6 DEF Atomic!Next
<1>5. ASSUME NEW c \in Config, Lock(c) PROVE UNCHANGED Atomic!vars
  BY <1>5, Stutters DEF Lock, InForce, Whole, Updating, configVars, callVars
<1>6. ASSUME NEW c \in Config, ControllerUpdateConfig(c) PROVE FALSE
  BY <1>6 DEF ControllerUpdateConfig
<1>7. CASE LockGranted
  <2>1. Atomic!UpdateConfig
    BY <1>7 DEF Locking, LockGranted, Atomic!UpdateConfig, callVars
  <2> QED BY <2>1 DEF Atomic!Next
<1>8. CASE UpdateAuth
  BY <1>8, Stutters DEF UpdateAuth, InForce, Updating, callVars
<1>9. CASE UpdateCompliance
  BY <1>9, Stutters DEF UpdateCompliance, InForce, Updating, callVars
<1>10. CASE UpdateAudit
  <2>1. new = [auth |-> new.auth, compliance |-> new.compliance, audit |-> new.audit]
    BY <1>10, HarnessAssumption DEF UpdateAudit, Locking
  <2> QED
    BY <1>10, <2>1, Stutters DEF UpdateAudit, Consistent, InForce, Whole, Updating, callVars
<1>11. CASE UNCHANGED vars
  BY <1>11, Stutters DEF vars, InForce, Whole, Updating, configVars, callVars
<1> QED
  BY <1>1, <1>2, <1>3, <1>4, <1>5, <1>6, <1>7, <1>8, <1>9, <1>10, <1>11
  DEF Next, CheckStep, UpdateStep

\* CheckRequest and UpdateConfig are atomic, for any number of callers, although
\* each takes three steps: no check is judged by parts of two configurations,
\* and the record of a check is that of its decision.
THEOREM ChecksAreAtomic == Spec => ImplementsAtomic
<1>1. IInv /\ [Next]_vars => [accessors \/ Atomic!Next]_(Atomic!vars)
  BY StepRefines
<1> QED BY <1>1, InitRefines, Inductive, PTL DEF Spec, ImplementsAtomic

==================================================================================
