------------------------------- MODULE AuditLog ---------------------------------
(***************************************************************************)
(* The audit log of the middleware (AuditLog, pkg/middleware/acl.go): a    *)
(* list that handlers add to and read under one lock.  An entry is its     *)
(* number; its limit is given once, by NewAuditLog.                        *)
(***************************************************************************)
EXTENDS RecordOps

CONSTANTS
  AuditSizes,   \* limits that a program may ask for
  MaxAudited    \* bound on the entries ever added

VARIABLES
  auditSize,   \* al.maxSize
  entries,     \* al.entries
  audited      \* history: how many entries were added

auditVars == <<auditSize, entries, audited>>

NewAuditLog ==
  /\ auditSize \in AuditSizes \cap Nat
  /\ entries = <<>>
  /\ audited = 0

Add ==
  /\ audited < MaxAudited
  /\ audited' = audited + 1
  /\ entries' = Push(entries, audited + 1, auditSize)
  /\ UNCHANGED auditSize

AuditStep == Add

AuditSpec == NewAuditLog /\ [][AuditStep]_auditVars

\* The log holds the latest entries, as many of them as its limit allows.
AuditHoldsLatest == HoldsLatest(entries, audited, auditSize, auditSize)
================================================================================
