----------------------------- MODULE MCAuditTrail -----------------------------
(***************************************************************************)
(* A trail with a file, to which a webhook and another sink are added.     *)
(***************************************************************************)
EXTENDS AuditTrail

CONSTANTS f1, w1, o1

Both == <<f1, w1>>
FileOnly == <<f1>>
=============================================================================
