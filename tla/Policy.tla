------------------------------- MODULE Policy -------------------------------
(***************************************************************************)
(* What one ToolPermission says of one CallContext: permissions.py and the *)
(* six checks of boundary.py that read nothing but the permission, the     *)
(* call and the strict_limits setting.                                     *)
(*                                                                         *)
(* Amounts (value, record_count, max_value, ...) are integers counted in   *)
(* quarters: 4 is the amount one.  A Python float near the amounts of the  *)
(* model holds the halves and nothing finer, so an odd amount stands for   *)
(* an int beyond 2^53, a Decimal or a numeric string that falls between    *)
(* two floats.  Junk is any value that is no finite number (a bool, a NaN, *)
(* an infinity, "ten", a list); None is Python's None.                     *)
(***************************************************************************)
EXTENDS Integers, Sequences

CONSTANTS
    None,   \* an absent field or argument
    Junk    \* an argument that is not a finite number

\* The reason_codes of the checks below.
PermissionReasons ==
    {"OPERATION_BLOCKED", "ACCESS_MODE_EXCEEDED", "VALUE_REQUIRED",
     "INVALID_VALUE", "MIN_VALUE_VIOLATED", "MAX_VALUE_EXCEEDED",
     "RECORDS_REQUIRED", "MAX_RECORDS_EXCEEDED"}

ASSUME SentinelAssumption ==
    /\ None \notin Int \cup PermissionReasons
    /\ Junk \notin Int
    /\ None # Junk

\* AccessMode, by the rank that _check_access_mode gives each.
READ_ONLY == 0
WRITE == 1
EXECUTE == 2
ADMIN == 3
AccessMode == READ_ONLY .. ADMIN

One == 4

-----------------------------------------------------------------------------

(***************************************************************************)
(* ToolPermission.operation_allowed.                                       *)
(***************************************************************************)
\* Faulty variant: an empty allow-list is taken for an absent one.
OperationAllowedIfListed(perm, op) ==
    /\ op = None \/ op \notin perm.blockedOps
    /\ \/ perm.allowedOps \in {None, {}}
       \/ op # None /\ op \in perm.allowedOps

OperationAllowed(perm, op) ==
    /\ op = None \/ op \notin perm.blockedOps
    /\ \/ perm.allowedOps = None
       \/ op # None /\ op \in perm.allowedOps

(***************************************************************************)
(* float(): the nearest float, and of two equally near the even one.       *)
(***************************************************************************)
Nearest(n) == IF n % 4 = 1 THEN n - 1 ELSE IF n % 4 = 3 THEN n + 1 ELSE n

AsFiniteNumber(v) == IF v \in Int THEN Nearest(v) ELSE None

(***************************************************************************)
(* _check_value_limit, one operator per raise.                             *)
(***************************************************************************)
ValueRequired(strict, perm, ctx) ==
    strict /\ ctx.value = None /\ perm.maxValue # None

InvalidValue(perm, ctx) ==
    /\ ctx.value # None
    /\ perm.maxValue # None \/ perm.minValue # None
    /\ AsFiniteNumber(ctx.value) = None

BelowMinimum(perm, ctx) ==
    /\ AsFiniteNumber(ctx.value) # None
    /\ perm.minValue # None
    /\ AsFiniteNumber(ctx.value) < perm.minValue

AboveMaximum(perm, ctx) ==
    /\ AsFiniteNumber(ctx.value) # None
    /\ perm.maxValue # None
    /\ AsFiniteNumber(ctx.value) > perm.maxValue

(***************************************************************************)
(* _check_record_limit, one operator per raise.                            *)
(***************************************************************************)
RecordsRequired(strict, perm, ctx) ==
    strict /\ ctx.records = None /\ perm.maxRecords # None

\* Faulty variant: a negative number of records is let through.
InvalidRecordsUnsigned(perm, ctx) ==
    /\ ctx.records # None
    /\ perm.maxRecords # None
    /\ LET n == AsFiniteNumber(ctx.records)
       IN  n = None \/ n % One # 0

InvalidRecords(perm, ctx) ==
    /\ ctx.records # None
    /\ perm.maxRecords # None
    /\ LET n == AsFiniteNumber(ctx.records)
       IN  n = None \/ n < 0 \/ n % One # 0

TooManyRecords(perm, ctx) ==
    /\ AsFiniteNumber(ctx.records) # None
    /\ perm.maxRecords # None
    /\ AsFiniteNumber(ctx.records) > perm.maxRecords

AccessModeExceeded(perm, ctx) == ctx.mode > perm.mode

(***************************************************************************)
(* The checks on a permission in the order check() and evaluate() make     *)
(* them, each with the reason_code of its exception.                       *)
(***************************************************************************)
PermissionChecks(strict, perm, ctx) ==
    << [reason |-> "OPERATION_BLOCKED",
        fails |-> ~OperationAllowed(perm, ctx.op)],
       [reason |-> "ACCESS_MODE_EXCEEDED",
        fails |-> AccessModeExceeded(perm, ctx)],
       [reason |-> "VALUE_REQUIRED", fails |-> ValueRequired(strict, perm, ctx)],
       [reason |-> "INVALID_VALUE", fails |-> InvalidValue(perm, ctx)],
       [reason |-> "MIN_VALUE_VIOLATED", fails |-> BelowMinimum(perm, ctx)],
       [reason |-> "MAX_VALUE_EXCEEDED", fails |-> AboveMaximum(perm, ctx)],
       [reason |-> "RECORDS_REQUIRED",
        fails |-> RecordsRequired(strict, perm, ctx)],
       [reason |-> "INVALID_VALUE", fails |-> InvalidRecords(perm, ctx)],
       [reason |-> "MAX_RECORDS_EXCEEDED",
        fails |-> TooManyRecords(perm, ctx)] >>

(***************************************************************************)
(* The first check that raises decides: its reason, or None when no check  *)
(* raises.                                                                 *)
(***************************************************************************)
FirstFailure(checks) ==
    LET failing == {i \in DOMAIN checks : checks[i].fails}
    IN  IF failing = {} THEN None
        ELSE checks[CHOOSE i \in failing : \A j \in failing : i <= j].reason

PermissionVerdict(strict, perm, ctx) ==
    FirstFailure(PermissionChecks(strict, perm, ctx))

(***************************************************************************)
(* A call that gets through every check on its permission.                 *)
(***************************************************************************)
Admits(strict, perm, ctx) ==
    /\ OperationAllowed(perm, ctx.op)
    /\ ~AccessModeExceeded(perm, ctx)
    /\ ~ValueRequired(strict, perm, ctx)
    /\ ~InvalidValue(perm, ctx)
    /\ ~BelowMinimum(perm, ctx)
    /\ ~AboveMaximum(perm, ctx)
    /\ ~RecordsRequired(strict, perm, ctx)
    /\ ~InvalidRecords(perm, ctx)
    /\ ~TooManyRecords(perm, ctx)
=============================================================================
