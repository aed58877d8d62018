----------------------------- MODULE PolicyCheck -----------------------------
(***************************************************************************)
(* One permission asked about one call: the part of Boundary.check that is *)
(* a pure function of its inputs, run once on every input of a finite set, *)
(* with the properties a permission owes to whoever writes it.             *)
(***************************************************************************)
EXTENDS Policy

CONSTANTS
    Operations,   \* names a call may give as its operation
    Permissions,  \* the ToolPermissions asked about
    Contexts      \* the CallContexts they are asked about

(***************************************************************************)
(* The dataclass fields.  The limits are floats (halves and coarser) and   *)
(* max_records is an int.                                                  *)
(***************************************************************************)
Floats == {n \in Int : n % 2 = 0}

Permission ==
    [mode : AccessMode,
     allowedOps : {None} \cup SUBSET Operations,
     blockedOps : SUBSET Operations,
     maxValue : {None} \cup Floats,
     minValue : {None} \cup Floats,
     maxRecords : {None} \cup {n \in Int : n % One = 0}]

CallContext ==
    [op : {None} \cup Operations,
     mode : AccessMode,
     value : {None, Junk} \cup Int,
     records : {None, Junk} \cup Int]

ASSUME PermissionsAssumption == Permissions \subseteq Permission

ASSUME ContextsAssumption == Contexts \subseteq CallContext

ASSUME PendingAssumption == None # "pending"

VARIABLES
    strict,   \* Boundary.strict_limits
    perm,     \* the permission found for the tool
    ctx,      \* the call
    verdict   \* "pending", then a reason_code or None

vars == <<strict, perm, ctx, verdict>>

Init ==
    /\ strict \in BOOLEAN
    /\ perm \in Permissions
    /\ ctx \in Contexts
    /\ verdict = "pending"

Decide ==
    /\ verdict = "pending"
    /\ verdict' = PermissionVerdict(strict, perm, ctx)
    /\ UNCHANGED <<strict, perm, ctx>>

Next == Decide

Spec == Init /\ [][Next]_vars

-----------------------------------------------------------------------------

(***************************************************************************)
(* p grants no more than q: a lower mode, fewer operations, more of them   *)
(* blocked, limits that are no wider and none of them dropped.             *)
(***************************************************************************)
NoWider(a, b) == b = None \/ (a # None /\ a <= b)

Tighter(p, q) ==
    /\ p.mode <= q.mode
    /\ q.allowedOps = None \/ (p.allowedOps # None /\ p.allowedOps \subseteq q.allowedOps)
    /\ q.blockedOps \subseteq p.blockedOps
    /\ NoWider(p.maxValue, q.maxValue)
    /\ q.minValue = None \/ (p.minValue # None /\ q.minValue <= p.minValue)
    /\ NoWider(p.maxRecords, q.maxRecords)

(***************************************************************************)
(* Tightening a permission never lets a call through that the wider one    *)
(* refused: the checks of permissions.py and boundary.py 789-891 interact  *)
(* (a limit that is absent switches the check of the number's form off),   *)
(* yet no combination of them is turned around by adding a limit.          *)
(***************************************************************************)
TighteningNeverAllows ==
    verdict = None =>
        \A q \in Permissions :
            Tighter(perm, q) => PermissionVerdict(strict, q, ctx) = None

(***************************************************************************)
(* With strict_limits (API.md 48) no form of argument slips past a         *)
(* configured maximum: what is let through carries a real amount, which is *)
(* over the maximum by no more than float() rounds off, and a whole,       *)
(* non-negative number of records after the same rounding.                 *)
(***************************************************************************)
StrictLimitsLeaveNoHole ==
    verdict = None /\ strict =>
        /\ perm.maxValue # None =>
               /\ ctx.value \in Int
               /\ ctx.value <= perm.maxValue + 1
        /\ perm.maxRecords # None =>
               /\ ctx.records \in Int
               /\ Nearest(ctx.records) \in {One * k : k \in 0 .. perm.maxRecords}
               /\ ctx.records <= perm.maxRecords + 1
=============================================================================
