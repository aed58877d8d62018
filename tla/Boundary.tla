------------------------------ MODULE Boundary ------------------------------
(***************************************************************************)
(* One Boundary object shared by the threads of an agent process, while    *)
(* the host (operator code in the same process, the operator's shell, the  *)
(* clock) changes the settings a call reads on its way: boundary.py.       *)
(*                                                                         *)
(* check() and evaluate() take no lock of their own.  A step of a thread   *)
(* is one read of shared state together with the computation up to the     *)
(* next read: the kill-switch flag and the environment variable are two    *)
(* reads, the autonomy level is read for quarantine and again, up to twice,*)
(* for approval.  The rate limiter takes a lock, so check_and_record is    *)
(* one step here; its clock is the subject of SlidingWindow, and this      *)
(* module looks at the span of one window, in which no slot is returned.   *)
(***************************************************************************)
EXTENDS Policy, FiniteSets

CONSTANTS
    Threads,               \* threads of the agent that make calls
    Tools,                 \* tool names
    Calls,                 \* the CallContexts they make (tool, op, mode, ...)
    InitialPermissions,    \* Tools -> ToolPermission or None
    AddedPermissions,      \* what add_permission may install: [tool, perm]
    BlockedOperations,     \* blocked_operations
    EnvironmentAllowed,    \* environment \in allowed_environments
    KillSwitchEnv,         \* whether kill_switch_env names a variable
    MaxActions,            \* max_actions_per_hour, or None
    StrictLimits,          \* strict_limits
    FailClosed,            \* fail_closed_on_hook_error
    Hooks,                 \* number of policy_hooks
    InitialAutonomy,       \* levels the boundary may be built with
    AssignedAutonomy,      \* levels the host may assign later
    HostMoves,             \* which host actions this instance has
    CallBound              \* bound: calls begun

QUARANTINED == "QUARANTINED"
HUMAN_APPROVAL_REQUIRED == "HUMAN_APPROVAL_REQUIRED"
RECOMMEND_ONLY == "RECOMMEND_ONLY"
AutonomyLevel ==
    {RECOMMEND_ONLY, HUMAN_APPROVAL_REQUIRED, "LIMITED_AUTONOMOUS",
     "AUTONOMOUS", QUARANTINED}

Period == {"before", "valid", "after"}

Pcs == {"idle", "kill_flag", "kill_env", "quarantine", "gates", "permission",
        "rate_global", "rate_tool", "hooks", "approval", "approval_mode",
        "return"}

\* RATE_LIMIT_EXCEEDED is told apart by the limit that was hit.
Decisions ==
    PermissionReasons \cup
    {"ALLOW", "APPROVAL_REQUIRED", "KILL_SWITCH_ACTIVE",
     "AGENT_QUARANTINED", "OUTSIDE_VALID_PERIOD", "ENVIRONMENT_NOT_ALLOWED",
     "TOOL_NOT_ALLOWED", "GLOBAL_RATE_LIMIT_EXCEEDED",
     "TOOL_RATE_LIMIT_EXCEEDED", "POLICY_HOOK_DENIED"}
Outcomes == Decisions \cup {None}

Global == "__global__"
Keys == Tools \cup {Global}

\* Facts about the settings whose unbroken truth the properties speak of.
Conditions == {"flag", "env", "disengaged", "quarantined", "unquarantined",
               "valid", "invalid", "human", "no_human", "recommend",
               "no_recommend", "supervised"}

ASSUME BoundaryAssumption ==
    /\ IsFiniteSet(Threads) /\ IsFiniteSet(Tools)
    /\ Global \notin Tools /\ None \notin Decisions
    /\ \A c \in Calls : c.tool \in Tools
    /\ DOMAIN InitialPermissions = Tools
    /\ \A a \in AddedPermissions : a.tool \in Tools
    /\ InitialAutonomy \subseteq AutonomyLevel
    /\ AssignedAutonomy \subseteq AutonomyLevel
    /\ {EnvironmentAllowed, KillSwitchEnv, StrictLimits, FailClosed} \subseteq BOOLEAN
    /\ MaxActions \in Nat \/ MaxActions = None
    /\ Hooks \in Nat /\ CallBound \in Nat

VARIABLES
    killFlag,     \* _kill_switch
    processEnv,   \* kill_switch_env is truthy in this process's os.environ
    autonomy,     \* Boundary.autonomy
    period,       \* where now lies relative to valid_from and valid_to
    permissions,  \* _permissions
    used,         \* slots of each rate-limit key taken within the window
    audited,      \* audit events recorded, by decision
    pc,           \* where each thread is in check() or evaluate()
    api,          \* which of the two it is in
    call,         \* its CallContext
    perm,         \* the permission found by _check_tool_permission
    ratePerm,     \* the permission found again by _check_rate_limit
    hook,         \* policy hooks already run
    outcome,      \* the decision of its current or last call
    begun,        \* calls begun
    returned,     \* history: calls that returned with a slot of each key
    allowed,      \* history: calls that returned ALLOW
    held          \* history: conditions true throughout the current call

settings == <<killFlag, processEnv, autonomy, period, permissions>>
locals == <<api, call, perm, ratePerm, hook>>
ledger == <<audited, returned, allowed, begun>>
vars == <<settings, used, ledger, pc, locals, outcome, held>>

-----------------------------------------------------------------------------

Quarantined == autonomy = QUARANTINED

InForce ==
    {c \in Conditions :
        \/ c = "flag" /\ killFlag
        \/ c = "env" /\ KillSwitchEnv /\ processEnv
        \/ c = "disengaged" /\ ~killFlag /\ ~(KillSwitchEnv /\ processEnv)
        \/ c = "quarantined" /\ Quarantined
        \/ c = "unquarantined" /\ ~Quarantined
        \/ c = "valid" /\ period = "valid"
        \/ c = "invalid" /\ period # "valid"
        \/ c = "human" /\ autonomy = HUMAN_APPROVAL_REQUIRED
        \/ c = "no_human" /\ autonomy # HUMAN_APPROVAL_REQUIRED
        \/ c = "recommend" /\ autonomy = RECOMMEND_ONLY
        \/ c = "no_recommend" /\ autonomy # RECOMMEND_ONLY
        \/ c = "supervised" /\ (Quarantined \/ autonomy = HUMAN_APPROVAL_REQUIRED)}

Init ==
    /\ killFlag \in BOOLEAN
    /\ processEnv \in BOOLEAN
    /\ autonomy \in InitialAutonomy
    /\ period \in Period
    /\ permissions = InitialPermissions
    /\ used = [k \in Keys |-> 0]
    /\ audited = [d \in {"ALLOW", "DENY", "APPROVAL_REQUIRED"} |-> 0]
    /\ pc = [t \in Threads |-> "idle"]
    /\ api = [t \in Threads |-> "check"]
    /\ call = [t \in Threads |-> None]
    /\ perm = [t \in Threads |-> None]
    /\ ratePerm = [t \in Threads |-> None]
    /\ hook = [t \in Threads |-> 0]
    /\ outcome = [t \in Threads |-> None]
    /\ begun = 0
    /\ returned = [k \in Keys |-> 0]
    /\ allowed = 0
    /\ held = [t \in Threads |-> InForce]

-----------------------------------------------------------------------------
(***************************************************************************)
(* A call, step by step.                                                   *)
(***************************************************************************)

At(t, label) == pc[t] = label
Goto(t, label) == pc' = [pc EXCEPT ![t] = label] /\ UNCHANGED outcome

\* A check raised (or all of them passed): the decision is fixed.
Decided(t, decision) ==
    /\ outcome' = [outcome EXCEPT ![t] = decision]
    /\ pc' = [pc EXCEPT ![t] = "return"]

BeginCall(t) ==
    /\ At(t, "idle")
    /\ begun < CallBound
    /\ begun' = begun + 1
    /\ \E c \in Calls : call' = [call EXCEPT ![t] = c]
    /\ \E a \in {"check", "evaluate"} : api' = [api EXCEPT ![t] = a]
    /\ outcome' = [outcome EXCEPT ![t] = None]
    /\ pc' = [pc EXCEPT ![t] = "kill_flag"]
    /\ perm' = [perm EXCEPT ![t] = None]
    /\ ratePerm' = [ratePerm EXCEPT ![t] = None]
    /\ hook' = [hook EXCEPT ![t] = 0]
    /\ UNCHANGED <<settings, used, audited, returned, allowed>>

\* kill_switch_engaged: the flag first, and the variable only if it is clear.
\* Faulty variant: the variable, where there is one, is read in the flag's place.
ReadKillFlagOrEnv(t) ==
    /\ At(t, "kill_flag")
    /\ IF KillSwitchEnv THEN Goto(t, "kill_env")
       ELSE IF killFlag THEN Decided(t, "KILL_SWITCH_ACTIVE") ELSE Goto(t, "quarantine")
    /\ UNCHANGED <<settings, used, ledger, locals>>

ReadKillFlag(t) ==
    /\ At(t, "kill_flag")
    /\ IF killFlag THEN Decided(t, "KILL_SWITCH_ACTIVE")
       ELSE Goto(t, IF KillSwitchEnv THEN "kill_env" ELSE "quarantine")
    /\ UNCHANGED <<settings, used, ledger, locals>>

ReadKillEnv(t) ==
    /\ At(t, "kill_env")
    /\ IF processEnv THEN Decided(t, "KILL_SWITCH_ACTIVE") ELSE Goto(t, "quarantine")
    /\ UNCHANGED <<settings, used, ledger, locals>>

CheckQuarantine(t) ==
    /\ At(t, "quarantine")
    /\ IF Quarantined THEN Decided(t, "AGENT_QUARANTINED") ELSE Goto(t, "gates")
    /\ UNCHANGED <<settings, used, ledger, locals>>

\* The validity window, the environment and the global block list.
\* Faulty variant: the block list first.
GateChecksBlockedFirst(ctx) ==
    << [reason |-> "OPERATION_BLOCKED",
        fails |-> ctx.op # None /\ ctx.op \in BlockedOperations],
       [reason |-> "OUTSIDE_VALID_PERIOD", fails |-> period # "valid"],
       [reason |-> "ENVIRONMENT_NOT_ALLOWED", fails |-> ~EnvironmentAllowed] >>

GateChecks(ctx) ==
    << [reason |-> "OUTSIDE_VALID_PERIOD", fails |-> period # "valid"],
       [reason |-> "ENVIRONMENT_NOT_ALLOWED", fails |-> ~EnvironmentAllowed],
       [reason |-> "OPERATION_BLOCKED",
        fails |-> ctx.op # None /\ ctx.op \in BlockedOperations] >>

CheckGates(t) ==
    /\ At(t, "gates")
    /\ LET failure == FirstFailure(GateChecks(call[t]))
       IN  IF failure # None THEN Decided(t, failure) ELSE Goto(t, "permission")
    /\ UNCHANGED <<settings, used, ledger, locals>>

\* _check_tool_permission and the checks on the (immutable) permission found.
CheckPermission(t) ==
    /\ At(t, "permission")
    /\ LET p == permissions[call[t].tool]
           failure == IF p = None THEN "TOOL_NOT_ALLOWED"
                      ELSE PermissionVerdict(StrictLimits, p, call[t])
       IN  /\ perm' = [perm EXCEPT ![t] = p]
           /\ IF failure # None THEN Decided(t, failure) ELSE Goto(t, "rate_global")
    /\ UNCHANGED <<settings, used, ledger, api, call, ratePerm, hook>>

\* check_and_record within one window.
\* Faulty variant: one slot too many.
HasSlotOrLast(key, limit) == used[key] <= limit

HasSlot(key, limit) == used[key] < limit
TakeSlot(key) == used' = [used EXCEPT ![key] = @ + 1]

\* _check_rate_limit looks the permission up again before it takes a slot.
CheckGlobalRate(t) ==
    /\ At(t, "rate_global")
    /\ ratePerm' = [ratePerm EXCEPT ![t] = permissions[call[t].tool]]
    /\ IF MaxActions = None THEN UNCHANGED used /\ Goto(t, "rate_tool")
       ELSE IF HasSlot(Global, MaxActions) THEN TakeSlot(Global) /\ Goto(t, "rate_tool")
       ELSE UNCHANGED used /\ Decided(t, "GLOBAL_RATE_LIMIT_EXCEEDED")
    /\ UNCHANGED <<settings, ledger, api, call, perm, hook>>

\* Faulty variant: the calls are counted, but this one is not recorded.
CheckToolRateUnrecorded(t) ==
    /\ At(t, "rate_tool")
    /\ LET p == ratePerm[t]
           tool == call[t].tool
       IN  IF p = None \/ p.maxCalls = None \/ HasSlot(tool, p.maxCalls)
           THEN Goto(t, "hooks") ELSE Decided(t, "TOOL_RATE_LIMIT_EXCEEDED")
    /\ UNCHANGED <<settings, used, ledger, locals>>

CheckToolRate(t) ==
    /\ At(t, "rate_tool")
    /\ LET p == ratePerm[t]
           tool == call[t].tool
       IN  IF p = None \/ p.maxCalls = None THEN UNCHANGED used /\ Goto(t, "hooks")
           ELSE IF HasSlot(tool, p.maxCalls) THEN TakeSlot(tool) /\ Goto(t, "hooks")
           ELSE UNCHANGED used /\ Decided(t, "TOOL_RATE_LIMIT_EXCEEDED")
    /\ UNCHANGED <<settings, ledger, locals>>

\* Whether a hook's answer lets the loop go on; a hook is the host's code.
HookLetsPass(answer) == answer = "allow" \/ (answer = "error" /\ ~FailClosed)

\* Faulty variant: the loop runs once more than there are hooks.
RunHookOnceMore(t) ==
    /\ At(t, "hooks")
    /\ hook[t] <= Hooks
    /\ \E answer \in {"allow", "deny", "error"} :
          IF HookLetsPass(answer) THEN Goto(t, "hooks")
          ELSE Decided(t, "POLICY_HOOK_DENIED")
    /\ hook' = [hook EXCEPT ![t] = @ + 1]
    /\ UNCHANGED <<settings, used, ledger, api, call, perm, ratePerm>>

RunHook(t) ==
    /\ At(t, "hooks")
    /\ hook[t] < Hooks
    /\ \E answer \in {"allow", "deny", "error"} :
          IF HookLetsPass(answer) THEN Goto(t, "hooks")
          ELSE Decided(t, "POLICY_HOOK_DENIED")
    /\ hook' = [hook EXCEPT ![t] = @ + 1]
    /\ UNCHANGED <<settings, used, ledger, api, call, perm, ratePerm>>

HooksDone(t) ==
    /\ At(t, "hooks")
    /\ hook[t] = Hooks
    /\ Goto(t, "approval")
    /\ UNCHANGED <<settings, used, ledger, locals>>

\* _check_requires_approval: its first two operands, then its third, which
\* reads the autonomy level again.
CheckApproval(t) ==
    /\ At(t, "approval")
    /\ IF perm[t].approval \/ autonomy = HUMAN_APPROVAL_REQUIRED
       THEN Decided(t, "APPROVAL_REQUIRED") ELSE Goto(t, "approval_mode")
    /\ UNCHANGED <<settings, used, ledger, locals>>

\* Faulty variant: RECOMMEND_ONLY holds back only what is more than a write.
CheckApprovalModeAboveWrite(t) ==
    /\ At(t, "approval_mode")
    /\ IF autonomy = RECOMMEND_ONLY /\ call[t].mode > WRITE
       THEN Decided(t, "APPROVAL_REQUIRED") ELSE Decided(t, "ALLOW")
    /\ UNCHANGED <<settings, used, ledger, locals>>

CheckApprovalMode(t) ==
    /\ At(t, "approval_mode")
    /\ IF autonomy = RECOMMEND_ONLY /\ call[t].mode # READ_ONLY
       THEN Decided(t, "APPROVAL_REQUIRED") ELSE Decided(t, "ALLOW")
    /\ UNCHANGED <<settings, used, ledger, locals>>

\* The audit event of each decision.
DecisionOf(o) == IF o \in {"ALLOW", "APPROVAL_REQUIRED"} THEN o ELSE "DENY"

\* What is decided past the limit of a key, hence with a slot of it.
PastToolRate == {"ALLOW", "APPROVAL_REQUIRED", "POLICY_HOOK_DENIED"}
PastRate(k) ==
    IF k = Global THEN PastToolRate \cup {"TOOL_RATE_LIMIT_EXCEEDED"} ELSE PastToolRate

\* Whether the call of t is held to a limit of k: for a tool, by the permission
\* looked up for it last.
Counts(t, k) ==
    \/ k = Global /\ MaxActions # None
    \/ k = call[t].tool /\ ratePerm[t] # None /\ ratePerm[t].maxCalls # None

\* check() records the decision and raises or returns; evaluate() only returns.
Return(t) ==
    /\ At(t, "return")
    /\ audited' = IF api[t] = "check"
                  THEN [audited EXCEPT ![DecisionOf(outcome[t])] = @ + 1]
                  ELSE audited
    /\ returned' = [k \in Keys |->
                       IF outcome[t] \in PastRate(k) /\ Counts(t, k)
                       THEN returned[k] + 1 ELSE returned[k]]
    /\ allowed' = IF outcome[t] = "ALLOW" THEN allowed + 1 ELSE allowed
    /\ Goto(t, "idle")
    /\ UNCHANGED <<settings, used, begun, locals>>

ThreadStep(t) ==
    \/ BeginCall(t) \/ ReadKillFlag(t) \/ ReadKillEnv(t) \/ CheckQuarantine(t)
    \/ CheckGates(t) \/ CheckPermission(t) \/ CheckGlobalRate(t)
    \/ CheckToolRate(t) \/ RunHook(t) \/ HooksDone(t) \/ CheckApproval(t)
    \/ CheckApprovalMode(t) \/ Return(t)

-----------------------------------------------------------------------------
(***************************************************************************)
(* The host, at any moment.                                                *)
(***************************************************************************)

threadVars == <<used, ledger, pc, locals, outcome>>

EngageKillSwitch ==
    /\ "engage" \in HostMoves
    /\ killFlag' = TRUE
    /\ UNCHANGED <<processEnv, autonomy, period, permissions, threadVars>>

DisengageKillSwitch ==
    /\ "disengage" \in HostMoves
    /\ killFlag' = FALSE
    /\ UNCHANGED <<processEnv, autonomy, period, permissions, threadVars>>

\* os.environ is assigned by code of this process.
SetProcessEnv ==
    /\ "environ" \in HostMoves
    /\ processEnv' \in BOOLEAN
    /\ UNCHANGED <<killFlag, autonomy, period, permissions, threadVars>>

AssignAutonomy ==
    /\ "autonomy" \in HostMoves
    /\ autonomy' \in AssignedAutonomy
    /\ UNCHANGED <<killFlag, processEnv, period, permissions, threadVars>>

AddPermission ==
    /\ "permission" \in HostMoves
    /\ \E a \in AddedPermissions : permissions' = [permissions EXCEPT ![a.tool] = a.perm]
    /\ UNCHANGED <<killFlag, processEnv, autonomy, period, threadVars>>

PeriodPasses ==
    /\ "period" \in HostMoves
    /\ \/ period = "before" /\ period' = "valid"
       \/ period = "valid" /\ period' = "after"
    /\ UNCHANGED <<killFlag, processEnv, autonomy, permissions, threadVars>>

HostStep ==
    \/ EngageKillSwitch \/ DisengageKillSwitch \/ SetProcessEnv
    \/ AssignAutonomy \/ AddPermission \/ PeriodPasses

\* The history of what has held since the thread's current call began.
Observe ==
    held' = [t \in Threads |->
                IF At(t, "idle") THEN InForce' ELSE held[t] \cap InForce']

Next == (HostStep \/ \E t \in Threads : ThreadStep(t)) /\ Observe

Spec == Init /\ [][Next]_vars

-----------------------------------------------------------------------------
(***************************************************************************)
(* Properties.                                                             *)
(***************************************************************************)

(***************************************************************************)
(* Types; a thread is never past its last hook, and a decision is one that *)
(* boundary.py can raise or return.                                        *)
(***************************************************************************)
TypeOK ==
    /\ {killFlag, processEnv} \subseteq BOOLEAN
    /\ autonomy \in AutonomyLevel
    /\ period \in Period
    /\ DOMAIN permissions = Tools
    /\ used \in [Keys -> Nat]
    /\ audited \in [{"ALLOW", "DENY", "APPROVAL_REQUIRED"} -> Nat]
    /\ pc \in [Threads -> Pcs]
    /\ api \in [Threads -> {"check", "evaluate"}]
    /\ call \in [Threads -> Calls \cup {None}]
    /\ hook \in [Threads -> 0 .. Hooks]
    /\ outcome \in [Threads -> Outcomes]
    /\ begun \in 0 .. CallBound
    /\ returned \in [Keys -> Nat]
    /\ allowed \in Nat
    /\ held \in [Threads -> SUBSET Conditions]

\* t has its decision and is about to hand it to its caller.
Returning(t, o) == At(t, "return") /\ outcome[t] = o

(***************************************************************************)
(* A halt that stands for the whole of a call decides it, whatever other   *)
(* switches are thrown meanwhile: the flag and the variable deny it as     *)
(* KILL_SWITCH_ACTIVE (boundary.py 719-727, "immediately for all future    *)
(* calls" 213), quarantine denies it too ("no exceptions", API.md 138).    *)
(***************************************************************************)
HaltIsFinal ==
    \A t \in Threads : At(t, "return") =>
        /\ held[t] \cap {"flag", "env"} # {} => outcome[t] = "KILL_SWITCH_ACTIVE"
        /\ "quarantined" \in held[t] =>
               outcome[t] \in {"KILL_SWITCH_ACTIVE", "AGENT_QUARANTINED"}

(***************************************************************************)
(* A supervised level that stands for the whole of a call keeps it from    *)
(* being allowed (API.md 134-135), however the other settings move.        *)
(***************************************************************************)
SteadySupervisionBinds ==
    \A t \in Threads : Returning(t, "ALLOW") =>
        /\ "human" \notin held[t]
        /\ "recommend" \in held[t] => call[t].mode = READ_ONLY

(***************************************************************************)
(* Rate-limit slots.  A call takes a global slot when it gets past the     *)
(* global limit and never gives it back, and a slot of its tool when it    *)
(* also gets past the limit that the tool's permission had when _check_    *)
(* rate_limit looked it up: threads in any interleaving, and a permission  *)
(* that gets a limit or loses it under way, neither lose nor double a slot *)
(* of any key (boundary.py 893-915).                                       *)
(***************************************************************************)
RateDone(k) ==
    {"hooks", "approval", "approval_mode"} \cup (IF k = Global THEN {"rate_tool"} ELSE {})

\* Threads whose call has got past a limit of k it was held to.
Holders(k) ==
    {t \in Threads :
        /\ pc[t] \in RateDone(k) \/ (At(t, "return") /\ outcome[t] \in PastRate(k))
        /\ Counts(t, k)}

SlotAccounting == \A k \in Keys : used[k] = returned[k] + Cardinality(Holders(k))

(***************************************************************************)
(* At most max_actions_per_hour calls are allowed within the window, by    *)
(* check() and evaluate() together, whichever threads make them.           *)
(***************************************************************************)
AllowedWithinLimit ==
    MaxActions # None =>
        allowed + Cardinality({t \in Threads : Returning(t, "ALLOW")}) <= MaxActions

(***************************************************************************)
(* The order of evaluation, API.md 70-84 and boundary.py 716-762: what     *)
(* each check stands for, with the cases the document leaves out (a        *)
(* missing, malformed or too small number) under the item they belong to.  *)
(* The settings move during a call, so of each item two things are known:  *)
(* that it would have failed at every moment of the call (stands), and     *)
(* that it would have at none (absent).  c is the call, p the permission   *)
(* found for it, r the one found again for the limits, None before the     *)
(* call gets there, and h what held throughout the call.                   *)
(***************************************************************************)
Item(stands, absent, outcomes) ==
    [stands |-> stands, absent |-> absent, outcomes |-> outcomes]
Settled(fails, outcomes) == Item(fails, ~fails, outcomes)

SettingItems(c, p, h) ==
    << Item("flag" \in h \/ "env" \in h, "disengaged" \in h, {"KILL_SWITCH_ACTIVE"}),
       Item("quarantined" \in h, "unquarantined" \in h, {"AGENT_QUARANTINED"}),
       Item("invalid" \in h, "valid" \in h, {"OUTSIDE_VALID_PERIOD"}),
       Settled(~EnvironmentAllowed, {"ENVIRONMENT_NOT_ALLOWED"}),
       Settled(c.op # None /\ c.op \in BlockedOperations, {"OPERATION_BLOCKED"}),
       Settled(p = None, {"TOOL_NOT_ALLOWED"}) >>

PermissionItems(c, p, r, h) ==
    << Settled(~OperationAllowed(p, c.op), {"OPERATION_BLOCKED"}),
       Settled(c.mode > p.mode, {"ACCESS_MODE_EXCEEDED"}),
       Settled(\/ ValueRequired(StrictLimits, p, c) \/ InvalidValue(p, c)
               \/ BelowMinimum(p, c) \/ AboveMaximum(p, c),
               {"VALUE_REQUIRED", "INVALID_VALUE", "MIN_VALUE_VIOLATED",
                "MAX_VALUE_EXCEEDED"}),
       Settled(\/ RecordsRequired(StrictLimits, p, c)
               \/ InvalidRecords(p, c) \/ TooManyRecords(p, c),
               {"RECORDS_REQUIRED", "INVALID_VALUE", "MAX_RECORDS_EXCEEDED"}),
       Item(MaxActions = 0 \/ (r # None /\ r.maxCalls = 0),
            MaxActions = None /\ (r = None \/ r.maxCalls = None),
            {"GLOBAL_RATE_LIMIT_EXCEEDED", "TOOL_RATE_LIMIT_EXCEEDED"}),
       Item(FALSE, Hooks = 0, {"POLICY_HOOK_DENIED"}),
       Item(\/ p.approval \/ "human" \in h
            \/ "recommend" \in h /\ c.mode # READ_ONLY,
            /\ ~p.approval /\ "no_human" \in h
            /\ "no_recommend" \in h \/ c.mode = READ_ONLY,
            {"APPROVAL_REQUIRED"}) >>

DocumentedItems(c, p, r, h) ==
    SettingItems(c, p, h) \o (IF p = None THEN << >> ELSE PermissionItems(c, p, r, h))

(***************************************************************************)
(* First failure wins (API.md 72), while the host moves the settings under *)
(* the call and replaces its permission: an item that stands is never      *)
(* passed over for a later one or for an allowance, and a call is denied   *)
(* only for an item that failed at some moment of it.                      *)
(***************************************************************************)
FirstFailureWins(o, items) ==
    /\ \A i \in DOMAIN items :
           items[i].stands => \E j \in 1 .. i : o \in items[j].outcomes
    /\ \/ o = "ALLOW"
       \/ \E i \in DOMAIN items : o \in items[i].outcomes /\ ~items[i].absent

DecidesInDocumentedOrder ==
    \A t \in Threads : At(t, "return") =>
        FirstFailureWins(outcome[t],
                         DocumentedItems(call[t], perm[t], ratePerm[t], held[t]))
=============================================================================
