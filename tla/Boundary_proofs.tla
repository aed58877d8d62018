--------------------------- MODULE Boundary_proofs ---------------------------
(***************************************************************************)
(* Proofs about concurrent calls on one Boundary: the type invariant, that *)
(* a halt or a supervised level which stands for the whole of a call       *)
(* decides it, that no slot is lost or doubled, and that the first failure *)
(* in the documented order decides, for any threads, tools, calls,         *)
(* permissions and host moves.                                             *)
(***************************************************************************)
EXTENDS Boundary, WellFoundedInduction, FiniteSetTheorems, SequenceTheorems, TLAPS

(***************************************************************************)
(* A set of check numbers with an element has a least one, so FirstFailure *)
(* gives the reason of a check that fails, and None only if none does.     *)
(***************************************************************************)
LEMMA LeastElement ==
    ASSUME NEW S \in SUBSET Nat, S # {}
    PROVE  \E i \in S : \A j \in S : i <= j
<1>1. PICK i \in S : \A j \in S : <<j, i>> \notin OpToRel(<, Nat)
  BY NatLessThanWellFounded, WFMin
<1>2. \A j \in S : ~(j < i)
  BY <1>1 DEF OpToRel
<1> QED
  BY <1>2

LEMMA FirstFailureFails ==
    ASSUME NEW checks, DOMAIN checks \subseteq Nat
    PROVE  \/ /\ FirstFailure(checks) = None
              /\ \A i \in DOMAIN checks : ~checks[i].fails
           \/ \E i \in DOMAIN checks :
                 checks[i].fails /\ FirstFailure(checks) = checks[i].reason
<1> DEFINE failing == {i \in DOMAIN checks : checks[i].fails}
           least == CHOOSE i \in failing : \A j \in failing : i <= j
<1>1. CASE failing = {}
  BY <1>1 DEF FirstFailure
<1>2. CASE failing # {}
  <2>1. failing \in SUBSET Nat
    OBVIOUS
  <2>2. \E i \in failing : \A j \in failing : i <= j
    BY <1>2, <2>1, LeastElement
  <2>3. least \in failing
    BY <2>2
  <2>4. FirstFailure(checks) = checks[least].reason
    BY <1>2 DEF FirstFailure
  <2> QED
    BY <2>3, <2>4
<1> QED
  BY <1>1, <1>2

(***************************************************************************)
(* The reasons the checks on a permission, and the gates before them, give.*)
(***************************************************************************)
LEMMA NoneIsNoOutcome == None # "ALLOW"
BY BoundaryAssumption DEF Decisions

LEMMA VerdictIsAReason ==
    ASSUME NEW strict, NEW p, NEW c
    PROVE  PermissionVerdict(strict, p, c) \in PermissionReasons \cup {None}
<1> DEFINE checks == PermissionChecks(strict, p, c)
<1>1. DOMAIN checks = 1 .. 9
  BY DEF PermissionChecks
<1>2. \A i \in 1 .. 9 : checks[i].reason \in PermissionReasons
  BY DEF PermissionChecks, PermissionReasons
<1> HIDE DEF checks
<1>3. FirstFailure(checks) \in PermissionReasons \cup {None}
  BY <1>1, <1>2, FirstFailureFails
<1> QED
  BY <1>3 DEF PermissionVerdict, checks

LEMMA GateIsAReason ==
    ASSUME NEW c
    PROVE  FirstFailure(GateChecks(c)) \in
             {None, "OUTSIDE_VALID_PERIOD", "ENVIRONMENT_NOT_ALLOWED", "OPERATION_BLOCKED"}
<1> DEFINE checks == GateChecks(c)
<1>1. DOMAIN checks = 1 .. 3
  BY DEF GateChecks
<1>2. \A i \in 1 .. 3 : checks[i].reason \in
         {"OUTSIDE_VALID_PERIOD", "ENVIRONMENT_NOT_ALLOWED", "OPERATION_BLOCKED"}
  BY DEF GateChecks
<1> HIDE DEF checks
<1> QED
  BY <1>1, <1>2, FirstFailureFails DEF checks

-----------------------------------------------------------------------------

(***************************************************************************)
(* What an action does to the threads it is not an action of.              *)
(***************************************************************************)
Shape ==
    /\ pc \in [Threads -> Pcs]
    /\ outcome \in [Threads -> Outcomes]
    /\ call \in [Threads -> Calls \cup {None}]
    /\ DOMAIN held = Threads

\* Where a call is before its decision is fixed.
Undecided == {"kill_flag", "kill_env", "quarantine", "gates", "permission",
              "rate_global", "rate_tool", "hooks", "approval", "approval_mode"}

(***************************************************************************)
(* The inductive invariant: each check a call has passed has seen its      *)
(* condition false at some moment of the call, so the condition is no      *)
(* longer among those held.                                                *)
(***************************************************************************)
PastFlag(t) ==
    \/ pc[t] \in Undecided \ {"kill_flag"}
    \/ pc[t] = "return" /\ outcome[t] # "KILL_SWITCH_ACTIVE"

PastEnv(t) ==
    \/ pc[t] \in Undecided \ {"kill_flag", "kill_env"}
    \/ pc[t] = "return" /\ outcome[t] # "KILL_SWITCH_ACTIVE"

PastQuarantine(t) ==
    \/ pc[t] \in Undecided \ {"kill_flag", "kill_env", "quarantine"}
    \/ /\ pc[t] = "return"
       /\ outcome[t] \notin {"KILL_SWITCH_ACTIVE", "AGENT_QUARANTINED"}

PastHuman(t) ==
    pc[t] = "approval_mode" \/ (pc[t] = "return" /\ outcome[t] = "ALLOW")

Passed(t) ==
    /\ PastFlag(t) => "flag" \notin held[t]
    /\ PastEnv(t) => "env" \notin held[t]
    /\ PastQuarantine(t) => "quarantined" \notin held[t]
    /\ PastHuman(t) => "human" \notin held[t]
    /\ pc[t] = "return" /\ outcome[t] = "ALLOW" =>
           ("recommend" \in held[t] => call[t].mode = READ_ONLY)

DecisionInv == Shape /\ \A t \in Threads : Passed(t)

LEMMA InForceMembers ==
    ASSUME UNCHANGED settings
    PROVE  /\ "flag" \in InForce' <=> killFlag
           /\ "env" \in InForce' <=> (KillSwitchEnv /\ processEnv)
           /\ "quarantined" \in InForce' <=> Quarantined
           /\ "human" \in InForce' <=> autonomy = HUMAN_APPROVAL_REQUIRED
           /\ "recommend" \in InForce' <=> autonomy = RECOMMEND_ONLY
BY DEF InForce, Conditions, settings, Quarantined

LEMMA Observed ==
    ASSUME Observe, NEW t \in Threads
    PROVE  /\ pc[t] # "idle" => held'[t] \subseteq held[t] \cap InForce'
           /\ DOMAIN held' = Threads
BY DEF Observe, At

(***************************************************************************)
(* A step that leaves t's own pc, outcome and call alone keeps what t has  *)
(* passed.                                                                 *)
(***************************************************************************)
LEMMA UntouchedKeeps ==
    ASSUME NEW t \in Threads, Passed(t), Observe,
           pc'[t] = pc[t], outcome'[t] = outcome[t], call'[t] = call[t]
    PROVE  Passed(t)'
<1>1. CASE pc[t] = "idle"
  BY <1>1 DEF Passed, PastFlag, PastEnv, PastQuarantine, PastHuman, Undecided
<1>2. CASE pc[t] # "idle"
  <2>1. held'[t] \subseteq held[t]
    BY <1>2, Observed
  <2> QED
    BY <2>1 DEF Passed, PastFlag, PastEnv, PastQuarantine, PastHuman, Undecided
<1> QED
  BY <1>1, <1>2

(***************************************************************************)
(* The next place and the decision of the thread that takes a step; its    *)
(* call changes only when it begins.                                       *)
(***************************************************************************)
Moves(u, label, decision) ==
    /\ pc' = [pc EXCEPT ![u] = label]
    /\ outcome' = [outcome EXCEPT ![u] = decision]

LEMMA GotoMoves ==
    ASSUME Shape, NEW u \in Threads, NEW label, Goto(u, label)
    PROVE  Moves(u, label, outcome[u])
BY DEF Goto, Moves, Shape

LEMMA DecidedMoves ==
    ASSUME NEW u, NEW d, Decided(u, d)
    PROVE  Moves(u, "return", d)
BY DEF Decided, Moves

LEMMA OthersKeep ==
    ASSUME DecisionInv, NEW u \in Threads, NEW label \in Pcs, NEW d \in Outcomes,
           Moves(u, label, d), call' = call, Observe, Passed(u)'
    PROVE  DecisionInv'
<1>1. Shape'
  BY Observed DEF DecisionInv, Shape, Moves, Observe
<1>2. ASSUME NEW t \in Threads, t # u PROVE Passed(t)'
  <2>1. pc'[t] = pc[t] /\ outcome'[t] = outcome[t] /\ call'[t] = call[t]
    BY <1>2 DEF DecisionInv, Shape, Moves
  <2> QED
    BY <2>1, UntouchedKeeps DEF DecisionInv
<1> QED
  BY <1>1, <1>2 DEF DecisionInv

(***************************************************************************)
(* A step of thread u within its call: what it held before, less what is   *)
(* not in force now.                                                       *)
(***************************************************************************)
LEMMA StillHeld ==
    ASSUME DecisionInv, NEW u \in Threads, pc[u] # "idle", UNCHANGED settings, Observe
    PROVE  /\ held'[u] \subseteq held[u]
           /\ ~killFlag => "flag" \notin held'[u]
           /\ ~(KillSwitchEnv /\ processEnv) => "env" \notin held'[u]
           /\ ~Quarantined => "quarantined" \notin held'[u]
           /\ autonomy # HUMAN_APPROVAL_REQUIRED => "human" \notin held'[u]
           /\ autonomy # RECOMMEND_ONLY => "recommend" \notin held'[u]
BY Observed, InForceMembers

(***************************************************************************)
(* The first reads of a call, each followed by the next place or a denial. *)
(***************************************************************************)
LEMMA FirstReadsKeep ==
    ASSUME DecisionInv, Observe, NEW u \in Threads,
           ReadKillFlag(u) \/ ReadKillEnv(u) \/ CheckQuarantine(u)
    PROVE  DecisionInv'
<1> USE DEF PastFlag, PastEnv, PastQuarantine, PastHuman, Undecided, At
<1>1. call' = call /\ UNCHANGED settings /\ pc[u] # "idle"
  BY DEF ReadKillFlag, ReadKillEnv, CheckQuarantine, locals
<1>2. /\ Passed(u) /\ Shape /\ outcome[u] \in Outcomes
      /\ KillSwitchEnv \in BOOLEAN
  BY BoundaryAssumption DEF DecisionInv, Shape
<1>3. CASE ReadKillFlag(u)
  <2>1. CASE killFlag
    <3>1. Moves(u, "return", "KILL_SWITCH_ACTIVE")
      BY <1>3, <2>1, DecidedMoves DEF ReadKillFlag
    <3>2. Passed(u)'
      BY <1>2, <3>1 DEF Passed, Moves, Shape
    <3> QED
      BY <1>1, <3>1, <3>2, OthersKeep DEF Pcs, Outcomes, Decisions
  <2>2. CASE ~killFlag
    <3> DEFINE next == IF KillSwitchEnv THEN "kill_env" ELSE "quarantine"
    <3>1. Moves(u, next, outcome[u]) /\ next \in Pcs
      BY <1>2, <1>3, <2>2, GotoMoves DEF ReadKillFlag, Pcs
    <3>2. "flag" \notin held'[u] /\ (next = "quarantine" => "env" \notin held'[u])
      BY <1>1, <1>2, <2>2, StillHeld
    <3>3. Passed(u)'
      BY <1>2, <3>1, <3>2 DEF Passed, Moves, Shape
    <3> QED
      BY <1>1, <1>2, <3>1, <3>3, OthersKeep
  <2> QED
    BY <2>1, <2>2
<1>4. CASE ReadKillEnv(u)
  <2>1. CASE processEnv
    <3>1. Moves(u, "return", "KILL_SWITCH_ACTIVE")
      BY <1>4, <2>1, DecidedMoves DEF ReadKillEnv
    <3>2. Passed(u)'
      BY <1>2, <3>1 DEF Passed, Moves, Shape
    <3> QED
      BY <1>1, <3>1, <3>2, OthersKeep DEF Pcs, Outcomes, Decisions
  <2>2. CASE ~processEnv
    <3>1. Moves(u, "quarantine", outcome[u])
      BY <1>2, <1>4, <2>2, GotoMoves DEF ReadKillEnv
    <3>2. "flag" \notin held'[u] /\ "env" \notin held'[u]
      BY <1>1, <1>2, <1>4, <2>2, StillHeld DEF Passed, ReadKillEnv
    <3>3. Passed(u)'
      BY <1>2, <3>1, <3>2 DEF Passed, Moves, Shape
    <3> QED
      BY <1>1, <1>2, <3>1, <3>3, OthersKeep DEF Pcs
  <2> QED
    BY <2>1, <2>2
<1>5. CASE CheckQuarantine(u)
  <2>1. "flag" \notin held'[u] /\ "env" \notin held'[u]
    BY <1>1, <1>2, <1>5, StillHeld DEF Passed, CheckQuarantine
  <2>2. CASE Quarantined
    <3>1. Moves(u, "return", "AGENT_QUARANTINED")
      BY <1>5, <2>2, DecidedMoves DEF CheckQuarantine
    <3>2. Passed(u)'
      BY <1>2, <2>1, <3>1 DEF Passed, Moves, Shape
    <3> QED
      BY <1>1, <3>1, <3>2, OthersKeep DEF Pcs, Outcomes, Decisions
  <2>3. CASE ~Quarantined
    <3>1. Moves(u, "gates", outcome[u])
      BY <1>2, <1>5, <2>3, GotoMoves DEF CheckQuarantine
    <3>2. "quarantined" \notin held'[u]
      BY <1>1, <2>3, StillHeld
    <3>3. Passed(u)'
      BY <1>2, <2>1, <3>1, <3>2 DEF Passed, Moves, Shape
    <3> QED
      BY <1>1, <1>2, <3>1, <3>3, OthersKeep DEF Pcs
  <2> QED
    BY <2>2, <2>3
<1> QED
  BY <1>3, <1>4, <1>5

(***************************************************************************)
(* Between quarantine and approval a step goes on, or ends in a denial.    *)
(***************************************************************************)
Middle == {"gates", "permission", "rate_global", "rate_tool", "hooks"}

LEMMA MiddleMoveKeeps ==
    ASSUME DecisionInv, Observe, NEW u \in Threads, pc[u] \in Middle,
           NEW label, NEW d, Moves(u, label, d), call' = call,
           \/ label \in Middle \cup {"approval"} /\ d = outcome[u]
           \/ label = "return" /\ d \in Outcomes \ {"ALLOW"}
    PROVE  DecisionInv'
<1> USE DEF PastFlag, PastEnv, PastQuarantine, PastHuman, Undecided, Middle
<1>1. Passed(u) /\ Shape /\ outcome[u] \in Outcomes
  BY DEF DecisionInv, Shape
<1>2. held'[u] \subseteq held[u]
  BY Observed
<1>3. \A c \in {"flag", "env", "quarantined"} : c \notin held'[u]
  BY <1>1, <1>2 DEF Passed
<1>4. Passed(u)'
  BY <1>1, <1>3 DEF Passed, Moves, Shape
<1>5. label \in Pcs /\ d \in Outcomes
  BY <1>1 DEF Pcs
<1> QED
  BY <1>4, <1>5, OthersKeep

LEMMA MiddleGotoKeeps ==
    ASSUME DecisionInv, Observe, NEW u \in Threads, pc[u] \in Middle,
           NEW label \in Middle \cup {"approval"}, Goto(u, label), call' = call
    PROVE  DecisionInv'
<1>1. Moves(u, label, outcome[u])
  BY GotoMoves DEF DecisionInv
<1> QED
  BY <1>1, MiddleMoveKeeps

LEMMA MiddleDenialKeeps ==
    ASSUME DecisionInv, Observe, NEW u \in Threads, pc[u] \in Middle,
           NEW d \in Outcomes \ {"ALLOW"}, Decided(u, d), call' = call
    PROVE  DecisionInv'
<1>1. Moves(u, "return", d)
  BY DecidedMoves
<1> QED
  BY <1>1, MiddleMoveKeeps

LEMMA MiddleStepsKeep ==
    ASSUME DecisionInv, Observe, NEW u \in Threads,
           \/ CheckGates(u) \/ CheckPermission(u) \/ CheckGlobalRate(u)
           \/ CheckToolRate(u) \/ RunHook(u) \/ HooksDone(u)
    PROVE  DecisionInv'
<1>1. call' = call /\ pc[u] \in Middle
  BY DEF CheckGates, CheckPermission, CheckGlobalRate, CheckToolRate, RunHook,
         HooksDone, locals, At, Middle
<1>2. CASE CheckGates(u)
  <2> DEFINE failure == FirstFailure(GateChecks(call[u]))
  <2>1. failure \in Outcomes \ {"ALLOW"}
    <3>1. failure \in {None, "OUTSIDE_VALID_PERIOD", "ENVIRONMENT_NOT_ALLOWED",
                        "OPERATION_BLOCKED"}
      BY GateIsAReason
    <3> HIDE DEF failure
    <3> QED
      BY <3>1, NoneIsNoOutcome DEF Outcomes, Decisions, PermissionReasons
  <2>2. Decided(u, failure) \/ Goto(u, "permission")
    BY <1>2 DEF CheckGates
  <2> HIDE DEF failure
  <2> QED
    BY <1>1, <2>1, <2>2, MiddleGotoKeeps, MiddleDenialKeeps DEF Middle
<1>3. CASE CheckPermission(u)
  <2> DEFINE p == permissions[call[u].tool]
             failure == IF p = None THEN "TOOL_NOT_ALLOWED"
                        ELSE PermissionVerdict(StrictLimits, p, call[u])
  <2>1. failure \in Outcomes \ {"ALLOW"}
    <3>1. failure \in PermissionReasons \cup {None, "TOOL_NOT_ALLOWED"}
      BY VerdictIsAReason
    <3> HIDE DEF failure
    <3> QED
      BY <3>1, NoneIsNoOutcome DEF Outcomes, Decisions, PermissionReasons
  <2>2. Decided(u, failure) \/ Goto(u, "rate_global")
    BY <1>3 DEF CheckPermission
  <2> HIDE DEF failure
  <2> QED
    BY <1>1, <2>1, <2>2, MiddleGotoKeeps, MiddleDenialKeeps DEF Middle
<1>4. CASE CheckGlobalRate(u)
  <2>1. Goto(u, "rate_tool") \/ Decided(u, "GLOBAL_RATE_LIMIT_EXCEEDED")
    BY <1>4 DEF CheckGlobalRate
  <2> QED
    BY <1>1, <2>1, MiddleGotoKeeps, MiddleDenialKeeps DEF Middle, Outcomes, Decisions
<1>5. CASE CheckToolRate(u)
  <2>1. Goto(u, "hooks") \/ Decided(u, "TOOL_RATE_LIMIT_EXCEEDED")
    BY <1>5 DEF CheckToolRate
  <2> QED
    BY <1>1, <2>1, MiddleGotoKeeps, MiddleDenialKeeps DEF Middle, Outcomes, Decisions
<1>6. CASE RunHook(u)
  <2>1. Goto(u, "hooks") \/ Decided(u, "POLICY_HOOK_DENIED")
    BY <1>6 DEF RunHook
  <2> QED
    BY <1>1, <2>1, MiddleGotoKeeps, MiddleDenialKeeps DEF Middle, Outcomes, Decisions
<1>7. CASE HooksDone(u)
  <2>1. Goto(u, "approval")
    BY <1>7 DEF HooksDone
  <2> QED
    BY <1>1, <2>1, MiddleGotoKeeps
<1> QED
  BY <1>2, <1>3, <1>4, <1>5, <1>6, <1>7

(***************************************************************************)
(* The two reads of the autonomy level for approval.                       *)
(***************************************************************************)
LEMMA ApprovalKeeps ==
    ASSUME DecisionInv, Observe, NEW u \in Threads,
           CheckApproval(u) \/ CheckApprovalMode(u)
    PROVE  DecisionInv'
<1> USE DEF PastFlag, PastEnv, PastQuarantine, PastHuman, Undecided, At
<1>1. call' = call /\ UNCHANGED settings /\ pc[u] # "idle"
  BY DEF CheckApproval, CheckApprovalMode, locals
<1>2. Passed(u) /\ Shape /\ outcome[u] \in Outcomes
  BY DEF DecisionInv, Shape
<1>3. \A c \in {"flag", "env", "quarantined"} : c \notin held'[u]
  BY <1>1, <1>2, StillHeld DEF Passed, CheckApproval, CheckApprovalMode
<1>4. ASSUME Decided(u, "APPROVAL_REQUIRED") PROVE DecisionInv'
  <2>1. Moves(u, "return", "APPROVAL_REQUIRED")
    BY <1>4, DecidedMoves
  <2>2. Passed(u)'
    BY <1>2, <1>3, <2>1 DEF Passed, Moves, Shape
  <2> QED
    BY <1>1, <2>1, <2>2, OthersKeep DEF Pcs, Outcomes, Decisions
<1>5. CASE CheckApproval(u)
  <2>1. ASSUME ~Decided(u, "APPROVAL_REQUIRED") PROVE DecisionInv'
    <3>1. Goto(u, "approval_mode") /\ autonomy # HUMAN_APPROVAL_REQUIRED
      BY <1>5, <2>1 DEF CheckApproval
    <3>2. Moves(u, "approval_mode", outcome[u])
      BY <1>2, <3>1, GotoMoves
    <3>3. "human" \notin held'[u]
      BY <1>1, <3>1, StillHeld
    <3>4. Passed(u)'
      BY <1>2, <1>3, <3>2, <3>3 DEF Passed, Moves, Shape
    <3> QED
      BY <1>1, <1>2, <3>2, <3>4, OthersKeep DEF Pcs
  <2> QED
    BY <1>4, <2>1
<1>6. CASE CheckApprovalMode(u)
  <2>1. ASSUME ~Decided(u, "APPROVAL_REQUIRED") PROVE DecisionInv'
    <3>1. /\ Decided(u, "ALLOW")
          /\ autonomy # RECOMMEND_ONLY \/ call[u].mode = READ_ONLY
      BY <1>6, <2>1 DEF CheckApprovalMode
    <3>2. Moves(u, "return", "ALLOW")
      BY <3>1, DecidedMoves
    <3>3. "human" \notin held'[u]
      BY <1>1, <1>2, <1>6, StillHeld DEF Passed, CheckApprovalMode
    <3>4. "recommend" \in held'[u] => call'[u].mode = READ_ONLY
      BY <1>1, <3>1, StillHeld
    <3>5. Passed(u)'
      BY <1>2, <1>3, <3>2, <3>3, <3>4 DEF Passed, Moves, Shape
    <3> QED
      BY <1>1, <3>2, <3>5, OthersKeep DEF Pcs, Outcomes, Decisions
  <2> QED
    BY <1>4, <2>1
<1> QED
  BY <1>5, <1>6

(***************************************************************************)
(* The ends of a call, where nothing has been passed, and the host's steps.*)
(***************************************************************************)
LEMMA ReturnKeeps ==
    ASSUME DecisionInv, Observe, NEW u \in Threads, Return(u)
    PROVE  DecisionInv'
<1>1. Moves(u, "idle", outcome[u]) /\ call' = call
  BY GotoMoves DEF Return, DecisionInv, locals
<1>2. Shape /\ outcome[u] \in Outcomes
  BY DEF DecisionInv, Shape
<1>3. Passed(u)'
  BY <1>1, <1>2 DEF Passed, Moves, Shape, PastFlag, PastEnv, PastQuarantine,
                    PastHuman, Undecided
<1> QED
  BY <1>1, <1>2, <1>3, OthersKeep DEF Pcs

LEMMA BeginCallKeeps ==
    ASSUME DecisionInv, Observe, NEW u \in Threads, BeginCall(u)
    PROVE  DecisionInv'
<1>1. /\ Shape
      /\ pc' = [pc EXCEPT ![u] = "kill_flag"]
      /\ outcome' = [outcome EXCEPT ![u] = None]
      /\ \E c \in Calls : call' = [call EXCEPT ![u] = c]
  BY DEF DecisionInv, BeginCall
<1>2. Shape'
  BY <1>1, Observed DEF Shape, Pcs, Outcomes, Decisions, Observe
<1>3. Passed(u)'
  BY <1>1 DEF Passed, Shape, PastFlag, PastEnv, PastQuarantine, PastHuman, Undecided
<1>4. ASSUME NEW t \in Threads, t # u PROVE Passed(t)'
  <2>1. pc'[t] = pc[t] /\ outcome'[t] = outcome[t] /\ call'[t] = call[t]
    BY <1>1, <1>4 DEF Shape
  <2> QED
    BY <2>1, UntouchedKeeps DEF DecisionInv
<1> QED
  BY <1>2, <1>3, <1>4 DEF DecisionInv

LEMMA HostStepKeeps ==
    ASSUME DecisionInv, Observe, HostStep
    PROVE  DecisionInv'
<1>1. pc' = pc /\ outcome' = outcome /\ call' = call
  BY DEF HostStep, EngageKillSwitch, DisengageKillSwitch, SetProcessEnv,
         AssignAutonomy, AddPermission, PeriodPasses,
         threadVars, locals
<1>2. Shape'
  BY <1>1 DEF DecisionInv, Shape, Observe
<1> QED
  BY <1>1, <1>2, UntouchedKeeps DEF DecisionInv

LEMMA StepKeeps ==
    DecisionInv /\ [Next]_vars => DecisionInv'
<1> SUFFICES ASSUME DecisionInv, [Next]_vars PROVE DecisionInv'
  OBVIOUS
<1>1. CASE UNCHANGED vars
  BY <1>1 DEF vars, locals, DecisionInv, Shape, Passed, PastFlag, PastEnv,
              PastQuarantine, PastHuman
<1>2. CASE Next
  <2>1. Observe /\ (HostStep \/ \E t \in Threads : ThreadStep(t))
    BY <1>2 DEF Next
  <2>2. ASSUME NEW u \in Threads, ThreadStep(u) PROVE DecisionInv'
    BY <2>1, <2>2, BeginCallKeeps, FirstReadsKeep, MiddleStepsKeep, ApprovalKeeps,
       ReturnKeeps DEF ThreadStep
  <2> QED
    BY <2>1, <2>2, HostStepKeeps
<1> QED
  BY <1>1, <1>2

LEMMA InitKeeps == Init => DecisionInv
BY DEF Init, DecisionInv, Shape, Passed, PastFlag, PastEnv, PastQuarantine,
       PastHuman, Undecided, Pcs, Outcomes, Decisions

(***************************************************************************)
(* In every reachable state the checks a call has passed have each been    *)
(* seen to be false since the call began.                                  *)
(***************************************************************************)
THEOREM ChecksSawTheirCondition == Spec => []DecisionInv
BY InitKeeps, StepKeeps, PTL DEF Spec

(***************************************************************************)
(* boundary.py 719-737: a kill switch or a quarantine that stands for the  *)
(* whole of a call decides it, for any number of threads, any calls and    *)
(* permissions and any other moves of the host.                            *)
(***************************************************************************)
THEOREM HaltDecides == Spec => []HaltIsFinal
<1>1. DecisionInv => HaltIsFinal
  BY DEF DecisionInv, Passed, PastFlag, PastEnv, PastQuarantine, HaltIsFinal, At
<1> QED
  BY <1>1, ChecksSawTheirCondition, PTL

(***************************************************************************)
(* boundary.py 940-956: a supervised level that stands for the whole of a  *)
(* call keeps it from being allowed, with the same generality.             *)
(***************************************************************************)
THEOREM SupervisionBinds == Spec => []SteadySupervisionBinds
<1>1. DecisionInv => SteadySupervisionBinds
  BY DEF DecisionInv, Passed, PastHuman, SteadySupervisionBinds, Returning, At
<1> QED
  BY <1>1, ChecksSawTheirCondition, PTL

-----------------------------------------------------------------------------

(***************************************************************************)
(* The type invariant, which is inductive as it stands.                    *)
(***************************************************************************)
LEMMA HeldTyped ==
    ASSUME TypeOK, Observe
    PROVE  held' \in [Threads -> SUBSET Conditions]
<1>1. InForce' \subseteq Conditions
  BY DEF InForce
<1> QED
  BY <1>1 DEF TypeOK, Observe

LEMMA GotoTyped ==
    ASSUME TypeOK, NEW t \in Threads, NEW label \in Pcs, Goto(t, label)
    PROVE  pc' \in [Threads -> Pcs] /\ outcome' \in [Threads -> Outcomes]
BY DEF TypeOK, Goto

LEMMA DecidedTyped ==
    ASSUME TypeOK, NEW t \in Threads, NEW d \in Outcomes, Decided(t, d)
    PROVE  pc' \in [Threads -> Pcs] /\ outcome' \in [Threads -> Outcomes]
BY DEF TypeOK, Decided, Pcs

LEMMA ThreadStepTyped ==
    ASSUME TypeOK, Observe, NEW t \in Threads, ThreadStep(t)
    PROVE  TypeOK'
<1> USE BoundaryAssumption, HeldTyped DEF TypeOK, settings, ledger, locals
<1>1. CASE BeginCall(t)
  BY <1>1 DEF BeginCall, Pcs, Outcomes
<1>2. CASE ReadKillFlag(t)
  <2>1. \/ Decided(t, "KILL_SWITCH_ACTIVE")
        \/ Goto(t, "kill_env") \/ Goto(t, "quarantine")
    BY <1>2 DEF ReadKillFlag
  <2> QED
    BY <1>2, <2>1, GotoTyped, DecidedTyped DEF ReadKillFlag, Pcs, Outcomes, Decisions
<1>3. CASE ReadKillEnv(t)
  BY <1>3, GotoTyped, DecidedTyped DEF ReadKillEnv, Pcs, Outcomes, Decisions
<1>4. CASE CheckQuarantine(t)
  BY <1>4, GotoTyped, DecidedTyped DEF CheckQuarantine, Pcs, Outcomes, Decisions
<1>5. CASE CheckGates(t)
  <2> DEFINE failure == FirstFailure(GateChecks(call[t]))
  <2>1. failure \in Outcomes
    <3>1. failure \in {None, "OUTSIDE_VALID_PERIOD", "ENVIRONMENT_NOT_ALLOWED",
                        "OPERATION_BLOCKED"}
      BY GateIsAReason
    <3> HIDE DEF failure
    <3> QED
      BY <3>1 DEF Outcomes, Decisions, PermissionReasons
  <2>2. Decided(t, failure) \/ Goto(t, "permission")
    BY <1>5 DEF CheckGates
  <2> HIDE DEF failure
  <2> QED
    BY <1>5, <2>1, <2>2, GotoTyped, DecidedTyped DEF CheckGates, Pcs
<1>6. CASE CheckPermission(t)
  <2> DEFINE p == permissions[call[t].tool]
             failure == IF p = None THEN "TOOL_NOT_ALLOWED"
                        ELSE PermissionVerdict(StrictLimits, p, call[t])
  <2>1. failure \in Outcomes
    <3>1. failure \in PermissionReasons \cup {None, "TOOL_NOT_ALLOWED"}
      BY VerdictIsAReason
    <3> HIDE DEF failure
    <3> QED
      BY <3>1 DEF Outcomes, Decisions
  <2>2. Decided(t, failure) \/ Goto(t, "rate_global")
    BY <1>6 DEF CheckPermission
  <2> HIDE DEF failure
  <2> QED
    BY <1>6, <2>1, <2>2, GotoTyped, DecidedTyped DEF CheckPermission, Pcs
<1>7. CASE CheckGlobalRate(t)
  <2>1. used' \in [Keys -> Nat]
    BY <1>7 DEF CheckGlobalRate, TakeSlot
  <2>2. Goto(t, "rate_tool") \/ Decided(t, "GLOBAL_RATE_LIMIT_EXCEEDED")
    BY <1>7 DEF CheckGlobalRate
  <2> QED
    BY <1>7, <2>1, <2>2, GotoTyped, DecidedTyped
       DEF CheckGlobalRate, Pcs, Outcomes, Decisions
<1>8. CASE CheckToolRate(t)
  <2>1. used' \in [Keys -> Nat]
    BY <1>8 DEF CheckToolRate, TakeSlot
  <2>2. Goto(t, "hooks") \/ Decided(t, "TOOL_RATE_LIMIT_EXCEEDED")
    BY <1>8 DEF CheckToolRate
  <2> QED
    BY <1>8, <2>1, <2>2, GotoTyped, DecidedTyped
       DEF CheckToolRate, Pcs, Outcomes, Decisions
<1>9. CASE RunHook(t)
  <2>1. hook' \in [Threads -> 0 .. Hooks]
    BY <1>9 DEF RunHook
  <2>2. Goto(t, "hooks") \/ Decided(t, "POLICY_HOOK_DENIED")
    BY <1>9 DEF RunHook
  <2> QED
    BY <1>9, <2>1, <2>2, GotoTyped, DecidedTyped DEF RunHook, Pcs, Outcomes, Decisions
<1>10. CASE HooksDone(t)
  BY <1>10, GotoTyped DEF HooksDone, Pcs
<1>11. CASE CheckApproval(t)
  BY <1>11, GotoTyped, DecidedTyped DEF CheckApproval, Pcs, Outcomes, Decisions
<1>12. CASE CheckApprovalMode(t)
  BY <1>12, DecidedTyped DEF CheckApprovalMode, Outcomes, Decisions
<1>13. CASE Return(t)
  <2> DEFINE d == DecisionOf(outcome[t])
  <2>1. \/ audited' = [audited EXCEPT ![d] = audited[d] + 1]
        \/ audited' = audited
    BY <1>13 DEF Return
  <2> HIDE DEF d
  <2>2. audited' \in [{"ALLOW", "DENY", "APPROVAL_REQUIRED"} -> Nat]
    BY <2>1
  <2>3. returned' \in [Keys -> Nat] /\ allowed' \in Nat
    BY <1>13 DEF Return
  <2> QED
    BY <1>13, <2>2, <2>3, GotoTyped DEF Return, Pcs
<1> QED
  BY <1>1, <1>2, <1>3, <1>4, <1>5, <1>6, <1>7, <1>8, <1>9, <1>10, <1>11, <1>12,
     <1>13 DEF ThreadStep

LEMMA HostStepTyped ==
    ASSUME TypeOK, Observe, HostStep
    PROVE  TypeOK'
<1> USE BoundaryAssumption, HeldTyped DEF TypeOK, threadVars, ledger, locals
<1>1. CASE EngageKillSwitch \/ DisengageKillSwitch \/ SetProcessEnv
  BY <1>1 DEF EngageKillSwitch, DisengageKillSwitch, SetProcessEnv
<1>2. CASE AssignAutonomy \/ PeriodPasses
  BY <1>2 DEF AssignAutonomy, PeriodPasses, Period
<1>3. CASE AddPermission
  <2>1. PICK a \in AddedPermissions : permissions' = [permissions EXCEPT ![a.tool] = a.perm]
    BY <1>3 DEF AddPermission
  <2>2. DOMAIN permissions' = DOMAIN permissions
    BY <2>1
  <2> QED
    BY <1>3, <2>2 DEF AddPermission
<1> QED
  BY <1>1, <1>2, <1>3 DEF HostStep

LEMMA TypeInit == Init => TypeOK
<1> SUFFICES ASSUME Init PROVE TypeOK
  OBVIOUS
<1> USE BoundaryAssumption DEF Init
<1>1. /\ {killFlag, processEnv} \subseteq BOOLEAN
      /\ autonomy \in AutonomyLevel
      /\ period \in Period
  OBVIOUS
<1>2. DOMAIN permissions = Tools
  OBVIOUS
<1>3. /\ used \in [Keys -> Nat]
      /\ audited \in [{"ALLOW", "DENY", "APPROVAL_REQUIRED"} -> Nat]
      /\ begun \in 0 .. CallBound
      /\ returned \in [Keys -> Nat] /\ allowed \in Nat
  OBVIOUS
<1>4. /\ pc \in [Threads -> Pcs]
      /\ api \in [Threads -> {"check", "evaluate"}]
      /\ call \in [Threads -> Calls \cup {None}]
      /\ hook \in [Threads -> 0 .. Hooks]
      /\ outcome \in [Threads -> Outcomes]
  BY DEF Pcs, Outcomes
<1>5. held \in [Threads -> SUBSET Conditions]
  BY DEF InForce
<1> QED
  BY <1>1, <1>2, <1>3, <1>4, <1>5 DEF TypeOK

LEMMA TypeStep == TypeOK /\ [Next]_vars => TypeOK'
<1> SUFFICES ASSUME TypeOK, [Next]_vars PROVE TypeOK'
  OBVIOUS
<1>1. CASE Next
  BY <1>1, ThreadStepTyped, HostStepTyped DEF Next
<1>2. CASE UNCHANGED vars
  BY <1>2 DEF vars, settings, ledger, locals, TypeOK
<1> QED
  BY <1>1, <1>2

(***************************************************************************)
(* Every variable keeps its type: no decision outside the documented ones, *)
(* no hook counted beyond the last, no place of a call that is not one.    *)
(***************************************************************************)
THEOREM TypeCorrect == Spec => []TypeOK
BY TypeInit, TypeStep, PTL DEF Spec

-----------------------------------------------------------------------------
(***************************************************************************)
(* Rate-limit slots.  Every slot is that of a call which has returned with *)
(* it or of a thread that is past the limit, and of those that returned    *)
(* some were allowed.                                                      *)
(***************************************************************************)
SlotInv ==
    /\ TypeOK
    /\ \A t \in Threads : pc[t] # "idle" => call[t] \in Calls
    /\ SlotAccounting
    /\ MaxActions # None => used[Global] <= MaxActions /\ allowed <= returned[Global]
    /\ DOMAIN ratePerm = Threads

LEMMA HoldersAreFinite ==
    ASSUME NEW S \in SUBSET Threads
    PROVE  IsFiniteSet(S) /\ Cardinality(S) \in Nat
BY BoundaryAssumption, FS_Subset, FS_CardinalityType

LEMMA OneHolderMore ==
    ASSUME NEW S \in SUBSET Threads, NEW t \in Threads, t \notin S
    PROVE  Cardinality(S \cup {t}) = Cardinality(S) + 1
BY HoldersAreFinite, FS_AddElement

(***************************************************************************)
(* A step of t leaves every other thread a holder or not, as it was.       *)
(***************************************************************************)
OthersStay(t) ==
    \A u \in Threads : u # t =>
        /\ pc'[u] = pc[u] /\ outcome'[u] = outcome[u]
        /\ call'[u] = call[u] /\ ratePerm'[u] = ratePerm[u]

LEMMA HoldersChange ==
    ASSUME NEW t \in Threads, OthersStay(t), NEW k
    PROVE  /\ (t \in Holders(k)' <=> t \in Holders(k)) => Holders(k)' = Holders(k)
           /\ t \notin Holders(k) /\ t \in Holders(k)' =>
                  Cardinality(Holders(k)') = Cardinality(Holders(k)) + 1
           /\ t \in Holders(k) /\ t \notin Holders(k)' =>
                  Cardinality(Holders(k)) = Cardinality(Holders(k)') + 1
           /\ Cardinality(Holders(k)) \in Nat /\ Cardinality(Holders(k)') \in Nat
<1>1. \A u \in Threads \ {t} : u \in Holders(k)' <=> u \in Holders(k)
  BY DEF OthersStay, Holders, At, Counts
<1>2. Holders(k) \in SUBSET Threads /\ Holders(k)' \in SUBSET Threads
  BY DEF Holders
<1>3. (t \in Holders(k)' <=> t \in Holders(k)) => Holders(k)' = Holders(k)
  BY <1>1, <1>2
<1>4. t \notin Holders(k) /\ t \in Holders(k)' => Holders(k)' = Holders(k) \cup {t}
  BY <1>1, <1>2
<1>5. t \in Holders(k) /\ t \notin Holders(k)' => Holders(k) = Holders(k)' \cup {t}
  BY <1>1, <1>2
<1>6. t \notin Holders(k) /\ t \in Holders(k)' =>
          Cardinality(Holders(k)') = Cardinality(Holders(k)) + 1
  BY <1>2, <1>4, OneHolderMore
<1>7. t \in Holders(k) /\ t \notin Holders(k)' =>
          Cardinality(Holders(k)) = Cardinality(Holders(k)') + 1
  BY <1>2, <1>5, OneHolderMore
<1> QED
  BY <1>2, <1>3, <1>6, <1>7, HoldersAreFinite

(***************************************************************************)
(* Before the limits, and after them until it returns, a call neither      *)
(* takes a slot nor becomes or ceases to be a holder.                      *)
(***************************************************************************)
Quiet(t) ==
    \/ BeginCall(t) \/ ReadKillFlag(t) \/ ReadKillEnv(t) \/ CheckQuarantine(t)
    \/ CheckGates(t) \/ CheckPermission(t) \/ RunHook(t) \/ HooksDone(t)
    \/ CheckApproval(t) \/ CheckApprovalMode(t)

LEMMA StepsOfOthers ==
    ASSUME TypeOK, DOMAIN ratePerm = Threads, NEW t \in Threads, ThreadStep(t)
    PROVE  /\ OthersStay(t) /\ DOMAIN ratePerm' = Threads
           /\ pc[t] # "idle" => call'[t] = call[t]
           /\ pc[t] = "idle" => call'[t] \in Calls
<1> USE DEF TypeOK, OthersStay, Goto, Decided, At, locals
<1>1. CASE BeginCall(t)
  BY <1>1 DEF BeginCall
<1>2. CASE ReadKillFlag(t) \/ ReadKillEnv(t) \/ CheckQuarantine(t)
  BY <1>2 DEF ReadKillFlag, ReadKillEnv, CheckQuarantine
<1>3. CASE CheckGates(t)
  BY <1>3 DEF CheckGates
<1>4. CASE CheckPermission(t)
  BY <1>4 DEF CheckPermission
<1>5. CASE CheckGlobalRate(t) \/ CheckToolRate(t)
  BY <1>5 DEF CheckGlobalRate, CheckToolRate
<1>6. CASE RunHook(t) \/ HooksDone(t) \/ CheckApproval(t) \/ CheckApprovalMode(t) \/ Return(t)
  BY <1>6 DEF RunHook, HooksDone, CheckApproval, CheckApprovalMode, Return
<1> QED
  BY <1>1, <1>2, <1>3, <1>4, <1>5, <1>6 DEF ThreadStep

\* A decision taken before the limits is none of those taken past them.
LEMMA EarlyIsNotPast ==
    ASSUME TypeOK, NEW t \in Threads, NEW k, NEW d, Decided(t, d), d \notin PastRate(k)
    PROVE  t \notin Holders(k)'
BY DEF TypeOK, Decided, Holders, At, RateDone

LEMMA QuietKeepsHolders ==
    ASSUME SlotInv, NEW t \in Threads, Quiet(t), NEW k
    PROVE  Holders(k)' = Holders(k)
<1> USE DEF SlotInv
<1>1. OthersStay(t) /\ (pc[t] # "idle" => call'[t] = call[t])
  BY StepsOfOthers DEF Quiet, ThreadStep
<1> SUFFICES t \in Holders(k)' <=> t \in Holders(k)
  BY <1>1, HoldersChange
<1> USE DEF TypeOK, RateDone, PastRate, PastToolRate, At
<1>2. CASE BeginCall(t)
  BY <1>2 DEF BeginCall, Holders
<1>3. CASE ReadKillFlag(t) \/ ReadKillEnv(t) \/ CheckQuarantine(t)
  <2>1. t \notin Holders(k)
    BY <1>3 DEF ReadKillFlag, ReadKillEnv, CheckQuarantine, Holders
  <2>2. \/ \E d \in {"KILL_SWITCH_ACTIVE", "AGENT_QUARANTINED"} : Decided(t, d)
        \/ \E label \in {"kill_env", "quarantine", "gates"} : Goto(t, label)
    BY <1>3 DEF ReadKillFlag, ReadKillEnv, CheckQuarantine
  <2>3. t \notin Holders(k)'
    BY <2>2, EarlyIsNotPast DEF Goto, Holders
  <2> QED
    BY <2>1, <2>3
<1>4. CASE CheckGates(t)
  <2> DEFINE failure == FirstFailure(GateChecks(call[t]))
  <2>1. failure # None => failure \notin PastRate(k)
    <3>1. failure \in {None, "OUTSIDE_VALID_PERIOD", "ENVIRONMENT_NOT_ALLOWED",
                        "OPERATION_BLOCKED"}
      BY GateIsAReason
    <3> HIDE DEF failure
    <3> QED
      BY <3>1
  <2>2. (failure # None /\ Decided(t, failure)) \/ Goto(t, "permission")
    BY <1>4 DEF CheckGates
  <2>3. t \notin Holders(k)
    BY <1>4 DEF CheckGates, Holders
  <2> HIDE DEF failure
  <2>4. t \notin Holders(k)'
    BY <2>1, <2>2, EarlyIsNotPast DEF Goto, Holders
  <2> QED
    BY <2>3, <2>4
<1>5. CASE CheckPermission(t)
  <2> DEFINE p == permissions[call[t].tool]
             failure == IF p = None THEN "TOOL_NOT_ALLOWED"
                        ELSE PermissionVerdict(StrictLimits, p, call[t])
  <2>1. failure # None => failure \notin PastRate(k)
    <3>1. failure \in PermissionReasons \cup {None, "TOOL_NOT_ALLOWED"}
      BY VerdictIsAReason
    <3> HIDE DEF failure
    <3> QED
      BY <3>1 DEF PermissionReasons
  <2>2. (failure # None /\ Decided(t, failure)) \/ Goto(t, "rate_global")
    BY <1>5 DEF CheckPermission
  <2>3. t \notin Holders(k)
    BY <1>5 DEF CheckPermission, Holders
  <2> HIDE DEF failure
  <2>4. t \notin Holders(k)'
    BY <2>1, <2>2, EarlyIsNotPast DEF Goto, Holders
  <2> QED
    BY <2>3, <2>4
<1>6. CASE RunHook(t) \/ HooksDone(t) \/ CheckApproval(t) \/ CheckApprovalMode(t)
  <2>1. pc[t] \in {"hooks", "approval", "approval_mode"}
    BY <1>6 DEF RunHook, HooksDone, CheckApproval, CheckApprovalMode
  <2>2. \/ \E d \in PastToolRate : Decided(t, d)
        \/ \E label \in {"hooks", "approval", "approval_mode"} : Goto(t, label)
    BY <1>6 DEF RunHook, HooksDone, CheckApproval, CheckApprovalMode
  <2>3. call'[t] = call[t] /\ ratePerm'[t] = ratePerm[t]
    BY <1>1, <1>6, <2>1 DEF RunHook, HooksDone, CheckApproval, CheckApprovalMode, locals
  <2>4. /\ pc'[t] \in {"hooks", "approval", "approval_mode", "return"}
        /\ pc'[t] = "return" => outcome'[t] \in PastToolRate
    BY <2>2 DEF Goto, Decided
  <2> QED
    BY <2>1, <2>3, <2>4 DEF Holders, Counts
<1> QED
  BY <1>2, <1>3, <1>4, <1>5, <1>6 DEF Quiet

LEMMA QuietKeepsSlots ==
    ASSUME SlotInv, NEW t \in Threads, Quiet(t)
    PROVE  used' = used /\ returned' = returned /\ allowed' = allowed
BY DEF Quiet, BeginCall, ReadKillFlag, ReadKillEnv, CheckQuarantine, CheckGates,
       CheckPermission, RunHook, HooksDone, CheckApproval, CheckApprovalMode, ledger

(***************************************************************************)
(* Past the global limit a thread holds a slot of it, and past its tool's  *)
(* one of that, if there is a limit; to be denied takes none.              *)
(***************************************************************************)
LEMMA GlobalRateCounts ==
    ASSUME SlotInv, NEW t \in Threads, CheckGlobalRate(t)
    PROVE  /\ SlotAccounting'
           /\ MaxActions # None => used'[Global] <= MaxActions
<1> USE DEF SlotInv, TypeOK, RateDone, PastRate, PastToolRate, At
<1>1. OthersStay(t) /\ call'[t] = call[t] /\ pc[t] = "rate_global"
  BY StepsOfOthers DEF ThreadStep, CheckGlobalRate
<1>2. /\ returned' = returned /\ Global \in Keys
      /\ used \in [Keys -> Nat] /\ returned \in [Keys -> Nat]
  BY DEF CheckGlobalRate, ledger, Keys
<1>3. \A k \in Keys : Cardinality(Holders(k)) \in Nat /\ Cardinality(Holders(k)') \in Nat
  BY <1>1, HoldersChange
<1>4. \A k \in Keys : t \notin Holders(k)
  BY <1>1 DEF Holders
<1>5. ASSUME NEW k \in Keys, k # Global
      PROVE  used'[k] = returned'[k] + Cardinality(Holders(k)')
  <2>1. used'[k] = used[k]
    BY <1>2, <1>5 DEF CheckGlobalRate, TakeSlot
  <2>2. t \notin Holders(k)'
    BY <1>5 DEF CheckGlobalRate, Goto, Decided, Holders
  <2>3. Holders(k)' = Holders(k)
    BY <1>1, <1>4, <2>2, HoldersChange
  <2> QED
    BY <1>2, <2>1, <2>3 DEF SlotAccounting
<1>6. used[Global] = returned[Global] + Cardinality(Holders(Global))
  BY <1>2 DEF SlotAccounting
<1>7. ASSUME used' = used, t \notin Holders(Global)'
      PROVE  SlotAccounting' /\ (MaxActions # None => used'[Global] <= MaxActions)
  <2>1. Holders(Global)' = Holders(Global)
    BY <1>1, <1>2, <1>4, <1>7, HoldersChange
  <2>2. used'[Global] = returned'[Global] + Cardinality(Holders(Global)')
    BY <1>2, <1>6, <1>7, <2>1
  <2> QED
    BY <1>5, <1>7, <2>2 DEF SlotAccounting
<1>8. CASE MaxActions = None
  <2>1. used' = used
    BY <1>8 DEF CheckGlobalRate
  <2>2. t \notin Holders(Global)'
    <3>1. ~Counts(t, Global)'
      BY <1>1, <1>8, BoundaryAssumption DEF Counts
    <3> QED
      BY <3>1 DEF Holders
  <2> QED
    BY <1>7, <2>1, <2>2
<1>9. CASE MaxActions # None /\ Goto(t, "rate_tool")
  <2>1. t \in Holders(Global)'
    BY <1>9 DEF Goto, Holders, Counts
  <2>2. Cardinality(Holders(Global)') = Cardinality(Holders(Global)) + 1
    BY <1>1, <1>2, <1>4, <2>1, HoldersChange
  <2>3. used[Global] < MaxActions /\ used' = [used EXCEPT ![Global] = @ + 1]
    BY <1>9 DEF CheckGlobalRate, TakeSlot, HasSlot, Goto, Decided
  <2>4. used'[Global] = used[Global] + 1 /\ MaxActions \in Nat
    BY <1>2, <1>9, <2>3, BoundaryAssumption
  <2>5. used'[Global] = returned'[Global] + Cardinality(Holders(Global)')
    BY <1>2, <1>3, <1>6, <2>2, <2>4
  <2>6. used'[Global] <= MaxActions
    BY <1>2, <2>3, <2>4
  <2> QED
    BY <1>5, <2>5, <2>6 DEF SlotAccounting
<1>10. CASE MaxActions # None /\ ~Goto(t, "rate_tool")
  <2>1. used' = used /\ Decided(t, "GLOBAL_RATE_LIMIT_EXCEEDED")
    BY <1>10 DEF CheckGlobalRate
  <2> QED
    BY <1>7, <2>1, EarlyIsNotPast
<1> QED
  BY <1>8, <1>9, <1>10

LEMMA ToolRateCounts ==
    ASSUME SlotInv, NEW t \in Threads, CheckToolRate(t)
    PROVE  SlotAccounting' /\ used'[Global] = used[Global]
<1> USE DEF SlotInv, TypeOK, RateDone, PastRate, PastToolRate, At
<1>1. /\ OthersStay(t) /\ call'[t] = call[t] /\ pc[t] = "rate_tool" /\ call[t] \in Calls
      /\ ratePerm' = ratePerm
  BY StepsOfOthers DEF ThreadStep, CheckToolRate, locals
<1>0. PICK tool : tool = call[t].tool
  OBVIOUS
<1>2. /\ returned' = returned /\ Global \in Keys /\ tool \in Keys /\ tool # Global
      /\ used \in [Keys -> Nat] /\ returned \in [Keys -> Nat]
  BY <1>1, <1>0, BoundaryAssumption DEF CheckToolRate, ledger, Keys
<1>3. \A k \in Keys : Cardinality(Holders(k)) \in Nat /\ Cardinality(Holders(k)') \in Nat
  BY <1>1, HoldersChange
<1>4. \/ /\ used' = used /\ Decided(t, "TOOL_RATE_LIMIT_EXCEEDED")
      \/ /\ used' = used /\ Goto(t, "hooks") /\ ~Counts(t, tool)
      \/ /\ used' = [used EXCEPT ![tool] = @ + 1] /\ Goto(t, "hooks") /\ Counts(t, tool)
  BY <1>0, <1>2 DEF CheckToolRate, TakeSlot, Counts
<1>5. Goto(t, "hooks") \/ Decided(t, "TOOL_RATE_LIMIT_EXCEEDED")
  BY <1>4
<1>6. Holders(Global)' = Holders(Global)
  <2>1. t \in Holders(Global)' <=> t \in Holders(Global)
    BY <1>1, <1>5 DEF Goto, Decided, Holders, Counts
  <2> QED
    BY <1>1, <2>1, HoldersChange
<1>7. ASSUME NEW k \in Keys, k # Global, k # tool
      PROVE  Holders(k)' = Holders(k) /\ used'[k] = used[k]
  <2>1. t \notin Holders(k) /\ t \notin Holders(k)'
    BY <1>1, <1>7, <1>0 DEF Holders, Counts
  <2>2. Holders(k)' = Holders(k)
    BY <1>1, <2>1, HoldersChange
  <2>3. used'[k] = used[k]
    BY <1>2, <1>4, <1>7
  <2> QED
    BY <2>2, <2>3
<1>8. used'[tool] = returned'[tool] + Cardinality(Holders(tool)')
  <2>1. used[tool] = returned[tool] + Cardinality(Holders(tool))
    BY <1>2 DEF SlotAccounting
  <2>2. t \notin Holders(tool)
    BY <1>1, <1>2 DEF Holders
  <2>3. CASE Goto(t, "hooks") /\ Counts(t, tool) /\ used' = [used EXCEPT ![tool] = @ + 1]
    <3>1. t \in Holders(tool)'
      BY <1>1, <2>3 DEF Goto, Holders, Counts
    <3>2. Cardinality(Holders(tool)') = Cardinality(Holders(tool)) + 1
      BY <1>1, <2>2, <3>1, HoldersChange
    <3>3. used'[tool] = used[tool] + 1
      BY <1>2, <2>3
    <3>4. used[tool] \in Nat /\ returned[tool] \in Nat /\ returned'[tool] = returned[tool]
      BY <1>2
    <3>5. Cardinality(Holders(tool)) \in Nat
      BY <1>2, <1>3
    <3> QED
      BY <2>1, <3>2, <3>3, <3>4, <3>5
  <2>4. CASE /\ used' = used
             /\ \/ Goto(t, "hooks") /\ ~Counts(t, tool)
                \/ Decided(t, "TOOL_RATE_LIMIT_EXCEEDED")
    <3>1. t \notin Holders(tool)'
      <4>1. CASE ~Counts(t, tool)
        <5>1. ~Counts(t, tool)'
          BY <1>1, <4>1 DEF Counts
        <5> QED
          BY <5>1 DEF Holders
      <4>2. CASE Decided(t, "TOOL_RATE_LIMIT_EXCEEDED")
        <5>1. pc'[t] = "return" /\ outcome'[t] = "TOOL_RATE_LIMIT_EXCEEDED"
          BY <4>2 DEF Decided
        <5> QED
          BY <1>2, <5>1 DEF Holders
      <4> QED
        BY <2>4, <4>1, <4>2
    <3>2. Holders(tool)' = Holders(tool)
      BY <1>1, <2>2, <3>1, HoldersChange
    <3> QED
      BY <1>2, <2>1, <2>4, <3>2
  <2> QED
    BY <1>4, <2>3, <2>4
<1>9. used'[Global] = used[Global]
  BY <1>2, <1>4
<1>10. ASSUME NEW k \in Keys
       PROVE  used'[k] = returned'[k] + Cardinality(Holders(k)')
  <2>1. used[k] = returned[k] + Cardinality(Holders(k))
    BY DEF SlotAccounting
  <2>2. CASE k = tool
    BY <1>8, <2>2
  <2>3. CASE k # tool
    <3>1. used'[k] = used[k] /\ Holders(k)' = Holders(k)
      BY <1>6, <1>7, <1>9, <2>3
    <3> QED
      BY <1>2, <2>1, <3>1
  <2> QED
    BY <2>2, <2>3
<1> QED
  BY <1>9, <1>10 DEF SlotAccounting

(***************************************************************************)
(* A holder that returns is counted among those that have.                 *)
(***************************************************************************)
LEMMA ReturnCounts ==
    ASSUME SlotInv, NEW t \in Threads, Return(t)
    PROVE  /\ SlotAccounting' /\ used' = used
           /\ MaxActions # None => allowed' <= returned'[Global]
<1> USE DEF SlotInv, TypeOK, At
<1>1. OthersStay(t) /\ call'[t] = call[t] /\ pc[t] = "return" /\ used' = used
  BY StepsOfOthers DEF ThreadStep, Return
<1>2. ASSUME NEW k \in Keys
      PROVE  returned'[k] + Cardinality(Holders(k)') = returned[k] + Cardinality(Holders(k))
  <2>1. Cardinality(Holders(k)) \in Nat /\ Cardinality(Holders(k)') \in Nat
    BY <1>1, HoldersChange
  <2>2. returned'[k] = IF outcome[t] \in PastRate(k) /\ Counts(t, k)
                       THEN returned[k] + 1 ELSE returned[k]
    BY DEF Return
  <2>3. t \in Holders(k) <=> outcome[t] \in PastRate(k) /\ Counts(t, k)
    BY <1>1 DEF Holders, RateDone
  <2>4. t \notin Holders(k)'
    BY DEF Return, Goto, Holders, RateDone
  <2>5. returned[k] \in Nat
    OBVIOUS
  <2>6. CASE t \in Holders(k)
    <3>1. Cardinality(Holders(k)) = Cardinality(Holders(k)') + 1
      BY <1>1, <2>4, <2>6, HoldersChange
    <3>2. returned'[k] = returned[k] + 1
      BY <2>2, <2>3, <2>6
    <3> QED
      BY <2>1, <2>5, <3>1, <3>2
  <2>7. CASE t \notin Holders(k)
    <3>1. Holders(k)' = Holders(k)
      BY <1>1, <2>4, <2>7, HoldersChange
    <3>2. returned'[k] = returned[k]
      BY <2>2, <2>3, <2>7
    <3> QED
      BY <3>1, <3>2
  <2> QED
    BY <2>6, <2>7
<1>3. SlotAccounting'
  BY <1>1, <1>2 DEF SlotAccounting
<1>4. ASSUME MaxActions # None PROVE allowed' <= returned'[Global]
  <2>1. Global \in Keys /\ allowed \in Nat /\ returned[Global] \in Nat
        /\ allowed <= returned[Global]
    BY <1>4 DEF Keys
  <2>2. CASE outcome[t] = "ALLOW"
    <3>1. returned'[Global] = returned[Global] + 1 /\ allowed' = allowed + 1
      BY <1>4, <2>1, <2>2 DEF Return, PastRate, PastToolRate, Counts
    <3> QED
      BY <2>1, <3>1
  <2>3. CASE outcome[t] # "ALLOW"
    <3>1. returned'[Global] \in {returned[Global], returned[Global] + 1} /\ allowed' = allowed
      BY <2>1, <2>3 DEF Return
    <3> QED
      BY <2>1, <3>1
  <2> QED
    BY <2>2, <2>3
<1> QED
  BY <1>1, <1>3, <1>4

LEMMA SlotStep == SlotInv /\ [Next]_vars => SlotInv'
<1> SUFFICES ASSUME SlotInv, [Next]_vars PROVE SlotInv'
  OBVIOUS
<1> USE DEF SlotInv
<1>1. TypeOK'
  BY TypeStep
<1>2. CASE UNCHANGED vars
  <2>1. \A k \in Keys : Holders(k)' = Holders(k)
    BY <1>2 DEF vars, locals, Holders, At, Counts
  <2>2. SlotAccounting'
    BY <1>2, <2>1 DEF vars, ledger, SlotAccounting
  <2> QED
    BY <1>1, <1>2, <2>2 DEF vars, ledger, locals
<1>3. CASE HostStep
  <2>1. /\ used' = used /\ returned' = returned /\ allowed' = allowed
        /\ pc' = pc /\ call' = call /\ ratePerm' = ratePerm /\ outcome' = outcome
    BY <1>3 DEF HostStep, EngageKillSwitch, DisengageKillSwitch, SetProcessEnv, AssignAutonomy,
                AddPermission, PeriodPasses, threadVars, ledger, locals
  <2>2. \A k \in Keys : Holders(k)' = Holders(k)
    BY <2>1 DEF Holders, At, Counts
  <2>3. SlotAccounting'
    BY <2>1, <2>2 DEF SlotAccounting
  <2> QED
    BY <1>1, <2>1, <2>3
<1>4. ASSUME NEW t \in Threads, ThreadStep(t) PROVE SlotInv'
  <2>1. /\ \A u \in Threads : pc'[u] # "idle" => call'[u] \in Calls
        /\ DOMAIN ratePerm' = Threads
    BY <1>4, StepsOfOthers DEF OthersStay
  <2>2. CASE Quiet(t)
    <3>1. SlotAccounting'
      BY <2>2, QuietKeepsHolders, QuietKeepsSlots DEF SlotAccounting
    <3> QED
      BY <1>1, <2>1, <2>2, <3>1, QuietKeepsSlots
  <2>3. CASE CheckGlobalRate(t)
    <3>1. returned' = returned /\ allowed' = allowed
      BY <2>3 DEF CheckGlobalRate, ledger
    <3> QED
      BY <1>1, <2>1, <2>3, <3>1, GlobalRateCounts
  <2>4. CASE CheckToolRate(t)
    <3>1. returned' = returned /\ allowed' = allowed
      BY <2>4 DEF CheckToolRate, ledger
    <3> QED
      BY <1>1, <2>1, <2>4, <3>1, ToolRateCounts
  <2>5. CASE Return(t)
    BY <1>1, <2>1, <2>5, ReturnCounts
  <2> QED
    BY <1>4, <2>2, <2>3, <2>4, <2>5 DEF ThreadStep, Quiet
<1> QED
  BY <1>2, <1>3, <1>4 DEF Next

LEMMA SlotInit == Init => SlotInv
<1> SUFFICES ASSUME Init PROVE SlotInv
  OBVIOUS
<1>1. TypeOK
  BY TypeInit
<1>2. \A t \in Threads : pc[t] = "idle"
  BY DEF Init
<1>3. \A k \in Keys : Holders(k) = {}
  BY <1>2 DEF Holders, RateDone, At
<1>4. Cardinality({}) = 0 /\ Global \in Keys
  BY FS_EmptySet DEF Keys
<1>5. \A k \in Keys : used[k] = 0 /\ returned[k] = 0
  BY DEF Init
<1>6. SlotAccounting
  <2>1. \A k \in Keys : Cardinality(Holders(k)) = 0
    BY <1>3, <1>4
  <2> QED
    BY <1>5, <2>1 DEF SlotAccounting
<1>7. /\ MaxActions # None => used[Global] <= MaxActions /\ allowed <= returned[Global]
      /\ DOMAIN ratePerm = Threads
  BY <1>4, <1>5, BoundaryAssumption DEF Init
<1> QED
  BY <1>1, <1>2, <1>6, <1>7 DEF SlotInv

LEMMA SlotInvariant == Spec => []SlotInv
BY SlotInit, SlotStep, PTL DEF Spec

(***************************************************************************)
(* boundary.py 893-915: whatever threads make calls and however often the  *)
(* host replaces permissions, no slot is lost or taken twice.              *)
(***************************************************************************)
THEOREM SlotsAreAccounted == Spec => []SlotAccounting
<1>1. SlotInv => SlotAccounting
  BY DEF SlotInv
<1> QED
  BY <1>1, SlotInvariant, PTL

(***************************************************************************)
(* boundary.py 897-904: no more calls are allowed within the window than   *)
(* max_actions_per_hour, by any number of threads.                         *)
(***************************************************************************)
THEOREM AllowancesAreBounded == Spec => []AllowedWithinLimit
<1>1. SlotInv => AllowedWithinLimit
  <2> SUFFICES ASSUME SlotInv, MaxActions # None
               PROVE  allowed + Cardinality({t \in Threads : Returning(t, "ALLOW")})
                          <= MaxActions
    BY DEF AllowedWithinLimit
  <2> DEFINE Leaving == {t \in Threads : Returning(t, "ALLOW")}
  <2>1. Leaving \subseteq Holders(Global) /\ Holders(Global) \in SUBSET Threads
    BY DEF Returning, Holders, At, Counts, PastRate, PastToolRate
  <2>2. /\ Cardinality(Leaving) <= Cardinality(Holders(Global))
        /\ Cardinality(Leaving) \in Nat /\ Cardinality(Holders(Global)) \in Nat
    BY <2>1, HoldersAreFinite, FS_Subset
  <2>3. /\ used[Global] = returned[Global] + Cardinality(Holders(Global))
        /\ used[Global] <= MaxActions /\ allowed <= returned[Global]
        /\ allowed \in Nat /\ returned[Global] \in Nat /\ MaxActions \in Nat
    BY BoundaryAssumption DEF SlotInv, SlotAccounting, TypeOK, Keys
  <2> HIDE DEF Leaving
  <2>4. allowed + Cardinality(Leaving) <= MaxActions
    BY <2>2, <2>3
  <2> QED
    BY <2>4 DEF Leaving
<1> QED
  BY <1>1, SlotInvariant, PTL

-----------------------------------------------------------------------------

(***************************************************************************)
(* FirstFailure gives the reason of a check that fails with none before it.*)
(***************************************************************************)
LEMMA FirstFailureIsFirst ==
    ASSUME NEW checks, DOMAIN checks \subseteq Nat, FirstFailure(checks) # None
    PROVE  \E i \in DOMAIN checks :
              /\ checks[i].fails /\ FirstFailure(checks) = checks[i].reason
              /\ \A j \in DOMAIN checks : j < i => ~checks[j].fails
<1> DEFINE failing == {i \in DOMAIN checks : checks[i].fails}
           least == CHOOSE i \in failing : \A j \in failing : i <= j
<1>1. failing # {} /\ failing \in SUBSET Nat
  BY DEF FirstFailure
<1>2. \E i \in failing : \A j \in failing : i <= j
  BY <1>1, LeastElement
<1>3. least \in failing /\ \A j \in failing : least <= j
  BY <1>2
<1>4. FirstFailure(checks) = checks[least].reason
  BY <1>1 DEF FirstFailure
<1> HIDE DEF least
<1>5. ASSUME NEW j \in DOMAIN checks, j < least PROVE ~checks[j].fails
  BY <1>1, <1>3, <1>5
<1> QED
  BY <1>3, <1>4, <1>5

(***************************************************************************)
(* What a check of the code that fails first says of the items: of the     *)
(* gates, and of the four items the nine checks on a permission belong to. *)
(***************************************************************************)
LEMMA FirstGate ==
    ASSUME NEW c, NEW v, v = FirstFailure(GateChecks(c)), v # None
    PROVE  \/ v = "OUTSIDE_VALID_PERIOD" /\ period # "valid"
           \/ v = "ENVIRONMENT_NOT_ALLOWED" /\ period = "valid" /\ ~EnvironmentAllowed
           \/ /\ v = "OPERATION_BLOCKED" /\ period = "valid" /\ EnvironmentAllowed
              /\ c.op # None /\ c.op \in BlockedOperations
<1> DEFINE checks == GateChecks(c)
           blocked == c.op # None /\ c.op \in BlockedOperations
<1>1. /\ DOMAIN checks = 1 .. 3
      /\ checks[1].reason = "OUTSIDE_VALID_PERIOD"
      /\ checks[2].reason = "ENVIRONMENT_NOT_ALLOWED"
      /\ checks[3].reason = "OPERATION_BLOCKED"
  BY DEF GateChecks
<1>a. /\ checks[1].fails <=> period # "valid"
      /\ checks[2].fails <=> ~EnvironmentAllowed
      /\ checks[3].fails <=> blocked
  BY Zenon DEF GateChecks
<1> HIDE DEF checks, blocked
<1>2. PICK i \in 1 .. 3 :
        /\ checks[i].fails /\ v = checks[i].reason
        /\ \A j \in 1 .. 3 : j < i => ~checks[j].fails
  BY <1>1, FirstFailureIsFirst DEF checks
<1>3. CASE i = 1
  BY <1>1, <1>a, <1>2, <1>3
<1>4. CASE i = 2
  <2>1. ~checks[1].fails
    BY <1>2, <1>4
  <2> QED
    BY <1>1, <1>a, <1>2, <1>4, <2>1
<1>5. CASE i = 3
  <2>1. ~checks[1].fails /\ ~checks[2].fails
    BY <1>2, <1>5
  <2> QED
    BY <1>1, <1>a, <1>2, <1>5, <2>1 DEF blocked
<1> QED
  BY <1>3, <1>4, <1>5

LEMMA NoGateFails ==
    ASSUME NEW c, FirstFailure(GateChecks(c)) = None
    PROVE  /\ period = "valid" /\ EnvironmentAllowed
           /\ ~(c.op # None /\ c.op \in BlockedOperations)
<1> DEFINE checks == GateChecks(c)
<1>1. /\ DOMAIN checks = 1 .. 3
      /\ \A i \in 1 .. 3 : checks[i].reason # None
  BY BoundaryAssumption DEF GateChecks, Decisions, PermissionReasons
<1>2. /\ checks[1].fails <=> period # "valid"
      /\ checks[2].fails <=> ~EnvironmentAllowed
      /\ checks[3].fails <=> c.op # None /\ c.op \in BlockedOperations
  BY Zenon DEF GateChecks
<1>3. FirstFailure(checks) = None
  OBVIOUS
<1> HIDE DEF checks
<1>4. \A i \in 1 .. 3 : ~checks[i].fails
  BY <1>1, <1>3, FirstFailureFails
<1> QED
  BY <1>2, <1>4

\* Items 9 and 10 of the order: the value and the records.
ValueFails(p, c) ==
    \/ ValueRequired(StrictLimits, p, c) \/ InvalidValue(p, c)
    \/ BelowMinimum(p, c) \/ AboveMaximum(p, c)
RecordsFail(p, c) ==
    \/ RecordsRequired(StrictLimits, p, c)
    \/ InvalidRecords(p, c) \/ TooManyRecords(p, c)

LEMMA FirstPermissionCheck ==
    ASSUME NEW p, NEW c, NEW v, v = PermissionVerdict(StrictLimits, p, c), v # None
    PROVE  \/ v = "OPERATION_BLOCKED" /\ ~OperationAllowed(p, c.op)
           \/ /\ v = "ACCESS_MODE_EXCEEDED"
              /\ OperationAllowed(p, c.op) /\ AccessModeExceeded(p, c)
           \/ /\ v \in {"VALUE_REQUIRED", "INVALID_VALUE", "MIN_VALUE_VIOLATED",
                        "MAX_VALUE_EXCEEDED"}
              /\ OperationAllowed(p, c.op) /\ ~AccessModeExceeded(p, c)
              /\ ValueFails(p, c)
           \/ /\ v \in {"RECORDS_REQUIRED", "INVALID_VALUE", "MAX_RECORDS_EXCEEDED"}
              /\ OperationAllowed(p, c.op) /\ ~AccessModeExceeded(p, c)
              /\ ~ValueFails(p, c) /\ RecordsFail(p, c)
<1> DEFINE checks == PermissionChecks(StrictLimits, p, c)
<1>1. /\ DOMAIN checks = 1 .. 9
      /\ checks[1].reason = "OPERATION_BLOCKED"
      /\ checks[2].reason = "ACCESS_MODE_EXCEEDED"
      /\ {checks[3].reason, checks[4].reason, checks[5].reason, checks[6].reason} =
            {"VALUE_REQUIRED", "INVALID_VALUE", "MIN_VALUE_VIOLATED", "MAX_VALUE_EXCEEDED"}
      /\ {checks[7].reason, checks[8].reason, checks[9].reason} =
            {"RECORDS_REQUIRED", "INVALID_VALUE", "MAX_RECORDS_EXCEEDED"}
  BY DEF PermissionChecks
<1>2. /\ checks[1].fails <=> ~OperationAllowed(p, c.op)
      /\ checks[2].fails <=> AccessModeExceeded(p, c)
  BY Zenon DEF PermissionChecks
<1>3. ValueFails(p, c) <=>
        checks[3].fails \/ checks[4].fails \/ checks[5].fails \/ checks[6].fails
  BY Zenon DEF PermissionChecks, ValueFails
<1>4. RecordsFail(p, c) <=> checks[7].fails \/ checks[8].fails \/ checks[9].fails
  BY Zenon DEF PermissionChecks, RecordsFail
<1> HIDE DEF checks
<1>5. PICK i \in 1 .. 9 :
        /\ checks[i].fails /\ v = checks[i].reason
        /\ \A j \in 1 .. 9 : j < i => ~checks[j].fails
  BY <1>1, FirstFailureIsFirst DEF checks, PermissionVerdict
<1>6. CASE i = 1
  BY <1>1, <1>2, <1>5, <1>6
<1>7. CASE i = 2
  BY <1>1, <1>2, <1>5, <1>7
<1>8. CASE i \in 3 .. 6
  <2>1. ~checks[1].fails /\ ~checks[2].fails
    BY <1>5, <1>8
  <2>2. checks[3].fails \/ checks[4].fails \/ checks[5].fails \/ checks[6].fails
    BY <1>5, <1>8
  <2>3. v \in {checks[3].reason, checks[4].reason, checks[5].reason, checks[6].reason}
    BY <1>5, <1>8
  <2> QED
    BY <1>1, <1>2, <1>3, <2>1, <2>2, <2>3, Zenon
<1>9. CASE i \in 7 .. 9
  <2>1. ~checks[1].fails /\ ~checks[2].fails
    BY <1>5, <1>9
  <2>2. ~checks[3].fails /\ ~checks[4].fails /\ ~checks[5].fails /\ ~checks[6].fails
    BY <1>5, <1>9
  <2>3. checks[7].fails \/ checks[8].fails \/ checks[9].fails
    BY <1>5, <1>9
  <2>4. v \in {checks[7].reason, checks[8].reason, checks[9].reason}
    BY <1>5, <1>9
  <2> QED
    BY <1>1, <1>2, <1>3, <1>4, <2>1, <2>2, <2>3, <2>4, Zenon
<1>10. i = 1 \/ i = 2 \/ i \in 3 .. 6 \/ i \in 7 .. 9
  OBVIOUS
<1> QED
  BY <1>6, <1>7, <1>8, <1>9, <1>10, Zenon

LEMMA NoPermissionCheckFails ==
    ASSUME NEW p, NEW c, PermissionVerdict(StrictLimits, p, c) = None
    PROVE  /\ OperationAllowed(p, c.op) /\ ~AccessModeExceeded(p, c)
           /\ ~ValueFails(p, c) /\ ~RecordsFail(p, c)
<1> DEFINE checks == PermissionChecks(StrictLimits, p, c)
<1>1. DOMAIN checks = 1 .. 9 /\ \A i \in 1 .. 9 : checks[i].reason # None
  BY SentinelAssumption DEF PermissionChecks, PermissionReasons
<1>2. /\ checks[1].fails <=> ~OperationAllowed(p, c.op)
      /\ checks[2].fails <=> AccessModeExceeded(p, c)
      /\ ValueFails(p, c) <=>
            checks[3].fails \/ checks[4].fails \/ checks[5].fails \/ checks[6].fails
      /\ RecordsFail(p, c) <=> checks[7].fails \/ checks[8].fails \/ checks[9].fails
  BY Zenon DEF PermissionChecks, ValueFails, RecordsFail
<1>3. FirstFailure(checks) = None
  BY DEF PermissionVerdict
<1> HIDE DEF checks
<1>4. \A i \in 1 .. 9 : ~checks[i].fails
  BY <1>1, <1>3, FirstFailureFails
<1>5. /\ ~checks[1].fails /\ ~checks[2].fails /\ ~checks[3].fails
      /\ ~checks[4].fails /\ ~checks[5].fails /\ ~checks[6].fails
      /\ ~checks[7].fails /\ ~checks[8].fails /\ ~checks[9].fails
  BY <1>4
<1> QED
  BY <1>2, <1>5, Zenon

-----------------------------------------------------------------------------

(***************************************************************************)
(* The documented items, one by one.                                       *)
(***************************************************************************)
LEMMA ItemsAre ==
    ASSUME NEW c, NEW p, NEW r, NEW h
    PROVE  /\ p = None => DOMAIN DocumentedItems(c, p, r, h) = 1 .. 6
           /\ p # None => DOMAIN DocumentedItems(c, p, r, h) = 1 .. 13
           /\ \A i \in 1 .. 6 : DocumentedItems(c, p, r, h)[i] = SettingItems(c, p, h)[i]
           /\ p # None =>
                \A i \in 1 .. 7 :
                   DocumentedItems(c, p, r, h)[6 + i] = PermissionItems(c, p, r, h)[i]
<1> DEFINE items == DocumentedItems(c, p, r, h)
           first == SettingItems(c, p, h)
           last == PermissionItems(c, p, r, h)
<1> PICK S : S = {first[i] : i \in 1 .. 6} \cup {last[i] : i \in 1 .. 7}
  OBVIOUS
<1>1. first \in Seq(S) /\ Len(first) = 6
  <2>1. DOMAIN first = 1 .. 6 /\ Len(first) = 6 /\ first = [i \in 1 .. 6 |-> first[i]]
    BY DEF SettingItems
  <2> HIDE DEF first, last
  <2>2. \A i \in 1 .. 6 : first[i] \in S
    OBVIOUS
  <2> QED
    BY <2>1, <2>2, SeqDef
<1>2. last \in Seq(S) /\ Len(last) = 7
  <2>1. DOMAIN last = 1 .. 7 /\ Len(last) = 7 /\ last = [i \in 1 .. 7 |-> last[i]]
    BY DEF PermissionItems
  <2> HIDE DEF first, last
  <2>2. \A i \in 1 .. 7 : last[i] \in S
    OBVIOUS
  <2> QED
    BY <2>1, <2>2, SeqDef
<1> HIDE DEF first, last
<1>3. CASE p = None
  <2>1. items = first
    BY <1>1, <1>3, ConcatEmptySeq DEF DocumentedItems, first
  <2> QED
    BY <1>1, <1>3, <2>1, LenProperties DEF first
<1>4. CASE p # None
  <2> HIDE DEF items
  <2> PICK both : both = first \o last
    OBVIOUS
  <2>1. items = both
    BY <1>4 DEF DocumentedItems, items, first, last
  <2>2. /\ both \in Seq(S)
        /\ Len(both) = Len(first) + Len(last)
        /\ \A i \in 1 .. Len(first) + Len(last) :
             both[i] = IF i <= Len(first) THEN first[i] ELSE last[i - Len(first)]
    BY ONLY both = first \o last, <1>1, <1>2, ConcatProperties, Zenon
  <2>3. /\ DOMAIN items = 1 .. 13
        /\ \A i \in 1 .. 13 : items[i] = IF i <= 6 THEN first[i] ELSE last[i - 6]
    BY ONLY <1>1, <1>2, <2>1, <2>2, LenProperties
  <2>4. \A i \in 1 .. 6 : items[i] = first[i]
    BY <2>3
  <2>5. \A i \in 1 .. 7 : items[6 + i] = last[i]
    BY <2>3
  <2> QED
    BY <1>4, <2>3, <2>4, <2>5 DEF items, first, last
<1> QED
  BY <1>3, <1>4

(***************************************************************************)
(* What makes each item stand, and when it is absent.                      *)
(***************************************************************************)
LEMMA SettingItemFields ==
    ASSUME NEW c, NEW p, NEW h
    PROVE  LET s == SettingItems(c, p, h)
           IN  /\ s[1].stands <=> "flag" \in h \/ "env" \in h
               /\ s[2].stands <=> "quarantined" \in h
               /\ s[3].stands <=> "invalid" \in h
               /\ s[4].stands <=> ~EnvironmentAllowed
               /\ s[5].stands <=> c.op # None /\ c.op \in BlockedOperations
               /\ s[6].stands <=> p = None
               /\ s[1].absent <=> "disengaged" \in h
               /\ s[2].absent <=> "unquarantined" \in h
               /\ s[3].absent <=> "valid" \in h
               /\ s[4].absent <=> ~~EnvironmentAllowed
               /\ s[5].absent <=> ~(c.op # None /\ c.op \in BlockedOperations)
               /\ s[6].absent <=> ~(p = None)
BY Zenon DEF SettingItems, Item, Settled

LEMMA PermissionItemFields ==
    ASSUME NEW c, NEW p, NEW r, NEW h
    PROVE  LET s == PermissionItems(c, p, r, h)
           IN  /\ s[1].stands <=> ~OperationAllowed(p, c.op)
               /\ s[2].stands <=> AccessModeExceeded(p, c)
               /\ s[3].stands <=> ValueFails(p, c)
               /\ s[4].stands <=> RecordsFail(p, c)
               /\ s[5].stands <=> MaxActions = 0 \/ (r # None /\ r.maxCalls = 0)
               /\ s[6].stands <=> FALSE
               /\ s[7].stands <=> \/ p.approval \/ "human" \in h
                                  \/ "recommend" \in h /\ c.mode # READ_ONLY
               /\ s[1].absent <=> ~~OperationAllowed(p, c.op)
               /\ s[2].absent <=> ~AccessModeExceeded(p, c)
               /\ s[3].absent <=> ~ValueFails(p, c)
               /\ s[4].absent <=> ~RecordsFail(p, c)
               /\ s[5].absent <=> MaxActions = None /\ (r = None \/ r.maxCalls = None)
               /\ s[6].absent <=> Hooks = 0
               /\ s[7].absent <=> /\ ~p.approval /\ "no_human" \in h
                                  /\ "no_recommend" \in h \/ c.mode = READ_ONLY
BY Zenon DEF PermissionItems, Item, Settled, AccessModeExceeded, ValueFails, RecordsFail

LEMMA SettingOutcomes ==
    ASSUME NEW c, NEW p, NEW h
    PROVE  LET s == SettingItems(c, p, h)
           IN  /\ s[1].outcomes = {"KILL_SWITCH_ACTIVE"}
               /\ s[2].outcomes = {"AGENT_QUARANTINED"}
               /\ s[3].outcomes = {"OUTSIDE_VALID_PERIOD"}
               /\ s[4].outcomes = {"ENVIRONMENT_NOT_ALLOWED"}
               /\ s[5].outcomes = {"OPERATION_BLOCKED"}
               /\ s[6].outcomes = {"TOOL_NOT_ALLOWED"}
BY Zenon DEF SettingItems, Item, Settled

LEMMA PermissionOutcomes ==
    ASSUME NEW c, NEW p, NEW r, NEW h
    PROVE  LET s == PermissionItems(c, p, r, h)
           IN  /\ s[1].outcomes = {"OPERATION_BLOCKED"}
               /\ s[2].outcomes = {"ACCESS_MODE_EXCEEDED"}
               /\ s[3].outcomes = {"VALUE_REQUIRED", "INVALID_VALUE",
                                   "MIN_VALUE_VIOLATED", "MAX_VALUE_EXCEEDED"}
               /\ s[4].outcomes = {"RECORDS_REQUIRED", "INVALID_VALUE",
                                   "MAX_RECORDS_EXCEEDED"}
               /\ s[5].outcomes = {"GLOBAL_RATE_LIMIT_EXCEEDED",
                                   "TOOL_RATE_LIMIT_EXCEEDED"}
               /\ s[6].outcomes = {"POLICY_HOOK_DENIED"}
               /\ s[7].outcomes = {"APPROVAL_REQUIRED"}
BY Zenon DEF PermissionItems, Item, Settled

(***************************************************************************)
(* A denial is in order when an item it answers has failed at some moment  *)
(* and no item before that stands; an allowance when none stands.          *)
(***************************************************************************)
LEMMA DeniedInOrder ==
    ASSUME NEW o, NEW n \in Nat, NEW items, DOMAIN items = 1 .. n, NEW k \in 1 .. n,
           o \in items[k].outcomes, ~items[k].absent,
           \A i \in 1 .. (k - 1) : ~items[i].stands
    PROVE  FirstFailureWins(o, items)
<1>1. ASSUME NEW i \in 1 .. n, items[i].stands
      PROVE  \E j \in 1 .. i : o \in items[j].outcomes
  <2>1. k <= i
    BY <1>1
  <2> QED
    BY <2>1
<1> QED
  BY <1>1 DEF FirstFailureWins

LEMMA AllowedInOrder ==
    ASSUME NEW items, \A i \in DOMAIN items : ~items[i].stands
    PROVE  FirstFailureWins("ALLOW", items)
BY DEF FirstFailureWins

(***************************************************************************)
(* What held throughout a call shrinks as the call goes on; no item begins *)
(* to stand or becomes absent by that.                                     *)
(***************************************************************************)
LEMMA OrderShrinks ==
    ASSUME NEW o, NEW c, NEW p, NEW r, NEW h, NEW g, g \subseteq h,
           FirstFailureWins(o, DocumentedItems(c, p, r, h))
    PROVE  FirstFailureWins(o, DocumentedItems(c, p, r, g))
<1> DEFINE before == DocumentedItems(c, p, r, h)
           after == DocumentedItems(c, p, r, g)
<1>1. /\ p = None => DOMAIN before = 1 .. 6 /\ DOMAIN after = 1 .. 6
      /\ p # None => DOMAIN before = 1 .. 13 /\ DOMAIN after = 1 .. 13
  BY ItemsAre
<1>2. \A i \in 1 .. 6 : /\ after[i].outcomes = before[i].outcomes
                        /\ after[i].stands => before[i].stands
                        /\ after[i].absent => before[i].absent
  <2> DEFINE s == SettingItems(c, p, h)
             u == SettingItems(c, p, g)
  <2>1. \A i \in 1 .. 6 : before[i] = s[i] /\ after[i] = u[i]
    BY ItemsAre
  <2>2. \A i \in {1, 2, 3, 4, 5, 6} : /\ u[i].outcomes = s[i].outcomes
                                      /\ u[i].stands => s[i].stands
                                      /\ u[i].absent => s[i].absent
    <3>0. /\ u[1].outcomes = s[1].outcomes
          /\ u[2].outcomes = s[2].outcomes /\ u[3].outcomes = s[3].outcomes
          /\ u[4].outcomes = s[4].outcomes
          /\ u[5].outcomes = s[5].outcomes /\ u[6].outcomes = s[6].outcomes
      BY Zenon DEF SettingItems, Item, Settled
    <3>1. \A i \in {1, 2, 3, 4, 5, 6} : u[i].outcomes = s[i].outcomes
      BY <3>0, Zenon
    <3>2. \A i \in {1, 2, 3, 4, 5, 6} : u[i].stands => s[i].stands
      BY SettingItemFields
    <3>3. \A i \in {1, 2, 3, 4, 5, 6} : u[i].absent => s[i].absent
      BY SettingItemFields
    <3> QED
      BY <3>1, <3>2, <3>3
  <2> HIDE DEF s, u, before, after
  <2> QED
    BY <2>1, <2>2
<1>3. ASSUME p # None
      PROVE  \A i \in 1 .. 7 : /\ after[6 + i].outcomes = before[6 + i].outcomes
                               /\ after[6 + i].stands => before[6 + i].stands
                               /\ after[6 + i].absent => before[6 + i].absent
  <2> DEFINE s == PermissionItems(c, p, r, h)
             u == PermissionItems(c, p, r, g)
  <2>1. \A i \in 1 .. 7 : before[6 + i] = s[i] /\ after[6 + i] = u[i]
    BY <1>3, ItemsAre
  <2>2. \A i \in {1, 2, 3, 4, 5, 6, 7} : /\ u[i].outcomes = s[i].outcomes
                                         /\ u[i].stands => s[i].stands
                                         /\ u[i].absent => s[i].absent
    <3>0. /\ u[1].outcomes = s[1].outcomes
          /\ u[2].outcomes = s[2].outcomes /\ u[3].outcomes = s[3].outcomes
          /\ u[4].outcomes = s[4].outcomes
          /\ u[5].outcomes = s[5].outcomes /\ u[6].outcomes = s[6].outcomes
          /\ u[7].outcomes = s[7].outcomes
      BY Zenon DEF PermissionItems, Item, Settled
    <3>1. \A i \in {1, 2, 3, 4, 5, 6, 7} : u[i].outcomes = s[i].outcomes
      BY <3>0, Zenon
    <3>2. \A i \in {1, 2, 3, 4, 5, 6, 7} : u[i].stands => s[i].stands
      BY PermissionItemFields
    <3>3. \A i \in {1, 2, 3, 4, 5, 6, 7} : u[i].absent => s[i].absent
      BY PermissionItemFields
    <3> QED
      BY <3>1, <3>2, <3>3
  <2> HIDE DEF s, u, before, after
  <2> QED
    BY <2>1, <2>2
<1> HIDE DEF before, after
<1>4. \A i \in DOMAIN after : /\ after[i].outcomes = before[i].outcomes
                              /\ after[i].stands => before[i].stands
                              /\ after[i].absent => before[i].absent
  <2>1. CASE p = None
    BY <1>1, <1>2, <2>1
  <2>2. CASE p # None
    <3>1. ASSUME NEW i \in 7 .. 13
          PROVE  /\ after[i].outcomes = before[i].outcomes
                 /\ after[i].stands => before[i].stands
                 /\ after[i].absent => before[i].absent
      <4>1. i - 6 \in 1 .. 7 /\ 6 + (i - 6) = i
        OBVIOUS
      <4> QED
        BY <1>3, <2>2, <4>1
    <3> QED
      BY <1>1, <1>2, <2>2, <3>1
  <2> QED
    BY <2>1, <2>2
<1>5. FirstFailureWins(o, before)
  BY DEF before
<1>6. FirstFailureWins(o, after)
  <2>1. ASSUME NEW i \in DOMAIN after, after[i].stands
        PROVE  \E j \in 1 .. i : o \in after[j].outcomes
    <3>1. PICK j \in 1 .. i : o \in before[j].outcomes
      BY <1>1, <1>4, <1>5, <2>1 DEF FirstFailureWins
    <3>2. j \in DOMAIN after
      BY <1>1, <2>1
    <3> QED
      BY <1>4, <3>1, <3>2
  <2>2. o = "ALLOW" \/ \E i \in DOMAIN after : o \in after[i].outcomes /\ ~after[i].absent
    BY <1>1, <1>4, <1>5 DEF FirstFailureWins
  <2> QED
    BY <2>1, <2>2 DEF FirstFailureWins
<1> QED
  BY <1>6 DEF after

-----------------------------------------------------------------------------

(***************************************************************************)
(* The order of evaluation.  What the place of a call says of the items it *)
(* has got past, with c, p, r and h as in DocumentedItems.                 *)
(***************************************************************************)
AfterKill == {"quarantine", "gates", "permission", "rate_global", "rate_tool",
              "hooks", "approval", "approval_mode"}
AfterQuarantine == AfterKill \ {"quarantine"}
AfterGates == AfterQuarantine \ {"gates"}
AfterPermission == AfterGates \ {"permission"}
AfterGlobal == AfterPermission \ {"rate_global"}
AfterRates == AfterGlobal \ {"rate_tool"}

Clear(label, c, p, r, h) ==
    /\ label = "kill_env" => KillSwitchEnv /\ "flag" \notin h
    /\ label \in AfterKill => "flag" \notin h /\ "env" \notin h
    /\ label \in AfterQuarantine => "quarantined" \notin h
    /\ label \in AfterGates => /\ "invalid" \notin h /\ EnvironmentAllowed
                               /\ ~(c.op # None /\ c.op \in BlockedOperations)
    /\ label \in AfterPermission => p # None /\ PermissionVerdict(StrictLimits, p, c) = None
    /\ label \in AfterGlobal => MaxActions # 0
    /\ label \in AfterRates => ~(r # None /\ r.maxCalls = 0)
    /\ label = "approval_mode" => ~p.approval /\ "human" \notin h

OrderOf(t) ==
    /\ Clear(pc[t], call[t], perm[t], ratePerm[t], held[t])
    /\ At(t, "return") =>
           FirstFailureWins(outcome[t],
                            DocumentedItems(call[t], perm[t], ratePerm[t], held[t]))

OrderInv ==
    /\ DOMAIN perm = Threads /\ DOMAIN ratePerm = Threads
    /\ \A t \in Threads : OrderOf(t)

LEMMA ClearShrinks ==
    ASSUME NEW label, NEW c, NEW p, NEW r, NEW h, NEW g, g \subseteq h,
           Clear(label, c, p, r, h)
    PROVE  Clear(label, c, p, r, g)
BY Zenon DEF Clear

(***************************************************************************)
(* The items a call has got past do not stand.                             *)
(***************************************************************************)
Upto(n, items) == \A i \in 1 .. n : ~items[i].stands

LEMMA SettingsPassed ==
    ASSUME NEW label, NEW c, NEW p, NEW r, NEW h, Clear(label, c, p, r, h)
    PROVE  LET items == DocumentedItems(c, p, r, h)
           IN  /\ label = "quarantine" => Upto(1, items)
               /\ label = "gates" => Upto(2, items)
               /\ label = "permission" => Upto(5, items)
               /\ label \in AfterPermission => Upto(6, items)
<1> DEFINE items == DocumentedItems(c, p, r, h)
           s == SettingItems(c, p, h)
<1>1. \A i \in 1 .. 6 : items[i] = s[i]
  BY ItemsAre
<1>2. /\ label \in AfterKill => ~s[1].stands
      /\ label \in AfterQuarantine => ~s[2].stands
      /\ label \in AfterGates => ~s[3].stands /\ ~s[4].stands /\ ~s[5].stands
      /\ label \in AfterPermission => ~s[6].stands
  BY SettingItemFields, Zenon DEF Clear
<1> HIDE DEF s, items
<1>3. CASE label = "quarantine"
  <2>1. Upto(1, items)
    BY <1>1, <1>2, <1>3 DEF Upto, AfterKill
  <2> QED
    BY <1>3, <2>1 DEF AfterPermission, AfterGates, AfterQuarantine, AfterKill, items
<1>4. CASE label = "gates"
  <2>1. Upto(2, items)
    BY <1>1, <1>2, <1>4 DEF Upto, AfterQuarantine, AfterKill
  <2> QED
    BY <1>4, <2>1 DEF AfterPermission, AfterGates, AfterQuarantine, AfterKill, items
<1>5. CASE label = "permission"
  <2>1. Upto(5, items)
    BY <1>1, <1>2, <1>5 DEF Upto, AfterGates, AfterQuarantine, AfterKill
  <2> QED
    BY <1>5, <2>1 DEF AfterPermission, AfterGates, AfterQuarantine, AfterKill, items
<1>6. CASE label \in AfterPermission
  <2>1. Upto(6, items)
    BY <1>1, <1>2, <1>6 DEF Upto, AfterPermission, AfterGates, AfterQuarantine, AfterKill
  <2> QED
    BY <1>6, <2>1 DEF AfterPermission, AfterGates, AfterQuarantine, AfterKill, items
<1> QED
  BY <1>3, <1>4, <1>5, <1>6

LEMMA PermissionPassed ==
    ASSUME NEW label \in AfterPermission, NEW c, NEW p, NEW r, NEW h,
           Clear(label, c, p, r, h)
    PROVE  LET items == DocumentedItems(c, p, r, h)
           IN  /\ DOMAIN items = 1 .. 13
               /\ Upto(10, items)
               /\ label \in AfterRates => Upto(12, items)
<1> DEFINE items == DocumentedItems(c, p, r, h)
           s == PermissionItems(c, p, r, h)
<1>1. /\ p # None /\ DOMAIN items = 1 .. 13
      /\ \A i \in 1 .. 7 : items[6 + i] = s[i]
  <2>1. p # None
    BY Zenon DEF Clear
  <2> QED
    <3>1. DOMAIN items = 1 .. 13
      BY <2>1, ItemsAre
    <3>2. \A i \in 1 .. 7 : items[6 + i] = s[i]
      BY <2>1, ItemsAre
    <3> QED
      BY <2>1, <3>1, <3>2
<1>2. Upto(6, items)
  BY SettingsPassed
<1>3. ~s[1].stands /\ ~s[2].stands /\ ~s[3].stands /\ ~s[4].stands
  <2>1. PermissionVerdict(StrictLimits, p, c) = None
    BY Zenon DEF Clear
  <2>2. /\ OperationAllowed(p, c.op) /\ ~AccessModeExceeded(p, c)
        /\ ~ValueFails(p, c) /\ ~RecordsFail(p, c)
    BY <2>1, NoPermissionCheckFails
  <2>3. /\ s[1].stands <=> ~OperationAllowed(p, c.op)
        /\ s[2].stands <=> AccessModeExceeded(p, c)
        /\ s[3].stands <=> ValueFails(p, c)
        /\ s[4].stands <=> RecordsFail(p, c)
    BY PermissionItemFields
  <2> HIDE DEF s
  <2> QED
    BY ONLY <2>2, <2>3
<1>4. label \in AfterRates => ~s[5].stands /\ ~s[6].stands
  <2>1. ASSUME label \in AfterRates PROVE MaxActions # 0 /\ ~(r # None /\ r.maxCalls = 0)
    <3>1. label \in AfterGlobal
      BY <2>1 DEF AfterRates
    <3> QED
      BY <2>1, <3>1, Zenon DEF Clear
  <2>2. ~s[6].stands
    BY PermissionItemFields
  <2>3. MaxActions # 0 /\ ~(r # None /\ r.maxCalls = 0) => ~s[5].stands
    BY PermissionItemFields
  <2> QED
    BY <2>1, <2>2, <2>3, Zenon
<1> HIDE DEF s, items
<1>5. /\ items[7] = s[1] /\ items[8] = s[2] /\ items[9] = s[3] /\ items[10] = s[4]
      /\ items[11] = s[5] /\ items[12] = s[6]
  <2>1. \A i \in 1 .. 7 : items[6 + i] = s[i]
    BY <1>1
  <2> QED
    BY ONLY <2>1
<1>6. \A i \in 1 .. 10 : i \in 1 .. 6 \/ i = 7 \/ i = 8 \/ i = 9 \/ i = 10
  OBVIOUS
<1>7. Upto(10, items)
  BY <1>2, <1>3, <1>5, <1>6 DEF Upto
<1>8. label \in AfterRates => Upto(12, items)
  <2>1. \A i \in 1 .. 12 : i \in 1 .. 10 \/ i = 11 \/ i = 12
    OBVIOUS
  <2> QED
    BY <1>4, <1>5, <1>7, <2>1 DEF Upto
<1> QED
  BY <1>1, <1>7, <1>8 DEF items

(***************************************************************************)
(* Each decision is in order, given what held throughout the call.         *)
(***************************************************************************)
LEMMA AnsweredItem ==
    ASSUME NEW c, NEW p, NEW r, NEW h, NEW o, NEW k \in 1 .. 13, k <= 6 \/ p # None,
           LET items == DocumentedItems(c, p, r, h)
           IN  Upto(k - 1, items) /\ o \in items[k].outcomes /\ ~items[k].absent
    PROVE  FirstFailureWins(o, DocumentedItems(c, p, r, h))
<1> DEFINE items == DocumentedItems(c, p, r, h)
<1>1. PICK n \in Nat : DOMAIN items = 1 .. n /\ k \in 1 .. n
  <2>1. CASE p = None
    <3>1. DOMAIN items = 1 .. 6
      BY <2>1, ItemsAre
    <3> QED
      BY <2>1, <3>1
  <2>2. CASE p # None
    <3>1. DOMAIN items = 1 .. 13
      BY <2>2, ItemsAre
    <3> QED
      BY <3>1
  <2> QED
    BY <2>1, <2>2
<1>2. \A i \in 1 .. (k - 1) : ~items[i].stands
  BY DEF Upto
<1> HIDE DEF items
<1>3. o \in items[k].outcomes /\ ~items[k].absent
  BY DEF items
<1>4. FirstFailureWins(o, items)
  BY <1>1, <1>2, <1>3, DeniedInOrder
<1> QED
  BY <1>4 DEF items

LEMMA SettingDenied ==
    ASSUME NEW label, NEW c, NEW p, NEW r, NEW h, Clear(label, c, p, r, h), NEW o,
           \/ o = "KILL_SWITCH_ACTIVE" /\ "disengaged" \notin h
           \/ label = "quarantine" /\ o = "AGENT_QUARANTINED" /\ "unquarantined" \notin h
           \/ label = "gates" /\ o = "OUTSIDE_VALID_PERIOD" /\ "valid" \notin h
           \/ /\ label = "gates" /\ o = "ENVIRONMENT_NOT_ALLOWED"
              /\ "invalid" \notin h /\ ~EnvironmentAllowed
           \/ /\ label = "gates" /\ o = "OPERATION_BLOCKED"
              /\ "invalid" \notin h /\ EnvironmentAllowed
              /\ c.op # None /\ c.op \in BlockedOperations
           \/ label = "permission" /\ o = "TOOL_NOT_ALLOWED" /\ p = None
    PROVE  FirstFailureWins(o, DocumentedItems(c, p, r, h))
<1> DEFINE items == DocumentedItems(c, p, r, h)
           s == SettingItems(c, p, h)
<1>1. /\ items[1] = s[1] /\ items[2] = s[2] /\ items[3] = s[3]
      /\ items[4] = s[4] /\ items[5] = s[5] /\ items[6] = s[6]
  BY ItemsAre
<1>2. \A k \in 1 .. 6 : Upto(k - 1, items) /\ o \in items[k].outcomes /\ ~items[k].absent =>
                            FirstFailureWins(o, items)
  BY AnsweredItem
<1>3. CASE o = "KILL_SWITCH_ACTIVE" /\ "disengaged" \notin h
  <2>1. o \in s[1].outcomes /\ ~s[1].absent
    BY <1>3, SettingItemFields, SettingOutcomes
  <2> HIDE DEF s, items
  <2>2. Upto(1 - 1, items)
    BY DEF Upto
  <2>3. FirstFailureWins(o, items)
    BY <1>1, <1>2, <2>1, <2>2
  <2> QED
    BY <2>3 DEF items
<1>4. CASE label = "quarantine" /\ o = "AGENT_QUARANTINED" /\ "unquarantined" \notin h
  <2>1. o \in s[2].outcomes /\ ~s[2].absent
    BY <1>4, SettingItemFields, SettingOutcomes
  <2>2. Upto(1, items)
    BY <1>4, SettingsPassed
  <2> HIDE DEF s, items
  <2>3. FirstFailureWins(o, items)
    BY <1>1, <1>2, <2>1, <2>2
  <2> QED
    BY <2>3 DEF items
<1>5. CASE label = "gates" /\ o = "OUTSIDE_VALID_PERIOD" /\ "valid" \notin h
  <2>1. o \in s[3].outcomes /\ ~s[3].absent
    BY <1>5, SettingItemFields, SettingOutcomes
  <2>2. Upto(2, items)
    BY <1>5, SettingsPassed
  <2> HIDE DEF s, items
  <2>3. FirstFailureWins(o, items)
    BY <1>1, <1>2, <2>1, <2>2
  <2> QED
    BY <2>3 DEF items
<1>6. CASE /\ label = "gates" /\ o = "ENVIRONMENT_NOT_ALLOWED"
           /\ "invalid" \notin h /\ ~EnvironmentAllowed
  <2>1. o \in s[4].outcomes /\ ~s[4].absent /\ ~s[3].stands
    BY <1>6, SettingItemFields, SettingOutcomes
  <2>2. Upto(2, items)
    BY <1>6, SettingsPassed
  <2> HIDE DEF s, items
  <2>3. Upto(3, items)
    BY <1>1, <2>1, <2>2 DEF Upto
  <2>4. FirstFailureWins(o, items)
    BY <1>1, <1>2, <2>1, <2>3
  <2> QED
    BY <2>4 DEF items
<1>7. CASE /\ label = "gates" /\ o = "OPERATION_BLOCKED"
           /\ "invalid" \notin h /\ EnvironmentAllowed
           /\ c.op # None /\ c.op \in BlockedOperations
  <2>1. o \in s[5].outcomes /\ ~s[5].absent /\ ~s[3].stands /\ ~s[4].stands
    BY <1>7, SettingItemFields, SettingOutcomes
  <2>2. Upto(2, items)
    BY <1>7, SettingsPassed
  <2> HIDE DEF s, items
  <2>3. Upto(4, items)
    BY <1>1, <2>1, <2>2 DEF Upto
  <2>4. FirstFailureWins(o, items)
    BY <1>1, <1>2, <2>1, <2>3
  <2> QED
    BY <2>4 DEF items
<1>8. CASE label = "permission" /\ o = "TOOL_NOT_ALLOWED" /\ p = None
  <2>1. o \in s[6].outcomes /\ ~s[6].absent
    BY <1>8, SettingItemFields, SettingOutcomes
  <2>2. Upto(5, items)
    BY <1>8, SettingsPassed
  <2> HIDE DEF s, items
  <2>3. FirstFailureWins(o, items)
    BY <1>1, <1>2, <2>1, <2>2
  <2> QED
    BY <2>3 DEF items
<1> QED
  BY <1>3, <1>4, <1>5, <1>6, <1>7, <1>8

LEMMA PermissionDenied ==
    ASSUME NEW c, NEW p, NEW r, NEW h, Clear("permission", c, p, r, h), p # None,
           NEW o, o = PermissionVerdict(StrictLimits, p, c), o # None
    PROVE  FirstFailureWins(o, DocumentedItems(c, p, r, h))
<1> DEFINE items == DocumentedItems(c, p, r, h)
           s == PermissionItems(c, p, r, h)
<1>1. Upto(5, items) /\ items[6] = SettingItems(c, p, h)[6]
  BY SettingsPassed, ItemsAre
<1>2. Upto(6, items)
  <2>1. ~SettingItems(c, p, h)[6].stands
    BY SettingItemFields
  <2>2. \A i \in 1 .. 6 : i \in 1 .. 5 \/ i = 6
    OBVIOUS
  <2> HIDE DEF items
  <2> QED
    BY <1>1, <2>1, <2>2 DEF Upto
<1>3. \A i \in 1 .. 7 : items[6 + i] = s[i]
  BY ItemsAre
<1>4. \A k \in 1 .. 13 : Upto(k - 1, items) /\ o \in items[k].outcomes /\ ~items[k].absent =>
                            FirstFailureWins(o, items)
  BY AnsweredItem
<1>5. /\ s[1].outcomes = {"OPERATION_BLOCKED"}
      /\ s[2].outcomes = {"ACCESS_MODE_EXCEEDED"}
      /\ s[3].outcomes = {"VALUE_REQUIRED", "INVALID_VALUE", "MIN_VALUE_VIOLATED",
                          "MAX_VALUE_EXCEEDED"}
      /\ s[4].outcomes = {"RECORDS_REQUIRED", "INVALID_VALUE", "MAX_RECORDS_EXCEEDED"}
  BY PermissionOutcomes
<1>6. /\ s[1].stands <=> ~OperationAllowed(p, c.op)
      /\ s[2].stands <=> AccessModeExceeded(p, c)
      /\ s[3].stands <=> ValueFails(p, c)
  BY PermissionItemFields
<1>7. /\ s[1].absent <=> OperationAllowed(p, c.op)
      /\ s[2].absent <=> ~AccessModeExceeded(p, c)
      /\ s[3].absent <=> ~ValueFails(p, c)
      /\ s[4].absent <=> ~RecordsFail(p, c)
  BY PermissionItemFields
<1>8. FirstFailureWins(o, items) => FirstFailureWins(o, DocumentedItems(c, p, r, h))
  OBVIOUS
<1> HIDE DEF s, items
<1>9. items[7] = s[1] /\ items[8] = s[2] /\ items[9] = s[3] /\ items[10] = s[4]
  <2>1. items[6 + 1] = s[1] /\ items[6 + 2] = s[2] /\ items[6 + 3] = s[3] /\ items[6 + 4] = s[4]
    BY ONLY <1>3
  <2> QED
    BY ONLY <2>1
<1>10. CASE o = "OPERATION_BLOCKED" /\ ~OperationAllowed(p, c.op)
  <2>1. o \in items[7].outcomes /\ ~items[7].absent
    BY <1>5, <1>7, <1>9, <1>10
  <2> QED
    BY <1>2, <1>4, <1>8, <2>1
<1>11. CASE /\ o = "ACCESS_MODE_EXCEEDED"
            /\ OperationAllowed(p, c.op) /\ AccessModeExceeded(p, c)
  <2>1. o \in items[8].outcomes /\ ~items[8].absent /\ ~items[7].stands
    BY <1>5, <1>6, <1>7, <1>9, <1>11
  <2>2. \A i \in 1 .. 7 : i \in 1 .. 6 \/ i = 7
    OBVIOUS
  <2>3. Upto(7, items)
    BY <1>2, <2>1, <2>2 DEF Upto
  <2> QED
    BY <1>4, <1>8, <2>1, <2>3
<1>12. CASE /\ o \in {"VALUE_REQUIRED", "INVALID_VALUE", "MIN_VALUE_VIOLATED",
                      "MAX_VALUE_EXCEEDED"}
            /\ OperationAllowed(p, c.op) /\ ~AccessModeExceeded(p, c)
            /\ ValueFails(p, c)
  <2>1. o \in items[9].outcomes /\ ~items[9].absent
    BY <1>5, <1>7, <1>9, <1>12, Zenon
  <2>2. ~items[7].stands /\ ~items[8].stands
    BY <1>6, <1>9, <1>12, Zenon
  <2>3. \A i \in 1 .. 8 : i \in 1 .. 6 \/ i = 7 \/ i = 8
    OBVIOUS
  <2>4. Upto(8, items)
    BY <1>2, <2>2, <2>3 DEF Upto
  <2> QED
    BY <1>4, <1>8, <2>1, <2>4
<1>13. CASE /\ o \in {"RECORDS_REQUIRED", "INVALID_VALUE", "MAX_RECORDS_EXCEEDED"}
            /\ OperationAllowed(p, c.op) /\ ~AccessModeExceeded(p, c)
            /\ ~ValueFails(p, c) /\ RecordsFail(p, c)
  <2>1. o \in items[10].outcomes /\ ~items[10].absent
    BY <1>5, <1>7, <1>9, <1>13, Zenon
  <2>2. ~items[7].stands /\ ~items[8].stands /\ ~items[9].stands
    BY <1>6, <1>9, <1>13, Zenon
  <2>3. \A i \in 1 .. 9 : i \in 1 .. 6 \/ i = 7 \/ i = 8 \/ i = 9
    OBVIOUS
  <2>4. Upto(9, items)
    BY <1>2, <2>2, <2>3 DEF Upto
  <2> QED
    BY <1>4, <1>8, <2>1, <2>4
<1> QED
  BY <1>10, <1>11, <1>12, <1>13, FirstPermissionCheck

LEMMA LateDenied ==
    ASSUME NEW c, NEW p, NEW r, NEW h, NEW label \in AfterPermission,
           Clear(label, c, p, r, h), NEW o,
           \/ o = "GLOBAL_RATE_LIMIT_EXCEEDED" /\ MaxActions # None
           \/ o = "TOOL_RATE_LIMIT_EXCEEDED" /\ r # None /\ r.maxCalls # None
           \/ label = "hooks" /\ o = "POLICY_HOOK_DENIED" /\ Hooks # 0
           \/ /\ label \in {"approval", "approval_mode"} /\ o = "APPROVAL_REQUIRED"
              /\ \/ p.approval \/ "no_human" \notin h
                 \/ "no_recommend" \notin h /\ c.mode # READ_ONLY
    PROVE  FirstFailureWins(o, DocumentedItems(c, p, r, h))
<1> DEFINE items == DocumentedItems(c, p, r, h)
           s == PermissionItems(c, p, r, h)
<1>1. Upto(10, items) /\ (label \in AfterRates => Upto(12, items))
  BY PermissionPassed
<1>2. p # None
  BY Zenon DEF Clear
<1>3. \A i \in 1 .. 7 : items[6 + i] = s[i]
  BY <1>2, ItemsAre
<1>4. \A k \in 1 .. 13 : Upto(k - 1, items) /\ o \in items[k].outcomes /\ ~items[k].absent =>
                            FirstFailureWins(o, items)
  BY <1>2, AnsweredItem
<1>5. /\ s[5].outcomes = {"GLOBAL_RATE_LIMIT_EXCEEDED", "TOOL_RATE_LIMIT_EXCEEDED"}
      /\ s[6].outcomes = {"POLICY_HOOK_DENIED"}
      /\ s[7].outcomes = {"APPROVAL_REQUIRED"}
  BY PermissionOutcomes
<1>6. /\ s[5].absent <=> MaxActions = None /\ (r = None \/ r.maxCalls = None)
      /\ s[6].absent <=> Hooks = 0
      /\ s[7].absent <=> /\ ~p.approval /\ "no_human" \in h
                         /\ "no_recommend" \in h \/ c.mode = READ_ONLY
  BY PermissionItemFields
<1>7. FirstFailureWins(o, items) => FirstFailureWins(o, DocumentedItems(c, p, r, h))
  OBVIOUS
<1> HIDE DEF s, items
<1>8. items[11] = s[5] /\ items[12] = s[6] /\ items[13] = s[7]
  <2>1. items[6 + 5] = s[5] /\ items[6 + 6] = s[6] /\ items[6 + 7] = s[7]
    BY ONLY <1>3
  <2> QED
    BY ONLY <2>1
<1>9. CASE \/ o = "GLOBAL_RATE_LIMIT_EXCEEDED" /\ MaxActions # None
           \/ o = "TOOL_RATE_LIMIT_EXCEEDED" /\ r # None /\ r.maxCalls # None
  <2>1. o \in items[11].outcomes /\ ~items[11].absent
    BY <1>5, <1>6, <1>8, <1>9
  <2> QED
    BY <1>1, <1>4, <1>7, <2>1
<1>10. CASE label = "hooks" /\ o = "POLICY_HOOK_DENIED" /\ Hooks # 0
  <2>1. o \in items[12].outcomes /\ ~items[12].absent
    BY <1>5, <1>6, <1>8, <1>10
  <2>2. Upto(12, items)
    BY <1>1, <1>10 DEF AfterRates, AfterGlobal, AfterPermission, AfterGates,
                       AfterQuarantine, AfterKill
  <2>3. Upto(11, items)
    BY <2>2 DEF Upto
  <2> QED
    BY <1>4, <1>7, <2>1, <2>3
<1>11. CASE /\ label \in {"approval", "approval_mode"} /\ o = "APPROVAL_REQUIRED"
            /\ \/ p.approval \/ "no_human" \notin h
               \/ "no_recommend" \notin h /\ c.mode # READ_ONLY
  <2>1. o \in items[13].outcomes /\ ~items[13].absent
    BY <1>5, <1>6, <1>8, <1>11
  <2>2. Upto(12, items)
    BY <1>1, <1>11 DEF AfterRates, AfterGlobal, AfterPermission, AfterGates,
                       AfterQuarantine, AfterKill
  <2> QED
    BY <1>4, <1>7, <2>1, <2>2
<1> QED
  BY <1>9, <1>10, <1>11

LEMMA AllowedLast ==
    ASSUME NEW c, NEW p, NEW r, NEW h, Clear("approval_mode", c, p, r, h),
           "recommend" \in h => c.mode = READ_ONLY
    PROVE  FirstFailureWins("ALLOW", DocumentedItems(c, p, r, h))
<1> DEFINE items == DocumentedItems(c, p, r, h)
           s == PermissionItems(c, p, r, h)
<1>1. Upto(12, items) /\ DOMAIN items = 1 .. 13
  BY PermissionPassed DEF AfterRates, AfterGlobal, AfterPermission, AfterGates,
                          AfterQuarantine, AfterKill
<1>2. p # None /\ ~p.approval /\ "human" \notin h
  BY Zenon DEF Clear, AfterPermission, AfterGates, AfterQuarantine, AfterKill
<1>3. \A i \in 1 .. 7 : items[6 + i] = s[i]
  BY <1>2, ItemsAre
<1>4. ~s[7].stands
  BY <1>2, PermissionItemFields
<1> HIDE DEF s, items
<1>5. items[13] = s[7]
  <2>1. items[6 + 7] = s[7]
    BY ONLY <1>3
  <2> QED
    BY ONLY <2>1
<1>6. \A i \in 1 .. 13 : i \in 1 .. 12 \/ i = 13
  OBVIOUS
<1>7. FirstFailureWins("ALLOW", items)
  BY <1>1, <1>4, <1>5, <1>6, AllowedInOrder DEF Upto
<1> QED
  BY <1>7 DEF items

(***************************************************************************)
(* The steps.  A thread on its own place of a call, and all the others.    *)
(***************************************************************************)
LEMMA LostHold ==
    ASSUME OrderInv, NEW u \in Threads, pc[u] # "idle", UNCHANGED settings, Observe
    PROVE  /\ held'[u] \subseteq held[u]
           /\ killFlag => "disengaged" \notin held'[u]
           /\ KillSwitchEnv /\ processEnv => "disengaged" \notin held'[u]
           /\ ~killFlag => "flag" \notin held'[u]
           /\ ~(KillSwitchEnv /\ processEnv) => "env" \notin held'[u]
           /\ Quarantined => "unquarantined" \notin held'[u]
           /\ ~Quarantined => "quarantined" \notin held'[u]
           /\ period = "valid" => "invalid" \notin held'[u]
           /\ period # "valid" => "valid" \notin held'[u]
           /\ autonomy = HUMAN_APPROVAL_REQUIRED => "no_human" \notin held'[u]
           /\ autonomy # HUMAN_APPROVAL_REQUIRED => "human" \notin held'[u]
           /\ autonomy = RECOMMEND_ONLY => "no_recommend" \notin held'[u]
           /\ autonomy # RECOMMEND_ONLY => "recommend" \notin held'[u]
<1>1. held'[u] \subseteq held[u] \cap InForce'
  BY Observed
<1>2. /\ "disengaged" \in InForce' <=> ~killFlag /\ ~(KillSwitchEnv /\ processEnv)
      /\ "unquarantined" \in InForce' <=> ~Quarantined
      /\ "valid" \in InForce' <=> period = "valid"
      /\ "invalid" \in InForce' <=> period # "valid"
      /\ "no_human" \in InForce' <=> autonomy # HUMAN_APPROVAL_REQUIRED
      /\ "no_recommend" \in InForce' <=> autonomy # RECOMMEND_ONLY
  BY DEF InForce, Conditions, settings, Quarantined
<1> QED
  BY <1>1, <1>2, InForceMembers

OthersUntouched(u) ==
    \A t \in Threads : t # u =>
        /\ pc'[t] = pc[t] /\ outcome'[t] = outcome[t] /\ call'[t] = call[t]
        /\ perm'[t] = perm[t] /\ ratePerm'[t] = ratePerm[t]

LEMMA OrderUntouched ==
    ASSUME NEW t \in Threads, OrderOf(t), Observe,
           pc'[t] = pc[t], outcome'[t] = outcome[t], call'[t] = call[t],
           perm'[t] = perm[t], ratePerm'[t] = ratePerm[t]
    PROVE  OrderOf(t)'
<1>1. CASE pc[t] = "idle"
  BY <1>1 DEF OrderOf, Clear, At, AfterKill, AfterQuarantine, AfterGates,
              AfterPermission, AfterGlobal, AfterRates
<1>2. CASE pc[t] # "idle"
  <2>1. held'[t] \subseteq held[t]
    BY <1>2, Observed
  <2>2. Clear(pc[t], call[t], perm[t], ratePerm[t], held'[t])
    BY <2>1, ClearShrinks DEF OrderOf
  <2>3. pc[t] = "return" =>
          FirstFailureWins(outcome[t],
                           DocumentedItems(call[t], perm[t], ratePerm[t], held'[t]))
    BY <2>1, OrderShrinks DEF OrderOf, At
  <2> QED
    BY <2>2, <2>3 DEF OrderOf, At
<1> QED
  BY <1>1, <1>2

LEMMA OrderMoves ==
    ASSUME OrderInv, Observe, NEW u \in Threads, OthersUntouched(u),
           DOMAIN perm' = Threads, DOMAIN ratePerm' = Threads, OrderOf(u)'
    PROVE  OrderInv'
<1>1. ASSUME NEW t \in Threads, t # u PROVE OrderOf(t)'
  BY <1>1, OrderUntouched DEF OrderInv, OthersUntouched
<1> QED
  BY <1>1 DEF OrderInv

(***************************************************************************)
(* A step within a call goes on to a place it is clear for, or decides in  *)
(* order.                                                                  *)
(***************************************************************************)
LEMMA GoesOn ==
    ASSUME TypeOK, OrderInv, Observe, NEW u \in Threads, NEW label \in Pcs \ {"return"},
           Goto(u, label), call' = call, OthersUntouched(u),
           DOMAIN perm' = Threads, DOMAIN ratePerm' = Threads,
           Clear(label, call[u], perm'[u], ratePerm'[u], held'[u])
    PROVE  OrderInv'
<1>1. pc'[u] = label
  BY DEF TypeOK, Goto
<1>2. OrderOf(u)'
  BY <1>1 DEF OrderOf, At
<1> QED
  BY <1>2, OrderMoves

LEMMA DecidesInOrder ==
    ASSUME TypeOK, OrderInv, Observe, NEW u \in Threads, NEW o,
           Decided(u, o), call' = call, OthersUntouched(u),
           DOMAIN perm' = Threads, DOMAIN ratePerm' = Threads,
           FirstFailureWins(o, DocumentedItems(call[u], perm'[u], ratePerm'[u], held'[u]))
    PROVE  OrderInv'
<1>1. pc'[u] = "return" /\ outcome'[u] = o
  BY DEF TypeOK, Decided
<1>2. OrderOf(u)'
  BY <1>1 DEF OrderOf, Clear, At, AfterKill, AfterQuarantine, AfterGates,
              AfterPermission, AfterGlobal, AfterRates
<1> QED
  BY <1>2, OrderMoves

LEMMA FirstReadsInOrder ==
    ASSUME TypeOK, OrderInv, Observe, NEW u \in Threads,
           ReadKillFlag(u) \/ ReadKillEnv(u) \/ CheckQuarantine(u) \/ CheckGates(u)
    PROVE  OrderInv'
<1>1. /\ call' = call /\ perm' = perm /\ ratePerm' = ratePerm /\ UNCHANGED settings
      /\ pc[u] \in {"kill_flag", "kill_env", "quarantine", "gates"}
      /\ DOMAIN perm' = Threads /\ DOMAIN ratePerm' = Threads
  BY DEF ReadKillFlag, ReadKillEnv, CheckQuarantine, CheckGates, locals, At, OrderInv
<1>2. OthersUntouched(u)
  BY <1>1 DEF OthersUntouched, ReadKillFlag, ReadKillEnv, CheckQuarantine, CheckGates,
              Goto, Decided, TypeOK
<1>3. Clear(pc[u], call[u], perm[u], ratePerm[u], held'[u])
  BY <1>1, LostHold, ClearShrinks DEF OrderInv, OrderOf
<1>4. CASE ReadKillFlag(u)
  <2>1. CASE killFlag
    <3>1. Decided(u, "KILL_SWITCH_ACTIVE") /\ "disengaged" \notin held'[u]
      BY <1>1, <1>4, <2>1, LostHold DEF ReadKillFlag
    <3>2. FirstFailureWins("KILL_SWITCH_ACTIVE",
                           DocumentedItems(call[u], perm'[u], ratePerm'[u], held'[u]))
      BY <1>1, <1>3, <3>1, SettingDenied
    <3> QED
      BY <1>1, <1>2, <3>1, <3>2, DecidesInOrder
  <2>2. CASE ~killFlag
    <3>1. PICK label \in {"kill_env", "quarantine"} :
            /\ Goto(u, label)
            /\ label = "kill_env" <=> KillSwitchEnv
      BY <1>4, <2>2 DEF ReadKillFlag
    <3>2. "flag" \notin held'[u] /\ (label = "quarantine" => "env" \notin held'[u])
      BY <1>1, <2>2, <3>1, LostHold
    <3>3. Clear(label, call[u], perm'[u], ratePerm'[u], held'[u])
      BY <3>1, <3>2 DEF Clear, AfterKill, AfterQuarantine, AfterGates,
                        AfterPermission, AfterGlobal, AfterRates
    <3> QED
      BY <1>1, <1>2, <3>1, <3>3, GoesOn DEF Pcs
  <2> QED
    BY <2>1, <2>2
<1>5. CASE ReadKillEnv(u)
  <2>1. KillSwitchEnv /\ "flag" \notin held'[u]
    BY <1>3, <1>5 DEF Clear, ReadKillEnv, At
  <2>2. CASE processEnv
    <3>1. Decided(u, "KILL_SWITCH_ACTIVE") /\ "disengaged" \notin held'[u]
      BY <1>1, <1>5, <2>1, <2>2, LostHold DEF ReadKillEnv
    <3>2. FirstFailureWins("KILL_SWITCH_ACTIVE",
                           DocumentedItems(call[u], perm'[u], ratePerm'[u], held'[u]))
      BY <1>1, <1>3, <3>1, SettingDenied
    <3> QED
      BY <1>1, <1>2, <3>1, <3>2, DecidesInOrder
  <2>3. CASE ~processEnv
    <3>1. Goto(u, "quarantine") /\ "env" \notin held'[u]
      BY <1>1, <1>5, <2>3, LostHold DEF ReadKillEnv
    <3>2. Clear("quarantine", call[u], perm'[u], ratePerm'[u], held'[u])
      BY <2>1, <3>1 DEF Clear, AfterKill, AfterQuarantine, AfterGates,
                        AfterPermission, AfterGlobal, AfterRates
    <3> QED
      BY <1>1, <1>2, <3>1, <3>2, GoesOn DEF Pcs
  <2> QED
    BY <2>2, <2>3
<1>6. CASE CheckQuarantine(u)
  <2>1. pc[u] = "quarantine"
    BY <1>6 DEF CheckQuarantine, At
  <2>2. CASE Quarantined
    <3>1. Decided(u, "AGENT_QUARANTINED") /\ "unquarantined" \notin held'[u]
      BY <1>1, <1>6, <2>2, LostHold DEF CheckQuarantine
    <3>2. FirstFailureWins("AGENT_QUARANTINED",
                           DocumentedItems(call[u], perm'[u], ratePerm'[u], held'[u]))
      BY <1>1, <1>3, <2>1, <3>1, SettingDenied
    <3> QED
      BY <1>1, <1>2, <3>1, <3>2, DecidesInOrder
  <2>3. CASE ~Quarantined
    <3>1. Goto(u, "gates") /\ "quarantined" \notin held'[u]
      BY <1>1, <1>6, <2>3, LostHold DEF CheckQuarantine
    <3>2. Clear("gates", call[u], perm'[u], ratePerm'[u], held'[u])
      BY <1>3, <2>1, <3>1 DEF Clear, AfterKill, AfterQuarantine, AfterGates,
                              AfterPermission, AfterGlobal, AfterRates
    <3> QED
      BY <1>1, <1>2, <3>1, <3>2, GoesOn DEF Pcs
  <2> QED
    BY <2>2, <2>3
<1>7. CASE CheckGates(u)
  <2>1. pc[u] = "gates"
    BY <1>7 DEF CheckGates, At
  <2>2. PICK v : v = FirstFailure(GateChecks(call[u]))
    OBVIOUS
  <2>3. CASE v # None
    <3>1. Decided(u, v)
      BY <1>7, <2>2, <2>3 DEF CheckGates
    <3>2. FirstFailureWins(v, DocumentedItems(call[u], perm[u], ratePerm[u], held'[u]))
      <4>1. CASE v = "OUTSIDE_VALID_PERIOD" /\ period # "valid"
        BY <1>1, <1>3, <2>1, <4>1, LostHold, SettingDenied
      <4>2. CASE v = "ENVIRONMENT_NOT_ALLOWED" /\ period = "valid" /\ ~EnvironmentAllowed
        BY <1>1, <1>3, <2>1, <4>2, LostHold, SettingDenied
      <4>3. CASE /\ v = "OPERATION_BLOCKED" /\ period = "valid" /\ EnvironmentAllowed
                 /\ call[u].op # None /\ call[u].op \in BlockedOperations
        BY <1>1, <1>3, <2>1, <4>3, LostHold, SettingDenied
      <4> QED
        BY <2>2, <2>3, <4>1, <4>2, <4>3, FirstGate
    <3> QED
      BY <1>1, <1>2, <3>1, <3>2, DecidesInOrder
  <2>4. CASE v = None
    <3>1. Goto(u, "permission")
      BY <1>7, <2>2, <2>4 DEF CheckGates
    <3>2. /\ period = "valid" /\ EnvironmentAllowed
          /\ ~(call[u].op # None /\ call[u].op \in BlockedOperations)
      BY <2>2, <2>4, NoGateFails
    <3>3. "invalid" \notin held'[u]
      BY <1>1, <3>2, LostHold
    <3>4. Clear("permission", call[u], perm[u], ratePerm[u], held'[u])
      BY <1>3, <2>1, <3>2, <3>3 DEF Clear, AfterKill, AfterQuarantine, AfterGates,
                                    AfterPermission, AfterGlobal, AfterRates
    <3> QED
      BY <1>1, <1>2, <3>1, <3>4, GoesOn DEF Pcs
  <2> QED
    BY <2>3, <2>4
<1> QED
  BY <1>4, <1>5, <1>6, <1>7

LEMMA PermissionInOrder ==
    ASSUME TypeOK, OrderInv, Observe, NEW u \in Threads, CheckPermission(u)
    PROVE  OrderInv'
<1>1. /\ call' = call /\ ratePerm' = ratePerm /\ UNCHANGED settings
      /\ pc[u] = "permission"
      /\ DOMAIN perm' = Threads /\ DOMAIN ratePerm' = Threads
  BY DEF CheckPermission, At, OrderInv
<1>2. OthersUntouched(u)
  BY <1>1 DEF OthersUntouched, CheckPermission, Goto, Decided, TypeOK, OrderInv
<1>3. PICK p : p = permissions[call[u].tool]
  OBVIOUS
<1>4. perm'[u] = p
  BY <1>3 DEF CheckPermission, OrderInv
<1>5. Clear("permission", call[u], p, ratePerm[u], held'[u])
  <2>1. Clear("permission", call[u], perm[u], ratePerm[u], held'[u])
    BY <1>1, LostHold, ClearShrinks DEF OrderInv, OrderOf
  <2> QED
    BY <2>1 DEF Clear, AfterKill, AfterQuarantine, AfterGates, AfterPermission,
                AfterGlobal, AfterRates
<1>6. CASE p = None
  <2>1. Decided(u, "TOOL_NOT_ALLOWED")
    BY <1>3, <1>6, BoundaryAssumption DEF CheckPermission, Decisions
  <2>2. FirstFailureWins("TOOL_NOT_ALLOWED",
                         DocumentedItems(call[u], p, ratePerm[u], held'[u]))
    BY <1>5, <1>6, SettingDenied
  <2> QED
    BY <1>1, <1>2, <1>4, <2>1, <2>2, DecidesInOrder
<1>7. CASE p # None
  <2>1. PICK v : v = PermissionVerdict(StrictLimits, p, call[u])
    OBVIOUS
  <2>2. CASE v # None
    <3>1. Decided(u, v)
      BY <1>3, <1>7, <2>1, <2>2 DEF CheckPermission
    <3>2. FirstFailureWins(v, DocumentedItems(call[u], p, ratePerm[u], held'[u]))
      BY <1>5, <1>7, <2>1, <2>2, PermissionDenied
    <3> QED
      BY <1>1, <1>2, <1>4, <3>1, <3>2, DecidesInOrder
  <2>3. CASE v = None
    <3>1. Goto(u, "rate_global")
      BY <1>3, <1>7, <2>1, <2>3 DEF CheckPermission
    <3>2. Clear("rate_global", call[u], p, ratePerm[u], held'[u])
      BY <1>5, <1>7, <2>1, <2>3 DEF Clear, AfterKill, AfterQuarantine, AfterGates,
                                    AfterPermission, AfterGlobal, AfterRates
    <3> QED
      BY <1>1, <1>2, <1>4, <3>1, <3>2, GoesOn DEF Pcs
  <2> QED
    BY <2>2, <2>3
<1> QED
  BY <1>6, <1>7

LEMMA RatesInOrder ==
    ASSUME SlotInv, OrderInv, Observe, NEW u \in Threads,
           CheckGlobalRate(u) \/ CheckToolRate(u)
    PROVE  OrderInv'
<1>1. /\ call' = call /\ perm' = perm /\ UNCHANGED settings
      /\ pc[u] \in {"rate_global", "rate_tool"}
      /\ DOMAIN perm' = Threads /\ DOMAIN ratePerm' = Threads
  BY DEF CheckGlobalRate, CheckToolRate, At, OrderInv, locals
<1>0. TypeOK
  BY DEF SlotInv
<1>2. OthersUntouched(u)
  BY <1>0, <1>1 DEF OthersUntouched, CheckGlobalRate, CheckToolRate, Goto, Decided, TypeOK,
              OrderInv, locals
<1>3. Clear(pc[u], call[u], perm[u], ratePerm[u], held'[u])
  BY <1>1, LostHold, ClearShrinks DEF OrderInv, OrderOf
<1>4. CASE CheckGlobalRate(u)
  <2>1. PICK r : r = ratePerm'[u]
    OBVIOUS
  <2>2. pc[u] = "rate_global"
    BY <1>4 DEF CheckGlobalRate, At
  <2>3. Clear("rate_global", call[u], perm[u], r, held'[u])
    BY <1>3, <2>2 DEF Clear, AfterKill, AfterQuarantine, AfterGates, AfterPermission,
                      AfterGlobal, AfterRates
  <2>4. \/ Goto(u, "rate_tool") /\ MaxActions # 0
        \/ Decided(u, "GLOBAL_RATE_LIMIT_EXCEEDED") /\ MaxActions # None
    <3>1. None # 0 /\ used[Global] \in Nat
      BY <1>0, SentinelAssumption DEF TypeOK, Keys
    <3>2. MaxActions = 0 => ~HasSlot(Global, MaxActions)
      BY <3>1 DEF HasSlot
    <3> QED
      BY <1>4, <3>1, <3>2 DEF CheckGlobalRate
  <2>5. CASE Goto(u, "rate_tool") /\ MaxActions # 0
    <3>1. Clear("rate_tool", call[u], perm[u], r, held'[u])
      BY <2>3, <2>5 DEF Clear, AfterKill, AfterQuarantine, AfterGates, AfterPermission,
                        AfterGlobal, AfterRates
    <3> QED
      BY <1>1, <1>2, <2>1, <2>5, <3>1, <1>0, GoesOn DEF Pcs
  <2>6. CASE Decided(u, "GLOBAL_RATE_LIMIT_EXCEEDED") /\ MaxActions # None
    <3>1. FirstFailureWins("GLOBAL_RATE_LIMIT_EXCEEDED",
                           DocumentedItems(call[u], perm[u], r, held'[u]))
      BY <2>3, <2>6, LateDenied DEF AfterKill, AfterQuarantine, AfterGates,
                                    AfterPermission
    <3> QED
      BY <1>1, <1>2, <2>1, <2>6, <3>1, <1>0, DecidesInOrder
  <2> QED
    BY <2>4, <2>5, <2>6
<1>5. CASE CheckToolRate(u)
  <2>1. /\ ratePerm' = ratePerm /\ pc[u] = "rate_tool"
        /\ Clear("rate_tool", call[u], perm[u], ratePerm[u], held'[u])
    BY <1>3, <1>5 DEF CheckToolRate, At, locals
  <2>2. PICK r : r = ratePerm[u]
    OBVIOUS
  <2>3. \/ Goto(u, "hooks") /\ ~(r # None /\ r.maxCalls = 0)
        \/ Decided(u, "TOOL_RATE_LIMIT_EXCEEDED") /\ r # None /\ r.maxCalls # None
    <3>1. None # 0
      BY SentinelAssumption
    <3>2. \/ /\ r = None \/ r.maxCalls = None
             /\ Goto(u, "hooks")
          \/ /\ r # None /\ r.maxCalls # None /\ HasSlot(call[u].tool, r.maxCalls)
             /\ used' = [used EXCEPT ![call[u].tool] = @ + 1]
             /\ Goto(u, "hooks")
          \/ r # None /\ r.maxCalls # None /\ Decided(u, "TOOL_RATE_LIMIT_EXCEEDED")
      BY <1>5, <2>2, Zenon DEF CheckToolRate, TakeSlot
    <3>3. used[call[u].tool] \in Nat
      BY <2>1, BoundaryAssumption DEF SlotInv, TypeOK, Keys
    <3>4. r.maxCalls = 0 => ~HasSlot(call[u].tool, r.maxCalls)
      BY <3>3 DEF HasSlot
    <3> QED
      BY <3>1, <3>2, <3>4
  <2>4. CASE Goto(u, "hooks") /\ ~(r # None /\ r.maxCalls = 0)
    <3>1. Clear("hooks", call[u], perm[u], r, held'[u])
      BY <2>1, <2>2, <2>4 DEF Clear, AfterKill, AfterQuarantine, AfterGates,
                              AfterPermission, AfterGlobal, AfterRates
    <3> QED
      BY <1>1, <1>2, <2>1, <2>2, <2>4, <3>1, <1>0, GoesOn DEF Pcs
  <2>5. CASE Decided(u, "TOOL_RATE_LIMIT_EXCEEDED") /\ r # None /\ r.maxCalls # None
    <3>1. FirstFailureWins("TOOL_RATE_LIMIT_EXCEEDED",
                           DocumentedItems(call[u], perm[u], r, held'[u]))
      BY <2>1, <2>2, <2>5, LateDenied DEF AfterKill, AfterQuarantine, AfterGates,
                                          AfterPermission
    <3> QED
      BY <1>1, <1>2, <2>1, <2>2, <2>5, <3>1, <1>0, DecidesInOrder
  <2> QED
    BY <2>3, <2>4, <2>5
<1> QED
  BY <1>4, <1>5

LEMMA LastStepsInOrder ==
    ASSUME TypeOK, OrderInv, Observe, NEW u \in Threads,
           RunHook(u) \/ HooksDone(u) \/ CheckApproval(u) \/ CheckApprovalMode(u)
    PROVE  OrderInv'
<1>1. /\ call' = call /\ perm' = perm /\ ratePerm' = ratePerm /\ UNCHANGED settings
      /\ pc[u] \in {"hooks", "approval", "approval_mode"}
      /\ DOMAIN perm' = Threads /\ DOMAIN ratePerm' = Threads
  BY DEF RunHook, HooksDone, CheckApproval, CheckApprovalMode, At, OrderInv, locals
<1>2. OthersUntouched(u)
  BY <1>1 DEF OthersUntouched, RunHook, HooksDone, CheckApproval, CheckApprovalMode,
              Goto, Decided, TypeOK
<1>3. /\ Clear(pc[u], call[u], perm'[u], ratePerm'[u], held'[u])
      /\ pc[u] \in AfterPermission
  BY <1>1, LostHold, ClearShrinks DEF OrderInv, OrderOf, AfterKill, AfterQuarantine,
                                      AfterGates, AfterPermission
<1>4. CASE RunHook(u)
  <2>1. pc[u] = "hooks" /\ Hooks # 0
    BY <1>4, BoundaryAssumption DEF RunHook, At, TypeOK
  <2>2. Goto(u, "hooks") \/ Decided(u, "POLICY_HOOK_DENIED")
    BY <1>4 DEF RunHook
  <2>3. CASE Goto(u, "hooks")
    BY <1>1, <1>2, <1>3, <2>1, <2>3, GoesOn DEF Pcs
  <2>4. CASE Decided(u, "POLICY_HOOK_DENIED")
    <3>1. FirstFailureWins("POLICY_HOOK_DENIED",
                           DocumentedItems(call[u], perm'[u], ratePerm'[u], held'[u]))
      BY <1>3, <2>1, LateDenied
    <3> QED
      BY <1>1, <1>2, <2>4, <3>1, DecidesInOrder
  <2> QED
    BY <2>2, <2>3, <2>4
<1>5. CASE HooksDone(u)
  <2>1. pc[u] = "hooks" /\ Goto(u, "approval")
    BY <1>5 DEF HooksDone, At
  <2>2. Clear("approval", call[u], perm'[u], ratePerm'[u], held'[u])
    BY <1>3, <2>1 DEF Clear, AfterKill, AfterQuarantine, AfterGates, AfterPermission,
                      AfterGlobal, AfterRates
  <2> QED
    BY <1>1, <1>2, <2>1, <2>2, GoesOn DEF Pcs
<1>6. ASSUME Decided(u, "APPROVAL_REQUIRED"), pc[u] \in {"approval", "approval_mode"},
             \/ perm[u].approval \/ autonomy = HUMAN_APPROVAL_REQUIRED
             \/ autonomy = RECOMMEND_ONLY /\ call[u].mode # READ_ONLY
      PROVE  OrderInv'
  <2>1. \/ perm'[u].approval \/ "no_human" \notin held'[u]
        \/ "no_recommend" \notin held'[u] /\ call[u].mode # READ_ONLY
    BY <1>1, <1>6, LostHold
  <2>2. FirstFailureWins("APPROVAL_REQUIRED",
                         DocumentedItems(call[u], perm'[u], ratePerm'[u], held'[u]))
    BY <1>3, <1>6, <2>1, LateDenied
  <2> QED
    BY <1>1, <1>2, <1>6, <2>2, DecidesInOrder
<1>7. CASE CheckApproval(u)
  <2>1. pc[u] = "approval"
    BY <1>7 DEF CheckApproval, At
  <2>2. CASE perm[u].approval \/ autonomy = HUMAN_APPROVAL_REQUIRED
    BY <1>6, <1>7, <2>1, <2>2, Zenon DEF CheckApproval
  <2>3. CASE ~(perm[u].approval \/ autonomy = HUMAN_APPROVAL_REQUIRED)
    <3>1. Goto(u, "approval_mode")
      BY <1>7, <2>3, Zenon DEF CheckApproval
    <3>2. ~perm'[u].approval /\ "human" \notin held'[u]
      BY <1>1, <2>3, LostHold
    <3>3. Clear("approval_mode", call[u], perm'[u], ratePerm'[u], held'[u])
      BY <1>3, <2>1, <3>2 DEF Clear, AfterKill, AfterQuarantine, AfterGates,
                              AfterPermission, AfterGlobal, AfterRates
    <3> QED
      BY <1>1, <1>2, <3>1, <3>3, GoesOn DEF Pcs
  <2> QED
    BY <2>2, <2>3
<1>8. CASE CheckApprovalMode(u)
  <2>1. pc[u] = "approval_mode"
    BY <1>8 DEF CheckApprovalMode, At
  <2>2. CASE autonomy = RECOMMEND_ONLY /\ call[u].mode # READ_ONLY
    BY <1>6, <1>8, <2>1, <2>2 DEF CheckApprovalMode
  <2>3. CASE ~(autonomy = RECOMMEND_ONLY /\ call[u].mode # READ_ONLY)
    <3>1. Decided(u, "ALLOW")
      BY <1>8, <2>3 DEF CheckApprovalMode
    <3>2. "recommend" \in held'[u] => call[u].mode = READ_ONLY
      BY <1>1, <2>3, LostHold
    <3>3. FirstFailureWins("ALLOW",
                           DocumentedItems(call[u], perm'[u], ratePerm'[u], held'[u]))
      BY <1>3, <2>1, <3>2, AllowedLast
    <3> QED
      BY <1>1, <1>2, <3>1, <3>3, DecidesInOrder
  <2> QED
    BY <2>2, <2>3
<1> QED
  BY <1>4, <1>5, <1>7, <1>8

LEMMA EndsInOrder ==
    ASSUME TypeOK, OrderInv, Observe, NEW u \in Threads, BeginCall(u) \/ Return(u)
    PROVE  OrderInv'
<1>1. DOMAIN perm' = Threads /\ DOMAIN ratePerm' = Threads
  BY DEF BeginCall, Return, OrderInv, locals
<1>2. OthersUntouched(u)
  <2>1. CASE BeginCall(u)
    BY <2>1 DEF OthersUntouched, BeginCall, TypeOK, OrderInv
  <2>2. CASE Return(u)
    BY <2>2 DEF OthersUntouched, Return, Goto, TypeOK, locals
  <2> QED
    BY <2>1, <2>2
<1>3. pc'[u] \in {"kill_flag", "idle"}
  BY DEF BeginCall, Return, Goto, TypeOK
<1>4. OrderOf(u)'
  BY <1>3 DEF OrderOf, Clear, At, AfterKill, AfterQuarantine, AfterGates,
              AfterPermission, AfterGlobal, AfterRates
<1> QED
  BY <1>1, <1>2, <1>4, OrderMoves

LEMMA HostKeepsOrder ==
    ASSUME OrderInv, Observe, HostStep
    PROVE  OrderInv'
<1>1. pc' = pc /\ outcome' = outcome /\ call' = call /\ perm' = perm /\ ratePerm' = ratePerm
  BY DEF HostStep, EngageKillSwitch, DisengageKillSwitch, SetProcessEnv,
         AssignAutonomy, AddPermission, PeriodPasses, threadVars, locals
<1> QED
  BY <1>1, OrderUntouched DEF OrderInv

LEMMA OrderStep ==
    SlotInv /\ OrderInv /\ [Next]_vars => OrderInv'
<1> SUFFICES ASSUME SlotInv, OrderInv, [Next]_vars PROVE OrderInv'
  OBVIOUS
<1>0. TypeOK
  BY DEF SlotInv
<1>1. CASE UNCHANGED vars
  BY <1>1 DEF vars, locals, OrderInv, OrderOf, At
<1>2. CASE Next
  <2>1. Observe /\ (HostStep \/ \E t \in Threads : ThreadStep(t))
    BY <1>2 DEF Next
  <2>2. ASSUME NEW u \in Threads, ThreadStep(u) PROVE OrderInv'
    BY <1>0, <2>1, <2>2, FirstReadsInOrder, PermissionInOrder, RatesInOrder,
       LastStepsInOrder, EndsInOrder DEF ThreadStep
  <2> QED
    BY <2>1, <2>2, HostKeepsOrder
<1> QED
  BY <1>1, <1>2

LEMMA OrderInit == Init => OrderInv
BY DEF Init, OrderInv, OrderOf, Clear, At, AfterKill, AfterQuarantine, AfterGates,
       AfterPermission, AfterGlobal, AfterRates

(***************************************************************************)
(* boundary.py 716-762: the decision of a call is the first failure in the *)
(* documented order, for any number of threads making any calls while the  *)
(* host throws the switches, moves the autonomy level and replaces the     *)
(* permissions under them.                                                 *)
(***************************************************************************)
THEOREM FirstFailureDecides == Spec => []DecidesInDocumentedOrder
<1>1. OrderInv => DecidesInDocumentedOrder
  BY DEF OrderInv, OrderOf, DecidesInDocumentedOrder
<1> QED
  BY <1>1, OrderInit, OrderStep, SlotInvariant, PTL DEF Spec
=============================================================================
