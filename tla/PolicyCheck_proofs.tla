-------------------------- MODULE PolicyCheck_proofs --------------------------
(***************************************************************************)
(* What a permission guarantees, for every set of permissions and calls.   *)
(***************************************************************************)
EXTENDS PolicyCheck, WellFoundedInduction, TLAPS

(***************************************************************************)
(* A set of check numbers with an element has a least one, so FirstFailure *)
(* gives the reason of a check that fails, and None only if none does.     *)
(***************************************************************************)
LEMMA LeastElement ==
    ASSUME NEW S \in SUBSET Nat, S # {}
    PROVE  \E i \in S : \A j \in S : i <= j
<1>1. PICK i \in S : \A j \in S : <<j, i>> \notin OpToRel(<, Nat)
  BY NatLessThanWellFounded, WFMin
<1>2. \A j \in S : ~(j < i)
  BY <1>1 DEF OpToRel
<1> QED
  BY <1>2

LEMMA FirstFailureFails ==
    ASSUME NEW checks, DOMAIN checks \subseteq Nat
    PROVE  \/ /\ FirstFailure(checks) = None
              /\ \A i \in DOMAIN checks : ~checks[i].fails
           \/ \E i \in DOMAIN checks :
                 checks[i].fails /\ FirstFailure(checks) = checks[i].reason
<1> DEFINE failing == {i \in DOMAIN checks : checks[i].fails}
           least == CHOOSE i \in failing : \A j \in failing : i <= j
<1>1. CASE failing = {}
  BY <1>1 DEF FirstFailure
<1>2. CASE failing # {}
  <2>1. failing \in SUBSET Nat
    OBVIOUS
  <2>2. \E i \in failing : \A j \in failing : i <= j
    BY <1>2, <2>1, LeastElement
  <2>3. least \in failing
    BY <2>2
  <2>4. FirstFailure(checks) = checks[least].reason
    BY <1>2 DEF FirstFailure
  <2> QED
    BY <2>3, <2>4
<1> QED
  BY <1>1, <1>2

(***************************************************************************)
(* The verdict on a permission is None, no check raised, exactly for the   *)
(* calls that get through all nine of them.                                *)
(***************************************************************************)
LEMMA NoVerdictMeansAdmitted ==
    ASSUME NEW s, NEW p, NEW c
    PROVE  PermissionVerdict(s, p, c) = None <=> Admits(s, p, c)
<1> DEFINE checks == PermissionChecks(s, p, c)
<1>1. DOMAIN checks = 1 .. 9 /\ \A i \in 1 .. 9 : checks[i].reason # None
  BY SentinelAssumption DEF PermissionChecks, PermissionReasons
<1>2. Admits(s, p, c) <=> \A i \in 1 .. 9 : ~checks[i].fails
  <2>1. Admits(s, p, c) <=>
          /\ ~checks[1].fails /\ ~checks[2].fails /\ ~checks[3].fails
          /\ ~checks[4].fails /\ ~checks[5].fails /\ ~checks[6].fails
          /\ ~checks[7].fails /\ ~checks[8].fails /\ ~checks[9].fails
    BY Zenon DEF Admits, PermissionChecks
  <2> HIDE DEF checks
  <2>2. 1 .. 9 = {1, 2, 3, 4, 5, 6, 7, 8, 9}
    OBVIOUS
  <2> QED
    BY <2>1, <2>2, Zenon
<1> HIDE DEF checks
<1>3. FirstFailure(checks) = None <=> \A i \in 1 .. 9 : ~checks[i].fails
  BY <1>1, FirstFailureFails
<1> QED
  BY <1>2, <1>3 DEF PermissionVerdict, checks

(***************************************************************************)
(* float() of an integer is an integer no further than a quarter away.     *)
(***************************************************************************)
LEMMA NearestIsNear ==
    ASSUME NEW n \in Int
    PROVE  Nearest(n) \in Int /\ n - 1 <= Nearest(n) /\ Nearest(n) <= n + 1
BY DEF Nearest

LEMMA FiniteNumbers ==
    ASSUME NEW v \in {None, Junk} \cup Int
    PROVE  /\ AsFiniteNumber(v) \in Int \cup {None}
           /\ AsFiniteNumber(v) # None <=> v \in Int
           /\ v \in Int => AsFiniteNumber(v) = Nearest(v)
BY NearestIsNear, SentinelAssumption DEF AsFiniteNumber

(***************************************************************************)
(* Each check that a tighter permission passes, the wider one passes.      *)
(***************************************************************************)
LEMMA WiderAdmits ==
    ASSUME NEW s, NEW p \in Permission, NEW q \in Permission, NEW c \in CallContext,
           Tighter(p, q), Admits(s, p, c)
    PROVE  Admits(s, q, c)
<1> DEFINE v == AsFiniteNumber(c.value)
           n == AsFiniteNumber(c.records)
<1>1. /\ v \in Int \cup {None} /\ n \in Int \cup {None}
      /\ c.mode \in Int /\ p.mode \in Int /\ q.mode \in Int
      /\ {p.maxValue, q.maxValue, p.minValue, q.minValue, p.maxRecords, q.maxRecords}
             \subseteq Int \cup {None}
  BY FiniteNumbers DEF CallContext, Permission, Floats, AccessMode, READ_ONLY, ADMIN
<1>2. None \notin Int
  BY SentinelAssumption
<1>3. OperationAllowed(q, c.op)
  BY DEF Admits, OperationAllowed, Tighter
<1>4. ~AccessModeExceeded(q, c)
  BY <1>1 DEF Admits, AccessModeExceeded, Tighter
<1>5. ~ValueRequired(s, q, c) /\ ~InvalidValue(q, c)
  BY DEF Admits, ValueRequired, InvalidValue, Tighter, NoWider
<1>6. ~BelowMinimum(q, c)
  BY <1>1, <1>2 DEF Admits, BelowMinimum, Tighter
<1>7. ~AboveMaximum(q, c)
  BY <1>1, <1>2 DEF Admits, AboveMaximum, Tighter, NoWider
<1>8. ~RecordsRequired(s, q, c) /\ ~InvalidRecords(q, c)
  BY DEF Admits, RecordsRequired, InvalidRecords, Tighter, NoWider
<1>9. ~TooManyRecords(q, c)
  BY <1>1, <1>2 DEF Admits, TooManyRecords, Tighter, NoWider
<1> QED
  BY <1>3, <1>4, <1>5, <1>6, <1>7, <1>8, <1>9 DEF Admits

-----------------------------------------------------------------------------

(***************************************************************************)
(* The inductive invariant: the inputs are fixed and a verdict is the one  *)
(* on them.                                                                *)
(***************************************************************************)
VerdictInv ==
    /\ perm \in Permissions
    /\ ctx \in Contexts
    /\ verdict \in {"pending", PermissionVerdict(strict, perm, ctx)}

LEMMA VerdictInvariant == Spec => []VerdictInv
<1>1. Init => VerdictInv
  BY DEF Init, VerdictInv
<1>2. VerdictInv /\ [Next]_vars => VerdictInv'
  BY DEF VerdictInv, Next, Decide, vars
<1> QED
  BY <1>1, <1>2, PTL DEF Spec

LEMMA AdmittedWhenAllowed ==
    ASSUME VerdictInv, verdict = None
    PROVE  /\ Admits(strict, perm, ctx)
           /\ perm \in Permission /\ ctx \in CallContext
BY NoVerdictMeansAdmitted, PermissionsAssumption, ContextsAssumption, PendingAssumption
   DEF VerdictInv

(***************************************************************************)
(* boundary.py 789-891 with permissions.py 68-73: a call let through under *)
(* a permission is let through under every wider one, for any permissions  *)
(* and calls whatever.                                                     *)
(***************************************************************************)
THEOREM TighteningIsMonotone == Spec => []TighteningNeverAllows
<1>1. VerdictInv => TighteningNeverAllows
  <2> SUFFICES ASSUME VerdictInv, verdict = None, NEW q \in Permissions, Tighter(perm, q)
               PROVE  PermissionVerdict(strict, q, ctx) = None
    BY DEF TighteningNeverAllows
  <2>1. q \in Permission
    BY PermissionsAssumption
  <2>2. Admits(strict, q, ctx)
    BY <2>1, AdmittedWhenAllowed, WiderAdmits
  <2> QED
    BY <2>2, NoVerdictMeansAdmitted
<1> QED
  BY <1>1, VerdictInvariant, PTL

(***************************************************************************)
(* boundary.py 816-891 under strict_limits: a call let through under a     *)
(* maximum carries an amount, within the maximum but for what float()      *)
(* rounds off, and a whole number of records.                              *)
(***************************************************************************)
THEOREM StrictLimitsHold == Spec => []StrictLimitsLeaveNoHole
<1>1. VerdictInv => StrictLimitsLeaveNoHole
  <2> SUFFICES ASSUME VerdictInv, verdict = None, strict
               PROVE  StrictLimitsLeaveNoHole
    BY DEF StrictLimitsLeaveNoHole
  <2>1. Admits(strict, perm, ctx) /\ perm \in Permission /\ ctx \in CallContext
    BY AdmittedWhenAllowed
  <2>2. None \notin Int
    BY SentinelAssumption
  <2>3. ASSUME perm.maxValue # None
        PROVE  ctx.value \in Int /\ ctx.value <= perm.maxValue + 1
    <3>1. AsFiniteNumber(ctx.value) # None
      BY <2>1, <2>3 DEF Admits, ValueRequired, InvalidValue
    <3>2. ctx.value \in Int /\ AsFiniteNumber(ctx.value) = Nearest(ctx.value)
      BY <2>1, <3>1, FiniteNumbers DEF CallContext
    <3>3. ~(Nearest(ctx.value) > perm.maxValue) /\ perm.maxValue \in Int
      BY <2>1, <2>3, <3>1, <3>2 DEF Admits, AboveMaximum, Permission, Floats
    <3> QED
      BY <3>2, <3>3, NearestIsNear
  <2>4. ASSUME perm.maxRecords # None
        PROVE  /\ ctx.records \in Int
               /\ Nearest(ctx.records) \in {One * k : k \in 0 .. perm.maxRecords}
               /\ ctx.records <= perm.maxRecords + 1
    <3> DEFINE n == Nearest(ctx.records)
    <3>1. AsFiniteNumber(ctx.records) # None
      BY <2>1, <2>4 DEF Admits, RecordsRequired, InvalidRecords
    <3>2. ctx.records \in Int /\ AsFiniteNumber(ctx.records) = n
      BY <2>1, <3>1, FiniteNumbers DEF CallContext
    <3>3. n \in Int /\ ctx.records <= n + 1
      BY <3>2, NearestIsNear
    <3>4. ~(n < 0) /\ n % One = 0
      BY <2>1, <2>2, <2>4, <3>1, <3>2 DEF Admits, InvalidRecords
    <3>5. ~(n > perm.maxRecords) /\ perm.maxRecords \in Int
      BY <2>1, <2>4, <3>1, <3>2 DEF Admits, TooManyRecords, Permission
    <3> HIDE DEF n
    <3>6. n = One * (n \div One) /\ n \div One \in 0 .. perm.maxRecords
      BY <3>3, <3>4, <3>5 DEF One
    <3>7. n \in {One * k : k \in 0 .. perm.maxRecords}
      BY <3>6
    <3>8. ctx.records <= perm.maxRecords + 1
      BY <3>2, <3>3, <3>5
    <3> QED
      BY <3>2, <3>7, <3>8 DEF n
  <2> QED
    BY <2>3, <2>4 DEF StrictLimitsLeaveNoHole
<1> QED
  BY <1>1, VerdictInvariant, PTL
=============================================================================
