--------------------------- MODULE TokenGate_proofs ---------------------------
(***************************************************************************)
(* Proofs about tokens and the threads that serve them, for any number of  *)
(* handlers, tokens, tools and routes, and any suspension of any thread.   *)
(***************************************************************************)
EXTENDS TokenGate, FiniteSetTheorems, TLAPS

(***************************************************************************)
(* The inductive invariant, in four parts.  A request carries a token only *)
(* once it is issued, and past verify it does carry one.                   *)
(***************************************************************************)
Verified == {"gc_clock", "gc_scan", "gc_scanning", "gc_delete", "test", "insert",
             "forward", "upstream"}

Served == Verified \cup {"route", "verify", "crash"}

WiresKnown ==
    /\ \A k \in Tokens : allowed[k] > 0 => grants[k] # None
    /\ \A h \in Handlers :
          /\ pc[h] \in Served =>
                 /\ request[h] # None
                 /\ request[h].wire \in Issued \cup {None, Foreign, Malformed}
          /\ pc[h] = "verify" => request[h].wire \notin {None, Malformed}
          /\ pc[h] \in Verified => request[h].wire \in Issued

(***************************************************************************)
(* What the store and the lists of _gc hold has been issued, the clock of  *)
(* a _gc is not ahead, and what is left on its list has expired.           *)
(***************************************************************************)
GcIsPast ==
    /\ used \subseteq Issued
    /\ \A h \in Handlers :
          /\ now[h] <= clock
          /\ scanned[h] \subseteq Issued /\ met[h] \subseteq Issued
          /\ \A k \in expired[h] : k \in Issued /\ IsExpired(grants[k], clock)

(***************************************************************************)
(* A late request carries a token that has been allowed, and gets past the *)
(* membership test only when that token has expired.                       *)
(***************************************************************************)
LateIsKnown ==
    \A h \in Handlers : late[h] /\ pc[h] \in Served =>
        /\ request[h].wire \in Tokens
        /\ allowed[request[h].wire] > 0
        /\ pc[h] \in {"insert", "forward"} => IsExpired(grants[request[h].wire], clock)

GateInv == TypeOK /\ WiresKnown /\ GcIsPast /\ RememberedWhileValid /\ LateIsKnown

LEMMA GrantFields ==
    ASSUME TypeOK, NEW k \in Issued
    PROVE  k \in Tokens /\ grants[k] \in Grant /\ grants[k].expires \in Nat
BY DEF TypeOK, Issued, Grant

-----------------------------------------------------------------------------
(***************************************************************************)
(* The type invariant.                                                     *)
(***************************************************************************)
LEMMA InitTyped == Init => GateInv
<1> SUFFICES ASSUME Init PROVE GateInv
  OBVIOUS
<1> USE TokenGateAssumption DEF Init
<1>1. TypeOK
  BY DEF TypeOK, Pcs
<1>2. WiresKnown /\ GcIsPast /\ RememberedWhileValid /\ LateIsKnown
  BY DEF WiresKnown, GcIsPast, RememberedWhileValid, LateIsKnown, Served, Verified
<1> QED
  BY <1>1, <1>2 DEF GateInv

LEMMA SharedStepTyped ==
    ASSUME GateInv, Issue \/ AddRoute \/ Tick
    PROVE  TypeOK'
<1> USE TokenGateAssumption DEF GateInv, TypeOK, scan, outbound, history
<1>1. CASE Issue
  <2>1. PICK k \in Tokens, tool \in Tools, op \in Operations \cup {None} :
            grants' = [grants EXCEPT ![k] =
                          [tool |-> tool, op |-> op, expires |-> ExpiresAt(clock)]]
    BY <1>1 DEF Issue
  <2>2. [tool |-> tool, op |-> op, expires |-> ExpiresAt(clock)] \in Grant
    BY DEF Grant, ExpiresAt
  <2>3. grants' \in [Tokens -> Grant \cup {None}]
    BY <2>1, <2>2
  <2> QED
    BY <1>1, <2>3 DEF Issue
<1>2. CASE AddRoute
  <2>1. PICK a \in AddedRoutes : routes' = [routes EXCEPT ![a.tool] = a.route]
    BY <1>2 DEF AddRoute
  <2>2. a.route \in Route
    OBVIOUS
  <2>3. routes' \in [Tools -> Route \cup {None}]
    BY <2>1, <2>2
  <2> QED
    BY <1>2, <2>3 DEF AddRoute
<1>3. CASE Tick
  BY <1>3 DEF Tick
<1> QED
  BY <1>1, <1>2, <1>3

LEMMA GotoTyped ==
    ASSUME TypeOK, NEW h, NEW label \in Pcs, Goto(h, label)
    PROVE  pc' \in [Handlers -> Pcs]
BY DEF TypeOK, Goto

LEMMA DenyTyped ==
    ASSUME TypeOK, NEW h, NEW why \in Reasons, Deny(h, why)
    PROVE  pc' \in [Handlers -> Pcs] /\ reason' \in [Handlers -> Reasons \cup {None}]
BY DEF TypeOK, Deny, Goto, Pcs

LEMMA ScansMeetTyped ==
    ASSUME TypeOK, used' \subseteq Tokens, ScansMeet
    PROVE  met' \in [Handlers -> SUBSET Tokens]
BY DEF TypeOK, ScansMeet

LEMMA HandlerStepTyped ==
    ASSUME GateInv, NEW h \in Handlers, HandlerStep(h)
    PROVE  TypeOK'
<1> USE TokenGateAssumption DEF GateInv, TypeOK, store, scan, outbound, history
<1>1. CASE Present(h)
  <2>1. PICK tool \in Tools, wire \in Issued \cup {None, Foreign, Malformed} :
            /\ request' = [request EXCEPT ![h] = [tool |-> tool, wire |-> wire]]
            /\ late' = [late EXCEPT ![h] = wire \in Tokens /\ allowed[wire] > 0]
    BY <1>1 DEF Present
  <2>2. [tool |-> tool, wire |-> wire] \in Request
    BY DEF Request, Wires, Issued
  <2>3. request' \in [Handlers -> Request \cup {None}]
    BY <2>1, <2>2
  <2>4. late' \in [Handlers -> BOOLEAN]
    BY <2>1
  <2> QED
    BY <1>1, <2>3, <2>4, GotoTyped DEF Present, Pcs
<1>2. CASE FindRoute(h)
  <2>1. route' \in [Handlers -> Route \cup {None}]
    <3>1. request[h].tool \in Tools
      BY <1>2 DEF FindRoute, At, WiresKnown, Served, Request
    <3> QED
      BY <1>2, <3>1 DEF FindRoute
  <2>2. pc' \in [Handlers -> Pcs] /\ reason' \in [Handlers -> Reasons \cup {None}]
    BY <1>2, GotoTyped, DenyTyped DEF FindRoute, Pcs, Reasons
  <2> QED
    BY <1>2, <2>1, <2>2 DEF FindRoute
<1>3. CASE Verify(h)
  <2>1. pc' \in [Handlers -> Pcs] /\ reason' \in [Handlers -> Reasons \cup {None}]
    BY <1>3, GotoTyped, DenyTyped DEF Verify, Fail, Pcs, Reasons
  <2>2. verifiedAt' \in [Handlers -> Nat]
    BY <1>3 DEF Verify
  <2> QED
    BY <1>3, <2>1, <2>2 DEF Verify
<1>4. CASE ReadClock(h)
  BY <1>4, GotoTyped DEF ReadClock, Pcs
<1>5. CASE BeginScan(h)
  BY <1>5, GotoTyped DEF BeginScan, Pcs
<1>6. CASE EndScan(h)
  <2>1. pc' \in [Handlers -> Pcs]
    BY <1>6, GotoTyped DEF EndScan, Pcs
  <2>2. expired' \in [Handlers -> SUBSET Tokens]
    BY <1>6 DEF EndScan, Expired
  <2>3. /\ now' \in [Handlers -> Nat] /\ scanned' \in [Handlers -> SUBSET Tokens]
        /\ met' \in [Handlers -> SUBSET Tokens]
    BY <1>6 DEF EndScan
  <2> QED
    BY <1>6, <2>1, <2>2, <2>3 DEF EndScan
<1>7. CASE Delete(h)
  <2>1. pc' \in [Handlers -> Pcs]
    BY <1>7, GotoTyped DEF Delete, Pcs
  <2>2. used' \subseteq Tokens /\ expired' \in [Handlers -> SUBSET Tokens]
    BY <1>7 DEF Delete
  <2>3. met' \in [Handlers -> SUBSET Tokens]
    BY <1>7, <2>2, ScansMeetTyped DEF Delete
  <2> QED
    BY <1>7, <2>1, <2>2, <2>3 DEF Delete
<1>8. CASE GcDone(h)
  BY <1>8, GotoTyped DEF GcDone, Pcs
<1>9. CASE Test(h)
  <2>1. pc' \in [Handlers -> Pcs] /\ reason' \in [Handlers -> Reasons \cup {None}]
    BY <1>9, GotoTyped, DenyTyped DEF Test, Pcs, Reasons
  <2> QED
    BY <1>9, <2>1 DEF Test
<1>10. CASE Insert(h)
  <2>1. request[h].wire \in Tokens
    BY <1>10 DEF Insert, At, WiresKnown, Verified, Issued
  <2>2. used' \subseteq Tokens /\ allowed' \in [Tokens -> Nat]
    BY <1>10, <2>1 DEF Insert
  <2>3. reason' \in [Handlers -> Reasons \cup {None}]
    BY <1>10 DEF Insert, Reasons
  <2>4. met' \in [Handlers -> SUBSET Tokens]
    BY <1>10, <2>2, ScansMeetTyped DEF Insert
  <2> QED
    BY <1>10, <2>2, <2>3, <2>4, GotoTyped DEF Insert, Pcs
<1>11. CASE Forward(h)
  <2>1. request[h].wire \in Tokens /\ request[h].tool \in Tools
    BY <1>11 DEF Forward, At, WiresKnown, Verified, Served, Issued, Request
  <2>2. reached' \in [Tokens -> Nat]
    BY <1>11, <2>1 DEF Forward
  <2>3. target' \in [Handlers -> Tools \cup {Elsewhere, None}]
    BY <1>11, <2>1 DEF Forward
  <2> QED
    BY <1>11, <2>2, <2>3, GotoTyped DEF Forward, Pcs
<1>12. CASE Redirect(h)
  <2>1. redirects' \in [Handlers -> 0 .. MaxRedirections]
    BY <1>12 DEF Redirect
  <2>2. target' \in [Handlers -> Tools \cup {Elsewhere, None}]
    BY <1>12 DEF Redirect
  <2> QED
    BY <1>12, <2>1, <2>2 DEF Redirect
<1>13. CASE Answer(h)
  <2>1. redirects' \in [Handlers -> 0 .. MaxRedirections]
    BY <1>13 DEF Answer
  <2>2. target' \in [Handlers -> Tools \cup {Elsewhere, None}]
    BY <1>13 DEF Answer
  <2> QED
    BY <1>13, <2>1, <2>2, GotoTyped DEF Answer, Pcs
<1>14. CASE Refuse(h) \/ Crash(h)
  BY <1>14, GotoTyped DEF Refuse, Crash, Pcs
<1> QED
  BY <1>1, <1>2, <1>3, <1>4, <1>5, <1>6, <1>7, <1>8, <1>9, <1>10, <1>11, <1>12, <1>13,
     <1>14 DEF HandlerStep

-----------------------------------------------------------------------------
(***************************************************************************)
(* What every step keeps: a grant once issued is not changed, the clock    *)
(* does not go back, so what has expired stays expired.                    *)
(***************************************************************************)
LEMMA GrantsLast ==
    ASSUME GateInv, Next
    PROVE  /\ clock \in Nat /\ clock' \in Nat /\ clock <= clock'
           /\ \A k \in Issued :
                 /\ k \in Issued' /\ grants'[k] = grants[k]
                 /\ IsExpired(grants[k], clock) => IsExpired(grants[k], clock)'
<1>1. clock \in Nat /\ clock' \in Nat /\ clock <= clock'
  <2>1. clock' = clock \/ clock' = clock + 1
    BY DEF Next, Issue, AddRoute, Tick, HandlerStep, Present, FindRoute, Verify,
           ReadClock, BeginScan, EndScan, Delete, GcDone, Test, Insert, Forward, Refuse,
           Redirect, Answer, Crash, store
  <2> QED
    BY <2>1 DEF GateInv, TypeOK
<1>2. ASSUME NEW k \in Issued PROVE k \in Issued' /\ grants'[k] = grants[k]
  <2>1. CASE Issue
    <3>1. PICK j \in Tokens : grants[j] = None /\ \E g : grants' = [grants EXCEPT ![j] = g]
      BY <2>1 DEF Issue
    <3> QED
      BY <3>1 DEF Issued, GateInv, TypeOK
  <2>2. CASE ~Issue
    <3>1. grants' = grants
      BY <2>2 DEF Next, AddRoute, Tick, HandlerStep, Present, FindRoute, Verify,
                  ReadClock, BeginScan, EndScan, Delete, GcDone, Test, Insert, Forward,
                  Refuse, Redirect, Answer, Crash, store
    <3> QED
      BY <3>1 DEF Issued
  <2> QED
    BY <2>1, <2>2
<1>3. ASSUME NEW k \in Issued, IsExpired(grants[k], clock)
      PROVE  IsExpired(grants[k], clock)'
  <2>1. grants[k].expires \in Nat
    BY GrantFields DEF GateInv
  <2> QED
    BY <1>1, <1>2, <1>3, <2>1 DEF IsExpired
<1> QED
  BY <1>1, <1>2, <1>3

(***************************************************************************)
(* A handler's step moves its own place only.                              *)
(***************************************************************************)
LEMMA OthersStay ==
    ASSUME TypeOK, NEW h \in Handlers, HandlerStep(h), NEW g \in Handlers, g # h
    PROVE  /\ pc'[g] = pc[g] /\ request'[g] = request[g] /\ late'[g] = late[g]
           /\ now'[g] = now[g] /\ scanned'[g] = scanned[g] /\ expired'[g] = expired[g]
<1> USE DEF TypeOK, store, scan, history, Goto, Deny, Fail
<1>1. pc'[g] = pc[g]
  BY DEF HandlerStep, Present, FindRoute, Verify, ReadClock, BeginScan, EndScan, Delete,
         GcDone, Test, Insert, Forward, Refuse, Redirect, Answer, Crash
<1>2. request'[g] = request[g] /\ late'[g] = late[g]
  BY DEF HandlerStep, Present, FindRoute, Verify, ReadClock, BeginScan, EndScan, Delete,
         GcDone, Test, Insert, Forward, Refuse, Redirect, Answer, Crash
<1>3. now'[g] = now[g] /\ scanned'[g] = scanned[g] /\ expired'[g] = expired[g]
  BY DEF HandlerStep, Present, FindRoute, Verify, ReadClock, BeginScan, EndScan, Delete,
         GcDone, Test, Insert, Forward, Refuse, Redirect, Answer, Crash
<1> QED
  BY <1>1, <1>2, <1>3

(***************************************************************************)
(* Issuing, adding a route and the clock leave every handler where it is.  *)
(***************************************************************************)
LEMMA SharedStepLeaves ==
    ASSUME Issue \/ AddRoute \/ Tick
    PROVE  /\ pc' = pc /\ request' = request /\ late' = late /\ allowed' = allowed
           /\ used' = used /\ now' = now /\ scanned' = scanned /\ met' = met
           /\ expired' = expired
BY DEF Issue, AddRoute, Tick, scan, history

-----------------------------------------------------------------------------
(***************************************************************************)
(* Requests carry what has been issued.                                    *)
(***************************************************************************)
LEMMA AllowedAfterHandler ==
    ASSUME GateInv, NEW h \in Handlers, HandlerStep(h)
    PROVE  \/ allowed' = allowed
           \/ /\ Insert(h) /\ request[h].wire \in Issued
              /\ allowed' = [allowed EXCEPT ![request[h].wire] = @ + 1]
<1>1. CASE Insert(h)
  BY <1>1 DEF Insert, At, GateInv, WiresKnown, Verified
<1>2. CASE ~Insert(h)
  BY <1>2 DEF HandlerStep, Present, FindRoute, Verify, ReadClock, BeginScan, EndScan,
              Delete, GcDone, Test, Forward, Refuse, Redirect, Answer, Crash, history
<1> QED
  BY <1>1, <1>2

LEMMA WiresKnownKept ==
    ASSUME GateInv, Next
    PROVE  WiresKnown'
<1>1. CASE Issue \/ AddRoute \/ Tick
  BY <1>1, SharedStepLeaves, GrantsLast DEF GateInv, WiresKnown, Issued, Served, Verified
<1>2. ASSUME NEW h \in Handlers, HandlerStep(h) PROVE WiresKnown'
  <2>1. grants' = grants
    BY <1>2 DEF HandlerStep, Present, FindRoute, Verify, ReadClock, BeginScan, EndScan,
                Delete, GcDone, Test, Insert, Forward, Refuse, Redirect, Answer, Crash,
                store
  <2>2. \A k \in Tokens : allowed'[k] > 0 => grants'[k] # None
    BY <1>2, <2>1, AllowedAfterHandler DEF GateInv, TypeOK, WiresKnown, Issued
  <2> DEFINE Known(g) ==
               /\ pc[g] \in Served =>
                      /\ request[g] # None
                      /\ request[g].wire \in Issued \cup {None, Foreign, Malformed}
               /\ pc[g] = "verify" => request[g].wire \notin {None, Malformed}
               /\ pc[g] \in Verified => request[g].wire \in Issued
  <2>3. ASSUME NEW g \in Handlers, g # h PROVE Known(g)'
    BY <1>2, <2>1, <2>3, OthersStay DEF GateInv, WiresKnown, Issued
  <2>4. Known(h)'
    <3> USE DEF GateInv, TypeOK, WiresKnown, Served, Verified, Goto, Deny, At
    <3>1. CASE Present(h)
      <4>1. PICK tool \in Tools, wire \in Issued \cup {None, Foreign, Malformed} :
                request' = [request EXCEPT ![h] = [tool |-> tool, wire |-> wire]]
        BY <3>1 DEF Present
      <4>2. request'[h] = [tool |-> tool, wire |-> wire]
        BY <4>1
      <4>3. request'[h] \in Request /\ request'[h].wire = wire
        BY <4>2 DEF Request, Wires, Issued
      <4>4. request'[h] # None
        BY <4>3, TokenGateAssumption
      <4>5. pc'[h] = "route"
        BY <3>1 DEF Present
      <4> QED
        BY <2>1, <4>3, <4>4, <4>5 DEF Issued
    <3>2. CASE FindRoute(h)
      <4>1. pc'[h] = "idle" \/ (pc'[h] = "verify" /\ request[h].wire \notin {None,
      Malformed})
        BY <3>2 DEF FindRoute
      <4> QED
        BY <2>1, <3>2, <4>1 DEF FindRoute, Issued
    <3>3. CASE Verify(h)
      <4>1. \/ pc'[h] \in {"idle", "crash"}
            \/ pc'[h] = "gc_clock" /\ request[h].wire # Foreign
        BY <3>3 DEF Verify, Fail
      <4> QED
        BY <2>1, <3>3, <4>1 DEF Verify, Issued
    <3>4. CASE ~(Present(h) \/ FindRoute(h) \/ Verify(h))
      <4>1. request' = request
        BY <1>2, <3>4 DEF HandlerStep, ReadClock, BeginScan, EndScan, Delete, GcDone,
                          Test, Insert, Forward, Refuse, Redirect, Answer, Crash
      <4>2. pc'[h] \in {"idle", "crash"} \/ pc'[h] \in Verified
        BY <1>2, <3>4 DEF HandlerStep, ReadClock, BeginScan, EndScan, Delete, GcDone,
                          Test, Insert, Forward, Refuse, Redirect, Answer, Crash
      <4>3. pc'[h] = "idle" \/ pc[h] \in Verified
        BY <1>2, <3>4 DEF HandlerStep, ReadClock, BeginScan, EndScan, Delete, GcDone,
                          Test, Insert, Forward, Refuse, Redirect, Answer, Crash
      <4> QED
        BY <2>1, <4>1, <4>2, <4>3 DEF Issued
    <3> QED
      BY <3>1, <3>2, <3>3, <3>4
  <2> QED
    BY <2>2, <2>3, <2>4 DEF WiresKnown
<1> QED
  BY <1>1, <1>2 DEF Next

(***************************************************************************)
(* _gc deletes what has expired, and only that.                            *)
(***************************************************************************)
LEMMA DeletesExpired ==
    ASSUME GateInv, NEW h \in Handlers, HandlerStep(h)
    PROVE  \A k \in used : k \in used' \/ IsExpired(grants[k], clock)
<1>1. CASE Delete(h)
  <2>1. PICK k \in expired[h] : used' = used \ {k}
    BY <1>1 DEF Delete
  <2>2. IsExpired(grants[k], clock)
    BY <2>1 DEF GateInv, GcIsPast
  <2> QED
    BY <2>1, <2>2
<1>2. CASE Insert(h)
  BY <1>2 DEF Insert
<1>3. CASE ~Delete(h) /\ ~Insert(h)
  <2>1. used' = used
    BY <1>3 DEF HandlerStep, Present, FindRoute, Verify, ReadClock, BeginScan, EndScan,
                GcDone, Test, Forward, Refuse, Redirect, Answer, Crash
  <2> QED
    BY <2>1
<1> QED
  BY <1>1, <1>2, <1>3

LEMMA GcIsPastKept ==
    ASSUME GateInv, Next
    PROVE  GcIsPast'
<1> DEFINE Past(g) ==
             /\ now[g] <= clock
             /\ scanned[g] \subseteq Issued /\ met[g] \subseteq Issued
             /\ \A k \in expired[g] : k \in Issued /\ IsExpired(grants[k], clock)
<1>1. \A g \in Handlers : Past(g) /\ now[g] \in Nat
  BY DEF GateInv, GcIsPast, TypeOK
<1>2. ASSUME NEW g \in Handlers, now'[g] = now[g], scanned'[g] = scanned[g],
             expired'[g] = expired[g], met'[g] \subseteq Issued'
      PROVE  Past(g)'
  <2>1. now'[g] <= clock'
    BY <1>1, <1>2, GrantsLast
  <2>2. scanned'[g] \subseteq Issued' /\ met'[g] \subseteq Issued'
    BY <1>1, <1>2, GrantsLast
  <2>3. ASSUME NEW k \in expired'[g] PROVE (k \in Issued /\ IsExpired(grants[k], clock))'
    BY <1>1, <1>2, GrantsLast
  <2> QED
    BY <2>1, <2>2, <2>3
<1>3. CASE Issue \/ AddRoute \/ Tick
  <2>1. used' \subseteq Issued'
    BY <1>3, SharedStepLeaves, GrantsLast DEF GateInv, GcIsPast
  <2>2. \A g \in Handlers : met'[g] \subseteq Issued'
    BY <1>1, <1>3, SharedStepLeaves, GrantsLast
  <2>3. \A g \in Handlers : Past(g)'
    BY <1>2, <1>3, <2>2, SharedStepLeaves
  <2> QED
    BY <2>1, <2>3 DEF GcIsPast
<1>4. ASSUME NEW h \in Handlers, HandlerStep(h) PROVE GcIsPast'
  <2> USE DEF GateInv, TypeOK
  <2>1. grants' = grants /\ clock' = clock
    BY <1>4 DEF HandlerStep, Present, FindRoute, Verify, ReadClock, BeginScan, EndScan,
                Delete, GcDone, Test, Insert, Forward, Refuse, Redirect, Answer, Crash,
                store
  <2>2. used' \subseteq Issued'
    <3>1. used' \subseteq used \/ (Insert(h) /\ used' = used \cup {request[h].wire})
      BY <1>4 DEF HandlerStep, Present, FindRoute, Verify, ReadClock, BeginScan, EndScan,
                  Delete, GcDone, Test, Insert, Forward, Refuse, Redirect, Answer, Crash
    <3>2. Insert(h) => request[h].wire \in Issued
      BY DEF Insert, At, WiresKnown, Verified
    <3> QED
      BY <2>1, <3>1, <3>2 DEF GcIsPast, Issued
  <2>3. ASSUME NEW g \in Handlers PROVE met'[g] \subseteq Issued'
    <3>1. met'[g] \subseteq met[g] \cup used'
      BY <1>4 DEF HandlerStep, Present, FindRoute, Verify, ReadClock, BeginScan, EndScan,
                  Delete, GcDone, Test, Insert, Forward, Refuse, Redirect, Answer, Crash,
                  ScansMeet, scan
    <3> QED
      BY <1>1, <2>1, <2>2, <3>1 DEF Issued
  <2>4. ASSUME NEW g \in Handlers, g # h PROVE Past(g)'
    BY <1>2, <1>4, <2>3, <2>4, OthersStay
  <2>5. Past(h)'
    <3>1. CASE ReadClock(h)
      <4>1. now'[h] = clock /\ scanned'[h] = scanned[h] /\ expired'[h] = expired[h]
        BY <3>1 DEF ReadClock
      <4> QED
        BY <1>1, <2>1, <2>3, <4>1 DEF Issued
    <3>2. CASE BeginScan(h)
      <4>1. now'[h] = now[h] /\ scanned'[h] = used /\ expired'[h] = expired[h]
        BY <3>2 DEF BeginScan
      <4> QED
        BY <1>1, <2>1, <2>3, <4>1 DEF Issued, GcIsPast
    <3>3. CASE EndScan(h)
      <4>1. /\ now'[h] = 0 /\ scanned'[h] = {}
            /\ \/ expired'[h] = expired[h]
               \/ \E found \in SUBSET (scanned[h] \cup met[h]) :
                     expired'[h] = Expired(found, now[h])
        BY <3>3 DEF EndScan
      <4>2. ASSUME NEW found \in SUBSET (scanned[h] \cup met[h]),
      NEW k \in Expired(found, now[h])
            PROVE  k \in Issued /\ IsExpired(grants[k], clock)
        <5>1. k \in Issued /\ grants[k].expires < now[h]
          BY DEF Expired, GcIsPast
        <5>2. grants[k].expires \in Nat
          BY <5>1, GrantFields
        <5> QED
          BY <1>1, <5>1, <5>2 DEF IsExpired
      <4> QED
        BY <1>1, <2>1, <2>3, <4>1, <4>2 DEF Issued
    <3>4. CASE Delete(h)
      <4>1. now'[h] = now[h] /\ scanned'[h] = scanned[h] /\ expired'[h] \subseteq expired[h]
        BY <3>4 DEF Delete
      <4> QED
        BY <1>1, <2>1, <2>3, <4>1 DEF Issued
    <3>5. CASE ~(ReadClock(h) \/ BeginScan(h) \/ EndScan(h) \/ Delete(h))
      <4>1. now'[h] = now[h] /\ scanned'[h] = scanned[h] /\ expired'[h] = expired[h]
        BY <1>4, <3>5 DEF HandlerStep, Present, FindRoute, Verify, GcDone, Test, Insert,
                          Forward, Refuse, Redirect, Answer, Crash, scan
      <4> QED
        BY <1>2, <2>3, <4>1
    <3> QED
      BY <3>1, <3>2, <3>3, <3>4, <3>5
  <2> QED
    BY <2>2, <2>4, <2>5 DEF GcIsPast
<1> QED
  BY <1>3, <1>4 DEF Next

(***************************************************************************)
(* The store remembers what verify would still accept.                     *)
(***************************************************************************)
LEMMA RememberedKept ==
    ASSUME GateInv, Next
    PROVE  RememberedWhileValid'
<1> SUFFICES ASSUME NEW k \in Tokens, allowed'[k] > 0, ~IsExpired(grants[k], clock)'
             PROVE  k \in used'
  BY DEF RememberedWhileValid
<1>1. ASSUME allowed[k] > 0 PROVE k \in Issued /\ k \in used /\ ~IsExpired(grants[k],
clock)
  BY <1>1, GrantsLast DEF GateInv, WiresKnown, RememberedWhileValid, Issued
<1>2. CASE Issue \/ AddRoute \/ Tick
  BY <1>1, <1>2, SharedStepLeaves
<1>3. ASSUME NEW h \in Handlers, HandlerStep(h) PROVE k \in used'
  <2>1. CASE allowed[k] > 0
    BY <1>1, <1>3, <2>1, DeletesExpired
  <2>2. CASE ~(allowed[k] > 0)
    <3>1. Insert(h) /\ allowed' = [allowed EXCEPT ![request[h].wire] = @ + 1]
      BY <1>3, <2>2, AllowedAfterHandler
    <3>2. k = request[h].wire
      BY <2>2, <3>1 DEF GateInv, TypeOK
    <3> QED
      BY <3>1, <3>2 DEF Insert
  <2> QED
    BY <2>1, <2>2
<1> QED
  BY <1>2, <1>3 DEF Next

(***************************************************************************)
(* So a late request is stopped by the membership test, or has expired.    *)
(***************************************************************************)
LEMMA LateIsKnownKept ==
    ASSUME GateInv, Next
    PROVE  LateIsKnown'
<1> DEFINE Known(g) ==
             late[g] /\ pc[g] \in Served =>
                 /\ request[g].wire \in Tokens
                 /\ allowed[request[g].wire] > 0
                 /\ pc[g] \in {"insert", "forward"} =>
                        IsExpired(grants[request[g].wire], clock)
<1> USE DEF Served, Verified
<1>1. \A g \in Handlers : Known(g)
  BY DEF GateInv, LateIsKnown
<1>2. ASSUME NEW k \in Tokens, allowed[k] > 0
      PROVE  /\ k \in Issued /\ allowed'[k] > 0
             /\ IsExpired(grants[k], clock) => IsExpired(grants[k], clock)'
  <2>1. k \in Issued
    BY <1>2 DEF GateInv, WiresKnown, Issued
  <2>2. allowed'[k] > 0
    <3>1. CASE allowed' = allowed
      BY <1>2, <3>1
    <3>2. CASE allowed' # allowed
      <4>1. PICK h \in Handlers : HandlerStep(h)
        BY <3>2, SharedStepLeaves DEF Next
      <4>2. allowed' = [allowed EXCEPT ![request[h].wire] = @ + 1]
        BY <3>2, <4>1, AllowedAfterHandler
      <4> QED
        BY <1>2, <4>2 DEF GateInv, TypeOK
    <3> QED
      BY <3>1, <3>2
  <2> QED
    BY <2>1, <2>2, GrantsLast
<1>3. ASSUME NEW g \in Handlers, late'[g] = late[g], request'[g] = request[g],
             \/ pc'[g] = pc[g]
             \/ pc[g] \in Served /\ pc'[g] # "insert" /\ (pc'[g] = "forward" => pc[g] = "insert")
      PROVE  Known(g)'
  BY <1>1, <1>2, <1>3
<1>4. CASE Issue \/ AddRoute \/ Tick
  <2>1. \A g \in Handlers : Known(g)'
    BY <1>3, <1>4, SharedStepLeaves
  <2> QED
    BY <2>1 DEF LateIsKnown
<1>5. ASSUME NEW h \in Handlers, HandlerStep(h) PROVE LateIsKnown'
  <2> USE DEF GateInv, TypeOK
  <2>1. ASSUME NEW g \in Handlers, g # h PROVE Known(g)'
    BY <1>3, <1>5, <2>1, OthersStay
  <2>2. Known(h)'
    <3>1. CASE Present(h)
      <4>1. PICK tool \in Tools, wire \in Issued \cup {None, Foreign, Malformed} :
                /\ request' = [request EXCEPT ![h] = [tool |-> tool, wire |-> wire]]
                /\ late' = [late EXCEPT ![h] = wire \in Tokens /\ allowed[wire] > 0]
        BY <3>1 DEF Present
      <4>2. /\ request'[h].wire = wire /\ late'[h] = (wire \in Tokens /\ allowed[wire] > 0)
            /\ pc'[h] = "route"
        BY <3>1, <4>1 DEF Present, Goto
      <4> QED
        BY <1>2, <4>2
    <3>2. CASE Test(h)
      <4>1. /\ request' = request /\ late' = late /\ pc[h] = "test"
            /\ allowed' = allowed /\ grants' = grants /\ clock' = clock
        BY <3>2 DEF Test, store, history, At
      <4>2. pc'[h] = "idle" \/ (pc'[h] = "insert" /\ request[h].wire \notin used)
        BY <3>2 DEF Test, Deny, Goto, AlreadyUsed
      <4> QED
        BY <1>1, <4>1, <4>2 DEF RememberedWhileValid
    <3>3. CASE ~Present(h) /\ ~Test(h)
      <4>1. request'[h] = request[h] /\ late'[h] = late[h]
        BY <1>5, <3>3 DEF HandlerStep, FindRoute, Verify, ReadClock, BeginScan, EndScan,
                          Delete, GcDone, Insert, Forward, Refuse, Redirect, Answer,
                          Crash, history
      <4>2. /\ pc[h] \in Served
            /\ pc'[h] # "insert" /\ (pc'[h] = "forward" => pc[h] = "insert")
        BY <1>5, <3>3 DEF HandlerStep, FindRoute, Verify, ReadClock, BeginScan, EndScan,
                          Delete, GcDone, Insert, Forward, Refuse, Redirect, Answer,
                          Crash, Goto, Deny, Fail, At
      <4> QED
        BY <1>3, <4>1, <4>2
    <3> QED
      BY <3>1, <3>2, <3>3
  <2> QED
    BY <2>1, <2>2 DEF LateIsKnown
<1> QED
  BY <1>4, <1>5 DEF Next

-----------------------------------------------------------------------------
(***************************************************************************)
(* What is forwarded.  Past verify, a handler's token is in the scope of   *)
(* the route it found and was verified within its life; and a use of a     *)
(* token that a handler is about to forward is one it was allowed.         *)
(***************************************************************************)
Scoped(h) ==
    pc[h] \in Verified =>
        LET k == request[h].wire
        IN  /\ InScope(grants[k], request[h].tool, route[h].op)
            /\ grants[k].expires - TTL <= verifiedAt[h]
            /\ verifiedAt[h] <= grants[k].expires

ScopeKnown ==
    /\ \A k \in Issued : grants[k].expires - TTL <= clock
    /\ \A h \in Handlers : Scoped(h)

Forwarding(k) == {h \in Handlers : pc[h] = "forward" /\ request[h].wire = k}

\* What a handler has sent without a redirect is at the upstream of its request.
SentWhereAsked ==
    \A h \in Handlers :
        /\ target[h] # None => pc[h] = "upstream"
        /\ target[h] # None /\ redirects[h] = 0 => target[h] = request[h].tool

UsesCounted == \A k \in Tokens : reached[k] + Cardinality(Forwarding(k)) <= allowed[k]

LEMMA RouteStays ==
    ASSUME TypeOK, NEW h \in Handlers, HandlerStep(h), NEW g \in Handlers,
           g # h \/ pc[g] \in Verified
    PROVE  /\ verifiedAt'[g] = verifiedAt[g] /\ route'[g] = route[g]
           /\ request'[g] = request[g]
BY DEF TypeOK, HandlerStep, Present, FindRoute, Verify, ReadClock, BeginScan, EndScan,
       Delete, GcDone, Test, Insert, Forward, Refuse, Redirect, Answer, Crash, Verified,
       At

LEMMA ScopeKnownKept ==
    ASSUME GateInv, ScopeKnown, Next
    PROVE  ScopeKnown'
<1> USE TokenGateAssumption DEF GateInv, TypeOK
<1>1. ASSUME NEW k \in Issued' PROVE (grants[k].expires - TTL <= clock)'
  <2>1. CASE k \in Issued
    <3>1. grants'[k] = grants[k] /\ grants[k].expires \in Nat /\ TTL \in Nat
      BY <2>1, GrantsLast, GrantFields
    <3>2. grants[k].expires - TTL <= clock
      BY <2>1 DEF ScopeKnown
    <3> QED
      BY <3>1, <3>2, GrantsLast
  <2>2. CASE k \notin Issued
    <3>1. grants' # grants
      BY <2>2 DEF Issued
    <3>2. Issue
      BY <3>1 DEF Next, AddRoute, Tick, HandlerStep, Present, FindRoute, Verify,
                  ReadClock, BeginScan, EndScan, Delete, GcDone, Test, Insert, Forward,
                  Refuse, Redirect, Answer, Crash, store
    <3>3. PICK j \in Tokens, tool \in Tools, op \in Operations \cup {None} :
              grants' = [grants EXCEPT ![j] =
                            [tool |-> tool, op |-> op, expires |-> ExpiresAt(clock)]]
      BY <3>2 DEF Issue
    <3>4. k = j
      BY <2>2, <3>3 DEF Issued
    <3>5. grants'[k].expires = clock + TTL /\ clock' = clock
      BY <3>2, <3>3, <3>4 DEF ExpiresAt, Issue
    <3> QED
      BY <3>5
  <2> QED
    BY <2>1, <2>2
<1>2. ASSUME NEW g \in Handlers, pc'[g] \in Verified => pc[g] \in Verified,
             pc'[g] \in Verified =>
                 /\ verifiedAt'[g] = verifiedAt[g] /\ route'[g] = route[g]
                 /\ request'[g] = request[g]
      PROVE  Scoped(g)'
  <2> SUFFICES ASSUME pc'[g] \in Verified PROVE Scoped(g)'
    BY DEF Scoped
  <2>1. request[g].wire \in Issued /\ Scoped(g) /\ pc[g] \in Verified
    BY <1>2 DEF WiresKnown, ScopeKnown
  <2>2. grants'[request[g].wire] = grants[request[g].wire]
    BY <2>1, GrantsLast
  <2> QED
    BY <1>2, <2>1, <2>2 DEF Scoped
<1>3. CASE Issue \/ AddRoute \/ Tick
  <2>1. verifiedAt' = verifiedAt /\ route' = route
    BY <1>3 DEF Issue, AddRoute, Tick
  <2>2. \A g \in Handlers : Scoped(g)'
    BY <1>2, <1>3, <2>1, SharedStepLeaves
  <2> QED
    BY <1>1, <2>2 DEF ScopeKnown
<1>4. ASSUME NEW h \in Handlers, HandlerStep(h) PROVE ScopeKnown'
  <2>1. ASSUME NEW g \in Handlers, g # h PROVE Scoped(g)'
    BY <1>2, <1>4, <2>1, OthersStay, RouteStays
  <2>2. Scoped(h)'
    <3>1. CASE Verify(h)
      <4>1. CASE pc'[h] = "gc_clock"
        <5>1. /\ request[h].wire \notin {None, Malformed, Foreign}
              /\ ~IsExpired(grants[request[h].wire], clock)
              /\ InScope(grants[request[h].wire], request[h].tool, route[h].op)
          BY <3>1, <4>1 DEF Verify, Deny, Fail, Goto, At, WiresKnown
        <5>2. request[h].wire \in Issued
          BY <3>1, <5>1 DEF Verify, At, WiresKnown, Served
        <5>3. /\ verifiedAt'[h] = clock /\ grants' = grants /\ request' = request
              /\ route' = route
          BY <3>1 DEF Verify, store
        <5>4. clock <= grants[request[h].wire].expires
          BY <5>1, <5>2, GrantFields DEF IsExpired
        <5>5. grants[request[h].wire].expires - TTL <= clock
          BY <5>2 DEF ScopeKnown
        <5> QED
          BY <5>1, <5>3, <5>4, <5>5 DEF Scoped
      <4>2. CASE pc'[h] # "gc_clock"
        BY <3>1, <4>2 DEF Verify, Deny, Fail, Goto, Scoped, Verified
      <4> QED
        BY <4>1, <4>2
    <3>2. CASE ~Verify(h)
      <4>1. pc'[h] \in Verified => pc[h] \in Verified
        <5>1. CASE Present(h) \/ FindRoute(h) \/ Crash(h) \/ Refuse(h) \/ Answer(h)
          BY <5>1 DEF Present, FindRoute, Refuse, Answer, Crash, Goto, Deny, Verified
        <5>2. CASE ~(Present(h) \/ FindRoute(h) \/ Crash(h) \/ Refuse(h) \/ Answer(h))
          BY <1>4, <3>2, <5>2 DEF HandlerStep, ReadClock, BeginScan, EndScan, Delete, GcDone,
                                  Test, Insert, Forward, Redirect, At, Verified
        <5> QED
          BY <5>1, <5>2
      <4> QED
        BY <1>2, <1>4, <4>1, RouteStays
    <3> QED
      BY <3>1, <3>2
  <2> QED
    BY <1>1, <2>1, <2>2 DEF ScopeKnown
<1> QED
  BY <1>3, <1>4 DEF Next

(***************************************************************************)
(* An insertion allows a use and puts a handler where it forwards; leaving *)
(* that place takes a use, whether or not the request arrives.             *)
(***************************************************************************)
LEMMA HandlersFinite ==
    ASSUME NEW S \in SUBSET Handlers
    PROVE  IsFiniteSet(S) /\ Cardinality(S) \in Nat
BY TokenGateAssumption, FS_Subset, FS_CardinalityType

LEMMA HandlersOneMore ==
    ASSUME NEW S \in SUBSET Handlers, NEW h \in Handlers
    PROVE  /\ IsFiniteSet(S \cup {h}) /\ Cardinality(S \cup {h}) \in Nat
           /\ Cardinality(S \cup {h}) <= Cardinality(S) + 1
<1>1. IsFiniteSet(S) /\ Cardinality(S) \in Nat
  BY HandlersFinite
<1>2. Cardinality(S \cup {h}) \in {Cardinality(S), Cardinality(S) + 1}
  BY <1>1, FS_AddElement
<1>3. S \cup {h} \in SUBSET Handlers
  OBVIOUS
<1> QED
  BY <1>1, <1>2, <1>3, HandlersFinite

LEMMA UsesCountedKept ==
    ASSUME GateInv, UsesCounted, Next
    PROVE  UsesCounted'
<1> USE DEF GateInv, TypeOK
<1> SUFFICES ASSUME NEW k \in Tokens
             PROVE  reached'[k] + Cardinality(Forwarding(k)') <= allowed'[k]
  BY DEF UsesCounted
<1>1. /\ reached[k] + Cardinality(Forwarding(k)) <= allowed[k]
      /\ Forwarding(k) \in SUBSET Handlers /\ Forwarding(k)' \in SUBSET Handlers
      /\ reached[k] \in Nat /\ allowed[k] \in Nat
  BY DEF UsesCounted, Forwarding
<1>2. /\ IsFiniteSet(Forwarding(k)) /\ IsFiniteSet(Forwarding(k)')
      /\ Cardinality(Forwarding(k)) \in Nat /\ Cardinality(Forwarding(k)') \in Nat
  BY <1>1, HandlersFinite
<1>3. CASE Issue \/ AddRoute \/ Tick
  <2>1. reached' = reached
    BY <1>3 DEF Issue, AddRoute, Tick, history
  <2>2. Forwarding(k)' = Forwarding(k)
    BY <1>3, SharedStepLeaves DEF Forwarding
  <2> QED
    BY <1>1, <1>3, <2>1, <2>2, SharedStepLeaves
<1>4. ASSUME NEW h \in Handlers, HandlerStep(h)
      PROVE  reached'[k] + Cardinality(Forwarding(k)') <= allowed'[k]
  <2>1. \A g \in Handlers : g # h => pc'[g] = pc[g] /\ request'[g] = request[g]
    BY <1>4, OthersStay
  <2>2. CASE Insert(h) /\ request[h].wire = k
    <3>1. /\ reached'[k] = reached[k] /\ allowed'[k] = allowed[k] + 1
          /\ request'[h] = request[h]
      BY <2>2 DEF Insert
    <3>2. Forwarding(k)' \subseteq Forwarding(k) \cup {h}
      BY <2>1 DEF Forwarding
    <3>3. /\ IsFiniteSet(Forwarding(k) \cup {h})
          /\ Cardinality(Forwarding(k) \cup {h}) <= Cardinality(Forwarding(k)) + 1
          /\ Cardinality(Forwarding(k) \cup {h}) \in Nat
      BY <1>1, HandlersOneMore
    <3>4. Cardinality(Forwarding(k)') <= Cardinality(Forwarding(k) \cup {h})
      BY <3>2, <3>3, FS_Subset
    <3> QED
      BY <1>1, <1>2, <3>1, <3>3, <3>4
  <2>3. CASE (Forward(h) \/ Refuse(h)) /\ request[h].wire = k
    <3>1. reached'[k] \in {reached[k], reached[k] + 1} /\ allowed'[k] = allowed[k]
      BY <2>3 DEF Forward, Refuse, history
    <3>2. h \in Forwarding(k) /\ h \notin Forwarding(k)'
      BY <2>3 DEF Forward, Refuse, Forwarding, At, Goto
    <3>3. Forwarding(k)' \subseteq Forwarding(k) \ {h}
      BY <2>1, <3>2 DEF Forwarding
    <3>4. /\ IsFiniteSet(Forwarding(k) \ {h})
          /\ Cardinality(Forwarding(k) \ {h}) = Cardinality(Forwarding(k)) - 1
      BY <1>2, <3>2, FS_RemoveElement
    <3>5. Cardinality(Forwarding(k)') <= Cardinality(Forwarding(k) \ {h})
      BY <3>3, <3>4, FS_Subset
    <3> QED
      BY <1>1, <1>2, <3>1, <3>4, <3>5
  <2>4. CASE ~((Insert(h) \/ Forward(h) \/ Refuse(h)) /\ request[h].wire = k)
    <3>1. allowed'[k] = allowed[k] /\ reached'[k] = reached[k]
      BY <1>4, <2>4 DEF HandlerStep, Present, FindRoute, Verify, ReadClock, BeginScan,
                        EndScan, Delete, GcDone, Test, Insert, Forward, Refuse, Redirect,
                        Answer, Crash, history
    <3>2. h \in Forwarding(k)' => h \in Forwarding(k)
      BY <1>4, <2>4 DEF HandlerStep, Present, FindRoute, Verify, ReadClock, BeginScan,
                        EndScan, Delete, GcDone, Test, Insert, Forward, Refuse, Redirect,
                        Answer, Crash, Goto, Deny, Fail, At, Forwarding
    <3>3. Forwarding(k)' \subseteq Forwarding(k)
      BY <2>1, <3>2 DEF Forwarding
    <3>4. Cardinality(Forwarding(k)') <= Cardinality(Forwarding(k))
      BY <1>2, <3>3, FS_Subset
    <3> QED
      BY <1>1, <1>2, <3>1, <3>4
  <2> QED
    BY <2>2, <2>3, <2>4
<1> QED
  BY <1>3, <1>4 DEF Next

LEMMA SentWhereAskedKept ==
    ASSUME GateInv, SentWhereAsked, Next
    PROVE  SentWhereAsked'
<1> USE DEF GateInv, TypeOK
<1>1. CASE Issue \/ AddRoute \/ Tick
  BY <1>1, SharedStepLeaves DEF SentWhereAsked, Issue, AddRoute, Tick, outbound
<1>2. ASSUME NEW h \in Handlers, HandlerStep(h) PROVE SentWhereAsked'
  <2>1. ASSUME NEW g \in Handlers, g # h
        PROVE  target'[g] = target[g] /\ redirects'[g] = redirects[g]
    BY <1>2, <2>1 DEF HandlerStep, Present, FindRoute, Verify, ReadClock, BeginScan,
                      EndScan, Delete, GcDone, Test, Insert, Forward, Refuse, Redirect,
                      Answer, Crash, outbound
  <2>2. \A g \in Handlers : g # h => pc'[g] = pc[g] /\ request'[g] = request[g]
    BY <1>2, OthersStay
  <2>3. CASE Forward(h)
    <3>1. /\ pc'[h] = "upstream" /\ request' = request
          /\ target'[h] = request[h].tool
      BY <2>3 DEF Forward, Goto
    <3> QED
      BY <2>1, <2>2, <3>1 DEF SentWhereAsked
  <2>4. CASE Redirect(h)
    <3>1. /\ pc' = pc /\ pc[h] = "upstream" /\ redirects[h] \in Nat
          /\ redirects'[h] = redirects[h] + 1
      BY <2>4 DEF Redirect, At
    <3> QED
      BY <2>1, <2>2, <3>1 DEF SentWhereAsked
  <2>5. CASE Answer(h)
    <3>1. target'[h] = None
      BY <2>5 DEF Answer
    <3> QED
      BY <2>1, <2>2, <3>1 DEF SentWhereAsked
  <2>6. CASE ~(Forward(h) \/ Redirect(h) \/ Answer(h))
    <3>1. /\ target'[h] = target[h] /\ pc[h] # "upstream"
      BY <1>2, <2>6 DEF HandlerStep, Present, FindRoute, Verify, ReadClock, BeginScan,
                        EndScan, Delete, GcDone, Test, Insert, Refuse, Crash, At, outbound
    <3> QED
      BY <2>1, <2>2, <3>1 DEF SentWhereAsked
  <2> QED
    BY <2>3, <2>4, <2>5, <2>6
<1> QED
  BY <1>1, <1>2 DEF Next

(***************************************************************************)
(* Requests that came before their token was allowed are the only ones     *)
(* that can still be allowed within its life, and they have a handler each.*)
(***************************************************************************)
Early(k) == {h \in Handlers :
                pc[h] \in Served \ {"forward",
                "upstream"} /\ ~late[h] /\ request[h].wire = k}

Spent(k) == allowed[k] > 0 /\ IsExpired(grants[k], clock)

EarlyCounted ==
    \A k \in Tokens :
        Spent(k) \/ allowed[k] + Cardinality(Early(k)) <= Cardinality(Handlers)

LEMMA EarlyCountedKept ==
    ASSUME GateInv, EarlyCounted, Next
    PROVE  EarlyCounted'
<1> USE DEF GateInv, TypeOK
<1> SUFFICES ASSUME NEW k \in Tokens, ~Spent(k)'
             PROVE  allowed'[k] + Cardinality(Early(k)') <= Cardinality(Handlers)
  BY DEF EarlyCounted
<1> PICK n : n = Cardinality(Handlers)
  OBVIOUS
<1>1. /\ Early(k) \in SUBSET Handlers /\ Early(k)' \in SUBSET Handlers
      /\ allowed[k] \in Nat
  BY DEF Early
<1>2. /\ IsFiniteSet(Early(k)) /\ IsFiniteSet(Early(k)') /\ IsFiniteSet(Handlers)
      /\ Cardinality(Early(k)) \in Nat /\ Cardinality(Early(k)') \in Nat /\ n \in Nat
  BY <1>1, HandlersFinite
<1>3. Cardinality(Early(k)') <= n
  BY <1>1, <1>2, FS_Subset
\* Where the token has been allowed, nobody joins those that came before.
<1>4. ASSUME allowed[k] > 0
      PROVE  ~Spent(k) /\ allowed[k] + Cardinality(Early(k)) <= n
  <2>1. k \in Issued
    BY <1>4 DEF WiresKnown, Issued
  <2>2. allowed'[k] > 0
    <3>1. allowed' = allowed \/ \E j : allowed' = [allowed EXCEPT ![j] = @ + 1]
      BY SharedStepLeaves, AllowedAfterHandler DEF Next
    <3> QED
      BY <1>1, <1>4, <3>1
  <2>3. ~Spent(k)
    BY <2>1, <2>2, GrantsLast DEF Spent
  <2> QED
    BY <2>3 DEF EarlyCounted
<1>5. CASE Issue \/ AddRoute \/ Tick
  <2>1. allowed'[k] = allowed[k] /\ Early(k)' = Early(k)
    BY <1>5, SharedStepLeaves DEF Early
  <2>2. CASE allowed[k] > 0
    BY <1>4, <2>1, <2>2
  <2>3. CASE ~(allowed[k] > 0)
    BY <1>1, <1>2, <1>3, <2>1, <2>3
  <2> QED
    BY <2>2, <2>3
<1>6. ASSUME NEW h \in Handlers, HandlerStep(h)
      PROVE  allowed'[k] + Cardinality(Early(k)') <= n
  <2>1. \A g \in Handlers : g # h =>
           pc'[g] = pc[g] /\ request'[g] = request[g] /\ late'[g] = late[g]
    BY <1>6, OthersStay
  <2>2. CASE Insert(h) /\ request[h].wire = k
    <3>1. /\ allowed'[k] = allowed[k] + 1 /\ pc'[h] = "forward" /\ pc[h] = "insert"
      BY <2>2 DEF Insert, Goto, At
    <3>2. h \notin Early(k)'
      BY <3>1 DEF Early
    <3>3. CASE ~(allowed[k] > 0)
      <4>1. Early(k)' \subseteq Handlers \ {h}
        BY <1>1, <3>2
      <4>2. IsFiniteSet(Handlers \ {h}) /\ Cardinality(Handlers \ {h}) = n - 1
        BY <1>2, FS_RemoveElement
      <4>3. Cardinality(Early(k)') <= Cardinality(Handlers \ {h})
        BY <4>1, <4>2, FS_Subset
      <4> QED
        BY <1>1, <1>2, <3>1, <3>3, <4>2, <4>3
    <3>4. CASE allowed[k] > 0
      <4>1. h \in Early(k)
        <5>1. ~IsExpired(grants[k], clock)
          BY <1>4, <3>4 DEF Spent
        <5>2. pc[h] \in Served
          BY <3>1 DEF Served, Verified
        <5>3. ~late[h]
          BY <2>2, <3>1, <5>1, <5>2 DEF LateIsKnown
        <5> QED
          BY <2>2, <3>1, <5>2, <5>3 DEF Early
      <4>2. Early(k)' \subseteq Early(k) \ {h}
        BY <2>1, <3>2 DEF Early
      <4>3. IsFiniteSet(Early(k) \ {h}) /\ Cardinality(Early(k) \ {h}) = Cardinality(Early(k)) - 1
        BY <1>2, <4>1, FS_RemoveElement
      <4>4. Cardinality(Early(k)') <= Cardinality(Early(k) \ {h})
        BY <4>2, <4>3, FS_Subset
      <4> QED
        BY <1>1, <1>2, <1>4, <3>1, <3>4, <4>3, <4>4
    <3> QED
      BY <3>3, <3>4
  <2>3. CASE ~(Insert(h) /\ request[h].wire = k)
    <3>1. allowed'[k] = allowed[k]
      BY <1>6, <2>3, AllowedAfterHandler
    <3>2. CASE ~(allowed[k] > 0)
      BY <1>1, <1>2, <1>3, <3>1, <3>2
    <3>3. CASE allowed[k] > 0
      <4>1. h \in Early(k)' => h \in Early(k)
        <5>1. CASE Present(h)
          <6>1. request'[h].wire = k => late'[h]
            <7>1. PICK tool, wire :
                    /\ request' = [request EXCEPT ![h] = [tool |-> tool, wire |-> wire]]
                    /\ late' = [late EXCEPT ![h] = wire \in Tokens /\ allowed[wire] > 0]
              BY <5>1 DEF Present
            <7> QED
              BY <3>3, <7>1
          <6> QED
            BY <6>1 DEF Early
        <5>2. CASE ~Present(h)
          <6>1. late'[h] = late[h] /\ request'[h] = request[h]
            BY <1>6, <5>2 DEF HandlerStep, FindRoute, Verify, ReadClock, BeginScan,
                              EndScan, Delete, GcDone, Test, Insert, Forward, Refuse,
                              Redirect, Answer, Crash, history
          <6>2. pc'[h] \in Served \ {"forward",
          "upstream"} => pc[h] \in Served \ {"forward", "upstream"}
            BY <1>6, <5>2 DEF HandlerStep, FindRoute, Verify, ReadClock, BeginScan,
                              EndScan, Delete, GcDone, Test, Insert, Forward, Refuse,
                              Redirect, Answer, Crash, Goto, Deny, At, Served, Verified
          <6> QED
            BY <6>1, <6>2 DEF Early
        <5> QED
          BY <5>1, <5>2
      <4>2. Early(k)' \subseteq Early(k)
        BY <2>1, <4>1 DEF Early
      <4>3. Cardinality(Early(k)') <= Cardinality(Early(k))
        BY <1>2, <4>2, FS_Subset
      <4> QED
        BY <1>1, <1>2, <1>4, <3>1, <3>3, <4>3
    <3> QED
      BY <3>2, <3>3
  <2> QED
    BY <2>2, <2>3
<1> QED
  BY <1>5, <1>6 DEF Next

-----------------------------------------------------------------------------

LEMMA GateInvStep == GateInv /\ [Next]_vars => GateInv'
<1> SUFFICES ASSUME GateInv, [Next]_vars PROVE GateInv'
  OBVIOUS
<1>1. CASE Next
  <2>1. TypeOK'
    BY <1>1, SharedStepTyped, HandlerStepTyped DEF Next
  <2> QED
    BY <1>1, <2>1, WiresKnownKept, GcIsPastKept, RememberedKept, LateIsKnownKept DEF GateInv
<1>2. CASE UNCHANGED vars
  BY <1>2 DEF vars, store, scan, outbound, history, GateInv, TypeOK, WiresKnown, GcIsPast,
              RememberedWhileValid, LateIsKnown, Issued, IsExpired
<1> QED
  BY <1>1, <1>2

LEMMA GateInvariant == Spec => []GateInv
BY InitTyped, GateInvStep, PTL DEF Spec

(***************************************************************************)
(* Every variable of the gate keeps its type; a _gc or an insertion works  *)
(* on issued tokens only.                                                  *)
(***************************************************************************)
THEOREM TypeCorrect == Spec => []TypeOK
<1>1. GateInv => TypeOK
  BY DEF GateInv
<1> QED
  BY <1>1, GateInvariant, PTL

(***************************************************************************)
(* tokens.py 207-223: whichever threads run _gc and however long they are  *)
(* suspended in it, a token once allowed is remembered until it expires.   *)
(***************************************************************************)
THEOREM StoreRemembers == Spec => []RememberedWhileValid
<1>1. GateInv => RememberedWhileValid
  BY DEF GateInv
<1> QED
  BY <1>1, GateInvariant, PTL

(***************************************************************************)
(* network.py 173-210: so a request that comes after its token was allowed *)
(* is not allowed within the token's life, for any number of threads.      *)
(***************************************************************************)
THEOREM RepeatsAreDenied == Spec => []LaterRequestDenied
<1>1. GateInv => LaterRequestDenied
  BY DEF GateInv, LateIsKnown, LaterRequestDenied, At, Served, Verified
<1> QED
  BY <1>1, GateInvariant, PTL

(***************************************************************************)
(* network.py 173-210, tokens.py 207-213: within its life a token is       *)
(* allowed at most once for each thread, whatever requests they serve:     *)
(* what is allowed after the first was under way when the first was.       *)
(***************************************************************************)
THEOREM UsesAreBoundedByThreads == Spec => []OnceForEachThread
<1>1. Init => EarlyCounted
  <2> SUFFICES ASSUME Init, NEW k \in Tokens
               PROVE  allowed[k] + Cardinality(Early(k)) <= Cardinality(Handlers)
    BY DEF EarlyCounted
  <2>1. Early(k) = {} /\ allowed[k] = 0
    BY DEF Init, Early, Served, Verified
  <2> QED
    BY <2>1, HandlersFinite, FS_EmptySet
<1>2. GateInv /\ EarlyCounted /\ [Next]_vars => EarlyCounted'
  <2> SUFFICES ASSUME GateInv, EarlyCounted, [Next]_vars PROVE EarlyCounted'
    OBVIOUS
  <2>1. CASE Next
    BY <2>1, EarlyCountedKept
  <2>2. CASE UNCHANGED vars
    <3>1. \A k \in Tokens : Early(k)' = Early(k) /\ Spent(k)' = Spent(k)
      BY <2>2 DEF vars, store, history, Early, Spent, IsExpired
    <3> QED
      BY <2>2, <3>1 DEF vars, history, EarlyCounted
  <2> QED
    BY <2>1, <2>2
<1>3. GateInv /\ EarlyCounted => OnceForEachThread
  <2> SUFFICES ASSUME GateInv, EarlyCounted, NEW k \in Tokens,
                      allowed[k] > Cardinality(Handlers), ~IsExpired(grants[k], clock)
               PROVE  FALSE
    BY DEF OnceForEachThread
  <2>1. allowed[k] + Cardinality(Early(k)) <= Cardinality(Handlers)
    BY DEF EarlyCounted, Spent
  <2>2. /\ allowed[k] \in Nat /\ Cardinality(Early(k)) \in Nat
        /\ Cardinality(Handlers) \in Nat
    BY HandlersFinite DEF Early, GateInv, TypeOK
  <2> QED
    BY <2>1, <2>2
<1> QED
  BY <1>1, <1>2, <1>3, GateInvariant, PTL DEF Spec

(***************************************************************************)
(* network.py 173-210 and 219-327: whatever routes are added meanwhile,    *)
(* what a handler sends of its own accord goes to the upstream of the tool *)
(* its token is for, in the scope of the route it found, verified within   *)
(* the token's life, and no use of a token is sent that was not allowed.   *)
(* Wherever else a request turns up, or turns up again, an upstream had    *)
(* redirected it.                                                          *)
(***************************************************************************)
THEOREM OnlyScopedIsForwarded == Spec => []ForwardedInScope
<1> DEFINE Inv == GateInv /\ ScopeKnown /\ SentWhereAsked /\ UsesCounted
<1>1. Init => Inv
  <2> SUFFICES ASSUME Init PROVE Inv
    OBVIOUS
  <2>1. ScopeKnown
    BY DEF Init, ScopeKnown, Scoped, Issued, Verified
  <2>2. \A k \in Tokens : Forwarding(k) = {} /\ reached[k] = 0 /\ allowed[k] = 0
    BY DEF Init, Forwarding
  <2>3. UsesCounted
    BY <2>2, FS_EmptySet DEF UsesCounted
  <2>4. SentWhereAsked
    BY DEF Init, SentWhereAsked
  <2> QED
    BY <2>1, <2>3, <2>4, InitTyped
<1>2. Inv /\ [Next]_vars => Inv'
  <2> SUFFICES ASSUME Inv, [Next]_vars PROVE Inv'
    OBVIOUS
  <2>1. GateInv'
    BY GateInvStep
  <2>2. CASE Next
    BY <2>1, <2>2, ScopeKnownKept, SentWhereAskedKept, UsesCountedKept
  <2>3. CASE UNCHANGED vars
    <3>1. ScopeKnown'
      BY <2>3 DEF vars, store, scan, history, ScopeKnown, Scoped, Issued
    <3>2. UsesCounted'
      <4>1. \A k \in Tokens : Forwarding(k)' = Forwarding(k)
        BY <2>3 DEF vars, Forwarding
      <4> QED
        BY <2>3, <4>1 DEF vars, history, UsesCounted
    <3>3. SentWhereAsked'
      BY <2>3 DEF vars, outbound, SentWhereAsked
    <3> QED
      BY <2>1, <3>1, <3>2, <3>3
  <2> QED
    BY <2>2, <2>3
<1>3. Inv => ForwardedInScope
  <2> SUFFICES ASSUME Inv PROVE ForwardedInScope
    OBVIOUS
  <2>1. ASSUME NEW k \in Tokens PROVE reached[k] <= allowed[k]
    <3>1. Cardinality(Forwarding(k)) \in Nat /\ reached[k] \in Nat /\ allowed[k] \in Nat
      BY HandlersFinite DEF Forwarding, GateInv, TypeOK
    <3>2. reached[k] + Cardinality(Forwarding(k)) <= allowed[k]
      BY DEF UsesCounted
    <3> QED
      BY <3>1, <3>2
  <2>2. ASSUME NEW h \in Handlers, pc[h] \in {"forward", "upstream"}
        PROVE  /\ request[h].wire \in Issued
               /\ InScope(grants[request[h].wire], request[h].tool, route[h].op)
               /\ grants[request[h].wire].expires - TTL <= verifiedAt[h]
               /\ verifiedAt[h] <= grants[request[h].wire].expires
    <3>1. pc[h] \in Verified /\ Scoped(h)
      BY <2>2 DEF Verified, ScopeKnown
    <3> QED
      BY <3>1 DEF Scoped, GateInv, WiresKnown
  <2>3. ASSUME NEW h \in Handlers, target[h] # None, redirects[h] = 0
        PROVE  /\ pc[h] = "upstream"
               /\ InScope(grants[request[h].wire], target[h], route[h].op)
    BY <2>2, <2>3 DEF SentWhereAsked
  <2> QED
    BY <2>1, <2>2, <2>3 DEF ForwardedInScope
<1> QED
  BY <1>1, <1>2, <1>3, PTL DEF Spec
-----------------------------------------------------------------------------
(***************************************************************************)
(* Single use.  It is kept by a proxy that serves one request at a time    *)
(* and whose thread loses no tick between verifying a token and reading    *)
(* the clock for _gc: requests under way together (the run TokenGate_race) *)
(* and a token that expires there are the only ways to break it.           *)
(***************************************************************************)
OneAtATime == (\A g, h \in Handlers : g = h) /\ StallBound = 0

\* The handler's own _gc spares the token it is about, so the test finds it.
OwnTokenSpared(h) ==
    /\ pc[h] = "gc_clock" =>
          verifiedAt[h] = clock /\ ~IsExpired(grants[request[h].wire], clock)
    /\ pc[h] \in {"gc_scan", "gc_scanning"} => ~IsExpired(grants[request[h].wire], now[h])
    /\ pc[h] = "gc_delete" => request[h].wire \notin expired[h]
    /\ pc[h] \in {"gc_scan", "gc_scanning", "gc_delete", "test"} =>
          (allowed[request[h].wire] > 0 => request[h].wire \in used)
    /\ pc[h] = "insert" => allowed[request[h].wire] = 0

SparedInv == SingleUse /\ \A h \in Handlers : OwnTokenSpared(h)

LEMMA SparedKept ==
    ASSUME OneAtATime, GateInv, GateInv', SparedInv, Next
    PROVE  SparedInv'
<1>1. CASE Issue \/ AddRoute \/ Tick
  <2>1. /\ pc' = pc /\ request' = request /\ allowed' = allowed
        /\ used' = used /\ now' = now /\ expired' = expired /\ verifiedAt' = verifiedAt
    BY <1>1 DEF Issue, AddRoute, Tick, scan, history
  <2>2. ASSUME NEW h \in Handlers, pc[h] \in Verified
        PROVE  grants'[request[h].wire] = grants[request[h].wire]
    <3>1. request[h].wire \in Issued
      BY <2>2 DEF GateInv, WiresKnown
    <3> QED
      BY <3>1, GrantsLast
  <2>3. ASSUME NEW h \in Handlers, pc[h] = "gc_clock" PROVE clock' = clock
    <3>1. verifiedAt[h] = clock /\ clock \in Nat
      BY <2>3 DEF SparedInv, OwnTokenSpared, GateInv, TypeOK
    <3>2. ~(clock - verifiedAt[h] < StallBound)
      BY <3>1 DEF OneAtATime
    <3> QED
      BY <1>1, <2>3, <3>2 DEF Issue, AddRoute, Tick, At
  <2> QED
    BY <2>1, <2>2, <2>3 DEF SparedInv, SingleUse, OwnTokenSpared, IsExpired, Verified
<1>2. ASSUME NEW h \in Handlers, HandlerStep(h) PROVE SparedInv'
  <2> PICK k : k = request[h].wire
    OBVIOUS
  <2>1. /\ grants' = grants /\ clock' = clock
        /\ pc[h] # "idle" => request'[h] = request[h]
    BY <1>2 DEF HandlerStep, Present, FindRoute, Verify, ReadClock, BeginScan, EndScan,
                Delete, GcDone, Test, Insert, Forward, Refuse, Redirect, Answer, Crash,
                store, At
  <2>2. pc[h] \in Verified => k \in Tokens /\ grants[k].expires \in Nat
    <3>1. pc[h] \in Verified => k \in Issued
      BY DEF GateInv, WiresKnown
    <3> QED
      BY <3>1, GrantFields DEF GateInv
  <2>3. OwnTokenSpared(h) /\ SingleUse
    BY DEF SparedInv
  <2>4. pc \in [Handlers -> Pcs] /\ pc'[h] \in Pcs /\ clock \in Nat
    BY DEF GateInv, TypeOK
  <2>5. SingleUse'
    <3>1. CASE allowed' = allowed
      BY <2>3, <3>1 DEF SingleUse
    <3>2. CASE allowed' # allowed
      <4>1. Insert(h) /\ allowed' = [allowed EXCEPT ![k] = @ + 1]
        BY <1>2, <3>2, AllowedAfterHandler
      <4>2. allowed[k] = 0
        BY <2>3, <4>1 DEF Insert, At, OwnTokenSpared
      <4> QED
        BY <2>3, <4>1, <4>2 DEF SingleUse, GateInv, TypeOK
    <3> QED
      BY <3>1, <3>2
  <2>6. OwnTokenSpared(h)'
    <3>1. CASE Verify(h)
      <4>1. /\ verifiedAt'[h] = clock
            /\ pc'[h] \in {"gc_clock", "idle", "crash"}
            /\ pc'[h] = "gc_clock" => ~IsExpired(grants[k], clock)
        BY <3>1 DEF Verify, Deny, Fail, Goto, GateInv, TypeOK
      <4> QED
        BY <2>1, <3>1, <4>1 DEF OwnTokenSpared, IsExpired, Verify, At
    <3>2. CASE ReadClock(h)
      <4>1. /\ now'[h] = clock /\ pc'[h] = "gc_scan" /\ used' = used /\ allowed' = allowed
            /\ pc[h] = "gc_clock"
        BY <3>2 DEF ReadClock, Goto, At, history, GateInv, TypeOK
      <4>2. ~IsExpired(grants[k], clock) /\ k \in Tokens
        BY <2>2, <2>3, <4>1 DEF OwnTokenSpared, Verified
      <4>3. allowed[k] > 0 => k \in used
        BY <4>2 DEF GateInv, RememberedWhileValid
      <4> QED
        BY <2>1, <4>1, <4>2, <4>3 DEF OwnTokenSpared, IsExpired
    <3>3. CASE BeginScan(h)
      <4>1. /\ now' = now /\ pc'[h] = "gc_scanning" /\ used' = used /\ allowed' = allowed
            /\ pc[h] = "gc_scan"
        BY <3>3 DEF BeginScan, Goto, At, history, GateInv, TypeOK
      <4> QED
        BY <2>1, <2>3, <4>1 DEF OwnTokenSpared, IsExpired
    <3>4. CASE EndScan(h)
      <4>1. /\ used' = used /\ allowed' = allowed /\ pc[h] = "gc_scanning"
            /\ pc'[h] \in {"crash", "gc_delete"}
            /\ pc'[h] = "gc_delete" => \E found : expired'[h] = Expired(found, now[h])
        BY <3>4 DEF EndScan, Goto, At, history, GateInv, TypeOK
      <4>2. \A found : k \notin Expired(found, now[h])
        <5>1. ~IsExpired(grants[k], now[h])
          BY <2>3, <4>1 DEF OwnTokenSpared
        <5>2. grants[k].expires \in Nat /\ now[h] \in Nat
          BY <2>2, <4>1 DEF Verified, GateInv, TypeOK
        <5> QED
          BY <5>1, <5>2 DEF Expired, IsExpired
      <4> QED
        BY <2>1, <2>3, <4>1, <4>2 DEF OwnTokenSpared
    <3>5. CASE Delete(h)
      <4>1. PICK j \in expired[h] : used' = used \ {j}
        BY <3>5 DEF Delete
      <4>2. /\ pc[h] = "gc_delete" /\ pc'[h] \in {"gc_delete", "crash"}
            /\ allowed' = allowed
            /\ expired'[h] \subseteq expired[h]
        BY <3>5 DEF Delete, Goto, At, history, GateInv, TypeOK
      <4>3. k \notin expired[h] /\ (allowed[k] > 0 => k \in used)
        BY <2>3, <4>2 DEF OwnTokenSpared
      <4> QED
        BY <2>1, <4>1, <4>2, <4>3 DEF OwnTokenSpared
    <3>6. CASE GcDone(h)
      <4>1. /\ pc[h] = "gc_delete" /\ pc'[h] = "test" /\ used' = used /\ allowed' = allowed
        BY <3>6 DEF GcDone, Goto, At, history, GateInv, TypeOK
      <4> QED
        BY <2>1, <2>3, <4>1 DEF OwnTokenSpared
    <3>7. CASE Test(h)
      <4>1. /\ pc[h] = "test" /\ pc'[h] \in {"insert", "idle"} /\ allowed' = allowed
            /\ pc'[h] = "insert" => k \notin used
        BY <3>7 DEF Test, AlreadyUsed, Deny, Goto, At, history, GateInv, TypeOK
      <4>2. pc'[h] = "insert" => allowed[k] = 0
        <5>1. allowed[k] \in Nat
          BY <2>2, <4>1 DEF Verified, GateInv, TypeOK
        <5> QED
          BY <2>3, <4>1, <5>1 DEF OwnTokenSpared
      <4> QED
        BY <2>1, <4>1, <4>2 DEF OwnTokenSpared
    <3>8. CASE \/ Present(h) \/ FindRoute(h) \/ Insert(h) \/ Refuse(h) \/ Forward(h)
               \/ Redirect(h) \/ Answer(h) \/ Crash(h)
      <4>1. pc'[h] \in {"route", "idle", "verify", "forward", "upstream"}
        BY <3>8 DEF Present, FindRoute, Insert, Refuse, Forward, Redirect, Answer, Crash,
                    At, Deny, Goto, GateInv, TypeOK
      <4> QED
        BY <4>1 DEF OwnTokenSpared
    <3> QED
      BY <1>2, <3>1, <3>2, <3>3, <3>4, <3>5, <3>6, <3>7, <3>8 DEF HandlerStep
  <2> QED
    BY <2>5, <2>6 DEF SparedInv, OneAtATime
<1> QED
  BY <1>1, <1>2 DEF Next

(***************************************************************************)
(* tokens.py 63-64, network.py 22: requests served one at a time, without  *)
(* a tick between verify and _gc, are allowed once for each token, in its  *)
(* life and after it, however often and on whatever routes it is shown.    *)
(***************************************************************************)
THEOREM SingleUseOneAtATime == OneAtATime => (Spec => []SingleUse)
<1> SUFFICES ASSUME OneAtATime PROVE Spec => []SingleUse
  OBVIOUS
<1>1. Init => SparedInv
  BY DEF Init, SparedInv, SingleUse, OwnTokenSpared
<1>2. GateInv /\ GateInv' /\ SparedInv /\ [Next]_vars => SparedInv'
  <2> SUFFICES ASSUME GateInv, GateInv', SparedInv, [Next]_vars PROVE SparedInv'
    OBVIOUS
  <2>1. CASE Next
    BY <2>1, SparedKept
  <2>2. CASE UNCHANGED vars
    BY <2>2 DEF vars, store, scan, history, SparedInv, SingleUse, OwnTokenSpared,
                IsExpired
  <2> QED
    BY <2>1, <2>2
<1>3. SparedInv => SingleUse
  BY DEF SparedInv
<1> QED
  BY <1>1, <1>2, <1>3, GateInvariant, PTL DEF Spec
=============================================================================
