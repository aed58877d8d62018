------------------------- MODULE RedisWindow_proofs -------------------------
(***************************************************************************)
(* Proofs about the rate limiter on Redis: its inductive invariant, and    *)
(* from it that the replicas together implement WindowLimit, for any       *)
(* clients, keys, limits, window, skew, stall and retries.                 *)
(***************************************************************************)
EXTENDS RedisWindow, SequenceTheorems, FiniteSetTheorems, TLAPS

LEMMA ConstantsAreNatural ==
    /\ Window \in Nat /\ MaxSkew \in Nat /\ MaxStall \in Nat
    /\ Retries \in Nat /\ Slack \in Nat /\ None \notin Request
    /\ \A k \in Keys : Limits[k] \subseteq Nat
BY RedisWindowAssumption DEF Slack

LEMMA QuotientAndRest ==
    ASSUME NEW x \in Nat, NEW s \in Nat \ {0}
    PROVE  x \div s \in Nat /\ (x \div s + 1) * s > x
OBVIOUS

(***************************************************************************)
(* A key outlives the window of the call that set its life, whatever part  *)
(* of a second int() takes off the window.                                 *)
(***************************************************************************)
LEMMA KeyOutlivesWindow == KeyLife \in Nat /\ KeyLife > Window
<1> DEFINE q == Window \div Second
<1>1. q \in Nat /\ (q + 1) * Second > Window
  BY QuotientAndRest, RedisWindowAssumption
<1>2. (q + 1) * Second \in Nat
  BY <1>1, RedisWindowAssumption
<1> QED
  BY <1>1, <1>2 DEF KeyLife

-----------------------------------------------------------------------------
(***************************************************************************)
(* Types.                                                                  *)
(***************************************************************************)
Pcs == {"idle", "sent", "granted", "refused"}

CallsTyped ==
    /\ pc \in [Clients -> Pcs]
    /\ request \in [Clients -> Request \cup {None}]
    /\ \A c \in Clients :
          /\ pc[c] = "idle" <=> request[c] = None
          /\ pc[c] # "idle" => request[c].limit \in Limits[request[c].key] \ {0}

LEMMA RequestTyped ==
    ASSUME TypeOK, NEW c \in Clients, ~At(c, "idle")
    PROVE  /\ request[c] \in Request
           /\ request[c].key \in Keys /\ request[c].limit \in Nat /\ request[c].stamp \in Nat
           /\ request[c].readAt \in Nat /\ request[c].slot \in Nat /\ request[c].tries \in Nat
           /\ request[c].limit \in Limits[request[c].key] \ {0}
BY DEF TypeOK, Request, At

LEMMA CallTyped ==
    ASSUME TypeOK, NEW c \in Clients, NEW r \in Request, NEW label \in Pcs \ {"idle"},
           request' = [request EXCEPT ![c] = r],
           pc' = [pc EXCEPT ![c] = label],
           r.limit \in Limits[r.key] \ {0}
    PROVE  CallsTyped'
<1>1. r # None
  BY ConstantsAreNatural
<1> QED
  BY <1>1 DEF TypeOK, CallsTyped, Pcs

LEMMA ReadClockTyped ==
    ASSUME TypeOK, NEW c \in Clients, ReadClock(c)
    PROVE  TypeOK'
<1> USE DEF ReadClock
<1> DEFINE Outcome(k, m, ahead) ==
               IF m <= 0
               THEN UNCHANGED <<pc, request, calls>>
               ELSE /\ calls < CallBound
                    /\ calls' = calls + 1
                    /\ Goto(c, "sent")
                    /\ request' = [request EXCEPT ![c] =
                           [key |-> k, limit |-> m, stamp |-> now + ahead, readAt |-> now,
                            slot |-> 0, tries |-> 0]]
<1>0. PICK k \in Keys : \E m \in Limits[k] : \E ahead \in 0 .. MaxSkew : Outcome(k, m, ahead)
  OBVIOUS
<1>1. PICK m \in Limits[k] : \E ahead \in 0 .. MaxSkew : Outcome(k, m, ahead)
  BY <1>0
<1>a. PICK ahead \in 0 .. MaxSkew : Outcome(k, m, ahead)
  BY <1>1
<1>2. m \in Nat /\ now \in Nat /\ now + ahead \in Nat
  BY ConstantsAreNatural DEF TypeOK
<1>3. CallsTyped'
  <2>1. CASE m <= 0
    BY <1>a, <2>1 DEF TypeOK, CallsTyped, Pcs
  <2>2. CASE ~(m <= 0)
    <3> DEFINE r == [key |-> k, limit |-> m, stamp |-> now + ahead, readAt |-> now,
                     slot |-> 0, tries |-> 0]
    <3>1. r \in Request /\ r.limit \in Limits[r.key] \ {0}
      BY <1>2, <2>2 DEF Request
    <3>2. request' = [request EXCEPT ![c] = r] /\ pc' = [pc EXCEPT ![c] = "sent"]
      BY <1>a, <2>2 DEF Goto
    <3> HIDE DEF r
    <3> QED
      BY <3>1, <3>2, CallTyped DEF Pcs
  <2> QED
    BY <2>1, <2>2
<1>4. calls' \in Nat
  BY <1>a DEF TypeOK
<1> QED
  BY <1>3, <1>4 DEF TypeOK, CallsTyped, Pcs, server, outcome

LEMMA ExecuteTyped ==
    ASSUME TypeOK, NEW c \in Clients, Execute(c)
    PROVE  TypeOK'
<1> DEFINE k == request[c].key
           kept == Survivors(k, request[c].stamp - Window)
           place == Place(request[c])
           e == [stamp |-> request[c].stamp, at |-> now, limit |-> request[c].limit]
<1>1. /\ At(c, "sent") /\ ~At(c, "idle")
      /\ k \in Keys /\ request[c] \in Request /\ request[c].limit \in Limits[k] \ {0}
  BY RequestTyped DEF Execute, At
<1>2. admitted[k] \in Seq(Admission) /\ Len(admitted[k]) \in Nat /\ now \in Nat
  BY <1>1, LenProperties DEF TypeOK
<1>3. kept \subseteq Nat \ {0} /\ place \in Nat \ {0}
  BY <1>1, <1>2 DEF Survivors, Place, TypeOK, Request
<1>4. now' = now /\ fail_closed' = fail_closed /\ calls' = calls /\ outcome' = outcome
  BY DEF Execute
<1>5. CASE AtLimit(kept, request[c].limit)
  <2>1. /\ zset' = [zset EXCEPT ![k] = kept]
        /\ pc' = [pc EXCEPT ![c] = "refused"]
        /\ expiry' = expiry /\ admitted' = admitted /\ request' = request
    BY <1>5 DEF Execute, Goto
  <2> QED
    BY <1>1, <1>3, <1>4, <2>1 DEF TypeOK, outcome, At
<1>6. CASE ~AtLimit(kept, request[c].limit)
  <2>1. /\ zset' = [zset EXCEPT ![k] = kept \cup {place}]
        /\ expiry' = [expiry EXCEPT ![k] = now + KeyLife]
        /\ request' = [request EXCEPT ![c].slot = place]
        /\ pc' = [pc EXCEPT ![c] = "granted"]
        /\ admitted' = IF place <= Len(admitted[k]) THEN admitted
                       ELSE [admitted EXCEPT ![k] =
                                 Append(@, e)]
    BY <1>6 DEF Execute, Goto
  <2>2. now + KeyLife \in Nat
    BY <1>2, KeyOutlivesWindow
  <2>3. admitted' \in [Keys -> Seq(Admission)]
    <3>1. e \in Admission
      BY <1>1, <1>2 DEF Admission, Request
    <3>2. Append(admitted[k], e) \in Seq(Admission)
      BY <1>2, <3>1, AppendProperties
    <3> QED
      BY <1>1, <2>1, <3>2 DEF TypeOK
  <2>4. CallsTyped'
    <3> DEFINE r == [request[c] EXCEPT !.slot = place]
    <3>1. r \in Request /\ r.limit \in Limits[r.key] \ {0}
      BY <1>1, <1>3 DEF Request
    <3>2. request' = [request EXCEPT ![c] = r]
      BY <2>1
    <3> HIDE DEF r
    <3> QED
      BY <2>1, <3>1, <3>2, CallTyped DEF Pcs
  <2>5. zset' \in [Keys -> SUBSET (Nat \ {0})] /\ expiry' \in [Keys -> Nat]
    BY <1>1, <1>3, <2>1, <2>2 DEF TypeOK
  <2> QED
    BY <1>4, <2>3, <2>4, <2>5 DEF TypeOK, CallsTyped, Pcs, outcome
<1> QED
  BY <1>5, <1>6

LEMMA ReturnTyped ==
    ASSUME TypeOK, NEW c \in Clients, ~At(c, "idle"), NEW through \in BOOLEAN,
           Return(c, through)
    PROVE  TypeOK'
<1> DEFINE k == request[c].key
           slots == IF request[c].slot = 0 THEN 0 ELSE 1
<1>1. /\ told' = IF through THEN [told EXCEPT ![k] = @ + slots] ELSE told
      /\ burned' = IF through THEN burned ELSE [burned EXCEPT ![k] = @ + slots]
      /\ unseen' = (unseen \/ (through /\ slots = 0 /\ ~At(c, "granted")))
      /\ pc' = [pc EXCEPT ![c] = "idle"]
      /\ request' = [request EXCEPT ![c] = None]
      /\ UNCHANGED <<now, server, fail_closed, calls>>
  BY DEF Return, Goto
<1>2. k \in Keys /\ slots \in Nat
  BY RequestTyped
<1>3. CallsTyped'
  BY <1>1 DEF TypeOK, CallsTyped, Pcs
<1>4. told' \in [Keys -> Nat] /\ burned' \in [Keys -> Nat]
  BY <1>1, <1>2 DEF TypeOK
<1>5. unseen' \in BOOLEAN
  BY <1>1 DEF TypeOK
<1> QED
  BY <1>1, <1>3, <1>4, <1>5 DEF TypeOK, CallsTyped, Pcs, server

LEMMA ReturnCases ==
    ASSUME NEW c \in Clients, Answer(c) \/ Fail(c)
    PROVE  ~At(c, "idle") /\ \E through \in BOOLEAN : Return(c, through)
<1>1. CASE At(c, "granted") /\ Return(c, TRUE)
  BY <1>1 DEF At
<1>2. CASE At(c, "refused") /\ Return(c, FALSE)
  BY <1>2 DEF At
<1>3. CASE Fail(c)
  <2>1. (~fail_closed) \in BOOLEAN /\ Return(c, ~fail_closed) /\ ~At(c, "idle")
    BY <1>3 DEF Fail
  <2> QED
    BY <2>1
<1> QED
  BY <1>1, <1>2, <1>3 DEF Answer

LEMMA ResendTyped ==
    ASSUME TypeOK, NEW c \in Clients, Resend(c)
    PROVE  TypeOK'
<1> DEFINE r == [request[c] EXCEPT !.tries = @ + 1]
<1>1. r \in Request /\ r.limit \in Limits[r.key] \ {0}
  BY RequestTyped DEF Resend, Request
<1>2. request' = [request EXCEPT ![c] = r] /\ pc' = [pc EXCEPT ![c] = "sent"]
  BY DEF Resend, Goto
<1> HIDE DEF r
<1>3. CallsTyped'
  BY <1>1, <1>2, CallTyped DEF Pcs
<1> QED
  BY <1>3 DEF Resend, TypeOK, CallsTyped, Pcs, server, outcome

LEMMA ResetTyped ==
    ASSUME TypeOK, NEW ks \in SUBSET Keys, Reset(ks)
    PROVE  TypeOK'
<1>1. ASSUME NEW c \in Clients
      PROVE  /\ request'[c] \in Request \cup {None}
             /\ pc'[c] = "idle" <=> request'[c] = None
             /\ pc'[c] # "idle" => request'[c].limit \in Limits[request'[c].key] \ {0}
  <2>1. CASE pc[c] # "idle" /\ request[c].key \in ks
    <3>1. request'[c] = [request[c] EXCEPT !.slot = 0] /\ pc'[c] = pc[c]
      BY <2>1 DEF Reset
    <3>2. /\ request[c] \in Request
          /\ request[c].limit \in Limits[request[c].key] \ {0}
      BY <2>1, RequestTyped DEF At
    <3> DEFINE r == [request[c] EXCEPT !.slot = 0]
    <3>3. r \in Request /\ r.limit = request[c].limit /\ r.key = request[c].key
      BY <3>2 DEF Request
    <3> HIDE DEF r
    <3>4. r # None
      BY <3>3, ConstantsAreNatural
    <3> QED
      BY <2>1, <3>1, <3>2, <3>3, <3>4 DEF r
  <2>2. CASE ~(pc[c] # "idle" /\ request[c].key \in ks)
    BY <2>2 DEF Reset, TypeOK
  <2> QED
    BY <2>1, <2>2
<1>2. /\ request' = [c \in Clients |-> request'[c]]
      /\ pc' \in [Clients -> Pcs]
  BY DEF Reset, TypeOK, Pcs
<1>3. CallsTyped'
  BY <1>1, <1>2 DEF CallsTyped
<1>4. /\ zset' \in [Keys -> SUBSET (Nat \ {0})] /\ expiry' \in [Keys -> Nat]
      /\ told' \in [Keys -> Nat] /\ burned' \in [Keys -> Nat]
  BY DEF Reset, TypeOK
<1>5. admitted' \in [Keys -> Seq(Admission)]
  BY DEF Reset, TypeOK
<1> QED
  BY <1>3, <1>4, <1>5 DEF Reset, TypeOK, CallsTyped, Pcs

LEMMA ServerStepTyped ==
    ASSUME TypeOK, CurrentCount \/ Tick \/ UNCHANGED vars
    PROVE  TypeOK'
<1>1. CASE CurrentCount
  <2>1. zset' \in [Keys -> SUBSET (Nat \ {0})]
    BY <1>1 DEF CurrentCount, Survivors, TypeOK
  <2> QED
    BY <1>1, <2>1 DEF CurrentCount, TypeOK, outcome
<1>2. CASE Tick
  BY <1>2 DEF Tick, TypeOK, outcome
<1>3. CASE UNCHANGED vars
  BY <1>3 DEF vars, server, outcome, TypeOK
<1> QED
  BY <1>1, <1>2, <1>3

LEMMA NextCases ==
    ASSUME [Next]_vars
    PROVE  \/ \E c \in Clients : ReadClock(c)
           \/ \E c \in Clients : Execute(c)
           \/ \E c \in Clients : Answer(c) \/ Fail(c)
           \/ \E c \in Clients : Resend(c)
           \/ CurrentCount
           \/ \E ks \in SUBSET Keys : Reset(ks)
           \/ Tick
           \/ UNCHANGED vars
BY DEF Next

LEMMA TypeInit == Init => TypeOK
<1> SUFFICES ASSUME Init PROVE TypeOK
  OBVIOUS
<1>1. fail_closed \in BOOLEAN
  BY RedisWindowAssumption DEF Init
<1>2. admitted \in [Keys -> Seq(Admission)]
  BY EmptySeq DEF Init
<1>3. /\ pc \in [Clients -> {"idle", "sent", "granted", "refused"}]
      /\ request \in [Clients -> Request \cup {None}]
      /\ \A c \in Clients : pc[c] = "idle" /\ request[c] = None
  BY DEF Init
<1>4. /\ zset \in [Keys -> SUBSET (Nat \ {0})] /\ expiry \in [Keys -> Nat]
      /\ told \in [Keys -> Nat] /\ burned \in [Keys -> Nat] /\ unseen \in BOOLEAN
      /\ now \in Nat /\ calls \in Nat
  BY DEF Init
<1> QED
  BY <1>1, <1>2, <1>3, <1>4 DEF TypeOK

LEMMA TypeStep == TypeOK /\ [Next]_vars => TypeOK'
<1> SUFFICES ASSUME TypeOK, [Next]_vars PROVE TypeOK'
  OBVIOUS
<1>1. ASSUME NEW c \in Clients, Answer(c) \/ Fail(c) PROVE TypeOK'
  BY <1>1, ReturnCases, ReturnTyped
<1> QED
  BY <1>1, NextCases, ReadClockTyped, ExecuteTyped, ResendTyped, ResetTyped, ServerStepTyped

(***************************************************************************)
(* The values of the variables, for any clients and any lengths of stall   *)
(* and retry (redis_backend.py 139-219).                                   *)
(***************************************************************************)
THEOREM TypeCorrect == Spec => []TypeOK
BY TypeInit, TypeStep, RedisWindowAssumption, PTL DEF Spec


-----------------------------------------------------------------------------
(***************************************************************************)
(* The script on key k, place by place: what it keeps of the set, and      *)
(* whether it refuses, takes a new place or the place it had before.       *)
(***************************************************************************)
KeptBy(c) == Survivors(request[c].key, request[c].stamp - Window)

RefuseEffect(c, k) ==
    /\ zset' = [zset EXCEPT ![k] = KeptBy(c)]
    /\ expiry' = expiry /\ admitted' = admitted /\ request' = request

TakeEffect(c, k) ==
    LET n == Len(admitted[k])
    IN  /\ request[c].slot = 0
        /\ zset' = [zset EXCEPT ![k] = KeptBy(c) \cup {n + 1}]
        /\ request' = [request EXCEPT ![c].slot = n + 1]
        /\ Len(admitted'[k]) = n + 1
        /\ \A i \in 1 .. n : admitted'[k][i] = admitted[k][i]
        /\ admitted'[k][n + 1].stamp = request[c].stamp
        /\ admitted'[k][n + 1].at = now
        /\ admitted'[k][n + 1].limit = request[c].limit

TakeAgainEffect(c, k) ==
    /\ request[c].slot \in 1 .. Len(admitted[k])
    /\ zset' = [zset EXCEPT ![k] = KeptBy(c) \cup {request[c].slot}]
    /\ request' = request /\ admitted' = admitted

GrantEffect(c, k) ==
    /\ ~AtLimit(KeptBy(c), request[c].limit)
    /\ expiry' = [expiry EXCEPT ![k] = now + KeyLife]
    /\ TakeEffect(c, k) \/ TakeAgainEffect(c, k)

ScriptEffect(c, k) ==
    /\ k = request[c].key /\ pc[c] = "sent"
    /\ now' = now
    /\ \A j \in Keys \ {k} : admitted'[j] = admitted[j]
    /\ pc' = [pc EXCEPT ![c] = "refused"] \/ pc' = [pc EXCEPT ![c] = "granted"]
    /\ RefuseEffect(c, k) \/ GrantEffect(c, k)

LEMMA ExecuteEffect ==
    ASSUME TypeOK, MembersAreHistory, NEW c \in Clients, Execute(c)
    PROVE  \E k \in Keys : ScriptEffect(c, k)
<1> DEFINE k == request[c].key
           n == Len(admitted[k])
<1>1. /\ pc[c] = "sent" /\ ~At(c, "idle")
      /\ k \in Keys /\ request[c] \in Request /\ request[c].slot \in Nat
      /\ request[c].stamp \in Nat /\ request[c].limit \in Nat
  BY RequestTyped DEF Execute, At
<1>2. admitted[k] \in Seq(Admission) /\ n \in Nat /\ now \in Nat
  BY <1>1, LenProperties DEF TypeOK
<1>3. request[c].slot \in 0 .. n
  BY <1>1 DEF MembersAreHistory
<1>4. CASE AtLimit(KeptBy(c), request[c].limit)
  <2>1. /\ RefuseEffect(c, k) /\ now' = now
        /\ pc' = [pc EXCEPT ![c] = "refused"]
    BY <1>4 DEF Execute, RefuseEffect, KeptBy, Goto
  <2> QED
    BY <1>1, <2>1 DEF ScriptEffect, RefuseEffect
<1>5. CASE ~AtLimit(KeptBy(c), request[c].limit)
  <2> DEFINE place == Place(request[c])
             e == [stamp |-> request[c].stamp, at |-> now, limit |-> request[c].limit]
  <2>1. /\ zset' = [zset EXCEPT ![k] = KeptBy(c) \cup {place}]
        /\ expiry' = [expiry EXCEPT ![k] = now + KeyLife]
        /\ request' = [request EXCEPT ![c].slot = place]
        /\ pc' = [pc EXCEPT ![c] = "granted"]
        /\ admitted' = IF place <= n THEN admitted
                       ELSE [admitted EXCEPT ![k] = Append(@, e)]
        /\ now' = now
    BY <1>5 DEF Execute, Goto, KeptBy
  <2>2. CASE request[c].slot = 0
    <3>1. place = n + 1
      BY <2>2 DEF Place
    <3>2. admitted' = [admitted EXCEPT ![k] = Append(@, e)]
      BY <1>2, <2>1, <3>1
    <3>3. /\ e \in Admission /\ e.stamp = request[c].stamp /\ e.at = now
          /\ e.limit = request[c].limit
      BY <1>1, <1>2 DEF Admission
    <3>4. /\ Len(Append(admitted[k], e)) = n + 1
          /\ \A i \in 1 .. n : Append(admitted[k], e)[i] = admitted[k][i]
          /\ Append(admitted[k], e)[n + 1] = e
      BY <1>2, <3>3, AppendProperties
    <3>5. admitted'[k] = Append(admitted[k], e) /\ \A j \in Keys \ {k} : admitted'[j] = admitted[j]
      BY <1>1, <3>2 DEF TypeOK
    <3>6. TakeEffect(c, k)
      BY <2>1, <2>2, <3>1, <3>3, <3>4, <3>5 DEF TakeEffect
    <3> QED
      BY <1>1, <1>5, <2>1, <3>5, <3>6 DEF ScriptEffect, GrantEffect
  <2>3. CASE request[c].slot # 0
    <3>1. place = request[c].slot /\ request[c].slot \in 1 .. n
      BY <1>2, <1>3, <2>3 DEF Place
    <3>2. admitted' = admitted
      BY <2>1, <3>1
    <3>3. request' = request
      BY <1>1, <2>1, <3>1 DEF TypeOK, Request
    <3>4. TakeAgainEffect(c, k)
      BY <2>1, <3>1, <3>2, <3>3 DEF TakeAgainEffect
    <3> QED
      BY <1>1, <1>5, <2>1, <3>2, <3>4 DEF ScriptEffect, GrantEffect
  <2> QED
    BY <2>2, <2>3
<1> QED
  BY <1>4, <1>5


-----------------------------------------------------------------------------
(***************************************************************************)
(* The script keeps the invariant.                                         *)
(***************************************************************************)
HistoryInv ==
    /\ MembersAreHistory
    /\ GoneAreOld
    /\ KeysOutlive
    /\ StampsAreRecent
    /\ AdmissionsInOrder

LEMMA AdmissionTyped ==
    ASSUME TypeOK, NEW k \in Keys
    PROVE  /\ Len(admitted[k]) \in Nat /\ now \in Nat /\ expiry[k] \in Nat
           /\ zset[k] \subseteq Nat \ {0}
           /\ \A i \in 1 .. Len(admitted[k]) :
                 admitted[k][i].stamp \in Nat /\ admitted[k][i].at \in Nat
<1>1. admitted[k] \in Seq(Admission)
  BY DEF TypeOK
<1>2. Len(admitted[k]) \in Nat /\ \A i \in 1 .. Len(admitted[k]) : admitted[k][i] \in Admission
  BY <1>1, LenProperties, ElementOfSeq
<1> QED
  BY <1>2 DEF TypeOK, Admission

LEMMA OldByStamp ==
    ASSUME NEW at \in Nat, NEW stamp \in Nat, NEW mine \in Nat, NEW readAt \in Nat,
           NEW time \in Nat, NEW window \in Nat, NEW skew \in Nat, NEW stall \in Nat,
           at <= stamp + stall, ~(stamp > mine - window),
           mine <= readAt + skew, readAt <= time
    PROVE  at + window <= time + (skew + stall)
OBVIOUS

(***************************************************************************)
(* What the script on k removes was taken before every window to come.     *)
(***************************************************************************)
LEMMA PrunedAreOld ==
    ASSUME TypeOK, HistoryInv, NEW c \in Clients, ~At(c, "idle"),
           NEW k \in Keys, NEW i \in 1 .. Len(admitted[k]),
           ~(admitted[k][i].stamp > request[c].stamp - Window)
    PROVE  admitted[k][i].at + Window <= now + Slack
<1>1. /\ admitted[k][i].at <= admitted[k][i].stamp + MaxStall
      /\ request[c].readAt <= now /\ request[c].stamp <= request[c].readAt + MaxSkew
  BY DEF HistoryInv, StampsAreRecent, At
<1>2. /\ admitted[k][i].stamp \in Nat /\ admitted[k][i].at \in Nat /\ now \in Nat
      /\ request[c].readAt \in Nat /\ request[c].stamp \in Nat
  BY AdmissionTyped, RequestTyped
<1> QED
  BY <1>1, <1>2, ConstantsAreNatural, OldByStamp DEF Slack


(***************************************************************************)
(* What every step but a reset does to the calls under way.                *)
(***************************************************************************)
CallsRecent ==
    /\ \A c \in Clients : pc[c] # "idle" =>
          /\ request[c].readAt <= now
          /\ request[c].readAt <= request[c].stamp
          /\ request[c].stamp <= request[c].readAt + MaxSkew
    /\ \A c \in Clients : pc[c] = "sent" => now <= request[c].readAt + MaxStall

SlotsInHistory ==
    \A c \in Clients : pc[c] # "idle" =>
        request[c].slot \in 0 .. Len(admitted[request[c].key])

LEMMA ScriptKeepsCalls ==
    ASSUME TypeOK, HistoryInv, NEW c \in Clients, NEW k \in Keys, ScriptEffect(c, k)
    PROVE  CallsRecent' /\ SlotsInHistory'
<1>1. ASSUME NEW d \in Clients, pc'[d] # "idle"
      PROVE  /\ pc[d] # "idle" /\ (pc'[d] = "sent" => pc[d] = "sent")
             /\ request'[d].readAt = request[d].readAt
             /\ request'[d].stamp = request[d].stamp
             /\ request'[d].key = request[d].key
             /\ request'[d].slot = request[d].slot
                  \/ (d = c /\ request'[d].slot = Len(admitted[k]) + 1 /\ TakeEffect(c, k))
  <2>1. pc[d] # "idle" /\ (pc'[d] = "sent" => pc[d] = "sent")
    BY <1>1 DEF ScriptEffect, TypeOK
  <2>2. request[d] \in Request /\ request \in [Clients -> Request \cup {None}]
    BY <2>1, RequestTyped DEF At, TypeOK
  <2>3. CASE request' = request
    BY <2>1, <2>3
  <2>4. CASE request' # request
    <3>1. TakeEffect(c, k)
      BY <2>4 DEF ScriptEffect, RefuseEffect, GrantEffect, TakeAgainEffect
    <3>2. request' = [request EXCEPT ![c].slot = Len(admitted[k]) + 1]
      BY <3>1 DEF TakeEffect
    <3> QED
      BY <2>1, <2>2, <3>1, <3>2 DEF Request
  <2> QED
    BY <2>3, <2>4
<1>2. CallsRecent'
  BY <1>1 DEF CallsRecent, HistoryInv, StampsAreRecent, ScriptEffect
<1>3. SlotsInHistory'
  <2> SUFFICES ASSUME NEW d \in Clients, pc'[d] # "idle"
               PROVE  request'[d].slot \in 0 .. Len(admitted'[request'[d].key])
    BY DEF SlotsInHistory
  <2>1. pc[d] # "idle" /\ request'[d].key = request[d].key /\ request[d].key \in Keys
    BY <1>1, RequestTyped DEF At
  <2>2. /\ request[d].slot \in 0 .. Len(admitted[request[d].key])
        /\ \A j \in Keys : Len(admitted[j]) \in Nat
    BY <2>1, AdmissionTyped DEF HistoryInv, MembersAreHistory
  <2>3. \A j \in Keys : Len(admitted'[j]) = Len(admitted[j]) \/ (j = k /\ Len(admitted'[k]) = Len(admitted[k]) + 1)
    BY DEF ScriptEffect, RefuseEffect, GrantEffect, TakeEffect, TakeAgainEffect
  <2>4. CASE request'[d].slot = request[d].slot
    BY <2>1, <2>2, <2>3, <2>4
  <2>5. CASE d = c /\ request'[d].slot = Len(admitted[k]) + 1 /\ TakeEffect(c, k)
    <3>1. request[d].key = k /\ Len(admitted'[k]) = Len(admitted[k]) + 1
      BY <2>5 DEF ScriptEffect, TakeEffect
    <3> QED
      BY <2>1, <2>2, <2>5, <3>1
  <2> QED
    BY <1>1, <2>4, <2>5
<1> QED
  BY <1>2, <1>3


LEMMA ScriptKeepsHistory ==
    ASSUME TypeOK, TypeOK', HistoryInv, NEW c \in Clients, NEW k \in Keys, ScriptEffect(c, k)
    PROVE  HistoryInv'
<1> DEFINE n == Len(admitted[k])
<1>1. /\ n \in Nat /\ now \in Nat /\ expiry[k] \in Nat
      /\ zset[k] \subseteq 1 .. n
      /\ KeptBy(c) \subseteq zset[k]
      /\ \A i \in zset[k] : i \notin KeptBy(c) =>
            ~(admitted[k][i].stamp > request[c].stamp - Window)
  BY AdmissionTyped DEF HistoryInv, MembersAreHistory, KeptBy, Survivors, ScriptEffect
<1>2. /\ \A i \in 1 .. n : /\ admitted[k][i].at \in Nat /\ admitted[k][i].stamp \in Nat
                            /\ admitted[k][i].at <= now
                            /\ admitted[k][i].at <= admitted[k][i].stamp + MaxStall
      /\ \A i, j \in 1 .. n : i <= j => admitted[k][i].at <= admitted[k][j].at
  BY AdmissionTyped DEF HistoryInv, StampsAreRecent, AdmissionsInOrder
<1>3. \A i \in 1 .. n : i \notin KeptBy(c) => admitted[k][i].at + Window <= now + Slack
  <2>1. ~At(c, "idle")
    BY DEF ScriptEffect, At
  <2> SUFFICES ASSUME NEW i \in 1 .. n, i \notin KeptBy(c)
               PROVE  admitted[k][i].at + Window <= now + Slack
    OBVIOUS
  <2>2. CASE i \in zset[k]
    BY <1>1, <2>1, <2>2, PrunedAreOld
  <2>3. CASE i \notin zset[k]
    BY <2>3 DEF HistoryInv, GoneAreOld
  <2> QED
    BY <2>2, <2>3
<1>4. now' = now /\ \A j \in Keys : j # k =>
         zset'[j] = zset[j] /\ expiry'[j] = expiry[j] /\ admitted'[j] = admitted[j]
  BY DEF ScriptEffect, RefuseEffect, GrantEffect, TakeEffect, TakeAgainEffect, TypeOK
<1> HIDE DEF n
\* The places of k after the script: those before it, and at most one more.
<1>5. /\ \A i \in 1 .. n : admitted'[k][i] = admitted[k][i]
      /\ \/ Len(admitted'[k]) = n
         \/ /\ Len(admitted'[k]) = n + 1 /\ n + 1 \in zset'[k]
            /\ admitted'[k][n + 1].at = now
            /\ admitted'[k][n + 1].stamp = request[c].stamp
      /\ zset'[k] \subseteq 1 .. Len(admitted'[k])
      /\ KeptBy(c) \subseteq zset'[k]
      /\ \/ expiry'[k] = expiry[k] /\ zset'[k] \subseteq zset[k]
         \/ expiry'[k] = now + KeyLife
  <2>1. CASE RefuseEffect(c, k)
    BY <1>1, <2>1 DEF RefuseEffect, TypeOK, n
  <2>2. CASE GrantEffect(c, k) /\ TakeEffect(c, k)
    <3>1. zset'[k] = KeptBy(c) \cup {n + 1} /\ expiry'[k] = now + KeyLife
      BY <2>2 DEF GrantEffect, TakeEffect, TypeOK, n
    <3>2. /\ Len(admitted'[k]) = n + 1
          /\ \A i \in 1 .. n : admitted'[k][i] = admitted[k][i]
          /\ admitted'[k][n + 1].stamp = request[c].stamp
          /\ admitted'[k][n + 1].at = now
      BY <2>2 DEF TakeEffect, n
    <3>3. 1 .. n \subseteq 1 .. n + 1 /\ n + 1 \in 1 .. n + 1
      BY <1>1
    <3> QED
      BY <1>1, <3>1, <3>2, <3>3
  <2>3. CASE GrantEffect(c, k) /\ TakeAgainEffect(c, k)
    BY <1>1, <2>3 DEF GrantEffect, TakeAgainEffect, TypeOK, n
  <2> QED
    BY <2>1, <2>2, <2>3 DEF ScriptEffect, GrantEffect
<1>6. MembersAreHistory'
  <2>1. \A j \in Keys : zset'[j] \subseteq 1 .. Len(admitted'[j])
    BY <1>4, <1>5 DEF HistoryInv, MembersAreHistory
  <2> QED
    BY <2>1, ScriptKeepsCalls DEF MembersAreHistory, SlotsInHistory
<1>7. GoneAreOld'
  <2>1. \A i \in 1 .. Len(admitted'[k]) :
           i \notin zset'[k] => admitted'[k][i].at + Window <= now' + Slack
    <3> SUFFICES ASSUME NEW i \in 1 .. Len(admitted'[k]), i \notin zset'[k]
                 PROVE  admitted'[k][i].at + Window <= now' + Slack
      OBVIOUS
    <3>1. i \in 1 .. n /\ i \notin KeptBy(c)
      BY <1>1, <1>5
    <3> QED
      BY <1>3, <1>4, <1>5, <3>1 DEF n
  <2> QED
    BY <1>4, <2>1 DEF HistoryInv, GoneAreOld
<1>8. KeysOutlive'
  <2>1. \A i \in zset'[k] : admitted'[k][i].at + Window < expiry'[k]
    <3> SUFFICES ASSUME NEW i \in zset'[k]
                 PROVE  admitted'[k][i].at + Window < expiry'[k]
      OBVIOUS
    <3>1. CASE expiry'[k] = expiry[k] /\ zset'[k] \subseteq zset[k]
      BY <1>1, <1>5, <3>1 DEF HistoryInv, KeysOutlive
    <3>2. CASE expiry'[k] = now + KeyLife
      <4>1. admitted'[k][i].at \in Nat /\ admitted'[k][i].at <= now
        BY <1>1, <1>2, <1>5
      <4> QED
        BY <1>1, <3>2, <4>1, KeyOutlivesWindow, ConstantsAreNatural
    <3> QED
      BY <1>5, <3>1, <3>2
  <2> QED
    BY <1>4, <2>1 DEF HistoryInv, KeysOutlive
<1>9. StampsAreRecent'
  <2>1. \A i \in 1 .. Len(admitted'[k]) :
           /\ admitted'[k][i].at <= admitted'[k][i].stamp + MaxStall
           /\ admitted'[k][i].at <= now'
    <3>1. now <= request[c].stamp + MaxStall
      <4>1. now <= request[c].readAt + MaxStall /\ request[c].readAt <= request[c].stamp
        BY DEF ScriptEffect, HistoryInv, StampsAreRecent
      <4>2. request[c].readAt \in Nat /\ request[c].stamp \in Nat
        BY RequestTyped DEF ScriptEffect, At
      <4> QED
        BY <1>1, <4>1, <4>2, ConstantsAreNatural
    <3>2. ASSUME NEW i \in 1 .. Len(admitted'[k])
          PROVE  /\ admitted'[k][i].at <= admitted'[k][i].stamp + MaxStall
                 /\ admitted'[k][i].at <= now'
      <4>1. CASE i \in 1 .. n
        BY <1>2, <1>4, <1>5, <4>1
      <4>2. CASE i \notin 1 .. n
        <5>1. i = n + 1 /\ admitted'[k][i].at = now /\ admitted'[k][i].stamp = request[c].stamp
          BY <1>1, <1>5, <4>2
        <5> QED
          BY <1>1, <1>4, <3>1, <5>1
      <4> QED
        BY <4>1, <4>2
    <3> QED
      BY <3>2
  <2>2. \A j \in Keys : j # k => \A i \in 1 .. Len(admitted'[j]) :
           /\ admitted'[j][i].at <= admitted'[j][i].stamp + MaxStall
           /\ admitted'[j][i].at <= now'
    BY <1>4 DEF HistoryInv, StampsAreRecent
  <2>3. CallsRecent'
    BY ScriptKeepsCalls
  <2> QED
    BY <2>1, <2>2, <2>3 DEF StampsAreRecent, CallsRecent
<1>10. AdmissionsInOrder'
  <2>1. ASSUME NEW i \in 1 .. Len(admitted'[k]), NEW j \in 1 .. Len(admitted'[k]), i <= j
        PROVE  admitted'[k][i].at <= admitted'[k][j].at
    <3>1. CASE j \in 1 .. n
      <4>1. i \in 1 .. n
        BY <1>1, <2>1, <3>1
      <4> QED
        BY <1>2, <1>5, <2>1, <3>1, <4>1
    <3>2. CASE j \notin 1 .. n
      <4>1. j = n + 1 /\ admitted'[k][j].at = now
        BY <1>1, <1>5, <3>2
      <4>2. CASE i \in 1 .. n
        BY <1>2, <1>5, <4>1, <4>2
      <4>3. CASE i \notin 1 .. n
        <5>1. i = n + 1
          BY <1>1, <1>5, <4>3
        <5> QED
          BY <1>1, <4>1, <5>1
      <4> QED
        BY <4>2, <4>3
    <3> QED
      BY <3>1, <3>2
  <2> QED
    BY <1>4, <2>1 DEF HistoryInv, AdmissionsInOrder
<1> QED
  BY <1>6, <1>7, <1>8, <1>9, <1>10 DEF HistoryInv


-----------------------------------------------------------------------------
(***************************************************************************)
(* The other steps keep the invariant.                                     *)
(***************************************************************************)
LEMMA ReadClockKeeps ==
    ASSUME TypeOK, HistoryInv, NEW c \in Clients, ReadClock(c)
    PROVE  HistoryInv'
<1>1. UNCHANGED <<now, server>>
  BY DEF ReadClock
<1> DEFINE New(r) == /\ r.key \in Keys /\ r.slot = 0 /\ r.readAt = now
                     /\ now <= r.stamp /\ r.stamp <= now + MaxSkew
<1>2. \/ pc' = pc /\ request' = request
      \/ /\ pc' = [pc EXCEPT ![c] = "sent"] /\ \A d \in Clients \ {c} : request'[d] = request[d]
         /\ New(request'[c])
  BY ConstantsAreNatural DEF ReadClock, TypeOK, Goto
<1> HIDE DEF New
<1>3. now \in Nat /\ \A k \in Keys : Len(admitted[k]) \in Nat
  BY AdmissionTyped DEF TypeOK
<1>4. CallsRecent' /\ SlotsInHistory'
  <2>1. CASE pc' = pc /\ request' = request
    BY <1>1, <2>1 DEF server, HistoryInv, StampsAreRecent, MembersAreHistory,
                      CallsRecent, SlotsInHistory
  <2>2. CASE /\ pc' = [pc EXCEPT ![c] = "sent"]
             /\ \A d \in Clients \ {c} : request'[d] = request[d]
             /\ New(request'[c])
    <3>1. \A d \in Clients : d # c => pc'[d] = pc[d] /\ request'[d] = request[d]
      BY <2>2 DEF TypeOK
    <3>2. CallsRecent'
      BY <1>1, <1>3, <2>2, <3>1, ConstantsAreNatural
         DEF New, server, HistoryInv, StampsAreRecent, CallsRecent
    <3>3. SlotsInHistory'
      BY <1>1, <1>3, <2>2, <3>1 DEF New, server, HistoryInv, MembersAreHistory, SlotsInHistory
    <3> QED
      BY <3>2, <3>3
  <2> QED
    BY <1>2, <2>1, <2>2
<1> QED
  BY <1>1, <1>4 DEF server, HistoryInv, MembersAreHistory, GoneAreOld, KeysOutlive,
                    StampsAreRecent, AdmissionsInOrder, CallsRecent, SlotsInHistory

LEMMA ReturnKeeps ==
    ASSUME TypeOK, HistoryInv, NEW c \in Clients, NEW through \in BOOLEAN, Return(c, through)
    PROVE  HistoryInv'
<1>1. /\ UNCHANGED <<now, server>>
      /\ pc' = [pc EXCEPT ![c] = "idle"] /\ request' = [request EXCEPT ![c] = None]
  BY DEF Return, Goto
<1>2. \A d \in Clients : pc'[d] # "idle" => pc'[d] = pc[d] /\ request'[d] = request[d]
  BY <1>1 DEF TypeOK
<1> QED
  BY <1>1, <1>2 DEF server, HistoryInv, MembersAreHistory, GoneAreOld, KeysOutlive,
                    StampsAreRecent, AdmissionsInOrder

LEMMA ResendKeeps ==
    ASSUME TypeOK, HistoryInv, NEW c \in Clients, Resend(c)
    PROVE  HistoryInv'
<1>1. /\ UNCHANGED <<now, server>> /\ ~At(c, "idle")
      /\ now - request[c].readAt <= MaxStall
      /\ pc' = [pc EXCEPT ![c] = "sent"]
      /\ request' = [request EXCEPT ![c].tries = @ + 1]
  BY DEF Resend, Goto
<1>2. request[c] \in Request /\ pc[c] # "idle"
  BY <1>1, RequestTyped DEF At
<1>3. \A d \in Clients : pc'[d] # "idle" =>
         /\ pc[d] # "idle"
         /\ d # c => pc'[d] = pc[d]
         /\ request'[d].key = request[d].key /\ request'[d].slot = request[d].slot
         /\ request'[d].stamp = request[d].stamp /\ request'[d].readAt = request[d].readAt
  BY <1>1, <1>2 DEF TypeOK, Request
<1>4. now <= request[c].readAt + MaxStall
  <2>1. now \in Nat /\ request[c].readAt \in Nat /\ MaxStall \in Nat
    BY <1>2, ConstantsAreNatural DEF TypeOK, Request
  <2> QED
    BY ONLY <1>1, <2>1
<1>5. CallsRecent'
  <2>1. now' = now /\ \A d \in Clients : pc[d] # "idle" =>
          /\ request[d].readAt <= now
          /\ request[d].readAt <= request[d].stamp
          /\ request[d].stamp <= request[d].readAt + MaxSkew
    BY <1>1 DEF HistoryInv, StampsAreRecent
  <2>2. \A d \in Clients : pc[d] = "sent" => now <= request[d].readAt + MaxStall
    BY DEF HistoryInv, StampsAreRecent
  <2>3. ASSUME NEW d \in Clients, pc'[d] = "sent"
        PROVE  now' <= request'[d].readAt + MaxStall
    <3>1. request'[d].readAt = request[d].readAt
      BY <1>3, <2>3
    <3>2. d # c => now <= request[d].readAt + MaxStall
      BY <1>3, <2>2, <2>3
    <3> QED
      BY <1>4, <2>1, <3>1, <3>2
  <2>4. ASSUME NEW d \in Clients, pc'[d] # "idle"
        PROVE  /\ request'[d].readAt <= now'
               /\ request'[d].readAt <= request'[d].stamp
               /\ request'[d].stamp <= request'[d].readAt + MaxSkew
    BY <1>3, <2>1, <2>4
  <2> QED
    BY <2>3, <2>4 DEF CallsRecent
<1>6. SlotsInHistory'
  <2>1. admitted' = admitted
    BY <1>1 DEF server
  <2> QED
    BY <1>3, <2>1 DEF HistoryInv, MembersAreHistory, SlotsInHistory
<1> QED
  BY <1>1, <1>5, <1>6 DEF server, HistoryInv, MembersAreHistory, GoneAreOld, KeysOutlive,
                    StampsAreRecent, AdmissionsInOrder, CallsRecent, SlotsInHistory

LEMMA CurrentCountKeeps ==
    ASSUME TypeOK, HistoryInv, CurrentCount
    PROVE  HistoryInv'
<1>1. PICK k \in Keys : \E stamp \in now - MaxStall .. now + MaxSkew :
         zset' = [zset EXCEPT ![k] = Survivors(k, stamp - Window)]
  BY DEF CurrentCount
<1>2. PICK stamp \in now - MaxStall .. now + MaxSkew :
         zset' = [zset EXCEPT ![k] = Survivors(k, stamp - Window)]
  BY <1>1
<1>3. UNCHANGED <<now, expiry, admitted, pc, request>>
  BY DEF CurrentCount
<1>4. /\ \A j \in Keys : zset'[j] \subseteq zset[j]
      /\ \A j \in Keys : \A i \in zset[j] : i \notin zset'[j] =>
            j = k /\ ~(admitted[k][i].stamp > stamp - Window)
  BY <1>2 DEF Survivors, TypeOK
<1>5. GoneAreOld'
  <2> SUFFICES ASSUME NEW j \in Keys, NEW i \in 1 .. Len(admitted[j]), i \notin zset'[j]
               PROVE  admitted[j][i].at + Window <= now + Slack
    BY <1>3 DEF GoneAreOld
  <2>1. CASE i \notin zset[j]
    BY <2>1 DEF HistoryInv, GoneAreOld
  <2>2. CASE i \in zset[j]
    <3> DEFINE a == admitted[j][i].at
               s == admitted[j][i].stamp
    <3>1. a \in Nat /\ s \in Nat /\ now \in Nat /\ a <= s + MaxStall
      BY AdmissionTyped DEF HistoryInv, StampsAreRecent
    <3>2. ~(s > stamp - Window)
      BY <1>4, <2>2
    <3> HIDE DEF a, s
    <3>3. stamp \in Int /\ stamp <= now + MaxSkew
      BY <3>1, ConstantsAreNatural
    <3>4. a + Window <= now + Slack
      BY <3>1, <3>2, <3>3, ConstantsAreNatural DEF Slack
    <3> QED
      BY <3>4 DEF a
  <2> QED
    BY <2>1, <2>2
<1> QED
  BY <1>3, <1>4, <1>5 DEF HistoryInv, MembersAreHistory, KeysOutlive, StampsAreRecent,
                          AdmissionsInOrder

LEMMA ResetKeeps ==
    ASSUME TypeOK, HistoryInv, NEW ks \in SUBSET Keys, Reset(ks)
    PROVE  HistoryInv'
<1>1. /\ now' = now /\ pc' = pc
      /\ \A k \in ks : zset'[k] = {} /\ admitted'[k] = <<>>
      /\ \A k \in Keys \ ks : /\ zset'[k] = zset[k] /\ expiry'[k] = expiry[k]
                              /\ admitted'[k] = admitted[k]
  BY DEF Reset
<1>2. Len(<<>>) = 0
  OBVIOUS
<1>3. ASSUME NEW c \in Clients, pc[c] # "idle"
      PROVE  /\ request'[c].stamp = request[c].stamp /\ request'[c].readAt = request[c].readAt
             /\ request'[c].key = request[c].key /\ request[c].key \in Keys
             /\ request'[c].slot = IF request[c].key \in ks THEN 0 ELSE request[c].slot
  <2>1. request[c] \in Request
    BY <1>3, RequestTyped DEF At
  <2>2. request'[c] = IF request[c].key \in ks THEN [request[c] EXCEPT !.slot = 0]
                      ELSE request[c]
    BY <1>3 DEF Reset
  <2> QED
    BY <2>1, <2>2 DEF Request
<1>4. MembersAreHistory'
  <2>1. \A k \in Keys : zset'[k] \subseteq 1 .. Len(admitted'[k])
    BY <1>1, <1>2 DEF HistoryInv, MembersAreHistory
  <2>2. ASSUME NEW c \in Clients, pc'[c] # "idle"
        PROVE  request'[c].slot \in 0 .. Len(admitted'[request'[c].key])
    <3>1. pc[c] # "idle"
      BY <1>1, <2>2
    <3>2. CASE request[c].key \in ks
      BY <1>1, <1>2, <1>3, <3>1, <3>2
    <3>3. CASE request[c].key \notin ks
      BY <1>1, <1>3, <3>1, <3>3 DEF HistoryInv, MembersAreHistory
    <3> QED
      BY <3>2, <3>3
  <2> QED
    BY <2>1, <2>2 DEF MembersAreHistory
<1>5. GoneAreOld' /\ KeysOutlive' /\ AdmissionsInOrder'
  <2>1. GoneAreOld'
    BY <1>1, <1>2 DEF HistoryInv, GoneAreOld
  <2>2. KeysOutlive'
    BY <1>1 DEF HistoryInv, KeysOutlive
  <2>3. AdmissionsInOrder'
    BY <1>1, <1>2 DEF HistoryInv, AdmissionsInOrder
  <2> QED
    BY <2>1, <2>2, <2>3
<1>6. StampsAreRecent'
  <2>1. \A k \in Keys : \A i \in 1 .. Len(admitted'[k]) :
           /\ admitted'[k][i].at <= admitted'[k][i].stamp + MaxStall
           /\ admitted'[k][i].at <= now'
    BY <1>1, <1>2 DEF HistoryInv, StampsAreRecent
  <2>2. CallsRecent'
    BY <1>1, <1>3 DEF HistoryInv, StampsAreRecent, CallsRecent
  <2> QED
    BY <2>1, <2>2 DEF StampsAreRecent, CallsRecent
<1> QED
  BY <1>4, <1>5, <1>6 DEF HistoryInv

LEMMA TickKeeps ==
    ASSUME TypeOK, HistoryInv, Tick
    PROVE  HistoryInv'
<1>1. /\ now' = now + 1 /\ UNCHANGED <<admitted, pc, request>>
      /\ \A k \in Keys : IF expiry[k] > now + 1
                         THEN zset'[k] = zset[k] /\ expiry'[k] = expiry[k]
                         ELSE zset'[k] = {}
      /\ \A c \in Clients : pc[c] = "sent" => now - request[c].readAt < MaxStall
  BY DEF Tick, At
<1>2. now \in Nat
  BY DEF TypeOK
<1>3. MembersAreHistory' /\ KeysOutlive' /\ AdmissionsInOrder'
  BY <1>1 DEF HistoryInv, MembersAreHistory, KeysOutlive, AdmissionsInOrder
<1>4. GoneAreOld'
  <2> SUFFICES ASSUME NEW k \in Keys, NEW i \in 1 .. Len(admitted[k]), i \notin zset'[k]
               PROVE  admitted[k][i].at + Window <= now + 1 + Slack
    BY <1>1 DEF GoneAreOld
  <2>1. admitted[k][i].at \in Nat /\ expiry[k] \in Nat
    BY AdmissionTyped
  <2>2. CASE i \notin zset[k]
    <3>1. admitted[k][i].at + Window <= now + Slack
      BY <2>2 DEF HistoryInv, GoneAreOld
    <3> QED
      BY <1>2, <2>1, <3>1, ConstantsAreNatural
  <2>3. CASE i \in zset[k]
    <3>1. admitted[k][i].at + Window < expiry[k]
      BY <2>3 DEF HistoryInv, KeysOutlive
    <3>2. ~(expiry[k] > now + 1)
      BY <1>1, <2>3
    <3> QED
      BY <1>2, <2>1, <3>1, <3>2, ConstantsAreNatural
  <2> QED
    BY <2>2, <2>3
<1>5. StampsAreRecent'
  <2>1. \A k \in Keys : \A i \in 1 .. Len(admitted[k]) :
           /\ admitted[k][i].at <= admitted[k][i].stamp + MaxStall
           /\ admitted[k][i].at <= now + 1
    BY <1>2, AdmissionTyped DEF HistoryInv, StampsAreRecent
  <2>2. \A c \in Clients : pc[c] # "idle" => request[c].readAt \in Nat
    BY RequestTyped DEF At
  <2>3. CallsRecent'
    BY <1>1, <1>2, <2>2, ConstantsAreNatural DEF HistoryInv, StampsAreRecent, CallsRecent
  <2> QED
    BY <1>1, <2>1, <2>3 DEF StampsAreRecent, CallsRecent
<1> QED
  BY <1>3, <1>4, <1>5 DEF HistoryInv


LEMMA HistoryStep ==
    ASSUME TypeOK, TypeOK', HistoryInv, [Next]_vars
    PROVE  HistoryInv'
<1>1. ASSUME NEW c \in Clients, Execute(c) PROVE HistoryInv'
  <2>1. PICK k \in Keys : ScriptEffect(c, k)
    BY <1>1, ExecuteEffect DEF HistoryInv
  <2> QED
    BY <2>1, ScriptKeepsHistory
<1>2. ASSUME NEW c \in Clients, Answer(c) \/ Fail(c) PROVE HistoryInv'
  BY <1>2, ReturnCases, ReturnKeeps
<1>3. CASE UNCHANGED vars
  BY <1>3 DEF vars, server, HistoryInv, MembersAreHistory, GoneAreOld, KeysOutlive,
              StampsAreRecent, AdmissionsInOrder
<1> QED
  BY <1>1, <1>2, <1>3, NextCases, ReadClockKeeps, ResendKeeps, CurrentCountKeeps,
     ResetKeeps, TickKeeps

LEMMA HistoryInit == Init => HistoryInv
<1> SUFFICES ASSUME Init PROVE HistoryInv
  OBVIOUS
<1>1. /\ \A k \in Keys : zset[k] = {} /\ admitted[k] = <<>>
      /\ \A c \in Clients : pc[c] = "idle"
  BY DEF Init
<1>2. Len(<<>>) = 0
  OBVIOUS
<1> QED
  BY <1>1, <1>2 DEF HistoryInv, MembersAreHistory, GoneAreOld, KeysOutlive,
                    StampsAreRecent, AdmissionsInOrder

(***************************************************************************)
(* The members of a key are the end of its history, and what is gone from  *)
(* it is out of every window still to come (redis_backend.py 71-81).       *)
(***************************************************************************)
THEOREM InvariantHolds == Spec => []WindowInv
<1>1. Init => HistoryInv
  BY HistoryInit
<1>2. HistoryInv /\ TypeOK /\ TypeOK' /\ [Next]_vars => HistoryInv'
  BY HistoryStep
<1>3. HistoryInv /\ TypeOK => WindowInv
  BY DEF HistoryInv, WindowInv
<1> QED
  BY <1>1, <1>2, <1>3, TypeCorrect, PTL DEF Spec

-----------------------------------------------------------------------------
(***************************************************************************)
(* The refinement of WindowLimit.                                          *)
(***************************************************************************)
LEMMA KnownOfAppend ==
    ASSUME NEW s, NEW s2, NEW time, NEW limit, Len(s) \in Nat, Len(s2) = Len(s) + 1,
           \A i \in 1 .. Len(s) : s2[i] = s[i],
           s2[Len(s) + 1].at = time, s2[Len(s) + 1].limit = limit
    PROVE  Known(s2) = Append(Known(s), [at |-> time, limit |-> limit])
<1> DEFINE u == Known(s)
           e == [at |-> time, limit |-> limit]
<1>1. u = [i \in 1 .. Len(s) |-> [at |-> s[i].at, limit |-> s[i].limit]]
  BY DEF Known
<1>2. Len(u) = Len(s)
  BY <1>1
<1>3. Append(u, e) = [i \in 1 .. Len(u) + 1 |-> IF i \in 1 .. Len(u) THEN u[i] ELSE e]
  BY <1>1
<1>4. ASSUME NEW i \in 1 .. Len(s) + 1
      PROVE  [at |-> s2[i].at, limit |-> s2[i].limit] =
                IF i \in 1 .. Len(s) THEN [at |-> s[i].at, limit |-> s[i].limit] ELSE e
  OBVIOUS
<1> QED
  BY <1>1, <1>2, <1>3, <1>4 DEF Known

LEMMA KnownOfEmpty == Known(<<>>) = <<>>
BY DEF Known

Histories == [k \in Keys |-> Known(admitted[k])]

(***************************************************************************)
(* If fewer than limit of n places are kept, one of the last limit places  *)
(* is not.                                                                 *)
(***************************************************************************)
LEMMA OneIsGone ==
    ASSUME NEW n \in Nat, NEW limit \in Nat, limit <= n, NEW kept \in SUBSET (1 .. n),
           ~(Cardinality(kept) >= limit)
    PROVE  \E i \in n + 1 - limit .. n : i \in 1 .. n /\ i \notin kept
<1> SUFFICES ASSUME \A i \in n + 1 - limit .. n : i \in 1 .. n => i \in kept
             PROVE  Cardinality(kept) >= limit
  OBVIOUS
<1>1. n + 1 - limit \in Int /\ n \in Int
  OBVIOUS
<1>2. /\ IsFiniteSet(n + 1 - limit .. n)
      /\ Cardinality(n + 1 - limit .. n) =
            IF n + 1 - limit > n THEN 0 ELSE n - (n + 1 - limit) + 1
  BY <1>1, FS_Interval
<1>3. Cardinality(n + 1 - limit .. n) = limit
  BY <1>2
<1>4. n + 1 - limit .. n \subseteq kept
  OBVIOUS
<1>5. IsFiniteSet(1 .. n)
  BY FS_Interval
<1>6. IsFiniteSet(kept)
  BY <1>5, FS_Subset
<1>7. Cardinality(n + 1 - limit .. n) <= Cardinality(kept)
  BY <1>4, <1>6, FS_Subset
<1>8. Cardinality(kept) \in Nat
  BY <1>6, FS_CardinalityType
<1> QED
  BY <1>3, <1>7, <1>8


LEMMA NewPlaceHasRoom ==
    ASSUME TypeOK, TypeOK', HistoryInv, HistoryInv', NEW c \in Clients, NEW k \in Keys,
           ScriptEffect(c, k), GrantEffect(c, k), TakeEffect(c, k)
    PROVE  Promise!HasRoom(k, request[c].limit)
<1> DEFINE n == Len(admitted[k])
           limit == request[c].limit
           u == Known(admitted[k])
<1>1. /\ n \in Nat /\ limit \in Nat /\ 0 < limit
      /\ now \in Nat /\ now' = now
  <2>1. ~At(c, "idle") /\ k = request[c].key /\ now' = now
    BY DEF ScriptEffect, At
  <2>2. limit \in Limits[k] \ {0}
    BY <2>1, RequestTyped
  <2> QED
    BY <2>1, <2>2, AdmissionTyped, RequestTyped
<1>2. Len(u) = n /\ \A i \in 1 .. n : u[i].at = admitted[k][i].at
  BY <1>1 DEF Known
<1>3. ASSUME n >= limit
      PROVE  now - u[n + 1 - limit].at > Window - MaxSkew - MaxStall - 1
  <2>1. KeptBy(c) \subseteq 1 .. n /\ ~(Cardinality(KeptBy(c)) >= limit)
    BY DEF KeptBy, Survivors, ScriptEffect, HistoryInv, MembersAreHistory, GrantEffect, AtLimit
  <2> HIDE DEF n, limit, u
  <2>2. limit <= n
    BY <1>1, <1>3
  <2>3. PICK i \in n + 1 - limit .. n : i \in 1 .. n /\ i \notin KeptBy(c)
    BY <1>1, <2>1, <2>2, OneIsGone
  <2>4. /\ i \in 1 .. Len(admitted'[k]) /\ i \notin zset'[k]
        /\ admitted'[k][i] = admitted[k][i]
    <3>1. /\ Len(admitted'[k]) = n + 1
          /\ admitted'[k][i] = admitted[k][i]
          /\ zset'[k] = KeptBy(c) \cup {n + 1}
      BY <2>3 DEF TakeEffect, TypeOK, n
    <3> QED
      BY <1>1, <2>3, <3>1
  <2>5. admitted[k][i].at + Window <= now + Slack
    BY <1>1, <2>4 DEF HistoryInv, GoneAreOld
  <2>6. n + 1 - limit \in 1 .. n /\ n + 1 - limit <= i
    BY <1>1, <1>3, <2>3
  <2>7. admitted[k][n + 1 - limit].at <= admitted[k][i].at
    BY <2>3, <2>6 DEF HistoryInv, AdmissionsInOrder, n
  <2>8. admitted[k][n + 1 - limit].at \in Nat /\ admitted[k][i].at \in Nat
    BY <2>3, <2>6, AdmissionTyped DEF n
  <2> DEFINE a == admitted[k][n + 1 - limit].at
             b == admitted[k][i].at
  <2> HIDE DEF a, b
  <2>9. a \in Nat /\ b \in Nat /\ a <= b /\ b + Window <= now + (MaxSkew + MaxStall)
    BY <2>5, <2>7, <2>8 DEF a, b, Slack
  <2>10. now - a > Window - MaxSkew - MaxStall - 1
    BY <1>1, <2>9, ConstantsAreNatural
  <2> QED
    BY <1>2, <2>6, <2>10 DEF a
<1> QED
  BY <1>1, <1>2, <1>3 DEF Promise!HasRoom

LEMMA ExecuteImplements ==
    ASSUME TypeOK, TypeOK', HistoryInv, HistoryInv', NEW c \in Clients, Execute(c)
    PROVE  \/ \E k \in Keys : \E limit \in Limits[k] : Promise!Admit(k, limit)
           \/ UNCHANGED Promise!limiter
<1>1. PICK k \in Keys : ScriptEffect(c, k)
  BY ExecuteEffect DEF HistoryInv
<1>2. now' = now /\ \A j \in Keys \ {k} : admitted'[j] = admitted[j]
  BY <1>1 DEF ScriptEffect
<1>3. CASE admitted' = admitted
  BY <1>2, <1>3 DEF Promise!limiter
<1>4. CASE GrantEffect(c, k) /\ TakeEffect(c, k)
  <2> DEFINE limit == request[c].limit
             e == [at |-> now, limit |-> limit]
  <2>1. Promise!HasRoom(k, limit) /\ limit \in Limits[k]
    BY <1>1, <1>4, NewPlaceHasRoom, RequestTyped DEF ScriptEffect, At
  <2>2. Known(admitted'[k]) = Append(Known(admitted[k]), e)
    <3> DEFINE a == admitted[k]
               b == admitted'[k]
    <3>1. /\ Len(a) \in Nat /\ Len(b) = Len(a) + 1
          /\ \A i \in 1 .. Len(a) : b[i] = a[i]
          /\ b[Len(a) + 1].at = now /\ b[Len(a) + 1].limit = limit
      BY <1>4, AdmissionTyped DEF TakeEffect
    <3> HIDE DEF a, b, limit
    <3>2. Known(b) = Append(Known(a), [at |-> now, limit |-> limit])
      BY ONLY <3>1, KnownOfAppend
    <3> QED
      BY <3>2 DEF a, b, limit
  <2>3. Histories' = [Histories EXCEPT ![k] = Append(@, e)]
    BY <1>2, <2>2 DEF Histories
  <2>4. Promise!Admit(k, limit)
    BY <1>2, <2>1, <2>3 DEF Promise!Admit, Histories
  <2> QED
    BY <2>1, <2>4
<1> QED
  BY <1>1, <1>3, <1>4 DEF ScriptEffect, RefuseEffect, GrantEffect, TakeAgainEffect

LEMMA ResetImplements ==
    ASSUME NEW ks \in SUBSET Keys, Reset(ks)
    PROVE  Promise!Forgive(ks)
<1>1. \A k \in Keys :
         Known(admitted'[k]) = IF k \in ks THEN <<>> ELSE Known(admitted[k])
  BY KnownOfEmpty DEF Reset
<1> QED
  BY <1>1 DEF Promise!Forgive, Reset

(***************************************************************************)
(* Replicas whose clocks differ by MaxSkew at most together implement      *)
(* WindowLimit, whatever is lost, sent again, counted, reset or expires    *)
(* (redis_backend.py 59-83, 158-183).                                      *)
(***************************************************************************)
THEOREM Implements == Spec => KeepsLimit
<1>1. Init => Promise!Init
  BY KnownOfEmpty DEF Init, Promise!Init
<1>2. WindowInv /\ WindowInv' /\ [Next]_vars => [Promise!Next]_(Promise!limiter)
  <2> SUFFICES ASSUME WindowInv, WindowInv', [Next]_vars
               PROVE  [Promise!Next]_(Promise!limiter)
    OBVIOUS
  <2>1. TypeOK /\ TypeOK' /\ HistoryInv /\ HistoryInv'
    BY DEF WindowInv, HistoryInv
  <2>2. ASSUME NEW c \in Clients, Execute(c) PROVE [Promise!Next]_(Promise!limiter)
    BY <2>1, <2>2, ExecuteImplements DEF Promise!Next
  <2>3. ASSUME NEW ks \in SUBSET Keys, Reset(ks) PROVE [Promise!Next]_(Promise!limiter)
    BY <2>3, ResetImplements DEF Promise!Next
  <2>4. CASE Tick
    BY <2>4 DEF Tick, Promise!Next, Promise!Tick
  <2>5. ASSUME UNCHANGED <<now, admitted>> PROVE [Promise!Next]_(Promise!limiter)
    BY <2>5 DEF Promise!limiter
  <2>6. CASE \/ \E c \in Clients : ReadClock(c) \/ Resend(c)
             \/ CurrentCount
             \/ UNCHANGED vars
    BY <2>5, <2>6 DEF ReadClock, Resend, CurrentCount, vars, server
  <2>7. ASSUME NEW c \in Clients, Answer(c) \/ Fail(c)
        PROVE  [Promise!Next]_(Promise!limiter)
    BY <2>5, <2>7, ReturnCases DEF Return, server
  <2> QED
    BY <2>2, <2>3, <2>4, <2>6, <2>7, NextCases
<1> QED
  BY <1>1, <1>2, InvariantHolds, PTL DEF Spec, KeepsLimit, Promise!Spec


-----------------------------------------------------------------------------
(***************************************************************************)
(* The account of the slots.                                               *)
(***************************************************************************)
AccountOf(k) == Len(admitted[k]) = told[k] + burned[k] + Cardinality(HasSlot(k))

LEMMA HoldersAreFinite ==
    ASSUME NEW k \in Keys
    PROVE  /\ IsFiniteSet(HasSlot(k)) /\ Cardinality(HasSlot(k)) \in Nat
           /\ HasSlot(k) \subseteq Clients
<1>1. HasSlot(k) \subseteq Clients /\ IsFiniteSet(Clients)
  BY RedisWindowAssumption DEF HasSlot
<1> QED
  BY <1>1, FS_Subset, FS_CardinalityType

LEMMA SameHolders ==
    ASSUME \A c \in Clients :
              /\ pc'[c] = "idle" <=> pc[c] = "idle"
              /\ pc[c] # "idle" =>
                    request'[c].key = request[c].key /\ request'[c].slot = request[c].slot
    PROVE  \A k \in Keys : HasSlot(k)' = HasSlot(k)
BY DEF HasSlot

LEMMA ExecuteAccounts ==
    ASSUME TypeOK, HistoryInv, SlotsAccounted, NEW c \in Clients, Execute(c)
    PROVE  SlotsAccounted'
<1>1. PICK k \in Keys : ScriptEffect(c, k)
  BY ExecuteEffect DEF HistoryInv
<1>2. /\ k = request[c].key /\ pc[c] = "sent"
      /\ told' = told /\ burned' = burned /\ unseen' = unseen /\ fail_closed' = fail_closed
      /\ \A d \in Clients : d # c => pc'[d] = pc[d]
      /\ pc'[c] # "idle"
      /\ \A j \in Keys \ {k} : admitted'[j] = admitted[j]
  BY <1>1 DEF Execute, ScriptEffect, outcome, TypeOK
<1>3. CASE request' = request /\ admitted' = admitted
  <2>1. \A j \in Keys : HasSlot(j)' = HasSlot(j)
    BY <1>2, <1>3, SameHolders
  <2> QED
    BY <1>2, <1>3, <2>1 DEF SlotsAccounted
<1>4. CASE TakeEffect(c, k)
  <2>1. request[c] \in Request /\ request[c].slot = 0
    BY <1>2, <1>4, RequestTyped DEF TakeEffect, At
  <2>2. /\ Len(admitted'[k]) = Len(admitted[k]) + 1 /\ Len(admitted[k]) \in Nat
        /\ request' = [request EXCEPT ![c].slot = Len(admitted[k]) + 1]
    BY <1>4, AdmissionTyped DEF TakeEffect
  <2>3. /\ request'[c].slot # 0 /\ request'[c].key = k
        /\ \A d \in Clients : d # c => request'[d] = request[d]
    BY <1>2, <2>1, <2>2 DEF TypeOK, Request
  <2>4. HasSlot(k)' = HasSlot(k) \cup {c} /\ c \notin HasSlot(k)
    BY <1>2, <2>1, <2>3 DEF HasSlot
  <2>5. \A j \in Keys : j # k => HasSlot(j)' = HasSlot(j)
    BY <1>2, <2>3 DEF HasSlot
  <2>6. Cardinality(HasSlot(k)') = Cardinality(HasSlot(k)) + 1
    BY <2>4, HoldersAreFinite, FS_AddElement
  <2>7. AccountOf(k)'
    <3>1. /\ Len(admitted[k]) = told[k] + burned[k] + Cardinality(HasSlot(k))
          /\ told[k] \in Nat /\ burned[k] \in Nat /\ Cardinality(HasSlot(k)) \in Nat
      BY HoldersAreFinite DEF SlotsAccounted, TypeOK
    <3>2. Len(admitted'[k]) = told'[k] + burned'[k] + Cardinality(HasSlot(k)')
      BY <1>2, <2>2, <2>6, <3>1
    <3> QED
      BY <3>2 DEF AccountOf
  <2>8. \A j \in Keys : j # k => AccountOf(j)'
    BY <1>2, <2>5 DEF SlotsAccounted, AccountOf
  <2> QED
    BY <1>2, <2>7, <2>8 DEF SlotsAccounted, AccountOf
<1> QED
  BY <1>1, <1>3, <1>4 DEF ScriptEffect, RefuseEffect, GrantEffect, TakeAgainEffect

LEMMA ReturnAccounts ==
    ASSUME TypeOK, SlotsAccounted, NEW c \in Clients, ~At(c, "idle"), NEW through \in BOOLEAN,
           Return(c, through), through => At(c, "granted") \/ ~fail_closed
    PROVE  SlotsAccounted'
<1> DEFINE key == request[c].key
           slot == request[c].slot
<1>1. PICK k \in Keys : k = key
  BY RequestTyped
<1>2. PICK slots \in Nat : slots = IF slot = 0 THEN 0 ELSE 1
  OBVIOUS
<1>3. /\ told' = IF through THEN [told EXCEPT ![k] = @ + slots] ELSE told
      /\ burned' = IF through THEN burned ELSE [burned EXCEPT ![k] = @ + slots]
      /\ unseen' = (unseen \/ (through /\ slots = 0 /\ ~At(c, "granted")))
      /\ pc' = [pc EXCEPT ![c] = "idle"]
      /\ request' = [request EXCEPT ![c] = None]
      /\ admitted' = admitted /\ fail_closed' = fail_closed
  BY <1>1, <1>2 DEF Return, Goto, server
<1>4. fail_closed' => ~unseen'
  BY <1>3 DEF SlotsAccounted
<1>5. /\ told[k] \in Nat /\ burned[k] \in Nat /\ Len(admitted[k]) \in Nat
      /\ told'[k] + burned'[k] = told[k] + burned[k] + slots
      /\ \A j \in Keys : j # k => told'[j] = told[j] /\ burned'[j] = burned[j]
  BY <1>3, AdmissionTyped DEF TypeOK
<1>6. \A j \in Keys : HasSlot(j)' = HasSlot(j) \ {c}
  BY <1>3 DEF HasSlot, TypeOK
<1>7. \A j \in Keys : j # k => HasSlot(j)' = HasSlot(j)
  BY <1>1, <1>6 DEF HasSlot
<1>8. Cardinality(HasSlot(k)') = Cardinality(HasSlot(k)) - slots
  <2>1. c \in HasSlot(k) <=> slots = 1
    BY <1>1, <1>2 DEF HasSlot, At
  <2>2. Cardinality(HasSlot(k) \ {c}) =
           IF c \in HasSlot(k) THEN Cardinality(HasSlot(k)) - 1 ELSE Cardinality(HasSlot(k))
    BY HoldersAreFinite, FS_RemoveElement
  <2>3. HasSlot(k)' = HasSlot(k) \ {c}
    BY <1>6
  <2>4. Cardinality(HasSlot(k)') = Cardinality(HasSlot(k) \ {c})
    BY <2>3
  <2>5. Cardinality(HasSlot(k)) \in Nat
    BY HoldersAreFinite
  <2> QED
    BY <1>2, <2>1, <2>2, <2>4, <2>5
<1>9. AccountOf(k)'
  <2>1. Len(admitted[k]) = told[k] + burned[k] + Cardinality(HasSlot(k))
    BY DEF SlotsAccounted
  <2>2. Len(admitted[k]) = told'[k] + burned'[k] + Cardinality(HasSlot(k)')
    BY <1>5, <1>8, <2>1, HoldersAreFinite
  <2> QED
    BY <1>3, <2>2 DEF AccountOf
<1>10. \A j \in Keys : j # k => AccountOf(j)'
  BY <1>3, <1>5, <1>7 DEF SlotsAccounted, AccountOf
<1> QED
  BY <1>4, <1>9, <1>10 DEF SlotsAccounted, AccountOf

LEMMA ResetAccounts ==
    ASSUME TypeOK, SlotsAccounted, NEW ks \in SUBSET Keys, Reset(ks)
    PROVE  SlotsAccounted'
<1>1. /\ pc' = pc /\ fail_closed' = fail_closed /\ unseen' = unseen
      /\ \A k \in ks : admitted'[k] = <<>> /\ told'[k] = 0 /\ burned'[k] = 0
      /\ \A k \in Keys \ ks : /\ told'[k] = told[k] /\ burned'[k] = burned[k]
                              /\ admitted'[k] = admitted[k]
  BY DEF Reset
<1>2. ASSUME NEW c \in Clients, pc[c] # "idle"
      PROVE  /\ request'[c].key = request[c].key
             /\ request'[c].slot = IF request[c].key \in ks THEN 0 ELSE request[c].slot
  <2>1. request[c] \in Request
    BY <1>2, RequestTyped DEF At
  <2>2. request'[c] = IF request[c].key \in ks THEN [request[c] EXCEPT !.slot = 0]
                      ELSE request[c]
    BY <1>2 DEF Reset
  <2> QED
    BY <2>1, <2>2 DEF Request
<1>3. \A k \in ks : HasSlot(k)' = {}
  BY <1>1, <1>2 DEF HasSlot
<1>4. \A k \in Keys \ ks : HasSlot(k)' = HasSlot(k)
  BY <1>1, <1>2 DEF HasSlot
<1>5. Len(<<>>) = 0 /\ Cardinality({}) = 0
  BY FS_EmptySet
<1>6. \A k \in ks : AccountOf(k)'
  <2> SUFFICES ASSUME NEW k \in ks PROVE AccountOf(k)'
    OBVIOUS
  <2>1. Cardinality(HasSlot(k)') = 0
    BY <1>3, <1>5
  <2>2. Len(admitted'[k]) = 0 /\ told'[k] = 0 /\ burned'[k] = 0
    BY <1>1, <1>5
  <2> QED
    BY <2>1, <2>2 DEF AccountOf
<1>7. \A k \in Keys \ ks : AccountOf(k)'
  BY <1>1, <1>4 DEF SlotsAccounted, AccountOf
<1> QED
  BY <1>1, <1>6, <1>7 DEF SlotsAccounted, AccountOf

LEMMA OtherStepsAccount ==
    ASSUME TypeOK, SlotsAccounted,
           \/ \E c \in Clients : ReadClock(c) \/ Resend(c)
           \/ CurrentCount \/ Tick \/ UNCHANGED vars
    PROVE  SlotsAccounted'
<1>1. UNCHANGED <<admitted, outcome, fail_closed>>
  BY DEF ReadClock, Resend, CurrentCount, Tick, vars, server
<1>2. \A k \in Keys : HasSlot(k)' = HasSlot(k)
  <2>1. ASSUME NEW c \in Clients, ReadClock(c)
        PROVE  \A k \in Keys : HasSlot(k)' = HasSlot(k)
    <3>1. \/ pc' = pc /\ request' = request
          \/ /\ pc[c] = "idle" /\ request'[c].slot = 0
             /\ \A d \in Clients \ {c} : pc'[d] = pc[d] /\ request'[d] = request[d]
      BY <2>1 DEF ReadClock, Goto, At, TypeOK
    <3> QED
      BY <3>1 DEF HasSlot
  <2>2. ASSUME NEW c \in Clients, Resend(c)
        PROVE  \A k \in Keys : HasSlot(k)' = HasSlot(k)
    <3>1. /\ pc' = [pc EXCEPT ![c] = "sent"] /\ pc[c] # "idle"
          /\ request' = [request EXCEPT ![c].tries = @ + 1]
          /\ request[c] \in Request
      BY <2>2, RequestTyped DEF Resend, Goto, At
    <3> QED
      BY <3>1, SameHolders DEF TypeOK, Request
  <2>3. CASE CurrentCount \/ Tick \/ UNCHANGED vars
    BY <2>3, SameHolders DEF CurrentCount, Tick, vars
  <2> QED
    BY <2>1, <2>2, <2>3
<1> QED
  BY <1>1, <1>2 DEF SlotsAccounted, outcome

(***************************************************************************)
(* A call takes one slot at most, also when its command is sent again, and *)
(* no slot is without a call that was let through, refused or is under way *)
(* (redis_backend.py 162-183).                                             *)
(***************************************************************************)
THEOREM SlotsAreAccounted == Spec => []SlotsAccounted
<1>1. Init => SlotsAccounted
  <2> SUFFICES ASSUME Init PROVE SlotsAccounted
    OBVIOUS
  <2>1. Len(<<>>) = 0 /\ Cardinality({}) = 0
    BY FS_EmptySet
  <2>2. \A k \in Keys : HasSlot(k) = {}
    BY DEF HasSlot, Init
  <2>3. \A k \in Keys : Cardinality(HasSlot(k)) = 0
    BY <2>1, <2>2
  <2>4. \A k \in Keys : Len(admitted[k]) = 0 /\ told[k] = 0 /\ burned[k] = 0
    BY <2>1 DEF Init
  <2>5. ~unseen
    BY DEF Init
  <2> QED
    BY <2>3, <2>4, <2>5 DEF SlotsAccounted
<1>2. WindowInv /\ SlotsAccounted /\ [Next]_vars => SlotsAccounted'
  <2> SUFFICES ASSUME WindowInv, SlotsAccounted, [Next]_vars PROVE SlotsAccounted'
    OBVIOUS
  <2>1. TypeOK /\ HistoryInv
    BY DEF WindowInv, HistoryInv
  <2>2. ASSUME NEW c \in Clients, Answer(c) \/ Fail(c) PROVE SlotsAccounted'
    <3>1. CASE At(c, "granted") /\ Return(c, TRUE)
      BY <2>1, <3>1, ReturnAccounts DEF At
    <3>2. CASE At(c, "refused") /\ Return(c, FALSE)
      BY <2>1, <3>2, ReturnAccounts DEF At
    <3>3. CASE Fail(c)
      <4>1. ~At(c, "idle") /\ Return(c, ~fail_closed) /\ (~fail_closed) \in BOOLEAN
        BY <3>3 DEF Fail
      <4> QED
        BY <2>1, <4>1, ReturnAccounts
    <3> QED
      BY <2>2, <3>1, <3>2, <3>3 DEF Answer
  <2> QED
    BY <2>1, <2>2, NextCases, ExecuteAccounts, ResetAccounts, OtherStepsAccount
<1> QED
  BY <1>1, <1>2, InvariantHolds, PTL DEF Spec

=============================================================================
