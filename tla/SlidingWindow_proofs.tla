------------------------ MODULE SlidingWindow_proofs ------------------------
(***************************************************************************)
(* Proofs about the in-memory rate limiter: its type invariant, the        *)
(* inductive invariant LimiterInv, and from it the bound on admissions and *)
(* the justification of denials, for any threads, keys, limits, window and *)
(* stall.                                                                  *)
(***************************************************************************)
EXTENDS SlidingWindow, SequenceTheorems, TLAPS

LEMMA CeilingIsLargest ==
    ASSUME NEW k \in Keys
    PROVE  /\ Ceiling(k) \in Limits[k]
           /\ Ceiling(k) \in Nat
           /\ \A m \in Limits[k] : m \in Nat /\ m <= Ceiling(k)
<1>1. Limits[k] \subseteq Nat
  BY LimiterAssumption
<1>2. \E m \in Limits[k] : \A n \in Limits[k] : n <= m
  BY LimiterAssumption
<1>3. Ceiling(k) \in Limits[k] /\ \A n \in Limits[k] : n <= Ceiling(k)
  BY <1>2 DEF Ceiling
<1> QED
  BY <1>1, <1>3

(***************************************************************************)
(* What is left of a deque after p entries are dropped from its head.      *)
(***************************************************************************)
LEMMA DropFromHead ==
    ASSUME NEW w \in Seq(Nat), NEW p \in 0 .. Len(w)
    PROVE  LET kept == SubSeq(w, p + 1, Len(w))
           IN  /\ kept \in Seq(Nat)
               /\ Len(kept) = Len(w) - p
               /\ \A i \in 1 .. Len(w) - p : kept[i] = w[p + i]
<1>1. Len(w) \in Nat
  BY LenProperties
<1>2. \A i \in p + 1 .. Len(w) : w[i] \in Nat
  BY <1>1, ElementOfSeq
<1> QED
  BY <1>1, <1>2, SubSeqProperties

(***************************************************************************)
(* The two outcomes of check_and_record under the lock, with the deque     *)
(* described by its length and entries.                                    *)
(***************************************************************************)
Kept(t, p) ==
    LET k == request[t].key IN SubSeq(calls[k], p + 1, Len(calls[k]))

Denied(t, p) ==
    LET k == request[t].key
    IN  /\ Len(Kept(t, p)) >= request[t].limit
        /\ calls' = [calls EXCEPT ![k] = Kept(t, p)]
        /\ answer' = [answer EXCEPT ![t] = FALSE]
        /\ admitted' = admitted

Granted(t, p) ==
    LET k == request[t].key
        s == request[t].stamp
    IN  /\ Len(Kept(t, p)) < request[t].limit
        /\ calls' = [calls EXCEPT ![k] = Append(Kept(t, p), s)]
        /\ answer' = [answer EXCEPT ![t] = TRUE]
        /\ admitted' = [admitted EXCEPT ![k] = Append(admitted[k],
                         [stamp |-> s, at |-> now, limit |-> request[t].limit])]

LEMMA LockedSectionOutcomes ==
    ASSUME TypeOK, NEW t \in Threads, LockedSection(t)
    PROVE  /\ pc[t] = "waiting"
           /\ pc' = [pc EXCEPT ![t] = "idle"]
           /\ now' = now
           /\ request' = [request EXCEPT ![t] = Forgotten(request[t].key)]
           /\ \E p \in 0 .. Len(calls[request[t].key]) :
                 /\ DropsFromHead(calls[request[t].key], request[t].stamp - Window, p)
                 /\ Denied(t, p) \/ Granted(t, p)
<1>1. request[t].limit \in Nat /\ request[t].key \in Keys
  BY DEF TypeOK, Request
<1>2. ASSUME NEW p \in 0 .. Len(calls[request[t].key])
      PROVE  Len(Kept(t, p)) \in Nat
  BY <1>1, DropFromHead DEF TypeOK, Kept
<1>3. PICK p \in 0 .. Len(calls[request[t].key]) :
        LET k == request[t].key
            kept == SubSeq(calls[k], p + 1, Len(calls[k]))
        IN  /\ DropsFromHead(calls[k], Cutoff(request[t].stamp), p)
            /\ IF AtLimit(kept, request[t])
               THEN /\ calls' = [calls EXCEPT ![k] = kept]
                    /\ answer' = [answer EXCEPT ![t] = FALSE]
                    /\ admitted' = admitted
               ELSE /\ calls' = [calls EXCEPT ![k] = Append(kept, request[t].stamp)]
                    /\ answer' = [answer EXCEPT ![t] = TRUE]
                    /\ admitted' = [admitted EXCEPT ![k] =
                           Append(@, [stamp |-> request[t].stamp, at |-> now,
                                      limit |-> request[t].limit])]
  BY Zenon DEF LockedSection
<1>4. Len(Kept(t, p)) >= request[t].limit \/ Len(Kept(t, p)) < request[t].limit
  BY <1>1, <1>2
<1>5. AtLimit(Kept(t, p), request[t]) <=> Len(Kept(t, p)) >= request[t].limit
  BY DEF AtLimit
<1>6. DropsFromHead(calls[request[t].key], request[t].stamp - Window, p)
  BY <1>3 DEF Cutoff
<1>7. Denied(t, p) \/ Granted(t, p)
  <2>1. CASE AtLimit(Kept(t, p), request[t])
    BY <1>3, <1>5, <2>1 DEF Denied, Kept
  <2>2. CASE ~AtLimit(Kept(t, p), request[t])
    <3>1. Len(Kept(t, p)) < request[t].limit
      BY <1>4, <1>5, <2>2
    <3> QED
      BY <1>3, <2>2, <3>1 DEF Granted, Kept
  <2> QED
    BY <2>1, <2>2
<1>8. /\ pc[t] = "waiting" /\ pc' = [pc EXCEPT ![t] = "idle"] /\ now' = now
      /\ request' = [request EXCEPT ![t] = Forgotten(request[t].key)]
  BY DEF LockedSection
<1> QED
  BY <1>6, <1>7, <1>8

LEMMA KeptProperties ==
    ASSUME TypeOK, NEW t \in Threads, NEW p \in 0 .. Len(calls[request[t].key])
    PROVE  LET w == calls[request[t].key]
           IN  /\ w \in Seq(Nat) /\ Len(w) \in Nat
               /\ Kept(t, p) \in Seq(Nat)
               /\ Len(Kept(t, p)) = Len(w) - p
               /\ \A i \in 1 .. Len(w) - p : Kept(t, p)[i] = w[p + i]
<1>1. request[t].key \in Keys
  BY DEF TypeOK, Request
<1>2. calls[request[t].key] \in Seq(Nat)
  BY <1>1 DEF TypeOK
<1> QED
  BY <1>2, DropFromHead, LenProperties DEF Kept

-----------------------------------------------------------------------------

(***************************************************************************)
(* Every variable of the limiter keeps its type, the limits asked with     *)
(* among those of the key: _rate_limiter.py 27-63.                         *)
(***************************************************************************)
THEOREM TypeCorrect == Spec => []TypeOK
<1>1. Init => TypeOK
  <2> SUFFICES ASSUME Init PROVE TypeOK
    OBVIOUS
  <2>1. request \in [Threads -> Request] /\ \A t \in Threads : request[t].limit \in Limits[request[t].key]
    <3>1. \A k \in Keys : Ceiling(k) \in Nat /\ Ceiling(k) \in Limits[k]
      BY CeilingIsLargest
    <3> QED
      BY <3>1 DEF Init, Request, Forgotten
  <2> QED
    BY <2>1 DEF Init, TypeOK
<1>2. TypeOK /\ [Next]_vars => TypeOK'
  <2> SUFFICES ASSUME TypeOK, [Next]_vars PROVE TypeOK'
    OBVIOUS
  <2>1. ASSUME NEW t \in Threads, ReadClock(t) PROVE TypeOK'
    <3>1. PICK k \in Keys : \E m \in Limits[k] :
             request' = [request EXCEPT ![t] = [key |-> k, limit |-> m, stamp |-> now]]
      BY <2>1 DEF ReadClock
    <3>2. PICK m \in Limits[k] :
             request' = [request EXCEPT ![t] = [key |-> k, limit |-> m, stamp |-> now]]
      BY <3>1
    <3>3. m \in Nat
      BY CeilingIsLargest
    <3> QED
      BY <2>1, <3>2, <3>3 DEF ReadClock, TypeOK, Request
  <2>2. ASSUME NEW t \in Threads, LockedSection(t) PROVE TypeOK'
    <3>1. PICK p \in 0 .. Len(calls[request[t].key]) : Denied(t, p) \/ Granted(t, p)
      BY <2>2, LockedSectionOutcomes
    <3>2. Kept(t, p) \in Seq(Nat)
      BY KeptProperties
    <3>3. request[t].key \in Keys /\ request[t].stamp \in Nat /\ request[t].limit \in Nat
      BY DEF TypeOK, Request
    <3> DEFINE e == [stamp |-> request[t].stamp, at |-> now, limit |-> request[t].limit]
    <3>4. e \in Admission
      BY <3>3 DEF TypeOK, Admission
    <3>5. calls' \in [Keys -> Seq(Nat)]
      <4>1. Append(Kept(t, p), request[t].stamp) \in Seq(Nat)
        BY <3>2, <3>3, AppendProperties
      <4> QED
        BY <3>1, <3>2, <3>3, <4>1 DEF TypeOK, Denied, Granted
    <3>6. admitted' \in [Keys -> Seq(Admission)]
      <4>1. admitted[request[t].key] \in Seq(Admission)
        BY <3>3 DEF TypeOK
      <4>2. Append(admitted[request[t].key], e) \in Seq(Admission)
        BY <3>4, <4>1, AppendProperties
      <4> QED
        BY <3>1, <3>3, <4>2 DEF TypeOK, Denied, Granted
    <3>7. answer' \in [Threads -> BOOLEAN]
      BY <3>1 DEF TypeOK, Denied, Granted
    <3>8. /\ request' \in [Threads -> Request]
          /\ \A u \in Threads : request'[u].limit \in Limits[request'[u].key]
      <4> DEFINE k == request[t].key
      <4>1. Ceiling(k) \in Nat /\ Ceiling(k) \in Limits[k]
        BY <3>3, CeilingIsLargest
      <4>2. /\ Forgotten(k) \in Request
            /\ Forgotten(k).key = k /\ Forgotten(k).limit = Ceiling(k)
        BY <3>3, <4>1 DEF Forgotten, Request
      <4>3. request' = [request EXCEPT ![t] = Forgotten(k)]
        BY <2>2, LockedSectionOutcomes
      <4> QED
        BY <4>1, <4>2, <4>3 DEF TypeOK
    <3> QED
      BY <2>2, <3>5, <3>6, <3>7, <3>8, LockedSectionOutcomes DEF TypeOK
  <2>3. ASSUME NEW ks \in SUBSET Keys, Reset(ks) PROVE TypeOK'
    BY <2>3 DEF Reset, TypeOK
  <2>4. CASE Tick
    BY <2>4 DEF Tick, TypeOK
  <2>5. CASE UNCHANGED vars
    BY <2>5 DEF vars, TypeOK
  <2> QED
    BY <2>1, <2>2, <2>3, <2>4, <2>5 DEF Next
<1> QED
  BY <1>1, <1>2, PTL DEF Spec

-----------------------------------------------------------------------------
(***************************************************************************)
(* The locked section entry by entry: c is the length of the deque and a   *)
(* that of the history before it, p the entries dropped.                   *)
(***************************************************************************)
EntryKept(k, p) ==
    \A i \in 1 .. Len(calls[k]) - p : calls'[k][i] = calls[k][p + i]

DenyEffect(t, k, p) ==
    /\ Len(calls[k]) - p >= request[t].limit
    /\ admitted'[k] = admitted[k]
    /\ answer'[t] = FALSE
    /\ Len(calls'[k]) = Len(calls[k]) - p
    /\ EntryKept(k, p)

GrantEffect(t, k, p) ==
    LET a == Len(admitted[k])
    IN  /\ Len(calls[k]) - p < request[t].limit
        /\ answer'[t] = TRUE
        /\ Len(calls'[k]) = Len(calls[k]) - p + 1
        /\ EntryKept(k, p)
        /\ calls'[k][Len(calls[k]) - p + 1] = request[t].stamp
        /\ Len(admitted'[k]) = a + 1
        /\ \A i \in 1 .. a : admitted'[k][i] = admitted[k][i]
        /\ admitted'[k][a + 1].stamp = request[t].stamp
        /\ admitted'[k][a + 1].at = now
        /\ admitted'[k][a + 1].limit = request[t].limit

\* Thread t's locked section on key k drops p entries.
SectionEffect(t, k, p) ==
    /\ k = request[t].key
    /\ pc[t] = "waiting" /\ pc' = [pc EXCEPT ![t] = "idle"]
    /\ now' = now
    /\ request' = [request EXCEPT ![t] = Forgotten(request[t].key)]
    /\ \A j \in Keys \ {k} : calls'[j] = calls[j] /\ admitted'[j] = admitted[j]
    /\ \A i \in 1 .. p : calls[k][i] < request[t].stamp - Window
    /\ p < Len(calls[k]) => ~(calls[k][p + 1] < request[t].stamp - Window)
    /\ DenyEffect(t, k, p) \/ GrantEffect(t, k, p)

LEMMA LockedSectionEffect ==
    ASSUME TypeOK, NEW t \in Threads, LockedSection(t)
    PROVE  \E k \in Keys : \E p \in 0 .. Len(calls[k]) : SectionEffect(t, k, p)
<1> DEFINE k == request[t].key
           s == request[t].stamp
<1>1. /\ k \in Keys /\ s \in Nat /\ request[t].limit \in Nat
      /\ calls[k] \in Seq(Nat) /\ admitted[k] \in Seq(Admission)
  BY DEF TypeOK, Request
<1>2. PICK p \in 0 .. Len(calls[k]) :
         /\ DropsFromHead(calls[k], s - Window, p)
         /\ Denied(t, p) \/ Granted(t, p)
  BY LockedSectionOutcomes
<1>3. /\ Kept(t, p) \in Seq(Nat)
      /\ Len(Kept(t, p)) = Len(calls[k]) - p
      /\ \A i \in 1 .. Len(calls[k]) - p : Kept(t, p)[i] = calls[k][p + i]
  BY KeptProperties
<1>4. Len(calls[k]) \in Nat /\ Len(admitted[k]) \in Nat
  BY <1>1, LenProperties
<1>5. \A j \in Keys \ {k} : calls'[j] = calls[j] /\ admitted'[j] = admitted[j]
  BY <1>1, <1>2 DEF Denied, Granted, TypeOK
<1>6. CASE Denied(t, p)
  <2>1. calls'[k] = Kept(t, p) /\ admitted'[k] = admitted[k] /\ answer'[t] = FALSE
    BY <1>1, <1>6 DEF Denied, TypeOK
  <2>2. DenyEffect(t, k, p)
    BY <1>3, <1>4, <1>6, <2>1 DEF Denied, DenyEffect, EntryKept
  <2> QED
    BY <1>1, <1>2, <1>5, <2>2, LockedSectionOutcomes DEF DropsFromHead, SectionEffect
<1>7. CASE Granted(t, p)
  <2> DEFINE e == [stamp |-> s, at |-> now, limit |-> request[t].limit]
  <2>1. e \in Admission /\ e.stamp = s /\ e.at = now /\ e.limit = request[t].limit
    BY <1>1 DEF TypeOK, Admission
  <2>2. /\ calls'[k] = Append(Kept(t, p), s)
        /\ admitted'[k] = Append(admitted[k], e)
        /\ answer'[t] = TRUE
    BY <1>1, <1>7 DEF Granted, TypeOK
  <2>3. /\ Len(calls'[k]) = Len(calls[k]) - p + 1
        /\ \A i \in 1 .. Len(calls[k]) - p : calls'[k][i] = Kept(t, p)[i]
        /\ calls'[k][Len(calls[k]) - p + 1] = s
    <3> DEFINE w == Kept(t, p)
    <3>1. w \in Seq(Nat) /\ s \in Nat
      BY <1>1, <1>3
    <3> HIDE DEF w, s
    <3>2. /\ Len(Append(w, s)) = Len(w) + 1
          /\ \A i \in 1 .. Len(w) : Append(w, s)[i] = w[i]
          /\ Append(w, s)[Len(w) + 1] = s
      BY <3>1, AppendProperties
    <3>3. Len(w) = Len(calls[k]) - p /\ calls'[k] = Append(w, s)
      BY <1>3, <2>2 DEF w
    <3> QED
      BY <3>2, <3>3 DEF w
  <2>4. /\ Len(admitted'[k]) = Len(admitted[k]) + 1
        /\ \A i \in 1 .. Len(admitted[k]) : admitted'[k][i] = admitted[k][i]
        /\ admitted'[k][Len(admitted[k]) + 1] = e
    <3> DEFINE a == admitted[k]
    <3>1. a \in Seq(Admission) /\ e \in Admission
      BY <1>1, <2>1
    <3> HIDE DEF a, e
    <3>2. /\ Len(Append(a, e)) = Len(a) + 1
          /\ \A i \in 1 .. Len(a) : Append(a, e)[i] = a[i]
          /\ Append(a, e)[Len(a) + 1] = e
      BY <3>1, AppendProperties
    <3>3. admitted'[k] = Append(a, e)
      BY <2>2 DEF a
    <3> QED
      BY <3>2, <3>3 DEF a
  <2>5. Len(calls[k]) - p < request[t].limit
    BY <1>3, <1>7 DEF Granted
  <2>6. GrantEffect(t, k, p)
    <3>1. EntryKept(k, p)
      BY <1>3, <2>3 DEF EntryKept
    <3> QED
      BY <2>1, <2>2, <2>3, <2>4, <2>5, <3>1 DEF GrantEffect
  <2> QED
    BY <1>1, <1>2, <1>5, <2>6, LockedSectionOutcomes DEF DropsFromHead, SectionEffect
<1> QED
  BY <1>2, <1>6, <1>7

(***************************************************************************)
(* Lengths and entries are naturals: what every step below needs of types. *)
(***************************************************************************)
LEMMA ValuesAreNatural ==
    ASSUME TypeOK
    PROVE  /\ now \in Nat /\ Window \in Nat /\ MaxStall \in Nat
           /\ \A k \in Keys :
                 /\ Len(calls[k]) \in Nat /\ Len(admitted[k]) \in Nat
                 /\ \A i \in 1 .. Len(calls[k]) : calls[k][i] \in Nat
                 /\ \A i \in 1 .. Len(admitted[k]) :
                       admitted[k][i].stamp \in Nat /\ admitted[k][i].at \in Nat
           /\ \A t \in Threads :
                 request[t].stamp \in Nat /\ request[t].limit \in Nat
<1>1. ASSUME NEW k \in Keys
      PROVE  /\ Len(calls[k]) \in Nat /\ Len(admitted[k]) \in Nat
             /\ \A i \in 1 .. Len(calls[k]) : calls[k][i] \in Nat
             /\ \A i \in 1 .. Len(admitted[k]) : admitted[k][i] \in Admission
  <2>1. calls[k] \in Seq(Nat) /\ admitted[k] \in Seq(Admission)
    BY DEF TypeOK
  <2> QED
    BY <2>1, LenProperties, ElementOfSeq
<1> QED
  BY <1>1, LimiterAssumption DEF TypeOK, Request, Admission

(***************************************************************************)
(* The invariant under the locked section, one conjunct at a time.         *)
(***************************************************************************)
(***************************************************************************)
(* Sequences: w is the end of the stamps of a.  Dropping p entries from w, *)
(* and appending to both, keeps it so.                                     *)
(***************************************************************************)
IsEndOf(w, a) ==
    /\ Len(w) <= Len(a)
    /\ \A i \in 1 .. Len(w) : w[i] = a[Len(a) - Len(w) + i].stamp

LEMMA EndAfterDrop ==
    ASSUME NEW w, NEW a, NEW w2, Len(w) \in Nat, Len(a) \in Nat, IsEndOf(w, a),
           NEW p \in 0 .. Len(w), Len(w2) = Len(w) - p,
           \A i \in 1 .. Len(w) - p : w2[i] = w[p + i]
    PROVE  IsEndOf(w2, a)
<1>1. ASSUME NEW i \in 1 .. Len(w2) PROVE w2[i] = a[Len(a) - Len(w2) + i].stamp
  <2>1. p + i \in 1 .. Len(w) /\ w2[i] = w[p + i]
    OBVIOUS
  <2>2. w[p + i] = a[Len(a) - Len(w) + (p + i)].stamp
    BY <2>1 DEF IsEndOf
  <2>3. Len(a) - Len(w) + (p + i) = Len(a) - Len(w2) + i
    OBVIOUS
  <2> QED
    BY <2>1, <2>2, <2>3
<1> QED
  BY <1>1 DEF IsEndOf

Appended(w, a, w2, a2, p) ==
    /\ Len(w2) = Len(w) - p + 1 /\ Len(a2) = Len(a) + 1
    /\ \A i \in 1 .. Len(w) - p : w2[i] = w[p + i]
    /\ \A i \in 1 .. Len(a) : a2[i] = a[i]
    /\ w2[Len(w) - p + 1] = a2[Len(a) + 1].stamp

LEMMA EndAfterAppend ==
    ASSUME NEW w, NEW a, NEW w2, NEW a2, Len(w) \in Nat, Len(a) \in Nat, IsEndOf(w, a),
           NEW p \in 0 .. Len(w), Appended(w, a, w2, a2, p)
    PROVE  IsEndOf(w2, a2)
<1> USE DEF Appended
<1>1. ASSUME NEW i \in 1 .. Len(w2) PROVE w2[i] = a2[Len(a2) - Len(w2) + i].stamp
  <2>1. CASE i = Len(w) - p + 1
    <3>1. Len(a2) - Len(w2) + i = Len(a) + 1
      BY <2>1
    <3> QED
      BY <2>1, <3>1
  <2>2. CASE i # Len(w) - p + 1
    <3>1. i \in 1 .. Len(w) - p
      BY <2>2
    <3>2. p + i \in 1 .. Len(w) /\ w2[i] = w[p + i]
      BY <3>1
    <3>3. w[p + i] = a[Len(a) - Len(w) + (p + i)].stamp
      BY <3>2 DEF IsEndOf
    <3>4. /\ Len(a) - Len(w) + (p + i) = Len(a2) - Len(w2) + i
          /\ Len(a2) - Len(w2) + i \in 1 .. Len(a)
      BY <3>1 DEF IsEndOf
    <3> QED
      BY <3>2, <3>3, <3>4
  <2> QED
    BY <2>1, <2>2
<1> QED
  BY <1>1 DEF IsEndOf

LEMMA LockedSectionKeepsSuffix ==
    ASSUME TypeOK, DequeIsSuffix, NEW t \in Threads,
           NEW k \in Keys, NEW p \in 0 .. Len(calls[k]), SectionEffect(t, k, p)
    PROVE  DequeIsSuffix'
<1>1. Len(calls[k]) \in Nat /\ Len(admitted[k]) \in Nat /\ IsEndOf(calls[k], admitted[k])
  BY ValuesAreNatural DEF DequeIsSuffix, Dropped, IsEndOf
<1>2. IsEndOf(calls'[k], admitted'[k])
  <2>1. CASE DenyEffect(t, k, p)
    BY <1>1, <2>1, EndAfterDrop DEF DenyEffect, EntryKept
  <2>2. CASE GrantEffect(t, k, p)
    <3>1. Appended(calls[k], admitted[k], calls'[k], admitted'[k], p)
      BY <2>2 DEF GrantEffect, EntryKept, Appended
    <3> QED
      BY <1>1, <3>1, EndAfterAppend
  <2> QED
    BY <2>1, <2>2 DEF SectionEffect
<1>3. ASSUME NEW j \in Keys PROVE IsEndOf(calls'[j], admitted'[j])
  <2>1. CASE j = k
    BY <1>2, <2>1
  <2>2. CASE j # k
    <3>1. calls'[j] = calls[j] /\ admitted'[j] = admitted[j]
      BY <2>2 DEF SectionEffect
    <3>2. IsEndOf(calls[j], admitted[j])
      BY DEF DequeIsSuffix, Dropped, IsEndOf
    <3> QED
      BY <3>1, <3>2
  <2> QED
    BY <2>1, <2>2
<1> QED
  BY <1>3 DEF DequeIsSuffix, Dropped, IsEndOf

LEMMA OlderThanCutoff ==
    ASSUME NEW entry \in Nat, NEW stamp \in Nat, NEW time \in Nat, NEW window \in Nat,
           entry < stamp - window, stamp <= time
    PROVE  entry + window < time
OBVIOUS

LEMMA LockedSectionKeepsDropped ==
    ASSUME TypeOK, DequeIsSuffix, DroppedAreOld, StampsAreRecent, NEW t \in Threads,
           NEW k \in Keys, NEW p \in 0 .. Len(calls[k]), SectionEffect(t, k, p)
    PROVE  DroppedAreOld'
<1> DEFINE d == Len(admitted[k]) - Len(calls[k])
<1>1. /\ Len(calls[k]) \in Nat /\ Len(admitted[k]) \in Nat /\ d \in Nat
      /\ \A i \in 1 .. Len(calls[k]) : calls[k][i] = admitted[k][d + i].stamp
  <2>1. Len(calls[k]) \in Nat /\ Len(admitted[k]) \in Nat
    BY ValuesAreNatural
  <2>2. d \in Nat
    <3>1. Len(calls[k]) <= Len(admitted[k])
      BY DEF DequeIsSuffix
    <3> QED
      BY <2>1, <3>1
  <2>3. \A i \in 1 .. Len(calls[k]) : calls[k][i] = admitted[k][d + i].stamp
    BY DEF DequeIsSuffix, Dropped
  <2> HIDE DEF d
  <2> QED
    BY <2>1, <2>2, <2>3
<1> HIDE DEF d
<1>2. ASSUME NEW i \in 1 .. d + p PROVE admitted[k][i].stamp + Window < now
  <2>1. CASE i <= d
    BY <1>1, <2>1 DEF DroppedAreOld, Dropped, d
  <2>2. CASE i > d
    <3>1. i - d \in 1 .. p /\ i - d \in 1 .. Len(calls[k]) /\ d + (i - d) = i
      BY <1>1, <2>2
    <3>2. calls[k][i - d] = admitted[k][i].stamp
      BY <1>1, <3>1
    <3>3. calls[k][i - d] < request[t].stamp - Window
      BY <3>1 DEF SectionEffect
    <3>4. calls[k][i - d] \in Nat /\ request[t].stamp \in Nat /\ request[t].stamp <= now
      BY <3>1, ValuesAreNatural DEF SectionEffect, StampsAreRecent
    <3>5. now \in Nat /\ Window \in Nat
      BY ValuesAreNatural
    <3> QED
      BY <3>2, <3>3, <3>4, <3>5, OlderThanCutoff
  <2> QED
    BY <1>1, <2>1, <2>2
<1>3. /\ Len(admitted'[k]) - Len(calls'[k]) = d + p
      /\ \A i \in 1 .. d + p : admitted'[k][i] = admitted[k][i]
  <2>1. CASE DenyEffect(t, k, p)
    <3>1. admitted'[k] = admitted[k] /\ Len(calls'[k]) = Len(calls[k]) - p
      BY <2>1 DEF DenyEffect
    <3>2. Len(admitted[k]) - (Len(calls[k]) - p) = d + p
      <4>1. PICK c \in Nat, n \in Nat : c = Len(calls[k]) /\ n = Len(admitted[k])
        BY <1>1
      <4>2. p \in Nat
        BY <4>1
      <4> QED
        BY <4>1, <4>2 DEF d
    <3> QED
      BY <3>1, <3>2
  <2>2. CASE GrantEffect(t, k, p)
    <3>1. /\ Len(admitted'[k]) = Len(admitted[k]) + 1
          /\ Len(calls'[k]) = Len(calls[k]) - p + 1
          /\ \A i \in 1 .. Len(admitted[k]) : admitted'[k][i] = admitted[k][i]
      BY <2>2 DEF GrantEffect
    <3>2. d + p <= Len(admitted[k]) /\ d + p \in Nat
      <4>1. Len(calls[k]) \in Nat /\ Len(admitted[k]) \in Nat /\ d \in Nat
        BY <1>1
      <4>2. p \in Nat /\ p <= Len(calls[k])
        BY <4>1
      <4>3. d + Len(calls[k]) = Len(admitted[k])
        BY <4>1 DEF d
      <4> QED
        BY <4>1, <4>2, <4>3
    <3>3. Len(admitted'[k]) - Len(calls'[k]) = d + p
      BY <1>1, <3>1 DEF d
    <3>4. ASSUME NEW i \in 1 .. d + p PROVE i \in 1 .. Len(admitted[k])
      BY <1>1, <3>2
    <3> QED
      BY <3>1, <3>3, <3>4
  <2> QED
    BY <2>1, <2>2 DEF SectionEffect
<1>4. ASSUME NEW j \in Keys, NEW i \in 1 .. Len(admitted'[j]) - Len(calls'[j])
      PROVE  admitted'[j][i].stamp + Window < now
  <2>1. CASE j = k
    BY <1>2, <1>3, <2>1
  <2>2. CASE j # k
    BY <2>2 DEF SectionEffect, DroppedAreOld, Dropped
  <2> QED
    BY <2>1, <2>2
<1> QED
  BY <1>4 DEF DroppedAreOld, Dropped, SectionEffect

LEMMA LockedSectionKeepsRecent ==
    ASSUME TypeOK, StampsAreRecent, NEW t \in Threads,
           NEW k \in Keys, NEW p \in 0 .. Len(calls[k]), SectionEffect(t, k, p)
    PROVE  StampsAreRecent'
<1>1. /\ request[t].stamp <= now /\ now <= request[t].stamp + MaxStall
      /\ now \in Nat /\ Len(admitted[k]) \in Nat
  BY ValuesAreNatural DEF SectionEffect, StampsAreRecent
<1>2. \A i \in 1 .. Len(admitted'[k]) :
         /\ admitted'[k][i].stamp <= admitted'[k][i].at
         /\ admitted'[k][i].at <= admitted'[k][i].stamp + MaxStall
         /\ admitted'[k][i].at <= now
  <2>1. CASE DenyEffect(t, k, p)
    BY <2>1 DEF DenyEffect, StampsAreRecent
  <2>2. CASE GrantEffect(t, k, p)
    <3> TAKE i \in 1 .. Len(admitted'[k])
    <3>1. CASE i = Len(admitted[k]) + 1
      BY <1>1, <2>2, <3>1 DEF GrantEffect
    <3>2. CASE i # Len(admitted[k]) + 1
      <4>1. i \in 1 .. Len(admitted[k]) /\ admitted'[k][i] = admitted[k][i]
        BY <1>1, <2>2, <3>2 DEF GrantEffect
      <4> QED
        BY <4>1 DEF StampsAreRecent
    <3> QED
      BY <3>1, <3>2
  <2> QED
    BY <2>1, <2>2 DEF SectionEffect
<1>3. \A u \in Threads : pc'[u] = "waiting" => pc[u] = "waiting" /\ request'[u] = request[u]
  <2>1. pc' = [pc EXCEPT ![t] = "idle"]
    BY DEF SectionEffect
  <2>2. request' = [request EXCEPT ![t] = Forgotten(request[t].key)]
    BY DEF SectionEffect
  <2>3. pc'[t] = "idle"
    BY <2>1 DEF TypeOK
  <2>4. \A u \in Threads \ {t} : pc'[u] = pc[u] /\ request'[u] = request[u]
    BY <2>1, <2>2 DEF TypeOK
  <2> QED
    BY <2>3, <2>4
<1>4. now' = now
  BY DEF SectionEffect
<1>5. \A j \in Keys \ {k} : admitted'[j] = admitted[j]
  BY DEF SectionEffect
<1>6. \A j \in Keys : \A i \in 1 .. Len(admitted'[j]) :
         /\ admitted'[j][i].stamp <= admitted'[j][i].at
         /\ admitted'[j][i].at <= admitted'[j][i].stamp + MaxStall
         /\ admitted'[j][i].at <= now
  BY <1>2, <1>5 DEF StampsAreRecent
<1>7. \A u \in Threads : pc'[u] = "waiting" =>
         /\ request'[u].stamp <= now
         /\ now <= request'[u].stamp + MaxStall
  BY <1>3 DEF StampsAreRecent
<1> QED
  BY <1>4, <1>6, <1>7 DEF StampsAreRecent

LEMMA LockedSectionKeepsOrder ==
    ASSUME TypeOK, StampsAreRecent, AdmissionsInOrder, NEW t \in Threads,
           NEW k \in Keys, NEW p \in 0 .. Len(calls[k]), SectionEffect(t, k, p)
    PROVE  AdmissionsInOrder'
<1>1. now \in Nat /\ Len(admitted[k]) \in Nat
  BY ValuesAreNatural
<1>2. \A i, j \in 1 .. Len(admitted'[k]) : i <= j => admitted'[k][i].at <= admitted'[k][j].at
  <2>1. CASE DenyEffect(t, k, p)
    BY <2>1 DEF DenyEffect, AdmissionsInOrder
  <2>2. CASE GrantEffect(t, k, p)
    <3> TAKE i, j \in 1 .. Len(admitted'[k])
    <3> HAVE i <= j
    <3>1. CASE j = Len(admitted[k]) + 1
      <4>1. admitted'[k][j].at = now
        BY <2>2, <3>1 DEF GrantEffect
      <4>2. CASE i = j
        BY <1>1, <4>1, <4>2
      <4>3. CASE i # j
        <5>1. i \in 1 .. Len(admitted[k]) /\ admitted'[k][i] = admitted[k][i]
          BY <1>1, <2>2, <3>1, <4>3 DEF GrantEffect
        <5> QED
          BY <4>1, <5>1 DEF StampsAreRecent
      <4> QED
        BY <4>2, <4>3
    <3>2. CASE j # Len(admitted[k]) + 1
      <4>1. i \in 1 .. Len(admitted[k]) /\ j \in 1 .. Len(admitted[k])
        <5>1. Len(admitted'[k]) = Len(admitted[k]) + 1
          BY <2>2 DEF GrantEffect
        <5> QED
          BY <1>1, <3>2, <5>1
      <4>2. admitted'[k][i] = admitted[k][i] /\ admitted'[k][j] = admitted[k][j]
        BY <2>2, <4>1 DEF GrantEffect
      <4> QED
        BY <4>1, <4>2 DEF AdmissionsInOrder
    <3> QED
      BY <3>1, <3>2
  <2> QED
    BY <2>1, <2>2 DEF SectionEffect
<1> QED
  BY <1>2 DEF AdmissionsInOrder, SectionEffect

-----------------------------------------------------------------------------

(***************************************************************************)
(* The steps that admit nothing.                                           *)
(***************************************************************************)
LEMMA OtherStepsKeepInv ==
    ASSUME LimiterInv, TypeOK',
           \/ \E t \in Threads : ReadClock(t)
           \/ \E ks \in SUBSET Keys : Reset(ks)
           \/ Tick
           \/ UNCHANGED vars
    PROVE  LimiterInv'
<1>1. ASSUME NEW t \in Threads, ReadClock(t) PROVE LimiterInv'
  <2>1. /\ now' = now /\ calls' = calls /\ admitted' = admitted
        /\ request'[t].stamp = now
        /\ \A u \in Threads \ {t} : request'[u] = request[u] /\ pc'[u] = pc[u]
    BY <1>1 DEF ReadClock, LimiterInv, TypeOK
  <2>2. DequeIsSuffix' /\ DroppedAreOld' /\ AdmissionsInOrder'
    BY <2>1 DEF LimiterInv, DequeIsSuffix, DroppedAreOld, AdmissionsInOrder, Dropped
  <2>3. StampsAreRecent'
    BY <2>1, ValuesAreNatural DEF LimiterInv, StampsAreRecent
  <2> QED
    BY <2>2, <2>3 DEF LimiterInv
<1>2. ASSUME NEW ks \in SUBSET Keys, Reset(ks) PROVE LimiterInv'
  <2>1. \A k \in Keys :
           \/ calls'[k] = <<>> /\ admitted'[k] = <<>>
           \/ calls'[k] = calls[k] /\ admitted'[k] = admitted[k]
    BY <1>2 DEF Reset
  <2>2. now' = now /\ pc' = pc /\ request' = request
    BY <1>2 DEF Reset
  <2>3. Len(<<>>) = 0
    OBVIOUS
  <2>4. DequeIsSuffix'
    <3>1. ASSUME NEW k \in Keys PROVE IsEndOf(calls'[k], admitted'[k])
      <4>1. CASE calls'[k] = <<>> /\ admitted'[k] = <<>>
        BY <2>3, <4>1 DEF IsEndOf
      <4>2. CASE calls'[k] = calls[k] /\ admitted'[k] = admitted[k]
        BY <4>2 DEF LimiterInv, DequeIsSuffix, Dropped, IsEndOf
      <4> QED
        BY <2>1, <4>1, <4>2
    <3> QED
      BY <3>1 DEF DequeIsSuffix, Dropped, IsEndOf
  <2>5. DroppedAreOld'
    BY <2>1, <2>2, <2>3 DEF LimiterInv, DroppedAreOld, Dropped
  <2>6. StampsAreRecent'
    BY <2>1, <2>2, <2>3 DEF LimiterInv, StampsAreRecent
  <2>7. AdmissionsInOrder'
    BY <2>1, <2>3 DEF LimiterInv, AdmissionsInOrder
  <2> QED
    BY <2>4, <2>5, <2>6, <2>7 DEF LimiterInv
<1>3. CASE Tick
  <2>1. /\ now' = now + 1 /\ UNCHANGED <<calls, pc, request, admitted>>
        /\ \A t \in Threads : pc[t] = "waiting" => now - request[t].stamp < MaxStall
    BY <1>3 DEF Tick
  <2>2. DequeIsSuffix' /\ AdmissionsInOrder'
    BY <2>1 DEF LimiterInv, DequeIsSuffix, AdmissionsInOrder, Dropped
  <2>3. DroppedAreOld'
    <3> SUFFICES ASSUME NEW k \in Keys, NEW i \in 1 .. Dropped(k)
                 PROVE  admitted[k][i].stamp + Window < now + 1
      BY <2>1 DEF DroppedAreOld, Dropped
    <3>1. admitted[k][i].stamp + Window < now
      BY DEF LimiterInv, DroppedAreOld
    <3>2. i \in 1 .. Len(admitted[k])
      BY ValuesAreNatural DEF LimiterInv, Dropped
    <3>3. admitted[k][i].stamp \in Nat /\ now \in Nat /\ Window \in Nat
      BY <3>2, ValuesAreNatural DEF LimiterInv
    <3> QED
      BY <3>1, <3>3
  <2>4. StampsAreRecent'
    BY <2>1, ValuesAreNatural DEF LimiterInv, StampsAreRecent
  <2> QED
    BY <2>2, <2>3, <2>4 DEF LimiterInv
<1>4. CASE UNCHANGED vars
  BY <1>4 DEF vars, LimiterInv, DequeIsSuffix, DroppedAreOld, StampsAreRecent,
              AdmissionsInOrder, Dropped
<1> QED
  BY <1>1, <1>2, <1>3, <1>4

LEMMA NextCases ==
    ASSUME [Next]_vars
    PROVE  \/ \E t \in Threads : LockedSection(t)
           \/ \E t \in Threads : ReadClock(t)
           \/ \E ks \in SUBSET Keys : Reset(ks)
           \/ Tick
           \/ UNCHANGED vars
BY DEF Next

LEMMA SectionKeepsInv ==
    ASSUME LimiterInv, TypeOK', NEW t \in Threads, LockedSection(t)
    PROVE  LimiterInv'
<1>1. PICK k \in Keys : \E p \in 0 .. Len(calls[k]) : SectionEffect(t, k, p)
  BY LockedSectionEffect DEF LimiterInv
<1>2. PICK p \in 0 .. Len(calls[k]) : SectionEffect(t, k, p)
  BY <1>1
<1>3. DequeIsSuffix'
  BY <1>2, LockedSectionKeepsSuffix DEF LimiterInv
<1>4. DroppedAreOld'
  BY <1>2, LockedSectionKeepsDropped DEF LimiterInv
<1>5. StampsAreRecent'
  BY <1>2, LockedSectionKeepsRecent DEF LimiterInv
<1>6. AdmissionsInOrder'
  BY <1>2, LockedSectionKeepsOrder DEF LimiterInv
<1> QED
  BY <1>3, <1>4, <1>5, <1>6 DEF LimiterInv

(***************************************************************************)
(* The inductive invariant holds in every reachable state: the deque is    *)
(* the end of the history, and what it no longer holds is out of every     *)
(* window (_rate_limiter.py 36-49).                                        *)
(***************************************************************************)
THEOREM InvariantHolds == Spec => []LimiterInv
<1>1. Init /\ TypeOK => LimiterInv
  BY DEF Init, LimiterInv, DequeIsSuffix, DroppedAreOld, StampsAreRecent,
         AdmissionsInOrder, Dropped
<1>2. LimiterInv /\ TypeOK' /\ [Next]_vars => LimiterInv'
  BY NextCases, OtherStepsKeepInv, SectionKeepsInv
<1> QED
  BY <1>1, <1>2, TypeCorrect, PTL DEF Spec

-----------------------------------------------------------------------------

LEMMA SectionKeepsBound ==
    ASSUME LimiterInv, LimiterInv', WindowBound, NEW t \in Threads,
           NEW k \in Keys, NEW p \in 0 .. Len(calls[k]), SectionEffect(t, k, p)
    PROVE  WindowBound'
<1> DEFINE c == Ceiling(k)
           n == Len(admitted[k])
<1>1. c \in Nat /\ n \in Nat /\ request[t].limit \in Nat /\ request[t].limit <= c
  BY CeilingIsLargest, ValuesAreNatural DEF LimiterInv, TypeOK, SectionEffect
<1>2. now \in Nat /\ now' = now /\ Window \in Nat /\ MaxStall \in Nat /\ Len(calls[k]) \in Nat
  BY ValuesAreNatural DEF LimiterInv, SectionEffect
<1> HIDE DEF c, n
<1>3. ASSUME NEW i \in 1 .. Len(admitted'[k]) - c
      PROVE  admitted'[k][i + c].at - admitted'[k][i].at > Window - MaxStall
  <2>1. CASE DenyEffect(t, k, p)
    BY <2>1, <1>3 DEF DenyEffect, LimiterInv, WindowBound, SpacedBy, c
  <2>2. CASE GrantEffect(t, k, p)
    <3>1. /\ Len(admitted'[k]) = n + 1
          /\ \A j \in 1 .. n : admitted'[k][j] = admitted[k][j]
          /\ admitted'[k][n + 1].at = now
          /\ Len(calls'[k]) = Len(calls[k]) - p + 1
          /\ Len(calls[k]) - p < request[t].limit
      BY <2>2 DEF GrantEffect, n
    <3>2. i + c \in 1 .. n + 1 /\ i \in 1 .. n /\ i <= Len(admitted'[k]) - Len(calls'[k])
      <4>1. i \in Nat \ {0} /\ i <= n + 1 - c
        BY <1>1, <3>1
      <4>2. p \in Nat /\ p <= Len(calls[k]) /\ Len(calls[k]) - p < c
        BY <1>1, <1>2, <3>1
      <4>3. Len(admitted'[k]) - Len(calls'[k]) = n - (Len(calls[k]) - p)
        BY <1>1, <1>2, <3>1, <4>2
      <4>4. c - 1 >= Len(calls[k]) - p /\ Len(calls[k]) - p \in Nat /\ c \in Nat \ {0}
        BY <1>1, <1>2, <4>2
      <4>5. i <= n - (Len(calls[k]) - p)
        BY <1>1, <4>1, <4>4
      <4>6. i + c \in 1 .. n + 1 /\ i \in 1 .. n
        BY <1>1, <4>1, <4>4
      <4> QED
        BY <4>3, <4>5, <4>6
    <3>3. CASE i + c = n + 1
      <4>1. admitted'[k][i + c].at = now /\ admitted'[k][i] = admitted[k][i]
        BY <3>1, <3>2, <3>3
      <4>2. admitted'[k][i].stamp + Window < now
        BY <1>2, <3>2 DEF LimiterInv, DroppedAreOld, Dropped
      <4>3. admitted[k][i].at <= admitted[k][i].stamp + MaxStall
        BY <3>2 DEF LimiterInv, StampsAreRecent, n
      <4>4. admitted[k][i].stamp \in Nat /\ admitted[k][i].at \in Nat
        BY <3>2, ValuesAreNatural DEF LimiterInv, n
      <4>5. now - admitted[k][i].at > Window - MaxStall
        <5> DEFINE x == admitted[k][i].stamp
                   y == admitted[k][i].at
        <5>1. x + Window < now /\ y <= x + MaxStall /\ x \in Nat /\ y \in Nat
          BY <4>1, <4>2, <4>3, <4>4
        <5> HIDE DEF x, y
        <5>2. now - y > Window - MaxStall
          BY <1>2, <5>1
        <5> QED
          BY <5>2 DEF y
      <4> QED
        BY <4>1, <4>5
    <3>4. CASE i + c # n + 1
      <4>1. /\ i \in 1 .. n - c
            /\ i + c \in 1 .. n
        BY <1>1, <3>2, <3>4
      <4>2. admitted[k][i + c].at - admitted[k][i].at > Window - MaxStall
        BY <4>1 DEF WindowBound, SpacedBy, c, n
      <4> QED
        BY <3>1, <3>2, <4>1, <4>2
    <3> QED
      BY <3>3, <3>4
  <2> QED
    BY <2>1, <2>2 DEF SectionEffect
<1>4. ASSUME NEW j \in Keys, j # k PROVE SpacedBy(Window - MaxStall, j)'
  BY <1>4 DEF SectionEffect, WindowBound, SpacedBy
<1>5. SpacedBy(Window - MaxStall, k)'
  BY <1>3 DEF SpacedBy, c
<1> QED
  BY <1>4, <1>5 DEF WindowBound

(***************************************************************************)
(* At most Ceiling(k) admissions in any span of Window - MaxStall, for any *)
(* number of threads racing for the lock (_rate_limiter.py 32-49).         *)
(***************************************************************************)
THEOREM AdmissionsAreBounded == Spec => []WindowBound
<1>1. Init => WindowBound
  <2> SUFFICES ASSUME Init, NEW k \in Keys PROVE SpacedBy(Window - MaxStall, k)
    BY DEF WindowBound
  <2>1. Len(admitted[k]) = 0 /\ Ceiling(k) \in Nat
    BY CeilingIsLargest DEF Init
  <2> QED
    BY <2>1 DEF SpacedBy
<1>2. LimiterInv /\ LimiterInv' /\ WindowBound /\ [Next]_vars => WindowBound'
  <2> SUFFICES ASSUME LimiterInv, LimiterInv', WindowBound, [Next]_vars PROVE WindowBound'
    OBVIOUS
  <2>1. ASSUME NEW t \in Threads, LockedSection(t) PROVE WindowBound'
    <3>1. PICK k \in Keys : \E p \in 0 .. Len(calls[k]) : SectionEffect(t, k, p)
      BY <2>1, LockedSectionEffect DEF LimiterInv
    <3> QED
      BY <3>1, SectionKeepsBound
  <2>2. ASSUME NEW ks \in SUBSET Keys, Reset(ks) PROVE WindowBound'
    <3>1. \A k \in Keys : admitted'[k] = <<>> \/ admitted'[k] = admitted[k]
      BY <2>2 DEF Reset
    <3>2. Len(<<>>) = 0 /\ \A k \in Keys : Ceiling(k) \in Nat
      BY CeilingIsLargest
    <3> QED
      BY <3>1, <3>2 DEF WindowBound, SpacedBy
  <2>3. CASE (\E t \in Threads : ReadClock(t)) \/ Tick \/ UNCHANGED vars
    <3>1. admitted' = admitted
      BY <2>3 DEF ReadClock, Tick, vars
    <3> QED
      BY <3>1 DEF WindowBound, SpacedBy
  <2> QED
    BY <2>1, <2>2, <2>3, NextCases
<1> QED
  BY <1>1, <1>2, InvariantHolds, PTL DEF Spec

-----------------------------------------------------------------------------

(***************************************************************************)
(* A stamp that is no older than another admission's, but for the stall.   *)
(***************************************************************************)
LEMMA BehindByTheStall ==
    ASSUME NEW older \in Nat, NEW olderAt \in Nat, NEW stamp \in Nat, NEW at \in Nat,
           NEW since \in Int, NEW stall \in Nat,
           older >= since, older <= olderAt, olderAt <= at, at <= stamp + stall
    PROVE  stamp >= since - stall
OBVIOUS

LEMMA DenialHasCause ==
    ASSUME LimiterInv, NEW t \in Threads,
           NEW k \in Keys, NEW p \in 0 .. Len(calls[k]), SectionEffect(t, k, p),
           DenyEffect(t, k, p)
    PROVE  LastAdmittedSince(k, request[t].limit, Cutoff(request[t].stamp) - MaxStall)
<1> DEFINE n == Len(admitted[k])
           m == request[t].limit
           s == request[t].stamp
           c == Len(calls[k])
<1>1. /\ n \in Nat /\ m \in Nat /\ s \in Nat /\ c \in Nat
      /\ Window \in Nat /\ MaxStall \in Nat
  BY ValuesAreNatural DEF LimiterInv
<1>2. c <= n /\ c - p >= m /\ p \in 0 .. c
  BY DEF LimiterInv, DequeIsSuffix, DenyEffect
<1>3. \A i \in 1 .. n : /\ admitted[k][i].stamp \in Nat /\ admitted[k][i].at \in Nat
                        /\ admitted[k][i].stamp <= admitted[k][i].at
                        /\ admitted[k][i].at <= admitted[k][i].stamp + MaxStall
  BY ValuesAreNatural DEF LimiterInv, StampsAreRecent
<1>4. \A i \in 1 .. c : calls[k][i] = admitted[k][n - c + i].stamp
  BY DEF LimiterInv, DequeIsSuffix, Dropped
<1>5. p < c => ~(calls[k][p + 1] < s - Window)
  BY DEF SectionEffect
<1> HIDE DEF n, m, s, c
<1>6. ASSUME NEW i \in n - m + 1 .. n
      PROVE  admitted[k][i].stamp >= s - Window - MaxStall
  <2> DEFINE h == n - c + (p + 1)
  <2>1. /\ p + 1 \in 1 .. c /\ p < c
        /\ h \in 1 .. n /\ h <= i /\ i \in 1 .. n
    BY <1>1, <1>2
  <2>2. calls[k][p + 1] = admitted[k][h].stamp
    BY <1>4, <2>1
  <2> HIDE DEF h
  <2>3. admitted[k][h].stamp >= s - Window
    BY <1>1, <1>3, <1>5, <2>1, <2>2
  <2>4. admitted[k][h].at <= admitted[k][i].at
    BY <2>1 DEF LimiterInv, AdmissionsInOrder, n
  <2> QED
    <3>1. /\ admitted[k][h].at \in Nat /\ admitted[k][h].stamp \in Nat
          /\ admitted[k][h].stamp <= admitted[k][h].at
      BY <1>3, <2>1
    <3>2. /\ admitted[k][i].at \in Nat /\ admitted[k][i].stamp \in Nat
          /\ admitted[k][i].at <= admitted[k][i].stamp + MaxStall
      BY <1>3, <2>1
    <3> DEFINE older == admitted[k][h].stamp
               olderAt == admitted[k][h].at
               stamp == admitted[k][i].stamp
               at == admitted[k][i].at
               since == s - Window
    <3>3. /\ older \in Nat /\ olderAt \in Nat /\ stamp \in Nat /\ at \in Nat
          /\ since \in Int /\ MaxStall \in Nat
      BY <1>1, <3>1, <3>2
    <3>4. older >= since /\ older <= olderAt /\ olderAt <= at /\ at <= stamp + MaxStall
      BY <2>3, <2>4, <3>1, <3>2
    <3> HIDE DEF older, olderAt, stamp, at, since
    <3>5. stamp >= since - MaxStall
      BY <3>3, <3>4, BehindByTheStall
    <3> QED
      BY <3>5 DEF stamp, since
<1>7. m <= n
  BY <1>1, <1>2
<1> QED
  BY <1>6, <1>7 DEF LastAdmittedSince, Cutoff, n, m, s

(***************************************************************************)
(* Every denial has a full quota of recent admissions behind it, however   *)
(* unsorted the deque (_rate_limiter.py 41-46).                            *)
(***************************************************************************)
THEOREM DenialsAreJustified == Spec => DenialJustified
<1> DEFINE Step == \A t \in Threads : Denies(t) =>
                      LastAdmittedSince(request[t].key, request[t].limit,
                                        Cutoff(request[t].stamp) - MaxStall)
<1>1. LimiterInv /\ [Next]_vars => [Step]_vars
  <2> SUFFICES ASSUME LimiterInv, [Next]_vars, NEW t \in Threads, Denies(t)
               PROVE  LastAdmittedSince(request[t].key, request[t].limit,
                                        Cutoff(request[t].stamp) - MaxStall)
    OBVIOUS
  <2>1. LockedSection(t)
    <3>1. ASSUME NEW u \in Threads, LockedSection(u) \/ ReadClock(u) PROVE u = t
      BY <3>1 DEF Denies, LockedSection, ReadClock, LimiterInv, TypeOK
    <3>2. pc' # pc
      BY DEF Denies
    <3>3. ~ReadClock(t)
      BY DEF Denies, ReadClock
    <3> QED
      BY <3>1, <3>2, <3>3, NextCases DEF Reset, Tick, vars
  <2>2. PICK k \in Keys : \E p \in 0 .. Len(calls[k]) : SectionEffect(t, k, p)
    BY <2>1, LockedSectionEffect DEF LimiterInv
  <2>3. PICK p \in 0 .. Len(calls[k]) : SectionEffect(t, k, p)
    BY <2>2
  <2>4. k = request[t].key /\ DenyEffect(t, k, p)
    BY <2>3 DEF SectionEffect, GrantEffect, Denies
  <2> QED
    BY <2>3, <2>4, DenialHasCause
<1> QED
  BY <1>1, InvariantHolds, PTL DEF Spec, DenialJustified

-----------------------------------------------------------------------------
(***************************************************************************)
(* The refinement of WindowLimit.                                          *)
(***************************************************************************)
LEMMA KnownOfAppend ==
    ASSUME NEW s, NEW s2, NEW time, NEW limit, Len(s) \in Nat, Len(s2) = Len(s) + 1,
           \A i \in 1 .. Len(s) : s2[i] = s[i],
           s2[Len(s) + 1].at = time, s2[Len(s) + 1].limit = limit
    PROVE  Known(s2) = Append(Known(s), [at |-> time, limit |-> limit])
<1> DEFINE u == Known(s)
           e == [at |-> time, limit |-> limit]
<1>1. u = [i \in 1 .. Len(s) |-> [at |-> s[i].at, limit |-> s[i].limit]]
  BY DEF Known
<1>2. Len(u) = Len(s)
  BY <1>1
<1>3. Append(u, e) = [i \in 1 .. Len(u) + 1 |-> IF i \in 1 .. Len(u) THEN u[i] ELSE e]
  BY <1>1
<1>4. ASSUME NEW i \in 1 .. Len(s) + 1
      PROVE  [at |-> s2[i].at, limit |-> s2[i].limit] =
                IF i \in 1 .. Len(s) THEN [at |-> s[i].at, limit |-> s[i].limit] ELSE e
  OBVIOUS
<1> QED
  BY <1>1, <1>2, <1>3, <1>4 DEF Known

LEMMA KnownOfEmpty == Known(<<>>) = <<>>
BY DEF Known

Histories == [k \in Keys |-> Known(admitted[k])]

(***************************************************************************)
(* A call that is granted was asked with a limit above nought; of the      *)
(* history that was there, all but fewer than that limit had left the      *)
(* deque when it was, so the admission that many before it is old.         *)
(***************************************************************************)
LEMMA GrantHasRoom ==
    ASSUME LimiterInv, LimiterInv', NEW t \in Threads,
           NEW k \in Keys, NEW p \in 0 .. Len(calls[k]), SectionEffect(t, k, p),
           GrantEffect(t, k, p)
    PROVE  Promise!HasRoom(k, request[t].limit)
<1> DEFINE n == Len(admitted[k])
           m == request[t].limit
<1>1. m \in Nat /\ n \in Nat /\ Len(calls[k]) \in Nat
  BY ValuesAreNatural DEF LimiterInv
<1>2. /\ Len(calls[k]) - p < m
      /\ Len(calls'[k]) = Len(calls[k]) - p + 1
      /\ Len(admitted'[k]) = n + 1
      /\ \A i \in 1 .. n : admitted'[k][i] = admitted[k][i]
      /\ now' = now /\ now \in Nat /\ Window \in Nat /\ MaxStall \in Nat
  BY ValuesAreNatural DEF LimiterInv, GrantEffect, SectionEffect
<1>3. Len(Known(admitted[k])) = n /\ \A i \in 1 .. n : Known(admitted[k])[i].at = admitted[k][i].at
  BY <1>1 DEF Known, n
<1> HIDE DEF n, m
<1>4. m > 0
  BY <1>1, <1>2
<1>5. ASSUME n >= m
      PROVE  now - Known(admitted[k])[n + 1 - m].at > Window - MaxStall
  <2>1. PICK i \in 1 .. n : i = n + 1 - m
    BY <1>1, <1>4, <1>5
  <2>2. i \in 1 .. Len(admitted'[k]) - Len(calls'[k])
    <3> DEFINE kept == Len(calls[k]) - p
    <3>1. /\ Len(admitted'[k]) = n + 1 /\ Len(calls'[k]) = kept + 1
          /\ kept < m /\ kept \in Int
      BY <1>1, <1>2
    <3> HIDE DEF kept
    <3>2. i = n + 1 - m /\ i >= 1 /\ m \in Nat /\ n \in Nat
      BY <1>1, <2>1
    <3>3. i <= (n + 1) - (kept + 1)
      BY <3>1, <3>2
    <3> QED
      BY <3>1, <3>2, <3>3
  <2>3. admitted[k][i].stamp + Window < now
    BY <1>2, <2>1, <2>2 DEF LimiterInv, DroppedAreOld, Dropped
  <2>4. /\ admitted[k][i].at <= admitted[k][i].stamp + MaxStall
        /\ admitted[k][i].stamp \in Nat /\ admitted[k][i].at \in Nat
    BY <2>1, ValuesAreNatural DEF LimiterInv, StampsAreRecent, n
  <2> DEFINE x == admitted[k][i].stamp
             y == admitted[k][i].at
  <2> HIDE DEF x, y
  <2>5. x + Window < now /\ y <= x + MaxStall /\ x \in Nat /\ y \in Nat
    BY <2>3, <2>4 DEF x, y
  <2>6. now - y > Window - MaxStall
    BY <1>2, <2>5
  <2> QED
    BY <1>3, <2>1, <2>6 DEF y
<1> QED
  BY <1>3, <1>4, <1>5 DEF Promise!HasRoom, m

LEMMA SectionImplements ==
    ASSUME LimiterInv, LimiterInv', NEW t \in Threads,
           NEW k \in Keys, NEW p \in 0 .. Len(calls[k]), SectionEffect(t, k, p)
    PROVE  (\E limit \in Limits[k] : Promise!Admit(k, limit)) \/ UNCHANGED Promise!limiter
<1>1. now' = now /\ Len(admitted[k]) \in Nat /\ request[t].limit \in Limits[k]
  BY ValuesAreNatural DEF LimiterInv, TypeOK, SectionEffect
<1>2. \A j \in Keys \ {k} : admitted'[j] = admitted[j]
  BY DEF SectionEffect
<1>3. CASE DenyEffect(t, k, p)
  <2>1. \A j \in Keys : Known(admitted'[j]) = Known(admitted[j])
    BY <1>2, <1>3 DEF DenyEffect
  <2> QED
    BY <1>1, <2>1 DEF Promise!limiter
<1>4. CASE GrantEffect(t, k, p)
  <2> DEFINE e == [at |-> now, limit |-> request[t].limit]
  <2>1. Known(admitted'[k]) = Append(Known(admitted[k]), e)
    <3>1. /\ Len(admitted'[k]) = Len(admitted[k]) + 1
          /\ \A i \in 1 .. Len(admitted[k]) : admitted'[k][i] = admitted[k][i]
          /\ admitted'[k][Len(admitted[k]) + 1].at = now
          /\ admitted'[k][Len(admitted[k]) + 1].limit = request[t].limit
      BY <1>4 DEF GrantEffect
    <3> DEFINE a == admitted[k]
               b == admitted'[k]
               limit == request[t].limit
    <3>2. /\ Len(a) \in Nat /\ Len(b) = Len(a) + 1
          /\ \A i \in 1 .. Len(a) : b[i] = a[i]
          /\ b[Len(a) + 1].at = now /\ b[Len(a) + 1].limit = limit
      BY <1>1, <3>1
    <3> HIDE DEF a, b, limit
    <3>3. Known(b) = Append(Known(a), [at |-> now, limit |-> limit])
      BY ONLY <3>2, KnownOfAppend
    <3> QED
      BY <3>3 DEF a, b, limit
  <2>2. Histories' = [Histories EXCEPT ![k] = Append(@, e)]
    BY <1>2, <2>1 DEF Histories
  <2>3. Promise!HasRoom(k, request[t].limit)
    BY <1>4, GrantHasRoom
  <2>4. Promise!Admit(k, request[t].limit)
    BY <1>1, <2>2, <2>3 DEF Promise!Admit, Histories
  <2> QED
    BY <1>1, <2>4
<1> QED
  BY <1>3, <1>4 DEF SectionEffect

LEMMA ResetImplements ==
    ASSUME NEW ks \in SUBSET Keys, Reset(ks)
    PROVE  Promise!Forgive(ks)
<1>1. \A k \in Keys :
         Known(admitted'[k]) = IF k \in ks THEN <<>> ELSE Known(admitted[k])
  BY KnownOfEmpty DEF Reset
<1> QED
  BY <1>1 DEF Promise!Forgive, Reset

(***************************************************************************)
(* The limiter implements WindowLimit: however many threads race for the   *)
(* lock, and with whatever limits, each admission finds fewer calls really *)
(* admitted before it than its own limit (_rate_limiter.py 32-57).         *)
(***************************************************************************)
THEOREM Implements == Spec => KeepsLimit
<1>1. Init => Promise!Init
  BY KnownOfEmpty DEF Init, Promise!Init
<1>2. LimiterInv /\ LimiterInv' /\ [Next]_vars
        => [Promise!Next]_(Promise!limiter)
  <2> SUFFICES ASSUME LimiterInv, LimiterInv', [Next]_vars
               PROVE  [Promise!Next]_(Promise!limiter)
    OBVIOUS
  <2>1. ASSUME NEW t \in Threads, LockedSection(t)
        PROVE  [Promise!Next]_(Promise!limiter)
    <3>1. PICK k \in Keys : \E p \in 0 .. Len(calls[k]) : SectionEffect(t, k, p)
      BY <2>1, LockedSectionEffect DEF LimiterInv
    <3>2. (\E limit \in Limits[k] : Promise!Admit(k, limit)) \/ UNCHANGED Promise!limiter
      BY <3>1, SectionImplements
    <3> QED
      BY <3>2 DEF Promise!Next
  <2>2. ASSUME NEW ks \in SUBSET Keys, Reset(ks)
        PROVE  [Promise!Next]_(Promise!limiter)
    BY <2>2, ResetImplements DEF Promise!Next
  <2>3. CASE \E t \in Threads : ReadClock(t)
    BY <2>3 DEF ReadClock, Promise!limiter
  <2>4. CASE Tick
    BY <2>4 DEF Tick, Promise!Next, Promise!Tick
  <2>5. CASE UNCHANGED vars
    BY <2>5 DEF vars, Promise!limiter
  <2> QED
    BY <2>1, <2>2, <2>3, <2>4, <2>5, NextCases
<1> QED
  BY <1>1, <1>2, InvariantHolds, PTL DEF Spec, KeepsLimit, Promise!Spec
=============================================================================
