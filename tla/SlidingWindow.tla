---------------------------- MODULE SlidingWindow ----------------------------
(***************************************************************************)
(* SlidingWindowRateLimiter of _rate_limiter.py, called by several threads.*)
(* check_and_record reads the clock first and takes the lock afterwards,   *)
(* so a thread that waits for the lock decides with, and records, an old   *)
(* time, and the deque of a key need not be sorted.                        *)
(***************************************************************************)
EXTENDS Integers, Sequences

CONSTANTS
    Threads,
    Keys,        \* rate-limit keys: an agent, or an agent and a tool
    Limits,      \* Keys -> the values of max_calls a key is asked with
    Window,      \* window_seconds
    MaxStall,    \* bound: longest time from the clock read to the locked section
    TimeBound,   \* bound: last value of the clock
    AdmitBound   \* bound: calls admitted per key

ASSUME LimiterAssumption ==
    /\ Limits \in [Keys -> SUBSET Nat]
    /\ \A k \in Keys : \E m \in Limits[k] : \A n \in Limits[k] : n <= m
    /\ Window \in Nat /\ MaxStall \in Nat
    /\ TimeBound \in Nat /\ AdmitBound \in Nat

\* The largest limit a key is ever asked with.
Ceiling(k) == CHOOSE m \in Limits[k] : \A n \in Limits[k] : n <= m

VARIABLES
    now,       \* time.monotonic()
    calls,     \* _calls: the deque of each key, empty if it has none
    pc,        \* "idle", or "waiting" for the lock
    request,   \* the key, the limit and the clock read of each thread's call
    answer,    \* what its last check_and_record returned
    admitted   \* history: per key, the calls admitted since the last reset,
               \* each with its stamp, the time it was really admitted and
               \* the limit it was asked with

vars == <<now, calls, pc, request, answer, admitted>>

Request == [key : Keys, limit : Nat, stamp : Nat]
Admission == [stamp : Nat, at : Nat, limit : Nat]

\* What is local to a call is gone when it has returned.
Forgotten(k) == [key |-> k, limit |-> Ceiling(k), stamp |-> 0]

Init ==
    /\ now = 0
    /\ calls = [k \in Keys |-> <<>>]
    /\ pc = [t \in Threads |-> "idle"]
    /\ request \in [Threads -> {Forgotten(k) : k \in Keys}]
    /\ answer = [t \in Threads |-> TRUE]
    /\ admitted = [k \in Keys |-> <<>>]

-----------------------------------------------------------------------------

ReadClock(t) ==
    /\ pc[t] = "idle"
    /\ \E k \in Keys : \E m \in Limits[k] :
          request' = [request EXCEPT ![t] = [key |-> k, limit |-> m, stamp |-> now]]
    /\ pc' = [pc EXCEPT ![t] = "waiting"]
    /\ UNCHANGED <<now, calls, answer, admitted>>

\* Entries before this are outside the window of a call stamped s.
Cutoff(s) == s - Window

\* Faulty variants: an entry at the very edge of the window is dropped too, and
\* nothing is ever dropped.
DropsInclusive(window, cutoff, p) ==
    /\ \A i \in 1 .. p : window[i] <= cutoff
    /\ p < Len(window) => ~(window[p + 1] <= cutoff)

DropsNothing(window, cutoff, p) == p = 0

\* The loop that drops from the head stops after p entries.
DropsFromHead(window, cutoff, p) ==
    /\ \A i \in 1 .. p : window[i] < cutoff
    /\ p < Len(window) => ~(window[p + 1] < cutoff)

\* Faulty variants: one call over the limit gets through, and a key has one
\* limit, the largest it was given, whatever the call brings.
OverLimit(kept, r) == Len(kept) > r.limit

AtCeiling(kept, r) == Len(kept) >= Ceiling(r.key)

AtLimit(kept, r) == Len(kept) >= r.limit

\* The body of check_and_record under the lock.
LockedSection(t) ==
    /\ pc[t] = "waiting"
    /\ LET r == request[t]
           k == r.key
       IN  \E p \in 0 .. Len(calls[k]) :
             LET kept == SubSeq(calls[k], p + 1, Len(calls[k]))
             IN  /\ DropsFromHead(calls[k], Cutoff(r.stamp), p)
                 /\ IF AtLimit(kept, r)
                    THEN /\ calls' = [calls EXCEPT ![k] = kept]
                         /\ answer' = [answer EXCEPT ![t] = FALSE]
                         /\ UNCHANGED admitted
                    ELSE /\ Len(admitted[k]) < AdmitBound
                         /\ calls' = [calls EXCEPT ![k] = Append(kept, r.stamp)]
                         /\ answer' = [answer EXCEPT ![t] = TRUE]
                         /\ admitted' = [admitted EXCEPT ![k] =
                                Append(@, [stamp |-> r.stamp, at |-> now, limit |-> r.limit])]
    /\ pc' = [pc EXCEPT ![t] = "idle"]
    /\ request' = [request EXCEPT ![t] = Forgotten(request[t].key)]
    /\ UNCHANGED now

\* reset(key), and reset() for every key.
Reset(ks) ==
    /\ calls' = [k \in Keys |-> IF k \in ks THEN <<>> ELSE calls[k]]
    /\ admitted' = [k \in Keys |-> IF k \in ks THEN <<>> ELSE admitted[k]]
    /\ UNCHANGED <<now, pc, request, answer>>

\* The clock moves unless a waiting thread has used up its stall.
Tick ==
    /\ now < TimeBound
    /\ \A t \in Threads : pc[t] = "waiting" => now - request[t].stamp < MaxStall
    /\ now' = now + 1
    /\ UNCHANGED <<calls, pc, request, answer, admitted>>

Next ==
    \/ \E t \in Threads : ReadClock(t) \/ LockedSection(t)
    \/ \E k \in Keys : Reset({k})
    \/ Reset(Keys)
    \/ Tick

Spec == Init /\ [][Next]_vars

-----------------------------------------------------------------------------

TypeOK ==
    /\ now \in Nat
    /\ calls \in [Keys -> Seq(Nat)]
    /\ pc \in [Threads -> {"idle", "waiting"}]
    /\ request \in [Threads -> Request]
    /\ \A t \in Threads : request[t].limit \in Limits[request[t].key]
    /\ answer \in [Threads -> BOOLEAN]
    /\ admitted \in [Keys -> Seq(Admission)]

(***************************************************************************)
(* No more than Ceiling(k) calls are admitted in any span of Window -      *)
(* MaxStall: of two admissions that far apart in the order of admission,   *)
(* the later comes more than that later.  With no stall this is the        *)
(* promise of check_and_record (_rate_limiter.py 32-35); a thread held up  *)
(* between the clock read and the lock costs its delay, once, and never    *)
(* the unsorted deque it leaves behind.                                    *)
(***************************************************************************)
SpacedBy(gap, k) ==
    \A i \in 1 .. Len(admitted[k]) - Ceiling(k) :
        admitted[k][i + Ceiling(k)].at - admitted[k][i].at > gap

WindowBound == \A k \in Keys : SpacedBy(Window - MaxStall, k)

(***************************************************************************)
(* A denial has that many admitted calls behind it, the last ones, none    *)
(* more than MaxStall older than the caller's window; a reset forgives     *)
(* every call before it.                                                   *)
(***************************************************************************)
LastAdmittedSince(k, n, time) ==
    /\ n <= Len(admitted[k])
    /\ \A i \in Len(admitted[k]) - n + 1 .. Len(admitted[k]) :
          admitted[k][i].stamp >= time

Denies(t) == pc[t] = "waiting" /\ pc'[t] = "idle" /\ ~answer'[t]

DenialJustified ==
    [][\A t \in Threads : Denies(t) =>
          LastAdmittedSince(request[t].key, request[t].limit,
                            Cutoff(request[t].stamp) - MaxStall)]_vars

\* What the promise sees of a history: the stamps are the limiter's own affair.
Known(entries) ==
    [i \in 1 .. Len(entries) |-> [at |-> entries[i].at, limit |-> entries[i].limit]]

Promise == INSTANCE WindowLimit WITH
    Gap <- Window - MaxStall,
    admitted <- [k \in Keys |-> Known(admitted[k])]

(***************************************************************************)
(* The limiter keeps the promise it shares with the one on Redis, a stall  *)
(* taken off the window: a call is admitted only if fewer than the limit   *)
(* it brings itself were really admitted since, whatever limits the others *)
(* brought (boundary.py 890-896 passes that of the permission it has just  *)
(* read) and whatever stamps the deque holds; never at nought; and only a  *)
(* reset forgives (_rate_limiter.py 32-57).  WindowBound knows the largest *)
(* limit of a key only.                                                    *)
(***************************************************************************)
KeepsLimit == Promise!Spec

-----------------------------------------------------------------------------
(***************************************************************************)
(* The inductive invariant.  The deque of a key is the end of its history; *)
(* what was dropped from it is out of every window still to come; a stamp  *)
(* is at most MaxStall behind the admission it belongs to, and admissions  *)
(* are in order.                                                           *)
(***************************************************************************)
Dropped(k) == Len(admitted[k]) - Len(calls[k])

DequeIsSuffix ==
    \A k \in Keys :
        /\ Len(calls[k]) <= Len(admitted[k])
        /\ \A i \in 1 .. Len(calls[k]) :
              calls[k][i] = admitted[k][Dropped(k) + i].stamp

DroppedAreOld ==
    \A k \in Keys : \A i \in 1 .. Dropped(k) : admitted[k][i].stamp + Window < now

StampsAreRecent ==
    /\ \A k \in Keys : \A i \in 1 .. Len(admitted[k]) :
          /\ admitted[k][i].stamp <= admitted[k][i].at
          /\ admitted[k][i].at <= admitted[k][i].stamp + MaxStall
          /\ admitted[k][i].at <= now
    /\ \A t \in Threads : pc[t] = "waiting" =>
          /\ request[t].stamp <= now
          /\ now <= request[t].stamp + MaxStall

AdmissionsInOrder ==
    \A k \in Keys : \A i, j \in 1 .. Len(admitted[k]) :
        i <= j => admitted[k][i].at <= admitted[k][j].at

LimiterInv ==
    /\ TypeOK
    /\ DequeIsSuffix
    /\ DroppedAreOld
    /\ StampsAreRecent
    /\ AdmissionsInOrder
=============================================================================
