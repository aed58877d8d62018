------------------------------ MODULE RedisWindow ------------------------------
(***************************************************************************)
(* RedisSlidingWindowRateLimiter of redis_backend.py: replicas that share  *)
(* a sorted set per key.  The script is one step of the server; each       *)
(* replica stamps its call with a clock of its own, the script prunes by   *)
(* that stamp, the key expires by the server's clock, and a reply may be   *)
(* lost after the script ran.                                              *)
(*                                                                         *)
(* A command given up by its client that arrives later is a client of its  *)
(* own whose reply is lost.                                                *)
(***************************************************************************)
EXTENDS Integers, Sequences, FiniteSets

CONSTANTS
    Clients,    \* threads of all replicas
    Keys,       \* rate-limit keys
    Limits,     \* Keys -> the values of max_calls a key is asked with
    Window,     \* window_seconds, in ticks
    Second,     \* ticks in a second
    MaxSkew,    \* how far any wall clock may be ahead of the slowest, in ticks
    MaxStall,   \* bound: longest time from a clock read to its (last) script
    MaxWait,    \* bound: longest time from a clock read to the return
    FailModes,  \* the values fail_closed is given: one or both
    Retries,    \* times the Redis client sends a command again of its own accord
    TimeBound,  \* bound: last value of the clock
    CallBound,  \* bound: calls that reach the Redis client
    None

\* slot: the place of the call in the history, 0 if it has none.
Request == [key : Keys, limit : Nat, stamp : Nat, readAt : Nat, slot : Nat,
            tries : Nat]
Admission == [stamp : Nat, at : Nat, limit : Nat]

ASSUME RedisWindowAssumption ==
    /\ IsFiniteSet(Clients)
    /\ Limits \in [Keys -> SUBSET Nat]
    /\ Window \in Nat /\ Second \in Nat \ {0}
    /\ MaxSkew \in Nat /\ MaxStall \in Nat /\ MaxWait \in Nat
    /\ FailModes \subseteq BOOLEAN
    /\ Retries \in Nat /\ TimeBound \in Nat /\ CallBound \in Nat
    /\ None \notin Request

VARIABLES
    now,          \* the slowest wall clock
    zset,         \* members of each key's sorted set, as places in its history
    expiry,       \* when the server lets each key expire, 0 if it is absent
    fail_closed,  \* _fail_closed of every replica; set once, by __init__
    pc,           \* "idle", "sent", and then what the script returned
    request,      \* the call each client is making, None if it makes none
    calls,        \* calls so far that reached the Redis client
    admitted,     \* history: per key, the slots taken since the last reset,
                  \* each with its stamp, the time it was really taken and the
                  \* limit of its call
    told,         \* history: per key, slots of calls that were let through,
    burned,       \*   and of calls that were not
    unseen        \* history: some call was let through without the server's grant

server == <<zset, expiry, admitted>>
outcome == <<told, burned, unseen>>
vars == <<now, server, fail_closed, pc, request, calls, outcome>>

Init ==
    /\ now = 0
    /\ zset = [k \in Keys |-> {}]
    /\ expiry = [k \in Keys |-> 0]
    /\ fail_closed \in FailModes
    /\ pc = [c \in Clients |-> "idle"]
    /\ request = [c \in Clients |-> None]
    /\ admitted = [k \in Keys |-> <<>>]
    /\ told = [k \in Keys |-> 0]
    /\ burned = [k \in Keys |-> 0]
    /\ unseen = FALSE
    /\ calls = 0

-----------------------------------------------------------------------------

At(c, label) == pc[c] = label
Goto(c, label) == pc' = [pc EXCEPT ![c] = label]

\* A limit of nought is refused without asking; clocks step, so the skew is
\* whatever it is when the clock is read.
ReadClock(c) ==
    /\ At(c, "idle")
    /\ \E k \in Keys : \E m \in Limits[k] : \E ahead \in 0 .. MaxSkew :
          IF m <= 0
          THEN UNCHANGED <<pc, request, calls>>
          ELSE /\ calls < CallBound
               /\ calls' = calls + 1
               /\ Goto(c, "sent")
               /\ request' = [request EXCEPT ![c] =
                      [key |-> k, limit |-> m, stamp |-> now + ahead, readAt |-> now,
                       slot |-> 0, tries |-> 0]]
    /\ UNCHANGED <<now, server, fail_closed, outcome>>

\* ZREMRANGEBYSCORE key -inf cutoff
Survivors(k, cutoff) == {i \in zset[k] : admitted[k][i].stamp > cutoff}

\* Faulty variant: one call over the limit gets through.
OverLimit(kept, limit) == Cardinality(kept) > limit

AtLimit(kept, limit) == Cardinality(kept) >= limit

\* Faulty variant: the second that int() takes is not given back.
KeyLifeTruncated == (Window \div Second) * Second

\* The life of a key, in ticks: max(1, int(window) + 1) seconds.
KeyLife == (Window \div Second + 1) * Second

\* Faulty variant: a member of its own for each attempt.
PlaceAlways(r) == Len(admitted[r.key]) + 1

\* The member a call adds is one however often it is sent.
Place(r) == IF r.slot = 0 THEN Len(admitted[r.key]) + 1 ELSE r.slot

\* The script.
Execute(c) ==
    /\ At(c, "sent")
    /\ LET r == request[c]
           k == r.key
           kept == Survivors(k, r.stamp - Window)
       IN  IF AtLimit(kept, r.limit)
           THEN /\ zset' = [zset EXCEPT ![k] = kept]
                /\ Goto(c, "refused")
                /\ UNCHANGED <<expiry, admitted, request>>
           ELSE /\ zset' = [zset EXCEPT ![k] = kept \cup {Place(r)}]
                /\ expiry' = [expiry EXCEPT ![k] = now + KeyLife]
                /\ request' = [request EXCEPT ![c].slot = Place(r)]
                /\ Goto(c, "granted")
                /\ admitted' = IF Place(r) <= Len(admitted[k]) THEN admitted
                               ELSE [admitted EXCEPT ![k] =
                                   Append(@, [stamp |-> r.stamp, at |-> now,
                                              limit |-> r.limit])]
    /\ UNCHANGED <<now, fail_closed, calls, outcome>>

\* check_and_record returns: what becomes of its slot, if it has one.
Return(c, through) ==
    LET k == request[c].key
        slots == IF request[c].slot = 0 THEN 0 ELSE 1
    IN  /\ told' = IF through THEN [told EXCEPT ![k] = @ + slots] ELSE told
        /\ burned' = IF through THEN burned ELSE [burned EXCEPT ![k] = @ + slots]
        /\ unseen' = (unseen \/ (through /\ slots = 0 /\ ~At(c, "granted")))
        /\ Goto(c, "idle")
        /\ request' = [request EXCEPT ![c] = None]
        /\ UNCHANGED <<now, server, fail_closed, calls>>

Answer(c) ==
    \/ At(c, "granted") /\ Return(c, TRUE)
    \/ At(c, "refused") /\ Return(c, FALSE)

\* The except clause of check_and_record: the command was lost, or its reply.
Fail(c) == ~At(c, "idle") /\ Return(c, ~fail_closed)

\* redis-py from 6.0 on sends a command again when its connection failed.
Resend(c) ==
    /\ ~At(c, "idle")
    /\ request[c].tries < Retries
    /\ now - request[c].readAt <= MaxStall
    /\ request' = [request EXCEPT ![c].tries = @ + 1]
    /\ Goto(c, "sent")
    /\ UNCHANGED <<now, server, fail_closed, calls, outcome>>

\* current_count prunes too, with a clock read up to MaxStall ago.
CurrentCount ==
    /\ \E k \in Keys, stamp \in now - MaxStall .. now + MaxSkew :
          zset' = [zset EXCEPT ![k] = Survivors(k, stamp - Window)]
    /\ UNCHANGED <<now, expiry, admitted, fail_closed, pc, request, calls, outcome>>

\* reset(key), and a batch of the keys that reset() finds: an error between two
\* batches is swallowed.
Reset(ks) ==
    /\ zset' = [k \in Keys |-> IF k \in ks THEN {} ELSE zset[k]]
    /\ expiry' = [k \in Keys |-> IF k \in ks THEN 0 ELSE expiry[k]]
    /\ admitted' = [k \in Keys |-> IF k \in ks THEN <<>> ELSE admitted[k]]
    /\ request' = [c \in Clients |->
           IF pc[c] # "idle" /\ request[c].key \in ks
           THEN [request[c] EXCEPT !.slot = 0] ELSE request[c]]
    /\ told' = [k \in Keys |-> IF k \in ks THEN 0 ELSE told[k]]
    /\ burned' = [k \in Keys |-> IF k \in ks THEN 0 ELSE burned[k]]
    /\ UNCHANGED <<now, fail_closed, pc, calls, unseen>>

\* The clock moves unless a command under way has used up its stall, or a call
\* its wait.
Tick ==
    /\ now < TimeBound
    /\ \A c \in Clients :
          /\ At(c, "sent") => now - request[c].readAt < MaxStall
          /\ ~At(c, "idle") => now - request[c].readAt < MaxWait
    /\ now' = now + 1
    /\ zset' = [k \in Keys |-> IF expiry[k] > now + 1 THEN zset[k] ELSE {}]
    /\ expiry' = [k \in Keys |-> IF expiry[k] > now + 1 THEN expiry[k] ELSE 0]
    /\ UNCHANGED <<admitted, fail_closed, pc, request, calls, outcome>>

Next ==
    \/ \E c \in Clients : ReadClock(c) \/ Execute(c) \/ Answer(c) \/ Fail(c) \/ Resend(c)
    \/ CurrentCount
    \/ \E ks \in SUBSET Keys : Reset(ks)
    \/ Tick

Spec == Init /\ [][Next]_vars

-----------------------------------------------------------------------------
(***************************************************************************)
(* Properties.                                                             *)
(***************************************************************************)
TypeOK ==
    /\ now \in Nat
    /\ zset \in [Keys -> SUBSET (Nat \ {0})]
    /\ expiry \in [Keys -> Nat]
    /\ fail_closed \in BOOLEAN
    /\ pc \in [Clients -> {"idle", "sent", "granted", "refused"}]
    /\ request \in [Clients -> Request \cup {None}]
    /\ \A c \in Clients :
          /\ pc[c] = "idle" <=> request[c] = None
          /\ pc[c] # "idle" => request[c].limit \in Limits[request[c].key] \ {0}
    /\ admitted \in [Keys -> Seq(Admission)]
    /\ calls \in Nat
    /\ told \in [Keys -> Nat] /\ burned \in [Keys -> Nat] /\ unseen \in BOOLEAN

\* What the promise sees of a history: the stamps are the limiter's own affair.
Known(entries) ==
    [i \in 1 .. Len(entries) |-> [at |-> entries[i].at, limit |-> entries[i].limit]]

Promise == INSTANCE WindowLimit WITH
    Gap <- Window - MaxSkew - MaxStall - 1,
    admitted <- [k \in Keys |-> Known(admitted[k])]

(***************************************************************************)
(* The replicas together keep the promise of WindowLimit, to each call by  *)
(* its own limit, the skew of their clocks and a stall taken off the       *)
(* window, whatever is lost, sent twice, counted, reset, on some keys or   *)
(* on all, or expires (redis_backend.py 59-62, 158-160).                   *)
(***************************************************************************)
KeepsLimit == Promise!Spec

HasSlot(k) == {c \in Clients : pc[c] # "idle" /\ request[c].key = k /\ request[c].slot # 0}

(***************************************************************************)
(* A call takes one slot at most, also when its command is sent again, and *)
(* every slot is that of one call: let through, refused for want of its    *)
(* reply, or under way; under fail-closed no call is let through without   *)
(* the server's grant (redis_backend.py 35-45, 169-183).                   *)
(***************************************************************************)
SlotsAccounted ==
    /\ \A k \in Keys :
          Len(admitted[k]) = told[k] + burned[k] + Cardinality(HasSlot(k))
    /\ fail_closed => ~unseen

-----------------------------------------------------------------------------
(***************************************************************************)
(* The inductive invariant of the bound: what is no longer in the set of a *)
(* key was taken before every window still to come.                        *)
(***************************************************************************)
Slack == MaxSkew + MaxStall

MembersAreHistory ==
    /\ \A k \in Keys : zset[k] \subseteq 1 .. Len(admitted[k])
    /\ \A c \in Clients : pc[c] # "idle" =>
          request[c].slot \in 0 .. Len(admitted[request[c].key])

GoneAreOld ==
    \A k \in Keys : \A i \in 1 .. Len(admitted[k]) :
        i \notin zset[k] => admitted[k][i].at + Window <= now + Slack

KeysOutlive ==
    \A k \in Keys : \A i \in zset[k] : admitted[k][i].at + Window < expiry[k]

StampsAreRecent ==
    /\ \A k \in Keys : \A i \in 1 .. Len(admitted[k]) :
          /\ admitted[k][i].at <= admitted[k][i].stamp + MaxStall
          /\ admitted[k][i].at <= now
    /\ \A c \in Clients : pc[c] # "idle" =>
          /\ request[c].readAt <= now
          /\ request[c].readAt <= request[c].stamp
          /\ request[c].stamp <= request[c].readAt + MaxSkew
    /\ \A c \in Clients : pc[c] = "sent" => now <= request[c].readAt + MaxStall

AdmissionsInOrder ==
    \A k \in Keys : \A i, j \in 1 .. Len(admitted[k]) :
        i <= j => admitted[k][i].at <= admitted[k][j].at

WindowInv ==
    /\ TypeOK
    /\ MembersAreHistory
    /\ GoneAreOld
    /\ KeysOutlive
    /\ StampsAreRecent
    /\ AdmissionsInOrder
=============================================================================
