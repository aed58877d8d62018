------------------------------ MODULE RedisStore ------------------------------
(***************************************************************************)
(* RedisTokenStore of redis_backend.py, shared by replicas of the proxy,   *)
(* under verify of tokens.py.  A replica computes the life of the mark     *)
(* from a clock of its own, the command travels, the server counts that    *)
(* life from when it arrives, and the reply may be lost.                   *)
(*                                                                         *)
(* Times are durations that count down: what is left of a token, by the    *)
(* slowest of the replicas' clocks, and of a mark.  So there is no bound   *)
(* on time, and a tick need not be a second.                               *)
(***************************************************************************)
EXTENDS Integers

CONSTANTS
    Clients,    \* handler threads of all replicas
    Tokens,     \* token_ids
    Second,     \* ticks in a second
    TTL,        \* ttl_seconds, in ticks
    MaxSkew,    \* how far any wall clock may be ahead of the slowest, in ticks
    FailModes,  \* the values fail_closed is given: one or both
    Retries,    \* times the Redis client sends a command again of its own accord
    UseBound,   \* bound: uses of tokens
    None

Unissued == -Second - 1

\* Life of a mark, in seconds, and what a command in flight carries.
Command == [token : Tokens, ttl : Nat]
Request == [token : Tokens, ttl : Int, tries : Nat, created : BOOLEAN]
Pcs == {"idle", "verified", "sent", "executed"}

ASSUME RedisStoreAssumption ==
    /\ Second \in Nat \ {0} /\ TTL \in Nat /\ MaxSkew \in 0 .. TTL
    /\ FailModes \subseteq BOOLEAN
    /\ Retries \in Nat /\ UseBound \in Nat
    /\ None \notin Request

VARIABLES
    fail_closed,  \* _fail_closed of every replica; set once, by __init__
    left,         \* ticks to the expiry of each token; Unissued; never below -Second
    mark,         \* ticks to the expiry of each token's key in Redis, 0 if absent
    pc,           \* where each client is
    request,      \* the call it is making, None if it makes none
    strays,       \* commands given up by their client that may still arrive
    presented,    \* uses so far
    allowed,      \* history: times each token was let through
    excused       \* history: times it was let through for want of an answer

vars == <<fail_closed, left, mark, pc, request, strays, presented, allowed, excused>>

-----------------------------------------------------------------------------

Init ==
    /\ fail_closed \in FailModes
    /\ left = [k \in Tokens |-> Unissued]
    /\ mark = [k \in Tokens |-> 0]
    /\ pc = [c \in Clients |-> "idle"]
    /\ request = [c \in Clients |-> None]
    /\ strays = {}
    /\ presented = 0
    /\ allowed = [k \in Tokens |-> 0]
    /\ excused = [k \in Tokens |-> 0]

At(c, label) == pc[c] = label
Goto(c, label) == pc' = [pc EXCEPT ![c] = label]
Finish(c) == Goto(c, "idle") /\ request' = [request EXCEPT ![c] = None]

\* The seconds from a clock that is that much ahead to the expiry: skews are
\* whatever they are when the clock is read, since clocks step.
Skews == 0 .. MaxSkew
LeftBy(k, ahead) == left[k] - ahead

Issued == {k \in Tokens : left[k] # Unissued}

Issue(k) ==
    /\ left[k] = Unissued
    /\ \E ahead \in Skews : left' = [left EXCEPT ![k] = TTL + ahead]
    /\ UNCHANGED <<fail_closed, mark, pc, request, strays, presented, allowed, excused>>

\* time.time() > expires_at refuses it; whatever else verify refuses is refused.
Verify(c) ==
    /\ At(c, "idle")
    /\ presented < UseBound
    /\ \E k \in Issued :
          /\ \E ahead \in Skews : LeftBy(k, ahead) >= 0
          /\ request' = [request EXCEPT ![c] =
                 [token |-> k, ttl |-> 0, tries |-> 0, created |-> FALSE]]
    /\ presented' = presented + 1
    /\ Goto(c, "verified")
    /\ UNCHANGED <<fail_closed, left, mark, strays, allowed, excused>>

\* int() truncates toward zero.
Truncated(x) == IF x >= 0 THEN x \div Second ELSE -((-x) \div Second)

\* Faulty variant: the second that truncation takes is not given back.
LifeTruncated(x) == Truncated(x)

Life(x) == Truncated(x) + 1

\* Faulty variant: a life of nought is let through to the server.
TooLateNegative(ttl) == ttl < 0

TooLate(ttl) == ttl <= 0

\* mark_used up to the command.
ReadClock(c) ==
    /\ At(c, "verified")
    /\ \E ahead \in Skews :
          LET ttl == Life(LeftBy(request[c].token, ahead))
          IN  IF TooLate(ttl)
              THEN Finish(c)
              ELSE /\ Goto(c, "sent")
                   /\ request' = [request EXCEPT ![c].ttl = ttl]
    /\ UNCHANGED <<fail_closed, left, mark, strays, presented, allowed, excused>>

\* SET key 1 NX EX ttl, on the server.
\* Faulty variant: without EX; -1 is a key that does not expire.
SetForever(k, ttl) == mark' = [mark EXCEPT ![k] = IF @ = 0 THEN -1 ELSE @]

SetIfAbsent(k, ttl) ==
    mark' = [mark EXCEPT ![k] = IF @ = 0 THEN ttl * Second ELSE @]

\* Faulty variant: the reply is not looked at.
CreatedAlways(k) == TRUE

Created(k) == mark[k] = 0

Execute(c) ==
    /\ At(c, "sent")
    /\ SetIfAbsent(request[c].token, request[c].ttl)
    /\ request' = [request EXCEPT ![c].created = Created(request[c].token)]
    /\ Goto(c, "executed")
    /\ UNCHANGED <<fail_closed, left, strays, presented, allowed, excused>>

Answer(c) ==
    /\ At(c, "executed")
    /\ allowed' = IF request[c].created
                  THEN [allowed EXCEPT ![request[c].token] = @ + 1] ELSE allowed
    /\ Finish(c)
    /\ UNCHANGED <<fail_closed, left, mark, strays, presented, excused>>

\* Connection or reply lost: a command sent may have been lost with it, or not.
Abandon(c) ==
    \/ At(c, "executed") /\ UNCHANGED strays
    \/ /\ At(c, "sent")
       /\ strays' \in {strays,
              strays \cup {[token |-> request[c].token, ttl |-> request[c].ttl]}}

\* The except clause of mark_used.
Open == ~fail_closed

Fail(c) ==
    /\ Abandon(c)
    /\ IF Open
       THEN /\ allowed' = [allowed EXCEPT ![request[c].token] = @ + 1]
            /\ excused' = [excused EXCEPT ![request[c].token] = @ + 1]
       ELSE UNCHANGED <<allowed, excused>>
    /\ Finish(c)
    /\ UNCHANGED <<fail_closed, left, mark, presented>>

\* redis-py from 6.0 on sends a command again when its connection failed.
Resend(c) ==
    /\ Abandon(c)
    /\ request[c].tries < Retries
    /\ request' = [request EXCEPT ![c].tries = @ + 1]
    /\ Goto(c, "sent")
    /\ UNCHANGED <<fail_closed, left, mark, presented, allowed, excused>>

\* The replica dies and is started again.
Crash(c) ==
    /\ \/ At(c, "verified") /\ UNCHANGED strays
       \/ Abandon(c)
    /\ Finish(c)
    /\ UNCHANGED <<fail_closed, left, mark, presented, allowed, excused>>

StrayArrives ==
    /\ \E command \in strays :
          /\ SetIfAbsent(command.token, command.ttl)
          /\ strays' = strays \ {command}
    /\ UNCHANGED <<fail_closed, left, pc, request, presented, allowed, excused>>

Tick ==
    /\ left' = [k \in Tokens |-> IF left[k] > -Second THEN left[k] - 1 ELSE left[k]]
    /\ mark' = [k \in Tokens |-> IF mark[k] > 0 THEN mark[k] - 1 ELSE mark[k]]
    /\ UNCHANGED <<fail_closed, pc, request, strays, presented, allowed, excused>>

ClientStep(c) ==
    \/ Verify(c) \/ ReadClock(c) \/ Execute(c) \/ Answer(c)
    \/ Fail(c) \/ Resend(c) \/ Crash(c)

Next ==
    \/ \E k \in Tokens : Issue(k)
    \/ \E c \in Clients : ClientStep(c)
    \/ StrayArrives
    \/ Tick

Spec == Init /\ [][Next]_vars

\* Time passes; nobody else is held to anything.
FairSpec == Spec /\ WF_vars(Tick)

-----------------------------------------------------------------------------
(***************************************************************************)
(* Properties.                                                             *)
(***************************************************************************)

(***************************************************************************)
(* Types; no command asks the server for a life of nought or less, which   *)
(* it would reject or keep for ever (redis_backend.py 258-261).            *)
(***************************************************************************)
TypeOK ==
    /\ fail_closed \in BOOLEAN
    /\ left \in [Tokens -> Int]
    /\ mark \in [Tokens -> Nat]
    /\ pc \in [Clients -> Pcs]
    /\ request \in [Clients -> Request \cup {None}]
    /\ \A c \in Clients : pc[c] # "idle" => request[c] # None
    /\ \A c \in Clients : pc[c] \in {"sent", "executed"} => request[c].ttl > 0
    /\ strays \subseteq Command
    /\ \A command \in strays : command.ttl > 0
    /\ presented \in Nat
    /\ allowed \in [Tokens -> Nat]
    /\ excused \in [Tokens -> Nat]

\* Every replica still takes the token for unexpired.
Fresh(k) == left[k] >= MaxSkew

(***************************************************************************)
(* While no replica's clock has reached its expiry a token is let through  *)
(* once at most, and once more for each failure of Redis under fail-open;  *)
(* under fail-closed there is none of those (redis_backend.py 32-46).      *)
(***************************************************************************)
SpendsAccounted ==
    /\ \A k \in Tokens : Fresh(k) => allowed[k] <= 1 + excused[k]
    /\ fail_closed => \A k \in Tokens : excused[k] = 0

\* A client has been told, or is being told, that it made the mark of k.
Told(c, k) == At(c, "executed") /\ request[c].created /\ request[c].token = k

PhaseOf(k) ==
    CASE left[k] = Unissued -> "unissued"
      [] left[k] # Unissued /\ (~Fresh(k) \/ excused[k] > 0) -> "released"
      [] left[k] # Unissued /\ Fresh(k) /\ excused[k] = 0 ->
            IF allowed[k] > 0 THEN "spent"
            ELSE IF mark[k] > 0 /\ \A c \in Clients : ~Told(c, k) THEN "burned"
            ELSE "live"

Promise == INSTANCE Permit WITH phase <- [k \in Tokens |-> PhaseOf(k)], spends <- allowed

(***************************************************************************)
(* The store keeps the promise of Permit: until some clock has reached its *)
(* expiry a token is spent at most once across replicas, and never after   *)
(* its mark was made by a command whose reply was lost, whatever is lost,  *)
(* late, sent twice or crashes (redis_backend.py 227-230, 250-255).        *)
(***************************************************************************)
KeepsPermit == Promise!Spec

(***************************************************************************)
(* Expired entries disappear without a collection (redis_backend.py 229).  *)
(***************************************************************************)
MarksFade == \A k \in Tokens : mark[k] # 0 ~> mark[k] = 0

-----------------------------------------------------------------------------
(***************************************************************************)
(* The inductive invariant.  A mark, and a command that may make one, has  *)
(* more life than the token has by the fastest clock; so the mark of a     *)
(* fresh token stands once made, and one client at most is told of it.     *)
(***************************************************************************)
OutlivesToken(k, life) == life > left[k] - MaxSkew

MarksOutlive ==
    /\ \A k \in Tokens : mark[k] > 0 => OutlivesToken(k, mark[k])
    /\ \A c \in Clients : pc[c] \in {"sent", "executed"} =>
          OutlivesToken(request[c].token, request[c].ttl * Second)
    /\ \A command \in strays : OutlivesToken(command.token, command.ttl * Second)

IssuedOnly ==
    /\ \A k \in Tokens : left[k] = Unissued =>
          mark[k] = 0 /\ allowed[k] = 0 /\ excused[k] = 0
    /\ \A c \in Clients : pc[c] # "idle" => request[c].token \in Issued
    /\ \A command \in strays : command.token \in Issued

OneIsTold ==
    \A k \in Tokens : Fresh(k) =>
        /\ allowed[k] > excused[k] => mark[k] > 0
        /\ allowed[k] <= 1 + excused[k]
        /\ \A c \in Clients : Told(c, k) =>
              /\ mark[k] > 0
              /\ allowed[k] <= excused[k]
              /\ \A d \in Clients : Told(d, k) => d = c

StoreInv ==
    /\ TypeOK
    /\ MarksOutlive
    /\ IssuedOnly
    /\ OneIsTold
    /\ fail_closed => \A k \in Tokens : excused[k] = 0
=============================================================================
