------------------------------ MODULE TokenGate ------------------------------
(***************************************************************************)
(* Authorization tokens from issue to upstream: tokens.py and network.py.  *)
(*                                                                         *)
(* The enforcer serves every connection in a thread of its own and the     *)
(* token store takes no lock, so a handler's step is one access to what    *)
(* the threads share: the routes, the clock, the dict of used tokens.      *)
(* mark_used is six of them: reading the clock, the scan of _gc (begun and *)
(* ended), each deletion, the membership test and the insertion.           *)
(*                                                                         *)
(* Time is counted in ticks, one clock for issuer and enforcer.            *)
(***************************************************************************)
EXTENDS Naturals, FiniteSets

CONSTANTS
    Handlers,      \* threads of the proxy; each serves request after request
    Tokens,        \* token_ids the issuer may draw
    Tools,         \* tool names, which are also the routes' names
    Operations,    \* operations tokens are issued for
    None,          \* Python's None
    Foreign,       \* wire forms that are no token of this issuer: its signature
    Malformed,     \*   differs, or it cannot be parsed
    Elsewhere,     \* authorities that are no tool's upstream
    InitialRoutes, \* Tools -> None or [op : required_operation]
    AddedRoutes,   \* what add_route may register: [tool, route]
    TTL,           \* ttl_seconds
    MaxRedirections, \* HTTPRedirectHandler.max_redirections, as urlopen builds it
    StallBound,    \* bound: ticks a thread may lose between verify and _gc
    TimeBound,     \* bound: last tick of the clock
    UseBound       \* bound: requests presented

Pcs == {"idle", "route", "verify", "gc_clock", "gc_scan", "gc_scanning",
        "gc_delete", "test", "insert", "forward", "upstream", "crash"}

Reasons == {"UNKNOWN_ROUTE", "MISSING_TOKEN", "MALFORMED_TOKEN", "TOKEN_EXPIRED",
            "TOKEN_INVALID", "TOKEN_ALREADY_USED", "ALLOWED"}

Route == [op : Operations \cup {None}]
Grant == [tool : Tools, op : Operations \cup {None}, expires : Nat]
Wires == Tokens \cup {None, Foreign, Malformed}
Request == [tool : Tools, wire : Wires]

ASSUME TokenGateAssumption ==
    /\ IsFiniteSet(Tokens) /\ IsFiniteSet(Handlers)
    /\ Tokens \cap {None, Foreign, Malformed} = {}
    /\ None \notin Grant /\ None \notin Route
    /\ Elsewhere \notin Tools /\ None \notin Tools \cup {Elsewhere}
    /\ None \notin Request /\ None \notin Reasons
    /\ InitialRoutes \in [Tools -> Route \cup {None}]
    /\ AddedRoutes \subseteq [tool : Tools, route : Route]
    /\ {TTL, MaxRedirections, StallBound, TimeBound, UseBound} \subseteq Nat

VARIABLES
    clock,       \* time.time()
    grants,      \* token_id -> what it was issued for, None if not issued
    routes,      \* NetworkEnforcer._routes
    used,        \* keys of InMemoryTokenStore._used; each maps to its expires_at
    pc,          \* where each handler is
    request,     \* its request: /<tool>/... and the token header
    route,       \* the route it looked up
    verifiedAt,  \* when it last verified a token
    now,         \* the clock as _gc read it
    scanned,     \* _used as the scan of _gc found it when it began
    met,         \* what _used has held after each change made during the scan
    expired,     \* the list of _gc that is left to delete
    target,      \* whose upstream its request has been sent to, None if it has not
    redirects,   \* redirects urlopen has followed for it
    reason,      \* what authorize_and_resolve last returned, None if it did not
    presented,   \* requests presented
    allowed,     \* history: times each token was allowed
    reached,     \* history: times each token's request was sent to its upstream
    late         \* history: the token had been allowed before this request came

store == <<clock, grants, routes>>
scan == <<now, scanned, met, expired>>
outbound == <<target, redirects>>
history == <<presented, allowed, reached, late>>
vars == <<store, used, pc, request, route, verifiedAt, scan, outbound, reason, history>>

-----------------------------------------------------------------------------

Init ==
    /\ clock = 0
    /\ grants = [k \in Tokens |-> None]
    /\ routes = InitialRoutes
    /\ used = {}
    /\ pc = [h \in Handlers |-> "idle"]
    /\ request = [h \in Handlers |-> None]
    /\ route = [h \in Handlers |-> None]
    /\ verifiedAt = [h \in Handlers |-> 0]
    /\ now = [h \in Handlers |-> 0]
    /\ scanned = [h \in Handlers |-> {}]
    /\ met = [h \in Handlers |-> {}]
    /\ expired = [h \in Handlers |-> {}]
    /\ target = [h \in Handlers |-> None]
    /\ redirects = [h \in Handlers |-> 0]
    /\ reason = [h \in Handlers |-> None]
    /\ presented = 0
    /\ allowed = [k \in Tokens |-> 0]
    /\ reached = [k \in Tokens |-> 0]
    /\ late = [h \in Handlers |-> FALSE]

At(h, label) == pc[h] = label
Goto(h, label) == pc' = [pc EXCEPT ![h] = label]

\* The agent's side: check_and_authorize allowed a call and issued its token.
ExpiresAt(issued) == issued + TTL

Issue ==
    /\ \E k \in Tokens, tool \in Tools, op \in Operations \cup {None} :
          /\ grants[k] = None
          /\ grants' = [grants EXCEPT ![k] =
                            [tool |-> tool, op |-> op, expires |-> ExpiresAt(clock)]]
    /\ UNCHANGED <<clock, routes, used, pc, request, route, verifiedAt, scan, reason,
                   history, outbound>>

Issued == {k \in Tokens : grants[k] # None}

AddRoute ==
    /\ \E a \in AddedRoutes : routes' = [routes EXCEPT ![a.tool] = a.route]
    /\ UNCHANGED <<clock, grants, used, pc, request, route, verifiedAt, scan, reason,
                   history, outbound>>

\* A thread between verify and the clock of _gc is not suspended for longer
\* than StallBound; everywhere else it may be.
Tick ==
    /\ clock < TimeBound
    /\ \A h \in Handlers : At(h, "gc_clock") => clock - verifiedAt[h] < StallBound
    /\ clock' = clock + 1
    /\ UNCHANGED <<grants, routes, used, pc, request, route, verifiedAt, scan, reason,
                   history, outbound>>

-----------------------------------------------------------------------------
(***************************************************************************)
(* One request, step by step.                                              *)
(***************************************************************************)

\* A connection brings a request, perhaps one already made and tried again.
Present(h) ==
    /\ At(h, "idle")
    /\ presented < UseBound
    /\ presented' = presented + 1
    /\ \E tool \in Tools, wire \in Issued \cup {None, Foreign, Malformed} :
          /\ request' = [request EXCEPT ![h] = [tool |-> tool, wire |-> wire]]
          /\ late' = [late EXCEPT ![h] = wire \in Tokens /\ allowed[wire] > 0]
    /\ reason' = [reason EXCEPT ![h] = None]
    /\ Goto(h, "route")
    /\ UNCHANGED <<store, used, route, verifiedAt, scan, allowed, reached, outbound>>

\* Faulty variant: the code of the denial is lost on the way.
DenyUnnamed(h, why) ==
    /\ reason' = [reason EXCEPT ![h] = "DENIED"]
    /\ Goto(h, "idle")

Deny(h, why) ==
    /\ reason' = [reason EXCEPT ![h] = why]
    /\ Goto(h, "idle")

FindRoute(h) ==
    /\ At(h, "route")
    /\ LET wire == request[h].wire
           found == routes[request[h].tool]
       IN  /\ route' = [route EXCEPT ![h] = found]
           /\ \/ found = None /\ Deny(h, "UNKNOWN_ROUTE")
              \/ found # None /\ wire = None /\ Deny(h, "MISSING_TOKEN")
              \/ found # None /\ wire = Malformed /\ Deny(h, "MALFORMED_TOKEN")
              \/ /\ found # None /\ wire \notin {None, Malformed}
                 /\ Goto(h, "verify") /\ UNCHANGED reason
    /\ UNCHANGED <<store, used, request, verifiedAt, scan, history, outbound>>

\* TokenIssuer.verify: signature, expiry, tool, operation.  compare_digest
\* raises a TypeError for a signature that is not ASCII, which nobody catches.
Fail(h) == Goto(h, "crash") /\ UNCHANGED reason

IsExpired(grant, time) == time > grant.expires

InScope(grant, tool, required) ==
    grant.tool = tool /\ (required = None \/ grant.op = required)

\* Faulty variant: the route's required operation is not passed on.
VerifyAnyOperation(h) ==
    /\ At(h, "verify")
    /\ LET wire == request[h].wire
       IN  \/ wire = Foreign /\ (Deny(h, "TOKEN_INVALID") \/ Fail(h))
           \/ /\ wire # Foreign /\ IsExpired(grants[wire], clock)
              /\ Deny(h, "TOKEN_EXPIRED")
           \/ /\ wire # Foreign /\ ~IsExpired(grants[wire], clock)
              /\ IF InScope(grants[wire], request[h].tool, None)
                 THEN Goto(h, "gc_clock") /\ UNCHANGED reason
                 ELSE Deny(h, "TOKEN_INVALID")
    /\ verifiedAt' = [verifiedAt EXCEPT ![h] = clock]
    /\ UNCHANGED <<store, used, request, route, scan, history, outbound>>

Verify(h) ==
    /\ At(h, "verify")
    /\ LET wire == request[h].wire
       IN  \/ wire = Foreign /\ (Deny(h, "TOKEN_INVALID") \/ Fail(h))
           \/ /\ wire # Foreign /\ IsExpired(grants[wire], clock)
              /\ Deny(h, "TOKEN_EXPIRED")
           \/ /\ wire # Foreign /\ ~IsExpired(grants[wire], clock)
              /\ IF InScope(grants[wire], request[h].tool, route[h].op)
                 THEN Goto(h, "gc_clock") /\ UNCHANGED reason
                 ELSE Deny(h, "TOKEN_INVALID")
    /\ verifiedAt' = [verifiedAt EXCEPT ![h] = clock]
    /\ UNCHANGED <<store, used, request, route, scan, history, outbound>>

\* _gc, called by mark_used.
ReadClock(h) ==
    /\ At(h, "gc_clock")
    /\ now' = [now EXCEPT ![h] = clock]
    /\ Goto(h, "gc_scan")
    /\ UNCHANGED <<store, used, request, route, verifiedAt, scanned, met, expired, reason,
                   history, outbound>>

BeginScan(h) ==
    /\ At(h, "gc_scan")
    /\ scanned' = [scanned EXCEPT ![h] = used]
    /\ Goto(h, "gc_scanning")
    /\ UNCHANGED <<store, used, request, route, verifiedAt, now, met, expired, reason,
                   history, outbound>>

\* Faulty variant: exp <= now, which verify still accepts.
ExpiredInclusive(keys, time) == {k \in keys : grants[k].expires <= time}

Expired(keys, time) == {k \in keys : grants[k].expires < time}

\* The iterator compares the size of the dict with what it was at each of its
\* steps, so it raises when the size differs at the end and perhaps when it has
\* differed meanwhile.  A scan that completes although keys came and went may
\* have met any of them, or not.  What it was about is forgotten with it.
EndScan(h) ==
    /\ At(h, "gc_scanning")
    /\ \/ /\ Cardinality(used) # Cardinality(scanned[h]) \/ met[h] # {}
          /\ Goto(h, "crash") /\ UNCHANGED expired
       \/ /\ Cardinality(used) = Cardinality(scanned[h])
          /\ \E found \in SUBSET (scanned[h] \cup met[h]) :
                /\ met[h] = {} => found = used
                /\ expired' = [expired EXCEPT ![h] = Expired(found, now[h])]
          /\ Goto(h, "gc_delete")
    /\ now' = [now EXCEPT ![h] = 0]
    /\ scanned' = [scanned EXCEPT ![h] = {}]
    /\ met' = [met EXCEPT ![h] = {}]
    /\ UNCHANGED <<store, used, request, route, verifiedAt, reason, history, outbound>>

\* What a change of the dict shows to the scans that are under way.
ScansMeet ==
    met' = [g \in Handlers |-> IF At(g, "gc_scanning") /\ used' # used
                               THEN met[g] \cup used' ELSE met[g]]

\* del raises KeyError for a key another thread has deleted.
Delete(h) ==
    /\ At(h, "gc_delete")
    /\ \E k \in expired[h] :
          /\ used' = used \ {k}
          /\ expired' = [expired EXCEPT ![h] = @ \ {k}]
          /\ IF k \in used THEN UNCHANGED pc ELSE Goto(h, "crash")
    /\ ScansMeet
    /\ UNCHANGED <<store, request, route, verifiedAt, now, scanned, reason, history,
                   outbound>>

GcDone(h) ==
    /\ At(h, "gc_delete")
    /\ expired[h] = {}
    /\ Goto(h, "test")
    /\ UNCHANGED <<store, used, request, route, verifiedAt, scan, reason, history,
                   outbound>>

\* The rest of mark_used: the membership test, then the insertion.
\* Faulty variant: the test is dropped.
NeverUsed(k) == FALSE

AlreadyUsed(k) == k \in used

Test(h) ==
    /\ At(h, "test")
    /\ IF AlreadyUsed(request[h].wire) THEN Deny(h, "TOKEN_ALREADY_USED")
       ELSE Goto(h, "insert") /\ UNCHANGED reason
    /\ UNCHANGED <<store, used, request, route, verifiedAt, scan, history, outbound>>

Insert(h) ==
    /\ At(h, "insert")
    /\ LET k == request[h].wire
       IN  /\ used' = used \cup {k}
           /\ allowed' = [allowed EXCEPT ![k] = @ + 1]
    /\ ScansMeet
    /\ reason' = [reason EXCEPT ![h] = "ALLOWED"]
    /\ Goto(h, "forward")
    /\ UNCHANGED <<store, request, route, verifiedAt, now, scanned, expired, presented,
                   reached, late, outbound>>

(***************************************************************************)
(* The rest of _handle.  The header with the token is taken off.           *)
(***************************************************************************)

\* A path or body it refuses (400, 413), or an upstream it cannot reach (502).
Refuse(h) ==
    /\ At(h, "forward")
    /\ Goto(h, "idle")
    /\ UNCHANGED <<store, used, request, route, verifiedAt, scan, reason, history,
                   outbound>>

\* urlopen sends the request to the upstream of the route.
Forward(h) ==
    /\ At(h, "forward")
    /\ target' = [target EXCEPT ![h] = request[h].tool]
    /\ LET k == request[h].wire IN reached' = [reached EXCEPT ![k] = @ + 1]
    /\ Goto(h, "upstream")
    /\ UNCHANGED <<store, used, request, route, verifiedAt, scan, redirects, reason,
                   presented, allowed, late>>

\* An answer that redirects: urlopen's opener sends the request on, to whatever
\* authority the answer names.
Redirect(h) ==
    /\ At(h, "upstream")
    /\ redirects[h] < MaxRedirections
    /\ redirects' = [redirects EXCEPT ![h] = @ + 1]
    /\ \E there \in Tools \cup {Elsewhere} : target' = [target EXCEPT ![h] = there]
    /\ UNCHANGED <<store, used, pc, request, route, verifiedAt, scan, reason, history>>

\* Any other answer, or none within the timeout (502), ends the request.
Answer(h) ==
    /\ At(h, "upstream")
    /\ target' = [target EXCEPT ![h] = None]
    /\ redirects' = [redirects EXCEPT ![h] = 0]
    /\ Goto(h, "idle")
    /\ UNCHANGED <<store, used, request, route, verifiedAt, scan, reason, history>>

\* An exception out of authorize_and_resolve ends the connection unanswered.
Crash(h) ==
    /\ At(h, "crash")
    /\ Goto(h, "idle")
    /\ UNCHANGED <<store, used, request, route, verifiedAt, scan, reason, history,
                   outbound>>

HandlerStep(h) ==
    \/ Present(h) \/ FindRoute(h) \/ Verify(h) \/ ReadClock(h) \/ BeginScan(h)
    \/ EndScan(h) \/ Delete(h) \/ GcDone(h) \/ Test(h) \/ Insert(h) \/ Refuse(h)
    \/ Forward(h) \/ Redirect(h) \/ Answer(h) \/ Crash(h)

Next == Issue \/ AddRoute \/ Tick \/ \E h \in Handlers : HandlerStep(h)

Spec == Init /\ [][Next]_vars

-----------------------------------------------------------------------------
(***************************************************************************)
(* Properties.                                                             *)
(***************************************************************************)

(***************************************************************************)
(* Types; every answer is one of the codes of network.py and tokens.py,    *)
(* and the store and the lists of _gc hold token_ids of this issuer only.  *)
(***************************************************************************)
TypeOK ==
    /\ clock \in 0 .. TimeBound
    /\ grants \in [Tokens -> Grant \cup {None}]
    /\ routes \in [Tools -> Route \cup {None}]
    /\ used \subseteq Tokens
    /\ pc \in [Handlers -> Pcs]
    /\ request \in [Handlers -> Request \cup {None}]
    /\ route \in [Handlers -> Route \cup {None}]
    /\ verifiedAt \in [Handlers -> Nat]
    /\ now \in [Handlers -> Nat]
    /\ scanned \in [Handlers -> SUBSET Tokens]
    /\ met \in [Handlers -> SUBSET Tokens]
    /\ expired \in [Handlers -> SUBSET Tokens]
    /\ target \in [Handlers -> Tools \cup {Elsewhere, None}]
    /\ redirects \in [Handlers -> 0 .. MaxRedirections]
    /\ reason \in [Handlers -> Reasons \cup {None}]
    /\ presented \in 0 .. UseBound
    /\ allowed \in [Tokens -> Nat]
    /\ reached \in [Tokens -> Nat]
    /\ late \in [Handlers -> BOOLEAN]

(***************************************************************************)
(* A token once allowed stays in the store while verify would still accept *)
(* it: _gc of any thread, however long suspended, working on however old a *)
(* list, forgets only tokens that have expired (tokens.py 207-223).        *)
(***************************************************************************)
RememberedWhileValid ==
    \A k \in Tokens :
        allowed[k] > 0 /\ ~IsExpired(grants[k], clock) => k \in used

(***************************************************************************)
(* A request that comes after its token has been allowed - a retry, a      *)
(* duplicate - is not allowed before the token has expired, whatever the   *)
(* other threads do (network.py 173-210).                                  *)
(***************************************************************************)
LaterRequestDenied ==
    \A h \in Handlers :
        At(h, "forward") /\ late[h] => IsExpired(grants[request[h].wire], clock)

(***************************************************************************)
(* What single use comes down to without a lock: within its life a token   *)
(* is allowed at most once for each thread that serves requests, however   *)
(* many requests those threads serve (network.py 173-210, tokens.py 207-   *)
(* 213).                                                                   *)
(***************************************************************************)
OnceForEachThread ==
    \A k \in Tokens :
        allowed[k] > Cardinality(Handlers) => IsExpired(grants[k], clock)

(***************************************************************************)
(* What the proxy itself sends goes to the upstream of a tool with a token *)
(* of this issuer for that tool and for the operation its route requires,  *)
(* verified within its life, and no more often than the token was allowed: *)
(* a request that is elsewhere, or there again, was redirected by an       *)
(* upstream (network.py 37-39, 173-327).                                   *)
(***************************************************************************)
ForwardedInScope ==
    /\ \A h \in Handlers : pc[h] \in {"forward", "upstream"} =>
          LET k == request[h].wire
          IN  /\ k \in Issued
              /\ InScope(grants[k], request[h].tool, route[h].op)
              /\ grants[k].expires - TTL <= verifiedAt[h]
              /\ verifiedAt[h] <= grants[k].expires
    /\ \A h \in Handlers :
          target[h] # None /\ redirects[h] = 0 =>
              /\ pc[h] = "upstream"
              /\ InScope(grants[request[h].wire], target[h], route[h].op)
    /\ \A k \in Tokens : reached[k] <= allowed[k]

(***************************************************************************)
(* tokens.py 63-64, network.py 22: a token is single-use.  Two requests    *)
(* that carry it and are under way together are both allowed.              *)
(***************************************************************************)
SingleUse == \A k \in Tokens : allowed[k] <= 1
=============================================================================
