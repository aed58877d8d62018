# ToolBoundary in TLA+

Models of ToolBoundary (`src/toolboundary`), the checks TLC makes of them and the
theorems TLAPS proves about them. Paths below are relative to the package,
`src/toolboundary/`, unless they start with `docs/` or `README`.

## 1. The system

ToolBoundary decides, inside an agent's process, whether a tool call may be made. There
is no scheduler and no server of its own except the optional proxy: every operation runs
on the thread of whoever calls it, and the objects (`Boundary`, limiter, token store,
provider) are shared by those threads. Only the in-memory rate limiter takes a lock.

| Component | Source | State | Operations |
|---|---|---|---|
| Tool permission, limits | `permissions.py`, `boundary.py` 74-103, 789-891 | none (frozen dataclasses) | `operation_allowed`, `_as_finite_number`, the checks of operation, mode, value, records |
| Boundary | `boundary.py` | `_kill_switch`, `autonomy`, `_permissions`, `valid_from/to`, fixed settings | `check`, `evaluate`, `check_and_authorize`, `engage/disengage_kill_switch`, `add_permission` |
| Rate limiter | `_rate_limiter.py` | a deque of time stamps per key, a lock | `check_and_record`, `current_count`, `reset` |
| Tokens | `tokens.py` | `_used`: token id to expiry | `issue`, `verify`, `mark_used` (with `_gc`), `is_used` |
| Network enforcer | `network.py` | `_routes`, one thread per connection | `authorize_and_resolve`, `add_route`, `_handle`, `start`, `stop` |
| Evidence lifecycle | `boundary.py` 456-715, `provider.py`, `evidence.py` | `consumed` of each `AuthorizationContext` | `authorize_call`, `record_execution` |
| Wrappers | `decorators.py`, `integrations/langchain.py`, `integrations/crewai.py` | none | authorize, dispatch, record around a tool |
| AgentKey provider | `integrations/agentkey.py` | `_pending_calls` | `authorize`, `record` |
| Audit trail | `audit.py` | sinks | `record`, sinks' `emit` |
| Redis backends | `redis_backend.py` | sorted set per key, key per token (in Redis) | the limiter's and the store's operations |
| Redaction | `_redact.py` | none | `redact_args` |
| Enums, exceptions, package | `enums.py`, `exceptions.py`, `__init__.py` | none | |

**Interaction.** A wrapper calls `authorize_call` (or `check`), which runs thirteen checks
in order, the eleventh of which takes slots of the rate limiter, and audits the decision;
with a provider it then freezes the call and asks the provider. The wrapper runs the tool
and, in a `finally` clause, calls `record_execution`, which sets `consumed`, audits and
tells the provider. `check_and_authorize` instead issues a token; the agent presents it to
the proxy, which verifies it, marks it used and makes one attempt upstream, following
whatever redirects come back. The host
changes settings of the boundary and routes of the proxy at any time, from other threads.

**What is hard.** A decision is a sequence of unsynchronised reads of settings that move.
The limiter reads its clock before it takes its lock. The token store tests, inserts,
scans and deletes without a lock, and throws entries away by a clock that is not the one
the token was verified with. Replicas that share a Redis stamp what they share with clocks
of their own, and an answer that is lost leaves its effect behind. Effects precede the step that fails: a slot taken before a
denial, an audit event before a refusal, a flag set before the evidence is built.

**What makes each part correct.** *Permissions*: adding a limit never widens what is
allowed; strict limits leave no form of argument that slips past. *Boundary*: a halt that
stands decides; slots are neither lost nor doubled; the first failing check decides.
*Limiter*: no more admissions in a window than the limit; no denial without cause.
*Tokens and proxy*: a token is honoured once, for its tool and operation, in its life.
*Redis backends*: the same two promises for any number of replicas, whatever is lost, late or
sent again. *Lifecycle*: no tool runs unallowed; each run leaves its evidence, once; observe
mode never blocks; temporary state is temporary. *Audit trail*: one sink's failure is its
own, a line is one event, and no sink holds the agent up for ever.

## 2. Modules

```
Policy <- PolicyCheck <- MCPolicyCheck            TokenGate <- MCTokenGate
   ^          ^-- PolicyCheck_proofs                 ^-- TokenGate_proofs
   |
   '-- Boundary <- MCBoundary                      GuardedCall <- MCGuardedCall
          ^-- Boundary_proofs                        ^-- GuardedCall_proofs

WindowLimit <.. SlidingWindow <- MCSlidingWindow   Permit <.. RedisStore <- MCRedisStore
   ^               ^-- SlidingWindow_proofs                      ^-- RedisStore_proofs
   '....... RedisWindow <- MCRedisWindow
               ^-- RedisWindow_proofs              AuditTrail <- MCAuditTrail
                                                     ^-- AuditTrail_proofs
```

A plain arrow is EXTENDS, a dotted one INSTANCE: the module on the right implements the one on
the left. An `MC` module gives the constants of its model small values; the theorems are in the
`_proofs` modules. A definition marked *Faulty variant* is a version of the next one with
a plausible mistake in it: with that version in place the properties named in
`PROJECT.json` ("mutants") fail, which shows they can.

The models meet at what each takes of the other. `Boundary` uses the limiter as one step that
takes a slot or not, which is what `WindowLimit` promises within one window. `TokenGate` has the
in-memory store inside; with the Redis store its `mark_used` is `RedisStore`, whose first step
is `verify`. `GuardedCall` takes any decision of `check()`, as `Boundary` decides, and an
audit record that always returns, as `AuditTrail` shows.

**Policy** is `permissions.py` and the checks of `boundary.py` that are functions of the
permission, the call and `strict_limits`. Every `raise` is an operator (`BelowMinimum`,
`InvalidRecords`, ...) and `PermissionChecks` lists them in the code's order, each with its
`reason_code`; `FirstFailure` is "the first to raise". Amounts are integers in quarters and
`Nearest` is the rounding of `float()`: near the model's amounts a float holds halves, so an
odd amount is one that no float holds (an int beyond 2^53, a Decimal). `Junk` is whatever
is no finite number. **PolicyCheck** runs one decision on one input.

**Boundary** is `check()`/`evaluate()` under concurrency. A step is one read of shared
state with the computation up to the next: `ReadKillFlag`, `ReadKillEnv`,
`CheckQuarantine`, `CheckGates` (period, environment and block list, of which only the clock
moves), `CheckPermission`, `CheckGlobalRate` (which looks the permission up again),
`CheckToolRate`, `RunHook`, `CheckApproval`, `CheckApprovalMode`, `Return` (which audits if the
call is a `check()`). `perm` and `ratePerm` are the two permissions a call works with. The
host's actions are the setters, assignment to `autonomy` and `os.environ`, and the passage
of the validity period. The rate limiter is one step
(it holds a lock) within one window, so no slot comes back. `held` is history: which
conditions have held without a break since the thread's call began. `returned` counts the
calls that returned with a slot of each key, `allowed` those that were allowed.

**SlidingWindow** is `_rate_limiter.py` with its clock: `ReadClock`, then, up to `MaxStall`
later, `LockedSection`, which prunes, compares and appends. `Reset` is `reset(key)` and
`reset()`. `admitted` is history: the stamp and the true time of every admission since the
last reset, with the limit it was asked with (a permission may be replaced, so calls of one
key have limits of their own). `Ceiling(k)`, the largest of them, is what bounds a window.
`current_count` changes nothing and is not an action.

**WindowLimit** is what a limiter promises, in three actions: admit where fewer than the limit
of *this* call were admitted within the last `Gap` (never with a limit of nought), forgive, tick.
Both limiters implement it with the history of their true admission times.

**RedisWindow** is the limiter of `redis_backend.py`: `ReadClock` stamps a call by the
replica's clock, `Execute` is the Lua script as one step of the server (prune, compare, add,
`EXPIRE`), `Answer` its reply; `Fail` is the `except` clause, before or after the script ran,
and `Resend` a Redis client that sends the command again of its own accord, which finds the
same member. A limit of nought is answered without Redis. `Tick` moves all clocks and lets keys expire. `CurrentCount` prunes; `Reset`
deletes one key or a batch of those that `reset()` found, so a `reset()` that fails half-way is
the batches it managed. What a call given up by its replica does later is a call of another client.

**TokenGate** is a token from `check_and_authorize` to the upstream. A handler goes through
`FindRoute`, `Verify`, the accesses of `mark_used` one by one (`ReadClock`, `BeginScan`,
`EndScan`, `Delete`, `Test`, `Insert`) and the rest of `_handle`: `Refuse` is a path, length or
encoding it turns down once the token is spent, or an upstream it cannot reach; `Forward` sends
the request to the upstream of the route; `Redirect` is an answer that `urlopen`, with its
default opener, follows to any authority it names, the same or another (`target` is where the
request is now); `Answer` ends it. `allowed` counts the uses of a token,
`reached` the requests the proxy sent for it of its own accord. A scan raises if it finds the dict of another
size, at its end or at a step in between (`met`: what the dict held meanwhile), as CPython's dict iterator
does; so do deleting a missing key and `compare_digest` on a signature that is not ASCII (`Fail`). Nobody
catches them: the connection ends unanswered (`Crash`). A thread may be switched between any
two of these steps: CPython from 3.9 on, which the package supports, gives no atomicity
to a test followed by an assignment, and a free-threaded build gives less. Signatures are
abstract: a wire form is an issued token, one this issuer did not sign, a malformed one or none.

**Permit** is what a store of single-use tokens promises: a token is live, is spent once or is
burned (marked, and nobody was told), and is anybody's once released, by its expiry or by an
operator who chose to fail open.

**RedisStore** is the store of `redis_backend.py` under `verify`: `Verify` and `ReadClock` read
the clock of the replica, each with a skew of its own, `ReadClock` works out the life of the mark,
`Execute` is `SET NX EX` on the server, then `Answer`, `Fail`, `Resend` or `Crash`.
A command whose client gave up may still arrive (`StrayArrives`). Times count down (what is left
of a token and of its mark), so the model is finite without a bound on time.

**GuardedCall** is the lifecycle: `BeginCall` (the local decision), `Freeze`,
`Consult`, `Dispatch`, `CheckConsumed`, `MarkConsumed`, `Send`. `MarkConsumed` raises if the
result cannot be digested or if `str()` of the error raises (`Unwritable`). A client that raises a
TypeError, perhaps after it has acted, is called a second time (`AsksAgain`, `SendsAgain`).
A host runs the tool of each context it was given, as the wrappers do. `RecordAgain` is a host that
calls `record_execution` with a context it has kept, from any thread and even while the
wrapper is recording; `DispatchAgain` one that runs the tool on it once more. `provider` and
`mode` are set by `__init__` and never change, so
one run has boundaries of every kind. `opened` is what the client has opened and `refused` the
TypeErrors it answered an `authorize(payload)` with; `unprovoked` is the records it has taken less the
TypeErrors it answered a `record(payload)` with; `together` the calls that two threads were recording at once. Decorator,
LangChain and CrewAI wrappers have this one shape.

**AuditTrail** is `record` and the sinks: `NextSink` takes the next entry of the list that
`add_sink` appends to meanwhile, `WriteEvent` and `CloseFile` are the block of `JSONLFileSink` with the
writes that reach the file in it, `Post` a webhook whose server may be silent, `Emit` any other sink.
A failure of a sink is caught (`Swallow`). `file` is the sequence of writes: a short event and
its newline leave the buffer as one, a long event comes before its newline. A write may be cut
short and the process die at any point, to start again on the file it left.

## 3. Runs

Deadlock checking is off: models stop when their bounds are
used up, and a program with no call in progress rests.

| Run | Instance | Shows |
|---|---|---|
| `PolicyCheck` | 72 permissions, 576 calls, both `strict_limits` | `TighteningNeverAllows`, `StrictLimitsLeaveNoHole` |
| `Boundary_decides` | 1 thread, 4 tools with every limit configured, 18 calls that fail one, two or no checks, every switch moved and a permission replaced by the host at every point | `HaltIsFinal`, `SteadySupervisionBinds`, `DecidesInDocumentedOrder` |
| `Boundary_slots` | 2 threads, 4 calls, 2 tools, global limit 2, tool limits 1 and 2, permissions replaced | `TypeOK`, `SlotAccounting`, `AllowedWithinLimit` |
| `SlidingWindow` | 2 threads, a key asked with limits 1 and 2 and one with 0 and 1, window 3, stall 1, 5 ticks, 3 admissions | `LimiterInv`, `WindowBound`, `DenialJustified`, `KeepsLimit` |
| `RedisWindow` | 2 clients, 2 keys asked with limits 0 and 2, window 5, seconds of 2 ticks (key life 6), skew 1, stall 1, a tick until the return, 1 repetition, 6 ticks, 3 calls that reach Redis, both `fail_closed` | `WindowInv`, `SlotsAccounted`, `KeepsLimit` |
| `TokenGate` | 2 handlers, 2 tokens, 2 tools, a route replaced, life 1, stall 1, 2 ticks, 3 requests, 1 redirection | `TypeOK`, `RememberedWhileValid`, `LaterRequestDenied`, `OnceForEachThread`, `ForwardedInScope` |
| `RedisStore` | 2 clients, 1 token of life 3, seconds of 2 ticks, skew 1, 1 repetition, 3 uses, no bound on time, both `fail_closed` | `StoreInv`, `SpendsAccounted`, `KeepsPermit`, `MarksFade` |
| `GuardedCall` | 2 threads, 2 calls, with and without a provider, both modes, tools that raise an error with or without a `str()`, contexts recorded again and run again once | `TypeOK`, `DispatchIsAuthorized`, `ObserveNeverBlocks`, `EvidenceUnlessUnwritable`, `OneRecordPerAuthorization`, `ClientCallsAccounted`, `PendingAccounted` |
| `AuditTrail` | 2 threads, 2 events of every length, a file and a webhook, another sink added, faults and crashes | `TypeOK`, `DeliveredUnlessFailed`, `LinesTornByConcurrentLong`, `RecordEnds` |

**Bounds.** `CallBound`, `UseBound`, `AdmitBound`, `ExtraBound`, `Retries` cap how many calls there
are, `MaxRedirections` (ten in `urllib`) how many redirects are followed, `TimeBound` the clock,
`MaxWait` (RedisWindow) how many ticks pass between a clock read and the return of its call; each is
named where it is declared. They are enough for what the
properties are about: two threads meet in every pair of steps; three calls exceed a limit of two
and two exceed a limit of one, and the fourth call of `Boundary_slots` uses both keys after that; five
ticks let a window of three and a stall pass, and a gap of two ticks is one that an admission can be
too early for; six ticks let a window of five pass under stall and skew, which leaves a gap of two, and a
key of life six expire; two keys let `reset()` fail half-way; a limit of nought beside another shows
that each call is held to its own; one redirection may go astray as well as return; a token of life one lives,
expires and is collected within two ticks; a third request lets two collections meet over a
token that a first one left behind; a life of three ticks in seconds of two is one that
truncation shortens. `Boundary_decides` has one thread and one call since
threads share only slots and settings, slots are the subject of the next run, and the host
moves the settings at every point; its properties are theorems for any number of them.
In `GuardedCall` a tool that raises stands for one that returns as well, since only whether a
result or an error can be written down makes a difference; `GuardedCall_evidence` has all four outcomes. `MaxStall`, `StallBound` and `MaxSkew` are
assumptions on the scheduler and on the clocks, used where stated: for every
value the theorems give the bound in terms of it. Symmetry is used where handlers, tokens,
threads, keys or calls are interchangeable model values and the properties do not tell them apart,
and in no run with a liveness property.

**Fairness.** Two runs have a liveness property. `MarksFade` (nothing deletes a mark; every
one has a life) assumes that time passes, `WF_vars(Tick)`, and nothing of any client.
`RecordEnds` assumes weak fairness of `RecordStep(t)` for each thread: a thread inside `record` is
scheduled and a webhook's timeout comes. Nobody need call `record` again, close a connection or
add a sink; servers may be silent for ever. Everywhere else the code promises no progress (threads are the
host's, handlers the operating system's, and no loop waits), so no fairness is assumed.

**How to read some of them.** Settings move during a call, so `DecidesInDocumentedOrder` knows
of each documented item whether it *stood* (would have failed at every moment of the call)
or was *absent* (at none): no item that stood is passed over, and no call is denied for an
item that was absent. Items about the permission are about the one the call looked up first, except the
call limits, which the code takes from a second look (`ratePerm`) that may find another.
`SlotAccounting` is an equality for each key: its slots are those of the calls that were held to a limit
of it, by the permission of that second look, and came past. `ForwardedInScope` is about what the proxy
sends of its own accord - to the tool of the request, in the scope of its route, once for each allowed
use; what an upstream's redirect leads to is open, as it is in the code. `ClientCallsAccounted` puts a
TypeError before every second call of the client. `EvidenceUnlessUnwritable`, `PendingAccounted`, `ClientCallsAccounted`,
`LinesTornByConcurrentLong` and
`OneRecordPerAuthorization` say exactly how far the promises below are kept. `WindowBound` bounds every window by the largest
limit of its key; `KeepsLimit` holds each admission to its own limit, so a lowered limit binds the calls
that come after it. `KeepsLimit` and
`KeepsPermit` are refinements: every behaviour of the detailed module is one of `WindowLimit` or
`Permit`. The gap they refine to is what the code can keep: the window, less the stall between
clock and lock, or less stall and skew and one tick between replicas; a token is released as soon as
the fastest clock takes it for expired, because from then on a replica's mark may be gone while
the slowest still accepts it.

### Where the code does not keep what it says

Each of these runs expects its property to fail; the counterexample is the finding.

| Run | Said at | What happens |
|---|---|---|
| `TokenGate_race` | tokens.py 63 | two handlers pass the test before either inserts: one token, two requests forwarded |
| `GuardedCall_evidence` | decorators.py 17 | a result `json.dumps` cannot sort or write, or an error whose `str()` raises: the tool ran, the context is consumed, nothing is recorded |
| `AuditTrail_lines` | audit.py 79 | an event longer than the file's buffer reaches the file in a write of its own, before its newline: two threads' events share a line (seen with Python itself for events of 20 000 bytes) |

Also met, without a run of their own:

- docs/API.md 135, 138: `autonomy` is read at the start (quarantine) and at the end (approval);
  moved from HUMAN_APPROVAL_REQUIRED to QUARANTINED in between, the call is allowed.
  `SteadySupervisionBinds` therefore asks for a level that stands.
- boundary.py 197: with the flag engaged after it was read and the variable cleared before
  it is read, the kill switch is engaged at every instant and the call goes on. `HaltIsFinal`
  therefore asks for one of the two to stand.
- boundary.py 200-203, docs/API.md 43: an `export` in a shell does not change the
  environment of a running process, so it halts none.
- exceptions.py 60: calls that a tool limit or a hook denies keep their global slot
  (`SlotAccounting` counts them), so the limit is reached with fewer actions performed.
- docs/API.md 80: a value just above `max_value` may be rounded to it by `float()` and
  allowed; `StrictLimitsLeaveNoHole` has that margin in it.
- _rate_limiter.py 34: a thread held up between clock and lock leaves an old stamp: more than
  `max_calls` within the window, by as much as the stall (`WindowBound`); and a stamp out of order hides
  behind the head of the deque, so a call may be denied for an entry that has left the window
  (`DenialJustified`).
- redis_backend.py 59-62: the script is indivisible, but the stamp is not the server's: replicas whose
  clocks differ exceed the limit at the edge of the window (`KeepsLimit` takes the skew off), and
  a call whose reply was lost keeps its slot though it was denied (`burned`).
- redis_backend.py 250-255: around the expiry of a token the mark of a fast replica may be gone
  while a slow replica still verifies it (`Fresh` in `SpendsAccounted`).
- redis_backend.py 44-45 says that the library will not fail open; `fail_closed=False` makes it.
- tokens.py 63: with one handler too, a token that expires between `verify` and `_gc` is
  forgotten by its own collection and allowed again (`SingleUse` fails with `Handlers = {h1}`
  and `StallBound = 1`). The in-memory store forgets all of them when its process ends.
- network.py 179: two collections that meet leave `authorize_and_resolve` by KeyError or
  RuntimeError, without a reason (`Crash`).
- network.py 37-39: a signature that is not ASCII ends the connection by a TypeError of `compare_digest`
  without the 403 promised there (`Fail`).
- network.py 20-27 and the comment at 312: `urlopen` follows 3xx answers with the forwarded headers, so a request may go to
  an authority that is no route's, or to an upstream whose token was never checked, or to
  the same one again, all for one token (`Redirect`; `ForwardedInScope` leaves these out).
- network.py 152-164: `start` while running loses the first server, which goes on listening after
  `stop`; handlers of open connections outlive `stop`.
- README.md 80, provider.py 124-125, docs/API.md 336: a consumed context is said not to be
  reusable for a second dispatch. The flag is set after the tool ran and looked at by
  `record_execution` only: the tool runs again (`DispatchAgain`) and its record is refused.
- boundary.py 636: `consumed` is tested and set in two steps, so two threads that record one
  context at once both record it (the last conjunct of `OneRecordPerAuthorization` fails
  without its premise).
- README.md 127, audit.py 7-8: a provider's refusal in enforce mode is not audited; the trail says
  ALLOW.
- agentkey.py 92: "short-lived" entries of calls denied in enforce mode stay in `_pending_calls` for
  ever (`PendingAccounted`), and so do those of contexts whose tool the host never runs, which are outside the model.
- agentkey.py 138-141, 227-231: a TypeError from within a client that has acted makes the provider
  call it again; the first authorization is an orphan, a record is taken twice (`ClientCallsAccounted`
  counts the TypeErrors).
- provider.py 40: an "immutable snapshot" holds the caller's own nested arguments.
- evidence.py 9: calls that differ share a digest when a key is 1 in one and "1" in the other, or a value
  a Decimal in one and its string in the other.
- permissions.py 31-33 says the access modes are not assumed to be a hierarchy, while
  `_check_access_mode` and docs/API.md 142 make them one.

## 4. Proofs

The theorems hold for all values of the constants that meet the module's `ASSUME`s, which
TLC evaluates in every run: finiteness of the sets that are counted, sentinels
that are no ordinary value, tables defined on the tools, limits and times that are naturals, a
skew no longer than the life of a token.

- **PolicyCheck_proofs.** `TighteningIsMonotone` and `StrictLimitsHold`, for all permissions and
  calls. Invariant: a decided verdict is `PermissionVerdict`. A verdict of `None` means
  that every check passes and conversely (from the existence of a least failing index), which turns the theorems into arithmetic on the limits.
- **Boundary_proofs.** `HaltDecides` and `SupervisionBinds`, for any threads, permissions, hooks
  and moves of the host. Neither is inductive: nothing in it speaks of a thread
  half-way. `DecisionInv` says of a thread past a read that the condition is no longer in `held`
  - it was absent when the thread read it, and `held` never grows during a call. One lemma
  covers the steps that leave a thread alone, one the reads, one the steps in the middle.
  `SlotsAreAccounted` and `AllowancesAreBounded` count: the slots of a key are those of the
  calls that returned with one and of the threads on their way (`SlotInv`), each step moves one thread
  from one of these sets to the other, and no key is taken past its limit.
  `FirstFailureDecides` is the order of the checks. `OrderInv` has, for a thread past a check, that no
  item up to it stands any more (`Clear`, by the stages `AfterKill` to `AfterRates`), and for a
  thread that returns that the first failure wins. `held` only shrinks during a call, so an item
  that is clear stays clear and one that is not absent stays so (`OrderShrinks`); each check is then
  one lemma: it answers with the outcome of its own item, which was not absent at that
  moment, or leaves it clear.
- **SlidingWindow_proofs.** `LimiterInv`: the deque of a key is the end of its history
  (`DequeIsSuffix`), what was pruned lies outside every window still to come
  (`DroppedAreOld`), a stamp lags its admission by at most `MaxStall` (`StampsAreRecent`), and
  admissions are in time order. From it `AdmissionsAreBounded`: a new admission finds fewer
  than the limit in the deque, so the one that many places back was pruned, hence is
  older than the window; the stall is the difference between stamp and admission.
  `DenialsAreJustified`, an action property: the entries kept are the last ones of the history,
  behind a head inside the window, each within the stall of it. `Implements` maps an admission
  to `Admit` by the first argument, made with the limit of the call, and every other step to `Forgive`, `Tick` or a stutter.
- **RedisWindow_proofs.** `WindowInv` is the same argument for a set: what is no longer in it was
  taken before every window still to come (`GoneAreOld`), whether it was pruned or its key expired
  (`KeysOutlive`: the life of a key, rounded up, is longer than the window). A new
  admission leaves fewer than the limit in the set; among the last limit-many of the history one
  is missing from it. `Implements` and `SlotsAreAccounted` follow, the latter by counting clients
  that hold a slot.
- **TokenGate_proofs.** `StoreRemembers` and `RepeatsAreDenied`, for any number of handlers,
  tokens and routes and any stall. `GateInv` adds to the properties that a request's token
  has been issued (`WiresKnown`), that the clock of a `_gc` is never ahead and what is left
  on its list has expired (`GcIsPast`) - so a stale list is harmless - and that a late
  request passes the test only with an expired token (`LateIsKnown`). `OnlyScopedIsForwarded` adds that
  a handler past `verify` holds a token in the scope of its own route (`ScopeKnown`), that a request
  no answer has redirected is where the proxy sent it, at the tool of its route (`SentWhereAsked`), and that what
  the proxy sent or is about to send is among the uses that were allowed (`UsesCounted`).
  `UsesAreBoundedByThreads` counts the requests that came before their token was allowed: nobody
  joins them afterwards (`EarlyCounted`) and each has a handler of its own. `SingleUseOneAtATime` is the
  converse of the finding: with one handler that loses no tick between `verify` and `_gc` a token is
  allowed once, since its own `_gc` then spares the token it is about (`OwnTokenSpared`).
- **RedisStore_proofs.** `StoreInv`: a mark, a command in flight and a stray carry more life
  than the token has left by the fastest clock (`MarksOutlive`: truncation takes less than the
  second that is added), so the mark of a fresh token stands once made and one client at most is
  told so (`OneIsTold`). From it `SpendsAreAccounted` and, step by step, `Implements`.
- **GuardedCall_proofs.** All seven properties of its run, from `LifecycleInv`: which thread has
  which call in hand (`Authority`), that records come from one thread or from threads that were
  `together` (`OneRecords`), what is still to be counted (`Counted`), and that evidence is under way
  (`Evidence`). `WritableResultsLeaveEvidence`: when tools return what can be written down the
  documented promise is kept, so the finding of `GuardedCall_evidence` needs such a result or error.
  `ClientIsAccounted` counts a second call of the client as the thread's that saw the TypeError
  (`AskedByOne`, `SendsCounted`).
- **AuditTrail_proofs.** `EverySinkIsServed` and `LinesAreTornByLongEventsOnly`, for any threads,
  events and sinks. `TrailInv` adds to the properties that an event is recorded once, by one thread
  (`RecordedOnce`), that where a thread is tells the kind of its sink (`Placed`), that each sink
  a thread has done with has the event or failed on it (`DeliversInTurn` - `add_sink` only appends,
  so the places behind a thread stay what they were), and that a line which has not ended was left by
  a fault or is about to be ended by a thread still in `record` (`OpenLinesAccounted`), so
  what is added to it meanwhile was recorded at the same time. A step at a sink is first
  reduced to one of seven outcomes (`Emissions`). `ShortEventsHaveLines`: without events as long as the
  buffer and without faults the documented promise is kept, which is the converse of the finding.

Every safety property that a passing run checks is a theorem. Only model-checked, since liveness is
out of the prover's reach: `MarksFade` and `RecordEnds`.

## 5. Plan

Done, in this order: Policy, Boundary, SlidingWindow, TokenGate, GuardedCall; then RedisWindow and
RedisStore with the abstract WindowLimit and Permit, AuditTrail, GuardedCall with hosts that use a
context again and clients that are called again, and the proofs above. What is left:

1. **AtomicDecision**: a decision taken at one instant, refined by `Boundary` when the host
   leaves the settings alone during a call. Two settings that move in one call refine to no
   instant, which is why the present properties speak of conditions that stand.
2. Start, stop and restart of the enforcer, with the in-memory store lost on the way.
3. The digest as a binding of arguments that the host may change under it.

## 6. Not modelled

HMAC, JSON, Base64 and UUIDs (taken to be what they are for); the joining of a request path
to the upstream base and header filtering (string functions without state); log wording;
redaction (a mapping over names, without state); argument binding by `inspect`; the construction of
framework tool classes, and the async variants of the wrappers, which take the same steps;
`start`/`stop` of the proxy; the fields of an audit event; the inside of Redis, of the network
and of the AgentKey client, which appear as what may become of a call to them.
