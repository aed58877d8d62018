----------------------------- MODULE GuardedCall -----------------------------
(***************************************************************************)
(* A tool call from authorization to evidence: authorize_call and          *)
(* record_execution of boundary.py, the wrappers that put them round a     *)
(* tool (decorators.py, integrations/langchain.py and crewai.py), and the  *)
(* AgentKeyProvider they consult.                                          *)
(*                                                                         *)
(* The local decision is that of Boundary.check (module Boundary) and is   *)
(* here any decision; that check audits it is left to that module.  Between*)
(* two reads of what threads share - the consumed flag of an               *)
(* AuthorizationContext, the provider's pending calls - and two calls of   *)
(* the provider's client a thread's work is one step.  A sink that fails   *)
(* does not make audit.record fail (module AuditTrail), so an event is     *)
(* always recorded.  A host runs the tool of each context that             *)
(* authorize_call gave it, as the wrappers do.                             *)
(***************************************************************************)
EXTENDS Integers, FiniteSets

CONSTANTS
    Threads,      \* threads that call guarded tools
    Auths,        \* identities of calls, each authorized once: its decision_id,
                  \*   AuthorizationContext, attempt_id and event_id
    Providers,    \* whether the Boundary is given a provider: one or both
    Modes,        \* the provider_mode it is given: one or both
    Results,      \* what tools may do, among Outcomes
    ExtraBound,   \* how often a host runs the tool again on a context it kept
    None

OBSERVE == "observe"
ENFORCE == "enforce"

\* What a tool does: it returns a result json can write down with sorted keys,
\* or one it cannot (keys of mixed types, a cycle), or it raises an exception
\* that has a str(), or one whose str() raises.
Unwritable == {"UNWRITABLE_RESULT", "UNWRITABLE_ERROR"}
Outcomes == {"RESULT", "ERROR"} \cup Unwritable

\* Where a thread is; the client is called a second time at the two "again".
Pcs == {"idle", "freeze", "consult", "consult_again", "dispatch", "record", "mark",
        "send", "send_again"}

\* What comes out of the calls of the Boundary: what check() raises, three
\* exceptions of its own, and whatever a digest or str() raised inside.
Raises == {"LOCAL_DENIAL", "UNWRITABLE_ARGUMENTS", "PROVIDER_UNAVAILABLE",
           "PROVIDER_DENIED", "AUTHORIZATION_CONSUMED"} \cup Unwritable

ASSUME GuardedCallAssumption ==
    /\ Providers \subseteq BOOLEAN
    /\ Modes \subseteq {OBSERVE, ENFORCE}
    /\ Results \subseteq Outcomes
    /\ IsFiniteSet(Threads)
    /\ ExtraBound \in Nat
    /\ None \notin Auths \cup Outcomes \cup Raises \cup {"ALLOW", "DENY", "UNAVAILABLE"}

VARIABLES
    provider,    \* whether _provider is not None; set once, by __init__
    mode,        \* _provider_mode; set once, by __init__
    pc,          \* where each thread is
    auth,        \* the call it is making, or made last
    raised,      \* what the Boundary raised out of that call, or None
    result,      \* what the tool did whose run it is recording, or None
    contexts,    \* calls for which authorize_call returned its context
    results,     \* what the runs of the tool of each call did
    local,       \* the decision of check() on each call
    grant,       \* the provider's answer to each call
    consumed,    \* authorizations whose consumed flag is set
    pending,     \* keys of AgentKeyProvider._pending_calls
    opened,      \* authorizations of each call that the client has opened
    refused,     \* history: TypeErrors the client answered authorize(payload) with
    dispatched,  \* history: times the tool of each call ran
    extra,       \* history: times a host ran it again on a context it kept
    recorded,    \* audit events of its executions
    unprovoked,  \* history: records of its executions that the client has taken, less
                 \*   the TypeErrors it answered record(payload) with
    together     \* history: calls that threads were recording at the same time

config == <<provider, mode>>
decisions == <<local, grant, opened, refused>>
tally == <<dispatched, extra, recorded, unprovoked>>
vars == <<config, pc, auth, raised, result, contexts, results, decisions, consumed,
          pending, tally, together>>

-----------------------------------------------------------------------------

Zero == [a \in Auths |-> 0]

Init ==
    /\ provider \in Providers
    /\ mode \in Modes
    /\ pc = [t \in Threads |-> "idle"]
    /\ auth = [t \in Threads |-> None]
    /\ raised = [t \in Threads |-> None]
    /\ result = [t \in Threads |-> None]
    /\ contexts = {}
    /\ results = [a \in Auths |-> {}]
    /\ local = [a \in Auths |-> None]
    /\ grant = [a \in Auths |-> None]
    /\ opened = Zero /\ refused = Zero
    /\ consumed = {}
    /\ pending = {}
    /\ dispatched = Zero /\ extra = Zero /\ recorded = Zero
    /\ unprovoked = Zero
    /\ together = {}

At(t, label) == pc[t] = label
Goto(t, label) == pc' = [pc EXCEPT ![t] = label] /\ UNCHANGED raised
Finish(t) == Goto(t, "idle")
Raise(t, what) == pc' = [pc EXCEPT ![t] = "idle"] /\ raised' = [raised EXCEPT ![t] = what]

\* A wrapper whose boundary has no provider goes from check() straight on to
\* the tool; authorize_call goes on to freeze the call.
BeginCall(t) ==
    /\ At(t, "idle")
    /\ \E a \in Auths, decision \in {"ALLOW", "DENY"} :
          /\ local[a] = None
          /\ local' = [local EXCEPT ![a] = decision]
          /\ auth' = [auth EXCEPT ![t] = a]
          /\ \/ decision = "DENY" /\ Raise(t, "LOCAL_DENIAL")
             \/ \E label \in {"freeze"} \cup (IF provider THEN {} ELSE {"dispatch"}) :
                /\ decision = "ALLOW"
                /\ pc' = [pc EXCEPT ![t] = label]
                /\ raised' = [raised EXCEPT ![t] = None]
    /\ UNCHANGED <<config, result, contexts, results, grant, opened, refused,
                   consumed, pending, tally>>

\* freeze_with_digest: the digest of arguments json cannot write down raises.
\* Without a provider there is no more to ask.
Freeze(t) ==
    /\ At(t, "freeze")
    /\ \/ Raise(t, "UNWRITABLE_ARGUMENTS") /\ UNCHANGED contexts
       \/ provider /\ Goto(t, "consult") /\ UNCHANGED contexts
       \/ ~provider /\ Goto(t, "dispatch") /\ contexts' = contexts \cup {auth[t]}
    /\ UNCHANGED <<config, auth, result, results, decisions, consumed, pending, tally>>

\* authorize and record call the client with the payload; on a TypeError, which
\* may come out of a client that has acted, they call it with keywords, once.
\* Faulty variant: on any exception.
AsksAgainOnError(t, answer) == answer \in {"ERROR", "TYPE_ERROR"} /\ At(t, "consult")

AsksAgain(t, answer) == answer = "TYPE_ERROR" /\ At(t, "consult")
SendsAgain(t, answer) == answer = "TYPE_ERROR" /\ At(t, "send")

\* One if the client has answered the first of t's calls with a TypeError.
Provoked(t, first, answer) == IF At(t, first) /\ answer = "TYPE_ERROR" THEN 1 ELSE 0

\* A call is left pending under its attempt_id and its event_id.
\* Faulty variant: a grant without an event id is kept under None.
PendingKeysUnnamed(a) == {<<a, "attempt">>, <<None, "event">>}

PendingKeys(a) == {<<a, "attempt">>, <<a, "event">>}

\* Faulty variants: the mode is not looked at; only an explicit denial counts.
LetsIfAllowed(answer) == answer = "ALLOW"
LetsUnlessDenied(answer) == answer # "DENY" \/ mode = OBSERVE

Lets(answer) == answer = "ALLOW" \/ mode = OBSERVE

\* The provider has answered, or raised.
Granted(t, answer) ==
    /\ grant' = [grant EXCEPT ![auth[t]] = answer]
    /\ pending' = IF answer = "UNAVAILABLE" THEN pending
                  ELSE pending \cup PendingKeys(auth[t])
    /\ \/ /\ Lets(answer)
          /\ contexts' = contexts \cup {auth[t]}
          /\ Goto(t, "dispatch")
       \/ /\ ~Lets(answer)
          /\ UNCHANGED contexts
          /\ Raise(t, IF answer = "DENY" THEN "PROVIDER_DENIED" ELSE "PROVIDER_UNAVAILABLE")

\* provider.authorize: a client that raises may have opened an authorization.
Consult(t) ==
    /\ pc[t] \in {"consult", "consult_again"}
    /\ \E answer \in {"ALLOW", "DENY", "ERROR", "TYPE_ERROR"}, acts \in {0, 1} :
          /\ answer \in {"ALLOW", "DENY"} => acts = 1
          /\ opened' = [opened EXCEPT ![auth[t]] = @ + acts]
          /\ refused' = [refused EXCEPT ![auth[t]] = @ + Provoked(t, "consult", answer)]
          /\ IF AsksAgain(t, answer)
             THEN Goto(t, "consult_again") /\ UNCHANGED <<contexts, grant, pending>>
             ELSE Granted(t, IF answer \in {"ALLOW", "DENY"} THEN answer ELSE "UNAVAILABLE")
    /\ UNCHANGED <<config, auth, result, results, local, consumed, tally>>

\* The finally clause of the wrapped function calls record_execution.
\* Faulty variant: no finally clause, so a tool that raises leaves no record.
RecordsUnlessError(t, outcome) == auth[t] \in contexts /\ outcome # "ERROR"

Records(t, outcome) == auth[t] \in contexts

\* The tool runs.
Dispatch(t) ==
    /\ At(t, "dispatch")
    /\ \E outcome \in Results :
          /\ results' = [results EXCEPT ![auth[t]] = @ \cup {outcome}]
          /\ IF Records(t, outcome)
             THEN Goto(t, "record") /\ result' = [result EXCEPT ![t] = outcome]
             ELSE Finish(t) /\ UNCHANGED result
    /\ dispatched' = [dispatched EXCEPT ![auth[t]] = @ + 1]
    /\ UNCHANGED <<config, auth, contexts, decisions, consumed, pending, extra, recorded,
                   unprovoked>>

\* record_execution: reads the flag, then sets it and goes on.
\* Faulty variant: the flag is set and never looked at.
SeesNothing(a) == FALSE

SeesConsumed(a) == a \in consumed

CheckConsumed(t) ==
    /\ At(t, "record")
    /\ IF SeesConsumed(auth[t])
       THEN Raise(t, "AUTHORIZATION_CONSUMED") /\ result' = [result EXCEPT ![t] = None]
       ELSE Goto(t, "mark") /\ UNCHANGED result
    /\ UNCHANGED <<config, auth, contexts, results, decisions, consumed, pending, tally>>

\* build_execution_record raises when it cannot digest the result or when str()
\* of the error raises; otherwise the execution is audited, and sent to the
\* provider if it gave a grant.
MarkConsumed(t) ==
    /\ At(t, "mark")
    /\ consumed' = consumed \cup {auth[t]}
    /\ result' = [result EXCEPT ![t] = None]
    /\ IF result[t] \in Unwritable
       THEN Raise(t, result[t]) /\ UNCHANGED recorded
       ELSE /\ recorded' = [recorded EXCEPT ![auth[t]] = @ + 1]
            /\ Goto(t, IF provider /\ grant[auth[t]] # None THEN "send" ELSE "idle")
    /\ UNCHANGED <<config, auth, contexts, results, decisions, pending, dispatched, extra,
                   unprovoked>>

\* What AgentKeyProvider.record forgets before it tells the client.
\* Faulty variant: the entry under the event id is left behind.
ForgetsAttempt(a) == {<<a, "attempt">>}

Forgets(a) == PendingKeys(a)

\* The client may fail before or after it has taken the record; nothing is
\* raised, but a TypeError has the record sent once more.
Send(t) ==
    /\ pc[t] \in {"send", "send_again"}
    /\ pending' = pending \ Forgets(auth[t])
    /\ \E answer \in {"RECEIPT", "ERROR", "TYPE_ERROR"}, acts \in {0, 1} :
          /\ answer = "RECEIPT" => acts = 1
          /\ unprovoked' =
                [unprovoked EXCEPT ![auth[t]] = @ + acts - Provoked(t, "send", answer)]
          /\ IF SendsAgain(t, answer) THEN Goto(t, "send_again") ELSE Finish(t)
    /\ UNCHANGED <<config, auth, result, contexts, results, decisions, consumed, dispatched,
                   extra, recorded>>

\* The host calls record_execution itself, with the context and the result of
\* a call whose tool has run, while its wrapper records it or afterwards.
RecordAgain(t) ==
    /\ At(t, "idle")
    /\ \E a \in contexts : \E outcome \in results[a] :
          /\ auth' = [auth EXCEPT ![t] = a]
          /\ result' = [result EXCEPT ![t] = outcome]
    /\ pc' = [pc EXCEPT ![t] = "record"]
    /\ raised' = [raised EXCEPT ![t] = None]
    /\ UNCHANGED <<config, contexts, results, decisions, consumed, pending, tally>>

\* The host runs the tool once more on a context it has kept, and records that
\* run; the flag is looked at by record_execution only.
DispatchAgain(t) ==
    /\ At(t, "idle")
    /\ \E a \in contexts :
          /\ extra[a] < ExtraBound
          /\ extra' = [extra EXCEPT ![a] = @ + 1]
          /\ auth' = [auth EXCEPT ![t] = a]
    /\ pc' = [pc EXCEPT ![t] = "dispatch"]
    /\ raised' = [raised EXCEPT ![t] = None]
    /\ UNCHANGED <<config, result, contexts, results, decisions, consumed, pending,
                   dispatched, recorded, unprovoked>>

ThreadStep(t) ==
    \/ BeginCall(t) \/ Freeze(t) \/ Consult(t) \/ Dispatch(t) \/ CheckConsumed(t)
    \/ MarkConsumed(t) \/ Send(t) \/ RecordAgain(t) \/ DispatchAgain(t)

Recording(t, a) == auth[t] = a /\ pc[t] \in {"record", "mark"}

Observe ==
    together' = together \cup
        {a \in Auths : \E t, u \in Threads : t # u /\ Recording(t, a)' /\ Recording(u, a)'}

Next == (\E t \in Threads : ThreadStep(t)) /\ Observe

Spec == Init /\ [][Next]_vars

-----------------------------------------------------------------------------
(***************************************************************************)
(* Properties.                                                             *)
(***************************************************************************)

(***************************************************************************)
(* Types; the provider's pending calls name calls of this agent only       *)
(* (agentkey.py 160-162).                                                  *)
(***************************************************************************)
TypeOK ==
    /\ provider \in BOOLEAN
    /\ mode \in {OBSERVE, ENFORCE}
    /\ pc \in [Threads -> Pcs]
    /\ auth \in [Threads -> Auths \cup {None}]
    /\ raised \in [Threads -> Raises \cup {None}]
    /\ result \in [Threads -> Outcomes \cup {None}]
    /\ contexts \subseteq Auths
    /\ results \in [Auths -> SUBSET Outcomes]
    /\ local \in [Auths -> {"ALLOW", "DENY", None}]
    /\ grant \in [Auths -> {"ALLOW", "DENY", "UNAVAILABLE", None}]
    /\ consumed \subseteq Auths
    /\ pending \subseteq Auths \X {"attempt", "event"}
    /\ opened \in [Auths -> Nat]
    /\ refused \in [Auths -> Nat]
    /\ dispatched \in [Auths -> Nat]
    /\ extra \in [Auths -> Nat]
    /\ recorded \in [Auths -> Nat]
    /\ unprovoked \in [Auths -> Int]
    /\ together \subseteq Auths

\* Some thread is at work on the call a.
InProgress(a) == \E u \in Threads : auth[u] = a /\ ~At(u, "idle")

\* What a run of the tool of a did could not be written down.
LeftUnwritten(a) == \E outcome \in Unwritable : outcome \in results[a]

\* t has returned from the call a, or raised out of it.
Over(t, a) == At(t, "idle") /\ auth[t] = a

(***************************************************************************)
(* The core invariant (provider.py 11-13): no tool runs that check() did   *)
(* not allow, whatever the provider says; in enforce mode none that the    *)
(* provider did not allow too; and a tool runs once for each call, and     *)
(* once more only for each time that a host used the context again.        *)
(***************************************************************************)
DispatchIsAuthorized ==
    \A a \in Auths : dispatched[a] > 0 =>
        /\ dispatched[a] <= 1 + extra[a]
        /\ local[a] = "ALLOW"
        /\ provider /\ mode = ENFORCE => grant[a] = "ALLOW"

(***************************************************************************)
(* In observe mode neither a denial nor an absent provider keeps a locally *)
(* allowed call from its tool (provider.py 28-29).                         *)
(***************************************************************************)
ObserveNeverBlocks ==
    mode = OBSERVE =>
        \A t \in Threads, a \in Auths :
            Over(t, a) /\ local[a] = "ALLOW" /\ raised[t] # "UNWRITABLE_ARGUMENTS" =>
                dispatched[a] > 0

(***************************************************************************)
(* A call that is over has left a record in the local trail, if what its   *)
(* tool returned or raised can be written down and whether or not the      *)
(* provider took the evidence (decorators.py 18, provider.py 169-170).  A  *)
(* run on a context used again leaves none: its record is refused, after   *)
(* the tool ran.                                                           *)
(***************************************************************************)
EvidenceUnlessUnwritable ==
    \A a \in contexts :
        ~InProgress(a) /\ ~LeftUnwritten(a) =>
            recorded[a] + extra[a] >= dispatched[a] /\ recorded[a] > 0

(***************************************************************************)
(* An authorization is recorded at most once, however often the host hands *)
(* it to record_execution or runs the tool on it (boundary.py 635-637,     *)
(* 662-667), unless two threads record it at the same time: both may then  *)
(* find the flag clear, and each leaves a record.                          *)
(***************************************************************************)
OneRecordPerAuthorization ==
    \A a \in Auths :
        /\ recorded[a] <= Cardinality(Threads)
        /\ a \notin together => recorded[a] <= 1

(***************************************************************************)
(* What the client has been made to do (agentkey.py 138-141, 228-231): it  *)
(* opens one authorization of a call, and a second only for a TypeError    *)
(* that it answered the first request with; of an execution in the local   *)
(* trail it takes one record, and one more for each such TypeError, so no  *)
(* other exception leads to a second call.  And unless the provider was    *)
(* unavailable, it has opened an authorization of each call that was let   *)
(* run.                                                                    *)
(***************************************************************************)
ClientCallsAccounted ==
    \A a \in Auths :
        /\ opened[a] <= 1 + refused[a] /\ refused[a] <= 1
        /\ unprovoked[a] <= recorded[a]
        /\ provider /\ dispatched[a] > 0 /\ grant[a] # "UNAVAILABLE" => opened[a] > 0

(***************************************************************************)
(* The pending calls of AgentKeyProvider are accounted for: each is in     *)
(* progress, or was denied by the provider in enforce mode, or what its    *)
(* tool did could not be written down (agentkey.py 160-162, 195-201).      *)
(* Those two are never removed; nor is a call whose tool the host never    *)
(* runs, which no behaviour here has.                                      *)
(***************************************************************************)
PendingAccounted ==
    \A entry \in pending :
        LET a == entry[1]
        IN  \/ InProgress(a)
            \/ mode = ENFORCE /\ grant[a] = "DENY"
            \/ LeftUnwritten(a)

-----------------------------------------------------------------------------
(***************************************************************************)
(* What the documentation says and the code does not keep.                 *)
(***************************************************************************)

(***************************************************************************)
(* decorators.py 18 and provider.py 169-170, without the exception: a call *)
(* that was dispatched has left its record when it is over.                *)
(***************************************************************************)
EvidenceOfEachDispatch ==
    \A a \in contexts : ~InProgress(a) => recorded[a] + extra[a] >= dispatched[a]
=============================================================================
