-------------------------- MODULE GuardedCall_proofs --------------------------
(***************************************************************************)
(* Theorems about GuardedCall, for any threads, calls, providers, modes,   *)
(* outcomes of tools and number of times a host uses a context again.      *)
(***************************************************************************)
EXTENDS GuardedCall, FiniteSetTheorems, TLAPS

-----------------------------------------------------------------------------
(***************************************************************************)
(* Types.                                                                  *)
(***************************************************************************)

\* A thread that is not idle has a call.
Busy == \A t \in Threads : pc[t] # "idle" => auth[t] \in Auths

Types == TypeOK /\ Busy

LEMMA InitTypes == Init => Types
BY GuardedCallAssumption DEF Init, Types, TypeOK, Busy, Zero, Pcs, OBSERVE, ENFORCE

LEMMA NextTypes == Types /\ [Next]_vars => Types'
<1> SUFFICES ASSUME Types, [Next]_vars PROVE Types'
    OBVIOUS
<1> USE DEF Types, TypeOK, Busy, Pcs, Outcomes, Unwritable, Raises, At, Goto, Finish, Raise,
        config, decisions, tally
<1>1. ASSUME UNCHANGED vars PROVE Types'
    BY <1>1 DEF vars
<1>2. ASSUME NEW t \in Threads, ThreadStep(t), Observe PROVE Types'
  <2>0. (together \subseteq Auths)'
      BY <1>2 DEF Observe
  <2>1. CASE BeginCall(t)
      BY <2>0, <2>1 DEF BeginCall
  <2>2. CASE Freeze(t)
      BY <2>0, <2>2 DEF Freeze
  <2>3. CASE Consult(t)
    <3>1. auth[t] \in Auths
        BY <2>3 DEF Consult
    <3>2. PICK answer \in {"ALLOW", "DENY", "ERROR", "TYPE_ERROR"} : \E acts \in {0, 1} :
            /\ opened' = [opened EXCEPT ![auth[t]] = @ + acts]
            /\ refused' = [refused EXCEPT ![auth[t]] = @ + Provoked(t, "consult", answer)]
            /\ IF AsksAgain(t, answer)
               THEN Goto(t, "consult_again") /\ UNCHANGED <<contexts, grant, pending>>
               ELSE Granted(t, IF answer \in {"ALLOW", "DENY"} THEN answer
                               ELSE "UNAVAILABLE")
        BY <2>3 DEF Consult
    <3>3. opened' \in [Auths -> Nat] /\ refused' \in [Auths -> Nat]
        BY <3>1, <3>2 DEF Provoked
    <3>4. CASE AsksAgain(t, answer)
        BY <2>0, <2>3, <3>1, <3>2, <3>3, <3>4 DEF Consult
    <3>5. CASE ~AsksAgain(t, answer)
      <4>1. PICK a \in {"ALLOW", "DENY", "UNAVAILABLE"} : Granted(t, a)
          BY <3>2, <3>5
      <4>2. /\ grant' \in [Auths -> {"ALLOW", "DENY", "UNAVAILABLE", None}]
            /\ pending' \subseteq Auths \X {"attempt", "event"}
            /\ contexts' \subseteq Auths
            /\ pc' \in [Threads -> Pcs]
            /\ raised' \in [Threads -> Raises \cup {None}]
          BY <3>1, <4>1 DEF Granted, PendingKeys
      <4>3. \A u \in Threads : pc'[u] # "idle" => pc[u] # "idle"
          BY <2>3, <4>1 DEF Granted, Consult
      <4>4. QED
          BY <2>0, <2>3, <3>3, <4>2, <4>3 DEF Consult
    <3>6. QED
        BY <3>4, <3>5
  <2>4. CASE Dispatch(t)
    <3>1. PICK outcome \in Results :
            /\ results' = [results EXCEPT ![auth[t]] = @ \cup {outcome}]
            /\ IF Records(t, outcome)
               THEN Goto(t, "record") /\ result' = [result EXCEPT ![t] = outcome]
               ELSE Finish(t) /\ UNCHANGED result
        BY <2>4 DEF Dispatch
    <3>7. outcome \in Outcomes
        BY GuardedCallAssumption
    <3>2. /\ auth[t] \in Auths
          /\ dispatched' = [dispatched EXCEPT ![auth[t]] = @ + 1]
          /\ UNCHANGED <<config, auth, contexts, decisions, consumed, pending, extra,
                         recorded, unprovoked>>
        BY <2>4 DEF Dispatch
    <3>3. /\ results' \in [Auths -> SUBSET Outcomes]
          /\ dispatched' \in [Auths -> Nat]
        BY <3>1, <3>2, <3>7
    <3>4. /\ pc' \in [Threads -> Pcs] /\ result' \in [Threads -> Outcomes \cup {None}]
          /\ UNCHANGED raised
        BY <3>1, <3>7
    <3>5. \A u \in Threads : pc'[u] # "idle" => pc[u] # "idle"
        BY <2>4, <3>1 DEF Dispatch
    <3>6. QED
        BY <2>0, <3>2, <3>3, <3>4, <3>5
  <2>5. CASE CheckConsumed(t)
      BY <2>0, <2>5 DEF CheckConsumed
  <2>6. CASE MarkConsumed(t)
    <3>1. /\ auth[t] \in Auths
          /\ UNCHANGED <<config, auth, contexts, results, decisions, pending,
                         dispatched, extra, unprovoked>>
          /\ consumed' = consumed \cup {auth[t]}
          /\ result' = [result EXCEPT ![t] = None]
        BY <2>6 DEF MarkConsumed
    <3>2. /\ recorded' \in [Auths -> Nat]
          /\ pc' \in [Threads -> Pcs]
          /\ raised' \in [Threads -> Raises \cup {None}]
          /\ \A u \in Threads : pc'[u] # "idle" => pc[u] # "idle"
        BY <2>6, <3>1 DEF MarkConsumed
    <3>3. QED
        BY <2>0, <3>1, <3>2
  <2>7. CASE Send(t)
    <3>1. /\ auth[t] \in Auths
          /\ unprovoked' \in [Auths -> Int]
          /\ pending' \subseteq pending
          /\ pc' \in [Threads -> Pcs]
          /\ UNCHANGED raised
          /\ \A u \in Threads : pc'[u] # "idle" => pc[u] # "idle"
        BY <2>7 DEF Send, SendsAgain, Provoked
    <3>2. QED
        BY <2>0, <2>7, <3>1 DEF Send
  <2>8. CASE RecordAgain(t)
      BY <2>0, <2>8 DEF RecordAgain
  <2>9. CASE DispatchAgain(t)
      BY <2>0, <2>9 DEF DispatchAgain
  <2>10. QED
      BY <1>2, <2>1, <2>2, <2>3, <2>4, <2>5, <2>6, <2>7, <2>8, <2>9 DEF ThreadStep
<1>3. QED
    BY <1>1, <1>2 DEF Next

(***************************************************************************)
(* Type correctness of the lifecycle; a thread that is not idle has a call *)
(* (boundary.py 456-715, agentkey.py 101-266).                             *)
(***************************************************************************)
THEOREM TypeCorrect == Spec => []TypeOK
<1>1. Spec => []Types
    BY InitTypes, NextTypes, PTL DEF Spec
<1>2. Types => TypeOK
    BY DEF Types
<1>3. QED
    BY <1>1, <1>2, PTL
-----------------------------------------------------------------------------
(***************************************************************************)
(* Authority: what has happened to a call when a thread is at each step.   *)
(***************************************************************************)

Asking == {"freeze", "consult", "consult_again"}

Untouched(a) ==
    /\ dispatched[a] = 0 /\ extra[a] = 0 /\ recorded[a] = 0
    /\ a \notin contexts /\ a \notin consumed
    /\ grant[a] = None /\ results[a] = {}

Authorized(a) ==
    /\ local[a] = "ALLOW"
    /\ provider => grant[a] \in {"ALLOW", "DENY", "UNAVAILABLE"} /\ Lets(grant[a])

\* Nobody has had a call on which there is no decision yet.
NewCalls ==
    \A a \in Auths : local[a] = None =>
        /\ Untouched(a) /\ opened[a] = 0 /\ refused[a] = 0
        /\ \A u \in Threads : auth[u] # a

\* A call that is being authorized is in the hands of one thread.
AskedByOne ==
    \A t \in Threads : pc[t] \in Asking =>
        /\ local[auth[t]] = "ALLOW" /\ Untouched(auth[t])
        /\ \A u \in Threads : u # t => auth[u] # auth[t]
        /\ pc[t] \in {"freeze", "consult"} => opened[auth[t]] = 0 /\ refused[auth[t]] = 0
        /\ pc[t] = "consult_again" => opened[auth[t]] <= 1 /\ refused[auth[t]] = 1
        /\ pc[t] # "freeze" => provider

ThreadsAuthorized ==
    \A t \in Threads :
        /\ pc[t] = "dispatch" =>
              Authorized(auth[t]) /\ (auth[t] \in contexts \/ ~provider)
        /\ pc[t] \in {"record", "mark"} =>
              auth[t] \in contexts /\ dispatched[auth[t]] > 0
        /\ pc[t] \in {"send", "send_again"} => recorded[auth[t]] > 0 /\ provider

CallsAuthorized ==
    \A a \in Auths :
        /\ a \in contexts => Authorized(a)
        /\ dispatched[a] > 0 => Authorized(a)
        /\ results[a] # {} => dispatched[a] > 0
        /\ recorded[a] > 0 => dispatched[a] > 0

ClientAsked ==
    \A a \in Auths :
        /\ opened[a] <= 1 + refused[a] /\ refused[a] <= 1
        /\ grant[a] \in {"ALLOW", "DENY"} => opened[a] > 0

Authority ==
    /\ NewCalls
    /\ AskedByOne
    /\ ThreadsAuthorized
    /\ CallsAuthorized
    /\ ClientAsked
    /\ ObserveNeverBlocks

LEMMA InitAuthority == Init => Authority
BY GuardedCallAssumption DEF Init, Authority, NewCalls, AskedByOne, ThreadsAuthorized,
   CallsAuthorized, ClientAsked, ObserveNeverBlocks, Untouched, Asking, Zero, Over, At

\* The client is asked for a call that it has opened once at most; asked again,
\* it has answered the first request with a TypeError.
LEMMA ConsultedOnce ==
    ASSUME Types, AskedByOne, NEW t \in Threads, pc[t] \in {"consult", "consult_again"}
    PROVE  /\ auth[t] \in Auths
           /\ opened[auth[t]] \in {0, 1}
           /\ pc[t] = "consult" => opened[auth[t]] = 0 /\ refused[auth[t]] = 0
           /\ pc[t] = "consult_again" => refused[auth[t]] = 1
<1>1. auth[t] \in Auths
    BY DEF Types, Busy
<1>2. opened[auth[t]] \in Nat
    BY <1>1 DEF Types, TypeOK
<1>3. /\ pc[t] = "consult" => opened[auth[t]] = 0 /\ refused[auth[t]] = 0
      /\ pc[t] = "consult_again" => opened[auth[t]] <= 1 /\ refused[auth[t]] = 1
    BY DEF AskedByOne, Asking
<1>4. QED
    BY <1>1, <1>2, <1>3

LEMMA AuthorityStep ==
    ASSUME Types, Authority, NEW t \in Threads, ThreadStep(t) PROVE Authority'
<1> USE GuardedCallAssumption
<1> USE DEF Types, TypeOK, Busy, Pcs, Outcomes, At, Goto, Finish, Raise, config, decisions,
        tally, Authority, NewCalls, AskedByOne, ThreadsAuthorized, CallsAuthorized,
        ClientAsked, Untouched, Authorized, Asking, Lets, OBSERVE, ENFORCE,
        ObserveNeverBlocks, Over
<1>1. CASE BeginCall(t)
  <2> PICK a \in Auths, decision \in {"ALLOW", "DENY"} :
          /\ local[a] = None
          /\ local' = [local EXCEPT ![a] = decision]
          /\ auth' = [auth EXCEPT ![t] = a]
          /\ \/ decision = "DENY" /\ Raise(t, "LOCAL_DENIAL")
             \/ \E label \in {"freeze"} \cup (IF provider THEN {} ELSE {"dispatch"}) :
                /\ decision = "ALLOW"
                /\ pc' = [pc EXCEPT ![t] = label]
                /\ raised' = [raised EXCEPT ![t] = None]
      BY <1>1 DEF BeginCall
  <2>0. /\ pc[t] = "idle"
        /\ UNCHANGED <<provider, mode, result, contexts, results, grant, opened,
                       refused, consumed, pending, dispatched, extra, recorded,
                       unprovoked>>
      BY <1>1 DEF BeginCall
  <2>1. NewCalls'
      BY <2>0
  <2>2. AskedByOne'
      BY <2>0
  <2>3. ThreadsAuthorized'
      BY <2>0
  <2>4. CallsAuthorized'
      BY <2>0
  <2>5. ClientAsked'
      BY <2>0
  <2>6. ObserveNeverBlocks'
      BY <2>0
  <2>7. QED
      BY <2>1, <2>2, <2>3, <2>4, <2>5, <2>6
<1>2. CASE Freeze(t)
  <2>1. NewCalls'
      BY <1>2 DEF Freeze
  <2>2. AskedByOne'
      BY <1>2 DEF Freeze
  <2>3. ThreadsAuthorized'
      BY <1>2 DEF Freeze
  <2>4. CallsAuthorized'
      BY <1>2 DEF Freeze
  <2>5. ClientAsked'
      BY <1>2 DEF Freeze
  <2>6. ObserveNeverBlocks'
      BY <1>2 DEF Freeze
  <2>7. QED
      BY <2>1, <2>2, <2>3, <2>4, <2>5, <2>6
<1>3. CASE Consult(t)
  <2> DEFINE b == auth[t]
  <2>0. /\ pc[t] \in {"consult", "consult_again"}
        /\ UNCHANGED <<provider, mode, auth, result, results, local, consumed,
                       dispatched, extra, recorded, unprovoked>>
      BY <1>3 DEF Consult
  <2> PICK answer \in {"ALLOW", "DENY", "ERROR", "TYPE_ERROR"}, acts \in {0, 1} :
            /\ answer \in {"ALLOW", "DENY"} => acts = 1
            /\ opened' = [opened EXCEPT ![auth[t]] = @ + acts]
            /\ refused' = [refused EXCEPT ![auth[t]] = @ + Provoked(t, "consult", answer)]
            /\ IF AsksAgain(t, answer)
               THEN Goto(t, "consult_again") /\ UNCHANGED <<contexts, grant, pending>>
               ELSE Granted(t, IF answer \in {"ALLOW", "DENY"} THEN answer
                               ELSE "UNAVAILABLE")
      BY <1>3 DEF Consult
  <2>1. /\ b \in Auths /\ opened[b] \in {0, 1}
        /\ pc[t] = "consult" => opened[b] = 0 /\ refused[b] = 0
        /\ pc[t] = "consult_again" => refused[b] = 1
    <3> HIDE DEF Types, NewCalls, ThreadsAuthorized, CallsAuthorized, ClientAsked,
             ObserveNeverBlocks, AskedByOne
    <3>1. QED
        BY <2>0, ConsultedOnce DEF Authority
  <2>2. /\ opened'[b] = opened[b] + acts
        /\ pc[t] = "consult_again" => refused'[b] = 1
        /\ AsksAgain(t, answer) => refused'[b] = 1
        /\ refused'[b] \in {0, 1}
        /\ \A a \in Auths : a # b => opened'[a] = opened[a] /\ refused'[a] = refused[a]
      BY <2>0, <2>1 DEF Provoked, AsksAgain
  <2>3. CASE AsksAgain(t, answer)
    <3>0. pc[t] = "consult" /\ UNCHANGED <<contexts, grant, pending, raised>>
          /\ pc' = [pc EXCEPT ![t] = "consult_again"]
        BY <2>0, <2>3 DEF AsksAgain
    <3>1. NewCalls'
      <4>1. ASSUME NEW a \in Auths, local[a] = None
            PROVE  /\ Untouched(a)' /\ opened'[a] = 0 /\ refused'[a] = 0
                   /\ \A u \in Threads : auth'[u] # a
        <5>1. Untouched(a) /\ opened[a] = 0 /\ refused[a] = 0 /\ \A u \in Threads : auth[u] # a
            BY <4>1
        <5>2. a # b
            BY <5>1
        <5>3. QED
            BY <2>0, <2>2, <3>0, <5>1, <5>2
      <4>2. QED
          BY <2>0, <4>1
    <3>2. AskedByOne'
      <4>1. opened'[b] <= 1 /\ refused'[b] = 1
          BY <2>1, <2>2, <2>3, <3>0
      <4>2. \A u \in Threads : u # t /\ pc[u] \in Asking => auth[u] \in Auths /\ auth[u] # b
          BY <2>0
      <4>3. QED
          BY <2>0, <2>2, <3>0, <4>1, <4>2
    <3>3. ThreadsAuthorized' /\ CallsAuthorized'
        BY <2>0, <2>1, <2>2, <3>0
    <3>5. ClientAsked'
        BY <2>0, <2>1, <2>2, <3>0
    <3>6. ObserveNeverBlocks'
        BY <2>0, <2>1, <2>2, <3>0
    <3>7. QED
        BY <3>1, <3>2, <3>3, <3>5, <3>6
  <2>4. CASE ~AsksAgain(t, answer)
    <3>0. PICK g \in {"ALLOW", "DENY", "UNAVAILABLE"} :
            /\ g # "UNAVAILABLE" => acts = 1
            /\ grant' = [grant EXCEPT ![b] = g]
            /\ \/ Lets(g) /\ contexts' = contexts \cup {b} /\ UNCHANGED raised
                  /\ pc' = [pc EXCEPT ![t] = "dispatch"]
               \/ ~Lets(g) /\ UNCHANGED contexts /\ pc' = [pc EXCEPT ![t] = "idle"]
                  /\ raised' = [raised EXCEPT ![t] = IF g = "DENY" THEN "PROVIDER_DENIED"
                                                     ELSE "PROVIDER_UNAVAILABLE"]
        BY <2>4 DEF Granted
    <3>1. NewCalls'
        BY <2>0, <2>1, <2>2, <3>0
    <3>2. AskedByOne'
        BY <2>0, <2>1, <2>2, <3>0
    <3>3. ThreadsAuthorized'
        BY <2>0, <2>1, <2>2, <3>0
    <3>4. CallsAuthorized'
        BY <2>0, <2>1, <2>2, <3>0
    <3>5. ClientAsked'
        BY <2>0, <2>1, <2>2, <3>0
    <3>6. ObserveNeverBlocks'
        BY <2>0, <2>1, <2>2, <3>0
    <3>7. QED
        BY <3>1, <3>2, <3>3, <3>4, <3>5, <3>6
  <2>5. QED
      BY <2>3, <2>4
<1>4. CASE Dispatch(t)
  <2> DEFINE b == auth[t]
  <2>0. /\ pc[t] = "dispatch" /\ b \in Auths /\ Authorized(b)
        /\ dispatched' = [dispatched EXCEPT ![b] = @ + 1]
        /\ UNCHANGED <<provider, mode, auth, contexts, local, grant, opened, refused,
                       consumed, pending, extra, recorded, unprovoked>>
      BY <1>4 DEF Dispatch
  <2> PICK outcome \in Results :
            /\ results' = [results EXCEPT ![auth[t]] = @ \cup {outcome}]
            /\ IF Records(t, outcome)
               THEN Goto(t, "record") /\ result' = [result EXCEPT ![t] = outcome]
               ELSE Finish(t) /\ UNCHANGED result
      BY <1>4 DEF Dispatch
  <2>1. /\ \/ b \in contexts /\ pc' = [pc EXCEPT ![t] = "record"]
           \/ b \notin contexts /\ pc' = [pc EXCEPT ![t] = "idle"]
        /\ UNCHANGED raised
        /\ \A a \in Auths : a # b => results'[a] = results[a]
      BY DEF Records
  <2>2. /\ dispatched'[b] > 0
        /\ \A a \in Auths : a # b => dispatched'[a] = dispatched[a]
        /\ \A a \in Auths : dispatched[a] > 0 => dispatched'[a] > 0
      BY <2>0
  <2>3. NewCalls'
      BY <2>0, <2>1, <2>2
  <2>4. AskedByOne'
      BY <2>0, <2>1, <2>2
  <2>5. ThreadsAuthorized'
      BY <2>0, <2>1, <2>2
  <2>6. CallsAuthorized'
      BY <2>0, <2>1, <2>2
  <2>7. ClientAsked'
      BY <2>0
  <2>8. ObserveNeverBlocks'
      BY <2>0, <2>1, <2>2
  <2>9. QED
      BY <2>3, <2>4, <2>5, <2>6, <2>7, <2>8
<1>5. CASE CheckConsumed(t)
  <2>0. /\ pc[t] = "record"
        /\ UNCHANGED <<provider, mode, auth, contexts, results, local, grant, opened,
                       refused, consumed, pending, dispatched, extra, recorded,
                       unprovoked>>
        /\ \/ pc' = [pc EXCEPT ![t] = "mark"] /\ UNCHANGED raised
           \/ pc' = [pc EXCEPT ![t] = "idle"]
              /\ raised' = [raised EXCEPT ![t] = "AUTHORIZATION_CONSUMED"]
      BY <1>5 DEF CheckConsumed
  <2>1. NewCalls' /\ AskedByOne' /\ CallsAuthorized' /\ ClientAsked'
      BY <2>0
  <2>2. ThreadsAuthorized'
      BY <2>0
  <2>3. ObserveNeverBlocks'
      BY <2>0
  <2>4. QED
      BY <2>1, <2>2, <2>3
<1>6. CASE MarkConsumed(t)
  <2> DEFINE b == auth[t]
  <2>0. /\ pc[t] = "mark" /\ b \in Auths /\ b \in contexts /\ dispatched[b] > 0
        /\ consumed' = consumed \cup {b}
        /\ UNCHANGED <<provider, mode, auth, contexts, results, local, grant, opened,
                       refused, pending, dispatched, extra, unprovoked>>
        /\ \/ /\ pc' = [pc EXCEPT ![t] = "idle"] /\ UNCHANGED recorded
              /\ \E what \in Unwritable : raised' = [raised EXCEPT ![t] = what]
           \/ /\ recorded' = [recorded EXCEPT ![b] = @ + 1] /\ UNCHANGED raised
              /\ \/ provider /\ pc' = [pc EXCEPT ![t] = "send"]
                 \/ pc' = [pc EXCEPT ![t] = "idle"]
      BY <1>6 DEF MarkConsumed
  <2>1. /\ \A a \in Auths : a # b => recorded'[a] = recorded[a]
        /\ \A a \in Auths : recorded[a] > 0 => recorded'[a] > 0
      BY <2>0
  <2>2. NewCalls'
      BY <2>0, <2>1
  <2>3. AskedByOne'
      BY <2>0, <2>1
  <2>4. ThreadsAuthorized'
      BY <2>0, <2>1
  <2>5. CallsAuthorized'
      BY <2>0, <2>1
  <2>6. ClientAsked'
      BY <2>0
  <2>7. ObserveNeverBlocks'
      BY <2>0
  <2>8. QED
      BY <2>2, <2>3, <2>4, <2>5, <2>6, <2>7
<1>7. CASE Send(t)
  <2> DEFINE b == auth[t]
  <2>0. /\ pc[t] \in {"send", "send_again"} /\ b \in Auths /\ recorded[b] > 0
        /\ UNCHANGED <<provider, mode, auth, contexts, results, local, grant, opened,
                       refused, consumed, dispatched, extra, recorded, raised>>
        /\ \E label \in {"idle", "send_again"} : pc' = [pc EXCEPT ![t] = label]
      BY <1>7 DEF Send
  <2>1. NewCalls' /\ AskedByOne'
      BY <2>0
  <2>2. ThreadsAuthorized' /\ CallsAuthorized' /\ ClientAsked'
      BY <2>0
  <2>3. ObserveNeverBlocks'
      BY <2>0
  <2>4. QED
      BY <2>1, <2>2, <2>3
<1>8. CASE RecordAgain(t)
  <2>0. /\ pc[t] = "idle"
        /\ pc' = [pc EXCEPT ![t] = "record"]
        /\ raised' = [raised EXCEPT ![t] = None]
        /\ UNCHANGED <<provider, mode, contexts, results, local, grant, opened, refused,
                       consumed, dispatched, extra, recorded, unprovoked>>
      BY <1>8 DEF RecordAgain
  <2>1. PICK a \in contexts : results[a] # {} /\ auth' = [auth EXCEPT ![t] = a]
      BY <1>8 DEF RecordAgain
  <2>2. NewCalls' /\ AskedByOne'
      BY <2>0, <2>1
  <2>3. ThreadsAuthorized' /\ CallsAuthorized' /\ ClientAsked'
      BY <2>0, <2>1
  <2>4. ObserveNeverBlocks'
      BY <2>0, <2>1
  <2>5. QED
      BY <2>2, <2>3, <2>4
<1>9. CASE DispatchAgain(t)
  <2>0. /\ pc[t] = "idle"
        /\ pc' = [pc EXCEPT ![t] = "dispatch"]
        /\ raised' = [raised EXCEPT ![t] = None]
        /\ UNCHANGED <<provider, mode, contexts, results, local, grant, opened, refused,
                       consumed, dispatched, recorded, unprovoked>>
      BY <1>9 DEF DispatchAgain
  <2>1. PICK a \in contexts : extra' = [extra EXCEPT ![a] = @ + 1]
                              /\ auth' = [auth EXCEPT ![t] = a]
      BY <1>9 DEF DispatchAgain
  <2>2. NewCalls' /\ AskedByOne'
      BY <2>0, <2>1
  <2>3. ThreadsAuthorized' /\ CallsAuthorized' /\ ClientAsked'
      BY <2>0, <2>1
  <2>4. ObserveNeverBlocks'
      BY <2>0, <2>1
  <2>5. QED
      BY <2>2, <2>3, <2>4
<1>10. QED
    BY <1>1, <1>2, <1>3, <1>4, <1>5, <1>6, <1>7, <1>8, <1>9 DEF ThreadStep

LEMMA AuthorityUnchanged == Authority /\ UNCHANGED vars => Authority'
BY DEF vars, config, decisions, tally, Authority, NewCalls, AskedByOne, ThreadsAuthorized,
   CallsAuthorized, ClientAsked, Untouched, Authorized, Lets, ObserveNeverBlocks, Over, At

-----------------------------------------------------------------------------
(***************************************************************************)
(* Consumption: a record is left by whoever finds the flag clear.          *)
(***************************************************************************)

OneRecords ==
    /\ \A a \in Auths :
          /\ a \notin consumed => recorded[a] = 0
          /\ a \notin together => recorded[a] <= 1
    /\ \A t \in Threads : pc[t] = "mark" /\ auth[t] \notin together => recorded[auth[t]] = 0
    /\ \A t, u \in Threads, a \in Auths :
          t # u /\ Recording(t, a) /\ Recording(u, a) => a \in together

LEMMA OneRecordsStep ==
    ASSUME Types, Types', Authority, OneRecords, NEW t \in Threads, ThreadStep(t), Observe
    PROVE  OneRecords'
<1> USE DEF Types, TypeOK, Busy, At, Goto, Finish, Raise, config, decisions, tally, OneRecords
<1> DEFINE b == auth[t]
<1>1. together \subseteq together'
    BY DEF Observe
<1>2. (\A u, v \in Threads, a \in Auths :
          u # v /\ Recording(u, a) /\ Recording(v, a) => a \in together)'
    BY DEF Observe, Recording
<1>3. CASE MarkConsumed(t)
  <2>1. /\ pc[t] = "mark" /\ b \in Auths
        /\ consumed' = consumed \cup {b}
        /\ UNCHANGED auth
        /\ recorded' \in {recorded, [recorded EXCEPT ![b] = @ + 1]}
        /\ \A u \in Threads : pc'[u] = "mark" => u # t /\ pc[u] = "mark"
      BY <1>3 DEF MarkConsumed
  <2>2. \A a \in Auths : a # b => recorded'[a] = recorded[a]
      BY <2>1
  <2>3. b \notin together => recorded'[b] <= 1
      BY <2>1
  <2>4. \A u \in Threads : pc'[u] = "mark" /\ auth[u] = b => b \in together
      BY <2>1 DEF Recording
  <2>5. QED
      BY <1>1, <1>2, <2>1, <2>2, <2>3, <2>4
<1>4. CASE CheckConsumed(t)
  <2>1. /\ UNCHANGED <<auth, consumed, recorded>>
        /\ pc'[t] = "mark" => recorded[b] = 0
        /\ \A u \in Threads : u # t => pc'[u] = pc[u]
        /\ b \in Auths
      BY <1>4 DEF CheckConsumed, SeesConsumed
  <2>2. QED
      BY <1>1, <1>2, <2>1
<1>5. CASE ~MarkConsumed(t) /\ ~CheckConsumed(t)
  <2>1. UNCHANGED <<consumed, recorded>>
      BY <1>5 DEF ThreadStep, BeginCall, Freeze, Consult, Dispatch, Send, RecordAgain,
         DispatchAgain
  <2>2. \A u \in Threads : pc'[u] = "mark" => pc[u] = "mark" /\ auth'[u] = auth[u]
    <3>1. CASE BeginCall(t)
        BY <3>1 DEF BeginCall
    <3>2. CASE Freeze(t)
        BY <3>2 DEF Freeze
    <3>3. CASE Consult(t)
        BY <3>3 DEF Consult, Granted
    <3>4. CASE Dispatch(t)
        BY <3>4 DEF Dispatch
    <3>5. CASE Send(t)
        BY <3>5 DEF Send
    <3>6. CASE RecordAgain(t)
        BY <3>6 DEF RecordAgain
    <3>7. CASE DispatchAgain(t)
        BY <3>7 DEF DispatchAgain
    <3>8. QED
        BY <1>5, <3>1, <3>2, <3>3, <3>4, <3>5, <3>6, <3>7 DEF ThreadStep
  <2>3. QED
      BY <1>1, <1>2, <2>1, <2>2
<1>6. QED
    BY <1>3, <1>4, <1>5

-----------------------------------------------------------------------------
(***************************************************************************)
(* Counting the threads at a step.                                         *)
(***************************************************************************)

LEMMA CountOf ==
    ASSUME NEW S \in SUBSET Threads
    PROVE  IsFiniteSet(S) /\ Cardinality(S) \in Nat /\ Cardinality(S) <= Cardinality(Threads)
BY GuardedCallAssumption, FS_Subset, FS_CardinalityType

LEMMA CountShrinks ==
    ASSUME NEW S \in SUBSET Threads, NEW R, R \subseteq S
    PROVE  Cardinality(R) <= Cardinality(S)
BY CountOf, FS_Subset

LEMMA CountLosesOne ==
    ASSUME NEW S \in SUBSET Threads, NEW t \in S, NEW R, R \subseteq S \ {t}
    PROVE  Cardinality(R) + 1 <= Cardinality(S)
<1>1. IsFiniteSet(S) /\ Cardinality(S \ {t}) = Cardinality(S) - 1
    BY CountOf, FS_RemoveElement
<1>2. Cardinality(R) <= Cardinality(S \ {t})
    BY CountShrinks
<1>3. Cardinality(R) \in Nat /\ Cardinality(S) \in Nat
    BY CountOf
<1>4. QED
    BY <1>1, <1>2, <1>3

LEMMA CountGainsOne ==
    ASSUME NEW S \in SUBSET Threads, NEW t \in Threads, NEW R, R \subseteq S \cup {t}
    PROVE  Cardinality(R) <= Cardinality(S) + 1
<1>1. IsFiniteSet(S) /\ Cardinality(S \cup {t}) <= Cardinality(S) + 1
    BY CountOf, FS_AddElement
<1>2. Cardinality(R) <= Cardinality(S \cup {t})
    BY CountShrinks
<1>3. Cardinality(R) \in Nat /\ Cardinality(S) \in Nat /\ Cardinality(S \cup {t}) \in Nat
    BY CountOf
<1>4. QED
    BY <1>1, <1>2, <1>3

Ready(a) == {u \in Threads : auth[u] = a /\ pc[u] \in Asking \cup {"dispatch"}}
Marking(a) == {u \in Threads : auth[u] = a /\ pc[u] = "mark"}
Sending(a) == {u \in Threads : auth[u] = a /\ pc[u] = "send"}
SendingAgain(a) == {u \in Threads : auth[u] = a /\ pc[u] = "send_again"}

\* A run, a record and what the client is told of it are each some thread's to make.
DispatchesCounted ==
    \A a \in Auths : dispatched[a] + Cardinality(Ready(a)) <= 1 + extra[a]
RecordsCounted ==
    \A a \in Auths : recorded[a] + Cardinality(Marking(a)) <= Cardinality(Threads)
SendsCounted ==
    \A a \in Auths :
        unprovoked[a] + Cardinality(Sending(a)) + Cardinality(SendingAgain(a)) <= recorded[a]

Counted == DispatchesCounted /\ RecordsCounted /\ SendsCounted

LEMMA CountsAreNaturals ==
    \A a \in Auths :
        /\ {Cardinality(Ready(a)), Cardinality(Marking(a)), Cardinality(Sending(a)),
            Cardinality(SendingAgain(a)), Cardinality(Threads)} \subseteq Nat
        /\ {Cardinality(Ready(a)'), Cardinality(Marking(a)'), Cardinality(Sending(a)'),
            Cardinality(SendingAgain(a)')} \subseteq Nat
BY CountOf DEF Ready, Marking, Sending, SendingAgain

LEMMA DispatchesStep ==
    ASSUME Types, Types', Authority, DispatchesCounted, NEW t \in Threads, ThreadStep(t)
    PROVE  DispatchesCounted'
<1> USE DEF Types, TypeOK, Busy, At, Goto, Finish, Raise, config, decisions, tally, Asking
<1> SUFFICES ASSUME NEW a \in Auths
             PROVE  dispatched'[a] + Cardinality(Ready(a)') <= 1 + extra'[a]
    BY DEF DispatchesCounted
<1>0. /\ dispatched[a] + Cardinality(Ready(a)) <= 1 + extra[a]
      /\ Cardinality(Ready(a)) \in Nat /\ Cardinality(Ready(a)') \in Nat
      /\ dispatched[a] \in Nat /\ extra[a] \in Nat
      /\ Ready(a) \in SUBSET Threads /\ Ready(a)' \in SUBSET Threads
    BY CountsAreNaturals DEF DispatchesCounted, Ready
<1>1. CASE BeginCall(t)
  <2>1. PICK c \in Auths : local[c] = None /\ auth' = [auth EXCEPT ![t] = c]
      BY <1>1 DEF BeginCall
  <2>2. dispatched' = dispatched /\ extra' = extra /\ pc[t] = "idle"
        /\ \A u \in Threads : u # t => pc'[u] = pc[u]
      BY <1>1 DEF BeginCall
  <2>3. CASE a = c
    <3>1. dispatched[a] = 0 /\ \A u \in Threads : auth[u] # a
        BY <2>1, <2>3 DEF Authority, NewCalls, Untouched
    <3>2. Ready(a)' \subseteq {} \cup {t}
        BY <2>1, <2>2, <3>1 DEF Ready
    <3>3. Cardinality(Ready(a)') <= Cardinality({}) + 1
        BY <3>2, CountGainsOne
    <3>4. QED
        BY <1>0, <2>2, <3>1, <3>3, FS_EmptySet
  <2>4. CASE a # c
    <3>1. Ready(a)' \subseteq Ready(a)
        BY <2>1, <2>2, <2>4 DEF Ready
    <3>2. Cardinality(Ready(a)') <= Cardinality(Ready(a))
        BY <1>0, <3>1, CountShrinks
    <3>3. QED
        BY <1>0, <2>2, <3>2
  <2>5. QED
      BY <2>3, <2>4
<1>2. CASE Dispatch(t)
  <2>1. /\ extra' = extra /\ auth' = auth /\ pc[t] = "dispatch" /\ auth[t] \in Auths
        /\ dispatched' = [dispatched EXCEPT ![auth[t]] = @ + 1]
        /\ pc'[t] \in {"record", "idle"}
        /\ \A u \in Threads : u # t => pc'[u] = pc[u]
      BY <1>2 DEF Dispatch
  <2>2. CASE a = auth[t]
    <3>1. t \in Ready(a) /\ Ready(a)' \subseteq Ready(a) \ {t}
        BY <2>1, <2>2 DEF Ready
    <3>2. Cardinality(Ready(a)') + 1 <= Cardinality(Ready(a))
        BY <1>0, <3>1, CountLosesOne
    <3>3. dispatched'[a] = dispatched[a] + 1 /\ extra'[a] = extra[a]
        BY <2>1, <2>2
    <3>4. QED
        BY <1>0, <3>2, <3>3
  <2>3. CASE a # auth[t]
    <3>1. Ready(a)' \subseteq Ready(a)
        BY <2>1, <2>3 DEF Ready
    <3>2. Cardinality(Ready(a)') <= Cardinality(Ready(a))
        BY <1>0, <3>1, CountShrinks
    <3>3. dispatched'[a] = dispatched[a] /\ extra'[a] = extra[a]
        BY <2>1, <2>3
    <3>4. QED
        BY <1>0, <3>2, <3>3
  <2>4. QED
      BY <2>2, <2>3
<1>3. CASE DispatchAgain(t)
  <2>1. PICK c \in Auths : /\ extra' = [extra EXCEPT ![c] = @ + 1]
                           /\ auth' = [auth EXCEPT ![t] = c]
      BY <1>3 DEF DispatchAgain
  <2>2. dispatched' = dispatched /\ pc[t] = "idle"
        /\ \A u \in Threads : u # t => pc'[u] = pc[u]
      BY <1>3 DEF DispatchAgain
  <2>3. CASE a = c
    <3>1. Ready(a)' \subseteq Ready(a) \cup {t}
        BY <2>1, <2>2 DEF Ready
    <3>2. Cardinality(Ready(a)') <= Cardinality(Ready(a)) + 1
        BY <1>0, <3>1, CountGainsOne
    <3>3. extra'[a] = extra[a] + 1
        BY <2>1, <2>3
    <3>4. QED
        BY <1>0, <2>2, <3>2, <3>3
  <2>4. CASE a # c
    <3>1. Ready(a)' \subseteq Ready(a)
        BY <2>1, <2>2, <2>4 DEF Ready
    <3>2. Cardinality(Ready(a)') <= Cardinality(Ready(a))
        BY <1>0, <3>1, CountShrinks
    <3>3. extra'[a] = extra[a]
        BY <2>1, <2>4
    <3>4. QED
        BY <1>0, <2>2, <3>2, <3>3
  <2>5. QED
      BY <2>3, <2>4
<1>4. CASE Freeze(t) \/ Consult(t) \/ CheckConsumed(t) \/ MarkConsumed(t) \/ Send(t)
           \/ RecordAgain(t)
  <2>1. dispatched' = dispatched /\ extra' = extra
      BY <1>4 DEF Freeze, Consult, CheckConsumed, MarkConsumed, Send, RecordAgain
  <2>2. \A u \in Threads : pc'[u] \in Asking \cup {"dispatch"} =>
            pc[u] \in Asking \cup {"dispatch"} /\ auth'[u] = auth[u]
    <3>1. CASE Freeze(t)
        BY <3>1 DEF Freeze
    <3>2. CASE Consult(t)
        BY <3>2 DEF Consult, Granted
    <3>3. CASE CheckConsumed(t)
        BY <3>3 DEF CheckConsumed
    <3>4. CASE MarkConsumed(t)
        BY <3>4 DEF MarkConsumed
    <3>5. CASE Send(t)
        BY <3>5 DEF Send
    <3>6. CASE RecordAgain(t)
        BY <3>6 DEF RecordAgain
    <3>7. QED
        BY <1>4, <3>1, <3>2, <3>3, <3>4, <3>5, <3>6
  <2>3. Ready(a)' \subseteq Ready(a)
      BY <2>2 DEF Ready
  <2>4. Cardinality(Ready(a)') <= Cardinality(Ready(a))
      BY <1>0, <2>3, CountShrinks
  <2>5. QED
      BY <1>0, <2>1, <2>4
<1>5. QED
    BY <1>1, <1>2, <1>3, <1>4 DEF ThreadStep

LEMMA RecordsStep ==
    ASSUME Types, Types', OneRecords, RecordsCounted, NEW t \in Threads, ThreadStep(t)
    PROVE  RecordsCounted'
<1> USE DEF Types, TypeOK, Busy, At, Goto, Finish, Raise, config, decisions, tally
<1> SUFFICES ASSUME NEW a \in Auths
             PROVE  recorded'[a] + Cardinality(Marking(a)') <= Cardinality(Threads)
    BY DEF RecordsCounted
<1>0. /\ recorded[a] + Cardinality(Marking(a)) <= Cardinality(Threads)
      /\ Cardinality(Marking(a)) \in Nat /\ Cardinality(Marking(a)') \in Nat
      /\ Cardinality(Threads) \in Nat
      /\ recorded[a] \in Nat
      /\ Marking(a) \in SUBSET Threads /\ Marking(a)' \in SUBSET Threads
    BY CountsAreNaturals DEF RecordsCounted, Marking
<1>1. CASE CheckConsumed(t)
  <2>1. /\ recorded' = recorded /\ auth' = auth
        /\ pc'[t] = "mark" => recorded[auth[t]] = 0
        /\ \A u \in Threads : u # t => pc'[u] = pc[u]
        /\ auth[t] \in Auths
      BY <1>1 DEF CheckConsumed, SeesConsumed, OneRecords
  <2>2. CASE recorded[a] = 0
    <3>1. Cardinality(Marking(a)') <= Cardinality(Threads)
        BY <1>0, CountOf
    <3>2. QED
        BY <1>0, <2>1, <2>2, <3>1
  <2>3. CASE recorded[a] # 0
    <3>1. Marking(a)' \subseteq Marking(a)
        BY <2>1, <2>3 DEF Marking
    <3>2. Cardinality(Marking(a)') <= Cardinality(Marking(a))
        BY <1>0, <3>1, CountShrinks
    <3>3. QED
        BY <1>0, <2>1, <3>2
  <2>4. QED
      BY <2>2, <2>3
<1>2. CASE MarkConsumed(t)
  <2>1. /\ auth' = auth /\ pc[t] = "mark" /\ auth[t] \in Auths
        /\ recorded' \in {recorded, [recorded EXCEPT ![auth[t]] = @ + 1]}
        /\ pc'[t] \in {"send", "idle"}
        /\ \A u \in Threads : u # t => pc'[u] = pc[u]
      BY <1>2 DEF MarkConsumed
  <2>2. CASE a = auth[t]
    <3>1. t \in Marking(a) /\ Marking(a)' \subseteq Marking(a) \ {t}
        BY <2>1, <2>2 DEF Marking
    <3>2. Cardinality(Marking(a)') + 1 <= Cardinality(Marking(a))
        BY <1>0, <3>1, CountLosesOne
    <3>3. recorded'[a] \in {recorded[a], recorded[a] + 1}
        BY <2>1, <2>2
    <3>4. QED
        BY <1>0, <3>2, <3>3
  <2>3. CASE a # auth[t]
    <3>1. Marking(a)' \subseteq Marking(a)
        BY <2>1, <2>3 DEF Marking
    <3>2. Cardinality(Marking(a)') <= Cardinality(Marking(a))
        BY <1>0, <3>1, CountShrinks
    <3>3. recorded'[a] = recorded[a]
        BY <2>1, <2>3
    <3>4. QED
        BY <1>0, <3>2, <3>3
  <2>4. QED
      BY <2>2, <2>3
<1>3. CASE ~CheckConsumed(t) /\ ~MarkConsumed(t)
  <2>1. recorded' = recorded
      BY <1>3 DEF ThreadStep, BeginCall, Freeze, Consult, Dispatch, Send, RecordAgain,
         DispatchAgain
  <2>2. \A u \in Threads : pc'[u] = "mark" => pc[u] = "mark" /\ auth'[u] = auth[u]
    <3>1. CASE BeginCall(t)
        BY <3>1 DEF BeginCall
    <3>2. CASE Freeze(t)
        BY <3>2 DEF Freeze
    <3>3. CASE Consult(t)
        BY <3>3 DEF Consult, Granted
    <3>4. CASE Dispatch(t)
        BY <3>4 DEF Dispatch
    <3>5. CASE Send(t)
        BY <3>5 DEF Send
    <3>6. CASE RecordAgain(t)
        BY <3>6 DEF RecordAgain
    <3>7. CASE DispatchAgain(t)
        BY <3>7 DEF DispatchAgain
    <3>8. QED
        BY <1>3, <3>1, <3>2, <3>3, <3>4, <3>5, <3>6, <3>7 DEF ThreadStep
  <2>3. Marking(a)' \subseteq Marking(a)
      BY <2>2 DEF Marking
  <2>4. Cardinality(Marking(a)') <= Cardinality(Marking(a))
      BY <1>0, <2>3, CountShrinks
  <2>5. QED
      BY <1>0, <2>1, <2>4
<1>4. QED
    BY <1>1, <1>2, <1>3

LEMMA SendsStep ==
    ASSUME Types, Types', SendsCounted, NEW t \in Threads, ThreadStep(t)
    PROVE  SendsCounted'
<1> USE DEF Types, TypeOK, Busy, At, Goto, Finish, Raise, config, decisions, tally
<1> SUFFICES ASSUME NEW a \in Auths
             PROVE  unprovoked'[a] + Cardinality(Sending(a)') + Cardinality(SendingAgain(a)')
                        <= recorded'[a]
    BY DEF SendsCounted
<1> DEFINE n == Cardinality(Sending(a))
           m == Cardinality(SendingAgain(a))
           n1 == Cardinality(Sending(a)')
           m1 == Cardinality(SendingAgain(a)')
<1>0. /\ unprovoked[a] + n + m <= recorded[a]
      /\ n \in Nat /\ m \in Nat /\ n1 \in Nat /\ m1 \in Nat
      /\ recorded[a] \in Nat /\ unprovoked[a] \in Int
    BY CountsAreNaturals DEF SendsCounted
<1>1. Sending(a) \in SUBSET Threads /\ SendingAgain(a) \in SUBSET Threads
    BY DEF Sending, SendingAgain
<1>2. CASE MarkConsumed(t)
  <2>1. /\ auth' = auth /\ unprovoked' = unprovoked /\ pc[t] = "mark" /\ auth[t] \in Auths
        /\ \/ recorded' = recorded /\ pc'[t] = "idle"
           \/ recorded' = [recorded EXCEPT ![auth[t]] = @ + 1] /\ pc'[t] \in {"send", "idle"}
        /\ \A u \in Threads : u # t => pc'[u] = pc[u]
      BY <1>2 DEF MarkConsumed
  <2>2. SendingAgain(a)' \subseteq SendingAgain(a)
      BY <2>1 DEF SendingAgain
  <2>3. m1 <= m
      BY <1>1, <2>2, CountShrinks
  <2>4. CASE a = auth[t] /\ recorded' # recorded
    <3>1. Sending(a)' \subseteq Sending(a) \cup {t}
        BY <2>1 DEF Sending
    <3>2. n1 <= n + 1
        BY <1>1, <3>1, CountGainsOne
    <3>3. recorded'[a] = recorded[a] + 1 /\ unprovoked'[a] = unprovoked[a]
        BY <2>1, <2>4
    <3> HIDE DEF n, m, n1, m1
    <3>4. unprovoked[a] + n1 + m1 <= (recorded[a] + 1)
        BY <1>0, <2>3, <3>2
    <3>5. QED
        BY <3>3, <3>4 DEF n1, m1
  <2>5. CASE ~(a = auth[t] /\ recorded' # recorded)
    <3>1. Sending(a)' \subseteq Sending(a)
        BY <2>1, <2>5 DEF Sending
    <3>2. n1 <= n
        BY <1>1, <3>1, CountShrinks
    <3>3. recorded'[a] = recorded[a] /\ unprovoked'[a] = unprovoked[a]
        BY <2>1, <2>5
    <3> HIDE DEF n, m, n1, m1
    <3>4. unprovoked[a] + n1 + m1 <= recorded[a]
        BY <1>0, <2>3, <3>2
    <3>5. QED
        BY <3>3, <3>4 DEF n1, m1
  <2>6. QED
      BY <2>4, <2>5
<1>3. CASE Send(t)
  <2>1. PICK answer \in {"RECEIPT", "ERROR", "TYPE_ERROR"}, acts \in {0, 1} :
          /\ unprovoked' =
                [unprovoked EXCEPT ![auth[t]] = @ + acts - Provoked(t, "send", answer)]
          /\ IF SendsAgain(t, answer) THEN Goto(t, "send_again") ELSE Finish(t)
      BY <1>3 DEF Send
  <2>2. /\ auth' = auth /\ recorded' = recorded /\ auth[t] \in Auths
        /\ \/ pc[t] = "send" /\ pc'[t] \in {"send_again", "idle"}
           \/ pc[t] = "send_again" /\ pc'[t] = "idle"
        /\ \A u \in Threads : u # t => pc'[u] = pc[u]
      BY <1>3, <2>1 DEF Send, SendsAgain
  <2>3. CASE a # auth[t]
    <3>1. Sending(a)' \subseteq Sending(a) /\ SendingAgain(a)' \subseteq SendingAgain(a)
        BY <2>2, <2>3 DEF Sending, SendingAgain
    <3>2. n1 <= n /\ m1 <= m
        BY <1>1, <3>1, CountShrinks
    <3>3. recorded'[a] = recorded[a] /\ unprovoked'[a] = unprovoked[a]
        BY <2>1, <2>2, <2>3
    <3> HIDE DEF n, m, n1, m1
    <3>4. unprovoked[a] + n1 + m1 <= recorded[a]
        BY <1>0, <3>2
    <3>5. QED
        BY <3>3, <3>4 DEF n1, m1
  <2>4. CASE a = auth[t] /\ pc[t] = "send"
    <3>1. t \in Sending(a) /\ Sending(a)' \subseteq Sending(a) \ {t}
        BY <2>2, <2>4 DEF Sending
    <3>2. n1 + 1 <= n
        BY <1>1, <3>1, CountLosesOne
    <3>3. CASE answer = "TYPE_ERROR"
      <4>1. SendingAgain(a)' \subseteq SendingAgain(a) \cup {t}
          BY <2>2, <2>4 DEF SendingAgain
      <4>2. m1 <= m + 1
          BY <1>1, <4>1, CountGainsOne
      <4>3. recorded'[a] = recorded[a] /\ unprovoked'[a] = unprovoked[a] + acts - 1
          BY <2>1, <2>2, <2>4, <3>3 DEF Provoked
      <4> HIDE DEF n, m, n1, m1
      <4>4. unprovoked[a] + acts - 1 + n1 + m1 <= recorded[a]
          BY <1>0, <3>2, <4>2
      <4>5. QED
          BY <4>3, <4>4 DEF n1, m1
    <3>4. CASE answer # "TYPE_ERROR"
      <4>1. pc'[t] = "idle"
          BY <1>3, <2>1, <2>2, <3>4 DEF SendsAgain
      <4>2. SendingAgain(a)' \subseteq SendingAgain(a)
          BY <2>2, <4>1 DEF SendingAgain
      <4>3. m1 <= m
          BY <1>1, <4>2, CountShrinks
      <4>4. recorded'[a] = recorded[a] /\ unprovoked'[a] = unprovoked[a] + acts
          BY <2>1, <2>2, <2>4, <3>4 DEF Provoked
      <4> HIDE DEF n, m, n1, m1
      <4>5. unprovoked[a] + acts + n1 + m1 <= recorded[a]
          BY <1>0, <3>2, <4>3
      <4>6. QED
          BY <4>4, <4>5 DEF n1, m1
    <3>5. QED
        BY <3>3, <3>4
  <2>5. CASE a = auth[t] /\ pc[t] = "send_again"
    <3>1. /\ t \in SendingAgain(a) /\ SendingAgain(a)' \subseteq SendingAgain(a) \ {t}
          /\ Sending(a)' \subseteq Sending(a)
        BY <2>2, <2>5 DEF Sending, SendingAgain
    <3>2. m1 + 1 <= m
        BY <1>1, <3>1, CountLosesOne
    <3>3. n1 <= n
        BY <1>1, <3>1, CountShrinks
    <3>4. recorded'[a] = recorded[a] /\ unprovoked'[a] = unprovoked[a] + acts
        BY <2>1, <2>2, <2>5 DEF Provoked
    <3> HIDE DEF n, m, n1, m1
    <3>5. unprovoked[a] + acts + n1 + m1 <= recorded[a]
        BY <1>0, <3>2, <3>3
    <3>6. QED
        BY <3>4, <3>5 DEF n1, m1
  <2>6. QED
      BY <2>2, <2>3, <2>4, <2>5
<1>4. CASE ~MarkConsumed(t) /\ ~Send(t)
  <2>1. recorded' = recorded /\ unprovoked' = unprovoked
      BY <1>4 DEF ThreadStep, BeginCall, Freeze, Consult, Dispatch, CheckConsumed, RecordAgain,
         DispatchAgain
  <2>2. \A u \in Threads : pc'[u] \in {"send", "send_again"} =>
            pc'[u] = pc[u] /\ auth'[u] = auth[u]
    <3>1. CASE BeginCall(t)
        BY <3>1 DEF BeginCall
    <3>2. CASE Freeze(t)
        BY <3>2 DEF Freeze
    <3>3. CASE Consult(t)
        BY <3>3 DEF Consult, Granted
    <3>4. CASE Dispatch(t)
        BY <3>4 DEF Dispatch
    <3>5. CASE CheckConsumed(t)
        BY <3>5 DEF CheckConsumed
    <3>6. CASE RecordAgain(t)
        BY <3>6 DEF RecordAgain
    <3>7. CASE DispatchAgain(t)
        BY <3>7 DEF DispatchAgain
    <3>8. QED
        BY <1>4, <3>1, <3>2, <3>3, <3>4, <3>5, <3>6, <3>7 DEF ThreadStep
  <2>3. Sending(a)' \subseteq Sending(a) /\ SendingAgain(a)' \subseteq SendingAgain(a)
      BY <2>2 DEF Sending, SendingAgain
  <2>4. n1 <= n /\ m1 <= m
      BY <1>1, <2>3, CountShrinks
  <2> HIDE DEF n, m, n1, m1
  <2>5. unprovoked[a] + n1 + m1 <= recorded[a]
      BY <1>0, <2>4
  <2>6. QED
      BY <2>1, <2>5 DEF n1, m1
<1>5. QED
    BY <1>2, <1>3, <1>4

-----------------------------------------------------------------------------
(***************************************************************************)
(* Evidence and the provider's pending calls: whoever is to leave a record *)
(* is under way until it is left.                                          *)
(***************************************************************************)

OwnResults ==
    \A t \in Threads : pc[t] \in {"record", "mark"} => result[t] \in results[auth[t]]

\* A context nobody has consumed has a thread on its way to record_execution.
EvidenceUnderWay ==
    \A a \in contexts : a \notin consumed =>
        \E u \in Threads : auth[u] = a /\ pc[u] \in {"dispatch", "record", "mark"}

ConsumedLeftEvidence ==
    \A a \in consumed : a \in contexts /\ (recorded[a] > 0 \/ LeftUnwritten(a))

PendingUnderWay ==
    \A entry \in pending :
        LET a == entry[1]
        IN  /\ provider /\ grant[a] # None
            /\ \/ mode = ENFORCE /\ grant[a] = "DENY"
               \/ /\ a \in contexts
                  /\ \/ a \notin consumed
                     \/ LeftUnwritten(a)
                     \/ \E u \in Threads : auth[u] = a /\ pc[u] = "send"

Evidence == OwnResults /\ EvidenceUnderWay /\ ConsumedLeftEvidence /\ PendingUnderWay

LEMMA EvidenceStep ==
    ASSUME Types, Types', Authority, Evidence, NEW t \in Threads, ThreadStep(t)
    PROVE  Evidence'
<1> USE GuardedCallAssumption
<1> USE DEF Types, TypeOK, Busy, At, Goto, Finish, Raise, config, decisions, tally, Evidence,
        OwnResults, EvidenceUnderWay, ConsumedLeftEvidence, PendingUnderWay, LeftUnwritten
<1> DEFINE b == auth[t]
<1>1. CASE BeginCall(t)
  <2>1. PICK c \in Auths : local[c] = None /\ auth' = [auth EXCEPT ![t] = c]
      BY <1>1 DEF BeginCall
  <2>2. /\ pc[t] = "idle" /\ pc'[t] \in {"idle", "freeze", "dispatch"}
        /\ \A u \in Threads : u # t => pc'[u] = pc[u]
        /\ UNCHANGED <<provider, mode, result, contexts, results, grant, consumed,
                       pending, recorded>>
      BY <1>1 DEF BeginCall
  <2>3. OwnResults' /\ ConsumedLeftEvidence'
      BY <2>1, <2>2
  <2>4. EvidenceUnderWay'
      BY <2>1, <2>2
  <2>5. PendingUnderWay'
      BY <2>1, <2>2
  <2>6. QED
      BY <2>3, <2>4, <2>5
<1>2. CASE Freeze(t)
  <2>1. /\ pc[t] = "freeze" /\ b \in Auths
        /\ UNCHANGED <<provider, mode, auth, result, results, grant, consumed, pending,
                       recorded>>
        /\ \/ pc'[t] \in {"idle", "consult"} /\ UNCHANGED contexts
           \/ pc'[t] = "dispatch" /\ contexts' = contexts \cup {b}
        /\ \A u \in Threads : u # t => pc'[u] = pc[u]
      BY <1>2 DEF Freeze
  <2>2. OwnResults' /\ ConsumedLeftEvidence'
      BY <2>1
  <2>3. EvidenceUnderWay'
      BY <2>1
  <2>4. PendingUnderWay'
      BY <2>1
  <2>5. QED
      BY <2>2, <2>3, <2>4
<1>3. CASE Consult(t)
  <2>1. /\ pc[t] \in {"consult", "consult_again"} /\ b \in Auths
        /\ Untouched(b) /\ provider
        /\ UNCHANGED <<provider, mode, auth, result, results, consumed, recorded>>
      BY <1>3 DEF Consult, Authority, AskedByOne, Asking
  <2>2. PICK answer \in {"ALLOW", "DENY", "ERROR", "TYPE_ERROR"} :
            IF AsksAgain(t, answer)
            THEN Goto(t, "consult_again") /\ UNCHANGED <<contexts, grant, pending>>
            ELSE Granted(t, IF answer \in {"ALLOW", "DENY"} THEN answer ELSE "UNAVAILABLE")
      BY <1>3 DEF Consult
  <2>3. /\ pc'[t] \in {"idle", "consult_again", "dispatch"}
        /\ \A u \in Threads : u # t => pc'[u] = pc[u]
      BY <2>2 DEF Granted
  <2>4. OwnResults'
      BY <2>1, <2>3
  <2>5. CASE AsksAgain(t, answer)
      BY <2>1, <2>2, <2>3, <2>4, <2>5
  <2>6. CASE ~AsksAgain(t, answer)
    <3>1. PICK g \in {"ALLOW", "DENY", "UNAVAILABLE"} :
            /\ grant' = [grant EXCEPT ![b] = g]
            /\ pending' = IF g = "UNAVAILABLE" THEN pending ELSE pending \cup PendingKeys(b)
            /\ \/ Lets(g) /\ contexts' = contexts \cup {b} /\ pc'[t] = "dispatch"
               \/ ~Lets(g) /\ UNCHANGED contexts /\ pc'[t] = "idle"
        BY <2>2, <2>6 DEF Granted
    <3>2. ConsumedLeftEvidence'
        BY <2>1, <3>1
    <3>3. EvidenceUnderWay'
        BY <2>1, <2>3, <3>1 DEF Untouched
    <3>4. ASSUME NEW entry \in pending, entry[1] # b
          PROVE  LET a == entry[1]
                 IN  /\ provider' /\ grant'[a] # None
                     /\ \/ mode' = ENFORCE /\ grant'[a] = "DENY"
                        \/ /\ a \in contexts'
                           /\ \/ a \notin consumed'
                              \/ LeftUnwritten(a)'
                              \/ \E u \in Threads : auth'[u] = a /\ pc'[u] = "send"
      <4>1. entry[1] \in Auths
          OBVIOUS
      <4>2. grant'[entry[1]] = grant[entry[1]]
          BY <3>1, <3>4, <4>1
      <4>3. QED
          BY <2>1, <2>3, <3>1, <3>4, <4>1, <4>2
    <3>5. ASSUME NEW entry \in pending', entry[1] = b
          PROVE  /\ provider' /\ grant'[b] # None
                 /\ \/ mode' = ENFORCE /\ grant'[b] = "DENY"
                    \/ b \in contexts' /\ b \notin consumed'
      <4>1. g # "UNAVAILABLE"
        <5>1. \A e \in pending : e[1] # b
            BY <2>1 DEF Untouched
        <5>2. QED
            BY <3>1, <3>5, <5>1
      <4>2. grant'[b] = g
          BY <2>1, <3>1
      <4>3. Lets(g) \/ (mode = ENFORCE /\ g = "DENY")
          BY <4>1 DEF Lets, OBSERVE, ENFORCE
      <4>4. QED
          BY <2>1, <3>1, <4>2, <4>3 DEF Untouched
    <3>6. \A entry \in pending' : entry \in pending \/ entry[1] = b
        BY <3>1 DEF PendingKeys
    <3>7. PendingUnderWay'
        BY <3>4, <3>5, <3>6
    <3>8. QED
        BY <2>4, <3>2, <3>3, <3>7
  <2>7. QED
      BY <2>5, <2>6
<1>4. CASE Dispatch(t)
  <2>1. PICK outcome \in Results :
            /\ results' = [results EXCEPT ![auth[t]] = @ \cup {outcome}]
            /\ IF Records(t, outcome)
               THEN Goto(t, "record") /\ result' = [result EXCEPT ![t] = outcome]
               ELSE Finish(t) /\ UNCHANGED result
      BY <1>4 DEF Dispatch
  <2>2. /\ pc[t] = "dispatch" /\ b \in Auths
        /\ UNCHANGED <<provider, mode, auth, contexts, grant, consumed, pending,
                       recorded>>
        /\ \/ b \in contexts /\ pc'[t] = "record" /\ result'[t] = outcome
           \/ b \notin contexts /\ pc'[t] = "idle"
        /\ \A u \in Threads : u # t => pc'[u] = pc[u] /\ result'[u] = result[u]
      BY <1>4, <2>1 DEF Dispatch, Records
  <2>3. /\ \A a \in Auths : results[a] \subseteq results'[a]
        /\ outcome \in results'[b]
      BY <2>1, <2>2
  <2>4. OwnResults'
      BY <2>2, <2>3
  <2>5. ConsumedLeftEvidence'
      BY <2>2, <2>3
  <2>6. EvidenceUnderWay'
      BY <2>2
  <2>7. PendingUnderWay'
      BY <2>2, <2>3
  <2>8. QED
      BY <2>4, <2>5, <2>6, <2>7
<1>5. CASE CheckConsumed(t)
  <2>1. /\ pc[t] = "record" /\ b \in Auths
        /\ UNCHANGED <<provider, mode, auth, contexts, results, grant, consumed,
                       pending, recorded>>
        /\ \/ b \in consumed /\ pc'[t] = "idle"
           \/ b \notin consumed /\ pc'[t] = "mark" /\ result'[t] = result[t]
        /\ \A u \in Threads : u # t => pc'[u] = pc[u] /\ result'[u] = result[u]
      BY <1>5 DEF CheckConsumed, SeesConsumed
  <2>2. OwnResults' /\ ConsumedLeftEvidence'
      BY <2>1
  <2>3. EvidenceUnderWay'
      BY <2>1
  <2>4. PendingUnderWay'
      BY <2>1
  <2>5. QED
      BY <2>2, <2>3, <2>4
<1>6. CASE MarkConsumed(t)
  <2>1. /\ pc[t] = "mark" /\ b \in Auths /\ b \in contexts /\ result[t] \in results[b]
        /\ consumed' = consumed \cup {b}
        /\ UNCHANGED <<provider, mode, auth, contexts, results, grant, pending>>
        /\ \/ /\ result[t] \in Unwritable
              /\ recorded' = recorded /\ pc'[t] = "idle"
           \/ /\ recorded' = [recorded EXCEPT ![b] = @ + 1]
              /\ pc'[t] = IF provider /\ grant[b] # None THEN "send" ELSE "idle"
        /\ \A u \in Threads : u # t => pc'[u] = pc[u] /\ result'[u] = result[u]
      BY <1>6 DEF MarkConsumed, Authority, ThreadsAuthorized
  <2>2. OwnResults'
      BY <2>1
  <2>3. /\ \A a \in Auths : recorded[a] > 0 => recorded'[a] > 0
        /\ recorded'[b] > 0 \/ LeftUnwritten(b)
      BY <2>1
  <2>4. ConsumedLeftEvidence'
      BY <2>1, <2>3
  <2>5. EvidenceUnderWay'
      BY <2>1
  <2>6. PendingUnderWay'
    <3>1. \A entry \in pending : entry[1] \in Auths
        OBVIOUS
    <3>2. QED
        BY <2>1, <3>1
  <2>7. QED
      BY <2>2, <2>4, <2>5, <2>6
<1>7. CASE Send(t)
  <2>1. /\ pc[t] \in {"send", "send_again"} /\ b \in Auths
        /\ pending' = pending \ PendingKeys(b)
        /\ UNCHANGED <<provider, mode, auth, contexts, result, results, grant, consumed,
                       recorded>>
        /\ pc'[t] \in {"idle", "send_again"}
        /\ \A u \in Threads : u # t => pc'[u] = pc[u]
      BY <1>7 DEF Send, Forgets
  <2>2. OwnResults' /\ ConsumedLeftEvidence'
      BY <2>1
  <2>3. EvidenceUnderWay'
      BY <2>1
  <2>4. \A entry \in pending' : entry \in pending /\ entry[1] # b
      BY <2>1 DEF PendingKeys
  <2>5. PendingUnderWay'
      BY <2>1, <2>4
  <2>6. QED
      BY <2>2, <2>3, <2>5
<1>8. CASE RecordAgain(t)
  <2>1. PICK c \in contexts : \E outcome \in results[c] :
          /\ auth' = [auth EXCEPT ![t] = c]
          /\ result' = [result EXCEPT ![t] = outcome]
      BY <1>8 DEF RecordAgain
  <2>2. /\ pc[t] = "idle" /\ pc'[t] = "record"
        /\ auth'[t] = c /\ result'[t] \in results[c]
        /\ \A u \in Threads : u # t =>
              pc'[u] = pc[u] /\ result'[u] = result[u] /\ auth'[u] = auth[u]
        /\ UNCHANGED <<provider, mode, contexts, results, grant, consumed, pending,
                       recorded>>
      BY <1>8, <2>1 DEF RecordAgain
  <2>3. OwnResults' /\ ConsumedLeftEvidence'
      BY <2>2
  <2>4. EvidenceUnderWay'
      BY <2>2
  <2>5. PendingUnderWay'
      BY <2>2
  <2>6. QED
      BY <2>3, <2>4, <2>5
<1>9. CASE DispatchAgain(t)
  <2>1. /\ pc[t] = "idle" /\ pc'[t] = "dispatch"
        /\ \A u \in Threads : u # t => pc'[u] = pc[u] /\ auth'[u] = auth[u]
        /\ UNCHANGED <<provider, mode, result, contexts, results, grant, consumed,
                       pending, recorded>>
      BY <1>9 DEF DispatchAgain
  <2>2. OwnResults' /\ ConsumedLeftEvidence'
      BY <2>1
  <2>3. EvidenceUnderWay'
      BY <2>1
  <2>4. PendingUnderWay'
      BY <2>1
  <2>5. QED
      BY <2>2, <2>3, <2>4
<1>10. QED
    BY <1>1, <1>2, <1>3, <1>4, <1>5, <1>6, <1>7, <1>8, <1>9 DEF ThreadStep

-----------------------------------------------------------------------------
(***************************************************************************)
(* The invariant of the lifecycle and what follows from it.                *)
(***************************************************************************)

LifecycleInv == Types /\ Authority /\ OneRecords /\ Counted /\ Evidence

LEMMA InitLifecycle == Init => LifecycleInv
<1> SUFFICES ASSUME Init PROVE LifecycleInv
    OBVIOUS
<1>1. Types /\ Authority
    BY InitTypes, InitAuthority
<1>2. OneRecords /\ Evidence
    BY GuardedCallAssumption DEF Init, OneRecords, Evidence, OwnResults, EvidenceUnderWay,
       ConsumedLeftEvidence, PendingUnderWay, Recording, Zero
<1>3. \A a \in Auths : Ready(a) = {} /\ Marking(a) = {} /\ Sending(a) = {}
                       /\ SendingAgain(a) = {}
    BY DEF Init, Ready, Marking, Sending, SendingAgain, Asking
<1>4. \A a \in Auths : dispatched[a] = 0 /\ extra[a] = 0 /\ recorded[a] = 0
                       /\ unprovoked[a] = 0
    BY DEF Init, Zero
<1>5. Cardinality(Threads) \in Nat /\ Cardinality({}) = 0
    BY CountOf, FS_EmptySet
<1>6. \A a \in Auths : /\ Cardinality(Ready(a)) = 0 /\ Cardinality(Marking(a)) = 0
                       /\ Cardinality(Sending(a)) = 0 /\ Cardinality(SendingAgain(a)) = 0
    BY <1>3, <1>5
<1>7. Counted
    BY <1>4, <1>5, <1>6 DEF Counted, DispatchesCounted, RecordsCounted, SendsCounted
<1>8. QED
    BY <1>1, <1>2, <1>7 DEF LifecycleInv

LEMMA NextLifecycle == LifecycleInv /\ [Next]_vars => LifecycleInv'
<1> SUFFICES ASSUME LifecycleInv, [Next]_vars PROVE LifecycleInv'
    OBVIOUS
<1> USE DEF LifecycleInv
<1>1. Types'
    BY NextTypes
<1>2. ASSUME UNCHANGED vars PROVE LifecycleInv'
  <2>1. Authority'
      BY <1>2, AuthorityUnchanged
  <2>2. OneRecords' /\ Evidence'
      BY <1>2 DEF vars, config, decisions, tally, OneRecords, Evidence, OwnResults,
         EvidenceUnderWay, ConsumedLeftEvidence, PendingUnderWay, LeftUnwritten, Recording
  <2>3. \A a \in Auths : Ready(a)' = Ready(a) /\ Marking(a)' = Marking(a)
            /\ Sending(a)' = Sending(a) /\ SendingAgain(a)' = SendingAgain(a)
      BY <1>2 DEF vars, Ready, Marking, Sending, SendingAgain
  <2>4. UNCHANGED <<dispatched, extra, recorded, unprovoked>>
      BY <1>2 DEF vars, tally
  <2>5. Counted'
      BY <2>3, <2>4 DEF Counted, DispatchesCounted, RecordsCounted, SendsCounted
  <2>6. QED
      BY <1>1, <2>1, <2>2, <2>5
<1>3. ASSUME NEW t \in Threads, ThreadStep(t), Observe PROVE LifecycleInv'
  <2>1. Authority'
      BY <1>3, AuthorityStep
  <2>2. OneRecords'
      BY <1>1, <1>3, OneRecordsStep
  <2>3. Counted'
      BY <1>1, <1>3, DispatchesStep, RecordsStep, SendsStep DEF Counted
  <2>4. Evidence'
      BY <1>1, <1>3, EvidenceStep
  <2>5. QED
      BY <1>1, <2>1, <2>2, <2>3, <2>4
<1>4. QED
    BY <1>2, <1>3 DEF Next

(***************************************************************************)
(* Whatever threads, host and provider do, the parts of the invariant hold *)
(* together: who has a call in hand, that a record is left once and by     *)
(* whom, how many runs, records and calls of the client are still to come, *)
(* and that evidence is under way (boundary.py 512-700).                   *)
(***************************************************************************)
THEOREM InvariantHolds == Spec => []LifecycleInv
BY InitLifecycle, NextLifecycle, PTL DEF Spec

(***************************************************************************)
(* No tool runs that was not allowed by check() and, in enforce mode, by   *)
(* the provider; and it runs once for each call and each further use of    *)
(* the context (boundary.py 512-621).                                      *)
(***************************************************************************)
THEOREM OnlyAuthorizedCallsRun == Spec => []DispatchIsAuthorized
<1>1. LifecycleInv => DispatchIsAuthorized
  <2> SUFFICES ASSUME LifecycleInv, NEW a \in Auths, dispatched[a] > 0
               PROVE  /\ dispatched[a] <= 1 + extra[a]
                      /\ local[a] = "ALLOW"
                      /\ provider /\ mode = ENFORCE => grant[a] = "ALLOW"
      BY DEF DispatchIsAuthorized
  <2>1. Authorized(a)
      BY DEF LifecycleInv, Authority, CallsAuthorized
  <2>2. /\ dispatched[a] + Cardinality(Ready(a)) <= 1 + extra[a]
        /\ Cardinality(Ready(a)) \in Nat /\ dispatched[a] \in Nat /\ extra[a] \in Nat
      BY CountsAreNaturals DEF LifecycleInv, Types, TypeOK, Counted, DispatchesCounted
  <2>3. dispatched[a] <= 1 + extra[a]
      BY <2>2
  <2>4. QED
      BY <2>1, <2>3 DEF Authorized, Lets, ENFORCE, OBSERVE
<1>2. QED
    BY <1>1, InvariantHolds, PTL

(***************************************************************************)
(* In observe mode the provider keeps no locally allowed call from its     *)
(* tool (boundary.py 551-589).                                             *)
(***************************************************************************)
THEOREM ObservationBlocksNothing == Spec => []ObserveNeverBlocks
<1>1. LifecycleInv => ObserveNeverBlocks
    BY DEF LifecycleInv, Authority
<1>2. QED
    BY <1>1, InvariantHolds, PTL

(***************************************************************************)
(* A context is recorded once, or at most once by each of the threads that *)
(* record it at the same time (boundary.py 662-667).                       *)
(***************************************************************************)
THEOREM RecordedOnce == Spec => []OneRecordPerAuthorization
<1>1. LifecycleInv => OneRecordPerAuthorization
  <2> SUFFICES ASSUME LifecycleInv, NEW a \in Auths
               PROVE  /\ recorded[a] <= Cardinality(Threads)
                      /\ a \notin together => recorded[a] <= 1
      BY DEF OneRecordPerAuthorization
  <2>1. /\ recorded[a] + Cardinality(Marking(a)) <= Cardinality(Threads)
        /\ Cardinality(Marking(a)) \in Nat /\ recorded[a] \in Nat
        /\ Cardinality(Threads) \in Nat
      BY CountsAreNaturals DEF LifecycleInv, Types, TypeOK, Counted, RecordsCounted
  <2>2. recorded[a] <= Cardinality(Threads)
      BY <2>1
  <2>3. QED
      BY <2>2 DEF LifecycleInv, OneRecords
<1>2. QED
    BY <1>1, InvariantHolds, PTL

(***************************************************************************)
(* The client opens a second authorization of a call, or takes a second    *)
(* record of an audited execution, only for a TypeError with which it      *)
(* answered the first request, and has opened one for what it let run      *)
(* (agentkey.py 136-141, 227-231).                                         *)
(***************************************************************************)
THEOREM ClientIsAccounted == Spec => []ClientCallsAccounted
<1>1. LifecycleInv => ClientCallsAccounted
  <2> SUFFICES ASSUME LifecycleInv, NEW a \in Auths
               PROVE  /\ opened[a] <= 1 + refused[a] /\ refused[a] <= 1
                      /\ unprovoked[a] <= recorded[a]
                      /\ provider /\ dispatched[a] > 0 /\ grant[a] # "UNAVAILABLE"
                             => opened[a] > 0
      BY DEF ClientCallsAccounted
  <2>1. /\ unprovoked[a] + Cardinality(Sending(a)) + Cardinality(SendingAgain(a))
              <= recorded[a]
        /\ Cardinality(Sending(a)) \in Nat /\ Cardinality(SendingAgain(a)) \in Nat
        /\ unprovoked[a] \in Int /\ recorded[a] \in Nat
      BY CountsAreNaturals DEF LifecycleInv, Types, TypeOK, Counted, SendsCounted
  <2>2. unprovoked[a] <= recorded[a]
      BY <2>1
  <2>3. dispatched[a] > 0 => Authorized(a)
      BY DEF LifecycleInv, Authority, CallsAuthorized
  <2>4. QED
      BY <2>2, <2>3 DEF LifecycleInv, Authority, ClientAsked, Authorized
<1>2. QED
    BY <1>1, InvariantHolds, PTL

(***************************************************************************)
(* A call that is over has left its record, unless a result or an error of *)
(* it could not be written down (decorators.py 131-151, boundary.py        *)
(* 662-700).                                                               *)
(***************************************************************************)
THEOREM EvidenceIsLeft == Spec => []EvidenceUnlessUnwritable
<1>1. LifecycleInv => EvidenceUnlessUnwritable
  <2> SUFFICES ASSUME LifecycleInv, NEW a \in contexts, ~InProgress(a),
                      ~LeftUnwritten(a)
               PROVE  recorded[a] + extra[a] >= dispatched[a] /\ recorded[a] > 0
      BY DEF EvidenceUnlessUnwritable
  <2>1. a \in Auths
      BY DEF LifecycleInv, Types, TypeOK
  <2>2. a \in consumed
      BY DEF LifecycleInv, Evidence, EvidenceUnderWay, InProgress, At
  <2>3. recorded[a] > 0
      BY <2>2 DEF LifecycleInv, Evidence, ConsumedLeftEvidence
  <2>4. /\ dispatched[a] + Cardinality(Ready(a)) <= 1 + extra[a]
        /\ Cardinality(Ready(a)) \in Nat /\ dispatched[a] \in Nat /\ extra[a] \in Nat
        /\ recorded[a] \in Nat
      BY <2>1, CountsAreNaturals DEF LifecycleInv, Types, TypeOK, Counted, DispatchesCounted
  <2>5. recorded[a] + extra[a] >= dispatched[a]
      BY <2>3, <2>4
  <2>6. QED
      BY <2>3, <2>5
<1>2. QED
    BY <1>1, InvariantHolds, PTL

(***************************************************************************)
(* What stays among the pending calls of a call that is over was denied in *)
(* enforce mode or has a result, or an error, that could not be written    *)
(* down (agentkey.py 160-162, 195-202).                                    *)
(***************************************************************************)
THEOREM PendingIsAccounted == Spec => []PendingAccounted
<1>1. LifecycleInv => PendingAccounted
  <2> SUFFICES ASSUME LifecycleInv, NEW entry \in pending
               PROVE  \/ InProgress(entry[1])
                      \/ mode = ENFORCE /\ grant[entry[1]] = "DENY"
                      \/ LeftUnwritten(entry[1])
      BY DEF PendingAccounted
  <2>1. CASE entry[1] \in contexts /\ entry[1] \notin consumed
      BY <2>1 DEF LifecycleInv, Evidence, EvidenceUnderWay, InProgress, At
  <2>2. CASE \E u \in Threads : auth[u] = entry[1] /\ pc[u] = "send"
      BY <2>2 DEF InProgress, At
  <2>3. QED
      BY <2>1, <2>2 DEF LifecycleInv, Evidence, PendingUnderWay
<1>2. QED
    BY <1>1, InvariantHolds, PTL

-----------------------------------------------------------------------------
(***************************************************************************)
(* Evidence of each dispatch, for tools whose outcomes can be written down.*)
(***************************************************************************)
ResultsConfigured == \A a \in Auths : results[a] \subseteq Results

LEMMA ResultsKept ==
    ASSUME LifecycleInv, ResultsConfigured, [Next]_vars
    PROVE  ResultsConfigured'
<1>1. CASE results' = results
    BY <1>1 DEF ResultsConfigured
<1>2. ASSUME NEW t \in Threads, Dispatch(t) PROVE ResultsConfigured'
  <2>1. PICK outcome \in Results :
          results' = [results EXCEPT ![auth[t]] = @ \cup {outcome}]
      BY <1>2 DEF Dispatch
  <2>2. \A a \in Auths : results'[a] \subseteq results[a] \cup {outcome}
      BY <2>1 DEF LifecycleInv, Types, TypeOK
  <2>3. QED
      BY <2>2 DEF ResultsConfigured
<1>3. results' = results \/ \E t \in Threads : Dispatch(t)
    BY DEF vars, Next, ThreadStep, BeginCall, Freeze, Consult, CheckConsumed, MarkConsumed,
       Send, RecordAgain, DispatchAgain
<1>4. QED
    BY <1>1, <1>2, <1>3

(***************************************************************************)
(* decorators.py 17-18, provider.py 169-170: every tool run has left its   *)
(* record when its call is over, for any hosts, clients and threads, if    *)
(* the tools' results and errors can be written down: what the run         *)
(* GuardedCall_evidence needs to break it is one that cannot.              *)
(***************************************************************************)
THEOREM WritableResultsLeaveEvidence ==
    Results \cap Unwritable = {} => (Spec => []EvidenceOfEachDispatch)
<1> SUFFICES ASSUME Results \cap Unwritable = {}
             PROVE  Spec => []EvidenceOfEachDispatch
    OBVIOUS
<1>1. Init => ResultsConfigured
    BY DEF Init, ResultsConfigured
<1>2. LifecycleInv /\ ResultsConfigured /\ [Next]_vars => ResultsConfigured'
    BY ResultsKept
<1>3. LifecycleInv /\ ResultsConfigured /\ EvidenceUnlessUnwritable => EvidenceOfEachDispatch
  <2>1. LifecycleInv => contexts \subseteq Auths
      BY DEF LifecycleInv, Types, TypeOK
  <2>2. QED
      BY <2>1 DEF ResultsConfigured, EvidenceUnlessUnwritable, EvidenceOfEachDispatch,
         LeftUnwritten
<1>4. QED
    BY <1>1, <1>2, <1>3, InvariantHolds, EvidenceIsLeft, PTL DEF Spec
=============================================================================
