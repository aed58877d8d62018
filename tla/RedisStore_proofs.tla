-------------------------- MODULE RedisStore_proofs --------------------------
(***************************************************************************)
(* The Redis-backed store keeps the promise of Permit, for any number of   *)
(* clients and tokens, any skew, length of a second and number of          *)
(* automatic retries.                                                      *)
(***************************************************************************)
EXTENDS RedisStore, TLAPS

USE RedisStoreAssumption

(***************************************************************************)
(* The life that mark_used asks for exceeds what is left of the token by   *)
(* the clock it was computed with, whatever int() cuts off.                *)
(***************************************************************************)
LEMMA QuotientAndRest ==
    ASSUME NEW x \in Nat, NEW s \in Nat \ {0}
    PROVE  x \div s \in Nat /\ (x \div s + 1) * s > x
  OBVIOUS

LEMMA LifeOutlives ==
    ASSUME NEW x \in Int, ~TooLate(Life(x))
    PROVE  Life(x) \in Nat \ {0} /\ Life(x) * Second > x
<1>1. CASE x >= 0
  <2>1. x \div Second \in Nat /\ (x \div Second + 1) * Second > x
    BY <1>1, QuotientAndRest
  <2> QED  BY <1>1, <2>1 DEF Life, Truncated
<1>2. CASE x < 0
  <2>1. (-x) \div Second \in Nat
    BY <1>2, QuotientAndRest
  <2>2. Life(x) = -((-x) \div Second) + 1
    BY <1>2, <2>1 DEF Life, Truncated
  <2>3. Life(x) = 1
    BY <2>1, <2>2 DEF TooLate
  <2> QED  BY <1>2, <2>3
<1> QED  BY <1>1, <1>2

LEMMA LifeIsInt ==
    ASSUME NEW x \in Int
    PROVE  Life(x) \in Int
<1>1. CASE x >= 0
  BY <1>1, QuotientAndRest DEF Life, Truncated
<1>2. CASE x < 0
  <2>1. (-x) \div Second \in Nat
    BY <1>2, QuotientAndRest
  <2> QED  BY <1>2, <2>1 DEF Life, Truncated
<1> QED  BY <1>1, <1>2

-----------------------------------------------------------------------------
(***************************************************************************)
(* Types.                                                                  *)
(***************************************************************************)
LEMMA TypeInit == Init => TypeOK
  BY DEF Init, TypeOK, Unissued, Pcs, Command

CallsTyped ==
    /\ pc \in [Clients -> Pcs]
    /\ request \in [Clients -> Request \cup {None}]
    /\ \A c \in Clients : pc[c] # "idle" => request[c] # None
    /\ \A c \in Clients : pc[c] \in {"sent", "executed"} => request[c].ttl > 0

LEMMA CallTyped ==
    ASSUME TypeOK, NEW c \in Clients, NEW r \in Request, NEW label \in Pcs,
           request' = [request EXCEPT ![c] = r],
           pc' = [pc EXCEPT ![c] = label],
           label \in {"sent", "executed"} => r.ttl > 0
    PROVE  CallsTyped'
<1>1. r # None
  OBVIOUS
<1> QED  BY <1>1 DEF TypeOK, CallsTyped

LEMMA TypeStep == TypeOK /\ [Next]_vars => TypeOK'
<1> SUFFICES ASSUME TypeOK, [Next]_vars
             PROVE  TypeOK'
  OBVIOUS
<1> USE DEF TypeOK, Pcs, At, Goto
<1>1. ASSUME NEW k \in Tokens, Issue(k)
      PROVE  TypeOK'
  BY <1>1 DEF Issue, Skews
<1>2. ASSUME NEW c \in Clients, Verify(c)
      PROVE  TypeOK'
  <2>1. PICK k \in Issued : request' = [request EXCEPT ![c] =
            [token |-> k, ttl |-> 0, tries |-> 0, created |-> FALSE]]
    BY <1>2 DEF Verify
  <2>2. [token |-> k, ttl |-> 0, tries |-> 0, created |-> FALSE] \in Request
    BY DEF Request, Issued
  <2>3. pc' = [pc EXCEPT ![c] = "verified"]
    BY <1>2 DEF Verify
  <2>4. CallsTyped'
    BY <2>1, <2>2, <2>3, CallTyped
  <2>5. presented' \in Nat /\ UNCHANGED <<fail_closed, left, mark, strays, allowed, excused>>
    BY <1>2 DEF Verify
  <2> QED  BY <2>4, <2>5 DEF CallsTyped
<1>3. ASSUME NEW c \in Clients, ReadClock(c)
      PROVE  TypeOK'
  <2>1. PICK ahead \in Skews :
          LET ttl == Life(LeftBy(request[c].token, ahead))
          IN  IF TooLate(ttl)
              THEN Finish(c)
              ELSE Goto(c, "sent") /\ request' = [request EXCEPT ![c].ttl = ttl]
    BY <1>3 DEF ReadClock
  <2> DEFINE ttl == Life(LeftBy(request[c].token, ahead))
  <2>2. request[c] \in Request
    BY <1>3 DEF ReadClock
  <2>3. ttl \in Int
    BY <2>2, LifeIsInt DEF LeftBy, Request, Skews
  <2> HIDE DEF ttl
  <2>4. CASE TooLate(ttl)
    BY <2>1, <2>4, <1>3 DEF ttl, Finish, ReadClock
  <2>5. CASE ~TooLate(ttl)
    <3>1. request' = [request EXCEPT ![c].ttl = ttl] /\ pc' = [pc EXCEPT ![c] = "sent"]
      BY <2>1, <2>5 DEF ttl
    <3>2. [request[c] EXCEPT !.ttl = ttl] \in Request /\ ttl > 0
      BY <2>2, <2>3, <2>5 DEF Request, TooLate
    <3> QED  BY <1>3, <3>1, <3>2, <2>2 DEF ReadClock, Request
  <2> QED  BY <2>4, <2>5
<1>4. ASSUME NEW c \in Clients, Execute(c)
      PROVE  TypeOK'
  <2>1. request[c] \in Request /\ request[c].ttl > 0
    BY <1>4 DEF Execute
  <2>2. request[c].ttl * Second \in Nat
    BY <2>1 DEF Request
  <2>3. mark' \in [Tokens -> Nat]
    BY <1>4, <2>2 DEF Execute, SetIfAbsent
  <2> QED  BY <1>4, <2>1, <2>3 DEF Execute, Created, Request
<1>5. ASSUME NEW c \in Clients, Answer(c)
      PROVE  TypeOK'
  BY <1>5 DEF Answer, Finish, Request
<1>6. ASSUME NEW c \in Clients, Abandon(c)
      PROVE  /\ strays' \subseteq Command
             /\ \A command \in strays' : command.ttl > 0
             /\ request[c] \in Request
  BY <1>6 DEF Abandon, Command, Request
<1>7. ASSUME NEW c \in Clients, Fail(c)
      PROVE  TypeOK'
  BY <1>6, <1>7 DEF Fail, Finish, Request
<1>8. ASSUME NEW c \in Clients, Resend(c)
      PROVE  TypeOK'
  <2>1. request[c] \in Request /\ request[c].ttl > 0
    BY <1>6, <1>8 DEF Resend, Abandon
  <2>2. [request[c] EXCEPT !.tries = @ + 1] \in Request
    BY <2>1 DEF Request
  <2>3. PICK again \in Request :
          again = [request[c] EXCEPT !.tries = @ + 1]
    BY <2>2
  <2>4. again.ttl > 0
    BY <2>1, <2>3 DEF Request
  <2>5. request' = [request EXCEPT ![c] = again] /\ pc' = [pc EXCEPT ![c] = "sent"]
    BY <1>8, <2>3 DEF Resend
  <2>6. CallsTyped'
    BY <2>4, <2>5, CallTyped
  <2> QED  BY <1>6, <1>8, <2>6 DEF Resend, CallsTyped
<1>9. ASSUME NEW c \in Clients, Crash(c)
      PROVE  TypeOK'
  BY <1>6, <1>9 DEF Crash, Finish
<1>10. CASE StrayArrives
  <2>1. PICK command \in strays :
          /\ SetIfAbsent(command.token, command.ttl)
          /\ strays' = strays \ {command}
    BY <1>10 DEF StrayArrives
  <2>2. command.ttl * Second \in Nat
    BY DEF Command
  <2> QED  BY <1>10, <2>1, <2>2 DEF StrayArrives, SetIfAbsent
<1>11. CASE Tick
  BY <1>11 DEF Tick
<1>12. CASE UNCHANGED vars
  BY <1>12 DEF vars
<1> QED
  BY <1>1, <1>2, <1>3, <1>4, <1>5, <1>7, <1>8, <1>9, <1>10, <1>11, <1>12
     DEF Next, ClientStep

(***************************************************************************)
(* Type correctness, and no command asks for a life of nought or less.     *)
(***************************************************************************)
THEOREM TypeCorrect == Spec => []TypeOK
  BY TypeInit, TypeStep, PTL DEF Spec

-----------------------------------------------------------------------------
(***************************************************************************)
(* Marks, calls and strays belong to issued tokens.                        *)
(***************************************************************************)
LEMMA IssuedInit == Init => IssuedOnly
  BY DEF Init, IssuedOnly

LEMMA IssuedStep == TypeOK /\ IssuedOnly /\ [Next]_vars => IssuedOnly'
<1> SUFFICES ASSUME TypeOK, IssuedOnly, [Next]_vars
             PROVE  IssuedOnly'
  OBVIOUS
<1> USE DEF IssuedOnly, Issued, At, Goto
<1>1. ASSUME NEW k \in Tokens, Issue(k)
      PROVE  IssuedOnly'
  BY <1>1 DEF Issue, TypeOK, Unissued, Skews
<1>2. ASSUME NEW c \in Clients, Verify(c)
      PROVE  IssuedOnly'
  BY <1>2 DEF Verify, TypeOK
<1>3. ASSUME NEW c \in Clients, ReadClock(c)
      PROVE  IssuedOnly'
  <2>1. \/ Finish(c)
        \/ \E ttl : /\ request' = [request EXCEPT ![c].ttl = ttl]
                    /\ pc' = [pc EXCEPT ![c] = "sent"]
    BY <1>3 DEF ReadClock
  <2>2. request[c] \in Request /\ request[c].token \in Issued
    BY <1>3 DEF ReadClock, TypeOK
  <2>3. \A d \in Clients : pc'[d] # "idle" => request'[d].token \in Issued
    BY <2>1, <2>2 DEF Finish, TypeOK, Request
  <2> QED  BY <1>3, <2>3 DEF ReadClock
<1>4. ASSUME NEW c \in Clients, Execute(c)
      PROVE  IssuedOnly'
  <2>1. request[c] \in Request /\ request[c].token \in Issued
    BY <1>4 DEF Execute, TypeOK
  <2>2. \A d \in Clients : request'[d] # None => request'[d].token = request[d].token
    BY <1>4, <2>1 DEF Execute, TypeOK, Request
  <2> QED  BY <1>4, <2>1, <2>2 DEF Execute, TypeOK, SetIfAbsent
<1>5. ASSUME NEW c \in Clients, Answer(c)
      PROVE  IssuedOnly'
  <2>1. request[c] \in Request /\ request[c].token \in Issued
    BY <1>5 DEF Answer, TypeOK
  <2> QED  BY <1>5, <2>1 DEF Answer, Finish, TypeOK
<1>6. ASSUME NEW c \in Clients, Abandon(c)
      PROVE  \A command \in strays' : command.token \in Issued
  BY <1>6 DEF Abandon, TypeOK
<1>7. ASSUME NEW c \in Clients, Fail(c)
      PROVE  IssuedOnly'
  <2>1. request[c] \in Request /\ request[c].token \in Issued
    BY <1>7 DEF Fail, Abandon, TypeOK
  <2> QED  BY <1>6, <1>7, <2>1 DEF Fail, Finish, TypeOK
<1>8. ASSUME NEW c \in Clients, Resend(c)
      PROVE  IssuedOnly'
  <2>1. request[c] \in Request /\ request[c].token \in Issued
    BY <1>8 DEF Resend, Abandon, TypeOK
  <2>2. \A d \in Clients : request'[d] # None => request'[d].token = request[d].token
    BY <1>8, <2>1 DEF Resend, TypeOK, Request
  <2> QED  BY <1>6, <1>8, <2>1, <2>2 DEF Resend, TypeOK
<1>9. ASSUME NEW c \in Clients, Crash(c)
      PROVE  IssuedOnly'
  BY <1>6, <1>9 DEF Crash, Finish, TypeOK
<1>10. CASE StrayArrives
  BY <1>10 DEF StrayArrives, SetIfAbsent, TypeOK, Command
<1>11. CASE Tick
  BY <1>11 DEF Tick, TypeOK, Unissued
<1>12. CASE UNCHANGED vars
  BY <1>12 DEF vars
<1> QED
  BY <1>1, <1>2, <1>3, <1>4, <1>5, <1>7, <1>8, <1>9, <1>10, <1>11, <1>12
     DEF Next, ClientStep

-----------------------------------------------------------------------------
(***************************************************************************)
(* Marks outlive tokens.                                                   *)
(***************************************************************************)
LEMMA OutliveInit == Init => MarksOutlive
  BY DEF Init, MarksOutlive

LEMMA OutliveStep == TypeOK /\ IssuedOnly /\ MarksOutlive /\ [Next]_vars => MarksOutlive'
<1> SUFFICES ASSUME TypeOK, IssuedOnly, MarksOutlive, [Next]_vars
             PROVE  MarksOutlive'
  OBVIOUS
<1> USE DEF MarksOutlive, OutlivesToken, At, Goto
<1>1. ASSUME NEW k \in Tokens, Issue(k)
      PROVE  MarksOutlive'
  BY <1>1 DEF Issue, TypeOK, IssuedOnly, Issued
<1>2. ASSUME NEW c \in Clients, Verify(c)
      PROVE  MarksOutlive'
  BY <1>2 DEF Verify, TypeOK
<1>3. ASSUME NEW c \in Clients, ReadClock(c)
      PROVE  MarksOutlive'
  <2> DEFINE k == request[c].token
  <2>1. request[c] \in Request /\ k \in Tokens
    BY <1>3 DEF ReadClock, TypeOK, Request
  <2>2. \/ Finish(c)
        \/ \E ttl \in Nat :
              /\ ttl * Second > left[k] - MaxSkew
              /\ request' = [request EXCEPT ![c].ttl = ttl]
              /\ pc' = [pc EXCEPT ![c] = "sent"]
    <3>1. PICK ahead \in Skews :
            LET ttl == Life(LeftBy(request[c].token, ahead))
            IN  IF TooLate(ttl)
                THEN Finish(c)
                ELSE Goto(c, "sent") /\ request' = [request EXCEPT ![c].ttl = ttl]
      BY <1>3 DEF ReadClock
    <3> DEFINE x == left[k] - ahead
    <3>2. x \in Int /\ x >= left[k] - MaxSkew
      BY <2>1 DEF TypeOK, Skews
    <3>3. CASE TooLate(Life(x))
      BY <3>1, <3>3 DEF LeftBy
    <3>4. CASE ~TooLate(Life(x))
      <4>1. Life(x) \in Nat \ {0} /\ Life(x) * Second > x
        BY <3>2, <3>4, LifeOutlives
      <4>2. Life(x) * Second \in Int
        BY <4>1
      <4>3. left[k] - MaxSkew \in Int
        BY <2>1 DEF TypeOK
      <4>4. Life(x) * Second > left[k] - MaxSkew
        BY <4>1, <4>2, <4>3, <3>2
      <4> QED  BY <3>1, <3>4, <4>1, <4>4 DEF LeftBy
    <3> QED  BY <3>3, <3>4
  <2>3. \A d \in Clients : pc'[d] \in {"sent", "executed"} =>
            request'[d].ttl * Second > left[request'[d].token] - MaxSkew
    <3>1. CASE Finish(c)
      BY <3>1, <1>3 DEF Finish, TypeOK
    <3>2. ASSUME NEW ttl \in Nat,
                 ttl * Second > left[k] - MaxSkew,
                 request' = [request EXCEPT ![c].ttl = ttl],
                 pc' = [pc EXCEPT ![c] = "sent"]
          PROVE  \A d \in Clients : pc'[d] \in {"sent", "executed"} =>
                     request'[d].ttl * Second > left[request'[d].token] - MaxSkew
      <4>1. request'[c].ttl = ttl /\ request'[c].token = k
        BY <3>2, <2>1 DEF TypeOK, Request
      <4> QED  BY <3>2, <4>1 DEF TypeOK
    <3> QED  BY <2>2, <3>1, <3>2
  <2> QED  BY <1>3, <2>3 DEF ReadClock
<1>4. ASSUME NEW k \in Tokens, NEW ttl \in Nat, ttl * Second > left[k] - MaxSkew,
             SetIfAbsent(k, ttl), UNCHANGED left
      PROVE  \A j \in Tokens : mark'[j] > 0 => mark'[j] > left'[j] - MaxSkew
  BY <1>4 DEF SetIfAbsent, TypeOK
<1>5. ASSUME NEW c \in Clients, Execute(c)
      PROVE  MarksOutlive'
  <2>1. /\ request[c] \in Request
        /\ request[c].token \in Tokens
        /\ request[c].ttl \in Nat
        /\ request[c].ttl * Second > left[request[c].token] - MaxSkew
    BY <1>5 DEF Execute, TypeOK, Request
  <2>2. \A j \in Tokens : mark'[j] > 0 => mark'[j] > left'[j] - MaxSkew
    BY <1>4, <1>5, <2>1 DEF Execute
  <2>3. \A d \in Clients : request[d] # None =>
            request'[d].token = request[d].token /\ request'[d].ttl = request[d].ttl
    BY <1>5, <2>1 DEF Execute, TypeOK, Request
  <2>4. \A d \in Clients : pc'[d] \in {"sent", "executed"} => pc[d] \in {"sent", "executed"}
    BY <1>5 DEF Execute, TypeOK
  <2> QED  BY <1>5, <2>2, <2>3, <2>4 DEF Execute, TypeOK
<1>6. ASSUME NEW c \in Clients, Answer(c)
      PROVE  MarksOutlive'
  BY <1>6 DEF Answer, Finish, TypeOK
<1>7. ASSUME NEW c \in Clients, Abandon(c)
      PROVE  \A command \in strays' :
                 command.ttl * Second > left[command.token] - MaxSkew
  BY <1>7 DEF Abandon, TypeOK
<1>8. ASSUME NEW c \in Clients, Fail(c)
      PROVE  MarksOutlive'
  BY <1>7, <1>8 DEF Fail, Finish, TypeOK
<1>9. ASSUME NEW c \in Clients, Resend(c)
      PROVE  MarksOutlive'
  <2>1. request[c] \in Request /\ pc[c] \in {"sent", "executed"}
    BY <1>9 DEF Resend, Abandon, TypeOK
  <2>2. \A d \in Clients : request[d] # None =>
            request'[d].token = request[d].token /\ request'[d].ttl = request[d].ttl
    BY <1>9, <2>1 DEF Resend, TypeOK, Request
  <2>3. \A d \in Clients : pc'[d] \in {"sent", "executed"} => pc[d] \in {"sent", "executed"}
    BY <1>9, <2>1 DEF Resend, TypeOK
  <2> QED  BY <1>7, <1>9, <2>2, <2>3 DEF Resend, TypeOK
<1>10. ASSUME NEW c \in Clients, Crash(c)
      PROVE  MarksOutlive'
  BY <1>7, <1>10 DEF Crash, Finish, TypeOK
<1>11. CASE StrayArrives
  <2>1. PICK command \in strays :
          /\ SetIfAbsent(command.token, command.ttl)
          /\ strays' = strays \ {command}
    BY <1>11 DEF StrayArrives
  <2>2. /\ command.token \in Tokens /\ command.ttl \in Nat
        /\ command.ttl * Second > left[command.token] - MaxSkew
    BY DEF TypeOK, Command
  <2>3. \A j \in Tokens : mark'[j] > 0 => mark'[j] > left'[j] - MaxSkew
    BY <1>4, <1>11, <2>1, <2>2 DEF StrayArrives
  <2> QED  BY <1>11, <2>1, <2>3 DEF StrayArrives
<1>12. CASE Tick
  <2>1. \A k \in Tokens : left'[k] \in Int /\ left'[k] <= left[k]
    BY <1>12 DEF Tick, TypeOK
  <2>2. \A k \in Tokens : mark'[k] > 0 => mark'[k] > left'[k] - MaxSkew
    BY <1>12 DEF Tick, TypeOK
  <2>3. ASSUME NEW k \in Tokens, NEW ttl \in Nat, ttl * Second > left[k] - MaxSkew
        PROVE  ttl * Second > left'[k] - MaxSkew
    <3>1. ttl * Second \in Int
      OBVIOUS
    <3> QED  BY <2>1, <2>3, <3>1 DEF TypeOK
  <2>4. \A c \in Clients : pc'[c] \in {"sent", "executed"} =>
            request'[c].ttl * Second > left'[request'[c].token] - MaxSkew
    <3> SUFFICES ASSUME NEW c \in Clients, pc[c] \in {"sent", "executed"}
                 PROVE  request[c].ttl * Second > left'[request[c].token] - MaxSkew
      BY <1>12 DEF Tick
    <3>1. request[c].token \in Tokens /\ request[c].ttl \in Nat
      BY DEF TypeOK, Request
    <3> QED  BY <2>3, <3>1
  <2>5. \A command \in strays' :
            command.ttl * Second > left'[command.token] - MaxSkew
    <3> SUFFICES ASSUME NEW command \in strays
                 PROVE  command.ttl * Second > left'[command.token] - MaxSkew
      BY <1>12 DEF Tick
    <3>1. command.token \in Tokens /\ command.ttl \in Nat
      BY DEF TypeOK, Command
    <3> QED  BY <2>3, <3>1
  <2> QED  BY <2>2, <2>4, <2>5
<1>13. CASE UNCHANGED vars
  BY <1>13 DEF vars
<1> QED
  BY <1>1, <1>2, <1>3, <1>5, <1>6, <1>8, <1>9, <1>10, <1>11, <1>12, <1>13
     DEF Next, ClientStep

-----------------------------------------------------------------------------
(***************************************************************************)
(* Of a fresh token one client is told that it made the mark, and while it *)
(* has not let its bearer through nobody has.                              *)
(***************************************************************************)
LEMMA ToldInit == Init => OneIsTold
  BY DEF Init, OneIsTold, Told, At

LEMMA ToldStep ==
    TypeOK /\ IssuedOnly /\ MarksOutlive /\ OneIsTold /\ [Next]_vars => OneIsTold'
<1> SUFFICES ASSUME TypeOK, IssuedOnly, MarksOutlive, OneIsTold, [Next]_vars
             PROVE  OneIsTold'
  OBVIOUS
<1> USE DEF OneIsTold, Fresh, Told, At, Goto
<1>1. ASSUME NEW k \in Tokens, Issue(k)
      PROVE  OneIsTold'
  <2>1. \A c \in Clients : pc[c] = "executed" => request[c].token # k
    BY <1>1 DEF Issue, IssuedOnly, Issued
  <2> QED  BY <1>1, <2>1 DEF Issue, TypeOK, IssuedOnly
<1>2. ASSUME NEW c \in Clients, Verify(c)
      PROVE  OneIsTold'
  BY <1>2 DEF Verify, TypeOK
<1>3. ASSUME NEW c \in Clients, ReadClock(c)
      PROVE  OneIsTold'
  <2>1. /\ pc'[c] # "executed"
        /\ \A d \in Clients \ {c} : pc'[d] = pc[d] /\ request'[d] = request[d]
    BY <1>3 DEF ReadClock, Finish, TypeOK
  <2> QED  BY <1>3, <2>1 DEF ReadClock
<1>4. ASSUME NEW k \in Tokens, NEW ttl \in Nat \ {0}, SetIfAbsent(k, ttl)
      PROVE  /\ mark' \in [Tokens -> Nat]
             /\ mark'[k] > 0
             /\ \A j \in Tokens : mark[j] > 0 => mark'[j] > 0
  <2>1. ttl * Second \in Nat /\ ttl * Second > 0
    OBVIOUS
  <2> QED  BY <1>4, <2>1 DEF SetIfAbsent, TypeOK
<1>5. ASSUME NEW c \in Clients, Execute(c)
      PROVE  OneIsTold'
  <2> DEFINE k == request[c].token
  <2>1. request[c] \in Request /\ k \in Tokens /\ request[c].ttl \in Nat \ {0}
    BY <1>5 DEF Execute, TypeOK, Request
  <2>2. /\ mark'[k] > 0
        /\ \A j \in Tokens : mark[j] > 0 => mark'[j] > 0
    BY <1>4, <1>5, <2>1 DEF Execute
  <2>3. /\ request'[c].token = k
        /\ request'[c].created = (mark[k] = 0)
        /\ \A d \in Clients \ {c} : pc'[d] = pc[d] /\ request'[d] = request[d]
    BY <1>5, <2>1 DEF Execute, Created, TypeOK, Request
  <2>4. UNCHANGED <<left, allowed, excused>>
    BY <1>5 DEF Execute
  <2> SUFFICES ASSUME NEW j \in Tokens, Fresh(j)'
               PROVE  /\ allowed[j] > excused[j] => mark'[j] > 0
                      /\ allowed[j] <= 1 + excused[j]
                      /\ \A d \in Clients : Told(d, j)' =>
                            /\ mark'[j] > 0
                            /\ allowed[j] <= excused[j]
                            /\ \A e \in Clients : Told(e, j)' => e = d
    BY <2>4
  <2>5. /\ allowed[j] > excused[j] => mark[j] > 0
        /\ allowed[j] <= 1 + excused[j]
        /\ mark[j] \in Nat /\ allowed[j] \in Nat /\ excused[j] \in Nat
    BY <2>4 DEF TypeOK
  <2>6. CASE j # k \/ mark[k] # 0
    <3>1. \A d \in Clients : Told(d, j)' => Told(d, j)
      BY <2>3, <2>6
    <3>2. \A d \in Clients : Told(d, j) =>
              mark[j] > 0 /\ allowed[j] <= excused[j] /\ \A e \in Clients : Told(e, j) => e = d
      BY <2>4
    <3> QED  BY <2>2, <2>5, <3>1, <3>2
  <2>7. CASE j = k /\ mark[k] = 0
    <3>1. allowed[j] <= excused[j]
      BY <2>5, <2>7
    <3>2. \A d \in Clients \ {c} : ~Told(d, j)'
      BY <2>3, <2>4, <2>7
    <3> QED  BY <2>2, <2>5, <2>7, <3>1, <3>2
  <2> QED  BY <2>6, <2>7
<1>6. ASSUME NEW c \in Clients, Answer(c)
      PROVE  OneIsTold'
  <2> DEFINE k == request[c].token
  <2>1. request[c] \in Request /\ k \in Tokens
    BY <1>6 DEF Answer, TypeOK, Request
  <2>2. /\ pc'[c] = "idle"
        /\ \A d \in Clients \ {c} : pc'[d] = pc[d] /\ request'[d] = request[d]
        /\ UNCHANGED <<left, mark, excused>>
    BY <1>6 DEF Answer, Finish, TypeOK
  <2>3. CASE ~request[c].created
    BY <1>6, <2>2, <2>3 DEF Answer
  <2>4. CASE request[c].created
    <3>1. allowed' = [allowed EXCEPT ![k] = @ + 1]
      BY <1>6, <2>4 DEF Answer
    <3>2. Told(c, k)
      BY <1>6, <2>4 DEF Answer
    <3>3. Fresh(k) => /\ mark[k] > 0 /\ allowed[k] <= excused[k]
                      /\ \A d \in Clients : Told(d, k) => d = c
      BY <2>1, <3>2
    <3>4. \A d \in Clients, j \in Tokens : Told(d, j)' => Told(d, j) /\ d # c
      BY <2>2
    <3>5. \A j \in Tokens \ {k} : allowed'[j] = allowed[j]
      BY <3>1 DEF TypeOK
    <3>6. allowed'[k] = allowed[k] + 1
      BY <2>1, <3>1 DEF TypeOK
    <3>7. Fresh(k) => allowed'[k] <= 1 + excused[k]
      BY <2>1, <3>3, <3>6 DEF TypeOK
    <3> QED  BY <2>2, <3>3, <3>4, <3>5, <3>7
  <2> QED  BY <2>3, <2>4
<1>7. ASSUME NEW c \in Clients, Fail(c)
      PROVE  OneIsTold'
  <2> DEFINE k == request[c].token
  <2>1. request[c] \in Request /\ k \in Tokens
    BY <1>7 DEF Fail, Abandon, TypeOK, Request
  <2>2. /\ pc'[c] = "idle"
        /\ \A d \in Clients \ {c} : pc'[d] = pc[d] /\ request'[d] = request[d]
        /\ UNCHANGED <<left, mark>>
    BY <1>7 DEF Fail, Finish, TypeOK
  <2>3. \A d \in Clients, j \in Tokens : Told(d, j)' => Told(d, j) /\ d # c
    BY <2>2
  <2>4. \A j \in Tokens :
            \/ allowed'[j] = allowed[j] /\ excused'[j] = excused[j]
            \/ allowed'[j] = allowed[j] + 1 /\ excused'[j] = excused[j] + 1
    BY <1>7, <2>1 DEF Fail, TypeOK
  <2>5. \A j \in Tokens : allowed[j] \in Nat /\ excused[j] \in Nat
    BY DEF TypeOK
  <2> QED  BY <2>2, <2>3, <2>4, <2>5
<1>8. ASSUME NEW c \in Clients, Resend(c)
      PROVE  OneIsTold'
  <2>1. /\ pc'[c] = "sent"
        /\ \A d \in Clients \ {c} : pc'[d] = pc[d] /\ request'[d] = request[d]
    BY <1>8 DEF Resend, TypeOK
  <2> QED  BY <1>8, <2>1 DEF Resend
<1>9. ASSUME NEW c \in Clients, Crash(c)
      PROVE  OneIsTold'
  <2>1. /\ pc'[c] = "idle"
        /\ \A d \in Clients \ {c} : pc'[d] = pc[d] /\ request'[d] = request[d]
    BY <1>9 DEF Crash, Finish, TypeOK
  <2> QED  BY <1>9, <2>1 DEF Crash
<1>10. CASE StrayArrives
  <2>1. PICK command \in strays : SetIfAbsent(command.token, command.ttl)
    BY <1>10 DEF StrayArrives
  <2>2. command.token \in Tokens /\ command.ttl \in Nat \ {0}
    BY DEF TypeOK, Command
  <2>3. \A j \in Tokens : mark[j] > 0 => mark'[j] > 0
    BY <1>4, <2>1, <2>2
  <2> QED  BY <1>10, <2>3 DEF StrayArrives
<1>11. CASE Tick
  <2>1. \A k \in Tokens : Fresh(k)' => Fresh(k) /\ left'[k] = left[k] - 1
    BY <1>11 DEF Tick, TypeOK
  <2>2. \A k \in Tokens : Fresh(k)' /\ mark[k] > 0 => mark'[k] > 0
    BY <1>11, <2>1 DEF Tick, TypeOK, MarksOutlive, OutlivesToken
  <2> QED  BY <1>11, <2>1, <2>2 DEF Tick
<1>12. CASE UNCHANGED vars
  BY <1>12 DEF vars
<1> QED
  BY <1>1, <1>2, <1>3, <1>5, <1>6, <1>7, <1>8, <1>9, <1>10, <1>11, <1>12
     DEF Next, ClientStep

-----------------------------------------------------------------------------
LEMMA StoreInit == Init => StoreInv
  BY TypeInit, IssuedInit, OutliveInit, ToldInit DEF StoreInv, Init

LEMMA StoreStep == StoreInv /\ [Next]_vars => StoreInv'
<1> SUFFICES ASSUME StoreInv, [Next]_vars
             PROVE  StoreInv'
  OBVIOUS
<1>1. UNCHANGED fail_closed
  BY DEF Next, ClientStep, Issue, Verify, ReadClock, Execute, Answer, Fail, Resend,
         Crash, StrayArrives, Tick, vars
<1>2. fail_closed => UNCHANGED excused
  BY DEF Next, ClientStep, Issue, Verify, ReadClock, Execute, Answer, Fail, Resend,
         Crash, StrayArrives, Tick, vars, Open
<1> QED
  BY <1>1, <1>2, TypeStep, IssuedStep, OutliveStep, ToldStep DEF StoreInv

(***************************************************************************)
(* The invariant of the store holds.                                       *)
(***************************************************************************)
THEOREM InvariantHolds == Spec => []StoreInv
  BY StoreInit, StoreStep, PTL DEF Spec

(***************************************************************************)
(* While it is unexpired by every clock a token is let through once, and   *)
(* once more for each unanswered use under fail-open.                      *)
(***************************************************************************)
THEOREM SpendsAreAccounted == Spec => []SpendsAccounted
<1>1. StoreInv => SpendsAccounted
  BY DEF StoreInv, OneIsTold, SpendsAccounted
<1> QED  BY <1>1, InvariantHolds, PTL

-----------------------------------------------------------------------------
(***************************************************************************)
(* Refinement.  What the phase of a token says, in this state and in the   *)
(* next.                                                                   *)
(***************************************************************************)
Binding(k) == Fresh(k) /\ excused[k] = 0
SomeoneTold(k) == \E c \in Clients : Told(c, k)

PhasesRead ==
    \A k \in Tokens :
        /\ left[k] = Unissued => PhaseOf(k) = "unissued"
        /\ left[k] # Unissued => PhaseOf(k) # "unissued"
        /\ left[k] # Unissued /\ ~Binding(k) => PhaseOf(k) = "released"
        /\ Binding(k) /\ allowed[k] > 0 => PhaseOf(k) = "spent"
        /\ Binding(k) /\ ~(allowed[k] > 0) /\ mark[k] > 0 /\ ~SomeoneTold(k)
              => PhaseOf(k) = "burned"
        /\ Binding(k) /\ ~(allowed[k] > 0) /\ (~(mark[k] > 0) \/ SomeoneTold(k))
              => PhaseOf(k) = "live"

LEMMA FreshIsIssued ==
    ASSUME NEW x \in Int, x >= MaxSkew
    PROVE  x # Unissued
  BY DEF Unissued

LEMMA ReadPhases == TypeOK => PhasesRead
<1> SUFFICES ASSUME TypeOK, NEW k \in Tokens
             PROVE  PhasesRead!(k)
  BY DEF PhasesRead
<1>1. Fresh(k) => left[k] # Unissued
  BY FreshIsIssued DEF TypeOK, Fresh
<1>2. CASE left[k] = Unissued
  BY <1>1, <1>2 DEF PhaseOf, Binding
<1>3. CASE left[k] # Unissued /\ ~Binding(k)
  BY <1>3 DEF PhaseOf, Binding, TypeOK
<1>4. CASE left[k] # Unissued /\ Binding(k)
  BY <1>4 DEF PhaseOf, Binding, SomeoneTold
<1> QED  BY <1>2, <1>3, <1>4

LEMMA ReadNextPhases == TypeOK' => PhasesRead'
  BY ReadPhases, PTL

LEMMA ImplementsInit == Init => Promise!Init
<1> SUFFICES ASSUME Init
             PROVE  Promise!Init
  OBVIOUS
<1>1. \A k \in Tokens : PhaseOf(k) = "unissued"
  BY ReadPhases, TypeInit DEF PhasesRead, Init
<1> QED  BY <1>1 DEF Promise!Init, Init

(***************************************************************************)
(* A token nothing is done to keeps its phase.                             *)
(***************************************************************************)
Undisturbed(k) ==
    /\ left'[k] = left[k] /\ allowed'[k] = allowed[k] /\ excused'[k] = excused[k]
    /\ (mark'[k] > 0) <=> (mark[k] > 0)
    /\ SomeoneTold(k)' <=> SomeoneTold(k)

LEMMA SamePhase ==
    ASSUME TypeOK, TypeOK', NEW k \in Tokens, Undisturbed(k)
    PROVE  PhaseOf(k)' = PhaseOf(k)
<1>1. PhasesRead /\ PhasesRead'
  BY ReadPhases, ReadNextPhases
<1>2. Binding(k)' <=> Binding(k)
  BY DEF Binding, Fresh, Undisturbed
<1>3. CASE left[k] = Unissued
  BY <1>1, <1>3 DEF PhasesRead, Undisturbed
<1>4. CASE left[k] # Unissued /\ ~Binding(k)
  BY <1>1, <1>2, <1>4 DEF PhasesRead, Undisturbed
<1>5. CASE Binding(k) /\ allowed[k] > 0
  BY <1>1, <1>2, <1>5 DEF PhasesRead, Undisturbed
<1>6. CASE Binding(k) /\ ~(allowed[k] > 0) /\ mark[k] > 0 /\ ~SomeoneTold(k)
  BY <1>1, <1>2, <1>6 DEF PhasesRead, Undisturbed
<1>7. CASE Binding(k) /\ ~(allowed[k] > 0) /\ (~(mark[k] > 0) \/ SomeoneTold(k))
  BY <1>1, <1>2, <1>7 DEF PhasesRead, Undisturbed
<1> QED  BY <1>3, <1>4, <1>5, <1>6, <1>7

Phases == [k \in Tokens |-> PhaseOf(k)]

(***************************************************************************)
(* When one token is disturbed, the map of phases changes there only.      *)
(***************************************************************************)
LEMMA OnePhase ==
    ASSUME TypeOK, TypeOK', NEW k \in Tokens, \A j \in Tokens \ {k} : Undisturbed(j)
    PROVE  Phases' = [Phases EXCEPT ![k] = PhaseOf(k)']
<1>1. \A j \in Tokens \ {k} : PhaseOf(j)' = PhaseOf(j)
  BY SamePhase
<1> QED  BY <1>1 DEF Phases

LEMMA NoPhase ==
    ASSUME TypeOK, TypeOK', \A k \in Tokens : Undisturbed(k)
    PROVE  Phases' = Phases
<1>1. \A k \in Tokens : PhaseOf(k)' = PhaseOf(k)
  BY SamePhase
<1> QED  BY <1>1 DEF Phases

(***************************************************************************)
(* A client's step concerns the token of its request.                      *)
(***************************************************************************)
OnlyClient(c) ==
    \A d \in Clients \ {c} : pc'[d] = pc[d] /\ request'[d] = request[d]

LEMMA ToldElsewhere ==
    ASSUME NEW c \in Clients, OnlyClient(c), NEW k \in Tokens,
           Told(c, k)' <=> Told(c, k)
    PROVE  SomeoneTold(k)' <=> SomeoneTold(k)
  BY DEF OnlyClient, SomeoneTold, Told, At

\* A call given up, or answered that it did not make the mark: the token of one
\* that had made it is burned.
LEMMA GivenUp ==
    ASSUME StoreInv, StoreInv', NEW c \in Clients, pc[c] # "idle", OnlyClient(c),
           pc'[c] # "executed", UNCHANGED <<left, mark, allowed, excused>>
    PROVE  [Promise!Next]_(Promise!permit)
<1>1. PICK k \in Tokens : k = request[c].token
  BY DEF StoreInv, TypeOK, Request
<1>2. \A j \in Tokens : ~Told(c, j)'
  BY DEF Told, At
<1>3. \A j \in Tokens : Told(c, j) => j = k
  BY <1>1 DEF Told
<1>4. \A j \in Tokens \ {k} : Undisturbed(j)
  BY <1>2, <1>3, ToldElsewhere DEF Undisturbed
<1>5. Phases' = [Phases EXCEPT ![k] = PhaseOf(k)']
  BY <1>1, <1>4, OnePhase DEF StoreInv
<1>6. CASE Told(c, k) /\ Binding(k)
  <2>1. /\ mark[k] > 0 /\ ~(allowed[k] > 0)
        /\ \A d \in Clients : Told(d, k) => d = c
    BY <1>1, <1>6 DEF StoreInv, OneIsTold, Binding, TypeOK
  <2>2. SomeoneTold(k)
    BY <1>6 DEF SomeoneTold
  <2>3. ~SomeoneTold(k)'
    BY <1>1, <1>2, <2>1 DEF SomeoneTold, Told, At, OnlyClient
  <2>4. Binding(k)' /\ mark'[k] > 0 /\ ~(allowed'[k] > 0)
    BY <1>6, <2>1 DEF Binding, Fresh
  <2>5. PhaseOf(k) = "live" /\ PhaseOf(k)' = "burned"
    BY <1>1, <1>6, <2>1, <2>2, <2>3, <2>4, ReadPhases, ReadNextPhases
       DEF PhasesRead, StoreInv
  <2> QED  BY <1>1, <1>5, <2>5 DEF Promise!Next, Promise!Burn, Promise!Become, Phases
<1>7. CASE ~Told(c, k)
  <2>1. Undisturbed(k)
    BY <1>1, <1>2, <1>7, ToldElsewhere DEF Undisturbed
  <2>2. Phases' = Phases
    BY <1>4, <2>1, NoPhase DEF StoreInv
  <2> QED  BY <2>2 DEF Promise!permit, Phases
<1>8. CASE ~Binding(k)
  <2>1. ~Binding(k)'
    BY <1>8 DEF Binding, Fresh
  <2>2. PhaseOf(k)' = PhaseOf(k)
    BY <1>1, <1>8, <2>1, ReadPhases, ReadNextPhases DEF PhasesRead, StoreInv
  <2>3. Phases' = Phases
    BY <1>1, <1>5, <2>2 DEF Phases
  <2> QED  BY <2>3 DEF Promise!permit, Phases
<1> QED  BY <1>6, <1>7, <1>8

\* A step of a client that is told nothing, before or after it.
LEMMA Untold ==
    ASSUME StoreInv, StoreInv', NEW c \in Clients, OnlyClient(c),
           pc[c] # "executed", pc'[c] # "executed",
           UNCHANGED <<left, mark, allowed, excused>>
    PROVE  UNCHANGED Promise!permit
<1>1. \A k \in Tokens : Undisturbed(k)
  BY ToldElsewhere DEF Told, At, Undisturbed
<1>2. Phases' = Phases
  BY <1>1, NoPhase DEF StoreInv
<1> QED  BY <1>2 DEF Promise!permit, Phases

\* SET NX by a command whose client waits for the reply.
LEMMA ExecuteImplements ==
    ASSUME StoreInv, StoreInv', NEW c \in Clients, Execute(c)
    PROVE  UNCHANGED Promise!permit
<1>1. PICK k \in Tokens : k = request[c].token
  BY DEF StoreInv, TypeOK, Request, Execute, At
<1>2. /\ request[c] \in Request /\ request[c].ttl \in Nat \ {0}
      /\ pc[c] = "sent" /\ pc'[c] = "executed"
  BY DEF StoreInv, TypeOK, Request, Execute, At, Goto
<1>3. /\ request'[c].token = k
      /\ mark[k] = 0 => request'[c].created = TRUE
      /\ mark[k] # 0 => request'[c].created = FALSE
  BY <1>1, <1>2 DEF Execute, Created, StoreInv, TypeOK, Request
<1>4. OnlyClient(c) /\ UNCHANGED <<left, allowed, excused>>
  BY DEF Execute, Goto, StoreInv, TypeOK, OnlyClient
<1>5. request[c].ttl * Second > 0
  BY <1>2
<1>6. /\ mark'[k] > 0
      /\ \A j \in Tokens \ {k} : mark'[j] = mark[j]
  BY <1>1, <1>2, <1>5 DEF Execute, SetIfAbsent, StoreInv, TypeOK
<1>7. \A j \in Tokens \ {k} : Undisturbed(j)
  <2>1. \A j \in Tokens \ {k} : ~Told(c, j) /\ ~Told(c, j)'
    BY <1>1, <1>3 DEF Told
  <2> QED  BY <1>4, <1>6, <2>1, ToldElsewhere DEF Undisturbed
<1>8. CASE mark[k] > 0
  <2>1. ~Told(c, k) /\ ~Told(c, k)'
    <3>1. mark[k] # 0
      BY <1>8
    <3> QED  BY <1>2, <1>3, <3>1 DEF Told, At
  <2>2. Undisturbed(k)
    BY <1>4, <1>6, <1>8, <2>1, ToldElsewhere DEF Undisturbed
  <2>3. Phases' = Phases
    BY <1>7, <2>2, NoPhase DEF StoreInv
  <2> QED  BY <1>4, <2>3 DEF Promise!permit, Phases
<1>9. CASE ~(mark[k] > 0)
  <2>1. Told(c, k)'
    <3>1. mark[k] = 0
      BY <1>9 DEF StoreInv, TypeOK
    <3> QED  BY <1>2, <1>3, <3>1 DEF Told, At
  <2>2. SomeoneTold(k)'
    BY <2>1 DEF SomeoneTold
  <2>3. Binding(k)' <=> Binding(k)
    BY <1>4 DEF Binding, Fresh
  <2>4. PhasesRead /\ PhasesRead'
    BY ReadPhases, ReadNextPhases DEF StoreInv
  <2>5. PhaseOf(k)' = PhaseOf(k)
    <3>1. CASE Binding(k)
      <4>1. ~(allowed[k] > 0) /\ ~(allowed'[k] > 0)
        BY <1>4, <1>9, <3>1 DEF Binding, StoreInv, OneIsTold, TypeOK
      <4> QED  BY <1>9, <2>2, <2>3, <2>4, <3>1, <4>1 DEF PhasesRead
    <3>2. CASE ~Binding(k)
      BY <1>4, <2>3, <2>4, <3>2 DEF PhasesRead
    <3> QED  BY <3>1, <3>2
  <2>6. Phases' = Phases
    BY <1>7, <2>5, OnePhase DEF StoreInv, Phases
  <2> QED  BY <1>4, <2>6 DEF Promise!permit, Phases
<1> QED  BY <1>8, <1>9

\* The bearer is let through, because the mark was made or for want of an answer.
LEMMA LetThroughImplements ==
    ASSUME StoreInv, StoreInv', NEW c \in Clients, pc[c] # "idle", OnlyClient(c),
           pc'[c] = "idle", UNCHANGED <<left, mark>>,
           allowed' = [allowed EXCEPT ![request[c].token] = @ + 1],
           \/ At(c, "executed") /\ request[c].created /\ UNCHANGED excused
           \/ excused' = [excused EXCEPT ![request[c].token] = @ + 1]
    PROVE  Promise!Next
<1>1. PICK k \in Tokens : k = request[c].token
  BY DEF StoreInv, TypeOK, Request
<1>2. /\ \A j \in Tokens : ~Told(c, j)'
      /\ \A j \in Tokens \ {k} : ~Told(c, j)
  BY <1>1 DEF Told, At
<1>3. /\ allowed'[k] = allowed[k] + 1 /\ allowed'[k] > 0
      /\ \A j \in Tokens \ {k} : allowed'[j] = allowed[j] /\ excused'[j] = excused[j]
  BY <1>1 DEF StoreInv, TypeOK
<1>4. \A j \in Tokens \ {k} : Undisturbed(j)
  BY <1>2, <1>3, ToldElsewhere DEF Undisturbed
<1>5. Phases' = [Phases EXCEPT ![k] = PhaseOf(k)']
  BY <1>4, OnePhase DEF StoreInv
<1>6. Promise!Spent(k)
  BY <1>1 DEF Promise!Spent
<1>7. PhasesRead /\ PhasesRead'
  BY ReadPhases, ReadNextPhases DEF StoreInv
<1>8. left[k] # Unissued
  BY <1>1 DEF StoreInv, IssuedOnly, Issued
<1>9. CASE excused' = [excused EXCEPT ![request[c].token] = @ + 1]
  <2>1. excused'[k] # 0
    BY <1>1, <1>9 DEF StoreInv, TypeOK
  <2>2. PhaseOf(k)' = "released" /\ PhaseOf(k) # "unissued"
    BY <1>7, <1>8, <2>1 DEF PhasesRead, Binding
  <2>3. Promise!Waive(k)
    BY <1>5, <1>6, <2>2 DEF Promise!Waive, Promise!Become, Phases
  <2> QED  BY <2>3 DEF Promise!Next
<1>10. CASE Told(c, k) /\ UNCHANGED excused
  <2>1. Binding(k)' <=> Binding(k)
    BY <1>10 DEF Binding, Fresh
  <2>2. CASE Binding(k)
    <3>1. ~(allowed[k] > 0) /\ SomeoneTold(k)
      BY <1>10, <2>2 DEF Binding, StoreInv, OneIsTold, SomeoneTold, TypeOK
    <3>2. PhaseOf(k) = "live" /\ PhaseOf(k)' = "spent"
      BY <1>3, <1>7, <2>1, <2>2, <3>1 DEF PhasesRead
    <3>3. Promise!Spend(k)
      BY <1>5, <1>6, <3>2 DEF Promise!Spend, Promise!Become, Phases
    <3> QED  BY <3>3 DEF Promise!Next
  <2>3. CASE ~Binding(k)
    <3>1. PhaseOf(k) = "released" /\ PhaseOf(k)' = "released"
      BY <1>7, <1>8, <2>1, <2>3 DEF PhasesRead
    <3>2. Promise!SpendReleased(k)
      BY <1>5, <1>6, <3>1 DEF Promise!SpendReleased, Phases
    <3> QED  BY <3>2 DEF Promise!Next
  <2> QED  BY <2>2, <2>3
<1> QED  BY <1>1, <1>9, <1>10 DEF Told

\* A command that arrives after its client gave it up burns a live token.
LEMMA StrayImplements ==
    ASSUME StoreInv, StoreInv', StrayArrives
    PROVE  [Promise!Next]_(Promise!permit)
<1>1. PICK command \in strays : SetIfAbsent(command.token, command.ttl)
  BY DEF StrayArrives
<1>2. PICK k \in Tokens : k = command.token
  BY DEF StoreInv, TypeOK, Command
<1>3. command.ttl \in Nat \ {0}
  BY DEF StoreInv, TypeOK, Command
<1>4. command.ttl * Second > 0
  BY <1>3
<1>5. /\ mark'[k] > 0
      /\ \A j \in Tokens \ {k} : mark'[j] = mark[j]
  BY <1>1, <1>2, <1>3, <1>4 DEF SetIfAbsent, StoreInv, TypeOK
<1>6. /\ UNCHANGED <<left, pc, request, allowed, excused>>
      /\ \A j \in Tokens : SomeoneTold(j)' <=> SomeoneTold(j)
  BY DEF StrayArrives, SomeoneTold, Told, At
<1>7. \A j \in Tokens \ {k} : Undisturbed(j)
  BY <1>5, <1>6 DEF Undisturbed
<1>8. Phases' = [Phases EXCEPT ![k] = PhaseOf(k)']
  BY <1>7, OnePhase DEF StoreInv
<1>9. PhasesRead /\ PhasesRead'
  BY ReadPhases, ReadNextPhases DEF StoreInv
<1>10. Binding(k)' <=> Binding(k)
  BY <1>6 DEF Binding, Fresh
<1>11. CASE Binding(k) /\ ~(mark[k] > 0)
  <2>1. ~(allowed[k] > 0) /\ ~SomeoneTold(k)
    BY <1>11 DEF Binding, StoreInv, OneIsTold, SomeoneTold, TypeOK
  <2>2. PhaseOf(k) = "live"
    BY <1>9, <1>11, <2>1 DEF PhasesRead
  <2>3. PhaseOf(k)' = "burned"
    BY <1>5, <1>6, <1>9, <1>10, <1>11, <2>1 DEF PhasesRead
  <2>4. Promise!Burn(k)
    BY <1>6, <1>8, <2>2, <2>3 DEF Promise!Burn, Promise!Become, Phases
  <2> QED  BY <2>4 DEF Promise!Next
<1>12. CASE mark[k] > 0
  <2>1. Undisturbed(k)
    BY <1>5, <1>6, <1>12 DEF Undisturbed
  <2>2. Phases' = Phases
    BY <1>7, <2>1, NoPhase DEF StoreInv
  <2> QED  BY <1>6, <2>2 DEF Promise!permit, Phases
<1>13. CASE ~Binding(k)
  <2>1. PhaseOf(k)' = PhaseOf(k)
    BY <1>6, <1>9, <1>10, <1>13 DEF PhasesRead
  <2>2. Phases' = Phases
    BY <1>8, <2>1 DEF Phases
  <2> QED  BY <1>6, <2>2 DEF Promise!permit, Phases
<1> QED  BY <1>11, <1>12, <1>13

\* Time releases the tokens that some clock now takes for expired.
LEMMA TickImplements ==
    ASSUME StoreInv, StoreInv', Tick
    PROVE  Promise!Next
<1> DEFINE ks == {k \in Tokens : left[k] # Unissued /\ ~(left[k] - 1 >= MaxSkew /\ excused[k] = 0)}
<1>1. UNCHANGED <<pc, request, allowed, excused>>
  BY DEF Tick
<1>2. \A k \in Tokens : SomeoneTold(k)' <=> SomeoneTold(k)
  BY <1>1 DEF SomeoneTold, Told, At
<1>3. PhasesRead /\ PhasesRead'
  BY ReadPhases, ReadNextPhases DEF StoreInv
<1>4. ASSUME NEW k \in ks
      PROVE  PhaseOf(k) # "unissued" /\ PhaseOf(k)' = "released"
  <2>1. left'[k] # Unissued /\ ~Binding(k)'
    BY <1>1, <1>4 DEF Tick, StoreInv, TypeOK, Binding, Fresh, Unissued
  <2> QED  BY <1>3, <1>4, <2>1 DEF PhasesRead
<1>5. ASSUME NEW k \in Tokens \ ks
      PROVE  PhaseOf(k)' = PhaseOf(k)
  <2>1. CASE left[k] = Unissued
    <3>1. left'[k] = Unissued
      BY <2>1 DEF Tick, StoreInv, TypeOK, Unissued
    <3> QED  BY <1>3, <2>1, <3>1 DEF PhasesRead
  <2>2. CASE left[k] - 1 >= MaxSkew /\ excused[k] = 0
    <3>1. Binding(k) /\ Binding(k)'
      BY <1>1, <2>2 DEF Tick, StoreInv, TypeOK, Binding, Fresh
    <3>2. mark[k] > 0 <=> mark'[k] > 0
      BY <2>2 DEF Tick, StoreInv, TypeOK, MarksOutlive, OutlivesToken
    <3>3. CASE allowed[k] > 0
      BY <1>1, <1>3, <3>1, <3>3 DEF PhasesRead
    <3>4. CASE ~(allowed[k] > 0) /\ mark[k] > 0 /\ ~SomeoneTold(k)
      BY <1>1, <1>2, <1>3, <3>1, <3>2, <3>4 DEF PhasesRead
    <3>5. CASE ~(allowed[k] > 0) /\ (~(mark[k] > 0) \/ SomeoneTold(k))
      BY <1>1, <1>2, <1>3, <3>1, <3>2, <3>5 DEF PhasesRead
    <3> QED  BY <3>3, <3>4, <3>5
  <2> QED  BY <2>1, <2>2
<1> HIDE DEF ks
<1>6. ks \in SUBSET Tokens
  BY DEF ks
<1>7. Phases' = [k \in Tokens |-> IF k \in ks THEN "released" ELSE Phases[k]]
  BY <1>4, <1>5, <1>6 DEF Phases
<1>8. Promise!Release(ks)
  BY <1>1, <1>4, <1>6, <1>7 DEF Promise!Release, Phases
<1> QED  BY <1>6, <1>8 DEF Promise!Next

LEMMA IssueImplements ==
    ASSUME StoreInv, StoreInv', NEW k \in Tokens, Issue(k)
    PROVE  Promise!Next
<1>1. UNCHANGED <<mark, pc, request, allowed, excused>>
  BY DEF Issue
<1>2. \A j \in Tokens : SomeoneTold(j)' <=> SomeoneTold(j)
  BY <1>1 DEF SomeoneTold, Told, At
<1>3. PhasesRead /\ PhasesRead'
  BY ReadPhases, ReadNextPhases DEF StoreInv
<1>4. \A j \in Tokens \ {k} : Undisturbed(j)
  BY <1>1, <1>2 DEF Issue, StoreInv, TypeOK, Undisturbed
<1>5. Phases' = [Phases EXCEPT ![k] = PhaseOf(k)']
  BY <1>4, OnePhase DEF StoreInv
<1>6. left[k] = Unissued /\ mark[k] = 0 /\ allowed[k] = 0 /\ excused[k] = 0
  BY DEF Issue, StoreInv, IssuedOnly
<1>7. left'[k] >= MaxSkew
  BY DEF Issue, Skews, StoreInv, TypeOK
<1>8. PhaseOf(k) = "unissued"
  BY <1>3, <1>6 DEF PhasesRead
<1>9. PhaseOf(k)' = "live"
  BY <1>1, <1>3, <1>6, <1>7 DEF PhasesRead, Binding, Fresh
<1>10. Promise!Issue(k)
  BY <1>1, <1>5, <1>8, <1>9 DEF Promise!Issue, Promise!Become, Phases
<1> QED  BY <1>10 DEF Promise!Next

LEMMA ImplementsStep ==
    ASSUME StoreInv, StoreInv', [Next]_vars
    PROVE  [Promise!Next]_(Promise!permit)
<1> USE DEF StoreInv, TypeOK, OnlyClient, At, Goto, Finish
<1>1. ASSUME NEW c \in Clients, Verify(c)
      PROVE  UNCHANGED Promise!permit
  BY <1>1, Untold DEF Verify
<1>2. ASSUME NEW c \in Clients, ReadClock(c)
      PROVE  UNCHANGED Promise!permit
  <2>1. OnlyClient(c) /\ pc[c] # "executed" /\ pc'[c] # "executed"
    BY <1>2 DEF ReadClock
  <2> QED  BY <1>2, <2>1, Untold DEF ReadClock
<1>3. ASSUME NEW c \in Clients, Answer(c)
      PROVE  [Promise!Next]_(Promise!permit)
  <2>1. OnlyClient(c) /\ pc[c] = "executed" /\ pc'[c] = "idle"
    BY <1>3 DEF Answer
  <2>2. CASE request[c].created
    BY <1>3, <2>1, <2>2, LetThroughImplements DEF Answer
  <2>3. CASE ~request[c].created
    BY <1>3, <2>1, <2>3, GivenUp DEF Answer
  <2> QED  BY <2>2, <2>3
<1>4. ASSUME NEW c \in Clients, Fail(c)
      PROVE  [Promise!Next]_(Promise!permit)
  <2>1. OnlyClient(c) /\ pc[c] # "idle" /\ pc'[c] = "idle"
    BY <1>4 DEF Fail, Abandon
  <2>2. CASE Open
    BY <1>4, <2>1, <2>2, LetThroughImplements DEF Fail
  <2>3. CASE ~Open
    BY <1>4, <2>1, <2>3, GivenUp DEF Fail
  <2> QED  BY <2>2, <2>3
<1>5. ASSUME NEW c \in Clients, Resend(c)
      PROVE  [Promise!Next]_(Promise!permit)
  <2>1. OnlyClient(c) /\ pc[c] # "idle" /\ pc'[c] # "executed"
    BY <1>5 DEF Resend, Abandon
  <2> QED  BY <1>5, <2>1, GivenUp DEF Resend
<1>6. ASSUME NEW c \in Clients, Crash(c)
      PROVE  [Promise!Next]_(Promise!permit)
  <2>1. OnlyClient(c) /\ pc[c] # "idle" /\ pc'[c] # "executed"
    BY <1>6 DEF Crash, Abandon
  <2> QED  BY <1>6, <2>1, GivenUp DEF Crash
<1>7. CASE UNCHANGED vars
  <2>1. \A k \in Tokens : Undisturbed(k)
    BY <1>7 DEF vars, Undisturbed, SomeoneTold, Told
  <2>2. Phases' = Phases
    BY <2>1, NoPhase
  <2> QED  BY <1>7, <2>2 DEF vars, Promise!permit, Phases
<1> QED
  BY <1>1, <1>2, <1>3, <1>4, <1>5, <1>6, <1>7, ExecuteImplements, StrayImplements,
     TickImplements, IssueImplements DEF Next, ClientStep

(***************************************************************************)
(* The Redis-backed store keeps the promise of Permit: a token is spent at *)
(* most once across replicas until some clock has reached its expiry, and  *)
(* a burned one never.                                                     *)
(***************************************************************************)
THEOREM Implements == Spec => KeepsPermit
<1>1. Init => Promise!Init
  BY ImplementsInit
<1>2. StoreInv /\ StoreInv' /\ [Next]_vars => [Promise!Next]_(Promise!permit)
  BY ImplementsStep
<1> QED  BY <1>1, <1>2, InvariantHolds, PTL DEF Spec, KeepsPermit, Promise!Spec
=============================================================================
