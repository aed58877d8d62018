--------------------------- MODULE AuditTrail_proofs ---------------------------
(***************************************************************************)
(* Proofs about AuditTrail, for any number of threads, events and sinks:   *)
(* every sink there was when record was called is served or has failed,    *)
(* and lines of a file are torn by faults and by long events recorded at   *)
(* the same time only.                                                     *)
(*                                                                         *)
(* The argument.  While a thread goes through self.sinks, each sink it has *)
(* done with has the event or has failed on it, and add_sink, which only   *)
(* appends, moves none of them; at the end of the list these are all the   *)
(* sinks the event was due at.  A line that has not ended is either left   *)
(* by a fault or about to be ended by a thread that is still in record, so *)
(* what is added to it meanwhile was recorded at the same time.            *)
(***************************************************************************)
EXTENDS AuditTrail, SequenceTheorems, TLAPS

(***************************************************************************)
(* The inductive invariant.  An event is recorded once and by one thread;  *)
(* what is in a file, or over, has been recorded.                          *)
(***************************************************************************)
RecordedOnce ==
    /\ \A t \in Threads : event[t] # None =>
           length[event[t]] # None /\ event[t] \notin over
    /\ \A t, u \in Threads : event[t] # None /\ event[t] = event[u] => t = u
    /\ \A e \in over : length[e] # None
    /\ \A e \in Events : before[e] \subseteq over
    /\ \A f \in Files : \A i \in 1 .. Len(file[f]) : length[file[f][i].event] # None

\* Where a thread is tells what the sink is that it is at.
Placed ==
    \A t \in Threads :
        /\ pc[t] \notin {"idle", "fanout"} => next[t] > 1
        /\ pc[t] \in {"write", "close"} => Sink(t) \in Files
        /\ pc[t] = "post" => Sink(t) \in Webhooks
        /\ pc[t] = "emit" => Sink(t) \in Others
        /\ pc[t] = "close" => length[event[t]] # "unwritable"

Delivered(s, e) == Has(s, e) \/ <<s, e>> \in missed

\* The places in self.sinks a thread has done with.
DoneWith(t) ==
    {i \in 1 .. Len(sinks) : i < next[t] /\ (pc[t] # "fanout" => i < next[t] - 1)}

DeliversInTurn ==
    \A t \in Threads : event[t] # None =>
        /\ \A s \in due[event[t]] : IsIn(s)
        /\ \A i \in DoneWith(t) : Delivered(sinks[i], event[t])
        /\ pc[t] = "close" => length[event[t]] = "short" \/ Has(Sink(t), event[t])

\* The line that the write i of f belongs to has not ended.
Open(f, i) == \A k \in i .. Len(file[f]) : file[f][k].kind \notin {"line", "newline"}

\* A fault accounts for it, or a thread is about to end it.
Faulted(f, e) == <<f, e>> \in missed \/ e \in killed
Ending(t, f, e) == /\ pc[t] = "close" /\ Sink(t) = f
                   /\ event[t] = e /\ length[e] = "long"

OpenLinesAccounted ==
    \A f \in Files : \A i \in 1 .. Len(file[f]) :
        Open(f, i) => \/ Faulted(f, file[f][i].event)
                      \/ \E t \in Threads : Ending(t, f, file[f][i].event)

TrailInv ==
    /\ TypeOK
    /\ RecordedOnce
    /\ Placed
    /\ DeliversInTurn
    /\ DeliveredUnlessFailed
    /\ OpenLinesAccounted
    /\ LinesTornByConcurrentLong

-----------------------------------------------------------------------------

(***************************************************************************)
(* What a thread at a sink does to it, outcome by outcome: emit wrote, or  *)
(* it raised.                                                              *)
(***************************************************************************)
AtSink == {"write", "close", "post", "emit"}

Missing(t) == missed' = missed \cup {<<Sink(t), event[t]>>}

Wrote(t, kind) ==
    /\ Reaches(Sink(t), kind, event[t])
    /\ UNCHANGED taken

Buffered(t) ==
    /\ pc[t] = "write" /\ Goto(t, "close") /\ length[event[t]] = "short"
    /\ UNCHANGED <<file, taken, missed>>
LeftOpen(t) ==
    /\ pc[t] = "write" /\ Goto(t, "close") /\ length[event[t]] = "long"
    /\ Wrote(t, "body") /\ UNCHANGED missed
CutOff(t) ==
    /\ pc[t] = "write" \/ (pc[t] = "close" /\ length[event[t]] = "short")
    /\ Goto(t, "fanout") /\ Wrote(t, "part") /\ Missing(t)
Failed(t) ==
    /\ Goto(t, "fanout") /\ UNCHANGED <<file, taken>> /\ Missing(t)
WroteLine(t) ==
    /\ pc[t] = "close" /\ Goto(t, "fanout") /\ length[event[t]] = "short"
    /\ Wrote(t, "line") /\ UNCHANGED missed
EndedLine(t) ==
    /\ pc[t] = "close" /\ Goto(t, "fanout") /\ length[event[t]] # "short"
    /\ Wrote(t, "newline") /\ UNCHANGED missed
Took(t) ==
    /\ pc[t] \in {"post", "emit"} /\ Goto(t, "fanout")
    /\ Takes(Sink(t), event[t]) /\ UNCHANGED <<file, missed>>

Emission(t) ==
    /\ pc[t] \in AtSink
    /\ UNCHANGED <<sinks, event, next, silent, length, due, before, over, killed>>
    /\ \/ Buffered(t) \/ LeftOpen(t) \/ CutOff(t) \/ Failed(t) \/ WroteLine(t)
       \/ EndedLine(t) \/ Took(t)

Base == TypeOK /\ RecordedOnce /\ Placed

LEMMA Emissions ==
    ASSUME Base, NEW t \in Threads,
           WriteEvent(t) \/ CloseFile(t) \/ Post(t) \/ Emit(t) \/ Unwritable(t)
    PROVE  Emission(t)
<1>1. /\ pc[t] \in AtSink
      /\ UNCHANGED <<sinks, event, next, silent, length, due, before, over, killed>>
  BY DEF WriteEvent, CloseFile, Post, Emit, Unwritable, CutShort, Swallow, At, AtSink
<1>2. length[event[t]] \in {"short", "long", "unwritable"}
  BY <1>1 DEF Base, TypeOK, RecordedOnce, AtSink, At, EventLengths
<1>3. CASE WriteEvent(t)
  BY <1>1, <1>2, <1>3 DEF Emission, WriteEvent, CutShort, Swallow, At, Buffers, Missing,
     Wrote, Buffered, LeftOpen, CutOff, Failed
<1>4. CASE CloseFile(t)
  BY <1>1, <1>2, <1>4 DEF Emission, CloseFile, Flushes, CutShort, Swallow, At, Buffers,
     Missing, Wrote, CutOff, Failed, WroteLine, EndedLine
<1>5. CASE Post(t) \/ Emit(t) \/ Unwritable(t)
  BY <1>1, <1>5 DEF Emission, Post, Emit, Unwritable, Swallow, At, Missing, Failed, Took
<1> QED
  BY <1>3, <1>4, <1>5

(***************************************************************************)
(* The sink a thread is at, and where a step leaves it.                    *)
(***************************************************************************)
LEMMA SinkOf ==
    ASSUME Base, NEW t \in Threads, pc[t] \in AtSink
    PROVE  /\ next[t] - 1 \in 1 .. Len(sinks) /\ Sink(t) \in Sinks
           /\ event[t] \in Events
<1>1. next[t] \in 1 .. Len(sinks) + 1 /\ next[t] > 1 /\ Len(sinks) \in Nat
  BY DEF Base, TypeOK, Placed, AtSink
<1>2. next[t] - 1 \in 1 .. Len(sinks)
  BY <1>1
<1>3. event[t] \in Events
  BY DEF Base, TypeOK, At, AtSink
<1> QED
  BY <1>2, <1>3 DEF Base, TypeOK, Sink

LEMMA SinksAppended ==
    ASSUME Base, NEW s \in Sinks, sinks' = Append(sinks, s)
    PROVE  /\ sinks' \in Seq(Sinks) /\ Len(sinks') = Len(sinks) + 1
           /\ \A i \in 1 .. Len(sinks) : sinks'[i] = sinks[i]
           /\ Len(sinks) \in Nat
BY DEF Base, TypeOK

\* Places that a step leaves as they are.
LEMMA SinkKept ==
    ASSUME Base, NEW t \in Threads, pc[t] \in AtSink, next'[t] = next[t],
           sinks' = sinks \/ \E s \in Sinks : sinks' = Append(sinks, s)
    PROVE  Sink(t)' = Sink(t)
<1>1. next[t] - 1 \in 1 .. Len(sinks)
  BY SinkOf
<1>2. \A i \in 1 .. Len(sinks) : sinks'[i] = sinks[i]
  BY SinksAppended
<1> QED
  BY <1>1, <1>2 DEF Sink

(***************************************************************************)
(* A write is the last of its file.                                        *)
(***************************************************************************)
LEMMA WriteIsLast ==
    ASSUME Base, NEW t \in Threads, pc[t] \in {"write", "close"}, NEW kind \in Kinds,
           Wrote(t, kind)
    PROVE  LET f == Sink(t)
               n == Len(file[f])
           IN  /\ f \in Files /\ n \in Nat
               /\ file' \in [Files -> Seq(Piece)]
               /\ Len(file'[f]) = n + 1
               /\ \A i \in 1 .. n : file'[f][i] = file[f][i]
               /\ file'[f][n + 1].kind = kind /\ file'[f][n + 1].event = event[t]
               /\ \A g \in Files : g # f => file'[g] = file[g]
<1> DEFINE f == Sink(t)
<1> PICK x : x = [kind |-> kind, event |-> event[t]]
  OBVIOUS
<1>1. x \in Piece /\ x.kind = kind /\ x.event = event[t]
  BY SinkOf DEF Piece, AtSink
<1>2. f \in Files /\ file \in [Files -> Seq(Piece)]
  BY DEF Base, Placed, TypeOK
<1>3. file' = [file EXCEPT ![f] = Append(@, x)]
  BY DEF Wrote, Reaches
<1> HIDE DEF f
<1>4. file[f] \in Seq(Piece)
  BY <1>2
<1>5. file'[f] = Append(file[f], x) /\ \A g \in Files : g # f => file'[g] = file[g]
  BY <1>2, <1>3
<1>6. /\ Append(file[f], x) \in Seq(Piece) /\ Len(file[f]) \in Nat
      /\ Len(Append(file[f], x)) = Len(file[f]) + 1
      /\ \A i \in 1 .. Len(file[f]) : Append(file[f], x)[i] = file[f][i]
      /\ Append(file[f], x)[Len(file[f]) + 1] = x
  BY <1>1, <1>4
<1>7. file' \in [Files -> Seq(Piece)]
  BY <1>2, <1>3, <1>6
<1> QED
  BY <1>1, <1>2, <1>5, <1>6, <1>7 DEF f

-----------------------------------------------------------------------------
(***************************************************************************)
(* Types, uniqueness and places.                                           *)
(***************************************************************************)
LEMMA EmissionBase ==
    ASSUME Base, NEW t \in Threads, Emission(t)
    PROVE  Base'
<1>1. /\ Sink(t) \in Sinks /\ event[t] \in Events /\ pc[t] \in AtSink
      /\ pc' = [pc EXCEPT ![t] = "close"] \/ pc' = [pc EXCEPT ![t] = "fanout"]
      /\ pc' = [pc EXCEPT ![t] = "close"] =>
            pc[t] = "write" /\ length[event[t]] \in {"short", "long"}
  <2>1. pc[t] \in AtSink
    BY DEF Emission
  <2>2. \/ pc' = [pc EXCEPT ![t] = "close"] /\ pc[t] = "write"
           /\ length[event[t]] \in {"short", "long"}
        \/ pc' = [pc EXCEPT ![t] = "fanout"]
    BY DEF Emission, Buffered, LeftOpen, CutOff, Failed, WroteLine, EndedLine, Took, Goto
  <2>3. [pc EXCEPT ![t] = "close"] # [pc EXCEPT ![t] = "fanout"]
    BY DEF Base, TypeOK
  <2> QED
    BY <2>1, <2>2, <2>3, SinkOf
<1>2. UNCHANGED <<sinks, event, next, silent, length, due, before, over, killed>>
  BY DEF Emission
<1>3. missed' \subseteq Sinks \X Events
  <2>1. missed' = missed \/ Missing(t)
    BY DEF Emission, Buffered, LeftOpen, CutOff, Failed, WroteLine, EndedLine, Took
  <2> QED
    BY <1>1, <2>1 DEF Missing, Base, TypeOK
<1>4. taken' \in [Webhooks \cup Others -> SUBSET Events]
  <2>1. taken' = taken \/ Takes(Sink(t), event[t])
    BY DEF Emission, Buffered, LeftOpen, CutOff, Failed, WroteLine, EndedLine, Took, Wrote
  <2> QED
    BY <1>1, <2>1 DEF Takes, Base, TypeOK
<1>5. \/ file' = file
      \/ pc[t] \in {"write", "close"} /\ \E kind \in Kinds : Wrote(t, kind)
  BY DEF Emission, Buffered, LeftOpen, CutOff, Failed, WroteLine, EndedLine, Took, Kinds
<1>6. /\ file' \in [Files -> Seq(Piece)]
      /\ \A f \in Files : \A i \in 1 .. Len(file'[f]) : length[file'[f][i].event] # None
  <2>1. CASE file' = file
    BY <2>1 DEF Base, TypeOK, RecordedOnce
  <2>2. CASE file' # file
    <3>1. PICK kind \in Kinds : Wrote(t, kind)
      BY <1>5, <2>2
    <3>2. PICK f : f = Sink(t)
      OBVIOUS
    <3>3. PICK n : n = Len(file[f])
      OBVIOUS
    <3>4. /\ f \in Files /\ n \in Nat
          /\ file' \in [Files -> Seq(Piece)]
          /\ Len(file'[f]) = n + 1
          /\ \A i \in 1 .. n : file'[f][i] = file[f][i]
          /\ file'[f][n + 1].event = event[t]
          /\ \A g \in Files : g # f => file'[g] = file[g]
      BY <1>5, <2>2, <3>1, <3>2, <3>3, WriteIsLast
    <3>5. length[event[t]] # None
      BY <1>1, AuditTrailAssumption DEF Base, RecordedOnce, TypeOK, At, AtSink
    <3>6. \A g \in Files : \A i \in 1 .. Len(file[g]) : length[file[g][i].event] # None
      BY DEF Base, RecordedOnce
    <3>7. \A i \in 1 .. (n + 1) : length[file'[f][i].event] # None
      <4>1. \A i \in 1 .. (n + 1) : i \in 1 .. n \/ i = n + 1
        BY <3>4
      <4> QED
        BY <3>3, <3>4, <3>5, <3>6, <4>1
    <3> QED
      BY <3>4, <3>6, <3>7
  <2> QED
    BY <2>1, <2>2
<1>7. pc' \in [Threads -> Pcs] /\ \A u \in Threads : event[u] = None <=> pc'[u] = "idle"
  BY <1>1, AuditTrailAssumption DEF Base, TypeOK, Pcs, At, AtSink
<1>8. TypeOK'
  BY <1>2, <1>3, <1>4, <1>6, <1>7 DEF Base, TypeOK, At
<1>9. RecordedOnce'
  BY <1>2, <1>6 DEF Base, RecordedOnce
<1>10. Placed'
  <2> SUFFICES ASSUME NEW u \in Threads
               PROVE  /\ pc'[u] \notin {"idle", "fanout"} => next[u] > 1
                      /\ pc'[u] \in {"write", "close"} => Sink(u) \in Files
                      /\ pc'[u] = "post" => Sink(u) \in Webhooks
                      /\ pc'[u] = "emit" => Sink(u) \in Others
                      /\ pc'[u] = "close" => length[event[u]] # "unwritable"
    BY <1>2 DEF Placed, Sink
  <2>1. CASE u # t
    <3>1. pc'[u] = pc[u]
      BY <1>1, <2>1 DEF Base, TypeOK
    <3> QED
      BY <3>1 DEF Base, Placed
  <2>2. CASE u = t
    BY <1>1, <2>2 DEF Base, TypeOK, Placed
  <2> QED
    BY <2>1, <2>2
<1> QED
  BY <1>8, <1>9, <1>10 DEF Base

LEMMA RecordBase ==
    ASSUME Base, NEW t \in Threads, Record(t)
    PROVE  Base'
<1>1. PICK e \in Events, l \in Lengths :
        /\ length[e] = None /\ length' = [length EXCEPT ![e] = l]
        /\ event' = [event EXCEPT ![t] = e]
        /\ due' = [due EXCEPT ![e] = {s \in Sinks : IsIn(s)}]
        /\ before' = [before EXCEPT ![e] = over]
  BY DEF Record
<1>2. /\ pc' = [pc EXCEPT ![t] = "fanout"] /\ next' = [next EXCEPT ![t] = 1]
      /\ UNCHANGED <<sinks, file, taken, silent, missed, over, killed>>
      /\ pc[t] = "idle"
  BY DEF Record, Goto, At
<1>3. l \in EventLengths /\ l # None /\ e # None
  BY AuditTrailAssumption
<1>4. TypeOK'
  <2>1. pc' \in [Threads -> Pcs] /\ event' \in [Threads -> Events \cup {None}]
    BY <1>1, <1>2 DEF Base, TypeOK, Pcs
  <2>2. \A u \in Threads : event'[u] = None <=> pc'[u] = "idle"
    BY <1>1, <1>2, <1>3 DEF Base, TypeOK, At
  <2>3. next' \in [Threads -> 1 .. Len(sinks') + 1]
    <3>1. Len(sinks) \in Nat /\ sinks' = sinks
      BY <1>2 DEF Base, TypeOK
    <3>2. 1 \in 1 .. Len(sinks) + 1
      BY <3>1
    <3> QED
      BY <1>2, <3>1, <3>2 DEF Base, TypeOK
  <2>4. /\ length' \in [Events -> EventLengths \cup {None}]
        /\ due' \in [Events -> SUBSET Sinks]
        /\ before' \in [Events -> SUBSET Events]
    BY <1>1, <1>3 DEF Base, TypeOK
  <2> QED
    BY <1>2, <2>1, <2>2, <2>3, <2>4 DEF Base, TypeOK, At
<1>5. RecordedOnce'
  <2>1. \A u \in Threads : u # t /\ event[u] # None =>
           /\ event'[u] = event[u] /\ event[u] # e /\ length'[event[u]] = length[event[u]]
    BY <1>1 DEF Base, RecordedOnce, TypeOK
  <2>2. event'[t] = e /\ length'[e] # None /\ e \notin over
    BY <1>1, <1>3 DEF Base, RecordedOnce, TypeOK
  <2>3. \A u \in Threads : event'[u] # None => u = t \/ event[u] # None
    BY <1>1 DEF Base, TypeOK
  <2>4. \A u \in Threads : event'[u] # None =>
           length'[event'[u]] # None /\ event'[u] \notin over'
    BY <1>2, <2>1, <2>2, <2>3 DEF Base, RecordedOnce
  <2>5. \A u, v \in Threads : event'[u] # None /\ event'[u] = event'[v] => u = v
    BY <1>3, <2>1, <2>2, <2>3 DEF Base, RecordedOnce
  <2>6. \A d : length[d] # None => length'[d] # None
    BY <1>1, <1>3 DEF Base, TypeOK
  <2>7. \A d \in Events : before'[d] \subseteq over'
    BY <1>1, <1>2 DEF Base, TypeOK, RecordedOnce
  <2> QED
    BY <1>2, <2>4, <2>5, <2>6, <2>7 DEF Base, RecordedOnce
<1>6. Placed'
  <2> SUFFICES ASSUME NEW u \in Threads, u # t
               PROVE  /\ pc'[u] \notin {"idle", "fanout"} => next'[u] > 1
                      /\ pc'[u] \in {"write", "close"} => Sink(u)' \in Files
                      /\ pc'[u] = "post" => Sink(u)' \in Webhooks
                      /\ pc'[u] = "emit" => Sink(u)' \in Others
                      /\ pc'[u] = "close" => length'[event'[u]] # "unwritable"
    BY <1>2 DEF Placed, Base, TypeOK
  <2>1. pc'[u] = pc[u] /\ next'[u] = next[u] /\ event'[u] = event[u]
    BY <1>1, <1>2 DEF Base, TypeOK
  <2>2. Sink(u)' = Sink(u)
    BY <1>2, <2>1 DEF Sink
  <2>3. pc[u] = "close" => length'[event[u]] = length[event[u]]
    BY <1>1 DEF Base, TypeOK, RecordedOnce, At
  <2> QED
    BY <2>1, <2>2, <2>3 DEF Base, Placed
<1> QED
  BY <1>4, <1>5, <1>6 DEF Base

LEMMA LoopBase ==
    ASSUME Base, NEW t \in Threads, NextSink(t) \/ Return(t)
    PROVE  Base'
<1>1. pc[t] = "fanout" /\ event[t] \in Events
  BY DEF NextSink, Return, At, Base, TypeOK
<1>2. Len(sinks) \in Nat /\ next \in [Threads -> 1 .. Len(sinks) + 1]
  BY DEF Base, TypeOK
<1>3. CASE NextSink(t)
  <2>1. PICK s : s = sinks[next[t]]
    OBVIOUS
  <2>2. /\ next' = [next EXCEPT ![t] = @ + 1] /\ next[t] <= Len(sinks)
        /\ UNCHANGED <<sinks, event, file, taken, silent, length, history>>
    BY <1>3 DEF NextSink
  <2>3. s \in Sinks /\ next'[t] = next[t] + 1 /\ next[t] \in Nat /\ next[t] > 0
    BY <1>2, <2>1, <2>2 DEF Base, TypeOK
  <2>4. PICK label \in AtSink :
          /\ pc' = [pc EXCEPT ![t] = label]
          /\ label = "write" => s \in Files
          /\ label = "post" => s \in Webhooks
          /\ label = "emit" => s \in Others
          /\ label # "close"
    BY <1>3, <2>1, <2>3, AuditTrailAssumption DEF NextSink, Goto, AtSink, Sinks
  <2>5. TypeOK'
    <3>1. pc' \in [Threads -> Pcs] /\ \A u \in Threads : event[u] = None <=> pc'[u] = "idle"
      BY <1>1, <2>4, AuditTrailAssumption DEF Base, TypeOK, At, Pcs, AtSink
    <3>2. next' \in [Threads -> 1 .. Len(sinks) + 1]
      BY <1>2, <2>2, <2>3
    <3> QED
      BY <2>2, <3>1, <3>2 DEF Base, TypeOK, At, history
  <2>6. RecordedOnce'
    BY <2>2 DEF Base, RecordedOnce, history
  <2>7. Placed'
    <3>1. ASSUME NEW u \in Threads, u # t
          PROVE  pc'[u] = pc[u] /\ next'[u] = next[u] /\ Sink(u)' = Sink(u)
      BY <2>2, <2>4, <3>1 DEF Base, TypeOK, Sink
    <3>2. Sink(t)' = s /\ pc'[t] = label /\ next'[t] > 1
      <4>1. next'[t] - 1 = next[t] /\ next'[t] > 1
        BY <2>3
      <4> QED
        BY <2>1, <2>2, <2>4, <4>1 DEF Sink, Base, TypeOK
    <3> QED
      BY <2>2, <2>4, <3>1, <3>2 DEF Base, Placed, AtSink
  <2> QED
    BY <2>5, <2>6, <2>7 DEF Base
<1>4. CASE Return(t)
  <2>1. /\ over' = over \cup {event[t]} /\ event' = [event EXCEPT ![t] = None]
        /\ next' = [next EXCEPT ![t] = 1] /\ pc' = [pc EXCEPT ![t] = "idle"]
        /\ UNCHANGED <<sinks, file, taken, silent, length, missed, due, before, killed>>
    BY <1>4 DEF Return, Goto
  <2>2. TypeOK'
    <3>1. pc' \in [Threads -> Pcs] /\ event' \in [Threads -> Events \cup {None}]
      BY <2>1 DEF Base, TypeOK, Pcs
    <3>2. \A u \in Threads : event'[u] = None <=> pc'[u] = "idle"
      BY <2>1 DEF Base, TypeOK, At
    <3>3. next' \in [Threads -> 1 .. Len(sinks) + 1]
      <4>1. 1 \in 1 .. Len(sinks) + 1
        BY <1>2
      <4> QED
        BY <1>2, <2>1, <4>1
    <3>4. over' \subseteq Events
      BY <1>1, <2>1 DEF Base, TypeOK
    <3> QED
      BY <2>1, <3>1, <3>2, <3>3, <3>4 DEF Base, TypeOK, At
  <2>3. RecordedOnce'
    <3>1. \A u \in Threads : event'[u] # None =>
             u # t /\ event'[u] = event[u] /\ event[u] # event[t]
      BY <1>1, <2>1, AuditTrailAssumption DEF Base, TypeOK, RecordedOnce
    <3>2. length[event[t]] # None
      BY <1>1, AuditTrailAssumption DEF Base, RecordedOnce
    <3>3. \A u \in Threads : event'[u] # None =>
             length'[event'[u]] # None /\ event'[u] \notin over'
      BY <2>1, <3>1 DEF Base, RecordedOnce
    <3>4. \A u, v \in Threads : event'[u] # None /\ event'[u] = event'[v] => u = v
      BY <3>1 DEF Base, RecordedOnce
    <3>5. \A e \in over' : length'[e] # None
      BY <2>1, <3>2 DEF Base, RecordedOnce
    <3> QED
      BY <2>1, <3>3, <3>4, <3>5 DEF Base, RecordedOnce
  <2>4. Placed'
    <3>1. ASSUME NEW u \in Threads, u # t
          PROVE  /\ pc'[u] = pc[u] /\ next'[u] = next[u] /\ Sink(u)' = Sink(u)
                 /\ event'[u] = event[u]
      BY <2>1, <3>1 DEF Base, TypeOK, Sink
    <3>2. pc'[t] = "idle"
      BY <2>1 DEF Base, TypeOK
    <3> QED
      BY <2>1, <3>1, <3>2 DEF Base, Placed
  <2> QED
    BY <2>2, <2>3, <2>4 DEF Base
<1> QED
  BY <1>3, <1>4

LEMMA HostBase ==
    ASSUME Base, AddSink \/ Silence \/ Crash
    PROVE  Base'
<1>1. CASE AddSink
  <2>1. PICK s \in Sinks : sinks' = Append(sinks, s)
    BY <1>1 DEF AddSink
  <2>2. UNCHANGED <<pc, event, next, file, taken, silent, length, history>>
    BY <1>1 DEF AddSink
  <2>3. /\ sinks' \in Seq(Sinks) /\ Len(sinks') = Len(sinks) + 1 /\ Len(sinks) \in Nat
    BY <2>1, SinksAppended
  <2>4. TypeOK'
    <3>1. next' \in [Threads -> 1 .. Len(sinks') + 1]
      BY <2>2, <2>3 DEF Base, TypeOK
    <3> QED
      BY <2>2, <2>3, <3>1 DEF Base, TypeOK, At, history
  <2>5. RecordedOnce'
    BY <2>2 DEF Base, RecordedOnce, history
  <2>6. \A u \in Threads : pc[u] \in AtSink => Sink(u)' = Sink(u)
    BY <2>1, <2>2, SinkKept
  <2>7. Placed'
    BY <2>2, <2>6 DEF Base, Placed, AtSink
  <2> QED
    BY <2>4, <2>5, <2>7 DEF Base
<1>2. CASE Silence
  <2>1. /\ UNCHANGED <<sinks, pc, event, next, file, taken, length, history>>
        /\ silent \subseteq Webhooks => silent' \subseteq Webhooks
    BY <1>2 DEF Silence
  <2>2. TypeOK'
    BY <2>1 DEF Base, TypeOK, At, history
  <2>3. RecordedOnce' /\ Placed'
    BY <2>1 DEF Base, RecordedOnce, Placed, Sink, history
  <2> QED
    BY <2>2, <2>3 DEF Base
<1>3. CASE Crash
  <2>1. /\ killed' = killed \cup {event[t] : t \in {u \in Threads : event[u] # None}}
        /\ sinks' = Configured
        /\ pc' = [t \in Threads |-> "idle"]
        /\ event' = [t \in Threads |-> None]
        /\ next' = [t \in Threads |-> 1]
        /\ UNCHANGED <<file, taken, silent, length, missed, due, before, over>>
    BY <1>3 DEF Crash
  <2>2. TypeOK'
    <3>1. killed' \subseteq Events
      BY <2>1 DEF Base, TypeOK
    <3>2. sinks' \in Seq(Sinks) /\ next' \in [Threads -> 1 .. Len(sinks') + 1]
      <4>1. sinks' \in Seq(Sinks) /\ Len(sinks') \in Nat
        BY <2>1, AuditTrailAssumption
      <4> QED
        BY <2>1, <4>1
    <3>3. pc' \in [Threads -> Pcs] /\ event' \in [Threads -> Events \cup {None}]
      BY <2>1 DEF Pcs
    <3> QED
      BY <2>1, <3>1, <3>2, <3>3 DEF Base, TypeOK, At
  <2>3. RecordedOnce'
    BY <2>1 DEF Base, RecordedOnce
  <2>4. Placed'
    BY <2>1 DEF Placed
  <2> QED
    BY <2>2, <2>3, <2>4 DEF Base
<1> QED
  BY <1>1, <1>2, <1>3

-----------------------------------------------------------------------------
(***************************************************************************)
(* Delivery.  Nothing that was written, taken or missed is lost.           *)
(***************************************************************************)
Grows ==
    /\ \A f \in Files :
          /\ Len(file[f]) \in Nat /\ Len(file'[f]) \in Nat
          /\ Len(file[f]) <= Len(file'[f])
          /\ \A i \in 1 .. Len(file[f]) : file'[f][i] = file[f][i]
    /\ \A s \in Webhooks \cup Others : taken[s] \subseteq taken'[s]
    /\ missed \subseteq missed' /\ killed \subseteq killed'

LEMMA SameGrows ==
    ASSUME Base, file' = file, taken' = taken, missed \subseteq missed', killed \subseteq killed'
    PROVE  Grows
<1>1. \A f \in Files : Len(file[f]) \in Nat
  BY DEF Base, TypeOK
<1> QED
  BY <1>1 DEF Grows

LEMMA WriteGrows ==
    ASSUME Base, NEW t \in Threads, pc[t] \in {"write", "close"}, NEW kind \in Kinds,
           Wrote(t, kind), missed \subseteq missed', killed \subseteq killed'
    PROVE  Grows
<1>1. PICK f : f = Sink(t)
  OBVIOUS
<1>2. /\ f \in Files /\ Len(file[f]) \in Nat
      /\ Len(file'[f]) = Len(file[f]) + 1
      /\ \A i \in 1 .. Len(file[f]) : file'[f][i] = file[f][i]
      /\ \A g \in Files : g # f => file'[g] = file[g]
  BY <1>1, WriteIsLast
<1>3. \A g \in Files : Len(file[g]) \in Nat
  BY DEF Base, TypeOK
<1>4. \A g \in Files :
          /\ Len(file[g]) \in Nat /\ Len(file'[g]) \in Nat
          /\ Len(file[g]) <= Len(file'[g])
          /\ \A i \in 1 .. Len(file[g]) : file'[g][i] = file[g][i]
  BY <1>2, <1>3
<1>5. taken' = taken
  BY DEF Wrote
<1> QED
  BY <1>4, <1>5 DEF Grows

LEMMA EmissionGrows ==
    ASSUME Base, NEW t \in Threads, Emission(t)
    PROVE  Grows
<1>1. missed \subseteq missed' /\ killed' = killed
  BY DEF Emission, Buffered, LeftOpen, CutOff, Failed, WroteLine, EndedLine, Took, Missing
<1>2. CASE Buffered(t) \/ Failed(t)
  BY <1>1, <1>2, SameGrows DEF Buffered, Failed
<1>3. CASE LeftOpen(t) \/ CutOff(t) \/ WroteLine(t) \/ EndedLine(t)
  <2>1. pc[t] \in {"write", "close"} /\ \E kind \in Kinds : Wrote(t, kind)
    BY <1>3 DEF LeftOpen, CutOff, WroteLine, EndedLine, Kinds
  <2> QED
    BY <1>1, <2>1, WriteGrows
<1>4. CASE Took(t)
  <2>1. file' = file /\ Takes(Sink(t), event[t])
    BY <1>4 DEF Took
  <2>2. \A s \in Webhooks \cup Others : taken[s] \subseteq taken'[s]
    BY <2>1 DEF Takes, Base, TypeOK
  <2>3. \A f \in Files : Len(file[f]) \in Nat
    BY DEF Base, TypeOK
  <2> QED
    BY <1>1, <2>1, <2>2, <2>3 DEF Grows
<1> QED
  BY <1>2, <1>3, <1>4 DEF Emission

LEMMA DeliveredStays ==
    ASSUME Base, Grows, NEW s \in Sinks, NEW e
    PROVE  /\ Has(s, e) => Has(s, e)'
           /\ Delivered(s, e) => Delivered(s, e)'
<1>1. Has(s, e) => Has(s, e)'
  <2>1. CASE s \in Files
    <3>1. \A i \in 1 .. Len(file[s]) : i \in 1 .. Len(file'[s]) /\ file'[s][i] = file[s][i]
      BY <2>1 DEF Grows
    <3> QED
      BY <2>1, <3>1 DEF Has
  <2>2. CASE s \notin Files
    BY <2>2 DEF Has, Grows, Sinks
  <2> QED
    BY <2>1, <2>2
<1> QED
  BY <1>1 DEF Delivered, Grows

(***************************************************************************)
(* A step of other threads, or of t before its next sink, keeps what t has *)
(* done.                                                                   *)
(***************************************************************************)
TurnOf(t) ==
    event[t] # None =>
        /\ \A s \in due[event[t]] : IsIn(s)
        /\ \A i \in DoneWith(t) : Delivered(sinks[i], event[t])
        /\ pc[t] = "close" => length[event[t]] = "short" \/ Has(Sink(t), event[t])

LEMMA InTurn == DeliversInTurn <=> \A t \in Threads : TurnOf(t)
BY Zenon DEF DeliversInTurn, TurnOf

LEMMA TurnKept ==
    ASSUME Base, Grows, NEW u \in Threads, TurnOf(u),
           sinks' = sinks, pc'[u] = pc[u], next'[u] = next[u], event'[u] = event[u],
           event[u] # None =>
               due'[event[u]] = due[event[u]] /\ length'[event[u]] = length[event[u]]
    PROVE  TurnOf(u)'
<1> SUFFICES ASSUME event[u] # None PROVE TurnOf(u)'
  BY DEF TurnOf
<1>1. /\ \A s \in due[event[u]] : IsIn(s)
      /\ \A i \in DoneWith(u) : Delivered(sinks[i], event[u])
      /\ pc[u] = "close" => length[event[u]] = "short" \/ Has(Sink(u), event[u])
  BY DEF TurnOf
<1>2. DoneWith(u)' = DoneWith(u)
  BY DEF DoneWith
<1>3. \A i \in DoneWith(u) : sinks[i] \in Sinks
  BY DEF Base, TypeOK, DoneWith
<1>4. \A s \in due'[event'[u]] : IsIn(s)'
  BY <1>1 DEF IsIn
<1>5. \A i \in DoneWith(u)' : Delivered(sinks[i], event[u])'
  BY <1>1, <1>2, <1>3, DeliveredStays
<1>6. pc'[u] = "close" => length'[event'[u]] = "short" \/ Has(Sink(u), event[u])'
  <2>1. PICK s, e : s = Sink(u) /\ e = event[u]
    OBVIOUS
  <2>2. s = Sink(u)' /\ e = event'[u]
    BY <2>1 DEF Sink
  <2>3. pc[u] = "close" /\ Has(s, e) => Has(s, e)'
    BY <2>1, SinkOf, DeliveredStays DEF AtSink
  <2>4. Has(s, e)' => Has(Sink(u), event[u])'
    BY <2>2 DEF Has
  <2> QED
    BY <1>1, <2>1, <2>3, <2>4
<1> QED
  BY <1>4, <1>5, <1>6 DEF TurnOf

LEMMA OverKept ==
    ASSUME Base, Grows, DeliveredUnlessFailed, over' = over,
           \A e \in over : due'[e] = due[e]
    PROVE  DeliveredUnlessFailed'
<1> SUFFICES ASSUME NEW e \in over, NEW s \in due[e]
             PROVE  Has(s, e)' \/ <<s, e>> \in missed'
  BY DEF DeliveredUnlessFailed
<1>1. s \in Sinks
  BY DEF Base, TypeOK
<1>2. Delivered(s, e)
  BY DEF DeliveredUnlessFailed, Delivered
<1> QED
  BY <1>1, <1>2, DeliveredStays DEF Delivered

(***************************************************************************)
(* The thread at a sink: it is done with it when the event is there or     *)
(* missed, and a file holds all of a long event before it is closed.       *)
(***************************************************************************)
LEMMA EmissionServes ==
    ASSUME Base, NEW t \in Threads, Emission(t), TurnOf(t)
    PROVE  /\ pc'[t] = "fanout" \/ (pc'[t] = "close" /\ pc[t] = "write")
           /\ pc'[t] = "fanout" => Delivered(Sink(t), event[t])'
           /\ pc'[t] = "close" => length[event[t]] = "short" \/ Has(Sink(t), event[t])'
<1> PICK s, e : s = Sink(t) /\ e = event[t]
  OBVIOUS
<1>1. /\ s \in Sinks /\ e \in Events /\ e # None /\ pc[t] \in AtSink
      /\ Sink(t)' = s /\ event'[t] = e
  BY SinkOf, AuditTrailAssumption DEF Emission, Sink
<1>2. /\ Has(Sink(t), event[t])' <=> Has(s, e)'
      /\ Delivered(Sink(t), event[t])' <=> Delivered(s, e)'
  BY <1>1 DEF Has, Delivered
<1>3. Grows
  BY EmissionGrows
<1>4. pc \in [Threads -> Pcs]
  BY DEF Base, TypeOK
<1>5. ASSUME NEW kind \in {"line", "body"}, Wrote(t, kind), pc[t] \in {"write", "close"}
      PROVE  Has(s, e)'
  <2>1. PICK n : n = Len(file[s]) + 1
    OBVIOUS
  <2>2. /\ s \in Files /\ Len(file'[s]) = n /\ n \in Nat /\ n > 0
        /\ file'[s][n].kind = kind /\ file'[s][n].event = e
    BY <1>5, <2>1, WriteIsLast DEF Kinds
  <2> QED
    BY <1>5, <2>2 DEF Has
<1>6. CASE Buffered(t)
  BY <1>4, <1>6 DEF Buffered, Goto
<1>7. CASE LeftOpen(t)
  <2>1. Has(s, e)'
    BY <1>5, <1>7 DEF LeftOpen
  <2> QED
    BY <1>2, <1>4, <1>7, <2>1 DEF LeftOpen, Goto
<1>8. CASE CutOff(t) \/ Failed(t)
  <2>1. <<s, e>> \in missed' /\ pc'[t] = "fanout"
    BY <1>4, <1>8 DEF CutOff, Failed, Missing, Goto
  <2>2. Delivered(s, e)'
    BY <2>1 DEF Delivered
  <2> QED
    BY <1>2, <2>1, <2>2
<1>9. CASE WroteLine(t)
  <2>1. Has(s, e)' /\ pc'[t] = "fanout"
    BY <1>4, <1>5, <1>9 DEF WroteLine, Goto
  <2> QED
    BY <1>2, <2>1 DEF Delivered
<1>10. CASE EndedLine(t)
  <2>1. Has(s, e) /\ pc'[t] = "fanout"
    BY <1>1, <1>4, <1>10 DEF EndedLine, TurnOf, Goto
  <2>2. Has(s, e)'
    BY <1>1, <1>3, <2>1, DeliveredStays
  <2> QED
    BY <1>2, <2>1, <2>2 DEF Delivered
<1>11. CASE Took(t)
  <2>1. s \in Webhooks \cup Others /\ s \notin Files
    BY <1>11, AuditTrailAssumption DEF Took, Base, Placed
  <2>2. e \in taken'[s] /\ pc'[t] = "fanout"
    BY <1>4, <1>11, <2>1 DEF Took, Takes, Base, TypeOK, Goto
  <2>3. Has(s, e)'
    BY <2>1, <2>2 DEF Has
  <2> QED
    BY <1>2, <2>2, <2>3 DEF Delivered
<1> QED
  BY <1>6, <1>7, <1>8, <1>9, <1>10, <1>11 DEF Emission

LEMMA EmissionDelivers ==
    ASSUME Base, DeliversInTurn, DeliveredUnlessFailed, NEW t \in Threads, Emission(t)
    PROVE  DeliversInTurn' /\ DeliveredUnlessFailed'
<1>1. UNCHANGED <<sinks, event, next, silent, length, due, before, over, killed>>
  BY DEF Emission
<1>2. Grows
  BY EmissionGrows
<1>3. \A u \in Threads : u # t => pc'[u] = pc[u]
  BY DEF Emission, Buffered, LeftOpen, CutOff, Failed, WroteLine, EndedLine, Took, Goto,
         Base, TypeOK
<1>4. ASSUME NEW u \in Threads, u # t PROVE TurnOf(u)'
  BY <1>1, <1>2, <1>3, <1>4, TurnKept, InTurn
<1>5. TurnOf(t)'
  <2>1. /\ TurnOf(t) /\ pc[t] \in AtSink /\ event[t] # None
        /\ next[t] - 1 \in 1 .. Len(sinks) /\ next[t] \in Nat /\ Len(sinks) \in Nat
    BY InTurn, SinkOf, AuditTrailAssumption DEF Emission, Base, TypeOK
  <2>2. /\ pc'[t] = "fanout" \/ (pc'[t] = "close" /\ pc[t] = "write")
        /\ pc'[t] = "fanout" => Delivered(Sink(t), event[t])'
        /\ pc'[t] = "close" => length[event[t]] = "short" \/ Has(Sink(t), event[t])'
    BY <2>1, EmissionServes
  <2>3. \A i \in DoneWith(t) : Delivered(sinks[i], event[t])'
    <3>1. \A i \in DoneWith(t) : sinks[i] \in Sinks /\ Delivered(sinks[i], event[t])
      BY <2>1 DEF DoneWith, TurnOf, Base, TypeOK
    <3>2. ASSUME NEW i \in DoneWith(t) PROVE Delivered(sinks[i], event[t])'
      <4>1. PICK s, e : s = sinks[i] /\ e = event[t]
        OBVIOUS
      <4>2. Delivered(s, e)'
        BY <1>2, <3>1, <3>2, <4>1, DeliveredStays
      <4> QED
        BY <1>1, <4>1, <4>2 DEF Delivered, Has
    <3> QED
      BY <3>2
  <2>4. \A i \in DoneWith(t)' : i \in DoneWith(t) \/ (i = next[t] - 1 /\ pc'[t] = "fanout")
    BY <1>1, <2>1, <2>2 DEF DoneWith, AtSink
  <2>5. \A i \in DoneWith(t)' : Delivered(sinks[i], event[t])'
    BY <1>1, <2>2, <2>3, <2>4 DEF Sink
  <2>6. \A s \in due'[event'[t]] : IsIn(s)'
    BY <1>1, <2>1 DEF TurnOf, IsIn
  <2> QED
    BY <1>1, <2>2, <2>5, <2>6 DEF TurnOf
<1>6. DeliversInTurn'
  BY <1>4, <1>5 DEF DeliversInTurn, TurnOf
<1>7. DeliveredUnlessFailed'
  BY <1>1, <1>2, OverKept
<1> QED
  BY <1>6, <1>7

LEMMA RecordDelivers ==
    ASSUME Base, DeliversInTurn, DeliveredUnlessFailed, NEW t \in Threads, Record(t)
    PROVE  DeliversInTurn' /\ DeliveredUnlessFailed'
<1>1. PICK e \in Events, l \in Lengths :
        /\ length[e] = None /\ length' = [length EXCEPT ![e] = l]
        /\ event' = [event EXCEPT ![t] = e]
        /\ due' = [due EXCEPT ![e] = {s \in Sinks : IsIn(s)}]
  BY DEF Record
<1>2. /\ pc' = [pc EXCEPT ![t] = "fanout"] /\ next' = [next EXCEPT ![t] = 1]
      /\ UNCHANGED <<sinks, file, taken, silent, missed, over, killed>>
  BY DEF Record, Goto
<1>3. Grows
  BY <1>2, SameGrows
<1>4. ASSUME NEW u \in Threads, u # t PROVE TurnOf(u)'
  <2>1. pc'[u] = pc[u] /\ next'[u] = next[u] /\ event'[u] = event[u]
    BY <1>1, <1>2, <1>4 DEF Base, TypeOK
  <2>2. event[u] # None => event[u] # e /\ event[u] \in Events
    BY <1>1 DEF Base, RecordedOnce, TypeOK
  <2>3. event[u] # None =>
           due'[event[u]] = due[event[u]] /\ length'[event[u]] = length[event[u]]
    BY <1>1, <2>2 DEF Base, TypeOK
  <2> QED
    BY <1>2, <1>3, <2>1, <2>3, TurnKept, InTurn
<1>5. TurnOf(t)'
  <2>1. pc'[t] = "fanout" /\ next'[t] = 1 /\ event'[t] = e
    BY <1>1, <1>2 DEF Base, TypeOK
  <2>2. DoneWith(t)' = {}
    BY <2>1 DEF DoneWith
  <2>3. \A s \in due'[e] : IsIn(s)'
    BY <1>1, <1>2 DEF IsIn, Base, TypeOK
  <2> QED
    BY <2>1, <2>2, <2>3 DEF TurnOf
<1>6. DeliversInTurn'
  BY <1>4, <1>5 DEF DeliversInTurn, TurnOf
<1>7. \A d \in over : due'[d] = due[d]
  BY <1>1 DEF Base, TypeOK, RecordedOnce
<1> QED
  BY <1>2, <1>3, <1>6, <1>7, OverKept

LEMMA LoopDelivers ==
    ASSUME Base, DeliversInTurn, DeliveredUnlessFailed, NEW t \in Threads,
           NextSink(t) \/ Return(t)
    PROVE  DeliversInTurn' /\ DeliveredUnlessFailed'
<1>1. UNCHANGED <<sinks, file, taken, silent, length, missed, due, before, killed>>
  BY DEF NextSink, Return, history
<1>2. Grows
  BY <1>1, SameGrows
<1>3. pc[t] = "fanout" /\ event[t] \in Events /\ event[t] # None /\ TurnOf(t)
  BY InTurn DEF NextSink, Return, At, Base, TypeOK
<1>4. \A u \in Threads : u # t =>
        pc'[u] = pc[u] /\ next'[u] = next[u] /\ event'[u] = event[u]
  BY DEF NextSink, Return, Goto, Base, TypeOK
<1>5. ASSUME NEW u \in Threads, u # t PROVE TurnOf(u)'
  BY <1>1, <1>2, <1>4, <1>5, TurnKept, InTurn
<1>6. next[t] \in Nat /\ Len(sinks) \in Nat
  BY DEF Base, TypeOK
<1>7. CASE NextSink(t)
  <2>1. /\ next'[t] = next[t] + 1 /\ event' = event /\ over' = over
        /\ pc'[t] \in {"write", "post", "emit"}
    <3>1. sinks[next[t]] \in Sinks
      BY <1>6, <1>7 DEF NextSink, Base, TypeOK
    <3> QED
      BY <1>7, <3>1 DEF NextSink, Goto, Base, TypeOK, history, Sinks
  <2>2. DoneWith(t)' \subseteq DoneWith(t)
    BY <1>1, <1>3, <1>6, <2>1 DEF DoneWith
  <2>3. \A i \in DoneWith(t)' : Delivered(sinks[i], event[t])'
    BY <1>1, <1>3, <2>1, <2>2 DEF TurnOf, Delivered, Has
  <2>4. TurnOf(t)'
    BY <1>1, <1>3, <2>1, <2>3 DEF TurnOf, IsIn
  <2>5. DeliversInTurn'
    BY <1>5, <2>4 DEF DeliversInTurn, TurnOf
  <2> QED
    BY <1>1, <1>2, <2>1, <2>5, OverKept
<1>8. CASE Return(t)
  <2>1. next[t] > Len(sinks) /\ event'[t] = None /\ over' = over \cup {event[t]}
    BY <1>8 DEF Return, Base, TypeOK
  <2>2. DeliversInTurn'
    BY <1>5, <2>1 DEF DeliversInTurn, TurnOf
  <2>3. DoneWith(t) = 1 .. Len(sinks)
    BY <1>3, <1>6, <2>1 DEF DoneWith
  <2>4. \A s \in due[event[t]] : Delivered(s, event[t])
    BY <1>3, <2>3 DEF TurnOf, IsIn
  <2>5. DeliveredUnlessFailed'
    BY <1>1, <2>1, <2>4 DEF DeliveredUnlessFailed, Delivered, Has
  <2> QED
    BY <2>2, <2>5
<1> QED
  BY <1>7, <1>8

LEMMA HostDelivers ==
    ASSUME Base, DeliversInTurn, DeliveredUnlessFailed, AddSink \/ Silence \/ Crash
    PROVE  DeliversInTurn' /\ DeliveredUnlessFailed'
<1>1. UNCHANGED <<file, taken, length, missed, due, before, over>>
  BY DEF AddSink, Silence, Crash, history
<1>2. Grows
  <2>1. killed \subseteq killed'
    BY DEF AddSink, Silence, Crash, history
  <2> QED
    BY <1>1, <2>1, SameGrows
<1>3. DeliveredUnlessFailed'
  BY <1>1, <1>2, OverKept
<1>4. CASE AddSink
  <2>1. PICK s \in Sinks : sinks' = Append(sinks, s)
    BY <1>4 DEF AddSink
  <2>2. UNCHANGED <<pc, event, next>>
    BY <1>4 DEF AddSink
  <2>3. /\ Len(sinks') = Len(sinks) + 1 /\ Len(sinks) \in Nat
        /\ \A i \in 1 .. Len(sinks) : sinks'[i] = sinks[i]
    BY <2>1, SinksAppended
  <2>4. ASSUME NEW u \in Threads, event[u] # None PROVE TurnOf(u)'
    <3>1. TurnOf(u) /\ next[u] \in 1 .. Len(sinks) + 1
      BY InTurn DEF Base, TypeOK
    <3>2. \A i \in DoneWith(u)' : i \in DoneWith(u) /\ sinks'[i] = sinks[i]
      BY <2>2, <2>3, <3>1 DEF DoneWith
    <3>3. \A i \in DoneWith(u)' : Delivered(sinks'[i], event[u])
      BY <2>4, <3>1, <3>2 DEF TurnOf
    <3>4. \A i \in DoneWith(u)' : Delivered(sinks[i], event[u])'
      BY <1>1, <2>2, <3>3 DEF Delivered, Has
    <3>5. \A s1 \in due'[event'[u]] : IsIn(s1)'
      BY <1>1, <2>2, <2>3, <2>4, <3>1 DEF TurnOf, IsIn
    <3>6. pc[u] = "close" => Sink(u)' = Sink(u)
      BY <2>1, <2>2, SinkKept DEF AtSink
    <3>7. pc'[u] = "close" => length'[event'[u]] = "short" \/ Has(Sink(u), event[u])'
      BY <1>1, <2>2, <2>4, <3>1, <3>6 DEF TurnOf, Has
    <3> QED
      BY <3>4, <3>5, <3>7 DEF TurnOf
  <2>5. DeliversInTurn'
    BY <2>2, <2>4 DEF DeliversInTurn, TurnOf
  <2> QED
    BY <1>3, <2>5
<1>5. CASE Silence
  <2>1. UNCHANGED <<sinks, pc, event, next>>
    BY <1>5 DEF Silence
  <2>2. \A u \in Threads : TurnOf(u)'
    BY <1>1, <1>2, <2>1, TurnKept, InTurn
  <2> QED
    BY <1>3, <2>2 DEF DeliversInTurn, TurnOf
<1>6. CASE Crash
  <2>1. \A u \in Threads : event'[u] = None
    BY <1>6 DEF Crash
  <2>2. DeliversInTurn'
    BY <2>1 DEF DeliversInTurn
  <2> QED
    BY <1>3, <2>2
<1> QED
  BY <1>4, <1>5, <1>6

-----------------------------------------------------------------------------
(***************************************************************************)
(* Lines.  What is known of a recorded event stays known.                  *)
(***************************************************************************)
Known ==
    /\ missed \subseteq missed' /\ killed \subseteq killed'
    /\ \A e \in Events : length[e] # None => length'[e] = length[e] /\ before'[e] = before[e]

Fault(f, first, second) ==
    \/ Faulted(f, first)
    \/ length[first] = "long" /\ first \notin before[second]

LEMMA Torn ==
    LinesTornByConcurrentLong <=>
        \A f \in Files : \A i, j \in 1 .. Len(file[f]) :
            SameLine(f, i, j) => Fault(f, file[f][i].event, file[f][j].event)
BY Zenon DEF LinesTornByConcurrentLong, Fault, Faulted

LEMMA WrittenEvents ==
    ASSUME Base, NEW f \in Files, NEW i \in 1 .. Len(file[f])
    PROVE  file[f][i].event \in Events /\ length[file[f][i].event] # None
<1>1. file[f] \in Seq(Piece)
  BY DEF Base, TypeOK
<1>2. file[f][i] \in Piece
  BY <1>1
<1>3. file[f][i].event \in Events
  BY <1>2 DEF Piece
<1> QED
  BY <1>3 DEF Base, RecordedOnce

LEMMA FaultStays ==
    ASSUME Known, NEW f, NEW e \in Events, NEW d \in Events,
           length[e] # None, length[d] # None, Fault(f, e, d)
    PROVE  Fault(f, e, d)'
BY DEF Fault, Faulted, Known

LEMMA UnwrittenLines ==
    ASSUME Base, OpenLinesAccounted, LinesTornByConcurrentLong, Known, file' = file,
           \A t \in Threads : \A f, e : Ending(t, f, e) => Ending(t, f, e)' \/ Faulted(f, e)'
    PROVE  OpenLinesAccounted' /\ LinesTornByConcurrentLong'
<1>1. ASSUME NEW f \in Files, NEW i \in 1 .. Len(file[f]), NEW j \in 1 .. Len(file[f]),
             SameLine(f, i, j)
      PROVE  Fault(f, file[f][i].event, file[f][j].event)'
  <2>1. PICK e, d : e = file[f][i].event /\ d = file[f][j].event
    OBVIOUS
  <2>2. Fault(f, e, d) /\ e \in Events /\ d \in Events /\ length[e] # None /\ length[d] # None
    BY <1>1, <2>1, Torn, WrittenEvents
  <2>3. Fault(f, e, d)'
    BY <2>2, FaultStays
  <2> QED
    BY <2>1, <2>3 DEF Fault, Faulted
<1>2. \A f, i, j : SameLine(f, i, j)' <=> SameLine(f, i, j)
  BY DEF SameLine
<1>3. LinesTornByConcurrentLong'
  BY <1>1, <1>2, Torn DEF LinesTornByConcurrentLong, Fault, Faulted
<1>4. ASSUME NEW f \in Files, NEW i \in 1 .. Len(file[f]), Open(f, i)
      PROVE  \/ Faulted(f, file[f][i].event)'
             \/ \E t \in Threads : Ending(t, f, file[f][i].event)'
  <2>1. PICK e : e = file[f][i].event
    OBVIOUS
  <2>2. Faulted(f, e) => Faulted(f, e)'
    BY DEF Faulted, Known
  <2>3. Faulted(f, e)' \/ \E t \in Threads : Ending(t, f, e)'
    BY <1>4, <2>1, <2>2 DEF OpenLinesAccounted
  <2> QED
    BY <2>1, <2>3 DEF Faulted, Ending, Sink
<1>5. OpenLinesAccounted'
  BY <1>4 DEF OpenLinesAccounted, Open
<1> QED
  BY <1>3, <1>5

(***************************************************************************)
(* A write by t, which is not itself about to end a long event's line when *)
(* it adds to the line: what was left open before it is accounted for, and *)
(* an event that is about to be ended is recorded at the same time.        *)
(***************************************************************************)
LEMMA WrittenLines ==
    ASSUME Base, OpenLinesAccounted, LinesTornByConcurrentLong, Known,
           NEW t \in Threads, Emission(t), pc[t] \in {"write", "close"},
           NEW kind \in Kinds, Wrote(t, kind),
           kind = "newline" \/ pc[t] = "write" \/ length[event[t]] = "short",
           kind \in {"line", "newline"} \/ Faulted(Sink(t), event[t])'
               \/ Ending(t, Sink(t), event[t])'
    PROVE  OpenLinesAccounted' /\ LinesTornByConcurrentLong'
<1> PICK f, b, n : f = Sink(t) /\ b = event[t] /\ n = Len(file[f])
  OBVIOUS
<1>1. /\ f \in Files /\ n \in Nat
      /\ Len(file'[f]) = n + 1
      /\ \A i \in 1 .. n : file'[f][i] = file[f][i]
      /\ file'[f][n + 1].kind = kind /\ file'[f][n + 1].event = b
      /\ \A g \in Files : g # f => file'[g] = file[g]
  BY WriteIsLast
<1>2. /\ b \in Events /\ b # None /\ length[b] # None
      /\ UNCHANGED <<sinks, event, next, length, before, over>>
      /\ \A u \in Threads : u # t => pc'[u] = pc[u]
  <2>1. b \in Events
    BY SinkOf DEF AtSink
  <2>2. b # None /\ length[b] # None
    BY <2>1, AuditTrailAssumption DEF Base, RecordedOnce
  <2> QED
    BY <2>1, <2>2 DEF Emission, Buffered, LeftOpen, CutOff, Failed, WroteLine, EndedLine,
                      Took, Goto, Base, TypeOK
<1>3. \A u \in Threads : u # t => \A g, e : Ending(u, g, e) <=> Ending(u, g, e)'
  BY <1>2 DEF Ending, Sink
<1>4. kind # "newline" => \A g, e : ~Ending(t, g, e)
  BY <1>2 DEF Ending
\* What the write adds to.
<1>5. ASSUME NEW i \in 1 .. n, Open(f, i), kind # "newline"
      PROVE  \/ Faulted(f, file[f][i].event)
             \/ \E u \in Threads : u # t /\ Ending(u, f, file[f][i].event)
  BY <1>1, <1>4, <1>5 DEF OpenLinesAccounted
<1>6. ASSUME NEW i \in 1 .. n, Open(f, i), kind # "newline"
      PROVE  Fault(f, file[f][i].event, b)
  <2>1. CASE Faulted(f, file[f][i].event)
    BY <2>1 DEF Fault
  <2>2. CASE \E u \in Threads : u # t /\ Ending(u, f, file[f][i].event)
    <3>1. PICK u \in Threads : Ending(u, f, file[f][i].event)
      BY <2>2
    <3>2. event[u] \notin over /\ before[b] \subseteq over
      BY <1>2, <3>1, AuditTrailAssumption DEF Base, RecordedOnce, TypeOK, At, Ending
    <3> QED
      BY <3>1, <3>2 DEF Fault, Ending
  <2> QED
    BY <1>5, <1>6, <2>1, <2>2
\* Every pair of writes on a line, those of before and those with the new one.
<1>7. ASSUME NEW g \in Files, NEW i \in 1 .. Len(file'[g]), NEW j \in 1 .. Len(file'[g]),
             SameLine(g, i, j)'
      PROVE  Fault(g, file[g][i].event, file[g][j].event)'
  <2>1. PICK e, d : e = file'[g][i].event /\ d = file'[g][j].event
    OBVIOUS
  <2>2. CASE g # f \/ j <= n
    <3>1. /\ i \in 1 .. Len(file[g]) /\ j \in 1 .. Len(file[g])
          /\ \A k \in i .. j : file'[g][k] = file[g][k]
          /\ i < j
      <4>1. i < j
        BY <1>7 DEF SameLine
      <4>2. CASE g # f
        <5>1. file'[g] = file[g]
          BY <1>1, <4>2
        <5> QED
          BY <1>7, <4>1, <5>1
      <4>3. CASE g = f /\ j <= n
        <5>1. j \in 1 .. n /\ i \in 1 .. n
          BY <1>1, <1>7, <4>1, <4>3
        <5>2. \A k \in i .. j : k \in 1 .. n
          BY <5>1
        <5> QED
          BY <1>1, <4>1, <4>3, <5>1, <5>2
      <4> QED
        BY <2>2, <4>2, <4>3
    <3>2. SameLine(g, i, j)
      BY <1>7, <3>1 DEF SameLine
    <3>3. /\ Fault(g, e, d) /\ e \in Events /\ d \in Events
          /\ length[e] # None /\ length[d] # None
      <4>1. e = file[g][i].event /\ d = file[g][j].event
        BY <2>1, <3>1
      <4> QED
        BY <3>1, <3>2, <4>1, Torn, WrittenEvents
    <3>4. Fault(g, e, d)'
      BY <3>3, FaultStays
    <3> QED
      BY <2>1, <3>4 DEF Fault, Faulted
  <2>3. CASE g = f /\ j > n
    <3>1. j = n + 1 /\ i \in 1 .. n /\ kind # "newline" /\ d = b
      BY <1>1, <1>7, <2>1, <2>3 DEF SameLine
    <3>2. Open(f, i) /\ e = file[f][i].event
      <4>1. \A k \in i .. n : file'[f][k] = file[f][k] /\ k \in i .. (j - 1)
        BY <1>1, <3>1
      <4>2. \A k \in i .. (j - 1) : file'[f][k].kind \notin {"line", "newline"}
        BY <1>7, <2>3 DEF SameLine
      <4>3. \A k \in i .. n : file[f][k].kind \notin {"line", "newline"}
        BY <4>1, <4>2
      <4> QED
        BY <1>1, <2>1, <2>3, <3>1, <4>3 DEF Open
    <3>3. /\ Fault(f, e, d) /\ e \in Events /\ length[e] # None
      BY <1>1, <1>6, <3>1, <3>2, WrittenEvents
    <3>4. Fault(f, e, d)'
      BY <1>2, <3>1, <3>3, FaultStays
    <3> QED
      BY <2>1, <2>3, <3>4 DEF Fault, Faulted
  <2> QED
    BY <1>1, <2>2, <2>3
<1>8. LinesTornByConcurrentLong'
  BY <1>7 DEF LinesTornByConcurrentLong, Fault, Faulted
\* Every line left open.
<1>9. ASSUME NEW g \in Files, NEW i \in 1 .. Len(file'[g]), Open(g, i)'
      PROVE  \/ Faulted(g, file[g][i].event)'
             \/ \E u \in Threads : Ending(u, g, file[g][i].event)'
  <2>1. PICK e : e = file'[g][i].event
    OBVIOUS
  <2>2. CASE g # f
    <3>1. file'[g] = file[g] /\ Open(g, i) /\ e = file[g][i].event
      BY <1>1, <1>9, <2>1, <2>2 DEF Open
    <3>2. Faulted(g, e) \/ \E u \in Threads : Ending(u, g, e)
      BY <3>1, <1>9 DEF OpenLinesAccounted
    <3>3. \A u \in Threads : Ending(u, g, e) => u # t
      BY <2>2 DEF Ending
    <3>4. Faulted(g, e)' \/ \E u \in Threads : Ending(u, g, e)'
      BY <1>3, <3>2, <3>3 DEF Faulted, Known
    <3> QED
      BY <2>1, <3>4 DEF Faulted, Ending, Sink
  <2>3. CASE g = f /\ i <= n
    <3>1. /\ i \in 1 .. n /\ n + 1 \in i .. Len(file'[f])
          /\ \A k \in i .. n : k \in i .. Len(file'[f]) /\ file'[f][k] = file[f][k]
      BY <1>1, <2>3
    <3>2. kind \notin {"line", "newline"} /\ Open(f, i) /\ e = file[f][i].event
      BY <1>1, <1>9, <2>1, <2>3, <3>1 DEF Open
    <3>3. Faulted(f, e) \/ \E u \in Threads : u # t /\ Ending(u, f, e)
      BY <1>5, <3>1, <3>2
    <3>4. Faulted(f, e)' \/ \E u \in Threads : Ending(u, f, e)'
      BY <1>3, <3>3 DEF Faulted, Known
    <3> QED
      BY <2>1, <2>3, <3>4 DEF Faulted, Ending, Sink
  <2>4. CASE g = f /\ i > n
    <3>1. i = n + 1 /\ kind \notin {"line", "newline"} /\ e = b
      BY <1>1, <1>9, <2>1, <2>4 DEF Open
    <3>2. Faulted(f, e)' \/ Ending(t, f, e)'
      BY <1>2, <3>1 DEF Faulted, Ending, Sink
    <3> QED
      BY <2>1, <2>4, <3>2 DEF Faulted, Ending, Sink
  <2> QED
    BY <1>1, <2>2, <2>3, <2>4
<1>10. OpenLinesAccounted'
  BY <1>9 DEF OpenLinesAccounted
<1> QED
  BY <1>8, <1>10

LEMMA EmissionLines ==
    ASSUME Base, OpenLinesAccounted, LinesTornByConcurrentLong,
           NEW t \in Threads, Emission(t)
    PROVE  OpenLinesAccounted' /\ LinesTornByConcurrentLong'
<1>1. /\ UNCHANGED <<sinks, event, next, length, before, over, killed>>
      /\ pc[t] \in AtSink
      /\ \A u \in Threads : u # t => pc'[u] = pc[u]
  BY DEF Emission, Buffered, LeftOpen, CutOff, Failed, WroteLine, EndedLine, Took, Goto,
         Base, TypeOK
<1>2. missed \subseteq missed'
  BY DEF Emission, Buffered, LeftOpen, CutOff, Failed, WroteLine, EndedLine, Took, Missing
<1>3. Known
  BY <1>1, <1>2 DEF Known
<1>4. \A u \in Threads : u # t => \A g, e : Ending(u, g, e) => Ending(u, g, e)'
  BY <1>1 DEF Ending, Sink
<1>5. CASE Buffered(t) \/ Failed(t) \/ Took(t)
  <2>1. file' = file
    BY <1>5 DEF Buffered, Failed, Took
  <2>2. \A g, e : Ending(t, g, e) => Faulted(g, e)'
    BY <1>5 DEF Buffered, Failed, Took, Missing, Ending, Faulted
  <2> QED
    BY <1>3, <1>4, <2>1, <2>2, UnwrittenLines
<1>6. CASE LeftOpen(t)
  <2>1. pc[t] = "write" /\ length[event[t]] = "long" /\ pc' = [pc EXCEPT ![t] = "close"]
        /\ Wrote(t, "body")
    BY <1>6 DEF LeftOpen, Goto
  <2>2. Ending(t, Sink(t), event[t])'
    BY <1>1, <2>1 DEF Ending, Sink, Base, TypeOK
  <2> QED
    BY <1>3, <2>1, <2>2, WrittenLines DEF Kinds
<1>7. CASE CutOff(t)
  <2>1. /\ pc[t] = "write" \/ (pc[t] = "close" /\ length[event[t]] = "short")
        /\ Wrote(t, "part")
    BY <1>7 DEF CutOff
  <2>2. Faulted(Sink(t), event[t])'
    BY <1>1, <1>7 DEF CutOff, Missing, Faulted, Sink
  <2> QED
    BY <1>3, <2>1, <2>2, WrittenLines DEF Kinds
<1>8. CASE WroteLine(t) \/ EndedLine(t)
  <2>1. CASE WroteLine(t)
    BY <1>3, <2>1, WrittenLines DEF WroteLine, Kinds
  <2>2. CASE EndedLine(t)
    BY <1>3, <2>2, WrittenLines DEF EndedLine, Kinds
  <2> QED
    BY <1>8, <2>1, <2>2
<1> QED
  BY <1>5, <1>6, <1>7, <1>8 DEF Emission

\* A thread that is not at a sink ends no line.
LEMMA RecordLines ==
    ASSUME Base, OpenLinesAccounted, LinesTornByConcurrentLong,
           NEW t \in Threads, Record(t) \/ NextSink(t) \/ Return(t)
    PROVE  OpenLinesAccounted' /\ LinesTornByConcurrentLong'
<1>1. /\ UNCHANGED <<sinks, file, missed, killed>>
      /\ pc[t] \in {"idle", "fanout"}
      /\ \A u \in Threads : u # t =>
            pc'[u] = pc[u] /\ next'[u] = next[u] /\ event'[u] = event[u]
  BY DEF Record, NextSink, Return, Goto, At, history, Base, TypeOK
<1>2. \A e \in Events : length[e] # None => length'[e] = length[e] /\ before'[e] = before[e]
  BY DEF Record, NextSink, Return, history, Base, TypeOK
<1>3. Known
  BY <1>1, <1>2 DEF Known
<1>4. ASSUME NEW u \in Threads, NEW g, NEW e, Ending(u, g, e)
      PROVE  Ending(u, g, e)'
  <2>1. u # t /\ pc[u] = "close" /\ event[u] = e /\ length[e] = "long"
    BY <1>1, <1>4 DEF Ending
  <2>2. Sink(u)' = Sink(u) /\ e \in Events /\ length[e] # None
    <3>1. e \in Events
      BY <2>1 DEF Base, TypeOK, At
    <3>2. length[e] # None
      BY <2>1, <3>1, AuditTrailAssumption DEF EventLengths
    <3> QED
      BY <1>1, <2>1, <3>1, <3>2 DEF Sink
  <2> QED
    BY <1>1, <1>2, <1>4, <2>1, <2>2 DEF Ending
<1> QED
  BY <1>1, <1>3, <1>4, UnwrittenLines

\* The host ends none either, and a crash accounts for those about to be ended.
LEMMA HostLines ==
    ASSUME Base, OpenLinesAccounted, LinesTornByConcurrentLong, AddSink \/ Silence \/ Crash
    PROVE  OpenLinesAccounted' /\ LinesTornByConcurrentLong'
<1>1. UNCHANGED <<file, length, missed, before>> /\ killed \subseteq killed'
  BY DEF AddSink, Silence, Crash, history
<1>2. Known
  BY <1>1 DEF Known
<1>3. ASSUME NEW u \in Threads, NEW g, NEW e, Ending(u, g, e)
      PROVE  Ending(u, g, e)' \/ Faulted(g, e)'
  <2>1. CASE AddSink
    <3>1. UNCHANGED <<pc, event, next>> /\ \E s \in Sinks : sinks' = Append(sinks, s)
      BY <2>1 DEF AddSink
    <3>2. Sink(u)' = Sink(u)
      BY <1>3, <3>1, SinkKept DEF Ending, AtSink
    <3> QED
      BY <1>1, <1>3, <3>1, <3>2 DEF Ending
  <2>2. CASE Silence
    BY <1>3, <2>2 DEF Silence, Ending, Sink, history
  <2>3. CASE Crash
    <3>1. event[u] = e /\ e # None
      BY <1>3 DEF Ending, Base, TypeOK, At
    <3> QED
      BY <2>3, <3>1 DEF Crash, Faulted
  <2> QED
    BY <2>1, <2>2, <2>3
<1> QED
  BY <1>1, <1>2, <1>3, UnwrittenLines

-----------------------------------------------------------------------------
(***************************************************************************)
(* The invariant is inductive.                                             *)
(***************************************************************************)
LEMMA TrailInit == Init => TrailInv
<1> SUFFICES ASSUME Init PROVE TrailInv
  OBVIOUS
<1>1. sinks \in Seq(Sinks) /\ Len(sinks) \in Nat
  BY AuditTrailAssumption DEF Init
<1>2. 1 \in 1 .. Len(sinks) + 1
  BY <1>1
<1>3. TypeOK
  BY <1>1, <1>2 DEF Init, TypeOK, Pcs, At
<1>4. \A f \in Files : 1 .. Len(file[f]) = {}
  BY DEF Init
<1>5. RecordedOnce /\ Placed /\ DeliversInTurn /\ DeliveredUnlessFailed
  BY <1>4 DEF Init, RecordedOnce, Placed, DeliversInTurn, DeliveredUnlessFailed
<1>6. OpenLinesAccounted /\ LinesTornByConcurrentLong
  BY <1>4 DEF OpenLinesAccounted, LinesTornByConcurrentLong
<1> QED
  BY <1>3, <1>5, <1>6 DEF TrailInv

LEMMA TrailStep == TrailInv /\ [Next]_vars => TrailInv'
<1> SUFFICES ASSUME TrailInv, [Next]_vars
             PROVE  TrailInv'
  OBVIOUS
<1> USE DEF TrailInv
<1>1. Base
  BY DEF Base
<1>2. CASE UNCHANGED vars
  <2>1. /\ UNCHANGED <<sinks, pc, event, next, file, taken, silent, length>>
        /\ UNCHANGED <<missed, due, before, over, killed>>
    BY <1>2 DEF vars, history
  <2>2. Base'
    BY <2>1 DEF Base, TypeOK, RecordedOnce, Placed, Sink, At
  <2>3. DeliversInTurn' /\ DeliveredUnlessFailed'
    BY <2>1 DEF DeliversInTurn, DeliveredUnlessFailed, DoneWith, Delivered, Has, IsIn, Sink
  <2>4. Known
    BY <2>1 DEF Known
  <2>5. OpenLinesAccounted' /\ LinesTornByConcurrentLong'
    BY <1>1, <2>1, <2>4, UnwrittenLines DEF Ending, Sink
  <2> QED
    BY <2>2, <2>3, <2>5 DEF Base
<1>3. ASSUME NEW t \in Threads, Record(t)
      PROVE  TrailInv'
  BY <1>1, <1>3, RecordBase, RecordDelivers, RecordLines DEF Base
<1>4. ASSUME NEW t \in Threads, NextSink(t) \/ Return(t)
      PROVE  TrailInv'
  BY <1>1, <1>4, LoopBase, LoopDelivers, RecordLines DEF Base
<1>5. ASSUME NEW t \in Threads,
             WriteEvent(t) \/ CloseFile(t) \/ Post(t) \/ Emit(t) \/ Unwritable(t)
      PROVE  TrailInv'
  <2>1. Emission(t)
    BY <1>1, <1>5, Emissions
  <2> QED
    BY <1>1, <2>1, EmissionBase, EmissionDelivers, EmissionLines DEF Base
<1>6. CASE AddSink \/ Silence \/ Crash
  BY <1>1, <1>6, HostBase, HostDelivers, HostLines DEF Base
<1> QED
  BY <1>2, <1>3, <1>4, <1>5, <1>6 DEF Next, RecordStep

LEMMA TrailInvariant == Spec => []TrailInv
BY TrailInit, TrailStep, PTL DEF Spec

(***************************************************************************)
(* The state stays within its types (audit.py 155-168): in particular a    *)
(* thread never comes to a place in self.sinks that is beyond the one      *)
(* after the last, whatever add_sink and other threads do.                 *)
(***************************************************************************)
THEOREM TypeCorrect == Spec => []TypeOK
BY TrailInvariant, PTL DEF TrailInv

(***************************************************************************)
(* When record has returned, every sink there was when it was called has   *)
(* the event or failed on it itself (audit.py 128, 162-168), for any       *)
(* number of threads, events and sinks of each kind, in any order.         *)
(***************************************************************************)
THEOREM EverySinkIsServed == Spec => []DeliveredUnlessFailed
BY TrailInvariant, PTL DEF TrailInv

(***************************************************************************)
(* Events share a line of a file only after a fault, or when the first is  *)
(* longer than the file's buffer and was recorded at the same time         *)
(* (audit.py 78-88).                                                       *)
(***************************************************************************)
THEOREM LinesAreTornByLongEventsOnly == Spec => []LinesTornByConcurrentLong
BY TrailInvariant, PTL DEF TrailInv

-----------------------------------------------------------------------------
(***************************************************************************)
(* When each line is one event: no event is as long as the buffer of a     *)
(* file.                                                                   *)
(***************************************************************************)
LengthsConfigured == \A e \in Events : length[e] \in Lengths \cup {None}

LEMMA LengthsKept == LengthsConfigured /\ [Next]_vars => LengthsConfigured'
<1> SUFFICES ASSUME LengthsConfigured, [Next]_vars PROVE LengthsConfigured'
  OBVIOUS
<1>1. ASSUME NEW t \in Threads, Record(t) PROVE LengthsConfigured'
  <2>1. PICK e \in Events, l \in Lengths : length' = [length EXCEPT ![e] = l]
    BY <1>1 DEF Record
  <2>2. \A d \in Events : length'[d] \in {length[d], l}
    BY <2>1
  <2> QED
    BY <2>2 DEF LengthsConfigured
<1>2. CASE length' = length
  BY <1>2 DEF LengthsConfigured
<1>3. CASE UNCHANGED vars
  BY <1>3, <1>2 DEF vars
<1>4. ASSUME NEW t \in Threads, RecordStep(t) PROVE LengthsConfigured'
  BY <1>2, <1>4 DEF RecordStep, NextSink, Return, WriteEvent, CloseFile, Post, Emit, Unwritable
<1>5. CASE AddSink \/ Silence \/ Crash
  BY <1>2, <1>5 DEF AddSink, Silence, Crash
<1> QED
  BY <1>1, <1>3, <1>4, <1>5 DEF Next

(***************************************************************************)
(* audit.py 79, "Appends each event as one JSON line", is kept, for any    *)
(* number of threads and sinks, by events shorter than the file's buffer   *)
(* as long as nothing fails: the length of an event is the one condition   *)
(* that the run AuditTrail_lines needs to break it.                        *)
(***************************************************************************)
THEOREM ShortEventsHaveLines == "long" \notin Lengths => (Spec => []EachLineIsOneEvent)
<1> SUFFICES ASSUME "long" \notin Lengths PROVE Spec => []EachLineIsOneEvent
  OBVIOUS
<1>1. Init => LengthsConfigured
  BY DEF Init, LengthsConfigured
<1>2. TrailInv /\ LengthsConfigured => EachLineIsOneEvent
  <2> SUFFICES ASSUME TrailInv, LengthsConfigured, missed = {}, killed = {},
                      NEW f \in Files, NEW i \in 1 .. Len(file[f]),
                      NEW j \in 1 .. Len(file[f]), SameLine(f, i, j)
               PROVE  FALSE
    BY DEF EachLineIsOneEvent
  <2> PICK e, d : e = file[f][i].event /\ d = file[f][j].event
    OBVIOUS
  <2>1. Fault(f, e, d)
    BY Torn DEF TrailInv
  <2>2. length[e] = "long"
    BY <2>1 DEF Fault, Faulted
  <2>3. e \in Events
    BY WrittenEvents DEF TrailInv, Base
  <2> QED
    BY <2>2, <2>3, AuditTrailAssumption DEF LengthsConfigured, EventLengths
<1> QED
  BY <1>1, <1>2, LengthsKept, TrailInvariant, PTL DEF Spec
=============================================================================
