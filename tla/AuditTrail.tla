------------------------------ MODULE AuditTrail ------------------------------
(***************************************************************************)
(* audit.py: AuditTrail.record hands an event to each sink in turn, called *)
(* by several threads while the host adds sinks.  A JSONLFileSink opens    *)
(* its file, writes the event, writes the newline and closes the file, and *)
(* what is shorter than the file's buffer reaches the file when it closes; *)
(* a WebhookSink may wait for a silent server; any sink may fail; the      *)
(* process may die and start again with the file it left.                  *)
(***************************************************************************)
EXTENDS Naturals, Sequences, FiniteSets

CONSTANTS
    Threads,
    Events,        \* event_ids; each is recorded once
    Files,         \* JSONL sinks, each with a file of its own
    Webhooks,      \* webhook sinks
    Others,        \* sinks of the host, and LoggingSink
    Configured,    \* the sinks AuditTrail is built with, in order
    Lengths,       \* lengths events may have, among the three below
    Faulty,        \* whether writes may fail and the process die
    None

\* Shorter than the buffer of a file, longer, or not to be written as JSON.
EventLengths == {"short", "long", "unwritable"}

Sinks == Files \cup Webhooks \cup Others

\* A write to a file: an event with its newline, an event, a newline, or as
\* much of an event as the disk took.
Kinds == {"line", "body", "newline", "part"}
Piece == [kind : Kinds, event : Events]

Pcs == {"idle", "fanout", "write", "close", "post", "emit"}

ASSUME AuditTrailAssumption ==
    /\ Configured \in Seq(Sinks)
    /\ Lengths \subseteq EventLengths
    /\ Faulty \in BOOLEAN
    /\ Files \cap Webhooks = {} /\ Files \cap Others = {} /\ Webhooks \cap Others = {}
    /\ None \notin Events \cup Sinks \cup EventLengths

VARIABLES
    sinks,     \* self.sinks
    pc,        \* where each thread is in record
    event,     \* the event it records, None if it records none
    next,      \* the place in self.sinks it comes to next
    file,      \* the writes that reached each file, in order
    taken,     \* events each webhook and other sink is known to have taken
    silent,    \* webhooks whose server does not answer
    length,    \* the length of each event, None until it is recorded
    missed,    \* history: sinks whose emit failed, with the event
    due,       \* history: the sinks there were when each event was recorded,
    before,    \*   and the events whose record had returned by then
    over,      \* history: events whose record has returned
    killed     \* history: events whose record died with the process

history == <<missed, due, before, over, killed>>
vars == <<sinks, pc, event, next, file, taken, silent, length, history>>

Init ==
    /\ sinks = Configured
    /\ pc = [t \in Threads |-> "idle"]
    /\ event = [t \in Threads |-> None]
    /\ next = [t \in Threads |-> 1]
    /\ file = [f \in Files |-> <<>>]
    /\ taken = [s \in Webhooks \cup Others |-> {}]
    /\ silent = {}
    /\ length = [e \in Events |-> None]
    /\ missed = {}
    /\ due = [e \in Events |-> {}]
    /\ before = [e \in Events |-> {}]
    /\ over = {}
    /\ killed = {}

-----------------------------------------------------------------------------

At(t, label) == pc[t] = label
Goto(t, label) == pc' = [pc EXCEPT ![t] = label]

\* The sink the thread is at.
Sink(t) == sinks[next[t] - 1]

IsIn(s) == \E i \in 1 .. Len(sinks) : sinks[i] = s

Record(t) ==
    /\ At(t, "idle")
    /\ \E e \in Events, l \in Lengths :
          /\ length[e] = None
          /\ length' = [length EXCEPT ![e] = l]
          /\ event' = [event EXCEPT ![t] = e]
          /\ due' = [due EXCEPT ![e] = {s \in Sinks : IsIn(s)}]
          /\ before' = [before EXCEPT ![e] = over]
    /\ next' = [next EXCEPT ![t] = 1]
    /\ Goto(t, "fanout")
    /\ UNCHANGED <<sinks, file, taken, silent, missed, over, killed>>

\* The loop over self.sinks sees what add_sink appends meanwhile.
NextSink(t) ==
    /\ At(t, "fanout")
    /\ next[t] <= Len(sinks)
    /\ next' = [next EXCEPT ![t] = @ + 1]
    /\ LET s == sinks[next[t]]
       IN  Goto(t, CASE s \in Files -> "write" [] s \in Webhooks -> "post"
                     [] s \in Others -> "emit")
    /\ UNCHANGED <<sinks, event, file, taken, silent, length, history>>

Return(t) ==
    /\ At(t, "fanout")
    /\ next[t] > Len(sinks)
    /\ over' = over \cup {event[t]}
    /\ event' = [event EXCEPT ![t] = None]
    /\ next' = [next EXCEPT ![t] = 1]
    /\ Goto(t, "idle")
    /\ UNCHANGED <<sinks, file, taken, silent, length, missed, due, before, killed>>

\* Faulty variant: an exception of a sink ends the loop.
RaiseOut(t) ==
    /\ missed' = missed \cup {<<Sink(t), event[t]>>}
    /\ over' = over \cup {event[t]}
    /\ event' = [event EXCEPT ![t] = None]
    /\ Goto(t, "idle")

\* emit raised: the loop goes on to the next sink.
Swallow(t) ==
    /\ missed' = missed \cup {<<Sink(t), event[t]>>}
    /\ Goto(t, "fanout")
    /\ UNCHANGED <<over, event>>

Reaches(f, kind, e) == file' = [file EXCEPT ![f] = Append(@, [kind |-> kind, event |-> e])]

\* A write that fails may have left some of the event behind.
CutShort(t) ==
    /\ Faulty
    /\ UNCHANGED file \/ Reaches(Sink(t), "part", event[t])
    /\ Swallow(t)

\* Faulty variant: a file without a buffer.
BuffersNothing(e) == FALSE

Buffers(e) == length[e] = "short"

\* JSONLFileSink.emit up to the end of the block: a short event stays in the
\* buffer, a long one goes to the file and leaves the newline behind.
WriteEvent(t) ==
    /\ At(t, "write")
    /\ \/ /\ length[event[t]] # "unwritable"
          /\ IF Buffers(event[t]) THEN UNCHANGED file ELSE Reaches(Sink(t), "body", event[t])
          /\ Goto(t, "close")
          /\ UNCHANGED <<missed, over, event>>
       \/ length[event[t]] = "unwritable" /\ Swallow(t) /\ UNCHANGED file
       \/ CutShort(t)
    /\ UNCHANGED <<sinks, next, taken, silent, length, due, before, killed>>

Flushes(t) == Reaches(Sink(t), IF Buffers(event[t]) THEN "line" ELSE "newline", event[t])

CloseFile(t) ==
    /\ At(t, "close")
    /\ \/ Flushes(t) /\ Goto(t, "fanout") /\ UNCHANGED <<missed, over, event>>
       \/ Buffers(event[t]) /\ CutShort(t)
       \/ ~Buffers(event[t]) /\ Faulty /\ UNCHANGED file /\ Swallow(t)
    /\ UNCHANGED <<sinks, next, taken, silent, length, due, before, killed>>

Takes(s, e) == taken' = [taken EXCEPT ![s] = @ \cup {e}]

\* Faulty variant: urlopen without its timeout.
WaitsForever(s) == s \notin silent

GivesUp(s) == TRUE

\* WebhookSink.emit: the server answers that it has taken the event, or an error
\* or the timeout comes, which is a failure whether or not it has.
Post(t) ==
    /\ At(t, "post")
    /\ length[event[t]] # "unwritable"
    /\ \/ /\ Sink(t) \notin silent
          /\ Takes(Sink(t), event[t])
          /\ Goto(t, "fanout")
          /\ UNCHANGED <<missed, over, event>>
       \/ /\ GivesUp(Sink(t))
          /\ UNCHANGED taken
          /\ Swallow(t)
    /\ UNCHANGED <<sinks, next, file, silent, length, due, before, killed>>

\* A sink of the host or LoggingSink.
Emit(t) ==
    /\ At(t, "emit")
    /\ length[event[t]] # "unwritable"
    /\ \/ /\ Takes(Sink(t), event[t])
          /\ Goto(t, "fanout")
          /\ UNCHANGED <<missed, over, event>>
       \/ Faulty /\ UNCHANGED taken /\ Swallow(t)
    /\ UNCHANGED <<sinks, next, file, silent, length, due, before, killed>>

\* to_json raises.
Unwritable(t) ==
    /\ pc[t] \in {"post", "emit"}
    /\ length[event[t]] = "unwritable"
    /\ Swallow(t)
    /\ UNCHANGED <<sinks, next, file, taken, silent, length, due, before, killed>>

RecordStep(t) ==
    \/ NextSink(t) \/ Return(t) \/ WriteEvent(t) \/ CloseFile(t)
    \/ Post(t) \/ Emit(t) \/ Unwritable(t)

\* Faulty variant: the sink takes the place of those there are.
AddSinkAlone ==
    /\ \E s \in Sinks : ~IsIn(s) /\ sinks' = <<s>>
    /\ UNCHANGED <<pc, event, next, file, taken, silent, length, history>>

AddSink ==
    /\ \E s \in Sinks : ~IsIn(s) /\ sinks' = Append(sinks, s)
    /\ UNCHANGED <<pc, event, next, file, taken, silent, length, history>>

Silence ==
    /\ \E w \in Webhooks : silent' = silent \cup {w} \/ silent' = silent \ {w}
    /\ UNCHANGED <<sinks, pc, event, next, file, taken, length, history>>

\* The process dies, buffers and all, and is started again.
Crash ==
    /\ Faulty
    /\ killed' = killed \cup {event[t] : t \in {u \in Threads : event[u] # None}}
    /\ sinks' = Configured
    /\ pc' = [t \in Threads |-> "idle"]
    /\ event' = [t \in Threads |-> None]
    /\ next' = [t \in Threads |-> 1]
    /\ UNCHANGED <<file, taken, silent, length, missed, due, before, over>>

Next ==
    \/ \E t \in Threads : Record(t) \/ RecordStep(t)
    \/ AddSink
    \/ Silence
    \/ Crash

Spec == Init /\ [][Next]_vars

\* A thread inside record is scheduled; nobody has to start one.
FairSpec == Spec /\ \A t \in Threads : WF_vars(RecordStep(t))

-----------------------------------------------------------------------------
(***************************************************************************)
(* Properties.                                                             *)
(***************************************************************************)
TypeOK ==
    /\ sinks \in Seq(Sinks)
    /\ pc \in [Threads -> Pcs]
    /\ event \in [Threads -> Events \cup {None}]
    /\ \A t \in Threads : event[t] = None <=> At(t, "idle")
    /\ next \in [Threads -> 1 .. Len(sinks) + 1]
    /\ file \in [Files -> Seq(Piece)]
    /\ taken \in [Webhooks \cup Others -> SUBSET Events]
    /\ silent \subseteq Webhooks
    /\ length \in [Events -> EventLengths \cup {None}]
    /\ missed \subseteq Sinks \X Events
    /\ due \in [Events -> SUBSET Sinks]
    /\ before \in [Events -> SUBSET Events]
    /\ over \subseteq Events /\ killed \subseteq Events

\* The sink s has all of e.
Has(s, e) ==
    IF s \in Files
    THEN \E i \in 1 .. Len(file[s]) :
            file[s][i].event = e /\ file[s][i].kind \in {"line", "body"}
    ELSE e \in taken[s]

(***************************************************************************)
(* When record has returned every sink there was when it was called has    *)
(* the event, or failed on it itself: no other sink's failure, no thread,  *)
(* no sink added meanwhile and no later crash takes it away (audit.py 128, *)
(* 162-168).                                                               *)
(***************************************************************************)
DeliveredUnlessFailed ==
    \A e \in over : \A s \in due[e] : Has(s, e) \/ <<s, e>> \in missed

\* Both writes belong to one line of the file: no newline comes between.
SameLine(f, i, j) ==
    /\ i < j
    /\ \A k \in i .. j - 1 : file[f][k].kind \notin {"line", "newline"}
    /\ file[f][j].kind # "newline"

(***************************************************************************)
(* Two events share a line, and neither can be read again, only if the     *)
(* first was cut short by a fault or is longer than the buffer of the file *)
(* and was recorded at the same time (audit.py 78-88).                     *)
(***************************************************************************)
LinesTornByConcurrentLong ==
    \A f \in Files : \A i, j \in 1 .. Len(file[f]) :
        LET first == file[f][i]
            second == file[f][j]
        IN  SameLine(f, i, j) =>
              \/ <<f, first.event>> \in missed \/ first.event \in killed
              \/ /\ length[first.event] = "long"
                 /\ first.event \notin before[second.event]

(***************************************************************************)
(* A record that was begun ends: neither a silent webhook nor a failing    *)
(* sink holds up the agent for ever (audit.py 97-100).                     *)
(***************************************************************************)
RecordEnds == \A t \in Threads : ~At(t, "idle") ~> At(t, "idle")

-----------------------------------------------------------------------------
(***************************************************************************)
(* audit.py 79, "Appends each event as one JSON line ... Thread-safe       *)
(* append": whatever threads do, a line of a file holds one event as long  *)
(* as nothing fails.                                                       *)
(***************************************************************************)
EachLineIsOneEvent ==
    missed = {} /\ killed = {} =>
        \A f \in Files : \A i, j \in 1 .. Len(file[f]) : ~SameLine(f, i, j)
=============================================================================
