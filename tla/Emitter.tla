------------------------------ MODULE Emitter ------------------------------
(***************************************************************************)
(* The recorder's event path: `Emitter` (metriken-recorder/src/recorder.rs *)
(* 842-945) between the driver task, which emits, and the caller, which    *)
(* reads the bounded channel from another task.                            *)
(*                                                                         *)
(* A call of the emitter is not atomic: the caller may read, or drop the   *)
(* receiver, between two sends of one flush.  `call` says where in a call  *)
(* the driver is.                                                          *)
(***************************************************************************)
EXTENDS Naturals, Sequences, FiniteSets

CONSTANTS ChanCap,          \* capacity of the caller's channel
          QueueCap,         \* QUEUE_CAP
          MaxEmit           \* bound: events emitted in a behaviour

ASSUME EmitterAssumption ==
    /\ ChanCap \in Nat \ {0}
    /\ QueueCap \in Nat \ {0}
    /\ MaxEmit \in Nat

Kinds == {"lossy", "capped", "must"}

VARIABLES
    chan,                   \* entries in the channel
    queue,                  \* entries in Emitter.queue
    open,                   \* the receiver is not dropped
    call,                   \* the emitter call in progress
    phase,                  \* what the driver is doing
    log,                    \* history: kinds of the events emitted
    view                    \* history: what the caller read, drops expanded

vars == <<chan, queue, open, call, phase, log, view>>

(***************************************************************************)
(* An entry is an event, named by its place in the history of emissions,   *)
(* or a Lagged (id 0) with its count.  `upto` is history: the last         *)
(* emission the entry stands for.  No guard reads it.                      *)
(***************************************************************************)
Entry == [id : Nat, count : Nat \ {0}, upto : Nat]
Event(n) == [id |-> n, count |-> 1, upto |-> n]
Lagged(n) == [id |-> 0, count |-> 1, upto |-> n]
IsLagged(e) == e.id = 0
OneMore(e, n) == [id |-> e.id, count |-> e.count + 1, upto |-> n]

Calls == {"idle", "flush", "lossy", "try_send", "hand_off"}
Phases == {"running", "failed", "stopping", "handed_off", "no_runtime"}

Init ==
    /\ chan = <<>> /\ queue = <<>>
    /\ open = TRUE
    /\ call = "idle" /\ phase = "running"
    /\ log = <<>> /\ view = <<>>

-----------------------------------------------------------------------------
(* Variants a slip in this code would give; TLC refutes a property on each. *)
\* over the cap, an event is lost without a note, or queued all the same.
MustQueueSilent(q, k, n) ==
    IF k = "capped" /\ Len(q) >= QueueCap THEN q ELSE Append(q, Event(n))
\* a drop is noted in front of the events queued before it.
NoteDropFront(q, n) == <<Lagged(n)>> \o q
\* the tick does not flush.
TickFlushSkipped == phase = "running" /\ call = "idle" /\ UNCHANGED vars
-----------------------------------------------------------------------------
\* note_drop: merge with a Lagged at the back, else queue a new one.
NoteDrop(q, n) ==
    IF q # <<>> /\ IsLagged(q[Len(q)])
    THEN [q EXCEPT ![Len(q)] = OneMore(@, n)]
    ELSE Append(q, Lagged(n))

\* must, before its flush: over the cap, a capped event is counted instead.
MustQueue(q, k, n) ==
    IF k = "capped" /\ Len(q) >= QueueCap THEN NoteDrop(q, n) ELSE Append(q, Event(n))

Emitting(k) ==
    /\ call = "idle"
    /\ Len(log) < MaxEmit
    /\ log' = Append(log, k)

\* Emitter::must up to its flush.
Must(k) ==
    /\ k # "lossy"
    /\ phase \in {"running", "stopping"}
    /\ Emitting(k)
    /\ queue' = MustQueue(queue, k, Len(log) + 1)
    /\ call' = "flush"
    /\ UNCHANGED <<chan, open, phase, view>>

\* Emitter::lossy, which flushes first; the event is still in its hand.
Lossy ==
    /\ phase \in {"running", "stopping"}
    /\ Emitting("lossy")
    /\ call' = "lossy"
    /\ UNCHANGED <<chan, queue, open, phase, view>>

\* Driver::tick begins with a flush.
TickFlush ==
    /\ phase = "running" /\ call = "idle"
    /\ call' = "flush"
    /\ UNCHANGED <<chan, queue, open, phase, log, view>>

\* Driver::fail: Failed is emitted and the ticker is disabled from here on.
Fail ==
    /\ phase = "running"
    /\ Emitting("must")
    /\ queue' = MustQueue(queue, "must", Len(log) + 1)
    /\ call' = "flush" /\ phase' = "failed"
    /\ UNCHANGED <<chan, open, view>>

\* Command::Finish (events may still be emitted), Discard, or the Recorder dropped.
Stop ==
    /\ phase \in {"running", "failed"} /\ call = "idle"
    /\ phase' = "stopping"
    /\ UNCHANGED <<chan, queue, open, call, log, view>>

-----------------------------------------------------------------------------
Flushing == call \in {"flush", "lossy", "hand_off"}

\* One turn of flush's loop: the front of the queue fits.
FlushSend ==
    /\ Flushing /\ open
    /\ queue # <<>> /\ Len(chan) < ChanCap
    /\ chan' = Append(chan, Head(queue))
    /\ queue' = Tail(queue)
    /\ UNCHANGED <<open, call, phase, log, view>>

\* flush returns: everything sent, or the channel is full.  lossy goes on:
\* an event that would overtake a queued one is dropped.
FlushReturn ==
    /\ Flushing /\ open
    /\ queue = <<>> \/ Len(chan) >= ChanCap
    /\ \/ /\ call = "flush"
          /\ call' = "idle"
          /\ UNCHANGED <<queue, phase>>
       \/ /\ call = "lossy" /\ queue = <<>>
          /\ call' = "try_send"
          /\ UNCHANGED <<queue, phase>>
       \/ /\ call = "lossy" /\ queue # <<>>
          /\ queue' = NoteDrop(queue, Len(log))
          /\ call' = "idle"
          /\ UNCHANGED phase
       \/ /\ call = "hand_off"            \* the rest goes to a task of its own
          /\ call' = "idle" /\ phase' = "handed_off"
          /\ UNCHANGED queue
       \/ /\ call = "hand_off" /\ queue # <<>>   \* no runtime to spawn it on
          /\ call' = "idle" /\ phase' = "no_runtime"
          /\ queue' = <<>>
    /\ UNCHANGED <<chan, open, log, view>>

\* The receiver was dropped: flush clears the queue, lossy returns.
FlushClosed ==
    /\ Flushing /\ ~open
    /\ queue' = <<>>
    /\ call' = "idle"
    /\ phase' = IF call = "hand_off" THEN "handed_off" ELSE phase
    /\ UNCHANGED <<chan, open, log, view>>

\* lossy's own try_send, on an empty queue.
TrySend ==
    /\ call = "try_send"
    /\ call' = "idle"
    /\ \/ /\ open /\ Len(chan) < ChanCap
          /\ chan' = Append(chan, Event(Len(log)))
          /\ UNCHANGED queue
       \/ /\ open /\ Len(chan) >= ChanCap
          /\ queue' = NoteDrop(queue, Len(log))
          /\ UNCHANGED chan
       \/ /\ ~open
          /\ UNCHANGED <<chan, queue>>
    /\ UNCHANGED <<open, phase, log, view>>

\* Emitter::hand_off, when the driver is dropped.
HandOff ==
    /\ phase = "stopping" /\ call = "idle"
    /\ call' = "hand_off"
    /\ UNCHANGED <<chan, queue, open, phase, log, view>>

\* The spawned task: send in order, waiting for room; stop once closed.
TaskSend ==
    /\ phase = "handed_off" /\ queue # <<>>
    /\ \/ /\ open /\ Len(chan) < ChanCap
          /\ chan' = Append(chan, Head(queue))
          /\ queue' = Tail(queue)
       \/ /\ ~open
          /\ queue' = <<>>
          /\ UNCHANGED chan
    /\ UNCHANGED <<open, call, phase, log, view>>

-----------------------------------------------------------------------------
\* A Lagged is read as its count of drops.
Copies(n, x) == [i \in 1..n |-> x]

\* The caller reads one entry.
Recv ==
    /\ open /\ chan # <<>>
    /\ chan' = Tail(chan)
    /\ view' = view \o Copies(Head(chan).count, Head(chan).id)
    /\ UNCHANGED <<queue, open, call, phase, log>>

\* The caller drops the receiver, and with it what the channel holds.
Close ==
    /\ open
    /\ open' = FALSE
    /\ chan' = <<>>
    /\ UNCHANGED <<queue, call, phase, log, view>>

Emit == Lossy \/ (\E k \in {"capped", "must"} : Must(k)) \/ Fail
CallStep == FlushSend \/ FlushReturn \/ FlushClosed \/ TrySend

Next ==
    \/ Emit
    \/ TickFlush
    \/ Stop
    \/ HandOff
    \/ CallStep
    \/ TaskSend
    \/ Recv
    \/ Close

Spec == Init /\ [][Next]_vars

(***************************************************************************)
(* The driver task and the spawned task run, the interval ticks while the  *)
(* recorder has not failed or stopped, and a stopping driver is dropped.   *)
(* Recv's fairness is the caller's part: it keeps reading.  Neither Stop   *)
(* nor Close is owed.                                                      *)
(***************************************************************************)
Fairness ==
    /\ WF_vars(CallStep)
    /\ WF_vars(TickFlush)
    /\ WF_vars(HandOff)
    /\ WF_vars(TaskSend)
    /\ WF_vars(Recv)

FairSpec == Spec /\ Fairness

-----------------------------------------------------------------------------
TypeOK ==
    /\ chan \in Seq(Entry)
    /\ queue \in Seq(Entry)
    /\ open \in BOOLEAN
    /\ call \in Calls
    /\ phase \in Phases
    /\ log \in Seq(Kinds)
    /\ view \in Seq(Nat)

\* The queue stays bounded although emitting never waits: events that a
\* flapping producer repeats stop at the cap, and an event that is never
\* dropped adds at most itself and one Lagged before it (the doc of Event,
\* and QUEUE_CAP).
Musts == {i \in 1..Len(log) : log[i] = "must"}
QueueBounded == Len(queue) <= QueueCap + 2 * Cardinality(Musts) + 1

\* Every position the caller has read holds the event of that position or
\* a note that it was dropped, and only an event that may be dropped is:
\* Lagged is read where the drops happened, with the right count.
ViewExact ==
    \A i \in 1..Len(view) :
        \/ view[i] = i
        \/ view[i] = 0 /\ i <= Len(log) /\ log[i] # "must"

\* The event path implements the ordered, accounted delivery that the docs
\* of Event promise: its history, view and openness are this module's, and
\* what the channel, the queue and the tasks hold is a stutter of it.
Delivery == INSTANCE EventDelivery
                WITH MaxEmit <- MaxEmit, log <- log, view <- view, open <- open
DeliverySpec == Delivery!Spec

\* While the recorder ticks, and after it hands its queue to a task, every
\* emission is eventually read or reported dropped by a caller that goes
\* on reading.  Emissions end at MaxEmit, so that is to say that the caller
\* catches up, however often it has.
EventuallyAccounted ==
    []<>(Len(view) >= Len(log) \/ ~open \/ phase \in {"failed", "no_runtime"})

\* The doc of Event without the exception: an event that is never dropped
\* is sent as the channel has room, also after the archive failed.
SentAsTheChannelHasRoom ==
    \A n \in 1..MaxEmit :
        (Len(log) >= n) ~> (Len(view) >= n \/ ~open \/ phase = "no_runtime")
=============================================================================
