---------------------------- MODULE StreamPasses ----------------------------
(***************************************************************************)
(* Passes and subscriptions of a stream producer                           *)
(* (metriken-exposition/src/stream/route.rs, clock.rs and body.rs).        *)
(*                                                                         *)
(* RegistryPasses keeps one pass per layout and shares it with every       *)
(* request whose clock is near the one it was built for.  A subscription   *)
(* sleeps to the next boundary of its interval, reads the wall clock when  *)
(* it wakes, fetches a pass and sends one frame: the rows that are new to  *)
(* it, under the index of the interval it woke for.  The wall clock may be *)
(* stepped; sleeping follows the monotonic one.                            *)
(*                                                                         *)
(* Time is in ticks.  A pass carries one stream that a sampler reads on    *)
(* its own schedule (`reading` is the window of its last read) and one     *)
(* that has no window; the encoding of rows is StreamedGroup's.            *)
(***************************************************************************)
EXTENDS Integers, Sequences

CONSTANTS Subs,             \* subscriptions
          Layouts,          \* the layouts they may ask for
          Offers,           \* the intervals they may offer
          Floor,            \* the update floor
          Late,             \* the runtime's jitter: a ready task is polled within it
          Stalls,           \* how much later a starved task is polled
          Steps,            \* what one clock correction adds to the wall clock
          MaxTime,          \* bound: ticks
          MaxReadings,      \* bound: windows of the sampled stream
          MaxFaults         \* bound: corrections, stalls and failed passes

ASSUME SPAssumption ==
    /\ Floor \in Nat \ {0} /\ Offers \subseteq Nat \ {0}
    /\ Late \in Nat /\ Stalls \subseteq Nat /\ Steps \subseteq Int

NotYet == [wall |-> -1, reading |-> 0]

VARIABLES time,             \* the monotonic clock
          offset,           \* wall clock minus monotonic
          reading,          \* the window of the sampled stream
          cache,            \* LayoutState::last: the clock asked for, and the pass
          sub,              \* the subscriptions
          faults            \* what went wrong so far: a set of kinds, and how often

spvars == <<time, offset, reading, cache, sub, faults>>

Wall == time + offset

\* A wall clock off the boundaries of the floor.
StartWall == Floor + Floor \div 2

-----------------------------------------------------------------------------
(* clock.rs *)

AlignWait(now, interval) == interval - (now % interval)

IntervalIndex(wall, interval) == wall \div interval

\* A variant: the index is not held above the last one.
MonotonicIndexUnheld(wall, interval, last) == IntervalIndex(wall, interval)

MonotonicIndex(wall, interval, last) ==
    IF IntervalIndex(wall, interval) <= last THEN last + 1
                                             ELSE IntervalIndex(wall, interval)

-----------------------------------------------------------------------------
(* RegistryPasses *)

\* A variant: the pass is reused for the whole floor.
ReuseTheFloor == Floor

Reuse == Floor - Floor \div 4

Abs(x) == IF x < 0 THEN -x ELSE x

Shares(entry, now) ==
    entry.pass # NotYet /\ Abs(now - entry.now) < Reuse

NewPass == [wall |-> Wall, reading |-> reading]

-----------------------------------------------------------------------------
(* StreamSubscription *)

Negotiated(offer) == IF offer < Floor THEN Floor ELSE offer

\* with_producer, with negotiated() where the route calls it.  lastIndex and
\* lastWall are -1 before the first frame, lastWindow is 0 before the first
\* row.  The fields after them are history: when the last frame's wake was,
\* the indexes that frame skipped, the windows sent, and what it was built of.
Subscribed(layout, interval) ==
    [layout |-> layout, interval |-> interval,
     pc |-> "asleep", due |-> AlignWait(StartWall, interval), slack |-> 0, now |-> 0,
     lastWindow |-> 0, lastWall |-> -1, lastIndex |-> -1,
     woke |-> 0, skipped |-> 0, pass |-> NotYet, empty |-> FALSE]

SPInit ==
    /\ time = 0 /\ reading = 1
    /\ offset = StartWall
    /\ faults = [kinds |-> {}, count |-> 0]
    /\ cache = [l \in Layouts |-> [now |-> 0, pass |-> NotYet]]
    /\ sub \in [Subs -> {Subscribed(l, i) : l \in Layouts,
                            i \in Offers \cup {Negotiated(o) : o \in Offers}}]

Fault(kind) ==
    /\ faults.count < MaxFaults
    /\ faults' = [kinds |-> faults.kinds \cup {kind}, count |-> faults.count + 1]

\* into_stream: the deadline of the next frame is computed from the wall
\* clock after the last one and slept to on the monotonic clock; the wall
\* clock is read again on waking.
Wake(s) ==
    /\ sub[s].pc = "asleep"
    /\ time >= sub[s].due
    /\ sub' = [sub EXCEPT ![s].pc = "woken", ![s].now = Wall, ![s].due = time,
                          ![s].slack = 0]
    /\ UNCHANGED <<time, offset, reading, cache, faults>>

\* A pass with the wall time of the last one is the last one: nothing in it
\* is new.  In a pass that is, a window is new unless it was the last sent.
Advanced(c, pass) == pass # NotYet /\ c.lastWall # pass.wall

SendsRow(c, pass) == Advanced(c, pass) /\ c.lastWindow # pass.reading

\* frame_at: the index, then the rows that are new to this subscription.
SubFrame(c, pass) ==
    LET index == MonotonicIndex(c.now, c.interval, c.lastIndex)
        sends == SendsRow(c, pass)
    IN [c EXCEPT
          !.pc = "asleep", !.due = time + AlignWait(Wall, c.interval),
          !.slack = 0, !.now = 0, !.woke = c.due,
          !.lastIndex = index,
          !.skipped = IF c.lastIndex < 0 THEN 0 ELSE index - c.lastIndex - 1,
          !.lastWall = IF pass = NotYet THEN @ ELSE pass.wall,
          !.lastWindow = IF sends THEN pass.reading ELSE @,
          !.empty = ~Advanced(c, pass),
          !.pass = pass]

\* pass(), under its lock, and the frame of what it returns.
FetchShared(s) ==
    /\ sub[s].pc = "woken"
    /\ LET entry == cache[sub[s].layout]
       IN /\ Shares(entry, sub[s].now)
          /\ sub' = [sub EXCEPT ![s] = SubFrame(@, entry.pass)]
    /\ UNCHANGED <<time, offset, reading, cache, faults>>

FetchBuilt(s) ==
    /\ sub[s].pc = "woken"
    /\ ~Shares(cache[sub[s].layout], sub[s].now)
    /\ cache' = [cache EXCEPT ![sub[s].layout] =
                    [now |-> sub[s].now, pass |-> NewPass]]
    /\ sub' = [sub EXCEPT ![s] = SubFrame(@, NewPass)]
    /\ UNCHANGED <<time, offset, reading, faults>>

\* A group fails to encode: nothing is kept, and the frame is empty.
FetchFailed(s) ==
    /\ sub[s].pc = "woken"
    /\ Fault("failed")
    /\ ~Shares(cache[sub[s].layout], sub[s].now)
    /\ cache' = [cache EXCEPT ![sub[s].layout].pass = NotYet]
    /\ sub' = [sub EXCEPT ![s] = SubFrame(@, NotYet)]
    /\ UNCHANGED <<time, offset, reading>>

-----------------------------------------------------------------------------
(* The world: time, the clock's corrections, the sampler. *)

\* A task that is ready is polled within its jitter.  The sampler may read
\* its stream again as time passes.
Tick ==
    /\ time < MaxTime
    /\ \A s \in Subs : time < sub[s].due + Late + sub[s].slack
    /\ time' = time + 1
    /\ reading' \in {reading} \cup {r \in {reading + 1} : r <= MaxReadings}
    /\ UNCHANGED <<offset, cache, sub, faults>>

StepClock(d) ==
    /\ Fault(IF d > 0 THEN "forward" ELSE "back")
    /\ Wall + d >= 0
    /\ offset' = offset + d
    /\ UNCHANGED <<time, reading, cache, sub>>

Stall(s, d) ==
    /\ sub[s].slack = 0
    /\ Fault("stall")
    /\ sub' = [sub EXCEPT ![s].slack = d]
    /\ UNCHANGED <<time, offset, reading, cache>>

SPNext ==
    \/ \E s \in Subs :
          Wake(s) \/ FetchShared(s) \/ FetchBuilt(s) \/ FetchFailed(s)
    \/ Tick
    \/ \E d \in Steps : StepClock(d)
    \/ \E s \in Subs, d \in Stalls : Stall(s, d)

SPSpec == SPInit /\ [][SPNext]_spvars

-----------------------------------------------------------------------------
\* A subscription served at the floor or slower, on a runtime whose jitter
\* fits in the quarter of the floor that is kept as margin, never sends an
\* empty frame for a pass it was sent already, while the clock is not
\* stepped (the doc of RegistryPasses::new): whichever subscription builds
\* the pass, and in whichever order the late ones come to the lock.
NeverServedTwice ==
    \A s \in Subs :
        (/\ faults.kinds \subseteq {"failed"}
         /\ 2 * Late <= Floor \div 4
         /\ sub[s].interval >= Floor
         /\ sub[s].pass # NotYet) => ~sub[s].empty

\* `seq` is evidence of a lost reading: it only advances, and unless the
\* clock was stepped forward, an index is skipped only for an interval that
\* did elapse since the subscription last woke.
SeqIsEvidence ==
    [][\A s \in Subs :
          sub'[s].lastIndex # sub[s].lastIndex =>
             /\ sub'[s].lastIndex > sub[s].lastIndex
             /\ "forward" \notin faults.kinds =>
                   sub'[s].skipped
                      <= (sub'[s].woke - sub[s].woke) \div sub[s].interval]_spvars

=============================================================================
