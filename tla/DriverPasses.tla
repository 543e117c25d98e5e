---------------------------- MODULE DriverPasses ----------------------------
(***************************************************************************)
(* The passes of a Recorder's driver, and how a stop ends the last one     *)
(* (metriken-recorder/src/recorder.rs: run, tick, scrape_all, local_passes, *)
(* drain_streams, finish, await_frames).                                   *)
(*                                                                         *)
(* A tick scrapes every scraped endpoint at once under a timeout, takes a  *)
(* pass of every local source, and stages the frames that streams brought. *)
(* Commands queue behind it.  A stop for a command that exited wants each  *)
(* source to end after the exit, in the time of the host's wall clock.     *)
(*                                                                         *)
(* Time is in ticks of the monotonic clock, on which rows are stamped;     *)
(* `offset` is the wall clock less it.  What a row says is the time it was *)
(* read at.  Restarts and failures are StreamedSource's.                   *)
(***************************************************************************)
EXTENDS Integers, Sequences

CONSTANTS Scraped, Local, Streamed,     \* the sources, by transport
          Every,            \* Settings.interval
          Timeout,          \* Settings.timeout
          Bound,            \* the bound of Stop::AfterExit
          Served,           \* the interval the producers serve
          Delay,            \* how long a punctual producer's frame is on its way
          Stops,            \* the kinds of stop: "exit", "grace", "now"
          Corrections,      \* what a clock correction adds to the wall clock
          Starting,           \* what may be active and added when the recorder starts
          LateSources,      \* the sources that a later tick may add
          StreamRoom,       \* the driver's stream channel
          MaxClock,         \* bound: ticks of time
          MaxPatches,       \* bound: patches queued
          MaxCorrections    \* bound: clock corrections

Sources == Scraped \cup Local \cup Streamed
Passed == Scraped \cup Local

ASSUME DPAssumption ==
    /\ {Every, Timeout, Served, StreamRoom} \subseteq Nat \ {0} /\ {Bound, Delay} \subseteq Nat
    /\ Delay < Timeout /\ Delay <= Served      \* a producer has one frame on its way
    /\ {MaxClock, MaxPatches, MaxCorrections} \subseteq Nat
    /\ Stops \subseteq {"exit", "grace", "now"} /\ Corrections \subseteq Int
    /\ Starting \subseteq SUBSET Sources /\ LateSources \subseteq Scraped \cup Streamed

VARIABLES
    clock, offset,          \* the monotonic clock; the wall clock less it
    due,                    \* the ticker's next deadline
    commands,               \* the command channel
    at,                     \* where the driver is
    begun,                  \* the stamp of the pass in progress
    lastPass,               \* Driver.last_pass
    scraping,               \* the scrapes of the pass in progress
    recording,               \* the sources that are active and added
    newest,                 \* the last row staged of each source that is passed
    lastFrame,              \* Endpoint.last_frame
    arrived,                \* the driver's stream channel
    flight, sentAt,         \* a producer's frame on its way, and when it sent the last
    stop, deadline,         \* the stop taken, and when its wait ends
    punctual,               \* the producers serve on time
    fresh,                  \* history: the sources whose last pass succeeded
    ended,                  \* history: how the wait ended
    queued,                 \* history: commands before the stop, ticks since
    back, corrections       \* history: the wall clock was set back; corrections

dpvars == <<clock, offset, due, commands, at, begun, lastPass, scraping, recording, newest,
            lastFrame, arrived, flight, sentAt, stop, deadline, punctual, fresh, ended,
            queued, back, corrections>>
clocks == <<clock, offset, back, corrections>>
producers == <<flight, sentAt, punctual>>
tails == <<stop, deadline, ended>>

HostWall == clock + offset
Never == [wall |-> -1, read |-> -1]
NoStop == [kind |-> "none", wall |-> 0, at |-> 0]
NoFrame == [is |-> "none", wall |-> -1]
NoScrape == [at |-> "none", read |-> -1]
NoPass == [ts |-> -1, wall |-> -1]

DPInit ==
    /\ clock = 0 /\ offset = 1 /\ back = FALSE /\ corrections = 0
    /\ due = Every
    /\ commands = <<>>
    /\ at = "idle" /\ begun = NoPass /\ lastPass = -1
    /\ scraping = [s \in Scraped |-> NoScrape]
    /\ recording \in Starting
    /\ newest = [s \in Passed |-> Never]
    /\ lastFrame = [s \in Streamed |-> NoFrame]
    /\ arrived = <<>>
    /\ flight = [s \in Streamed |-> NoFrame] /\ sentAt = [s \in Streamed |-> 0]
    /\ stop = NoStop /\ deadline = 0
    /\ punctual \in BOOLEAN
    /\ fresh = {} /\ ended = "not" /\ queued = [ahead |-> 0, ticks |-> 0]

(* Variants a slip in this code would give; TLC refutes a property on each. *)
\* the last pass is dated by its end.
DatedByItsEnd == HostWall
\* a tick that was taken goes back to the select.
BackToTheSelect(last) ==
    /\ at' = "idle" /\ begun' = NoPass
    /\ UNCHANGED <<commands, scraping, fresh, tails>>
-----------------------------------------------------------------------------
(* Time.                                                                   *)

Underway == {s \in Scraped : scraping[s].at \in {"asked", "read"}}

\* A scrape ends at its timeout and a wait at its deadline; a punctual
\* producer sends a frame every interval, which arrives in time.
Elapses ==
    /\ clock < MaxClock
    /\ \/ at \in {"idle", "grace"}
       \/ Underway # {} /\ clock < begun.ts + Timeout
       \/ at = "await" /\ clock < deadline
    /\ punctual => \A s \in Streamed \cap recording :
        IF flight[s] = NoFrame THEN clock < sentAt[s] + Served ELSE clock < sentAt[s] + Delay
    /\ clock' = clock + 1
    /\ UNCHANGED <<offset, due, commands, at, begun, lastPass, scraping, recording, newest,
                   lastFrame, arrived, flight, sentAt, stop, deadline, punctual, fresh,
                   ended, queued, back, corrections>>

Corrected ==
    /\ corrections < MaxCorrections
    /\ \E c \in Corrections :
        /\ HostWall + c >= 0
        /\ offset' = offset + c
        /\ back' = (back \/ c < 0)
    /\ corrections' = corrections + 1
    /\ UNCHANGED <<clock, due, commands, at, begun, lastPass, scraping, recording, newest,
                   lastFrame, arrived, flight, sentAt, stop, deadline, punctual, fresh,
                   ended, queued>>

-----------------------------------------------------------------------------
(* The caller.                                                             *)

IsStop(c) == c.kind # "patch"

Ask(c) ==
    /\ stop = NoStop /\ \A i \in DOMAIN commands : ~IsStop(commands[i])
    /\ commands' = Append(commands, c)
    /\ UNCHANGED <<clocks, due, at, begun, lastPass, scraping, recording, newest, lastFrame,
                   arrived, producers, tails, fresh>>

AsksPatch ==
    /\ Len(commands) < MaxPatches
    /\ Ask([kind |-> "patch", wall |-> 0, at |-> 0])
    /\ UNCHANGED queued

\* A stop; for "exit", of a command that exits now.
AsksStop ==
    /\ \E k \in Stops : Ask([kind |-> k, wall |-> HostWall, at |-> clock])
    /\ queued' = [ahead |-> Len(commands), ticks |-> 0]

\* The finish's token.
Cancels ==
    /\ at \in {"grace", "await"} /\ ended = "not"
    /\ ended' = "cancelled"
    /\ UNCHANGED <<clocks, due, commands, at, begun, lastPass, scraping, recording, newest,
                   lastFrame, arrived, producers, stop, deadline, fresh, queued>>

-----------------------------------------------------------------------------
(* Producers and pumps.                                                    *)

\* A frame, with rows read now or empty.
Frames == {[NoFrame EXCEPT !.is = "rows", !.wall = HostWall],
           [NoFrame EXCEPT !.is = "empty"]}

Serves(s) ==
    /\ s \in recording /\ flight[s] = NoFrame
    /\ at # "stopped" /\ clock >= sentAt[s] + Served
    /\ \E f \in Frames : flight' = [flight EXCEPT ![s] = f]
    /\ sentAt' = [sentAt EXCEPT ![s] = clock]
    /\ UNCHANGED <<clocks, due, commands, at, begun, lastPass, scraping, recording, newest,
                   lastFrame, arrived, punctual, tails, fresh, queued>>

FrameArrives(s) ==
    /\ flight[s] # NoFrame /\ Len(arrived) < StreamRoom
    /\ arrived' = Append(arrived, [src |-> s, frame |-> flight[s]])
    /\ flight' = [flight EXCEPT ![s] = NoFrame]
    /\ UNCHANGED <<clocks, due, commands, at, begun, lastPass, scraping, recording, newest,
                   lastFrame, sentAt, punctual, tails, fresh, queued>>

\* on_stream_event: an empty frame is dated when it is taken off the channel.
TakesFrame ==
    /\ arrived # <<>>
    /\ LET s == Head(arrived).src
           f == Head(arrived).frame
       IN lastFrame' = [lastFrame EXCEPT ![s] =
             IF f.is = "rows" THEN f ELSE [f EXCEPT !.wall = HostWall]]
    /\ arrived' = Tail(arrived)
    /\ UNCHANGED <<clocks, due, commands, begun, lastPass, scraping, recording, newest,
                   producers, fresh, queued>>

-----------------------------------------------------------------------------
(* A pass: of the tick, or the one more of a stop.                         *)

\* stamp_now, and the scrapes it begins.
Begins ==
    /\ begun' = [ts |-> clock, wall |-> HostWall]
    /\ scraping' = [s \in Scraped |->
         IF s \in recording THEN [NoScrape EXCEPT !.at = "asked"] ELSE NoScrape]
    /\ fresh' = {}

\* The interval fires; a deadline that was missed is skipped to the next
\* multiple, so a tick that took longer than the interval is ready at once.
NextDue == clock - (clock % Every) + Every

Ready == clock >= due

TickFires ==
    /\ at = "idle" /\ Ready
    /\ at' = "scraping"
    /\ due' = NextDue
    /\ Begins
    /\ queued' = [queued EXCEPT !.ticks = @ + 1]
    /\ UNCHANGED <<clocks, commands, lastPass, recording, newest, lastFrame, arrived,
                   producers, tails>>

\* The endpoint reads its values, and its answer comes; or it fails, or is
\* timed out.
Scrapes(s) ==
    /\ \/ /\ scraping[s].at = "asked"
          /\ scraping' = [scraping EXCEPT ![s] = [at |-> "read", read |-> clock]]
       \/ /\ scraping[s].at = "read"
          /\ scraping' = [scraping EXCEPT ![s].at = "answered"]
       \/ /\ s \in Underway
          /\ scraping' = [scraping EXCEPT ![s] = NoScrape]
    /\ UNCHANGED <<clocks, due, commands, at, begun, lastPass, recording, newest, lastFrame,
                   arrived, producers, tails, fresh, queued>>

\* Every scrape ended: what was answered is staged at the pass's stamp.
StagesScrapes ==
    /\ at = "scraping" /\ Underway = {}
    /\ at' = "local"
    /\ LET answered == {s \in Scraped : scraping[s].at = "answered"} IN
       /\ newest' = [s \in Passed |->
            IF s \in answered
            THEN [wall |-> begun.wall, read |-> scraping[s].read]
            ELSE newest[s]]
       /\ fresh' = fresh \cup answered
    /\ scraping' = [s \in Scraped |-> NoScrape]
    /\ UNCHANGED <<clocks, due, commands, begun, lastPass, recording, lastFrame, arrived,
                   producers, tails, queued>>

\* await_frames: a frame is due only once per served interval.
LongestWait == IF Bound > Served + Timeout THEN Bound ELSE Served + Timeout

\* A local source stamps its own pass, and may skip one; a stamp that is not
\* after the last is skipped.
LocalPasses ==
    /\ at = "local"
    /\ \E took \in SUBSET {s \in Local \cap recording : clock > newest[s].read} :
        /\ newest' = [s \in Passed |->
             IF s \in took THEN [wall |-> HostWall, read |-> clock] ELSE newest[s]]
        /\ fresh' = fresh \cup took
    /\ IF stop.kind = "exit"
       THEN at' = "await" /\ deadline' = clock + LongestWait
       ELSE at' = "drain" /\ UNCHANGED deadline
    /\ UNCHANGED <<clocks, due, commands, begun, lastPass, scraping, recording, lastFrame,
                   arrived, producers, stop, ended, queued>>

DrainsFrames ==
    /\ at = "drain"
    /\ TakesFrame
    /\ UNCHANGED <<at, tails>>

PassStart == begun.wall

-----------------------------------------------------------------------------
(* Commands.                                                               *)

\* finish: whether the last pass, dated `last`, started at or after the exit.
Sampled(c, last) == last # -1 /\ last >= c.wall

TakesStop(c, last) ==
    /\ stop' = c
    /\ UNCHANGED ended
    /\ \/ /\ c.kind = "exit" /\ Sampled(c, last)
          /\ at' = "await"
          /\ deadline' = clock + LongestWait
          /\ begun' = NoPass /\ UNCHANGED <<scraping, fresh>>
       \/ /\ c.kind = "exit" /\ ~Sampled(c, last)
          /\ at' = "scraping"
          /\ Begins
          /\ UNCHANGED deadline
       \/ /\ c.kind = "grace"
          /\ at' = "grace"
          /\ begun' = NoPass /\ UNCHANGED <<scraping, fresh, deadline>>
       \/ /\ c.kind = "now"
          /\ at' = "local" /\ fresh' = {}
          /\ begun' = NoPass /\ UNCHANGED <<scraping, deadline>>

Takes(last) ==
    /\ commands # <<>>
    /\ commands' = Tail(commands)
    /\ IF IsStop(Head(commands))
       THEN TakesStop(Head(commands), last)
       ELSE at' = "idle" /\ begun' = NoPass /\ UNCHANGED <<scraping, fresh, tails>>

\* The select: the tick outranks a command, and a command a stream's frame.
TakesCommand ==
    /\ at = "idle" /\ ~Ready
    /\ Takes(lastPass)
    /\ UNCHANGED <<clocks, due, lastPass, recording, newest, lastFrame, arrived, producers, queued>>

\* commit_streams_on_arrival.
TakesArrival ==
    /\ at = "idle" /\ ~Ready /\ commands = <<>>
    /\ TakesFrame
    /\ UNCHANGED <<at, tails>>

\* A command that arrived during the tick is taken after it.
AfterTick(last) ==
    IF commands = <<>>
    THEN at' = "idle" /\ begun' = NoPass /\ UNCHANGED <<commands, scraping, fresh, tails>>
    ELSE Takes(last)

\* drain_streams is through: activate adds the sources that were detected and
\* asked about, and the tick commits.
EndsTick ==
    /\ at = "drain" /\ arrived = <<>> /\ stop = NoStop
    /\ \E more \in SUBSET (LateSources \ recording) :
        /\ recording' = recording \cup more
        /\ sentAt' = [s \in Streamed |-> IF s \in more THEN clock ELSE sentAt[s]]
    /\ lastPass' = PassStart
    /\ AfterTick(PassStart)
    /\ UNCHANGED <<clocks, due, newest, lastFrame, arrived, flight, punctual, queued>>

-----------------------------------------------------------------------------
(* The end of a stop.                                                      *)

\* finish drains, commits and finalizes.
EndsStop ==
    /\ at = "drain" /\ arrived = <<>> /\ stop # NoStop
    /\ at' = "stopped"
    /\ UNCHANGED <<clocks, due, commands, begun, lastPass, scraping, recording, newest,
                   lastFrame, arrived, producers, tails, fresh, queued>>

SleepsGrace ==
    /\ at = "grace"
    /\ at' = "drain"
    /\ UNCHANGED <<clocks, due, commands, begun, lastPass, scraping, recording, newest,
                   lastFrame, arrived, producers, tails, fresh, queued>>

\* A frame counts by the stamp of its newest row; an empty one, by when it
\* was received.
Covers(f) == f # NoFrame /\ f.wall >= stop.wall

Waiting == {s \in Streamed \cap recording : ~Covers(lastFrame[s])}

WaitEnds(how) ==
    /\ at' = "drain" /\ ended' = how
    /\ UNCHANGED <<clocks, due, commands, begun, lastPass, scraping, recording, newest,
                   lastFrame, arrived, producers, stop, deadline, fresh, queued>>

\* await_frames, whose select is biased in this order.
Awaits ==
    /\ at = "await"
    /\ \/ Waiting = {} /\ WaitEnds(IF ended = "cancelled" THEN "cancelled" ELSE "covered")
       \/ Waiting # {} /\ ended = "cancelled" /\ WaitEnds("cancelled")
       \/ Waiting # {} /\ ended # "cancelled" /\ TakesFrame /\ UNCHANGED <<at, tails>>
       \/ /\ Waiting # {} /\ ended # "cancelled" /\ arrived = <<>>
          /\ clock >= deadline /\ WaitEnds("out of time")

DPNext ==
    \/ Elapses \/ Corrected
    \/ AsksPatch \/ AsksStop \/ Cancels
    \/ \E s \in Streamed : Serves(s) \/ FrameArrives(s)
    \/ TickFires \/ StagesScrapes \/ LocalPasses \/ DrainsFrames \/ EndsTick
    \/ \E s \in Scraped : Scrapes(s)
    \/ TakesCommand \/ TakesArrival
    \/ SleepsGrace \/ Awaits \/ EndsStop

DPSpec == DPInit /\ [][DPNext]_dpvars
-----------------------------------------------------------------------------
DPTypeOK ==
    /\ clock \in 0..MaxClock /\ offset \in Int /\ due \in Nat /\ deadline \in Nat
    /\ at \in {"idle", "scraping", "local", "drain", "grace", "await", "stopped"}
    /\ recording \subseteq Sources /\ fresh \subseteq Passed
    /\ DOMAIN newest = Passed /\ DOMAIN lastFrame = Streamed /\ DOMAIN scraping = Scraped
    /\ ended \in {"not", "covered", "cancelled", "out of time"}
    /\ back \in BOOLEAN /\ punctual \in BOOLEAN

Ended == at = "stopped" /\ stop.kind = "exit"

\* A recording that stops for a command's exit ends after it, unless the
\* wall clock was set back: every source whose last pass succeeded ends on a
\* row stamped at or after the exit, of values read after it, also when the
\* exit came in the middle of a pass (Stop::AfterExit).  The wait for
\* streamed sources does not run out on producers that serve on time
\* (await_frames).
EndsAtTheExit ==
    Ended /\ ~back =>
        /\ \A s \in fresh : newest[s].wall >= stop.wall /\ newest[s].read >= stop.at
        /\ punctual => ended # "out of time"

\* A stop waits for one tick more, at the most, than there are commands
\* before it, though ticks that take longer than the interval are ready
\* again at once and outrank it (run).
StopIsTakenInTurn ==
    (\E i \in DOMAIN commands : IsStop(commands[i])) => queued.ticks <= queued.ahead + 1
=============================================================================
