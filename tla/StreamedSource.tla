--------------------------- MODULE StreamedSource ---------------------------
(***************************************************************************)
(* One streamed endpoint of a Recorder: the pump that subscribes and       *)
(* reconnects (metriken-recorder/src/subscription.rs), the bounded channel *)
(* to the driver, the driver's tick, its restarts, its change of recording *)
(* at a change of producer, its failure and its finish (recorder.rs), and  *)
(* how a reader splits a recording by producer epoch (metriken-storage,    *)
(* process.rs).                                                            *)
(*                                                                         *)
(* Labels, metadata and the probe hook's replies are left out, but for     *)
(* whether the hook answered.  The stamps of successive rows advance, also *)
(* across processes.                                                       *)
(***************************************************************************)
EXTENDS Naturals, Sequences, FiniteSets

CONSTANTS Names,            \* what a producer's handshake may name
          NoName,
          MaxProcs,         \* bound: processes behind the endpoint
          MaxFrames,        \* bound: frames sent
          MaxReconnects,    \* bound: connections the pump opens after the first
          StreamCap,        \* the driver's stream channel
          FetchAttempts,    \* FETCH_ATTEMPTS
          OnArrivals,       \* what RecorderConfig.commit_streams_on_arrival may say
          MayBreak,         \* dendro's writer may fail
          MaxPanics         \* bound: panics of a task on the archive

ASSUME StreamedSourceAssumption ==
    /\ NoName \notin Names
    /\ {MaxProcs, MaxFrames, MaxReconnects, StreamCap, FetchAttempts} \subseteq Nat \ {0}
    /\ OnArrivals \subseteq BOOLEAN /\ MayBreak \in BOOLEAN
    /\ MaxPanics \in Nat

Procs == 1..MaxProcs        \* a process is its epoch
Stamps == 1..MaxFrames
NoStamp == 0

VARIABLES
    onArrival,              \* Driver.commit_streams_on_arrival
    procs,                  \* the name each process started so far gives
    pump, peer, opened,     \* the pump, its connection, connections opened
    stream,                 \* the driver's stream channel
    frames,                 \* frames sent: the last row's stamp
    epoch, producer,        \* Endpoint.epoch and producer
    restarts, fetches,      \* Endpoint.restarts and restart_fetches
    active, added,          \* Slot.state is Active, Slot.added
    delivered,              \* Slot.first_wall_ns is set
    staged,                 \* Archive.staged
    recordings,             \* the archive's sources, in the order added
    archive,                \* Driver.archive, or whose task took it along
    broken,                 \* dendro's writer thread failed
    panics,
    pc, erred,              \* where the driver is; the tick's failure
    failed, reported,       \* Driver.failed and failure_reported
    stopping,               \* Driver.stopping
    result,                 \* what finish returned
    taken                   \* history: the stamps of the rows staged

pumpVars == <<procs, pump, peer, opened, frames>>
slot == <<epoch, producer, restarts, fetches, active, added, delivered>>
store == <<staged, taken, recordings, archive, broken, panics>>
driver == <<onArrival, pc, erred, failed, reported, stopping, result>>
ssvars == <<pumpVars, stream, slot, store, driver>>

Restart == [epoch : Procs, from : Stamps \cup {NoStamp}]
Row == [ts : Stamps, proc : Procs]
Recording == [entries : Seq(Restart), rows : SUBSET Row, final : BOOLEAN]
Opened(p) == [entries |-> <<[epoch |-> p, from |-> NoStamp]>>, rows |-> {}, final |-> FALSE]
StreamEvent == [kind : {"interval", "dropped", "connected", "refused"},
                proc : Procs, ts : Stamps \cup {NoStamp}]
At == {"idle", "drain", "restarts", "commit", "finalize", "stopped"}

\* Recording begins: the endpoint was detected as streamed, and added.
SSInit ==
    /\ onArrival \in OnArrivals
    /\ procs \in {<<n>> : n \in Names \cup {NoName}}
    /\ pump = "reading" /\ peer = 1 /\ opened = 0
    /\ stream = <<>> /\ frames = 0
    /\ epoch = 1 /\ producer = procs[1]
    /\ restarts = <<>> /\ fetches = 0
    /\ active = TRUE /\ added = TRUE /\ delivered = FALSE
    /\ staged = {} /\ taken = {} /\ recordings = <<Opened(1)>>
    /\ archive = "open" /\ broken = FALSE /\ panics = 0
    /\ pc = "idle" /\ erred = FALSE
    /\ failed = FALSE /\ reported = FALSE
    /\ stopping = FALSE /\ result = "none"

Last(s) == s[Len(s)]
HasRow(r) == r.from # NoStamp

(* Variants a slip in this code would give; TLC refutes a property on each. *)
\* a handshake that names no producer clears the one on record.
NamedByLatest(p) == procs[p]
\* a restart is dropped at a change of producer, row or not.
KeptAtChange == <<>>
\* a failed fetch is not counted.
FetchesUncounted == fetches
\* a commit that fails is logged, and the recorder goes on.
CommitFailedQuietly == UNCHANGED <<archive, failed, reported, pump>>
-----------------------------------------------------------------------------
(* The producers and the pump.                                             *)

NewProcess(n) ==
    /\ Len(procs) < MaxProcs
    /\ procs' = Append(procs, n)
    /\ UNCHANGED <<pump, peer, opened, frames, stream, slot, store, driver>>

PumpSend(kind, ts) ==
    /\ Len(stream) < StreamCap
    /\ stream' = Append(stream, [kind |-> kind, proc |-> peer', ts |-> ts])
    /\ UNCHANGED <<procs, slot, store, driver>>

\* An interval off the connection, with rows or empty.
PumpInterval ==
    /\ pump = "reading"
    /\ \/ /\ frames < MaxFrames
          /\ frames' = frames + 1
          /\ UNCHANGED <<pump, peer, opened>>
          /\ PumpSend("interval", frames')
       \/ /\ UNCHANGED <<pump, peer, opened, frames>>
          /\ \A i \in DOMAIN stream : stream[i].kind # "interval"
          /\ PumpSend("interval", NoStamp)

PumpDropped ==
    /\ pump = "reading" /\ opened < MaxReconnects
    /\ pump' = "down"
    /\ UNCHANGED <<peer, opened, frames>>
    /\ PumpSend("dropped", NoStamp)

PumpConnected ==
    /\ pump = "down"
    /\ pump' = "reading" /\ opened' = opened + 1
    /\ peer' = Len(procs)
    /\ UNCHANGED frames
    /\ PumpSend("connected", NoStamp)

PumpRefused ==
    /\ pump = "down"
    /\ pump' = "gone"
    /\ UNCHANGED <<peer, opened, frames>>
    /\ PumpSend("refused", NoStamp)

-----------------------------------------------------------------------------
(* The archive.                                                            *)

Usable == archive = "open" /\ ~broken

\* dendro's writer thread fails: every later call returns its error.
WriterBreaks ==
    /\ MayBreak /\ ~broken
    /\ broken' = TRUE
    /\ UNCHANGED <<pumpVars, stream, slot, staged, taken, recordings, archive, panics, driver>>

\* `blocking` with a task that panics: the archive is gone, with the task
\* that `as` names.
Panics(as) ==
    /\ archive = "open" /\ panics < MaxPanics
    /\ panics' = panics + 1
    /\ archive' = as /\ failed' = TRUE

\* Driver::fail.
FailArchive ==
    /\ failed' = TRUE /\ reported' = TRUE
    /\ archive' = "closed"
    /\ pump' = IF reported THEN pump ELSE "gone"

\* The rows staged, in the recordings they were staged for.
Committed ==
    [r \in DOMAIN recordings |->
        [recordings[r] EXCEPT !.rows =
            @ \cup {[ts |-> s.ts, proc |-> s.proc] : s \in {x \in staged : x.rec = r}}]]

\* layered::epoch and layers::append, for each restart.
WithEntries(recs, rs) ==
    [recs EXCEPT ![Len(recs)].entries = @ \o rs]

-----------------------------------------------------------------------------
(* on_stream_event.                                                        *)

\* Slot::staged: the restarts that had no row yet are from this one.
Stamped(ts) ==
    [i \in DOMAIN restarts |->
        IF HasRow(restarts[i]) THEN restarts[i] ELSE [restarts[i] EXCEPT !.from = ts]]

Interval(e) ==
    /\ UNCHANGED <<epoch, producer, fetches, active, added, pump, recordings, archive,
                   broken, panics, failed, reported>>
    /\ delivered' = (delivered \/ active)
    /\ IF ~active \/ e.ts = NoStamp
       THEN UNCHANGED <<restarts, staged, taken, erred>>
       ELSE IF archive # "open" \/ ~added
       THEN erred' = TRUE /\ UNCHANGED <<restarts, staged, taken>>
       ELSE /\ staged' = staged \cup {[ts |-> e.ts, proc |-> e.proc, rec |-> Len(recordings)]}
            /\ taken' = taken \cup {e.ts}
            /\ restarts' = Stamped(e.ts)
            /\ UNCHANGED erred

\* producer_change: both name a producer, and not the same one.
Changes(p) ==
    /\ producer # NoName /\ procs[p] \notin {NoName, producer}
    /\ ~stopping /\ added

\* adopt keeps the producer of a handshake that names none.
Named(p) == IF procs[p] = NoName THEN producer ELSE procs[p]

Adopt(p) ==
    /\ producer' = Named(p)
    /\ epoch' = p
    /\ IF p = epoch
       THEN UNCHANGED <<restarts, fetches>>
       ELSE /\ restarts' = Append(restarts, [epoch |-> p, from |-> NoStamp])
            /\ fetches' = 0
    /\ UNCHANGED <<active, added, delivered, store, erred, failed, reported, pump>>

\* new_source writes the restarts that have a row, commits, and finalizes.
RestartsKept ==
    LET with == {i \in DOMAIN restarts : HasRow(restarts[i])}
        Nth(k) == CHOOSE i \in with : Cardinality({j \in with : j <= i}) = k
    IN [k \in 1..Cardinality(with) |-> restarts[Nth(k)]]
CommitAtChange == [recordings |-> Committed, staged |-> {}]
Finalized ==
    [WithEntries(CommitAtChange.recordings, RestartsKept)
        EXCEPT ![Len(recordings)].final = TRUE]

NewSource(p) ==
    /\ UNCHANGED <<active, delivered, taken>>
    /\ \/ /\ Usable
          /\ recordings' = Append(Finalized, Opened(p))
          /\ staged' = CommitAtChange.staged /\ restarts' = <<>> /\ fetches' = 0
          /\ epoch' = p /\ producer' = procs[p]
          /\ UNCHANGED <<added, archive, broken, panics, pump, erred, failed, reported>>
       \/ /\ Usable /\ MayBreak               \* add_source fails
          /\ broken' = TRUE
          /\ recordings' = Finalized
          /\ staged' = CommitAtChange.staged /\ restarts' = <<>> /\ fetches' = 0
          /\ epoch' = p /\ producer' = procs[p]
          /\ added' = FALSE /\ erred' = TRUE
          /\ UNCHANGED <<archive, panics, pump, failed, reported>>
       \/ /\ ~Usable \/ panics < MaxPanics   \* the commit fails, or panics
          /\ panics' = IF Usable THEN panics + 1 ELSE panics
          /\ FailArchive
          /\ restarts' = <<>>
          /\ fetches' = IF RestartsKept = <<>> THEN fetches ELSE 0
          /\ UNCHANGED <<epoch, producer, added, staged, recordings, broken, erred>>

Refused ==
    /\ active' = FALSE /\ pump' = "gone"
    /\ UNCHANGED <<epoch, producer, restarts, fetches, added, delivered, store,
                   erred, failed, reported>>

OnStreamEvent(e) ==
    \/ e.kind = "interval" /\ Interval(e)
    \/ e.kind = "dropped" /\ UNCHANGED <<slot, store, erred, failed, reported, pump>>
    \/ e.kind = "connected" /\ Changes(e.proc) /\ NewSource(e.proc)
    \/ e.kind = "connected" /\ ~Changes(e.proc) /\ Adopt(e.proc)
    \/ e.kind = "refused" /\ Refused

Receive ==
    /\ stream # <<>>
    /\ stream' = Tail(stream)
    /\ OnStreamEvent(Head(stream))
    /\ UNCHANGED <<procs, peer, opened, frames, onArrival, stopping, result>>

-----------------------------------------------------------------------------
(* The driver.                                                             *)

Tick ==
    /\ pc = "idle" /\ ~failed
    /\ pc' = "drain"
    /\ UNCHANGED <<pumpVars, stream, slot, store, erred, failed, reported, onArrival,
                   stopping, result>>

\* commit_streams_on_arrival: one event, and its commit.
Arrives ==
    /\ onArrival
    /\ pc = "idle" /\ ~failed
    /\ Receive
    /\ pc' = "commit"

\* drain_streams, and await_frames while a stop waits.
Drain == pc = "drain" /\ Receive /\ UNCHANGED pc

\* A stop whose wait failed drains no more.
Drained ==
    /\ pc = "drain"
    /\ stream = <<>> \/ (stopping /\ erred)
    /\ pc' = "restarts"
    /\ UNCHANGED <<pumpVars, stream, slot, store, erred, failed, reported, onArrival,
                   stopping, result>>

\* apply_restart waits for a row of every restart.
RestartsDue == added /\ restarts # <<>> /\ \A i \in DOMAIN restarts : HasRow(restarts[i])

MayAskAgain == fetches + 1 < FetchAttempts
CountFetch == fetches + 1

\* apply_restarts; a stop then ends the pump.
ApplyRestarts ==
    /\ pc = "restarts"
    /\ pc' = "commit"
    /\ pump' = IF stopping THEN "gone" ELSE pump
    /\ \/ /\ ~RestartsDue
          /\ UNCHANGED <<restarts, fetches, recordings, archive, panics, failed>>
       \/ /\ RestartsDue                      \* the hook did not answer: ask again
          /\ ~stopping /\ MayAskAgain
          /\ fetches' = CountFetch
          /\ UNCHANGED <<restarts, recordings, archive, panics, failed>>
       \/ /\ RestartsDue
          /\ restarts' = <<>> /\ fetches' = 0
          /\ \/ /\ recordings' = IF Usable THEN WithEntries(recordings, restarts) ELSE recordings
                /\ UNCHANGED <<archive, panics, failed>>
             \/ Panics("lost") /\ UNCHANGED recordings
    /\ UNCHANGED <<procs, peer, opened, frames, stream, epoch, producer, active, added,
                   delivered, staged, taken, broken, erred, reported, onArrival, stopping, result>>

AfterCommit == IF ~stopping THEN "idle" ELSE IF failed' THEN "stopped" ELSE "finalize"

CommitFails == FailArchive

Commit ==
    /\ pc = "commit"
    /\ erred' = FALSE
    /\ \/ /\ ~erred /\ Usable
          /\ recordings' = Committed
          /\ staged' = {}
          /\ UNCHANGED <<archive, pump, panics, failed, reported>>
       \/ /\ erred \/ ~Usable \/ panics < MaxPanics      \* or the commit panics
          /\ panics' = IF ~erred /\ Usable THEN panics + 1 ELSE panics
          /\ CommitFails
          /\ UNCHANGED <<recordings, staged>>
    /\ pc' = AfterCommit
    /\ result' = IF pc' = "stopped" THEN "error" ELSE result
    /\ UNCHANGED <<procs, peer, opened, frames, stream, slot, taken, broken, onArrival, stopping>>

\* Command::Finish.
Finish ==
    /\ pc = "idle"
    /\ stopping' = TRUE
    /\ pc' = IF failed THEN "stopped" ELSE "drain"
    /\ result' = IF failed THEN "error" ELSE result
    /\ UNCHANGED <<pumpVars, stream, slot, store, erred, failed, reported, onArrival>>

Finalize ==
    /\ pc = "finalize"
    /\ pc' = "stopped"
    /\ \/ /\ ~delivered
          /\ result' = "discarded" /\ archive' = "removed"
          /\ UNCHANGED recordings
       \/ /\ delivered /\ ~broken
          /\ result' = "ok" /\ archive' = "closed"
          /\ recordings' = [recordings EXCEPT ![Len(recordings)].final = TRUE]
       \/ /\ delivered /\ broken
          /\ result' = "error" /\ archive' = "closed"
          /\ UNCHANGED recordings
    /\ UNCHANGED <<pumpVars, stream, slot, staged, taken, broken, panics, erred, failed, reported,
                   onArrival, stopping>>

\* Command::Discard, or the Recorder is dropped.
Abandon ==
    /\ pc = "idle"
    /\ pc' = "stopped" /\ result' = "abandoned" /\ pump' = "gone"
    /\ archive' \in {"removed", "closed"}
    /\ UNCHANGED <<procs, peer, opened, frames, stream, slot, staged, taken, recordings, broken,
                   panics, erred, failed, reported, onArrival, stopping>>

\* Command::Patch: what it writes is left out, but its task may panic.  The
\* caller gets an error; the tick is off, and nobody calls Driver::fail.
PatchPanics ==
    /\ pc = "idle" /\ ~failed /\ added
    /\ Panics("lost_patching")
    /\ UNCHANGED <<pumpVars, stream, slot, staged, taken, recordings, broken, pc, erred, reported,
                   onArrival, stopping, result>>

Pump == PumpInterval \/ PumpDropped \/ PumpConnected \/ PumpRefused
DriverStep == Drain \/ Drained \/ ApplyRestarts \/ Commit \/ Finalize

SSNext ==
    \/ \E n \in Names \cup {NoName} : NewProcess(n)
    \/ Pump
    \/ WriterBreaks
    \/ Tick \/ Arrives \/ DriverStep
    \/ Finish \/ Abandon \/ PatchPanics

SSSpec == SSInit /\ [][SSNext]_ssvars

(***************************************************************************)
(* The interval ticks, and is taken before an event that arrived (the      *)
(* select is biased); a tick or a stop that began goes on.  A producer     *)
(* sends a frame an interval, so that a loop over the channel that finds   *)
(* it empty again and again ends.  Nothing else is asked of the producers, *)
(* the pump or the caller.                                                 *)
(***************************************************************************)
SSFairSpec == SSSpec /\ SF_ssvars(Tick) /\ WF_ssvars(DriverStep) /\ SF_ssvars(Drained)

-----------------------------------------------------------------------------
SSTypeOK ==
    /\ procs \in Seq(Names \cup {NoName}) /\ Len(procs) \in Procs
    /\ pump \in {"reading", "down", "gone"} /\ peer \in Procs
    /\ opened \in 0..MaxReconnects
    /\ stream \in Seq(StreamEvent) /\ Len(stream) <= StreamCap
    /\ frames \in 0..MaxFrames
    /\ epoch \in Procs /\ producer \in Names \cup {NoName}
    /\ restarts \in Seq(Restart) /\ fetches \in 0..(FetchAttempts - 1)
    /\ {active, added, delivered, broken, erred, failed, reported, stopping} \subseteq BOOLEAN
    /\ taken \subseteq Stamps
    /\ staged \subseteq [ts : Stamps, proc : Procs, rec : DOMAIN recordings]
    /\ recordings \in Seq(Recording)
    /\ archive \in {"open", "lost", "lost_patching", "closed", "removed"}
    /\ panics \in 0..MaxPanics
    /\ onArrival \in OnArrivals /\ pc \in At
    /\ result \in {"none", "ok", "discarded", "error", "abandoned"}

\* epoch_spans: the entry whose span a stamp falls in, the first one also
\* before its own stamp.
SpanOf(entries, ts) ==
    IF \A i \in DOMAIN entries : entries[i].from > ts THEN entries[1]
    ELSE LET i == CHOOSE i \in DOMAIN entries :
                     /\ entries[i].from <= ts
                     /\ \A j \in DOMAIN entries :
                           entries[j].from <= ts =>
                               \/ entries[j].from < entries[i].from
                               \/ entries[j].from = entries[i].from /\ j <= i
         IN entries[i]
RowsReadRight(r) == \A w \in r.rows : SpanOf(r.entries, w.ts).epoch = w.proc

\* Between ticks, with no restart waiting, and in every recording ended at a
\* change of producer, a reader takes each row for the process that sent it:
\* over restarts that came before their rows, several at once, or were
\* overtaken by another producer (the docs of Event::Restarted and
\* epoch_spans).
RowsReadUnderTheirEpoch ==
    /\ \A r \in 1..(Len(recordings) - 1) : RowsReadRight(recordings[r])
    /\ pc = "idle" /\ restarts = <<>> /\ archive = "open" /\ ~broken
          => RowsReadRight(Last(recordings))

\* A recording is of one producer: no two of its rows come from processes
\* that name different ones, unless it was stopping (the doc of
\* Event::ProducerChanged).
OneProducer ==
    ~stopping =>
        \A r \in DOMAIN recordings : \A v, w \in recordings[r].rows :
            procs[v.proc] = procs[w.proc] \/ NoName \in {procs[v.proc], procs[w.proc]}

\* A finish that succeeds has every row that was ever staged in a recording,
\* over changes of producer and refusals, and is not the end of an archive
\* that failed on the way.
Recorded == UNION {{w.ts : w \in recordings[r].rows} : r \in DOMAIN recordings}
FinishCommitsAll ==
    result = "ok" => taken = Recorded /\ ~failed /\ Last(recordings).final

\* A restart with rows of every process since is written, whether or not
\* the probe hook answers, while the recorder ticks.
RestartsAreWritten ==
    RestartsDue ~> (~RestartsDue \/ failed \/ pc = "stopped")

\* A recorder whose archive failed, by dendro's error or by a task that
\* panicked, sends Event::Failed or is stopped.  The one exception is a patch
\* whose task panics: it takes the archive along and turns the tick off, its
\* caller gets an error, and no Event::Failed follows for it, nor for an error
\* of dendro's that no tick had met by then.
FailureIsReported ==
    (broken \/ archive = "lost")
        ~> (reported \/ pc = "stopped" \/ archive = "lost_patching")

\* The doc of finish: it stages what arrived and writes pending restarts.
FinishWritesPendingRestarts ==
    result = "ok" => \A r \in DOMAIN recordings : RowsReadRight(recordings[r])
=============================================================================
