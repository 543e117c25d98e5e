----------------------------- MODULE ProbeHook -----------------------------
(***************************************************************************)
(* An endpoint from its detection to its recording, and what the caller's  *)
(* probe hook says of the processes behind it: late activation, the first  *)
(* ask, the asks owed to a recording added without a reply, and the ask at *)
(* a restart (metriken-recorder/src/recorder.rs, probe.rs, detect.rs).     *)
(*                                                                         *)
(* StreamedSource has the rows and the archive of the same endpoint; here  *)
(* a row is the fact that one came, the archive does not fail, and every   *)
(* handshake names its producer.  A reply is the process it was read from. *)
(***************************************************************************)
EXTENDS Naturals, Sequences

CONSTANTS MaxLives,         \* bound: processes started behind the endpoint
          Connections,      \* bound: connections the pump opens after the first
          ChannelCap,       \* the driver's stream channel
          EnrichRetries,    \* ENRICH_RETRIES
          RestartAsks,      \* FETCH_ATTEMPTS
          Endpoints         \* what may be behind the URL

Lives == 1..MaxLives        \* a process is the epoch it names
None == 0                   \* no process, no epoch, no reply

\* speaks: what detect_one makes of an answer; names: the processes whose
\* handshake names an epoch; maker: their producers; tells: the hook's
\* replies say which epoch they read.
ASSUME ProbeHookAssumption ==
    /\ {MaxLives, ChannelCap, EnrichRetries, RestartAsks} \subseteq Nat \ {0} /\ Connections \in Nat
    /\ Endpoints \subseteq [speaks : {"stream", "metrics", "refusal"}, names : SUBSET Lives,
                            maker : [Lives -> Nat], tells : BOOLEAN]

VARIABLES
    endpoint, life, up,     \* what is there; its newest process; whether it answers in time
    state, recorded,        \* Slot.state, Slot.added
    known, named,           \* Endpoint.epoch and producer
    detecting, enriching,   \* Endpoint.detecting and enriching
    late,                   \* Endpoint.late_enrich
    hooked,                 \* Endpoint.hook_labels and hook_metadata: whose they are
    owed, asks,             \* Endpoint.restarts and restart_fetches
    conn, reader, dials,    \* the subscription, its pump, connections opened
    channel,                \* the driver's stream channel
    step, last,             \* where the driver is; it is finishing
    told                    \* the replies written: of which epoch, by which process

there == <<endpoint, life, up>>
slotVars == <<state, recorded, known, named, hooked>>
tasks == <<detecting, enriching, late>>
restartVars == <<owed, asks>>
pumpState == <<conn, reader, dials, channel>>
phvars == <<there, slotVars, tasks, restartVars, pumpState, step, last, told>>

Task == [at : {"none", "new", "sent", "done"}, about : Lives \cup {None}, got : Lives \cup {None}]
NoTask == [at |-> "none", about |-> None, got |-> None]
Spawned(e) == [NoTask EXCEPT !.at = "new", !.about = e]

LateEnrich == [owed : BOOLEAN, retries : 0..EnrichRetries, epoch : Lives \cup {None}, task : Task]
NoLate == [owed |-> FALSE, retries |-> 0, epoch |-> None, task |-> NoTask]
OwedFor(e) == [owed |-> TRUE, retries |-> 0, epoch |-> e, task |-> NoTask]

\* Handshake::epoch.
EpochOf(p) == IF p \in endpoint.names THEN p ELSE None

\* At startup the endpoint was detected (and subscribed to), or is pending.
PHInit ==
    /\ endpoint \in Endpoints
    /\ life = 1 /\ up \in BOOLEAN
    /\ \/ /\ state = "pending" /\ step = "idle"
          /\ known = None /\ named = None /\ conn = None
       \/ /\ endpoint.speaks = "stream"
          /\ state = "active" /\ step = "start"
          /\ known = EpochOf(1) /\ named = endpoint.maker[1] /\ conn = 1
       \/ /\ endpoint.speaks = "metrics"
          /\ state = "active" /\ step = "start"
          /\ known = None /\ named = None /\ conn = None
    /\ recorded = FALSE /\ hooked = None
    /\ detecting = NoTask /\ enriching = NoTask /\ late = NoLate
    /\ owed = <<>> /\ asks = 0
    /\ reader = "none" /\ dials = 0 /\ channel = <<>>
    /\ last = FALSE /\ told = {}

(* Variants a slip in this code would give; TLC refutes a property on each. *)
\* a reply that arrives late is written whatever process is recorded by then.
NeverStale == FALSE
\* each tick starts its own detection.
DetectedAnew == Spawned(None)

-----------------------------------------------------------------------------
(* The producers.                                                          *)

Elsewhere == UNCHANGED <<slotVars, tasks, restartVars, pumpState, step, last, told>>

Replaced ==
    /\ life < MaxLives
    /\ life' = life + 1 /\ up' \in BOOLEAN
    /\ UNCHANGED endpoint /\ Elsewhere

\* It stops answering in time, or answers again.
Toggles ==
    /\ up' = ~up
    /\ UNCHANGED <<endpoint, life>> /\ Elsewhere

-----------------------------------------------------------------------------
(* The tasks: a detection or an ask is sent, and answered or timed out.    *)

\* probe::accept, of a reply read from p.
Accepted(p, about) == ~(endpoint.tells /\ about # None /\ about # p)
Replies(about) == {None} \cup {p \in {life} : up /\ Accepted(p, about)}

Sent(t) == [t EXCEPT !.at = "sent", !.got = IF up THEN life ELSE None]
Answered(t) == [t EXCEPT !.at = "done", !.got = IF up /\ @ = life THEN @ ELSE None]
Replied(t) ==
    {[t EXCEPT !.at = "done", !.got = p] :
        p \in {None} \cup {q \in {t.got} : q # None /\ Accepted(q, t.about)}}

Idle == UNCHANGED <<there, slotVars, restartVars, pumpState, step, last, told>>

\* detect_one.
Detects ==
    /\ \/ detecting.at = "new" /\ detecting' = Sent(detecting)
       \/ detecting.at = "sent" /\ detecting' = Answered(detecting)
    /\ UNCHANGED <<enriching, late>> /\ Idle

\* enrich_within.
Asked(t) == CASE t.at = "new" -> {Sent(t)} [] t.at = "sent" -> Replied(t) [] OTHER -> {}

FirstAskRuns ==
    /\ enriching' \in Asked(enriching)
    /\ UNCHANGED <<detecting, late>> /\ Idle

LateAskRuns ==
    /\ \E t \in Asked(late.task) : late' = [late EXCEPT !.task = t]
    /\ UNCHANGED <<detecting, enriching>> /\ Idle

-----------------------------------------------------------------------------
(* The pump.                                                               *)

Delivers(e) ==
    /\ Len(channel) < ChannelCap
    /\ channel' = Append(channel, e)
    /\ UNCHANGED <<there, slotVars, tasks, restartVars, step, last, told>>

SendsRow ==
    /\ reader = "reading" /\ up /\ conn = life
    /\ \A i \in DOMAIN channel : channel[i].kind # "row"
    /\ UNCHANGED <<conn, reader, dials>>
    /\ Delivers([kind |-> "row", life |-> conn])

\* Its event changes nothing here, and is left out.
Drops ==
    /\ reader = "reading" /\ dials < Connections
    /\ reader' = "down"
    /\ UNCHANGED <<conn, dials, channel>>
    /\ UNCHANGED <<there, slotVars, tasks, restartVars, step, last, told>>

Reconnects ==
    /\ reader = "down" /\ up
    /\ reader' = "reading" /\ conn' = life /\ dials' = dials + 1
    /\ Delivers([kind |-> "connected", life |-> life])

IsRefused ==
    /\ reader = "down" /\ up
    /\ reader' = "none"
    /\ UNCHANGED <<conn, dials>>
    /\ Delivers([kind |-> "refused", life |-> life])

-----------------------------------------------------------------------------
(* add_source, and what a reply is written as.                             *)

Writes(by, of) == told' = IF by = None THEN told ELSE told \cup {[of |-> of, by |-> by]}

\* adopt_enrich, add_source and spawn_pump.
AddsWith(by) ==
    /\ hooked' = by
    /\ late' = IF by = None THEN OwedFor(known) ELSE late
    /\ recorded' = TRUE
    /\ Writes(by, known)
    /\ reader' = IF conn = None THEN "none" ELSE "reading"

\* first_enrich, before the archive exists.
Starts ==
    /\ step = "start"
    /\ \E by \in Replies(known) : AddsWith(by)
    /\ step' = "idle"
    /\ UNCHANGED <<there, state, known, named, detecting, enriching, restartVars,
                   conn, dials, channel, last>>

-----------------------------------------------------------------------------
(* on_stream_event.                                                        *)

\* Slot::staged: every restart has a row.
RowCame ==
    /\ owed' = IF state = "active" THEN [i \in DOMAIN owed |-> [owed[i] EXCEPT !.row = TRUE]] ELSE owed
    /\ UNCHANGED <<slotVars, tasks, asks, conn, reader, dials>>

Moves(p) == recorded /\ named # endpoint.maker[p] /\ ~last

\* new_source: the restarts that have a row are written without a reply.
MovesTo(p) ==
    /\ owed' = <<>> /\ asks' = 0
    /\ known' = EpochOf(p) /\ named' = endpoint.maker[p]
    /\ hooked' = None /\ late' = OwedFor(known')
    /\ UNCHANGED <<state, recorded, detecting, enriching, conn, reader, dials>>

\* Endpoint::adopt.
Adopts(p) ==
    /\ named' = endpoint.maker[p]
    /\ known' = IF EpochOf(p) = None THEN known ELSE p
    /\ IF known = None \/ known' = known
       THEN UNCHANGED restartVars
       ELSE owed' = Append(owed, [epoch |-> p, row |-> FALSE]) /\ asks' = 0
    /\ UNCHANGED <<state, recorded, hooked, tasks, conn, reader, dials>>

\* Endpoint::abort_tasks.
Aborted ==
    /\ detecting' = NoTask /\ enriching' = NoTask
    /\ late' = [late EXCEPT !.task = NoTask]
    /\ reader' = "none"

Refuses ==
    /\ state' = "refused"
    /\ Aborted
    /\ UNCHANGED <<recorded, known, named, hooked, restartVars, conn, dials>>

Drains ==
    /\ step = "drain" /\ channel # <<>>
    /\ channel' = Tail(channel)
    /\ LET e == Head(channel) IN
       \/ e.kind = "row" /\ RowCame
       \/ e.kind = "connected" /\ Moves(e.life) /\ MovesTo(e.life)
       \/ e.kind = "connected" /\ ~Moves(e.life) /\ Adopts(e.life)
       \/ e.kind = "refused" /\ Refuses
    /\ UNCHANGED <<there, step, last, told>>

HasDrained ==
    /\ step = "drain" /\ channel = <<>>
    /\ step' = "restarts"
    /\ UNCHANGED <<there, slotVars, tasks, restartVars, pumpState, last, told>>

-----------------------------------------------------------------------------
(* The tick, and finish.                                                   *)

\* apply_restart.
Due == recorded /\ owed # <<>> /\ \A i \in DOMAIN owed : owed[i].row
Newest == owed[Len(owed)].epoch

AppliesRestarts ==
    /\ step = "restarts" /\ step' = "retry"
    /\ \/ ~Due /\ UNCHANGED <<restartVars, told>>
       \/ /\ Due
          /\ \E by \in Replies(Newest) :
             IF by = None /\ ~last /\ asks + 1 < RestartAsks
             THEN asks' = asks + 1 /\ UNCHANGED <<owed, told>>
             ELSE Writes(by, Newest) /\ owed' = <<>> /\ asks' = 0
    /\ UNCHANGED <<there, slotVars, tasks, pumpState, last>>

\* retry_enrich.
IsStale == late.epoch # known
IsOwed == late.owed /\ recorded /\ state = "active"

GivesUp == late' = NoLate /\ UNCHANGED <<hooked, told>>

Owes ==
    \/ ~IsOwed /\ UNCHANGED <<late, hooked, told>>
    \/ IsOwed /\ IsStale /\ GivesUp
    \/ /\ IsOwed /\ ~IsStale /\ late.task.at \in {"new", "sent"}
       /\ IF last THEN GivesUp ELSE UNCHANGED <<late, hooked, told>>
    \/ /\ IsOwed /\ ~IsStale /\ late.task.at = "none"
       /\ IF last \/ late.retries >= EnrichRetries
          THEN GivesUp
          ELSE /\ late' = [late EXCEPT !.retries = @ + 1, !.task = Spawned(late.epoch)]
               /\ UNCHANGED <<hooked, told>>
    \/ /\ IsOwed /\ ~IsStale /\ late.task.at = "done" /\ late.task.got = None
       /\ IF last \/ late.retries >= EnrichRetries
          THEN GivesUp
          ELSE late' = [late EXCEPT !.task = NoTask] /\ UNCHANGED <<hooked, told>>
    \/ /\ IsOwed /\ ~IsStale /\ late.task.at = "done" /\ late.task.got # None
       /\ late' = NoLate
       /\ hooked' = late.task.got
       /\ Writes(late.task.got, known)

\* A stop then aborts the tasks.
RetriesEnrich ==
    /\ step = "retry" /\ ~last
    /\ step' = "activate"
    /\ Owes
    /\ UNCHANGED <<there, state, recorded, known, named, detecting, enriching,
                   restartVars, pumpState, last>>

Ends ==
    /\ step = "retry" /\ last
    /\ step' = "stopped"
    /\ Owes
    /\ detecting' = NoTask /\ enriching' = NoTask /\ reader' = "none"
    /\ UNCHANGED <<there, state, recorded, known, named, restartVars,
                   conn, dials, channel, last>>

\* activate.
WhileDetecting == detecting

Activates ==
    /\ step = "activate" /\ step' = "idle"
    /\ \/ /\ state \in {"active", "refused"}
          /\ UNCHANGED <<slotVars, tasks, told, conn, reader>>
       \/ /\ state = "pending" /\ detecting.at = "none"
          /\ detecting' = Spawned(None)
          /\ UNCHANGED <<slotVars, enriching, late, told, conn, reader>>
       \/ /\ state = "pending" /\ detecting.at \in {"new", "sent"}
          /\ detecting' = WhileDetecting
          /\ UNCHANGED <<slotVars, enriching, late, told, conn, reader>>
       \/ /\ state = "pending" /\ detecting.at = "done" /\ detecting.got = None
          /\ detecting' = Spawned(None)
          /\ UNCHANGED <<slotVars, enriching, late, told, conn, reader>>
       \/ /\ state = "pending" /\ detecting.at = "done" /\ detecting.got # None
          /\ endpoint.speaks = "refusal"
          /\ Refuses /\ UNCHANGED told
       \/ /\ state = "pending" /\ detecting.at = "done" /\ detecting.got # None
          /\ endpoint.speaks = "metrics"
          /\ state' = "activating" /\ detecting' = NoTask /\ enriching' = Spawned(None)
          /\ UNCHANGED <<recorded, known, named, hooked, late, told, conn, reader>>
       \/ /\ state = "pending" /\ detecting.at = "done" /\ detecting.got # None
          /\ endpoint.speaks = "stream"
          /\ conn' = detecting.got                        \* begin_stream
          /\ known' = EpochOf(conn') /\ named' = endpoint.maker[conn']
          /\ state' = "activating" /\ detecting' = NoTask /\ enriching' = Spawned(known')
          /\ UNCHANGED <<recorded, hooked, late, told, reader>>
       \/ /\ state = "activating" /\ enriching.at # "done"
          /\ UNCHANGED <<slotVars, tasks, told, conn, reader>>
       \/ /\ state = "activating" /\ enriching.at = "done"
          /\ state' = "active" /\ enriching' = NoTask
          /\ AddsWith(enriching.got)
          /\ UNCHANGED <<known, named, detecting, conn>>
    /\ UNCHANGED <<there, restartVars, dials, channel, last>>

Ticks ==
    /\ step = "idle"
    /\ step' = "drain"
    /\ UNCHANGED <<there, slotVars, tasks, restartVars, pumpState, last, told>>

Finishes ==
    /\ step = "idle"
    /\ step' = "drain" /\ last' = TRUE
    /\ UNCHANGED <<there, slotVars, tasks, restartVars, pumpState, told>>

Works == Starts \/ Drains \/ HasDrained \/ AppliesRestarts \/ RetriesEnrich \/ Ends \/ Activates
TasksRun == Detects \/ FirstAskRuns \/ LateAskRuns

PHNext ==
    \/ Replaced \/ Toggles
    \/ TasksRun
    \/ SendsRow \/ Drops \/ Reconnects \/ IsRefused
    \/ Ticks \/ Works
    \/ Finishes

PHSpec == PHInit /\ [][PHNext]_phvars

\* The interval ticks, a tick that began goes on, and a detection or an ask
\* is bounded by its timeout.
PHFairSpec ==
    PHSpec /\ WF_phvars(Ticks) /\ WF_phvars(Works) /\ WF_phvars(Detects) /\ WF_phvars(FirstAskRuns)

-----------------------------------------------------------------------------
PHTypeOK ==
    /\ endpoint \in Endpoints /\ life \in Lives
    /\ state \in {"pending", "activating", "active", "refused"}
    /\ up \in BOOLEAN /\ recorded \in BOOLEAN /\ last \in BOOLEAN
    /\ known \in Lives \cup {None} /\ hooked \in Lives \cup {None} /\ conn \in Lives \cup {None}
    /\ detecting \in Task /\ enriching \in Task /\ late \in LateEnrich
    /\ owed \in Seq([epoch : Lives, row : BOOLEAN]) /\ asks \in Nat
    /\ channel \in Seq([kind : {"row", "connected", "refused"}, life : Lives])
    /\ reader \in {"none", "reading", "down"} /\ dials \in Nat
    /\ step \in {"start", "idle", "drain", "restarts", "retry", "activate", "stopped"}
    /\ told \subseteq [of : Lives \cup {None}, by : Lives]

\* A reply is written of the process it was read from: where the hook says
\* which epoch it read, no recording's opening, restart or later entry is
\* given what another process said of itself (probe.rs accept, new_source,
\* retry_enrich).
RepliesDescribeTheirProcess ==
    endpoint.tells => \A t \in told : t.of = None \/ t.of = t.by

\* An endpoint that answers from some time on comes to be recorded, or is
\* refused, though no tick waits for its detection (activate).
StartsWhenReachable ==
    <>[]up => []<>(recorded \/ state = "refused" \/ step = "stopped")
=============================================================================
