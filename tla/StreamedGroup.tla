---------------------------- MODULE StreamedGroup ----------------------------
(***************************************************************************)
(* One group on its way from a producer's passes over replication          *)
(* connections into an archive: `StreamSubscription::frame_at` and         *)
(* `FrameProducer::interval` (metriken-exposition/src/stream) send each    *)
(* connection what it has not been sent yet, `StreamDecoder` and           *)
(* `SourceRecorder::stage_streamed` (metriken-storage/src/writer.rs) write *)
(* the rows.  Connections drop with frames in flight, the producer         *)
(* restarts and numbers its occupants anew, and the group changes between  *)
(* the long and the wide form; the writer outlives all three.              *)
(*                                                                         *)
(* The group is one the writer records long when it comes long             *)
(* (GroupState.long is never Some(false)), and its schemas are at most     *)
(* SCHEMA_RING_LEN, so that no layout is forgotten.                        *)
(***************************************************************************)
EXTENDS Naturals, Sequences, FiniteSets

CONSTANTS Occupants,        \* identities: a uid, or labels
          Hashes,           \* schema hashes
          Members,          \* a wide schema's occupants, by its hash
          MaxKeys,          \* bound: keys a producer assigns
          MaxWindow,        \* bound: passes in a behaviour
          MaxFlight,        \* bound: frames in flight
          MaxDrops          \* bound: connections dropped

ASSUME StreamedGroupAssumption ==
    /\ Hashes \subseteq Nat \ {0}
    /\ Members \in [Hashes -> (SUBSET Occupants) \ {{}}]
    /\ {MaxKeys, MaxWindow, MaxFlight, MaxDrops} \subseteq Nat

NoHash == 0
Never == 0
Keys == 1..MaxKeys
KeyedLabels == [key : Keys, occupant : Occupants]

VARIABLES
    keys,                   \* the builder's keys: the occupant each names
    pass,                   \* the producer's latest pass of the group
    sentHash,               \* FrameProducer.sent_schemas
    sentLong, sentKeys,     \* FrameProducer.sent_occupants
    lastWindow,             \* StreamSubscription.last_window
    net,                    \* frames in flight on the connection
    decoderHash,            \* StreamDecoder.schemas
    layouts,                \* GroupState.layouts
    wire,                   \* GroupState.wire
    resolved, announced,    \* GroupState.keys and announced
    lastKey,                \* GroupState.last_key
    drops,                  \* connections dropped
    outcome                 \* history: the last fresh row sent and what was
                            \* written of it, and the number of rows written

producer == <<keys, pass>>
connection == <<sentHash, sentLong, sentKeys, lastWindow, net>>
writer == <<decoderHash, layouts, wire, resolved, announced, lastKey>>
sgvars == <<producer, connection, writer, drops, outcome>>

Pass == [long : BOOLEAN, hash : Hashes, window : 0..MaxWindow, present : SUBSET Keys]
NoPass(w) == [long |-> TRUE, hash |-> CHOOSE h \in Hashes : TRUE, window |-> w, present |-> {}]

\* A frame's rows of the group; `holds` is history, who the row is about.
Frame == [long : BOOLEAN, hash : Hashes, schema : BOOLEAN, window : 1..MaxWindow,
          new : SUBSET KeyedLabels, present : SUBSET Keys, holds : SUBSET Occupants]

SGInit ==
    /\ keys = <<>> /\ pass = NoPass(0)
    /\ sentHash = NoHash /\ sentLong = FALSE /\ sentKeys = {}
    /\ lastWindow = Never /\ net = <<>> /\ decoderHash = NoHash
    /\ layouts = {} /\ wire = NoHash
    /\ resolved = {} /\ announced = {}
    /\ lastKey = Never /\ drops = 0
    /\ outcome = [sent |-> {}, written |-> {}, rows |-> 0]

(* Variants a slip in this code would give; TLC refutes a property on each. *)
\* the keys sent are remembered for the life of the connection.
SentForever(present) == sentKeys \cup present
-----------------------------------------------------------------------------
OccupantsOf(ks) == {keys[k] : k \in ks}

\* The builder numbers an occupant that is new, or that was away.
NewKey(o) ==
    /\ Len(keys) < MaxKeys
    /\ o \notin OccupantsOf(pass.present)
    /\ keys' = Append(keys, o)
    /\ UNCHANGED <<pass, connection, writer, drops, outcome>>

\* The latest key of each occupant.
Latest(k) == \A j \in 1..Len(keys) : keys[j] = keys[k] => j <= k

\* A pass of the group with a new window, long or wide.
Acquire(long, h) ==
    /\ pass.window < MaxWindow
    /\ \E present \in SUBSET {k \in 1..Len(keys) : Latest(k)} :
        /\ long <=> present # {}
        /\ pass' = [long |-> long, hash |-> h, window |-> pass.window + 1, present |-> present]
    /\ UNCHANGED <<keys, connection, writer, drops, outcome>>

\* interval: the schema this connection holds, forgotten on a change of form.
HeldHash(long) == IF sentLong # long THEN NoHash ELSE sentHash

\* ... and the keys of the last row it was sent.
SentAfter(present) == present

\* frame_at with a pass whose window this connection was not sent.
Send ==
    /\ pass.window # Never /\ pass.window # lastWindow
    /\ pass.long => pass.present # {}
    /\ Len(net) < MaxFlight
    /\ net' = Append(net,
         [long |-> pass.long, hash |-> pass.hash, window |-> pass.window,
          schema |-> HeldHash(pass.long) # pass.hash,
          new |-> {[key |-> k, occupant |-> keys[k]] : k \in pass.present \ sentKeys},
          present |-> pass.present,
          holds |-> IF pass.long THEN OccupantsOf(pass.present) ELSE Members[pass.hash]])
    /\ sentHash' = pass.hash
    /\ sentLong' = pass.long
    /\ sentKeys' = IF pass.long THEN SentAfter(pass.present) ELSE {}
    /\ lastWindow' = pass.window
    /\ UNCHANGED <<producer, writer, drops, outcome>>

-----------------------------------------------------------------------------
\* A key described again is resolved again.
KeptResolved(new) == {e \in resolved : e.key \notin {n.key : n \in new}}

\* Dedup: the row's window is the last one written.
Repeats(f) == lastKey = f.window

RowsAfter(written) == IF written THEN outcome.rows + 1 ELSE outcome.rows

\* StreamedGroup::Occupants: the keys described, then stage_long_row.
StageLong(f) ==
    LET before == KeptResolved(f.new)
        waiting == {e \in announced : e.key \notin {n.key : n \in f.new}} \cup f.new
        pending == {e \in waiting : e.key \notin {r.key : r \in before}}
        now == {e \in before \cup pending : e.key \in f.present}
        anchored == IF f.schema THEN f.hash ELSE wire
        written == ~Repeats(f) /\ anchored = f.hash
    IN  /\ wire' = anchored
        /\ resolved' = IF written THEN now ELSE before
        /\ announced' = IF written
                        THEN {e \in waiting \ pending : e.key \in f.present}
                        ELSE waiting
        /\ lastKey' = IF written THEN f.window ELSE lastKey
        /\ outcome' = IF Repeats(f) THEN outcome
                      ELSE [sent |-> f.holds,
                            written |-> IF written THEN {e.occupant : e \in now} ELSE {},
                            rows |-> RowsAfter(written)]
        /\ UNCHANGED <<decoderHash, layouts>>

\* StreamDecoder::decode of a group row, then stage_group.
StageWide(f) ==
    LET known == IF f.schema THEN f.hash ELSE decoderHash
        decodes == known = f.hash
        held == IF decodes /\ f.schema THEN layouts \cup {f.hash} ELSE layouts
        written == decodes /\ ~Repeats(f) /\ f.hash \in held
    IN  /\ decoderHash' = known
        /\ layouts' = held
        /\ lastKey' = IF written THEN f.window ELSE lastKey
        /\ outcome' = IF Repeats(f) THEN outcome
                      ELSE [sent |-> f.holds,
                            written |-> IF written THEN Members[f.hash] ELSE {},
                            rows |-> RowsAfter(written)]
        /\ UNCHANGED <<wire, resolved, announced>>

\* The writer takes the next frame.
Deliver ==
    /\ net # <<>>
    /\ net' = Tail(net)
    /\ IF Head(net).long THEN StageLong(Head(net)) ELSE StageWide(Head(net))
    /\ UNCHANGED <<producer, sentHash, sentLong, sentKeys, lastWindow, drops>>

\* A connection ends with what it had in flight, and the next one starts
\* with nothing sent.  The decoder is the endpoint's and stays.
NewConnection ==
    /\ drops < MaxDrops
    /\ drops' = drops + 1
    /\ sentHash' = NoHash /\ sentLong' = FALSE /\ sentKeys' = {}
    /\ lastWindow' = Never /\ net' = <<>>
    /\ UNCHANGED <<decoderHash, outcome>>

Reconnect ==
    /\ NewConnection
    /\ UNCHANGED <<producer, layouts, wire, resolved, announced, lastKey>>

\* Another process behind the endpoint: it numbers its occupants from the
\* start again.
NewProcess ==
    /\ NewConnection
    /\ keys' = <<>>
    /\ pass' = NoPass(pass.window)

Restart ==
    /\ NewProcess
    /\ UNCHANGED <<layouts, wire, resolved, announced, lastKey>>

\* Driver::new_source: the process is another producer, and its rows go to a
\* SourceRecorder of their own.
ProducerChange ==
    /\ NewProcess
    /\ layouts' = {} /\ wire' = NoHash
    /\ resolved' = {} /\ announced' = {} /\ lastKey' = Never

SGNext ==
    \/ \E o \in Occupants : NewKey(o)
    \/ \E long \in BOOLEAN, h \in Hashes : Acquire(long, h)
    \/ Send
    \/ Deliver
    \/ Reconnect
    \/ Restart
    \/ ProducerChange

SGSpec == SGInit /\ [][SGNext]_sgvars

-----------------------------------------------------------------------------
SGTypeOK ==
    /\ keys \in Seq(Occupants) /\ Len(keys) <= MaxKeys
    /\ pass \in Pass
    /\ sentHash \in Hashes \cup {NoHash} /\ sentLong \in BOOLEAN
    /\ sentKeys \subseteq Keys
    /\ lastWindow \in 0..MaxWindow
    /\ net \in Seq(Frame)
    /\ decoderHash \in Hashes \cup {NoHash} /\ layouts \subseteq Hashes
    /\ wire \in Hashes \cup {NoHash}
    /\ resolved \subseteq KeyedLabels /\ announced \subseteq KeyedLabels
    /\ lastKey \in 0..MaxWindow /\ drops \in 0..MaxDrops
    /\ outcome \in [sent : SUBSET Occupants, written : SUBSET Occupants, rows : 0..MaxWindow]

SameOccupants == outcome.written = outcome.sent
WrittenOnce == outcome.rows <= pass.window

\* A row with a window not written yet is written for exactly the occupants
\* the producer's row was about: none is lost for want of its labels or its
\* schema, and none is taken for another occupant, over dropped frames,
\* reconnects, restarts that reuse keys and changes of form (the doc of
\* stage_streamed).  And a pass is written once at most: a new connection is
\* sent the last one again, with its schema and its keys, and the writer
\* takes it for a repeat, in the long and the wide form (the doc of
\* GroupState.last_key).
RowsWrittenExactly == SameOccupants /\ WrittenOnce
=============================================================================
