---------------------------- MODULE ArchiveWriter ----------------------------
(***************************************************************************)
(* One group of a source as `SourceRecorder` writes it into an archive     *)
(* (metriken-storage/src/writer.rs): which rows of a segment carry the     *)
(* group's schema, when the labels of a long group's occupants are stated, *)
(* and what sealing and retention leave of both.  dendro's tables, the     *)
(* unsealed rows and the sealed segments, are modelled from their use.     *)
(*                                                                         *)
(* A tick's rows are staged and committed in one step, as Staged requires. *)
(***************************************************************************)
EXTENDS Naturals, Sequences, FiniteSets

CONSTANTS Forms,            \* how a group may be written
          Occupants,        \* occupants the group ever has
          NumSchemas,       \* schemas the group ever has
          RestateEvery,     \* WriterConfig.restate_every_ns
          Retention,        \* how far behind the tick the cutoff stays
          MaxGap,           \* bound: ticks are at most this far apart
          MaxTime,          \* bound: the last tick
          Returns           \* an occupant may return after it was long away

ASSUME ArchiveWriterAssumption ==
    /\ Forms \subseteq {"wide", "long"}
    /\ NumSchemas \in Nat \ {0}
    /\ RestateEvery \in Nat \ {0}
    /\ Retention \in Nat
    /\ MaxGap \in Nat \ {0}
    /\ MaxTime \in Nat
    /\ Returns \in BOOLEAN

\* A schema is named by its number: a long group's columns only grow.
Schemas == 1..NumSchemas
NoSchema == 0
Never == 0

VARIABLES
    form,                   \* how the group is written
    now,                    \* the last tick's timestamp
    hash,                   \* long: GroupState.columns.hash
    anchored,               \* GroupState.anchored
    opened,                 \* SourceRecorder.opened
    described, seen,        \* GroupState.described and seen
    lastRestated,           \* GroupState.last_restated
    wal,                    \* dendro: the stream's unsealed rows
    segments,               \* dendro: its sealed segments
    labels,                 \* dendro: the occupant stream's rows
    cutoff,                 \* history: the last eviction's
    written,                \* history: timestamps of every row written
    lastSeen                \* history: per occupant, the last row it was in

groupState == <<form, hash, anchored, opened, described, seen, lastRestated>>
tables == <<wal, segments, labels>>
vars == <<now, groupState, tables, cutoff, written, lastSeen>>

Row == [ts : 1..MaxTime, hash : Schemas, schema : BOOLEAN, occupants : SUBSET Occupants]
LabelRow == [ts : 1..MaxTime, occupant : Occupants]

Init ==
    /\ now = 0
    /\ form \in Forms
    /\ hash = 1 /\ anchored = NoSchema /\ opened = Never
    /\ described = {} /\ seen = {} /\ lastRestated = Never
    /\ wal = <<>> /\ segments = {} /\ labels = {}
    /\ cutoff = 0 /\ written = {}
    /\ lastSeen = [o \in Occupants |-> Never]

(* Variants a slip in this code would give; TLC refutes a property on each. *)
\* a sealed stream still counts as anchored.
SealingKeepsAnchor == anchored
\* a segment goes with its first row, not with its last.
SegmentOlderByFirst(seg, c) == seg[1].ts < c
\* occupant rows are evicted at the cutoff of the rows they label.
LabelCutoffUnlagged(c) == c
-----------------------------------------------------------------------------
\* Whether a row of schema h carries it: the last row's differs.
NeedsSchema(h) == anchored # h

RestateDue(ts) == lastRestated # Never /\ ts - lastRestated >= RestateEvery

\* The rows of the occupant stream a tick adds: the occupants first seen,
\* and when a restatement is due every one seen since the last.
Stated(ts, present) ==
    (present \ described) \cup (IF RestateDue(ts) THEN seen \cup present ELSE {})

\* write_long's part for the labels.
WriteLabels(ts, present) ==
    /\ described' = described \cup present
    /\ seen' = IF RestateDue(ts) THEN {} ELSE seen \cup present
    /\ lastRestated' = IF lastRestated = Never \/ RestateDue(ts) THEN ts ELSE lastRestated
    /\ labels' = labels \cup {[ts |-> ts, occupant |-> o] : o \in Stated(ts, present)}
    /\ lastSeen' = [o \in Occupants |-> IF o \in present THEN ts ELSE lastSeen[o]]

WriteRow(ts, h, present) ==
    /\ wal' = Append(wal, [ts |-> ts, hash |-> h, schema |-> NeedsSchema(h),
                           occupants |-> present])
    /\ anchored' = h
    /\ opened' = IF opened = Never THEN ts ELSE opened
    /\ written' = written \cup {ts}

\* How long an occupant may have been away.
MayReturn(ts, o) == Returns \/ o \notin described \/ ts - lastSeen[o] < RestateEvery

\* stage_group (or a streamed row) and commit: a wide row.
TickWide(ts, h) ==
    /\ form = "wide"
    /\ now' = ts
    /\ WriteRow(ts, h, {})
    /\ UNCHANGED <<form, hash, described, seen, lastRestated, segments, labels, cutoff, lastSeen>>

\* A long row: the columns grow to h, the row states what it must.
TickLong(ts, h, present) ==
    /\ form = "long" /\ h >= hash
    /\ present # {}
    /\ \A o \in present : MayReturn(ts, o)
    /\ now' = ts /\ hash' = h
    /\ WriteRow(ts, h, present)
    /\ WriteLabels(ts, present)
    /\ UNCHANGED <<form, segments, cutoff>>

\* The row repeats the last window, or has no member: no row is written,
\* but the columns of its schema are taken.
TickSkipped(ts, h) ==
    /\ IF form = "long" THEN h >= hash ELSE h = hash
    /\ now' = ts /\ hash' = h
    /\ UNCHANGED <<form, anchored, opened, described, seen, lastRestated, tables, cutoff,
                   written, lastSeen>>

Tick ==
    \E ts \in (now + 1)..(now + MaxGap), h \in Schemas :
        /\ ts <= MaxTime
        /\ \/ TickWide(ts, h)
           \/ \E present \in SUBSET Occupants : TickLong(ts, h, present)
           \/ TickSkipped(ts, h)

-----------------------------------------------------------------------------
\* SourceRecorder::sealing: the next row starts a segment.
AfterSealing == NoSchema

Sealed == segments \cup {wal}

\* maybe_seal, when the policy finds the open segment due.
MaybeSeal ==
    /\ wal # <<>>
    /\ segments' = Sealed
    /\ wal' = <<>>
    /\ anchored' = AfterSealing /\ opened' = Never
    /\ UNCHANGED <<now, form, hash, described, seen, lastRestated, labels, cutoff, written, lastSeen>>

\* evict_before's batch: the open segment began before the cutoff.
CutsOpen(c) == opened # Never /\ opened < c

\* dendro: unsealed rows go by their timestamp, which only grows.
Older(rows, c) == Cardinality({i \in 1..Len(rows) : rows[i].ts < c})

\* dendro: a sealed segment goes once its last row is older.
SegmentOlder(seg, c) == seg[Len(seg)].ts < c

\* Occupant streams keep one restatement period more.
LabelCutoff(c) == IF c > RestateEvery THEN c - RestateEvery ELSE 0

Evict(c) ==
    /\ cutoff < c /\ c + Retention <= now
    /\ cutoff' = c
    /\ LET seal == CutsOpen(c) IN
        /\ wal' = IF seal THEN <<>> ELSE SubSeq(wal, Older(wal, c) + 1, Len(wal))
        /\ segments' = {s \in (IF seal THEN Sealed ELSE segments) : ~SegmentOlder(s, c)}
        /\ anchored' = IF seal THEN AfterSealing ELSE anchored
        /\ opened' = IF seal THEN Never ELSE opened
    /\ labels' = {l \in labels : l.ts >= LabelCutoff(c)}
    /\ UNCHANGED <<now, form, hash, described, seen, lastRestated, written, lastSeen>>

Next ==
    \/ Tick
    \/ MaybeSeal
    \/ \E c \in 1..MaxTime : Evict(c)

Spec == Init /\ [][Next]_vars

-----------------------------------------------------------------------------
TypeOK ==
    /\ now \in 0..MaxTime
    /\ form \in Forms
    /\ hash \in Schemas /\ anchored \in Schemas \cup {NoSchema}
    /\ opened \in 0..MaxTime
    /\ described \subseteq Occupants /\ seen \subseteq Occupants
    /\ lastRestated \in 0..MaxTime
    /\ wal \in Seq(Row)
    /\ segments \subseteq Seq(Row) \ {<<>>}
    /\ labels \subseteq LabelRow
    /\ cutoff \in 0..MaxTime /\ written \subseteq 1..MaxTime
    /\ lastSeen \in [Occupants -> 0..MaxTime]

\* Every row of a run decodes against the last schema the run carries before
\* it, as readers before 0.2.3 also read it (the doc of GroupState.anchored),
\* whatever was sealed or evicted around the run.
Decodes(rows) ==
    \A i \in 1..Len(rows) :
        \E j \in 1..i :
            /\ rows[j].schema /\ rows[j].hash = rows[i].hash
            /\ \A k \in (j + 1)..i : rows[k].schema => rows[k].hash = rows[i].hash
EveryRunDecodes == Decodes(wal) /\ \A s \in segments : Decodes(s)

\* Retention drops no row inside the cutoff.
Timestamps(rows) == {rows[i].ts : i \in 1..Len(rows)}
RetainsTheWindow ==
    {ts \in written : ts >= cutoff} \subseteq
        Timestamps(wal) \cup UNION {Timestamps(s) : s \in segments}

\* Every row inside the cutoff finds the labels of its occupants, for as
\* long as the row is there (the docs of evict_before and of the occupant
\* stream: "retention never drops a live occupant's labels").
LabelledIn(rows) ==
    \A i \in 1..Len(rows) :
        rows[i].ts >= cutoff =>
            \A o \in rows[i].occupants : \E l \in labels : l.occupant = o
RowsAreLabelled == LabelledIn(wal) /\ \A s \in segments : LabelledIn(s)
=============================================================================
