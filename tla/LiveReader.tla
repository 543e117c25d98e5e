----------------------------- MODULE LiveReader -----------------------------
(***************************************************************************)
(* A table of a live archive, read while it is written                     *)
(* (metriken-storage/src/reader.rs, segmented.rs, catalog.rs and long.rs). *)
(*                                                                         *)
(* A reader lists the table's sealed segments and its unsealed rows in one *)
(* snapshot, reads the occupants' labels in another, folds each segment's  *)
(* footer into its open state, fetching it by its listed entry, and        *)
(* fetches a segment again when a query touches it.  A reader that         *)
(* replaces it starts from the state it saved after the segments that      *)
(* cannot change, when the table still begins with them.  Meanwhile the    *)
(* writer appends, seals, compacts and evicts, and may be restarted.       *)
(*                                                                         *)
(* The table is long: each row names an occupant, and the occupant stream  *)
(* is a table of its own whose rows describe one occupant each.  Row n of  *)
(* the table has timestamp 2n; a segment holds consecutive rows, and is    *)
(* told by the first and the last.                                         *)
(***************************************************************************)
EXTENDS Integers, Sequences, SequencesExt

CONSTANTS Tenants,
          MaxRows,          \* bound: rows of the table
          MaxChanges,       \* bound: seals, compactions, evictions, restarts
          MaxOpens,         \* bound: readers
          MaxQueries,       \* bound: queries of a reader
          Ranges,           \* the ranges asked for, <<from, to>>
          CacheSize         \* the segment cache's budget, in segments

ASSUME LRAssumption ==
    /\ MaxRows \in Nat /\ MaxChanges \in Nat /\ MaxOpens \in Nat
    /\ MaxQueries \in Nat /\ CacheSize \in Nat /\ Ranges \subseteq Nat \X Nat

Streams == {"rows", "occupants"}
None == [none |-> TRUE]

VARIABLES archive,          \* the archive: its rows and each stream's segments
          changes,          \* changes made so far
          reader,           \* the reader
          carried,          \* what the reader before it saved
          opens,            \* readers so far
          query             \* the query it runs, or the last one

lrvars == <<archive, changes, reader, carried, opens, query>>

-----------------------------------------------------------------------------
(* The archive, as a Catalog shows it. *)

OccupantOf(a, n) == a.log["rows"][n]
Ts(n) == 2 * n

Lowest(S)  == CHOOSE n \in S : \A m \in S : n <= m
Highest(S) == CHOOSE n \in S : \A m \in S : m <= n

\* live_wal: the rows newer than the last sealed segment.
Wal(a, s) == a.sealed[s] + 1 .. Len(a.log[s])

\* A variant: the segment that has the number now.
BytesByNumber(a, s, seg) ==
    LET same == {g \in Range(a.segs[s]) : g.seq = seg.seq}
    IN UNION {g.lo..g.hi : g \in same}

\* segment_bytes_matching: the rows of a listed segment, none when its number
\* now names another one or nothing.
Bytes(a, s, seg) == IF seg \in Range(a.segs[s]) THEN seg.lo..seg.hi ELSE {}

LRInit ==
    /\ archive = [log |-> [s \in Streams |-> <<>>],
                  segs |-> [s \in Streams |-> <<>>],
                  sealed |-> [s \in Streams |-> 0],
                  next |-> [s \in Streams |-> 0]]
    /\ changes = 0 /\ opens = 0
    /\ carried = None
    /\ reader = [pc |-> "none"]
    /\ query = [pc |-> "none"]

AppendTo(s, o) ==
    archive' = [archive EXCEPT !.log[s] = Append(@, o)]

AppendRow(o) ==
    /\ Len(archive.log["rows"]) < MaxRows
    /\ AppendTo("rows", o)
    /\ UNCHANGED <<changes, reader, carried, opens, query>>

Describe(o) ==
    /\ o \notin Range(archive.log["occupants"])
    /\ AppendTo("occupants", o)
    /\ UNCHANGED <<changes, reader, carried, opens, query>>

Change(a) ==
    /\ changes < MaxChanges
    /\ changes' = changes + 1
    /\ archive' = a
    /\ UNCHANGED <<reader, carried, opens, query>>

Seal(s) ==
    /\ Wal(archive, s) # {}
    /\ Change([archive EXCEPT
          !.segs[s] = Append(@, [seq |-> archive.next[s],
                                 lo |-> archive.sealed[s] + 1,
                                 hi |-> Len(archive.log[s])]),
          !.sealed[s] = Len(archive.log[s]),
          !.next[s] = @ + 1])

\* The merged segment has the number of the first it replaces.
Compact(s, i) ==
    /\ i + 1 <= Len(archive.segs[s])
    /\ Change([archive EXCEPT
          !.segs[s] = SubSeq(@, 1, i - 1)
                      \o <<[@[i] EXCEPT !.hi = archive.segs[s][i + 1].hi]>>
                      \o SubSeq(@, i + 2, Len(@))])

EvictBefore ==
    /\ archive.segs["rows"] # <<>>
    /\ Change([archive EXCEPT !.segs["rows"] = Tail(@)])

\* A writer opened on the archive numbers on from its last segment, from 0
\* when there is none.
Restart ==
    LET next(s) == IF archive.segs[s] = <<>> THEN 0 ELSE Last(archive.segs[s]).seq + 1
    IN /\ \E s \in Streams : next(s) # archive.next[s]
       /\ Change([archive EXCEPT !.next = [s \in Streams |-> next(s)]])

-----------------------------------------------------------------------------
(* Opening a reader. *)

\* SegmentCatalog: what open keeps of a segment, or GONE.
Gone == [present |-> FALSE, lo |-> 0, hi |-> 0]
Entry(rows) ==
    IF rows = {} THEN Gone
    ELSE [present |-> TRUE, lo |-> Lowest(rows), hi |-> Highest(rows)]

\* OpenState: the catalog, the series listed, each with its labels or not
\* (a column whose occupant is not described keeps its own), and whether
\* there was one.
NewState == [catalog |-> <<>>, listing |-> {}, unresolved |-> FALSE]

Occs(rows) == {OccupantOf(archive, n) : n \in rows}

\* OccupantLabels::identities, of an occupant's series.
Identity(o, described) == [occupant |-> o, named |-> o \in described]

\* fold: a segment that is gone keeps its place.
Folded(state, rows, described) ==
    [catalog |-> Append(state.catalog, Entry(rows)),
     listing |-> state.listing \cup {Identity(o, described) : o \in Occs(rows)},
     unresolved |-> state.unresolved \/ ~(Occs(rows) \subseteq described)]

\* A SegmentCache without its entry of a segment.
Dropping(cache, i) ==
    LET at == {p \in DOMAIN cache : cache[p].idx = i}
    IN IF at = {} THEN cache ELSE RemoveAt(cache, CHOOSE p \in at : TRUE)

\* from_catalog: one snapshot of the segment list and the WAL's span, kept
\* as the row index; reuse_from: the state the last reader saved, and what
\* it has open, but for the live tail, whose place is after the keyed ones.
\* A reader that was never built passes on what it was given.
Handover ==
    CASE reader.pc = "open" /\ reader.saved # None ->
            [state |-> reader.saved.state, keys |-> reader.saved.keys,
             cache |-> Dropping(reader.cache, Len(reader.saved.keys) + 1)]
      [] reader.pc = "listed" /\ carried # None -> [carried EXCEPT !.cache = <<>>]
      [] OTHER -> None

OccupantsKept ==
    CASE reader.pc = "open" -> reader.decoded
      [] reader.pc = "listed" -> reader.known
      [] OTHER -> {}

Open ==
    /\ opens < MaxOpens
    /\ reader.pc \in {"none", "listed", "open", "absent"}
    /\ query.pc # "running"
    /\ \/ archive.segs["rows"] # <<>>
       \/ Wal(archive, "rows") # {}
    /\ opens' = opens + 1
    /\ carried' = Handover
    /\ reader' = [pc |-> "listed", known |-> OccupantsKept,
                  index |-> [segs |-> archive.segs["rows"],
                             wal |-> Wal(archive, "rows")]]
    /\ query' = [pc |-> "none", count |-> 0]
    /\ UNCHANGED <<archive, changes>>

\* DbSegmentStore::build: one snapshot of the list and the unsealed rows,
\* which become the last segment.
Store ==
    [segs |-> archive.segs["rows"], tail |-> Wal(archive, "rows")]

StoreLen(store) == Len(store.segs) + (IF store.tail = {} THEN 0 ELSE 1)

\* DbSegmentStore::key: the live tail has none.
Keys(store) == store.segs

Fetch(store, i) ==
    IF i <= Len(store.segs) THEN Bytes(archive, "rows", store.segs[i]) ELSE store.tail

\* reader(): no rows any more is a table that is absent.
BuildStore ==
    /\ reader.pc = "listed"
    /\ reader' = IF StoreLen(Store) = 0 THEN [pc |-> "absent", index |-> reader.index]
                 ELSE [pc |-> "built", known |-> reader.known, index |-> reader.index,
                       store |-> Store, described |-> {},
                       before |-> Range(archive.log["occupants"])]
    /\ UNCHANGED <<archive, changes, carried, opens, query>>

\* A variant: a handover of as many segments.
SealedPrefixByCount(keys) == carried # None /\ Len(carried.keys) <= Len(keys)

\* sealed_prefix: the table still begins with the segments read before.
SealedPrefix(keys) ==
    /\ carried # None
    /\ IsPrefix(carried.keys, keys)

\* A series listed without labels may present otherwise to a later reader.
MaySave(state) == ~state.unresolved

\* open: where to start from.  `sealed` is the state after the keyed
\* segments, the one a later reader may start from.
OpenFrom(described, decoded) ==
    LET store == reader.store
        reuse == SealedPrefix(Keys(store))
        start == IF reuse THEN carried.state ELSE NewState
    IN [pc |-> "folding", index |-> reader.index, store |-> store,
        before |-> reader.before, described |-> described, decoded |-> decoded,
        state |-> start, reuse |-> reuse,
        sealed |-> IF Len(start.catalog) = Len(Keys(store)) /\ reuse
                   THEN start ELSE None,
        saved |-> None, cache |-> <<>>]

\* occupants: the segments decoded before are not read again.
Known(known, seg) == {k \in known : k = seg}

\* occupants: one snapshot of the stream, its segments and its WAL.
Labels(known) ==
    LET segs == Range(archive.segs["occupants"])
        rows(seg) == IF Known(known, seg) # {}
                     THEN UNION {k.lo..k.hi : k \in Known(known, seg)}
                     ELSE seg.lo..seg.hi
    IN {archive.log["occupants"][n] :
           n \in (UNION {rows(seg) : seg \in segs}) \cup Wal(archive, "occupants")}

ReadLabels ==
    /\ reader.pc = "built"
    /\ reader' = OpenFrom(Labels(reader.known), Range(archive.segs["occupants"]))
    /\ UNCHANGED <<archive, changes, carried, opens, query>>

\* The loop of open, one segment.
FoldNext ==
    LET n     == Len(reader.state.catalog) + 1
        state == Folded(reader.state, Fetch(reader.store, n), reader.described)
        keys  == Keys(reader.store)
    IN /\ reader.pc = "folding"
       /\ n <= StoreLen(reader.store)
       /\ reader' = [reader EXCEPT !.state = state,
                        !.sealed = IF n = Len(keys) THEN state ELSE @]
       /\ UNCHANGED <<archive, changes, carried, opens, query>>

\* The end of open: an open that found every segment gone fails; the cache
\* takes over what the last reader had open of the shared segments.
Opened ==
    /\ reader.pc = "folding"
    /\ Len(reader.state.catalog) = StoreLen(reader.store)
    /\ reader' =
         IF \A i \in DOMAIN reader.state.catalog : ~reader.state.catalog[i].present
         THEN [pc |-> "absent", index |-> reader.index]
         ELSE [reader EXCEPT
                 !.pc = "open",
                 !.saved = IF reader.sealed # None /\ MaySave(reader.sealed)
                           THEN [state |-> reader.sealed, keys |-> Keys(reader.store)]
                           ELSE None,
                 !.cache = IF reader.reuse
                           THEN Dropping(carried.cache, Len(carried.keys) + 1)
                           ELSE <<>>]
    /\ carried' = None
    /\ UNCHANGED <<archive, changes, opens, query>>

-----------------------------------------------------------------------------
(* Queries. *)

\* SegmentCatalog::touches.
Touches(entry, from, to) ==
    entry.present /\ Ts(entry.lo) <= to /\ Ts(entry.hi) >= from

Begin(from, to) ==
    /\ reader.pc = "open" /\ query.pc # "running" /\ query.count < MaxQueries
    /\ query' = [pc |-> "running", from |-> from, to |-> to, idx |-> 1, out |-> <<>>,
                 count |-> query.count + 1]
    /\ UNCHANGED <<archive, changes, reader, carried, opens>>

Cached(i) == {c \in Range(reader.cache) : c.idx = i}

\* SegmentCache: the entry used last goes last, the least recently used one
\* out, never the one just inserted.
Used(cache, entry) ==
    LET kept == Append(Dropping(cache, entry.idx), entry)
    IN IF Len(kept) > CacheSize /\ Len(kept) > 1 THEN Tail(kept) ELSE kept

\* The samples of one segment in the range, which are of consecutive rows,
\* under the labels they present as.
Samples(rows, q) ==
    LET in    == {n \in rows : Ts(n) >= q.from /\ Ts(n) <= q.to}
        count == IF in = {} THEN 0 ELSE Highest(in) - Lowest(in) + 1
    IN [i \in 1..count |->
          LET n == Lowest(in) + i - 1
          IN [row |-> n, series |-> Identity(OccupantOf(archive, n), reader.described)]]

\* touched, and segment(): the next segment in order, out of the cache or
\* the archive; one that is gone is skipped.
Step ==
    LET i     == query.idx
        touch == Touches(reader.state.catalog[i], query.from, query.to)
        hit   == Cached(i) # {}
        rows  == IF hit THEN (CHOOSE c \in Cached(i) : TRUE).rows
                        ELSE Fetch(reader.store, i)
    IN /\ query.pc = "running" /\ i <= Len(reader.state.catalog)
       /\ query' = [query EXCEPT !.idx = i + 1,
                       !.out = IF touch THEN @ \o Samples(rows, query) ELSE @]
       /\ reader' = IF touch /\ rows # {}
                    THEN [reader EXCEPT !.cache = Used(@, [idx |-> i, rows |-> rows])]
                    ELSE reader
       /\ UNCHANGED <<archive, changes, carried, opens>>

Finish ==
    /\ query.pc = "running" /\ query.idx > Len(reader.state.catalog)
    /\ query' = [query EXCEPT !.pc = "done"]
    /\ UNCHANGED <<archive, changes, reader, carried, opens>>

-----------------------------------------------------------------------------
(* has_row_in: whether the table has a row in a range, from the row index. *)

Inside(n, from, to) == Ts(n) >= from /\ Ts(n) <= to

\* A span known by its ends: one of them is inside, or both are around.
EndInside(lo, hi, from, to) == Inside(lo, from, to) \/ Inside(hi, from, to)
Straddles(lo, hi, from, to) == Ts(lo) < from /\ Ts(hi) > to

\* A variant: an unsealed row that is gone was never in the range.
WalSaysForgetful(wal, from, to) ==
    IF \E n \in Wal(archive, "rows") : Inside(n, from, to) THEN "yes" ELSE "no"

\* The unsealed rows are read again; when the first is no longer there, some
\* were sealed or evicted, and that none is inside says nothing.
WalSays(wal, from, to) ==
    IF \E n \in Wal(archive, "rows") : Inside(n, from, to) THEN "yes"
    ELSE IF Wal(archive, "rows") = {} \/ Lowest(Wal(archive, "rows")) # Lowest(wal)
         THEN "unknown" ELSE "no"

HasRowIn(index, from, to) ==
    LET segs == Range(index.segs)
        wal  == index.wal
        read == {g \in segs : Straddles(g.lo, g.hi, from, to)}
    IN IF \/ \E g \in segs : EndInside(g.lo, g.hi, from, to)
          \/ wal # {} /\ EndInside(Lowest(wal), Highest(wal), from, to)
       THEN "yes"
       ELSE IF \E g \in read : Bytes(archive, "rows", g) = {} THEN "unknown"
       ELSE IF \E g \in read : \E n \in g.lo..g.hi : Inside(n, from, to) THEN "yes"
       ELSE IF wal # {} /\ Straddles(Lowest(wal), Highest(wal), from, to)
            THEN WalSays(wal, from, to)
            ELSE "no"

-----------------------------------------------------------------------------
LRNext ==
    \/ \E o \in Tenants : AppendRow(o) \/ Describe(o)
    \/ \E s \in Streams : Seal(s) \/ \E i \in 1..MaxChanges : Compact(s, i)
    \/ EvictBefore \/ Restart
    \/ Open \/ BuildStore \/ ReadLabels \/ FoldNext \/ Opened
    \/ \E r \in Ranges : Begin(r[1], r[2])
    \/ Step \/ Finish

LRSpec == LRInit /\ [][LRNext]_lrvars

-----------------------------------------------------------------------------
Listed(store, i) ==
    IF i <= Len(store.segs) THEN store.segs[i].lo..store.segs[i].hi ELSE store.tail

\* An occupant that was described when its rows were listed has its labels.
NamedIfDescribed(series) == series.occupant \in reader.before => series.named

\* A reader's state is the one its own store and labels give, whichever part
\* of it an earlier reader built over other labels: each entry is about the
\* segment at its place, and the listing has each series once, as this
\* reader presents it (the docs of SegmentedSource::open_after, handover and
\* ColumnRelabel::identities_are_fixed).
OpenIsAsFresh ==
    reader.pc = "open" =>
        LET present == {i \in DOMAIN reader.state.catalog :
                           reader.state.catalog[i].present}
        IN /\ Len(reader.state.catalog) = StoreLen(reader.store)
           /\ \A i \in present :
                 LET e == reader.state.catalog[i]
                 IN e.lo..e.hi = Listed(reader.store, i)
           /\ reader.state.listing =
                 {Identity(o, reader.described) :
                     o \in Occs(UNION {Listed(reader.store, i) : i \in present})}
           /\ \A series \in reader.state.listing : NamedIfDescribed(series)

\* What a query returns while the archive is sealed, compacted, evicted and
\* numbered anew under it: rows of its reader's view and range, in order,
\* none twice, each under its occupant's labels, and every one of them whose
\* segment is still there (the docs of DbSegmentStore and of touched).
QueryIsExact ==
    query.pc = "done" =>
        LET out  == query.out
            view == UNION {Listed(reader.store, i) : i \in 1..StoreLen(reader.store)}
            kept == reader.store.tail
                    \cup UNION {g.lo..g.hi : g \in Range(reader.store.segs)
                                                 \cap Range(archive.segs["rows"])}
        IN /\ \A i \in 1..Len(out) - 1 : out[i].row < out[i + 1].row
           /\ \A s \in Range(out) :
                 /\ s.row \in view /\ Inside(s.row, query.from, query.to)
                 /\ s.series.occupant = OccupantOf(archive, s.row)
                 /\ NamedIfDescribed(s.series)
           /\ \A n \in kept :
                 Inside(n, query.from, query.to) => \E s \in Range(out) : s.row = n

\* has_row_in never answers wrong for rows that were there when the reader
\* was opened, however they were moved since (the doc of has_row_in).
AnswerIsTrue ==
    reader.pc # "none" =>
        \A r \in Ranges :
            LET index == reader.index
                rows  == index.wal \cup UNION {g.lo..g.hi : g \in Range(index.segs)}
                says  == HasRowIn(index, r[1], r[2])
            IN /\ says = "no" => \A n \in rows : ~Inside(n, r[1], r[2])
               /\ says = "yes" => \E n \in 1..Len(archive.log["rows"]) :
                                      Inside(n, r[1], r[2])
=============================================================================
