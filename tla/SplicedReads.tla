---------------------------- MODULE SplicedReads ----------------------------
(***************************************************************************)
(* One counter of a segmented table, read three ways                       *)
(* (metriken-storage/src/segmented.rs and scan.rs): every series whole     *)
(* (counters), a stream per series (counter_streams), and a scan, segment  *)
(* by segment, several tables' scans interleaved in time (scan_counters,   *)
(* SegmentedScan, interleave).                                             *)
(*                                                                         *)
(* A segment is a sequence of columns, each with the times it has a value  *)
(* at and whether it carries acquisition windows, and a span when its      *)
(* footer has one.  A relabelling says under which label a column's sample *)
(* of a time is presented.  A sample is its time: no two samples of one    *)
(* label share one.                                                        *)
(***************************************************************************)
EXTENDS Integers, Sequences, SequencesExt

CONSTANTS Tables,           \* the tables considered: for each scan, a sequence of segments
          Relabels,         \* the relabellings considered
          Queries,          \* the queries: [accepts, from, to]
          Times,            \* the times of samples
          Columns,          \* the columns of segments
          SeriesLabels,     \* what columns present as
          ChunkSizes        \* how many segments a chunk may read

Unknown == -1

\* A segment's span, <<>> when its footer has none, has its samples.
TableSegments == [cols : Seq([col : Columns, times : SUBSET Times, windowed : BOOLEAN]),
             span : {<<>>} \cup (Times \X Times)]
Spanned(seg) ==
    seg.span # <<>> => \A c \in Range(seg.cols) : \A t \in c.times : t \in seg.span[1] .. seg.span[2]

\* What a column presents as is among its identities.
Relabellings ==
    [fixed : BOOLEAN, at : [Columns -> [Times -> SeriesLabels]],
     identities : [Columns -> SUBSET SeriesLabels]]
Presents(r) == \A c \in Columns : \A t \in Times : r.at[c][t] \in r.identities[c]

ASSUME SplicedReadsAssumption ==
    /\ Times \subseteq Nat
    /\ ChunkSizes \subseteq Nat \ {0}
    /\ \A tb \in Tables :
          /\ tb \in Seq(Seq(TableSegments)) /\ tb # <<>>
          /\ \A k \in DOMAIN tb : \A s \in DOMAIN tb[k] :
                /\ Spanned(tb[k][s])
                /\ \A c \in Range(tb[k][s].cols) : IsFiniteSet(c.times)
    /\ \A r \in Relabels : r \in Relabellings /\ Presents(r)
    /\ \A q \in Queries : q \in [accepts : SUBSET SeriesLabels, from : Nat, to : Nat]

VARIABLES table,            \* the tables read, one per scan
          relabel, asked,   \* the relabelling, and the query
          gone,             \* the segments the store has lost, as <<table, segment>>
          scans,            \* each scan's place and the start of what it has left
          ended,            \* series that have ended, not reported yet
          got,              \* each scan's samples so far, per label
          promise           \* what the last chunk said of what follows

srvars == <<table, relabel, asked, gone, scans, ended, got, promise>>

-----------------------------------------------------------------------------
(* The open state: what a column presents as, and where each series is. *)

At(col, t) == relabel.at[col][t]

Identities(col) == relabel.identities[col]

\* The columns of a table in order: segment by segment, as a footer has them.
ColumnPlaces(k) ==
    FlattenSeq([s \in DOMAIN table[k] |->
        [i \in DOMAIN table[k][s].cols |-> [seg |-> s, at |-> i]]])

ColumnAt(k, p) == table[k][p.seg].cols[p.at]

\* SeriesIdentity::extend, over every segment.
Identified(k) == UNION {Identities(ColumnAt(k, p).col) : p \in Range(ColumnPlaces(k))}

\* OpenState::fold: the columns that can present as a label.
Locations(k, label) == {p \in Range(ColumnPlaces(k)) : label \in Identities(ColumnAt(k, p).col)}

Overlaps(seg, q) ==
    seg.span = <<>> \/ (seg.span[1] <= q.to /\ seg.span[2] >= q.from)

\* The segments a query reads: those it overlaps that are there.
Touched(k, q) == {s \in DOMAIN table[k] : Overlaps(table[k][s], q) /\ <<k, s>> \notin gone}

\* The members of a set of numbers in order: the n-th has n up to it.
Enumerated(S) ==
    [n \in 1 .. Cardinality(S) |-> CHOOSE x \in S : Cardinality({y \in S : y <= x}) = n]

\* relabel_counter: the runs of a column's samples that present as `label`.
Piece(c, q, label) ==
    [times |-> Enumerated({t \in c.times : q.from <= t /\ t <= q.to /\ At(c.col, t) = label}),
     windows |-> c.windowed]

\* The samples of a label in the columns at the places `ps`, in their order.
SamplesAt(k, q, label, ps) ==
    LET all == ColumnPlaces(k)
    IN FlattenSeq([n \in DOMAIN all |->
          IF all[n] \in ps THEN Piece(ColumnAt(k, all[n]), q, label).times ELSE <<>>])

-----------------------------------------------------------------------------
(* counters *)

\* A series' samples and their windows; `carried` is Some in the code.
NoSeries == [times |-> <<>>, windows |-> <<>>, carried |-> TRUE]

\* A variant: a chunk without windows adds none.
MergeCounterMixed(a, p) ==
    [times |-> a.times \o p.times,
     windows |-> IF p.windows THEN a.windows \o p.times ELSE a.windows,
     carried |-> TRUE]

\* merge_counter: windows are kept while every chunk has them.
MergeCounter(a, p) ==
    IF a.carried /\ p.windows
    THEN [times |-> a.times \o p.times, windows |-> a.windows \o p.times, carried |-> TRUE]
    ELSE [times |-> a.times \o p.times, windows |-> <<>>, carried |-> FALSE]

\* The loop over the touched segments' columns, for one label: one without a
\* run of it has no chunk to merge.
Counters(k, q, label) ==
    LET all == ColumnPlaces(k)
        merged[n \in 0 .. Len(all)] ==
            IF n = 0 THEN NoSeries
            ELSE LET p == Piece(ColumnAt(k, all[n]), q, label)
                 IN IF all[n].seg \in Touched(k, q) /\ p.times # <<>>
                    THEN MergeCounter(merged[n - 1], p)
                    ELSE merged[n - 1]
    IN IF label \in Identified(k) \cap q.accepts THEN merged[Len(all)] ELSE NoSeries

-----------------------------------------------------------------------------
(* counter_streams *)

\* Each location's column, relabelled, and the pieces that are this series.
Stream(k, q, label) ==
    IF label \in q.accepts
    THEN SamplesAt(k, q, label, {p \in Locations(k, label) : p.seg \in Touched(k, q)})
    ELSE <<>>

-----------------------------------------------------------------------------
(* scan_counters: the plan. *)

Series(k, q) == Identified(k) \cap q.accepts

Planned(k, q) ==
    {s \in DOMAIN table[k] :
        Overlaps(table[k][s], q)
        /\ \E l \in Series(k, q) : \E p \in Locations(k, l) : p.seg = s}

\* No scan: identities that vary, a series twice in one segment, or nothing
\* to read.
Scannable(k, q) ==
    /\ relabel.fixed
    /\ Series(k, q) # {}
    /\ \A l \in Series(k, q) : \A p, r \in Locations(k, l) :
          p.seg = r.seg /\ Overlaps(table[k][p.seg], q) => p = r

PlanSegments(k, q) == Enumerated(Planned(k, q))

\* A variant: the start of the next segment only.
RestFromNext(k, q, i) ==
    LET segs == PlanSegments(k, q)
    IN IF i > Len(segs) \/ table[k][segs[i]].span = <<>> THEN Unknown
       ELSE table[k][segs[i]].span[1]

\* rest_from: the earliest start of the planned segments from i on, unknown
\* when there is none or one of them has no span.
RestFrom(k, q, i) ==
    LET segs  == PlanSegments(k, q)
        spans == {table[k][segs[j]].span : j \in i .. Len(segs)}
    IN IF spans = {} \/ <<>> \in spans THEN Unknown ELSE Min({s[1] : s \in spans})

\* last_at: the last planned segment whose column of it can hold a value.
LastAt(k, q, label) ==
    LET segs == PlanSegments(k, q)
    IN Max({0} \cup {i \in DOMAIN segs :
                \E p \in Locations(k, label) : p.seg = segs[i] /\ ColumnAt(k, p).times # {}})

-----------------------------------------------------------------------------
(* The scans, interleaved. *)

Nothing == [rest |-> Unknown, ended |-> {}, silent |-> {}]

\* A label is held by one column at a time, and has one sample of a time.
OneHolder ==
    \A k \in DOMAIN table : \A p, r \in Range(ColumnPlaces(k)) :
        p # r => \A t \in ColumnAt(k, p).times \cap ColumnAt(k, r).times :
                    At(ColumnAt(k, p).col, t) # At(ColumnAt(k, r).col, t)

SRInit ==
    /\ table \in Tables /\ relabel \in Relabels /\ asked \in Queries
    /\ OneHolder
    /\ gone \in {{}} \cup {{<<1, s>>} : s \in DOMAIN table[1]}
    /\ scans = [k \in DOMAIN table |-> [next |-> 1, at |-> Unknown, start |->
          IF \A j \in DOMAIN table : Scannable(j, asked) THEN "unread" ELSE "none"]]
    /\ ended = {}
    /\ got = [k \in DOMAIN table |-> [l \in SeriesLabels |-> <<>>]]
    /\ promise = Nothing

Live(c) == c.start \in {"unread", "at"}

\* min_by_key: a scan not read yet, or whose rest is not known, first.
Key(c) == IF c.at = Unknown THEN 0 ELSE c.at

Next(k) ==
    /\ Live(scans[k])
    /\ \A j \in DOMAIN scans : Live(scans[j]) =>
          IF j < k THEN Key(scans[k]) < Key(scans[j]) ELSE Key(scans[k]) <= Key(scans[j])

\* SegmentedScan::read: the planned segments' samples, by series; lost ones
\* are skipped.
ReadInto(k, segs) ==
    [l \in SeriesLabels |->
        IF l \notin asked.accepts THEN got[k][l]
        ELSE got[k][l] \o SamplesAt(k, asked, l,
                {p \in Range(ColumnPlaces(k)) : p.seg \in segs /\ <<k, p.seg>> \notin gone})]

\* The joined rest: the earliest of the scans', unknown while one is.
JoinedRest(kids) ==
    LET live == {k \in DOMAIN kids : Live(kids[k])}
    IN IF live = {} \/ \E k \in live : kids[k].at = Unknown THEN Unknown
       ELSE Min({kids[k].at : k \in live})

Silent(kids) ==
    UNION {{k} \X {l \in Series(k, asked) : LastAt(k, asked, l) < kids[k].next} : k \in DOMAIN kids}

NextChunk(n) ==
    \E k \in DOMAIN table :
        LET segs == PlanSegments(k, asked)
            from == scans[k].next
            to   == Min({from + n - 1, Len(segs)})
            rest == RestFrom(k, asked, to + 1)
        IN /\ Next(k)
           /\ IF from > Len(segs)
              THEN /\ scans' = [scans EXCEPT ![k].start = "done"]
                   /\ ended' = ended \cup {k}
                   /\ UNCHANGED <<got, promise>>
              ELSE /\ scans' = [scans EXCEPT ![k] =
                                   [next |-> to + 1, start |-> "at", at |-> rest]]
                   /\ got' = [got EXCEPT ![k] = ReadInto(k, {segs[i] : i \in from .. to})]
                   /\ promise' = [rest |-> Max({promise.rest, JoinedRest(scans')}),
                                  ended |-> promise.ended \cup ended,
                                  silent |-> Silent(scans')]
                   /\ ended' = {}
           /\ UNCHANGED <<table, relabel, asked, gone>>

SRNext == \E n \in ChunkSizes : NextChunk(n)

SRSpec == SRInit /\ [][SRNext]_srvars

-----------------------------------------------------------------------------
\* What a counter's series holds is the same whichever way it is read: its
\* stream has the samples the whole read has, and so has the scan when it has
\* ended, through columns that change hands, segments that are gone, and
\* filters on labels the columns do not carry; each of those samples is the
\* series' own, none is left out, and its windows, when it has any, are those
\* of its samples (the docs of DataSource::counter_streams and counter_scan,
\* and of merge_counter).
ReadsAgree ==
    (\A k \in DOMAIN scans : scans[k].start # "at") => \A k \in DOMAIN table : \A l \in SeriesLabels :
        LET whole == Counters(k, asked, l)
            mine  == {t \in Times : \E s \in DOMAIN table[k] :
                         /\ <<k, s>> \notin gone /\ l \in asked.accepts
                         /\ \E c \in Range(table[k][s].cols) :
                               t \in c.times /\ At(c.col, t) = l
                               /\ asked.from <= t /\ t <= asked.to}
        IN /\ Range(whole.times) = mine /\ Len(whole.times) = Cardinality(mine)
           /\ whole.windows \in {<<>>, whole.times}
           /\ Stream(k, asked, l) = whole.times
           /\ (\A j \in DOMAIN scans : scans[j].start = "done") => got[k][l] = whole.times

\* What a chunk says of all the chunks after it is so, for every scan joined: no
\* sample is earlier than rest_start, and none is of a series that ended or
\* that later_rows said has no more.  The batched rate path emits points and
\* ends series on the strength of it (the docs of ScanChunk and LaterRows).
ChunksKeepTheirWord ==
    [][\A k \in DOMAIN table : \A l \in SeriesLabels :
          LET n == Len(got[k][l])
          IN \A i \in n + 1 .. Len(got'[k][l]) :
                /\ promise.rest # Unknown => got'[k][l][i] >= promise.rest
                /\ k \notin promise.ended
                /\ <<k, l>> \notin promise.silent]_srvars
=============================================================================
