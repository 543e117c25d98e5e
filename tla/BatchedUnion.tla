---------------------------- MODULE BatchedUnion ----------------------------
(***************************************************************************)
(* The batched rate of a process group's counter: grid_rates and its       *)
(* UnionStage (metriken-query/src/batch_rate.rs), over the scans of the    *)
(* group's members joined in time (scan_rates in dispatch.rs, Interleaved  *)
(* in metriken-storage/src/scan.rs).                                       *)
(*                                                                         *)
(* Each member's rows come a chunk at a time; its SeriesRate gives points  *)
(* as they are computed, and the stage holds them until every member is    *)
(* past the point and its rows decide what they cover there, compares the  *)
(* rows of different sources, and passes the chosen point to its group.    *)
(* A grouped display query gives a block of the group's points away once   *)
(* no member can add to it, and ends members that seem silent.  Whatever   *)
(* it forgets on the way, the result is that of the members read whole     *)
(* (combine_series in per_source.rs).                                      *)
(***************************************************************************)
EXTENDS GridRate, RowCoverage

CONSTANTS Scenes,           \* what is read: see below
          Block,            \* BLOCK: the grid points of a block of accumulators
          Lag,              \* the spacings after which a member seems silent
          Width,            \* the times a segment covers
          ChunkSegments     \* how many segments a chunk may read

(***************************************************************************)
(* A scene: the grid; `display` for a grouped display query; `says` when   *)
(* the scan knows which members have rows left (later_rows); `spans` when  *)
(* it knows where its unread segments start (rest_start); the members of   *)
(* the group in rank order, each with the rows of its source and their     *)
(* interval; the times at which the members' values differ; and `single`,  *)
(* a recording of its own in the same group, if any.  Times are positive.  *)
(***************************************************************************)

Ascending(rows) == \A i, j \in DOMAIN rows : i < j => rows[i] < rows[j]

Sources == {src \in [rows : Seq(Nat \ {0}), interval : Nat \ {0}] :
               src.rows # <<>> /\ Ascending(src.rows)}

Grids == {g \in [start : Nat, end : Nat, step : Nat \ {0}, span : Nat, range : BOOLEAN, reach : Nat] :
             g.start <= g.end}

ASSUME BatchedUnionAssumption ==
    /\ {Block, Lag, Width} \cup ChunkSegments \subseteq Nat \ {0}
    /\ \A sc \in Scenes :
          /\ sc.grid \in Grids
          /\ sc.display \in BOOLEAN /\ sc.says \in BOOLEAN /\ sc.spans \in BOOLEAN
          /\ sc.members \in Seq(Sources) /\ sc.members # <<>>
          /\ sc.single \in Seq(Sources) /\ Len(sc.single) <= 1

VARIABLES scene,
          child,            \* per scan: segments read, where the rest starts, its state
          closed,           \* scans that have ended, not reported yet
          st,               \* the rates, the stage and what they passed on
          fed,              \* blocks of the group given away
          phase

uvars == <<scene, child, closed, st, fed, phase>>

-----------------------------------------------------------------------------
(* The scene. *)

Combined == DOMAIN scene.members

\* Every scanned series: the combined members, then the single recording.
Scanned == Len(scene.members) + Len(scene.single)

All == 1 .. Scanned

Member(m) == IF m \in Combined THEN scene.members[m] ELSE scene.single[1]

IntervalOf(m) == Member(m).interval

\* interval_reach: two intervals; an irate has none.
GridOf(m) == [scene.grid EXCEPT !.reach = 2 * IntervalOf(m)]

\* data_start: the range and twice the reach before the grid.
DataStart(m) ==
    LET g == scene.grid
        back == IF g.range THEN g.span + 4 * IntervalOf(m) ELSE AtLeast(g.span, g.step)
    IN AtLeast(g.start - back, 0)

Window == IF scene.grid.range THEN scene.grid.span ELSE scene.grid.step

\* How many of a source's rows are up to a time.
RowsTo(rows, t) == Max({0} \cup {i \in DOMAIN rows : rows[i] <= t})

Within(m, from, to) ==
    LET rows == Member(m).rows IN SubSeq(rows, RowsTo(rows, from - 1) + 1, RowsTo(rows, to))

Reads(m) == Within(m, DataStart(m), scene.grid.end)

\* The segments a scan reads, those the read touches: the first, how many,
\* and the rows of some of them.
FirstSegment(m) == (AtLeast(DataStart(m), 1) - 1) \div Width

Segments(m) == (scene.grid.end - 1) \div Width - FirstSegment(m) + 1

SegmentStart(m, i) == (FirstSegment(m) + i - 1) * Width + 1

SegmentRows(m, i, j) == Within(m, SegmentStart(m, i), SegmentStart(m, j + 1) - 1)

\* context_rows: the rows nearest the read on either side of it.
Before(m) ==
    LET rows == Within(m, 0, DataStart(m) - 1)
    IN SubSeq(rows, AtLeast(Len(rows) - Side, 1), Len(rows))

After(m) ==
    LET rows == Member(m).rows
        n    == RowsTo(rows, scene.grid.end)
    IN SubSeq(rows, n + 1, Min({Len(rows), n + Side + 1}))

\* The source's first row.
FirstRow(m) == Member(m).rows[1]

-----------------------------------------------------------------------------
(* The comparison of the sources' rows: StageCompare. *)

\* A variant: read up to a time is past it.
PassedAt(s, o, t) ==
    s.cmp[o].ended \/ t < FirstRow(o)
    \/ (s.cmp[o].last # NoTime /\ s.cmp[o].last >= t - 1)

\* passed: o holds no row at t that has not been read yet.
Passed(s, o, t) ==
    s.cmp[o].ended \/ t < FirstRow(o)
    \/ (s.cmp[o].last # NoTime /\ s.cmp[o].last > t)

\* forget: the first rows held that every other source has read past.
Forget(s) ==
    [s EXCEPT !.cmp = [m \in Combined |->
        [s.cmp[m] EXCEPT !.held =
            {t \in @ : \E x \in @ : x <= t /\ \E o \in Combined \ {m} : ~Passed(s, o, x)}]]]

\* StageCompare::row
CompareRow(s, m, t) ==
    LET others == Combined \ {m}
        q == [s EXCEPT
                !.found = @ \cup {<<{m, o}, t>> : o \in {x \in others :
                              t \in s.cmp[x].held /\ t \in scene.differs}},
                !.cmp[m].last = t]
    IN Forget(IF \E o \in others : ~Passed(q, o, t)
              THEN [q EXCEPT !.cmp[m].held = @ \cup {t}] ELSE q)

\* read_to: no row before t will be read.
ReadTo(s, t) ==
    [s EXCEPT !.cmp = [m \in Combined |->
        [s.cmp[m] EXCEPT !.held = {x \in @ : x >= t}]]]

\* end_member: the member has no more rows.
EndMember(s, m) ==
    IF m \notin Combined THEN s
    ELSE Forget([s EXCEPT !.tracks[m] = FinishTrack(@), !.cmp[m].ended = TRUE])

-----------------------------------------------------------------------------
(* The points: SeriesRate, UnionStage::emit, settle. *)

\* A member's new points: held for its unit, or passed on.
Emitted(s, m, rate) ==
    LET q == [s EXCEPT !.rates[m] = [rate EXCEPT !.out = <<>>]]
    IN IF m \in Combined THEN [q EXCEPT !.pending[m] = @ \o rate.out]
       ELSE [q EXCEPT !.points = @ \o [i \in DOMAIN rate.out |->
                  [unit |-> m, index |-> rate.out[i].index, by |-> m,
                   point |-> rate.out[i].point]]]

\* The first of the members, in rank order, that has a point and covers its
\* window, or else one that holds rows there.
Pick(has, covers, holds) ==
    LET best == {m \in has : covers[m]}
        some == {m \in has : holds[m]}
    IN IF best # {} THEN Min(best) ELSE IF some # {} THEN Min(some) ELSE 0

First(s) == {s.pending[m][1].index : m \in {x \in Combined : s.pending[x] # <<>>}}

\* One held point, if it is the first and every member is past it.
SettleAt(s, t) ==
    LET index == IndexOf(scene.grid, t)
        has   == {m \in Combined : s.pending[m] # <<>> /\ s.pending[m][1].index = index}
        ready == \A m \in Combined :
                    /\ LET p == Pending(s.rates[m]) IN p = NoTime \/ p > t
                    /\ Ready(s.tracks[m], t)
        pick  == Pick(has,
                    [m \in Combined |-> CoversAt(s.tracks[m].runs, IntervalOf(m), t, Window)],
                    [m \in Combined |-> HoldsAt(s.tracks[m].runs, IntervalOf(m), t)])
    IN IF has = {} \/ Min(First(s)) # index \/ ~ready THEN s
       ELSE [s EXCEPT
               !.points  = IF pick = 0 THEN @
                           ELSE Append(@, [unit |-> 0, index |-> index, by |-> pick,
                                           point |-> s.pending[pick][1].point]),
               !.pending = [m \in Combined |-> IF m \in has THEN Tail(@[m]) ELSE @[m]],
               !.tracks  = [m \in Combined |-> ForgetBefore(@[m], t)]]

SettleAll(s) ==
    LET ticks == Ticks(scene.grid)
        settled[n \in 0 .. Len(ticks)] ==
            IF n = 0 THEN s ELSE SettleAt(settled[n - 1], ticks[n])
    IN settled[Len(ticks)]

-----------------------------------------------------------------------------
(* A chunk. *)

\* A member whose scan has ended: finished, its track too.
EndScan(s, m) == EndMember(Emitted(s, m, FinishRate(s.rates[m], GridOf(m))), m)

EndScans(s) ==
    LET finished[m \in 0 .. Scanned] ==
            IF m = 0 THEN s
            ELSE IF m \in closed THEN EndScan(finished[m - 1], m) ELSE finished[m - 1]
    IN finished[Scanned]

\* One row: to the track, and within the read to the comparison and the rate.
\* A row of a series ended as silent, within the read or not, spoils it.
TakeRow(m, s, t) ==
    LET tracked == IF m \in Combined THEN [s EXCEPT !.tracks[m] = PushRow(@, t)] ELSE s
        wanted  == DataStart(m) <= t /\ t <= scene.grid.end
        seen    == IF m \in Combined THEN CompareRow(tracked, m, t) ELSE tracked
    IN IF m \in s.early THEN [s EXCEPT !.resumed = TRUE]
       ELSE IF wanted THEN Emitted(seen, m, Push(s.rates[m], GridOf(m), t)) ELSE tracked

TakeRows(s, m, rows) ==
    LET taken[n \in 0 .. Len(rows)] ==
            IF n = 0 THEN s ELSE TakeRow(m, taken[n - 1], rows[n])
    IN taken[Len(rows)]

\* The rest of grid_rates' loop over a chunk's partitions.
ReadChunk(s, m, rows, rest) ==
    LET read == SettleAll(TakeRows(EndScans(s), m, rows))
    IN IF rest = NoTime THEN read ELSE ReadTo(read, rest)

\* The median spacing of the members that have one.
MedianSpacing(s) ==
    LET known == SelectSeq([m \in All |-> SpacingOf(s.rates[m])], LAMBDA x : x # NoTime)
    IN IF known = <<>> THEN NoTime ELSE Middle(known)

LaterRows(kids, m) ==
    IF ~scene.says THEN "unknown"
    ELSE IF SegmentRows(m, kids[m].read + 1, Segments(m)) # <<>>
         THEN "possible" ELSE "none"

\* A member is ended early when its last sample is long before every unread
\* row, unless one of them may be its own.
Silence(s, kids, median, rest, m) ==
    LET r    == s.rates[m]
        own  == SpacingOf(r)
        sp   == IF own = NoTime THEN median ELSE own
        last == LastSample(r)
    IN IF /\ last # NoTime /\ ~r.done /\ sp # NoTime
          /\ last + Lag * AtLeast(sp, scene.grid.step) < rest
          /\ LaterRows(kids, m) # "possible"
       THEN EndScan([s EXCEPT !.early = @ \cup {m}], m)
       ELSE s

Silenced(s, kids, rest) ==
    LET median == MedianSpacing(s)
        ended[m \in 0 .. Scanned] ==
            IF m = 0 THEN s ELSE Silence(ended[m - 1], kids, median, rest, m)
    IN ended[Scanned]

\* A variant: with no sample yet, a span after the rest's start.
EarliestPointAfter(r, rest, g) ==
    IF LastSample(r) = NoTime THEN rest + g.span ELSE Pending(r)

\* earliest_point: the first point a member can still give.
EarliestPoint(r, rest, g) ==
    IF LastSample(r) = NoTime THEN AtLeast(rest - (g.span + g.step), 0) ELSE Pending(r)

\* points_before
PointsBefore(g, t) ==
    IF t <= g.start THEN 0
    ELSE Min({(t - g.start + g.step - 1) \div g.step, Len(Ticks(g))})

\* GroupFlush::feed: the blocks no member can add to any more.
Final(s, rest) ==
    LET waits == {EarliestPoint(s.rates[m], rest, scene.grid) : m \in All} \ {NoTime}
        held  == {scene.grid.start + i * scene.grid.step : i \in First(s)}
    IN (IF waits \cup held = {} THEN Len(Ticks(scene.grid))
        ELSE PointsBefore(scene.grid, Min(waits \cup held))) \div Block

-----------------------------------------------------------------------------
(* The joined scan and the loop. *)

Scanning(m) == child[m].state \in {"unread", "at"}

KeyOf(m) == IF child[m].at = NoTime THEN 0 ELSE child[m].at

NextScan(m) ==
    /\ phase = "reading" /\ Scanning(m)
    /\ \A o \in All : Scanning(o) =>
          IF o < m THEN KeyOf(m) < KeyOf(o) ELSE KeyOf(m) <= KeyOf(o)

RestOfJoined(kids) ==
    LET open == {m \in All : kids[m].state \in {"unread", "at"}}
    IN IF open = {} \/ \E m \in open : kids[m].at = NoTime THEN NoTime
       ELSE Min({kids[m].at : m \in open})

UInit ==
    /\ scene \in Scenes
    /\ child = [m \in All |-> [read |-> 0, at |-> NoTime, state |-> "unread"]]
    /\ closed = {}
    /\ st = [rates   |-> [m \in All |-> NewRate(GridOf(m))],
             tracks  |-> [m \in Combined |-> NewTrack(IntervalOf(m),
                             Before(m), After(m))],
             pending |-> [m \in Combined |-> <<>>],
             cmp     |-> [m \in Combined |-> [held |-> {}, last |-> NoTime, ended |-> FALSE]],
             found |-> {}, points |-> <<>>, early |-> {}, resumed |-> FALSE]
    /\ fed = 0
    /\ phase = "reading"

\* A scan with nothing left is reported with the next chunk.
ScanEnds(m) ==
    /\ NextScan(m)
    /\ child[m].read = Segments(m)
    /\ child' = [child EXCEPT ![m].state = "done"]
    /\ closed' = closed \cup {m}
    /\ UNCHANGED <<scene, st, fed, phase>>

\* A display query ends the silent members and gives away the final blocks.
Flush(s, kids, rest) ==
    LET q == Silenced(s, kids, rest)
    IN IF ~scene.display \/ rest = NoTime THEN st' = s /\ UNCHANGED <<fed, phase>>
       ELSE IF s.resumed THEN st' = s /\ phase' = "abandoned" /\ UNCHANGED fed
       ELSE st' = q /\ fed' = AtLeast(fed, Final(q, rest)) /\ UNCHANGED phase

Chunk(m, n) ==
    /\ NextScan(m)
    /\ child[m].read < Segments(m)
    /\ LET to   == Min({child[m].read + n, Segments(m)})
           rows == SegmentRows(m, child[m].read + 1, to)
           at   == IF scene.spans /\ to < Segments(m) THEN SegmentStart(m, to + 1) ELSE NoTime
           kids == [child EXCEPT ![m] = [read |-> to, at |-> at, state |-> "at"]]
           rest == RestOfJoined(kids)
       IN /\ child' = kids
          /\ closed' = {}
          /\ Flush(ReadChunk(st, m, rows, rest), kids, rest)
    /\ UNCHANGED scene

RatesFinished(s) ==
    LET rated[m \in 0 .. Scanned] ==
            IF m = 0 THEN s
            ELSE Emitted(rated[m - 1], m, FinishRate(rated[m - 1].rates[m], GridOf(m)))
    IN rated[Scanned]

\* The scan is over: every rate and track finished, every held point passed.
FinishRead ==
    /\ phase = "reading" /\ \A m \in All : ~Scanning(m)
    /\ LET over == [RatesFinished(st) EXCEPT !.tracks = [m \in Combined |-> FinishTrack(@[m])]]
       IN IF st.resumed THEN phase' = "abandoned" /\ UNCHANGED st
          ELSE phase' = "done" /\ st' = SettleAll(over)
    /\ UNCHANGED <<scene, child, closed, fed>>

UNext ==
    \/ \E m \in All : ScanEnds(m) \/ \E n \in ChunkSegments : Chunk(m, n)
    \/ FinishRead

USpec == UInit /\ [][UNext]_uvars

-----------------------------------------------------------------------------
(* What the members read whole give: combine_series. *)

\* The rows a member's read records, with those on either side of it.
Recorded(m) ==
    LET held == Range(Before(m)) \cup Range(Reads(m)) \cup Range(After(m))
    IN Runs(SelectSeq([t \in 1 .. Max(held \cup {0}) |-> t], LAMBDA t : t \in held))

CombinedPoints ==
    LET runs   == [m \in Combined |-> Recorded(m)]
        points == [m \in Combined |-> RatePoints(Reads(m), GridOf(m))]
        at(m, i) == SelectSeq(points[m], LAMBDA p : p.index = i)
        one(i) ==
            LET t    == Ticks(scene.grid)[i]
                pick == Pick({m \in Combined : at(m, i - 1) # <<>>},
                   [m \in Combined |-> CoversAt(runs[m], IntervalOf(m), t, Window)],
                   [m \in Combined |-> HoldsAt(runs[m], IntervalOf(m), t)])
            IN IF pick = 0 THEN <<>>
               ELSE <<[unit |-> 0, index |-> i - 1, by |-> pick, point |-> at(pick, i - 1)[1].point]>>
    IN FlattenSeq([i \in DOMAIN Ticks(scene.grid) |-> one(i)])

\* A batched read that finishes has the points of the members read whole and
\* combined: each from the member the union's rules choose, with the samples
\* and acquisition windows its own rate has there, however the chunks fell,
\* whatever was trimmed, settled early or ended as silent on the way; and a
\* recording that is no group's member has its own (the docs of UnionStage
\* and of SeriesRate, and per_source.rs' rules S3 and S9).
AnswersAsTheUnion ==
    phase = "done" =>
        /\ SelectSeq(st.points, LAMBDA p : p.unit = 0) = CombinedPoints
        /\ \A m \in All \ Combined :
              LET mine  == SelectSeq(st.points, LAMBDA p : p.unit = m)
                  whole == RatePoints(Reads(m), GridOf(m))
              IN [i \in DOMAIN mine |-> [index |-> mine[i].index, point |-> mine[i].point]] = whole

\* A batched read that finishes has found every row two sources hold at one
\* time with different values, and no other, although it holds a row only
\* until every other source has read past it (the doc of StageCompare, S4).
ConflictsAreFound ==
    phase = "done" =>
        st.found = {<<{p[1], p[2]}, p[3]>> : p \in
            {q \in Combined \X Combined \X scene.differs :
                q[1] # q[2] /\ q[3] \in Range(Reads(q[1])) \cap Range(Reads(q[2]))}}

\* No point is added to a block of a group's points that was already given
\* to the group's reducer: it would be lost (the comment on flush in
\* grid_rates, earliest_point).
BlocksAreFinal ==
    [][\A i \in Len(st.points) + 1 .. Len(st'.points) :
          st'.points[i].index \div Block >= fed]_uvars
=============================================================================
