------------------------------ MODULE GridRate ------------------------------
(***************************************************************************)
(* One series' rate on the evaluation grid.                                *)
(*                                                                         *)
(* RateAt says what the point at a grid time is, from all the samples of   *)
(* the series: what CounterGridRate (metriken-query/src/promql/streaming/  *)
(* rate.rs) gives.  Push and Finish compute the same points from samples   *)
(* handed over one at a time, keeping only those a later point can need:   *)
(* SeriesRate (metriken-query/src/batch_rate.rs).                          *)
(*                                                                         *)
(* A value at an edge is named by the samples it is interpolated between,  *)
(* by index: <<i, i>> at sample i, <<i, i + 1>> between two; <<>> is none. *)
(* A grid is a record [start, end, step, span, range, reach].              *)
(***************************************************************************)
EXTENDS Integers, Sequences, SequencesExt, FiniteSetsExt, Folds

CONSTANT Probe              \* SPACING_PROBE: the samples the typical spacing is of

NoTime == -1

AtLeast(a, b) == IF a > b THEN a ELSE b

Ticks(g) == [i \in 1 .. 1 + (g.end - g.start) \div g.step |-> g.start + (i - 1) * g.step]

IndexOf(g, t) == (t - g.start) \div g.step

Middle(gaps) == SortSeq(gaps, <)[1 + Len(gaps) \div 2]

\* The typical spacing: the median of the first samples' gaps.
Typical(times) ==
    LET first == SubSeq(times, 1, Min({Probe, Len(times)}))
        gaps  == [i \in 1 .. Len(first) - 1 |-> first[i + 1] - first[i]]
    IN IF gaps = <<>> THEN 1 ELSE AtLeast(Middle(gaps), 1)

\* Where a window of the grid starts: a span before t, at zero for a rate
\* that reaches before it, nowhere for an irate.
LeftOf(g, t) == IF t >= g.span THEN t - g.span ELSE IF g.range THEN 0 ELSE NoTime

\* Past the last sample: held at it when it is within the typical spacing of
\* the grid's end, nothing otherwise.
HeldWindow(g, t, last, typical) ==
    IF AtLeast(g.end - last, 0) <= typical
    THEN <<last, AtLeast(last - (t - LeftOf(g, t)), 0)>>
    ELSE <<>>

\* range_start: from `from` when a sample is within reach before it, else
\* from the first sample after it, if one is before `at`.
RangeStart(times, from, at, reach) ==
    LET n == Len(SelectSeq(times, LAMBDA t : t <= from))
    IN IF n > 0 /\ from - times[n] <= reach THEN from
       ELSE IF n < Len(times) /\ times[n + 1] < at THEN times[n + 1]
       ELSE NoTime

-----------------------------------------------------------------------------
(* The definition: the point at t, from every sample. *)

\* The samples an edge is interpolated between.  Of samples at one time, a
\* left edge is the last one and a right edge the first.
EdgeOf(times, e, left) ==
    LET at == {i \in DOMAIN times : times[i] = e}
        lo == {i \in DOMAIN times : times[i] < e}
        hi == {i \in DOMAIN times : times[i] > e}
    IN IF at # {} THEN LET i == IF left THEN Max(at) ELSE Min(at) IN <<i, i>>
       ELSE IF lo = {} \/ hi = {} THEN <<>> ELSE <<Max(lo), Min(hi)>>

\* A read describes the edge: it is at a sample, or between two that are no
\* hole apart.
Described(times, edge) ==
    times[edge[2]] - times[edge[1]] <= 2 * Typical(times)

\* CounterGridRate::next on the grid: what there is at t, as a sequence of
\* at most one point.
RateAt(times, g, t) ==
    LET last   == times[Len(times)]
        window == IF t > last THEN HeldWindow(g, t, last, Typical(times))
                  ELSE <<t, LeftOf(g, t)>>
        from   == IF ~g.range THEN window[2]
                  ELSE RangeStart(times, window[2], window[1], g.reach)
        left   == EdgeOf(times, from, TRUE)
        right  == EdgeOf(times, window[1], FALSE)
    IN IF \/ Len(times) < 2 \/ LeftOf(g, t) = NoTime \/ window = <<>>
       THEN <<>>
       ELSE IF from = NoTime \/ left = <<>> \/ right = <<>> \/ from >= window[1] THEN <<>>
       ELSE <<[left |-> left, right |-> right,
               read |-> Described(times, left) /\ Described(times, right)]>>

\* All of a series' points, in order: <<index, point>>.
RatePoints(times, g) ==
    FlattenSeq([i \in DOMAIN Ticks(g) |->
        LET p == RateAt(times, g, Ticks(g)[i])
        IN IF p = <<>> THEN <<>> ELSE <<[index |-> i - 1, point |-> p[1]]>>])

-----------------------------------------------------------------------------
(* SeriesRate: the same, one sample at a time. *)

NoEdge == [at |-> NoTime, samples |-> <<>>, read |-> FALSE]

\* SeriesRate::new
NewRate(g) ==
    [probe |-> <<>>, settled |-> FALSE, typical |-> 1, pulled |-> 0,
     first |-> NoTime, last |-> NoTime, kept |-> <<>>, cursor |-> g.start,
     done |-> FALSE, edge |-> NoEdge, out |-> <<>>]

LastSample(r) ==
    IF r.settled THEN r.last
    ELSE IF r.probe = <<>> THEN NoTime ELSE r.probe[Len(r.probe)]

\* spacing_ns: the typical spacing, or the mean while probing.
SpacingOf(r) ==
    LET n == Len(r.probe)
    IN IF r.settled THEN r.typical
       ELSE IF n < 2 THEN NoTime ELSE (r.probe[n] - r.probe[1]) \div (n - 1)

\* pending_ns
Pending(r) == IF r.done THEN NoTime ELSE r.cursor

\* A variant: the last sample at or before the left edge goes too.
TrimPast(kept, left) ==
    LET n == Len(SelectSeq(kept, LAMBDA k : k.ts <= left))
    IN IF n >= Len(kept) THEN <<kept[Len(kept)]>> ELSE SubSeq(kept, n + 1, Len(kept))

\* trim: the samples before the last one at or before the left edge go.
Trim(kept, left) ==
    LET n == Len(SelectSeq(kept, LAMBDA k : k.ts <= left))
    IN IF n < 2 THEN kept ELSE SubSeq(kept, n, Len(kept))

\* edge: from the samples kept.
EdgeAt(r, e) ==
    LET n  == Len(SelectSeq(r.kept, LAMBDA k : k.ts < e))
        hi == r.kept[n + 1]
        lo == r.kept[n]
    IN IF e < r.first \/ e > r.last \/ n = Len(r.kept) THEN NoEdge
       ELSE IF hi.ts = e THEN [at |-> e, samples |-> <<hi.id, hi.id>>, read |-> TRUE]
       ELSE IF n = 0 THEN NoEdge
       ELSE [at |-> e, samples |-> <<lo.id, hi.id>>,
             read |-> ~(r.pulled >= 2 /\ hi.ts - lo.ts > 2 * r.typical)]

\* The left edge of a window: the last window's right edge when it is there.
CachedEdge(r, e) == IF r.edge.at = e THEN r.edge ELSE EdgeAt(r, e)

\* The point of a window, emitted at t.
Evaluate(r, g, t, at, from) ==
    LET q     == [r EXCEPT !.kept = Trim(r.kept, from)]
        left  == CachedEdge(q, from)
        right == EdgeAt(q, at)
    IN [q EXCEPT
          !.edge = IF right = NoEdge THEN [NoEdge EXCEPT !.at = at] ELSE right,
          !.out  = IF left.samples = <<>> \/ right.samples = <<>> \/ from >= at THEN @
                   ELSE Append(@, [index |-> IndexOf(g, t),
                                   point |-> [left |-> left.samples, right |-> right.samples,
                                              read |-> left.read /\ right.read]])]

\* One turn of advance's loop, at the cursor's grid point.
AdvanceTo(r, g, exhausted, t) ==
    LET q      == [r EXCEPT !.cursor = @ + g.step]
        past   == exhausted /\ r.last # NoTime /\ t > r.last
        window == IF ~past THEN <<t, LeftOf(g, t)>>
                  ELSE IF r.pulled < 2 THEN <<>> ELSE HeldWindow(g, t, r.last, r.typical)
        from   == IF ~g.range THEN window[2]
                  ELSE RangeStart([i \in DOMAIN r.kept |-> r.kept[i].ts],
                                  window[2], window[1], g.reach)
        short  == r.kept = <<>> \/ r.kept[Len(r.kept)].ts < t
    IN IF r.done \/ r.cursor # t \/ (~exhausted /\ short) THEN r
       ELSE IF LeftOf(g, t) = NoTime THEN q
       ELSE IF window = <<>> THEN [q EXCEPT !.done = TRUE]
       ELSE IF from = NoTime THEN q
       ELSE Evaluate(q, g, t, window[1], from)

Advance(r, g, exhausted) ==
    LET q == FoldLeft(LAMBDA x, t : AdvanceTo(x, g, exhausted, t), r, Ticks(g))
    IN IF q.cursor > g.end THEN [q EXCEPT !.done = TRUE] ELSE q

\* ingest: a second sample at the cached edge's time takes the edge away.
Ingest(r, ts) ==
    [r EXCEPT !.edge   = IF @.at = ts THEN NoEdge ELSE @,
              !.first  = IF @ = NoTime THEN ts ELSE @,
              !.last   = ts,
              !.pulled = @ + 1,
              !.kept   = Append(@, [ts |-> ts, id |-> r.pulled + 1])]

\* settle: the spacing is known, and the samples probed are taken in.
Settle(r, g) ==
    LET q == [r EXCEPT !.settled = TRUE, !.typical = Typical(r.probe), !.probe = <<>>]
    IN IF Len(r.probe) < 2 THEN [q EXCEPT !.done = TRUE]
       ELSE FoldLeft(LAMBDA x, ts : Advance(Ingest(x, ts), g, FALSE), q, r.probe)

\* push
Push(r, g, ts) ==
    IF r.done THEN r
    ELSE IF r.settled THEN Advance(Ingest(r, ts), g, FALSE)
    ELSE LET q == [r EXCEPT !.probe = Append(@, ts)]
         IN IF Len(q.probe) = Probe THEN Settle(q, g) ELSE q

\* finish
FinishRate(r, g) ==
    LET q == IF r.settled THEN r ELSE Settle(r, g)
    IN Advance(q, g, TRUE)
=============================================================================
