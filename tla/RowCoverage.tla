---------------------------- MODULE RowCoverage -----------------------------
(***************************************************************************)
(* Which stretches of time a source's rows cover (rule S3, metriken-query  *)
(* /src/promql/streaming/per_source.rs): the runs of all its rows, and the *)
(* RowTrack that decides them while the rows arrive, looking no more than  *)
(* Side rows ahead and keeping no more than it needs.                      *)
(***************************************************************************)
EXTENDS Integers, Sequences, SequencesExt, FiniteSetsExt, Folds

CONSTANT Side               \* SIDE: the gaps looked at on either side of a gap

GapMedian(gaps) == SortSeq(gaps, <)[1 + Len(gaps) \div 2]

\* A gap is a hole when it is longer than twice the larger of the medians of
\* the gaps before it and after it.
IsHole(before, gap, after) ==
    LET medians == {GapMedian(s) : s \in {before, after} \ {<<>>}}
    IN medians # {} /\ gap > 2 * Max(medians)

Slice(s, from, to) == SubSeq(s, Max({from, 1}), Min({to, Len(s)}))

\* runs: the rows between holes, as <<first, last>>.
Runs(rows) ==
    LET gaps == [i \in 1 .. Len(rows) - 1 |-> rows[i + 1] - rows[i]]
        hole(i) == IsHole(Slice(gaps, i - Side, i - 1), gaps[i], Slice(gaps, i + 1, i + Side))
        ends == SelectSeq([i \in DOMAIN rows |-> i], LAMBDA i : i = Len(rows) \/ hole(i))
    IN [k \in DOMAIN ends |->
          <<rows[IF k = 1 THEN 1 ELSE ends[k - 1] + 1], rows[ends[k]]>>]

\* run_at: the run a time is in, up to an interval past its last row.
RunAt(rs, interval, t) ==
    LET n == Len(SelectSeq(rs, LAMBDA r : r[1] <= t))
    IN IF n > 0 /\ t <= rs[n][2] + interval THEN <<rs[n]>> ELSE <<>>

HoldsAt(rs, interval, t) == RunAt(rs, interval, t) # <<>>

\* covers: one run holds the whole window.
CoversAt(rs, interval, t, window) ==
    LET run == RunAt(rs, interval, t)
    IN run # <<>> /\ t - window >= run[1][1]

-----------------------------------------------------------------------------
(* RowTrack *)

NewTrack(interval, before, after) ==
    [interval |-> interval, before |-> before, after |-> after, rows |-> <<>>,
     base |-> 0, count |-> 0, decided |-> 0, runs |-> <<>>, finished |-> FALSE,
     smallest |-> -1]

RowOf(tr, k) == tr.rows[k - tr.base + 1]

GapOf(tr, k) == RowOf(tr, k + 1) - RowOf(tr, k)

\* advance: the rows before those the next decision needs go.
Decided(tr) ==
    LET base == Max({tr.base, tr.decided + 1 - Side})
    IN [tr EXCEPT !.decided = @ + 1, !.base = base,
                  !.rows = SubSeq(@, base - tr.base + 1, Len(@))]

\* One turn of decide's loop: the next gap, once Side gaps after it are known
\* or there are no more.
DecideOne(tr) ==
    LET k      == tr.decided
        gaps(a, b) == [i \in 1 .. b - a + 1 |-> GapOf(tr, a + i - 1)]
        before == gaps(Max({k - Side, 0}), k - 1)
        after  == gaps(k + 1, Min({k + Side, tr.count - 2}))
        next   == RowOf(tr, k + 1)
        small  == k > 0 /\ GapOf(tr, k) <= 2 * tr.smallest
    IN IF k + 1 >= tr.count \/ (~tr.finished /\ tr.count - 2 - k < Side) THEN tr
       ELSE IF ~small /\ IsHole(before, GapOf(tr, k), after)
       THEN Decided([tr EXCEPT !.runs = Append(@, <<next, next>>)])
       ELSE Decided([tr EXCEPT !.runs[Len(tr.runs)][2] = next])

Decide(tr) == FoldLeft(LAMBDA x, i : DecideOne(x), tr, [i \in 1 .. tr.count |-> i])

\* accept: a row at or before the last one is none.
Accept(tr, ts) ==
    LET last == tr.rows[Len(tr.rows)]
        gap  == ts - last
    IN IF tr.rows = <<>>
       THEN Decide([tr EXCEPT !.rows = <<ts>>, !.count = 1, !.runs = <<<<ts, ts>>>>])
       ELSE IF ts <= last THEN tr
       ELSE Decide([tr EXCEPT !.rows = Append(@, ts), !.count = @ + 1,
                              !.smallest = IF @ = -1 \/ gap < @ THEN gap ELSE @])

\* The rows on either side of the scan before ts.
Drained(tr, ts) ==
    LET b == SelectSeq(tr.before, LAMBDA x : x < ts)
        a == SelectSeq(tr.after, LAMBDA x : x < ts)
        q == [tr EXCEPT !.before = SubSeq(@, Len(b) + 1, Len(@)),
                        !.after = SubSeq(@, Len(a) + 1, Len(@))]
    IN FoldLeft(Accept, q, b \o a)

\* push
PushRow(tr, ts) == Accept(Drained(tr, ts), ts)

\* finish
FinishTrack(tr) ==
    LET q == FoldLeft(Accept, [tr EXCEPT !.before = <<>>, !.after = <<>>],
                      tr.before \o tr.after)
    IN Decide([q EXCEPT !.finished = TRUE])



\* ready: the rows up to the first after t are known, and the gap before it
\* decided.
Ready(tr, t) == tr.finished \/ (tr.count > 0 /\ t < RowOf(tr, tr.decided))

\* forget_before: the runs no answer at or after t reads go.
ForgetBefore(tr, t) ==
    LET n    == Len(tr.runs)
        gone == {i \in 1 .. n - 1 : \A j \in 1 .. i :
                    tr.runs[j][2] + tr.interval < t /\ tr.runs[j + 1][1] <= t}
    IN [tr EXCEPT !.runs = SubSeq(@, Max(gone \cup {0}) + 1, n)]
=============================================================================
