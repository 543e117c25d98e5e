--------------------------- MODULE MCArchiveReads ---------------------------
(* What answers queries of an archive, one at a time: the spliced reads of  *)
(* segments, and the batched rates of a union of sources.                   *)
EXTENDS SplicedReads, BatchedUnion
VARIABLE part

-----------------------------------------------------------------------------
(* Spliced reads. *)
\* Two columns over two times; a segment may lack one, and a span.
Segs(lo, spans, second) ==
    LET c1 == {[col |-> "c1", times |-> {}, windowed |-> TRUE]}
              \cup {[col |-> "c1", times |-> T, windowed |-> w] :
                      T \in {{lo}, {lo, lo + 1}}, w \in BOOLEAN}
        c2 == {[col |-> "c2", times |-> second, windowed |-> TRUE]}
    IN {[cols |-> cs, span |-> <<lo, lo + 1>>] :
           cs \in {<<a, b>> : a \in c1, b \in c2} \cup {<<a>> : a \in c1}}
       \cup {[cols |-> <<a, b>>, span |-> <<>>] :
               a \in {c \in c1 : c.windowed /\ ~spans}, b \in c2}
Small(lo) ==
    {s \in Segs(lo, TRUE, {lo + 1}) : Len(s.cols) = 1 /\ s.cols[1].windowed}
MCTables ==
    {<< <<a, b>> >> : a \in Segs(1, TRUE, {2}), b \in Segs(3, FALSE, {3, 4})}
    \cup {<< <<a, b, c>> >> : a \in Small(3), b \in Small(5), c \in Small(1)}
    \cup {<< <<a, b>>, <<c>> >> : a \in Small(1), b \in Small(5), c \in Small(3)}
    \cup {<< <<a, b>>, <<c, d>> >> : a \in Small(1), b \in Small(5), c \in Small(3), d \in Small(7)}
Fixed(a, b) ==
    [fixed |-> TRUE,
     at |-> [c \in Columns |-> [t \in Times |-> IF c = "c1" THEN a ELSE b]],
     identities |-> [c \in Columns |-> IF c = "c1" THEN {a} ELSE {b}]]
\* Two occupants that change places twice.
Swap ==
    [fixed |-> FALSE,
     at |-> [c \in Columns |-> [t \in Times |->
                IF (t \in {2, 3}) = (c = "c1") THEN "x" ELSE "y"]],
     identities |-> [c \in Columns |-> {"x", "y"}]]
MCRelabels == {Fixed("c1", "c2"), Fixed("x", "x"), Fixed("x", "c2"), Swap}
MCQueries == {[accepts |-> {"x", "c1"}, from |-> 2, to |-> 9],
              [accepts |-> SeriesLabels, from |-> 2, to |-> 3]}

-----------------------------------------------------------------------------
(* Batched unions. *)

InOrder(S) == SelectSeq([t \in 1 .. 20 |-> t], LAMBDA t : t \in S)

MemberOf(R, interval) == [rows |-> InOrder(R), interval |-> interval]

\* Rows at every time, every other, with a hole, ending, starting late.
Patterns == {1 .. 16, {2, 4, 6, 8, 10, 12, 14, 16}, 1 .. 5 \cup 11 .. 16, 1 .. 8, 9 .. 16,
             {3, 4, 7, 8, 9, 13}}

MCGrids == {[start |-> 8, end |-> 13, step |-> 1, span |-> 3, range |-> TRUE, reach |-> 0],
          [start |-> 6, end |-> 13, step |-> 2, span |-> 2, range |-> FALSE, reach |-> 0],
          [start |-> 4, end |-> 14, step |-> 1, span |-> 1, range |-> FALSE, reach |-> 0]}

Flags == {<<FALSE, TRUE, TRUE>>, <<FALSE, TRUE, FALSE>>, <<TRUE, TRUE, TRUE>>, <<TRUE, FALSE, TRUE>>}

MCScenes ==
    {[grid |-> g, display |-> f[1], says |-> f[2], spans |-> f[3],
      members |-> <<MemberOf(p, 1), MemberOf(q, 2)>>,
      differs |-> {6, 8, 9, 12},
      single |-> IF f[1] THEN <<MemberOf({10, 11, 12, 15}, 1)>> ELSE <<>>] :
        <<g, f>> \in {<<h, e>> \in MCGrids \X Flags : h.range \/ e[3]},
        p \in Patterns, q \in Patterns}

-----------------------------------------------------------------------------
FirstOf(S) == CHOOSE x \in S : TRUE

\* The table and the scene of the part that is not looked at.
EmptySegment == [cols |-> <<[col |-> "c1", times |-> {}, windowed |-> TRUE]>>, span |-> <<1, 2>>]
IdleTable == CHOOSE t \in MCTables : Len(t) = 1 /\ t[1][1] = EmptySegment
IdleScene == FirstOf(MCScenes)

MCInit ==
    \/ part = "splice" /\ SRInit /\ scene = IdleScene /\ UInit
    \/ /\ part = "union"
       /\ table = IdleTable /\ relabel = Fixed("c1", "c2")
       /\ asked = FirstOf(MCQueries) /\ SRInit /\ gone = {}
       /\ UInit

MCNext ==
    /\ UNCHANGED part
    /\ \/ part = "splice" /\ SRNext /\ UNCHANGED uvars
       \/ part = "union"  /\ UNext  /\ UNCHANGED srvars

MCSpec == MCInit /\ [][MCNext]_<<part, srvars, uvars>>
=============================================================================
