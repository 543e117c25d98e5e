------------------------ MODULE StreamedSourceProofs ------------------------
(***************************************************************************)
(* Theorems about one streamed endpoint of a Recorder, for any processes,  *)
(* names, frames, reconnections, capacity of the stream channel, and       *)
(* failures of the archive.                                                *)
(*                                                                         *)
(* The inductive invariant SSInv has these parts, beside the types.  Wired *)
(* keeps every process that is spoken of one that started.  Ordered and    *)
(* Chained say what travels the stream channel: stamps above every stamp   *)
(* taken, and events of one connection until the next `connected`.         *)
(* RowsNamed keeps the rows of the recording in hand to the producer on    *)
(* record.  TakenRows accounts for every row taken, Ended for how it ends. *)
(* Spanned is about the entries a reader will split the recording by:      *)
(* those written, followed by the restarts still waiting.                  *)
(***************************************************************************)
EXTENDS StreamedSource, SequenceTheorems, FiniteSetTheorems, TLAPS

-----------------------------------------------------------------------------
(* The invariant.                                                          *)

InHand == recordings[Len(recordings)]
\* The entries of the recording in hand once the restarts are written, and
\* its rows once those staged are committed.
Entries == InHand.entries \o restarts
RowsInHand == InHand.rows \cup {[ts |-> s.ts, proc |-> s.proc] : s \in staged}

\* The restarts that have a row come before those that wait for one.
InOrder ==
    \E n \in 0..Len(restarts) : \A i \in DOMAIN restarts : HasRow(restarts[i]) <=> i <= n

Wired ==
    /\ recordings # <<>>
    /\ InOrder
    /\ pump = "down" => opened < MaxReconnects
    /\ peer <= Len(procs) /\ epoch <= Len(procs)
    /\ \A i \in DOMAIN stream : stream[i].proc <= Len(procs)
    /\ \A s \in staged : s.rec = Len(recordings) /\ s.proc <= Len(procs)
    /\ \A r \in DOMAIN recordings : \A w \in recordings[r].rows : w.proc <= Len(procs)

\* What is in the channel is later than what was taken from it, and in order.
Ordered ==
    /\ \A i \in DOMAIN stream :
          /\ stream[i].ts <= frames
          /\ stream[i].ts # NoStamp => \A t \in taken : t < stream[i].ts
    /\ \A i, j \in DOMAIN stream :
          i < j /\ stream[i].ts # NoStamp /\ stream[j].ts # NoStamp
              => stream[i].ts < stream[j].ts
    /\ \A t \in taken : t <= frames

\* An event that is no `connected` is of the process before it.
Before(i) == IF i = 1 THEN epoch ELSE stream[i - 1].proc
Chained ==
    archive = "open" =>
        /\ \A i \in DOMAIN stream :
              stream[i].kind # "connected" => stream[i].proc = Before(i)
        /\ peer = Before(Len(stream) + 1)

\* A recording's rows, those staged for it too; two that name producers
\* name the same one.
AllRows(r) == IF r = Len(recordings) THEN RowsInHand ELSE recordings[r].rows
Agree(rows) ==
    \A v, w \in rows : procs[v.proc] = procs[w.proc] \/ NoName \in {procs[v.proc], procs[w.proc]}

RowsNamed ==
    /\ procs[epoch] \in {NoName, producer}
    /\ ~stopping =>
          /\ added => \A w \in RowsInHand : procs[w.proc] \in {NoName, producer}
          /\ \A r \in DOMAIN recordings : Agree(AllRows(r))

\* Every row taken is in a recording, or staged for one.
TakenRows == taken = UNION {{w.ts : w \in AllRows(r)} : r \in DOMAIN recordings}
Ended ==
    /\ pc # "stopped" => (failed <=> archive # "open")
    /\ pc = "finalize" => staged = {} /\ ~failed
    /\ result # "none" => pc = "stopped"
    /\ result = "ok" => staged = {} /\ ~failed /\ InHand.final

\* Entries in order, the first one of no stamp, those without a row last.
Sorted(E) ==
    /\ E # <<>> /\ E[1].from = NoStamp
    /\ \A i, j \in DOMAIN E :
          i < j /\ HasRow(E[j]) => E[i].from <= E[j].from /\ (i = 1 \/ HasRow(E[i]))
\* The last entry at or before the row's stamp is of the row's process.
Reads(E, w) ==
    \E i \in DOMAIN E :
        /\ E[i].epoch = w.proc /\ E[i].from <= w.ts
        /\ i = 1 \/ HasRow(E[i])
        /\ \A j \in DOMAIN E : j > i /\ HasRow(E[j]) => w.ts < E[j].from

Current ==
    /\ added
    /\ InHand.entries # <<>>
    /\ \A i \in DOMAIN InHand.entries : i = 1 \/ HasRow(InHand.entries[i])
    /\ Sorted(Entries)
    /\ \A i \in DOMAIN Entries : HasRow(Entries[i]) => Entries[i].from \in taken
    /\ Entries[Len(Entries)].epoch = epoch
    /\ \A w \in RowsInHand : Reads(Entries, w)

Spanned ==
    /\ \A r \in 1..(Len(recordings) - 1) : RowsReadRight(recordings[r])
    /\ Usable => Current

SSInv == SSTypeOK /\ Wired /\ Ordered /\ Chained /\ RowsNamed /\ TakenRows /\ Ended /\ Spanned

-----------------------------------------------------------------------------
(* The entries a reader splits a recording by.                             *)

LEMMA ConcatAt ==
    ASSUME NEW S, NEW s \in Seq(S), NEW t \in Seq(S)
    PROVE  /\ s \o t \in Seq(S)
           /\ Len(s \o t) = Len(s) + Len(t)
           /\ \A i \in DOMAIN s : i \in DOMAIN (s \o t) /\ (s \o t)[i] = s[i]
           /\ \A i \in DOMAIN t : /\ Len(s) + i \in DOMAIN (s \o t)
                                  /\ (s \o t)[Len(s) + i] = t[i]
           /\ \A k \in DOMAIN (s \o t) :
                  \/ k \in DOMAIN s
                  \/ k - Len(s) \in DOMAIN t /\ k = Len(s) + (k - Len(s)) /\ k > Len(s)
  BY ConcatProperties, LenProperties

LEMMA Bounds ==
    /\ {MaxProcs, MaxFrames, MaxReconnects, StreamCap, FetchAttempts} \subseteq Nat \ {0}
    /\ MaxPanics \in Nat /\ NoName \notin Names
    /\ Stamps \subseteq Nat \ {0} /\ NoStamp = 0 /\ Procs \subseteq Nat \ {0} /\ 1 \in Procs
<1>1. MaxFrames \in Nat /\ MaxProcs \in Nat \ {0}
  BY StreamedSourceAssumption
<1> QED  BY <1>1, StreamedSourceAssumption DEF Stamps, NoStamp, Procs

LEMMA RestartFields ==
    ASSUME NEW E \in Seq(Restart)
    PROVE  /\ DOMAIN E = 1..Len(E) /\ Len(E) \in Nat
           /\ \A i \in DOMAIN E : /\ E[i] \in Restart /\ E[i].from \in Nat
                                  /\ E[i].epoch \in Procs
<1>1. /\ DOMAIN E = 1..Len(E) /\ Len(E) \in Nat
      /\ \A i \in DOMAIN E : E[i] \in Restart
  BY LenProperties, ElementOfSeq
<1>2. \A x \in Restart : x.from \in Stamps \cup {NoStamp} /\ x.epoch \in Procs
  BY DEF Restart
<1>3. Stamps \cup {NoStamp} \subseteq Nat
  BY Bounds
<1> QED  BY <1>1, <1>2, <1>3

\* The entry SpanOf chooses is the one Reads finds.
LEMMA ReadsIsSpan ==
    ASSUME NEW E \in Seq(Restart), Sorted(E),
           \A i \in DOMAIN E : i = 1 \/ HasRow(E[i]),
           NEW w \in Row, Reads(E, w)
    PROVE  SpanOf(E, w.ts).epoch = w.proc
<1>1. PICK i \in DOMAIN E : /\ E[i].epoch = w.proc /\ E[i].from <= w.ts
                            /\ \A j \in DOMAIN E : j > i => w.ts < E[j].from
  BY LenProperties DEF Reads
<1> DEFINE Chosen(k) == /\ E[k].from <= w.ts
                        /\ \A j \in DOMAIN E :
                              E[j].from <= w.ts =>
                                  \/ E[j].from < E[k].from
                                  \/ E[j].from = E[k].from /\ j <= k
<1>2. /\ DOMAIN E = 1..Len(E) /\ Len(E) \in Nat /\ w.ts \in Nat
      /\ \A j \in DOMAIN E : E[j].from \in Nat
  BY RestartFields, Bounds DEF Row
<1>3. Chosen(i)
  <2> SUFFICES ASSUME NEW j \in DOMAIN E, E[j].from <= w.ts
               PROVE  E[j].from < E[i].from \/ (E[j].from = E[i].from /\ j <= i)
    BY <1>1
  <2>1. j <= i
    BY <1>1, <1>2
  <2>2. CASE j = i
    BY <2>2, <1>2
  <2>3. CASE j < i
    <3>1. HasRow(E[i])
      BY <2>3, <1>2
    <3> QED  BY <3>1, <2>3, <1>2 DEF Sorted
  <2> QED  BY <2>1, <2>2, <2>3, <1>2
<1>4. ASSUME NEW k \in DOMAIN E, Chosen(k)  PROVE k = i
  <2>1. k <= i
    BY <1>1, <1>2, <1>4
  <2>2. E[i].from < E[k].from \/ (E[i].from = E[k].from /\ i <= k)
    BY <1>1, <1>4
  <2>3. E[k].from < E[i].from \/ (E[k].from = E[i].from /\ k <= i)
    BY <1>3, <1>4
  <2> QED  BY <2>1, <2>2, <2>3, <1>2
<1>5. (CHOOSE k \in DOMAIN E : Chosen(k)) = i
  <2> HIDE DEF Chosen
  <2> QED  BY <1>3, <1>4
<1>6. ~ (\A k \in DOMAIN E : E[k].from > w.ts)
  BY <1>1, <1>2
<1>7. SpanOf(E, w.ts) = E[CHOOSE k \in DOMAIN E : Chosen(k)]
  BY <1>6, Zenon DEF SpanOf
<1> QED  BY <1>7, <1>5, <1>1

\* A restart that waits for its row changes nothing that is read.
LEMMA AppendKeepsReads ==
    ASSUME NEW E \in Seq(Restart), Sorted(E), NEW p \in Procs
    PROVE  LET F == Append(E, [epoch |-> p, from |-> NoStamp])
           IN  /\ F \in Seq(Restart) /\ Sorted(F) /\ F[Len(F)].epoch = p
               /\ \A i \in DOMAIN F : HasRow(F[i]) => i \in DOMAIN E /\ F[i] = E[i]
               /\ \A w \in Row : Reads(E, w) => Reads(F, w)
<1> DEFINE x == [epoch |-> p, from |-> NoStamp]
           F == Append(E, x)
<1>1. x \in Restart /\ ~HasRow(x)
  BY DEF Restart, HasRow
<1>2. /\ F \in Seq(Restart) /\ Len(F) = Len(E) + 1 /\ F[Len(E) + 1] = x
      /\ DOMAIN F = 1..(Len(E) + 1) /\ DOMAIN E = 1..Len(E) /\ Len(E) \in Nat
      /\ \A i \in DOMAIN E : F[i] = E[i]
  BY <1>1, AppendProperties, LenProperties
<1>3. Sorted(F)
  BY <1>1, <1>2, EmptySeq DEF Sorted
<1>4. ASSUME NEW w \in Row, Reads(E, w)  PROVE Reads(F, w)
  <2>1. PICK i \in DOMAIN E : /\ E[i].epoch = w.proc /\ E[i].from <= w.ts
                              /\ i = 1 \/ HasRow(E[i])
                              /\ \A j \in DOMAIN E : j > i /\ HasRow(E[j]) => w.ts < E[j].from
    BY <1>4 DEF Reads
  <2> QED  BY <2>1, <1>1, <1>2 DEF Reads
<1> QED  BY <1>1, <1>2, <1>3, <1>4

\* The first row after the restarts is of the last of them, and is what
\* they all begin at.
LEMMA StampKeepsReads ==
    ASSUME NEW E \in Seq(Restart), Sorted(E), NEW F \in Seq(Restart),
           NEW ts \in Stamps, Len(F) = Len(E),
           \A i \in DOMAIN E :
               \/ F[i] = E[i] /\ (i = 1 \/ HasRow(E[i]))
               \/ ~HasRow(E[i]) /\ F[i].epoch = E[i].epoch /\ F[i].from = ts /\ i > 1,
           \A i \in DOMAIN E : HasRow(E[i]) => E[i].from < ts
    PROVE  /\ Sorted(F)
           /\ \A w \in Row : Reads(E, w) /\ w.ts < ts => Reads(F, w)
           /\ \A w \in Row : w.proc = E[Len(E)].epoch /\ w.ts = ts => Reads(F, w)
<1>1. /\ DOMAIN E = 1..Len(E) /\ DOMAIN F = DOMAIN E /\ Len(E) \in Nat /\ Len(E) > 0
      /\ ts \in Nat /\ ts # NoStamp /\ NoStamp = 0
      /\ \A i \in DOMAIN E : E[i].from \in Nat /\ F[i].from \in Nat
  BY RestartFields, Bounds, EmptySeq DEF Sorted
<1>2. F[1] = E[1]
  BY <1>1
<1>3. \A i \in DOMAIN E : HasRow(F[i]) => F[i].from <= ts
  BY <1>1 DEF HasRow
<1>4. ASSUME NEW i \in DOMAIN F, NEW j \in DOMAIN F, i < j, HasRow(F[j])
      PROVE  F[i].from <= F[j].from /\ (i = 1 \/ HasRow(F[i]))
  <2>1. CASE HasRow(E[j]) /\ F[j] = E[j]
    <3>1. E[i].from <= E[j].from /\ (i = 1 \/ HasRow(E[i]))
      BY <2>1, <1>1, <1>4 DEF Sorted
    <3> QED  BY <3>1, <2>1, <1>1, <1>4
  <2>2. CASE F[j].from = ts
    <3>1. i = 1 \/ HasRow(F[i])
      BY <1>1 DEF HasRow
    <3>2. F[i].from <= ts
      BY <1>1, <1>3 DEF HasRow
    <3> QED  BY <3>1, <3>2, <2>2
  <2>3. j # 1
    BY <1>1, <1>4
  <2> QED  BY <2>1, <2>2, <2>3, <1>1
<1>5. Sorted(F)
  BY <1>1, <1>2, <1>4, EmptySeq DEF Sorted
<1>6. ASSUME NEW w \in Row, Reads(E, w), w.ts < ts  PROVE Reads(F, w)
  <2>1. PICK i \in DOMAIN E : /\ E[i].epoch = w.proc /\ E[i].from <= w.ts
                              /\ i = 1 \/ HasRow(E[i])
                              /\ \A j \in DOMAIN E : j > i /\ HasRow(E[j]) => w.ts < E[j].from
    BY <1>6 DEF Reads
  <2>2. F[i] = E[i]
    BY <2>1, <1>1
  <2>3. ASSUME NEW j \in DOMAIN F, j > i, HasRow(F[j])  PROVE w.ts < F[j].from
    BY <2>1, <2>3, <1>1, <1>6
  <2> QED  BY <2>1, <2>2, <2>3, <1>1 DEF Reads
<1>7. ASSUME NEW w \in Row, w.proc = E[Len(E)].epoch, w.ts = ts  PROVE Reads(F, w)
  <2> DEFINE n == Len(E)
  <2>1. n \in DOMAIN F /\ F[n].epoch = w.proc /\ (n = 1 \/ HasRow(F[n])) /\ F[n].from <= w.ts
    BY <1>1, <1>2, <1>3, <1>7 DEF HasRow, Sorted
  <2>2. \A j \in DOMAIN F : ~(j > n)
    BY <1>1
  <2> HIDE DEF n
  <2> QED  BY <2>1, <2>2 DEF Reads
<1> QED  BY <1>5, <1>6, <1>7

\* A prefix that leaves out restarts without a row reads the same.
LEMMA PrefixKeepsReads ==
    ASSUME NEW E \in Seq(Restart), Sorted(E), NEW F \in Seq(Restart),
           F # <<>>, Len(F) <= Len(E),
           \A i \in DOMAIN F : F[i] = E[i],
           \A i \in DOMAIN E : i > Len(F) => ~HasRow(E[i])
    PROVE  Sorted(F) /\ \A w \in Row : Reads(E, w) => Reads(F, w)
<1>1. /\ DOMAIN E = 1..Len(E) /\ DOMAIN F = 1..Len(F) /\ Len(E) \in Nat /\ Len(F) \in Nat
      /\ Len(F) > 0
  BY LenProperties, EmptySeq
<1>2. Sorted(F)
  BY <1>1 DEF Sorted
<1>3. ASSUME NEW w \in Row, Reads(E, w)  PROVE Reads(F, w)
  <2>1. PICK i \in DOMAIN E : /\ E[i].epoch = w.proc /\ E[i].from <= w.ts
                              /\ i = 1 \/ HasRow(E[i])
                              /\ \A j \in DOMAIN E : j > i /\ HasRow(E[j]) => w.ts < E[j].from
    BY <1>3 DEF Reads
  <2>2. i \in DOMAIN F
    BY <2>1, <1>1
  <2> QED  BY <2>1, <2>2, <1>1 DEF Reads
<1> QED  BY <1>2, <1>3

-----------------------------------------------------------------------------
(* What a commit, and the restarts written, do to the recordings.          *)

LEMMA RecordingFields ==
    ASSUME NEW recs \in Seq(Recording)
    PROVE  /\ DOMAIN recs = 1..Len(recs) /\ Len(recs) \in Nat
           /\ recs # <<>> => Len(recs) \in DOMAIN recs
           /\ \A r \in DOMAIN recs :
                 /\ recs[r] \in Recording /\ recs[r].entries \in Seq(Restart)
                 /\ recs[r].rows \subseteq Row /\ recs[r].final \in BOOLEAN
<1>1. /\ DOMAIN recs = 1..Len(recs) /\ Len(recs) \in Nat
      /\ \A r \in DOMAIN recs : recs[r] \in Recording
      /\ recs # <<>> => Len(recs) > 0
  BY LenProperties, ElementOfSeq, EmptySeq
<1>2. \A x \in Recording : /\ x.entries \in Seq(Restart) /\ x.rows \subseteq Row
                           /\ x.final \in BOOLEAN
  BY DEF Recording
<1> QED  BY <1>1, <1>2

LEMMA CommittedShape ==
    ASSUME recordings \in Seq(Recording),
           staged \subseteq [ts : Stamps, proc : Procs, rec : DOMAIN recordings]
    PROVE  /\ Committed \in Seq(Recording) /\ Len(Committed) = Len(recordings)
           /\ DOMAIN Committed = DOMAIN recordings
           /\ \A r \in DOMAIN recordings :
                 /\ Committed[r].entries = recordings[r].entries
                 /\ Committed[r].final = recordings[r].final
                 /\ Committed[r].rows = recordings[r].rows \cup
                       {[ts |-> s.ts, proc |-> s.proc] : s \in {x \in staged : x.rec = r}}
<1> DEFINE New(r) == {[ts |-> s.ts, proc |-> s.proc] : s \in {x \in staged : x.rec = r}}
<1>1. \A r : New(r) \subseteq Row
  BY DEF Row
<1>2. Committed = [r \in DOMAIN recordings |->
                     [recordings[r] EXCEPT !.rows = recordings[r].rows \cup New(r)]]
  BY DEF Committed
<1> HIDE DEF New
<1>3. ASSUME NEW r \in DOMAIN recordings
      PROVE  /\ Committed[r] \in Recording
             /\ Committed[r].entries = recordings[r].entries
             /\ Committed[r].final = recordings[r].final
             /\ Committed[r].rows = recordings[r].rows \cup New(r)
  <2>1. Committed[r] = [recordings[r] EXCEPT !.rows = recordings[r].rows \cup New(r)]
    BY <1>2
  <2>2. recordings[r] \in Recording /\ recordings[r].rows \cup New(r) \in SUBSET Row
    BY <1>1, RecordingFields
  <2> QED  BY <2>1, <2>2 DEF Recording
<1>4. DOMAIN Committed = 1..Len(recordings) /\ Len(recordings) \in Nat
      /\ DOMAIN recordings = 1..Len(recordings)
  BY <1>2, RecordingFields
<1>5. Committed = [r \in 1..Len(recordings) |-> Committed[r]]
  BY <1>2, <1>4
<1>6. \A r \in 1..Len(recordings) : Committed[r] \in Recording
  BY <1>3, <1>4
<1>7. Committed \in Seq(Recording) /\ Len(Committed) = Len(recordings)
  <2> DEFINE C == Committed  n == Len(recordings)
  <2>1. C = [r \in 1..n |-> C[r]] /\ n \in Nat /\ \A r \in 1..n : C[r] \in Recording
    BY <1>4, <1>5, <1>6
  <2> HIDE DEF C, n
  <2>2. C \in Seq(Recording)
    BY <2>1, IsASeq
  <2>3. Len(C) = n
    BY <2>1, <2>2, LenProperties
  <2> QED  BY <2>2, <2>3 DEF C, n
<1> QED  BY <1>3, <1>4, <1>7 DEF New

\* Only the last recording changes, and of it one field.
LEMMA ExceptLast ==
    ASSUME NEW recs \in Seq(Recording), recs # <<>>, NEW rs \in Seq(Restart)
    PROVE  LET W == WithEntries(recs, rs)
               F == [recs EXCEPT ![Len(recs)].final = TRUE]
               n == Len(recs)
           IN  /\ W \in Seq(Recording) /\ Len(W) = n /\ DOMAIN W = DOMAIN recs
               /\ F \in Seq(Recording) /\ Len(F) = n /\ DOMAIN F = DOMAIN recs
               /\ \A r \in DOMAIN recs : r # n => W[r] = recs[r] /\ F[r] = recs[r]
               /\ W[n].entries = recs[n].entries \o rs
               /\ W[n].rows = recs[n].rows /\ W[n].final = recs[n].final
               /\ F[n].entries = recs[n].entries /\ F[n].rows = recs[n].rows /\ F[n].final
<1> DEFINE n == Len(recs)
           x == [recs[n] EXCEPT !.entries = recs[n].entries \o rs]
           y == [recs[n] EXCEPT !.final = TRUE]
<1>1. /\ n \in DOMAIN recs /\ recs[n] \in Recording /\ recs[n].entries \in Seq(Restart)
      /\ n \in 1..Len(recs)
  BY RecordingFields
<1>2. recs[n].entries \o rs \in Seq(Restart)
  BY <1>1, ConcatProperties
<1>3. /\ x \in Recording /\ x.entries = recs[n].entries \o rs
      /\ x.rows = recs[n].rows /\ x.final = recs[n].final
  BY <1>1, <1>2 DEF Recording
<1>4. /\ y \in Recording /\ y.entries = recs[n].entries /\ y.rows = recs[n].rows /\ y.final
  BY <1>1 DEF Recording
<1>5. WithEntries(recs, rs) = [recs EXCEPT ![n] = x]
  BY DEF WithEntries
<1>6. [recs EXCEPT ![Len(recs)].final = TRUE] = [recs EXCEPT ![n] = y]
  OBVIOUS
<1>7. ASSUME NEW z \in Recording
      PROVE  LET G == [recs EXCEPT ![n] = z]
             IN  /\ G \in Seq(Recording) /\ Len(G) = n /\ DOMAIN G = DOMAIN recs
                 /\ \A r \in DOMAIN recs : r # n => G[r] = recs[r]
                 /\ G[n] = z
  BY <1>1, ExceptSeq
<1> DEFINE W == WithEntries(recs, rs)
           F == [recs EXCEPT ![Len(recs)].final = TRUE]
<1>8. /\ W \in Seq(Recording) /\ Len(W) = n /\ DOMAIN W = DOMAIN recs
      /\ \A r \in DOMAIN recs : r # n => W[r] = recs[r]
      /\ W[n] = x
  <2> HIDE DEF W, n, x
  <2> QED  BY <1>3, <1>5, <1>7 DEF W
<1>9. /\ F \in Seq(Recording) /\ Len(F) = n /\ DOMAIN F = DOMAIN recs
      /\ \A r \in DOMAIN recs : r # n => F[r] = recs[r]
      /\ F[n] = y
  <2>1. F = [recs EXCEPT ![n] = y]
    BY <1>6
  <2> HIDE DEF F, n, y
  <2> QED  BY <1>4, <2>1, <1>7
<1> HIDE DEF x, y, W, F
<1>10. /\ \A r \in DOMAIN recs : r # n => W[r] = recs[r] /\ F[r] = recs[r]
       /\ W[n].entries = recs[n].entries \o rs
       /\ W[n].rows = recs[n].rows /\ W[n].final = recs[n].final
       /\ F[n].entries = recs[n].entries /\ F[n].rows = recs[n].rows /\ F[n].final
  BY <1>3, <1>4, <1>8, <1>9
<1> QED  BY <1>8, <1>9, <1>10 DEF W, F

\* Those kept at a change of producer are the ones that have a row.
LEMMA KeptIsPrefix ==
    ASSUME restarts \in Seq(Restart), InOrder
    PROVE  /\ RestartsKept \in Seq(Restart) /\ Len(RestartsKept) <= Len(restarts)
           /\ \A i \in DOMAIN RestartsKept : i \in DOMAIN restarts /\ RestartsKept[i] = restarts[i]
           /\ \A i \in DOMAIN restarts : HasRow(restarts[i]) <=> i <= Len(RestartsKept)
<1>1. /\ DOMAIN restarts = 1..Len(restarts) /\ Len(restarts) \in Nat
      /\ \A i \in DOMAIN restarts : restarts[i] \in Restart
  BY RestartFields
<1>2. PICK n \in 0..Len(restarts) : \A i \in DOMAIN restarts : HasRow(restarts[i]) <=> i <= n
  BY DEF InOrder
<1> DEFINE with == {i \in DOMAIN restarts : HasRow(restarts[i])}
           Nth(k) == CHOOSE i \in with : Cardinality({j \in with : j <= i}) = k
<1>3. with = 1..n /\ n \in Nat
  BY <1>1, <1>2
<1>4. \A m \in Nat : Cardinality(1..m) = m
  BY FS_Interval
<1>5. ASSUME NEW k \in 1..n  PROVE Nth(k) = k
  <2>1. \A i \in 1..n : {j \in with : j <= i} = 1..i
    BY <1>3
  <2>2. ASSUME NEW i \in 1..n  PROVE Cardinality({j \in with : j <= i}) = i
    <3>1. Cardinality(1..i) = i
      BY <1>3, <1>4
    <3> HIDE DEF with
    <3> QED  BY <2>1, <3>1, Zenon
  <2> HIDE DEF with
  <2> QED  BY <2>2, <1>3
<1>6. RestartsKept = [k \in 1..Cardinality(with) |-> restarts[Nth(k)]]
  BY DEF RestartsKept
<1>7. Cardinality(with) = n
  BY <1>3, <1>4
<1> HIDE DEF with, Nth
<1>8. RestartsKept = [k \in 1..n |-> restarts[k]]
  BY <1>5, <1>6, <1>7
<1>9. \A k \in 1..n : restarts[k] \in Restart /\ k \in DOMAIN restarts
  BY <1>1, <1>2
<1>10. RestartsKept \in Seq(Restart) /\ Len(RestartsKept) = n /\ DOMAIN RestartsKept = 1..n
  BY <1>8, <1>9, <1>3, IsASeq, LenProperties
<1> QED  BY <1>1, <1>2, <1>8, <1>9, <1>10

-----------------------------------------------------------------------------
(* Types, and processes that started.                                      *)

TypeInv == SSTypeOK /\ Wired

LEMMA StreamEnds ==
    ASSUME stream \in Seq(StreamEvent)
    PROVE  /\ DOMAIN stream = 1..Len(stream) /\ Len(stream) \in Nat
           /\ \A i \in DOMAIN stream : /\ stream[i] \in StreamEvent
                                      /\ stream[i].proc \in Procs
                                      /\ stream[i].ts \in Nat
           /\ stream # <<>> =>
                 /\ 1 \in DOMAIN stream /\ Head(stream) = stream[1]
                 /\ Tail(stream) \in Seq(StreamEvent) /\ Len(Tail(stream)) = Len(stream) - 1
                 /\ DOMAIN Tail(stream) = 1..(Len(stream) - 1)
                 /\ \A i \in DOMAIN Tail(stream) :
                       i + 1 \in DOMAIN stream /\ Tail(stream)[i] = stream[i + 1]
<1>1. DOMAIN stream = 1..Len(stream) /\ Len(stream) \in Nat
  BY LenProperties
<1>2. \A i \in DOMAIN stream : stream[i] \in StreamEvent
  BY <1>1, ElementOfSeq
<1>3. \A e \in StreamEvent : e.proc \in Procs /\ e.ts \in Stamps \cup {NoStamp}
  BY DEF StreamEvent
<1>4. Stamps \cup {NoStamp} \subseteq Nat
  BY Bounds
<1>5. ASSUME stream # <<>>
      PROVE  /\ 1 \in DOMAIN stream /\ Head(stream) = stream[1]
             /\ Tail(stream) \in Seq(StreamEvent) /\ Len(Tail(stream)) = Len(stream) - 1
             /\ DOMAIN Tail(stream) = 1..(Len(stream) - 1)
             /\ \A i \in DOMAIN Tail(stream) :
                   i + 1 \in DOMAIN stream /\ Tail(stream)[i] = stream[i + 1]
  <2>1. Len(stream) > 0
    BY <1>5, EmptySeq
  <2>2. Tail(stream) \in Seq(StreamEvent) /\ Len(Tail(stream)) = Len(stream) - 1
    BY <1>5, HeadTailProperties
  <2>3. DOMAIN Tail(stream) = 1..(Len(stream) - 1)
    BY <2>2, LenProperties
  <2>4. \A i \in 1..(Len(stream) - 1) : Tail(stream)[i] = stream[i + 1]
    BY <1>5, <2>2, HeadTailProperties
  <2> QED  BY <1>1, <2>1, <2>2, <2>3, <2>4
<1> QED  BY <1>1, <1>2, <1>3, <1>4, <1>5

\* What a send does to the channel.
LEMMA SendShape ==
    ASSUME stream \in Seq(StreamEvent), Len(stream) <= StreamCap, peer' \in Procs,
           NEW kind \in {"interval", "dropped", "connected", "refused"},
           NEW ts \in Stamps \cup {NoStamp}, PumpSend(kind, ts)
    PROVE  LET e == [kind |-> kind, proc |-> peer', ts |-> ts]
               n == Len(stream)
           IN  /\ stream' \in Seq(StreamEvent) /\ Len(stream') = n + 1 /\ n + 1 <= StreamCap
               /\ DOMAIN stream' = 1..(n + 1) /\ DOMAIN stream = 1..n /\ n \in Nat
               /\ \A i \in DOMAIN stream : stream'[i] = stream[i]
               /\ stream'[n + 1] = e
<1> DEFINE e == [kind |-> kind, proc |-> peer', ts |-> ts]
<1>1. e \in StreamEvent
  BY DEF StreamEvent
<1>2. stream' = Append(stream, e) /\ Len(stream) < StreamCap /\ StreamCap \in Nat
  BY Bounds DEF PumpSend
<1> HIDE DEF e
<1>3. stream' \in Seq(StreamEvent) /\ Len(stream') = Len(stream) + 1
  BY <1>1, <1>2, AppendProperties
<1>4. \A i \in 1..Len(stream) : stream'[i] = stream[i]
  BY <1>1, <1>2, AppendProperties, LenProperties
<1>5. stream'[Len(stream) + 1] = e
  BY <1>1, <1>2, AppendProperties
<1>6. DOMAIN stream' = 1..(Len(stream) + 1) /\ DOMAIN stream = 1..Len(stream) /\ Len(stream) \in Nat
  BY <1>3, LenProperties
<1> QED  BY <1>2, <1>3, <1>4, <1>5, <1>6 DEF e

LEMMA TypePump ==
    ASSUME TypeInv, Pump
    PROVE  TypeInv'
<1> USE DEF TypeInv
<1>1. ASSUME NEW kind \in {"interval", "dropped", "connected", "refused"},
             NEW ts \in Stamps \cup {NoStamp}, PumpSend(kind, ts),
             pump' \in {"reading", "down", "gone"}, peer' \in Procs, peer' <= Len(procs),
             opened' \in 0..MaxReconnects, frames' \in 0..MaxFrames,
             pump' = "down" => opened' < MaxReconnects
      PROVE  TypeInv'
  <2>1. /\ stream' \in Seq(StreamEvent) /\ Len(stream') <= StreamCap
        /\ \A i \in DOMAIN stream' : \/ i \in DOMAIN stream /\ stream'[i] = stream[i]
                                     \/ stream'[i].proc = peer'
    <3> DEFINE n == Len(stream)
    <3>1. /\ stream' \in Seq(StreamEvent) /\ Len(stream') = n + 1 /\ n + 1 <= StreamCap
          /\ DOMAIN stream' = 1..(n + 1) /\ DOMAIN stream = 1..n /\ n \in Nat
          /\ \A i \in DOMAIN stream : stream'[i] = stream[i]
          /\ stream'[n + 1].proc = peer'
      <4>1. stream \in Seq(StreamEvent) /\ Len(stream) <= StreamCap
        BY DEF SSTypeOK
      <4> DEFINE e == [kind |-> kind, proc |-> peer', ts |-> ts]
      <4>2. /\ stream' \in Seq(StreamEvent) /\ Len(stream') = n + 1 /\ n + 1 <= StreamCap
            /\ DOMAIN stream' = 1..(n + 1) /\ DOMAIN stream = 1..n /\ n \in Nat
            /\ \A i \in DOMAIN stream : stream'[i] = stream[i]
            /\ stream'[n + 1] = e
        BY <1>1, <4>1, SendShape
      <4>3. e.proc = peer'
        OBVIOUS
      <4> HIDE DEF e
      <4> QED  BY <4>2, <4>3
    <3> QED  BY <3>1
  <2>2. \A i \in DOMAIN stream' : stream'[i].proc <= Len(procs)
    BY <1>1, <2>1 DEF Wired
  <2>3. UNCHANGED <<procs, slot, store, driver>>
    BY <1>1 DEF PumpSend
  <2> QED  BY <1>1, <2>1, <2>2, <2>3 DEF SSTypeOK, Wired, InOrder, slot, store, driver
<1>2. NoStamp \in Stamps \cup {NoStamp} /\ MaxFrames \in Nat /\ MaxReconnects \in Nat
  BY Bounds
<1>3. CASE PumpInterval
  <2>1. peer' \in Procs /\ peer' <= Len(procs) /\ opened' = opened
        /\ pump' = "reading"
    BY <1>3 DEF PumpInterval, SSTypeOK, Wired
  <2>2. CASE frames < MaxFrames /\ frames' = frames + 1 /\ PumpSend("interval", frames')
    <3>1. frames' \in Stamps /\ frames' \in 0..MaxFrames
      BY <2>2, <1>2 DEF SSTypeOK, Stamps
    <3> QED  BY <1>1, <2>1, <2>2, <3>1 DEF SSTypeOK
  <2>3. CASE frames' = frames /\ PumpSend("interval", NoStamp)
    BY <1>1, <2>1, <2>3, <1>2 DEF SSTypeOK
  <2> QED  BY <1>3, <2>2, <2>3 DEF PumpInterval
<1>4. CASE PumpDropped
  BY <1>4, <1>1, <1>2 DEF PumpDropped, SSTypeOK, Wired
<1>5. CASE PumpConnected
  <2>1. opened' \in 0..MaxReconnects
    BY <1>5, <1>2 DEF PumpConnected, SSTypeOK, Wired
  <2> QED  BY <1>5, <1>1, <1>2, <2>1 DEF PumpConnected, SSTypeOK
<1>6. CASE PumpRefused
  BY <1>6, <1>1, <1>2 DEF PumpRefused, SSTypeOK, Wired
<1> QED  BY <1>3, <1>4, <1>5, <1>6 DEF Pump

\* What a recording's rows and the rows staged must be.
StoreOK ==
    /\ recordings \in Seq(Recording) /\ recordings # <<>>
    /\ staged \subseteq [ts : Stamps, proc : Procs, rec : DOMAIN recordings]
    /\ taken \subseteq Stamps
    /\ \A s \in staged : s.rec = Len(recordings) /\ s.proc <= Len(procs)
    /\ \A r \in DOMAIN recordings : \A w \in recordings[r].rows : w.proc <= Len(procs)

LEMMA CommittedOK ==
    ASSUME TypeInv
    PROVE  \A r \in DOMAIN recordings : \A w \in Committed[r].rows : w.proc <= Len(procs)
<1>1. recordings \in Seq(Recording)
      /\ staged \subseteq [ts : Stamps, proc : Procs, rec : DOMAIN recordings]
  BY DEF TypeInv, SSTypeOK
<1> SUFFICES ASSUME NEW r \in DOMAIN recordings, NEW w \in Committed[r].rows
             PROVE  w.proc <= Len(procs)
  OBVIOUS
<1>2. Committed[r].rows = recordings[r].rows \cup
          {[ts |-> s.ts, proc |-> s.proc] : s \in {x \in staged : x.rec = r}}
  BY <1>1, CommittedShape
<1> QED  BY <1>2 DEF TypeInv, Wired

\* The recordings once the old producer's is final.
LEMMA FinalizedShape ==
    ASSUME TypeInv
    PROVE  LET n == Len(recordings)
           IN  /\ Finalized \in Seq(Recording) /\ Len(Finalized) = n
               /\ DOMAIN Finalized = DOMAIN recordings /\ n \in DOMAIN recordings
               /\ \A r \in DOMAIN recordings : Finalized[r].rows = Committed[r].rows
               /\ \A r \in DOMAIN recordings : r # n => Finalized[r] = Committed[r]
               /\ Finalized[n].entries = recordings[n].entries \o RestartsKept
<1> DEFINE n == Len(recordings)
           C == Committed
           W == WithEntries(C, RestartsKept)
           F == [W EXCEPT ![Len(W)].final = TRUE]
<1>1. recordings \in Seq(Recording) /\ recordings # <<>> /\ n \in DOMAIN recordings
      /\ staged \subseteq [ts : Stamps, proc : Procs, rec : DOMAIN recordings]
  BY RecordingFields DEF TypeInv, SSTypeOK, Wired
<1>2. C \in Seq(Recording) /\ Len(C) = n /\ DOMAIN C = DOMAIN recordings
      /\ \A r \in DOMAIN recordings : C[r].entries = recordings[r].entries
  BY <1>1, CommittedShape
<1>3. RestartsKept \in Seq(Restart)
  BY KeptIsPrefix DEF TypeInv, SSTypeOK, Wired
<1>4. C # <<>>
  BY <1>1, <1>2, EmptySeq, RecordingFields
<1> HIDE DEF C
<1>5. /\ W \in Seq(Recording) /\ Len(W) = n /\ DOMAIN W = DOMAIN recordings
      /\ \A r \in DOMAIN recordings : r # n => W[r] = C[r]
      /\ W[n].entries = C[n].entries \o RestartsKept
      /\ W[n].rows = C[n].rows
  <2>1. /\ W \in Seq(Recording) /\ Len(W) = Len(C) /\ DOMAIN W = DOMAIN C
        /\ \A r \in DOMAIN C : r # Len(C) => W[r] = C[r]
        /\ W[Len(C)].entries = C[Len(C)].entries \o RestartsKept
        /\ W[Len(C)].rows = C[Len(C)].rows
    BY <1>2, <1>3, <1>4, ExceptLast
  <2> HIDE DEF W
  <2> QED  BY <1>2, <2>1
<1>6. W # <<>> /\ <<>> \in Seq(Restart)
  BY <1>1, <1>5, EmptySeq, RecordingFields
<1> HIDE DEF W
<1>7. /\ F \in Seq(Recording) /\ Len(F) = n /\ DOMAIN F = DOMAIN recordings
      /\ \A r \in DOMAIN recordings : r # n => F[r] = W[r]
      /\ F[n].entries = W[n].entries
      /\ F[n].rows = W[n].rows
  BY <1>5, <1>6, ExceptLast
<1>8. Finalized = F
  BY <1>5 DEF Finalized, CommitAtChange, W, C
<1> HIDE DEF F
<1>9. \A r \in DOMAIN recordings : F[r].rows = C[r].rows
  BY <1>5, <1>7
<1> QED  BY <1>1, <1>2, <1>5, <1>7, <1>8, <1>9 DEF C

LEMMA StampedShape ==
    ASSUME restarts \in Seq(Restart), NEW ts \in Stamps
    PROVE  LET F == Stamped(ts)
           IN  /\ F \in Seq(Restart) /\ Len(F) = Len(restarts)
               /\ \A i \in DOMAIN restarts :
                     /\ HasRow(F[i])
                     /\ \/ HasRow(restarts[i]) /\ F[i] = restarts[i]
                        \/ ~HasRow(restarts[i]) /\ F[i].from = ts /\ F[i].epoch = restarts[i].epoch
<1> DEFINE F == Stamped(ts)  n == Len(restarts)
<1>1. /\ DOMAIN restarts = 1..n /\ n \in Nat
      /\ \A i \in 1..n : restarts[i] \in Restart
  BY RestartFields
<1>2. F = [i \in 1..n |-> F[i]]
  BY <1>1 DEF Stamped
<1>3. ts # NoStamp
  BY Bounds
<1>4. ASSUME NEW i \in 1..n
      PROVE  /\ F[i] \in Restart /\ HasRow(F[i])
             /\ \/ HasRow(restarts[i]) /\ F[i] = restarts[i]
                \/ ~HasRow(restarts[i]) /\ F[i].from = ts /\ F[i].epoch = restarts[i].epoch
  <2>1. F[i] = IF HasRow(restarts[i]) THEN restarts[i] ELSE [restarts[i] EXCEPT !.from = ts]
    BY <1>1 DEF Stamped
  <2>2. restarts[i] \in [epoch : Procs, from : Stamps \cup {NoStamp}]
    BY <1>1 DEF Restart
  <2> QED  BY <2>1, <2>2, <1>3 DEF HasRow, Restart
<1> HIDE DEF F, n
<1>5. F \in Seq(Restart) /\ Len(F) = n
  BY <1>1, <1>2, <1>4, IsASeq, LenProperties
<1> QED  BY <1>1, <1>4, <1>5 DEF F, n

LEMMA TypeReceive ==
    ASSUME TypeInv, Receive, pc' \in At
    PROVE  TypeInv'
<1> DEFINE e == Head(stream)
           Slots == /\ epoch' \in Procs /\ epoch' <= Len(procs)
                    /\ producer' \in Names \cup {NoName}
                    /\ restarts' \in Seq(Restart) /\ InOrder'
                    /\ fetches' \in 0..(FetchAttempts - 1)
           Flags == /\ {active', added', delivered', broken', erred', failed', reported'}
                           \subseteq BOOLEAN
                    /\ archive' \in {"open", "lost", "lost_patching", "closed", "removed"}
                    /\ panics' \in 0..MaxPanics
                    /\ pump' \in {pump, "gone"}
<1>1. /\ stream \in Seq(StreamEvent) /\ stream # <<>> /\ stream' = Tail(stream)
      /\ OnStreamEvent(e)
      /\ UNCHANGED <<procs, peer, opened, frames, onArrival, stopping, result>>
      /\ e = stream[1] /\ 1 \in DOMAIN stream
  BY StreamEnds DEF Receive, TypeInv, SSTypeOK
<1>2. /\ e \in StreamEvent /\ e.proc \in Procs /\ e.proc <= Len(procs)
      /\ e.proc \in DOMAIN procs /\ procs[e.proc] \in Names \cup {NoName}
      /\ e.ts \in Stamps \cup {NoStamp}
  <2>1. e \in StreamEvent /\ e.proc <= Len(procs)
    BY <1>1, StreamEnds DEF TypeInv, Wired
  <2>2. e.proc \in Procs /\ e.ts \in Stamps \cup {NoStamp}
    BY <2>1 DEF StreamEvent
  <2>3. procs \in Seq(Names \cup {NoName})
    BY DEF TypeInv, SSTypeOK
  <2>4. e.proc \in DOMAIN procs
    BY <2>1, <2>2, <2>3, LenProperties DEF Procs
  <2> QED  BY <2>1, <2>2, <2>3, <2>4, ElementOfSeq, LenProperties
<1>3. /\ stream' \in Seq(StreamEvent) /\ Len(stream') <= StreamCap
      /\ \A i \in DOMAIN stream' : stream'[i].proc <= Len(procs)
  <2>1. Len(stream) <= StreamCap /\ StreamCap \in Nat
    BY Bounds DEF TypeInv, SSTypeOK
  <2> QED  BY <1>1, <2>1, StreamEnds DEF TypeInv, Wired
<1>4. Slots /\ Flags /\ StoreOK' => TypeInv'
  BY <1>1, <1>3 DEF TypeInv, SSTypeOK, Wired, StoreOK
<1> HIDE DEF e
<1>6. StoreOK /\ restarts \in Seq(Restart) /\ InOrder
  BY DEF TypeInv, SSTypeOK, Wired, StoreOK
<1> USE DEF TypeInv
<1>7. CASE Interval(e)
  <2>1. /\ UNCHANGED <<epoch, producer, fetches, active, added, pump, recordings, archive,
                        broken, panics, failed, reported>>
        /\ delivered' \in BOOLEAN
    BY <1>7 DEF Interval, SSTypeOK
  <2>2. CASE UNCHANGED <<restarts, staged, taken>> /\ erred' \in BOOLEAN
    <3>1. Slots
      BY <1>1, <2>1, <2>2 DEF SSTypeOK, Wired, InOrder
    <3>2. Flags
      BY <2>1, <2>2 DEF SSTypeOK
    <3>3. StoreOK'
      BY <1>1, <1>6, <2>1, <2>2 DEF StoreOK
    <3> QED  BY <1>4, <3>1, <3>2, <3>3
  <2>3. CASE /\ staged' = staged \cup {[ts |-> e.ts, proc |-> e.proc, rec |-> Len(recordings)]}
             /\ taken' = taken \cup {e.ts}
             /\ restarts' = Stamped(e.ts) /\ e.ts # NoStamp
             /\ UNCHANGED erred
    <3>1. e.ts \in Stamps
      BY <1>2, <2>3
    <3>2. restarts' \in Seq(Restart) /\ InOrder'
      <4>1. /\ restarts' \in Seq(Restart) /\ Len(restarts') = Len(restarts)
            /\ \A i \in DOMAIN restarts : HasRow(restarts'[i])
        BY <1>6, <2>3, <3>1, StampedShape
      <4>2. /\ DOMAIN restarts' = 1..Len(restarts') /\ DOMAIN restarts = 1..Len(restarts)
            /\ Len(restarts) \in Nat
        BY <4>1, <1>6, RestartFields
      <4> QED  BY <4>1, <4>2 DEF InOrder
    <3>3. Slots
      BY <2>1, <3>2 DEF SSTypeOK, Wired
    <3>4. Flags
      BY <2>1, <2>3 DEF SSTypeOK
    <3>5. Len(recordings) \in DOMAIN recordings
      BY <1>6, RecordingFields DEF StoreOK
    <3>6. StoreOK'
      BY <1>1, <1>2, <1>6, <2>1, <2>3, <3>1, <3>5 DEF StoreOK
    <3> QED  BY <1>4, <3>3, <3>4, <3>6
  <2> QED  BY <1>7, <2>2, <2>3 DEF Interval, SSTypeOK
<1>8. CASE UNCHANGED <<slot, store, erred, failed, reported, pump>>
  BY <1>8, <1>1, <1>4, <1>6 DEF slot, store, TypeInv, SSTypeOK, Wired, StoreOK, InOrder
<1>9. CASE NewSource(e.proc)
  <2> DEFINE p == e.proc
  <2>1. /\ <<>> \in Seq(Restart) /\ (restarts' = <<>> => InOrder')
        /\ 0 \in 0..(FetchAttempts - 1)
    <3>1. Len(<<>>) = 0 /\ DOMAIN <<>> = {} /\ <<>> \in Seq(Restart)
      OBVIOUS
    <3>2. FetchAttempts \in Nat \ {0}
      BY Bounds
    <3> QED  BY <3>1, <3>2 DEF InOrder
  <2>2. /\ Finalized \in Seq(Recording) /\ Len(Finalized) = Len(recordings) /\ Finalized # <<>>
        /\ \A r \in DOMAIN Finalized : \A w \in Finalized[r].rows : w.proc <= Len(procs)
    <3>1. /\ Finalized \in Seq(Recording) /\ Len(Finalized) = Len(recordings)
          /\ DOMAIN Finalized = DOMAIN recordings /\ Len(recordings) \in DOMAIN recordings
          /\ \A r \in DOMAIN recordings : Finalized[r].rows = Committed[r].rows
      BY FinalizedShape
    <3>2. Finalized # <<>>
      BY <3>1
    <3> QED  BY <3>1, <3>2, CommittedOK
  <2>3. /\ Append(Finalized, Opened(p)) \in Seq(Recording)
        /\ Append(Finalized, Opened(p)) # <<>>
        /\ \A r \in DOMAIN Append(Finalized, Opened(p)) :
              \A w \in Append(Finalized, Opened(p))[r].rows : w.proc <= Len(procs)
    <3>1. Opened(p) \in Recording /\ Opened(p).rows = {}
      BY <1>2 DEF Opened, Recording, Restart
    <3> DEFINE F == Finalized  o == Opened(p)
    <3>2. F \in Seq(Recording) /\ o \in Recording /\ o.rows = {}
          /\ \A r \in DOMAIN F : \A w \in F[r].rows : w.proc <= Len(procs)
      BY <2>2, <3>1
    <3> HIDE DEF F, o, p
    <3>3. /\ Append(F, o) \in Seq(Recording) /\ Len(Append(F, o)) = Len(F) + 1
          /\ \A r \in 1..Len(F) : Append(F, o)[r] = F[r]
          /\ Append(F, o)[Len(F) + 1] = o
      BY <3>2, AppendProperties
    <3>4. /\ DOMAIN Append(F, o) = 1..(Len(F) + 1) /\ DOMAIN F = 1..Len(F) /\ Len(F) \in Nat
      BY <3>2, <3>3, RecordingFields
    <3>5. Append(F, o) # <<>>
      BY <3>4
    <3> QED  BY <3>2, <3>3, <3>4, <3>5 DEF F, o
  <2>4. ASSUME epoch' = p, producer' = procs[p], restarts' = <<>>, fetches' = 0,
               staged' = {}, taken' = taken,
               recordings' \in {Finalized, Append(Finalized, Opened(p))},
               {active', added', delivered', broken', erred', failed', reported'}
                   \subseteq BOOLEAN,
               UNCHANGED <<archive, panics, pump>>
        PROVE  TypeInv'
    <3>1. Slots
      BY <1>2, <2>1, <2>4
    <3>2. Flags
      BY <2>4 DEF SSTypeOK
    <3>3. StoreOK'
      BY <1>1, <1>6, <2>2, <2>3, <2>4 DEF StoreOK
    <3> QED  BY <1>4, <3>1, <3>2, <3>3
  <2>5. {active, added, delivered, broken, erred, failed, reported} \subseteq BOOLEAN
        /\ UNCHANGED <<active, delivered, taken>>
    BY <1>9 DEF NewSource, SSTypeOK
  <2>6. CASE /\ recordings' = Append(Finalized, Opened(p))
             /\ staged' = CommitAtChange.staged /\ restarts' = <<>> /\ fetches' = 0
             /\ epoch' = p /\ producer' = procs[p]
             /\ UNCHANGED <<added, archive, broken, panics, pump, erred, failed, reported>>
    BY <2>4, <2>5, <2>6 DEF CommitAtChange
  <2>7. CASE /\ broken' = TRUE
             /\ recordings' = Finalized
             /\ staged' = CommitAtChange.staged /\ restarts' = <<>> /\ fetches' = 0
             /\ epoch' = p /\ producer' = procs[p]
             /\ added' = FALSE /\ erred' = TRUE
             /\ UNCHANGED <<archive, panics, pump, failed, reported>>
    BY <2>4, <2>5, <2>7 DEF CommitAtChange
  <2>8. CASE /\ ~Usable \/ panics < MaxPanics
             /\ panics' = IF Usable THEN panics + 1 ELSE panics
             /\ FailArchive /\ restarts' = <<>> /\ fetches' \in {fetches, 0}
             /\ UNCHANGED <<epoch, producer, added, staged, recordings, broken, erred>>
    <3>1. panics' \in 0..MaxPanics
      <4>1. MaxPanics \in Nat /\ panics \in 0..MaxPanics
        BY StreamedSourceAssumption DEF SSTypeOK
      <4>2. panics' = panics \/ (panics < MaxPanics /\ panics' = panics + 1)
        BY <2>8
      <4> QED  BY <4>1, <4>2
    <3>2. Slots
      BY <2>1, <2>8 DEF SSTypeOK, Wired
    <3>3. Flags
      BY <2>5, <2>8, <3>1 DEF FailArchive
    <3>4. StoreOK'
      BY <1>1, <1>6, <2>5, <2>8 DEF StoreOK
    <3> QED  BY <1>4, <3>2, <3>3, <3>4
  <2> QED  BY <1>9, <2>6, <2>7, <2>8 DEF NewSource
<1>10. CASE Adopt(e.proc)
  <2> DEFINE p == e.proc
  <2>1. /\ producer' = Named(p) /\ epoch' = p
        /\ \/ UNCHANGED <<restarts, fetches>>
           \/ restarts' = Append(restarts, [epoch |-> p, from |-> NoStamp]) /\ fetches' = 0
        /\ UNCHANGED <<active, added, delivered, store, erred, failed, reported, pump>>
    BY <1>10 DEF Adopt
  <2>2. Flags
    BY <2>1 DEF SSTypeOK, store
  <2>3. StoreOK'
    BY <1>1, <1>6, <2>1 DEF StoreOK, store
  <2>4. restarts' \in Seq(Restart) /\ InOrder' /\ fetches' \in 0..(FetchAttempts - 1)
    <3>1. CASE UNCHANGED <<restarts, fetches>>
      BY <1>6, <3>1 DEF InOrder, SSTypeOK
    <3>2. CASE restarts' = Append(restarts, [epoch |-> p, from |-> NoStamp]) /\ fetches' = 0
      <4> DEFINE x == [epoch |-> p, from |-> NoStamp]
      <4>1. x \in Restart /\ ~HasRow(x)
        BY <1>2 DEF Restart, HasRow
      <4>2. restarts' = Append(restarts, x) /\ restarts \in Seq(Restart)
        BY <1>6, <3>2
      <4> HIDE DEF x
      <4>3. /\ restarts' \in Seq(Restart) /\ Len(restarts') = Len(restarts) + 1
            /\ \A i \in 1..Len(restarts) : restarts'[i] = restarts[i]
            /\ restarts'[Len(restarts) + 1] = x
        BY <4>1, <4>2, AppendProperties
      <4>4. /\ DOMAIN restarts' = 1..(Len(restarts) + 1) /\ DOMAIN restarts = 1..Len(restarts)
            /\ Len(restarts) \in Nat
        BY <4>2, <4>3, RestartFields
      <4>5. PICK n \in 0..Len(restarts) : \A i \in DOMAIN restarts : HasRow(restarts[i]) <=> i <= n
        BY <1>6 DEF InOrder
      <4>6. n \in 0..Len(restarts') /\ \A i \in DOMAIN restarts' : HasRow(restarts'[i]) <=> i <= n
        BY <4>1, <4>3, <4>4, <4>5
      <4>7. FetchAttempts \in Nat \ {0}
        BY Bounds
      <4> QED  BY <3>2, <4>3, <4>6, <4>7 DEF InOrder
    <3> QED  BY <2>1, <3>1, <3>2
  <2>5. Slots
    BY <1>2, <2>1, <2>4 DEF Named, SSTypeOK
  <2> QED  BY <1>4, <2>2, <2>3, <2>5
<1>11. CASE Refused
  BY <1>11, <1>1, <1>4, <1>6 DEF Refused, store, TypeInv, SSTypeOK, Wired, StoreOK, InOrder
<1> QED  BY <1>1, <1>7, <1>8, <1>9, <1>10, <1>11 DEF OnStreamEvent

\* The driver's own steps.
LEMMA TypeDriver ==
    ASSUME TypeInv,
           \/ \E n \in Names \cup {NoName} : NewProcess(n)
           \/ WriterBreaks \/ Tick \/ Drained \/ ApplyRestarts \/ Commit \/ Finish
           \/ Finalize \/ Abandon \/ PatchPanics
    PROVE  TypeInv'
<1> USE DEF TypeInv
<1>1. /\ recordings \in Seq(Recording) /\ recordings # <<>>
      /\ staged \subseteq [ts : Stamps, proc : Procs, rec : DOMAIN recordings]
      /\ restarts \in Seq(Restart) /\ MaxPanics \in Nat /\ MaxProcs \in Nat
      /\ FetchAttempts \in Nat \ {0} /\ <<>> \in Seq(Restart) /\ 0 \in 0..(FetchAttempts - 1)
      /\ Len(procs) \in Nat
  BY Bounds, LenProperties DEF SSTypeOK, Wired
<1>2. restarts' = <<>> => InOrder'
  <2>1. Len(<<>>) = 0 /\ DOMAIN <<>> = {}
    OBVIOUS
  <2> QED  BY <2>1 DEF InOrder
<1>3. ASSUME NEW n \in Names \cup {NoName}, NewProcess(n)  PROVE TypeInv'
  <2>1. procs \in Seq(Names \cup {NoName}) /\ procs' = Append(procs, n)
        /\ UNCHANGED <<pump, peer, opened, frames, stream, slot, store, driver>>
        /\ Len(procs) < MaxProcs
    BY <1>3 DEF NewProcess, SSTypeOK
  <2>2. procs' \in Seq(Names \cup {NoName}) /\ Len(procs') = Len(procs) + 1
    BY <2>1, AppendProperties
  <2>3. /\ Len(procs') \in Procs /\ peer <= Len(procs') /\ epoch <= Len(procs')
        /\ \A i \in DOMAIN stream : stream[i].proc <= Len(procs')
    <3>1. /\ \A i \in DOMAIN stream : stream[i].proc \in Procs /\ stream[i].proc <= Len(procs)
          /\ peer \in Procs /\ epoch \in Procs /\ Len(procs) \in Procs
          /\ peer <= Len(procs) /\ epoch <= Len(procs)
      BY StreamEnds DEF SSTypeOK, Wired
    <3>2. Len(procs') = Len(procs) + 1 /\ Len(procs) < MaxProcs
      BY <2>1, <2>2
    <3> QED  BY <1>1, <3>1, <3>2 DEF Procs
  <2>4. /\ \A s \in staged : s.proc <= Len(procs')
        /\ \A r \in DOMAIN recordings : \A w \in recordings[r].rows : w.proc <= Len(procs')
    <3>1. /\ \A s \in staged : s.proc \in Procs
          /\ \A r \in DOMAIN recordings : \A w \in recordings[r].rows : w.proc \in Procs
      BY <1>1, RecordingFields DEF Row
    <3> QED  BY <1>1, <2>2, <3>1, Bounds DEF Wired, Procs
  <2> QED  BY <2>1, <2>2, <2>3, <2>4 DEF SSTypeOK, Wired, slot, store, driver, InOrder
<1>4. CASE WriterBreaks
  BY <1>4 DEF WriterBreaks, pumpVars, slot, driver, SSTypeOK, Wired, InOrder
<1>5. CASE Tick \/ Drained \/ Finish
  BY <1>5 DEF Tick, Drained, Finish, pumpVars, slot, store, SSTypeOK, Wired, InOrder, At
<1>6. CASE ApplyRestarts
  <2>1. /\ pc' = "commit" /\ pump' \in {pump, "gone"}
        /\ UNCHANGED <<procs, peer, opened, frames, stream, epoch, producer, active, added,
                       delivered, staged, taken, broken, erred, reported, onArrival, stopping, result>>
    BY <1>6 DEF ApplyRestarts
  <2>2. /\ restarts' \in Seq(Restart) /\ InOrder' /\ fetches' \in 0..(FetchAttempts - 1)
    <3>1. CASE UNCHANGED <<restarts, fetches>>
      BY <1>1, <3>1 DEF SSTypeOK, Wired, InOrder
    <3>2. CASE fetches' = CountFetch /\ MayAskAgain /\ UNCHANGED restarts
      <4>1. fetches \in Nat /\ InOrder'
        BY <3>2 DEF SSTypeOK, Wired, InOrder
      <4> QED  BY <1>1, <3>2, <4>1 DEF CountFetch, MayAskAgain
    <3>3. CASE restarts' = <<>> /\ fetches' = 0
      BY <1>1, <1>2, <3>3
    <3> QED  BY <1>6, <3>1, <3>2, <3>3 DEF ApplyRestarts
  <2>3. archive' \in {"open", "lost", "lost_patching", "closed", "removed"} /\ panics' \in 0..MaxPanics
        /\ failed' \in BOOLEAN
    <3>1. panics \in 0..MaxPanics /\ failed \in BOOLEAN
          /\ archive \in {"open", "lost", "lost_patching", "closed", "removed"}
      BY DEF SSTypeOK
    <3>2. UNCHANGED <<archive, panics, failed>> \/ Panics("lost")
      BY <1>6 DEF ApplyRestarts
    <3>3. \/ UNCHANGED <<archive, panics, failed>>
          \/ panics < MaxPanics /\ panics' = panics + 1 /\ archive' = "lost" /\ failed' = TRUE
      BY <3>2 DEF Panics
    <3>4. panics' \in 0..MaxPanics
      <4>1. MaxPanics \in Nat /\ panics \in 0..MaxPanics
        BY <1>1, <3>1
      <4>2. panics' = panics \/ (panics < MaxPanics /\ panics' = panics + 1)
        BY <3>3
      <4> QED  BY <4>1, <4>2
    <3> QED  BY <3>1, <3>3, <3>4
  <2>4. recordings' \in {recordings, WithEntries(recordings, restarts)}
    BY <1>6 DEF ApplyRestarts
  <2>5. /\ recordings' \in Seq(Recording) /\ recordings' # <<>>
        /\ Len(recordings') = Len(recordings) /\ DOMAIN recordings' = DOMAIN recordings
        /\ \A r \in DOMAIN recordings : recordings'[r].rows = recordings[r].rows
    <3> DEFINE W == WithEntries(recordings, restarts)  n == Len(recordings)
    <3>1. /\ W \in Seq(Recording) /\ Len(W) = n /\ DOMAIN W = DOMAIN recordings
          /\ \A r \in DOMAIN recordings : r # n => W[r] = recordings[r]
          /\ W[n].rows = recordings[n].rows
      BY <1>1, ExceptLast
    <3>2. n \in Nat \ {0}
      BY <1>1, EmptySeq
    <3> HIDE DEF W
    <3>3. W # <<>>
      BY <3>1, <3>2
    <3> QED  BY <1>1, <2>4, <3>1, <3>3 DEF W
  <2> QED  BY <2>1, <2>2, <2>3, <2>5 DEF SSTypeOK, Wired, At
<1>7. CASE Commit
  <2>1. /\ pc' \in At /\ erred' = FALSE /\ result' \in {"error", result} /\ pump' \in {pump, "gone"}
        /\ archive' \in {archive, "closed"} /\ panics' \in 0..MaxPanics
        /\ {failed', reported'} \subseteq BOOLEAN
        /\ UNCHANGED <<procs, peer, opened, frames, stream, slot, taken, broken, onArrival, stopping>>
    <3>1. /\ panics \in 0..MaxPanics /\ failed \in BOOLEAN /\ reported \in BOOLEAN
      BY DEF SSTypeOK
    <3>2. \/ UNCHANGED <<archive, pump, panics, failed, reported>>
          \/ /\ erred \/ ~Usable \/ panics < MaxPanics
             /\ panics' = IF ~erred /\ Usable THEN panics + 1 ELSE panics
             /\ failed' = TRUE /\ reported' = TRUE /\ archive' = "closed"
             /\ pump' \in {pump, "gone"}
      BY <1>7 DEF Commit, CommitFails, FailArchive
    <3>3. /\ panics' \in 0..MaxPanics /\ failed' \in BOOLEAN /\ reported' \in BOOLEAN
          /\ archive' \in {archive, "closed"} /\ pump' \in {pump, "gone"}
      <4>1. MaxPanics \in Nat /\ panics \in 0..MaxPanics
        BY <1>1, <3>1
      <4>2. panics' = panics \/ (panics < MaxPanics /\ panics' = panics + 1)
        BY <3>2 DEF Usable
      <4>3. panics' \in 0..MaxPanics
        BY <4>1, <4>2
      <4> QED  BY <3>1, <3>2, <4>3
    <3>4. /\ pc' \in At /\ erred' = FALSE /\ result' \in {"error", result}
          /\ UNCHANGED <<procs, peer, opened, frames, stream, slot, taken, broken, onArrival, stopping>>
      BY <1>7 DEF Commit, AfterCommit, At
    <3> QED  BY <3>3, <3>4
  <2>2. \/ recordings' = Committed /\ staged' = {}
        \/ UNCHANGED <<recordings, staged>>
    BY <1>7 DEF Commit
  <2>3. StoreOK'
    <3>1. /\ Committed \in Seq(Recording) /\ Len(Committed) = Len(recordings)
          /\ DOMAIN Committed = DOMAIN recordings
      BY <1>1, CommittedShape
    <3>2. Committed # <<>>
      BY <1>1, <3>1, EmptySeq
    <3> QED  BY <1>1, <2>1, <2>2, <3>1, <3>2, CommittedOK DEF StoreOK, SSTypeOK, Wired
  <2> QED  BY <2>1, <2>3 DEF StoreOK, SSTypeOK, Wired, slot, InOrder
<1>8. CASE Finalize
  <2>1. /\ pc' = "stopped" /\ archive' \in {"removed", "closed"}
        /\ result' \in {"discarded", "ok", "error"}
        /\ UNCHANGED <<pumpVars, stream, slot, staged, taken, broken, panics, erred, failed, reported,
                       onArrival, stopping>>
        /\ recordings' \in {recordings, [recordings EXCEPT ![Len(recordings)].final = TRUE]}
    BY <1>8 DEF Finalize
  <2>2. /\ recordings' \in Seq(Recording) /\ recordings' # <<>>
        /\ Len(recordings') = Len(recordings) /\ DOMAIN recordings' = DOMAIN recordings
        /\ \A r \in DOMAIN recordings : recordings'[r].rows = recordings[r].rows
    <3> DEFINE W == [recordings EXCEPT ![Len(recordings)].final = TRUE]  n == Len(recordings)
    <3>1. /\ W \in Seq(Recording) /\ Len(W) = n /\ DOMAIN W = DOMAIN recordings
          /\ \A r \in DOMAIN recordings : r # n => W[r] = recordings[r]
          /\ W[n].rows = recordings[n].rows
      BY <1>1, ExceptLast
    <3>2. n \in Nat \ {0}
      BY <1>1, EmptySeq
    <3> HIDE DEF W
    <3>3. W # <<>>
      BY <3>1, <3>2
    <3> QED  BY <1>1, <2>1, <3>1, <3>3 DEF W
  <2> QED  BY <2>1, <2>2 DEF SSTypeOK, Wired, At, pumpVars, slot, InOrder
<1>9. CASE Abandon
  BY <1>9 DEF Abandon, slot, SSTypeOK, Wired, InOrder, At
<1>10. CASE PatchPanics
  BY <1>1, <1>10 DEF PatchPanics, Panics, pumpVars, slot, SSTypeOK, Wired, InOrder
<1> QED  BY <1>3, <1>4, <1>5, <1>6, <1>7, <1>8, <1>9, <1>10

LEMMA TypeInit == SSInit => TypeInv
<1> SUFFICES ASSUME SSInit  PROVE TypeInv
  OBVIOUS
<1>1. PICK n \in Names \cup {NoName} : procs = <<n>>
  BY DEF SSInit
<1>2. /\ procs \in Seq(Names \cup {NoName}) /\ Len(procs) = 1 /\ procs[1] \in Names \cup {NoName}
  BY <1>1
<1>3. Opened(1) \in Recording /\ Opened(1).rows = {}
  BY Bounds DEF Opened, Recording, Restart
<1>4. /\ recordings \in Seq(Recording) /\ Len(recordings) = 1 /\ recordings # <<>>
      /\ \A r \in DOMAIN recordings : recordings[r].rows = {}
  <2> DEFINE o == Opened(1)
  <2>1. recordings = <<o>> /\ o \in Recording /\ o.rows = {}
    BY <1>3 DEF SSInit
  <2> HIDE DEF o
  <2> QED  BY <2>1
<1>5. /\ MaxReconnects \in Nat /\ MaxFrames \in Nat /\ StreamCap \in Nat /\ MaxPanics \in Nat
      /\ FetchAttempts \in Nat \ {0} /\ 1 \in Procs
  BY Bounds
<1>6. /\ stream \in Seq(StreamEvent) /\ Len(stream) = 0 /\ DOMAIN stream = {}
      /\ restarts \in Seq(Restart) /\ Len(restarts) = 0 /\ DOMAIN restarts = {}
  BY DEF SSInit
<1>7. /\ {active, added, delivered, broken, erred, failed, reported, stopping} \subseteq BOOLEAN
      /\ archive = "open" /\ result = "none" /\ pc \in At /\ onArrival \in OnArrivals
      /\ pump = "reading"
  BY DEF SSInit, At
<1>8. /\ peer = 1 /\ opened = 0 /\ frames = 0 /\ fetches = 0 /\ panics = 0 /\ epoch = 1
      /\ producer \in Names \cup {NoName} /\ staged = {} /\ taken = {}
  BY <1>2 DEF SSInit
<1>9. SSTypeOK
  BY <1>2, <1>4, <1>5, <1>6, <1>7, <1>8 DEF SSTypeOK
<1> QED  BY <1>2, <1>4, <1>6, <1>7, <1>8, <1>9 DEF TypeInv, Wired, InOrder

LEMMA TypeStep == TypeInv /\ [SSNext]_ssvars => TypeInv'
<1> SUFFICES ASSUME TypeInv, [SSNext]_ssvars  PROVE TypeInv'
  OBVIOUS
<1>1. CASE Pump
  BY <1>1, TypePump
<1>2. CASE Arrives \/ Drain
  <2>1. Receive /\ pc' \in At
    BY <1>2 DEF Arrives, Drain, TypeInv, SSTypeOK, At
  <2> QED  BY <2>1, TypeReceive
<1>3. CASE \/ \E n \in Names \cup {NoName} : NewProcess(n)
           \/ WriterBreaks \/ Tick \/ Drained \/ ApplyRestarts \/ Commit \/ Finish
           \/ Finalize \/ Abandon \/ PatchPanics
  BY <1>3, TypeDriver
<1>4. CASE UNCHANGED ssvars
  BY <1>4 DEF ssvars, pumpVars, slot, store, driver, TypeInv, SSTypeOK, Wired, InOrder
<1> QED  BY <1>1, <1>2, <1>3, <1>4 DEF SSNext, DriverStep

\* Every variable keeps its type: a restart is asked about FetchAttempts
\* times at most, and rows are staged for a recording there is.
THEOREM SourceTypes == SSSpec => []SSTypeOK
<1>1. TypeInv => SSTypeOK
  BY DEF TypeInv
<1> QED  BY TypeInit, TypeStep, <1>1, PTL DEF SSSpec

-----------------------------------------------------------------------------
(* What travels the channel.                                               *)

LEMMA OrderedStep ==
    ASSUME TypeInv, Ordered, [SSNext]_ssvars
    PROVE  Ordered'
<1>1. /\ stream \in Seq(StreamEvent) /\ Len(stream) <= StreamCap /\ frames \in Nat
      /\ taken \subseteq Nat /\ DOMAIN stream = 1..Len(stream) /\ Len(stream) \in Nat
      /\ \A i \in DOMAIN stream : stream[i].ts \in Nat
      /\ peer \in Procs /\ Len(procs) \in Procs
  <2>1. /\ stream \in Seq(StreamEvent) /\ Len(stream) <= StreamCap /\ frames \in 0..MaxFrames
        /\ taken \subseteq Stamps /\ peer \in Procs /\ Len(procs) \in Procs
    BY DEF TypeInv, SSTypeOK
  <2>2. MaxFrames \in Nat /\ Stamps \subseteq Nat
    BY Bounds
  <2> QED  BY <2>1, <2>2, StreamEnds
<1>2. ASSUME NEW kind \in {"interval", "dropped", "connected", "refused"}, peer' \in Procs,
             NEW ts \in Stamps \cup {NoStamp}, PumpSend(kind, ts),
             \/ ts = NoStamp /\ frames' = frames
             \/ ts = frames' /\ frames' = frames + 1
      PROVE  Ordered'
  <2> DEFINE n == Len(stream)  e == [kind |-> kind, proc |-> peer', ts |-> ts]
  <2>1. /\ DOMAIN stream' = 1..(n + 1) /\ DOMAIN stream = 1..n
        /\ \A i \in DOMAIN stream : stream'[i] = stream[i]
        /\ stream'[n + 1] = e
    BY <1>1, <1>2, SendShape
  <2>2. e.ts = ts
    OBVIOUS
  <2>3. taken' = taken
    BY <1>2 DEF PumpSend, store
  <2> HIDE DEF e
  <2>4. ASSUME NEW i \in DOMAIN stream'
        PROVE  /\ stream'[i].ts <= frames'
               /\ stream'[i].ts # NoStamp => \A t \in taken' : t < stream'[i].ts
    <3>1. CASE i = n + 1
      <4>1. stream'[i].ts = ts /\ NoStamp = 0 /\ \A t \in taken : t <= frames
        BY <3>1, <2>1, <2>2, Bounds DEF Ordered
      <4> QED  BY <4>1, <1>1, <1>2, <2>3
    <3>2. CASE i \in 1..n
      BY <3>2, <1>1, <1>2, <2>1, <2>3 DEF Ordered
    <3> QED  BY <3>1, <3>2, <2>1, <1>1
  <2>5. ASSUME NEW i \in DOMAIN stream', NEW j \in DOMAIN stream', i < j,
               stream'[i].ts # NoStamp, stream'[j].ts # NoStamp
        PROVE  stream'[i].ts < stream'[j].ts
    <3>1. i \in 1..n /\ stream'[i] = stream[i] /\ stream[i].ts <= frames
      BY <2>5, <2>1, <1>1 DEF Ordered
    <3>2. CASE j = n + 1
      BY <3>1, <3>2, <2>5, <1>1, <1>2, <2>1, <2>2
    <3>3. CASE j \in 1..n
      BY <3>1, <3>3, <2>5, <2>1 DEF Ordered
    <3> QED  BY <3>2, <3>3, <2>1, <1>1
  <2> QED  BY <2>3, <2>4, <2>5, <1>1, <1>2 DEF Ordered
<1>3. NoStamp \in Stamps \cup {NoStamp} /\ MaxFrames \in Nat
  BY Bounds
<1>4. CASE PumpInterval
  <2>1. peer' = peer
    BY <1>4 DEF PumpInterval
  <2>2. CASE frames < MaxFrames /\ frames' = frames + 1 /\ PumpSend("interval", frames')
    <3>1. frames' \in Stamps
      BY <2>2, <1>1, <1>3 DEF Stamps
    <3> QED  BY <1>1, <1>2, <2>1, <2>2, <3>1
  <2>3. CASE frames' = frames /\ PumpSend("interval", NoStamp)
    BY <1>1, <1>2, <1>3, <2>1, <2>3
  <2> QED  BY <1>4, <2>2, <2>3 DEF PumpInterval
<1>5. CASE PumpDropped \/ PumpConnected \/ PumpRefused
  BY <1>1, <1>2, <1>3, <1>5 DEF PumpDropped, PumpConnected, PumpRefused
<1>6. CASE Receive
  <2>1. /\ stream # <<>> /\ stream' = Tail(stream) /\ frames' = frames
        /\ OnStreamEvent(stream[1]) /\ 1 \in DOMAIN stream
        /\ DOMAIN Tail(stream) = 1..(Len(stream) - 1)
        /\ \A i \in DOMAIN stream' : i + 1 \in DOMAIN stream /\ stream'[i] = stream[i + 1]
    BY <1>1, <1>6, StreamEnds DEF Receive
  <2>2. \/ taken' = taken
        \/ taken' = taken \cup {stream[1].ts} /\ stream[1].ts # NoStamp
    BY <2>1 DEF OnStreamEvent, Interval, NewSource, Adopt, Refused, store
  <2>3. \A i \in DOMAIN stream' :
          stream[1].ts # NoStamp /\ stream[i + 1].ts # NoStamp => stream[1].ts < stream[i + 1].ts
    BY <1>1, <2>1 DEF Ordered
  <2>4. ASSUME NEW i \in DOMAIN stream'
        PROVE  /\ stream'[i].ts <= frames'
               /\ stream'[i].ts # NoStamp => \A t \in taken' : t < stream'[i].ts
    BY <2>1, <2>2, <2>3 DEF Ordered
  <2>5. \A i, j \in DOMAIN stream' :
          i < j /\ stream'[i].ts # NoStamp /\ stream'[j].ts # NoStamp
              => stream'[i].ts < stream'[j].ts
    BY <1>1, <2>1 DEF Ordered
  <2>6. \A t \in taken' : t <= frames'
    BY <1>1, <2>1, <2>2 DEF Ordered
  <2> QED  BY <2>4, <2>5, <2>6 DEF Ordered
<1>7. CASE UNCHANGED <<stream, frames, taken>>
  BY <1>7 DEF Ordered
<1>8. \/ Pump \/ Receive \/ UNCHANGED <<stream, frames, taken>>
  BY DEF SSNext, ssvars, pumpVars, slot, store, driver, DriverStep, Arrives, Drain, NewProcess,
         WriterBreaks, Tick, Drained, ApplyRestarts, Commit, Finish, Finalize, Abandon, PatchPanics
<1> QED  BY <1>4, <1>5, <1>6, <1>7, <1>8 DEF Pump

LEMMA ChainedStep ==
    ASSUME TypeInv, Chained, [SSNext]_ssvars
    PROVE  Chained'
<1> SUFFICES ASSUME archive' = "open"
             PROVE  /\ \A i \in DOMAIN stream' :
                          stream'[i].kind # "connected" => stream'[i].proc = Before(i)'
                    /\ peer' = Before(Len(stream) + 1)'
  BY DEF Chained
<1>1. /\ stream \in Seq(StreamEvent) /\ Len(stream) <= StreamCap
      /\ DOMAIN stream = 1..Len(stream) /\ Len(stream) \in Nat
      /\ peer \in Procs /\ Len(procs) \in Procs
  BY StreamEnds DEF TypeInv, SSTypeOK
<1>2. archive = "open"
  BY DEF SSNext, ssvars, pumpVars, slot, store, driver, DriverStep, Arrives, Drain, NewProcess,
         WriterBreaks, Tick, Drained, ApplyRestarts, Commit, Finish, Finalize, Abandon, PatchPanics,
         Pump, PumpInterval, PumpDropped, PumpConnected, PumpRefused, PumpSend, Receive, OnStreamEvent,
         Interval, NewSource, Adopt, Refused, FailArchive, Panics, CommitFails
<1>3. /\ \A i \in DOMAIN stream : stream[i].kind # "connected" => stream[i].proc = Before(i)
      /\ peer = Before(Len(stream) + 1)
  BY <1>2 DEF Chained
<1>4. ASSUME NEW kind \in {"interval", "dropped", "connected", "refused"}, peer' \in Procs,
             NEW ts \in Stamps \cup {NoStamp}, PumpSend(kind, ts),
             kind = "connected" \/ peer' = peer
      PROVE  /\ \A i \in DOMAIN stream' :
                   stream'[i].kind # "connected" => stream'[i].proc = Before(i)'
             /\ peer' = Before(Len(stream) + 1)'
  <2> DEFINE n == Len(stream)  e == [kind |-> kind, proc |-> peer', ts |-> ts]
  <2>1. /\ DOMAIN stream' = 1..(n + 1) /\ DOMAIN stream = 1..n /\ Len(stream') = n + 1
        /\ \A i \in DOMAIN stream : stream'[i] = stream[i]
        /\ stream'[n + 1] = e
    BY <1>1, <1>4, SendShape
  <2>2. e.kind = kind /\ e.proc = peer'
    OBVIOUS
  <2>3. epoch' = epoch
    BY <1>4 DEF PumpSend, slot
  <2> HIDE DEF e
  <2>4. \A i \in 1..(n + 1) : Before(i)' = Before(i)
    BY <1>1, <2>1, <2>3 DEF Before
  <2>5. Before(Len(stream) + 1)' = peer'
    BY <1>1, <2>1, <2>2 DEF Before
  <2>6. ASSUME NEW i \in 1..(n + 1), stream'[i].kind # "connected"
        PROVE  stream'[i].proc = Before(i)'
    BY <1>1, <1>3, <1>4, <2>1, <2>2, <2>4, <2>6
  <2> QED  BY <2>1, <2>5, <2>6
<1>5. CASE Pump
  <2>1. NoStamp \in Stamps \cup {NoStamp} /\ MaxFrames \in Nat
    BY Bounds
  <2>2. CASE PumpInterval
    <3>1. peer' = peer
      BY <2>2 DEF PumpInterval
    <3>2. CASE frames < MaxFrames /\ frames' = frames + 1 /\ PumpSend("interval", frames')
      <4>1. frames' \in Stamps
        BY <3>2, <2>1 DEF Stamps, TypeInv, SSTypeOK
      <4> QED  BY <1>1, <1>4, <3>1, <3>2, <4>1
    <3>3. CASE PumpSend("interval", NoStamp)
      BY <1>1, <1>4, <2>1, <3>1, <3>3
    <3> QED  BY <2>2, <3>2, <3>3 DEF PumpInterval
  <2>3. CASE PumpDropped \/ PumpConnected \/ PumpRefused
    BY <1>1, <1>4, <2>1, <2>3 DEF PumpDropped, PumpConnected, PumpRefused
  <2> QED  BY <1>5, <2>2, <2>3 DEF Pump
<1>6. CASE Receive
  <2>1. /\ stream # <<>> /\ stream' = Tail(stream) /\ peer' = peer
        /\ OnStreamEvent(stream[1]) /\ 1 \in DOMAIN stream
        /\ DOMAIN stream' = 1..(Len(stream) - 1) /\ Len(stream') = Len(stream) - 1
        /\ \A i \in DOMAIN stream' : i + 1 \in DOMAIN stream /\ stream'[i] = stream[i + 1]
    BY <1>1, <1>6, StreamEnds DEF Receive
  <2>2. epoch' = stream[1].proc
    <3>1. CASE stream[1].kind = "connected"
      <4>1. NewSource(stream[1].proc) \/ Adopt(stream[1].proc)
        BY <2>1, <3>1 DEF OnStreamEvent
      <4> QED  BY <4>1 DEF NewSource, FailArchive, Adopt
    <3>2. CASE stream[1].kind # "connected"
      <4>1. stream[1].proc = epoch
        BY <1>3, <2>1, <3>2 DEF Before
      <4>2. epoch' = epoch
        BY <2>1, <3>2 DEF OnStreamEvent, Interval, Refused, slot
      <4> QED  BY <4>1, <4>2
    <3> QED  BY <3>1, <3>2
  <2>3. \A i \in 1..Len(stream) : Before(i)' = stream[i].proc
    BY <1>1, <2>1, <2>2 DEF Before
  <2>4. \A i \in 1..Len(stream) : Before(i + 1) = stream[i].proc
    BY <1>1 DEF Before
  <2>5. ASSUME NEW i \in DOMAIN stream', stream'[i].kind # "connected"
        PROVE  stream'[i].proc = Before(i)'
    <3>1. i \in 1..Len(stream) /\ stream'[i] = stream[i + 1] /\ i + 1 \in DOMAIN stream
      BY <1>1, <2>1
    <3> QED  BY <3>1, <1>3, <2>3, <2>4, <2>5
  <2>6. peer' = Before(Len(stream) + 1)'
    <3>1. PICK n \in Nat : n = Len(stream) /\ n > 0
      <4>1. Len(stream) \in Nat /\ Len(stream) > 0
        BY <1>1, <2>1
      <4> QED  BY <4>1
    <3>2. peer' = stream[n].proc
      BY <1>3, <2>1, <2>4, <3>1
    <3>3. Len(stream') + 1 = n
      BY <2>1, <3>1
    <3>4. Before(Len(stream) + 1)' = IF n = 1 THEN epoch' ELSE stream'[n - 1].proc
      BY <3>3 DEF Before
    <3> QED  BY <2>1, <2>2, <3>1, <3>2, <3>4
  <2> QED  BY <2>5, <2>6
<1>7. CASE UNCHANGED <<stream, epoch, peer>>
  BY <1>3, <1>7 DEF Before
<1>8. \/ Pump \/ Receive \/ UNCHANGED <<stream, epoch, peer>>
  BY DEF SSNext, ssvars, pumpVars, slot, store, driver, DriverStep, Arrives, Drain, NewProcess,
         WriterBreaks, Tick, Drained, ApplyRestarts, Commit, Finish, Finalize, Abandon, PatchPanics
<1> QED  BY <1>5, <1>6, <1>7, <1>8

-----------------------------------------------------------------------------
(* A recording is of one producer.                                         *)

LEMMA HandShape ==
    ASSUME TypeInv
    PROVE  LET n == Len(recordings)
           IN  /\ n \in DOMAIN recordings /\ DOMAIN recordings = 1..n /\ n \in Nat
               /\ RowsInHand \subseteq Row /\ \A w \in RowsInHand : w.proc <= Len(procs)
               /\ \A r \in DOMAIN recordings :
                     /\ Committed[r].rows = AllRows(r) /\ recordings[r].rows \subseteq AllRows(r)
                     /\ AllRows(r) \subseteq Row /\ \A w \in AllRows(r) : w.proc <= Len(procs)
<1> DEFINE n == Len(recordings)
<1>1. /\ recordings \in Seq(Recording) /\ recordings # <<>>
      /\ staged \subseteq [ts : Stamps, proc : Procs, rec : DOMAIN recordings]
      /\ \A s \in staged : s.rec = n /\ s.proc <= Len(procs)
      /\ \A r \in DOMAIN recordings : \A w \in recordings[r].rows : w.proc <= Len(procs)
  BY DEF TypeInv, SSTypeOK, Wired
<1>2. /\ n \in DOMAIN recordings /\ DOMAIN recordings = 1..n /\ n \in Nat
      /\ \A r \in DOMAIN recordings : recordings[r].rows \subseteq Row
  BY <1>1, RecordingFields
<1>3. \A r \in DOMAIN recordings : Committed[r].rows = recordings[r].rows \cup
          {[ts |-> s.ts, proc |-> s.proc] : s \in {x \in staged : x.rec = r}}
  BY <1>1, CommittedShape
<1> HIDE DEF n
<1>4. {x \in staged : x.rec = n} = staged
      /\ \A r \in DOMAIN recordings : r # n => {x \in staged : x.rec = r} = {}
  BY <1>1
<1>5. Committed[n].rows = RowsInHand
  BY <1>2, <1>3, <1>4 DEF n, RowsInHand, InHand
<1>6. ASSUME NEW r \in DOMAIN recordings, r # n  PROVE Committed[r].rows = recordings[r].rows
  <2>1. {[ts |-> s.ts, proc |-> s.proc] : s \in {x \in staged : x.rec = r}} = {}
    BY <1>4, <1>6
  <2> QED  BY <1>3, <2>1
<1>7. RowsInHand \subseteq Row /\ \A w \in RowsInHand : w.proc <= Len(procs)
  BY <1>1, <1>2 DEF RowsInHand, InHand, Row, n
<1>8. recordings[n].rows \subseteq RowsInHand
  BY DEF RowsInHand, InHand, n
<1> QED  BY <1>1, <1>2, <1>5, <1>6, <1>7, <1>8 DEF n, AllRows

\* A step after which the recordings have the rows they had.
LEMMA SameRows ==
    ASSUME TypeInv, TypeInv',
           Len(recordings') = Len(recordings), RowsInHand' = RowsInHand,
           \A r \in DOMAIN recordings : r # Len(recordings) => recordings'[r].rows = recordings[r].rows
    PROVE  /\ DOMAIN recordings' = DOMAIN recordings
           /\ \A r \in DOMAIN recordings : AllRows(r)' = AllRows(r)
<1>1. DOMAIN recordings' = 1..Len(recordings') /\ DOMAIN recordings = 1..Len(recordings)
  BY RecordingFields DEF TypeInv, SSTypeOK
<1> QED  BY <1>1 DEF AllRows

\* Commits, finals and restarts written move no row to another recording.
LEMMA StoreSteps ==
    ASSUME TypeInv,
           \/ recordings' = Committed /\ staged' = {}
           \/ recordings' = Finalized /\ staged' = {}
           \/ recordings' = WithEntries(recordings, restarts) /\ staged' = staged
           \/ recordings' = [recordings EXCEPT ![Len(recordings)].final = TRUE] /\ staged' = staged
           \/ UNCHANGED <<recordings, staged>>
    PROVE  /\ Len(recordings') = Len(recordings) /\ RowsInHand' = RowsInHand
           /\ DOMAIN recordings' = DOMAIN recordings
           /\ \A r \in DOMAIN recordings :
                 r # Len(recordings) => /\ recordings'[r].rows = recordings[r].rows
                                        /\ recordings'[r].entries = recordings[r].entries
<1> DEFINE n == Len(recordings)
<1>1. /\ recordings \in Seq(Recording) /\ recordings # <<>> /\ restarts \in Seq(Restart)
      /\ staged \subseteq [ts : Stamps, proc : Procs, rec : DOMAIN recordings]
  BY DEF TypeInv, SSTypeOK, Wired
<1>2. /\ n \in DOMAIN recordings
      /\ \A r \in DOMAIN recordings : Committed[r].rows = AllRows(r)
  BY HandShape
<1>3. CASE (recordings' = Committed \/ recordings' = Finalized) /\ staged' = {}
  <2>1. /\ Len(recordings') = n /\ DOMAIN recordings' = DOMAIN recordings
        /\ \A r \in DOMAIN recordings : recordings'[r].rows = Committed[r].rows
        /\ \A r \in DOMAIN recordings : r # n => recordings'[r].entries = Committed[r].entries
    BY <1>3, FinalizedShape, <1>1, CommittedShape
  <2>2. \A r \in DOMAIN recordings : Committed[r].entries = recordings[r].entries
    BY <1>1, CommittedShape
  <2>3. RowsInHand' = recordings'[n].rows
    BY <1>3, <2>1 DEF RowsInHand, InHand
  <2> QED  BY <1>2, <2>1, <2>2, <2>3 DEF AllRows
<1>4. CASE /\ \/ recordings' = WithEntries(recordings, restarts)
              \/ recordings' = [recordings EXCEPT ![n].final = TRUE]
           /\ staged' = staged
  <2>1. /\ Len(recordings') = n /\ DOMAIN recordings' = DOMAIN recordings
        /\ \A r \in DOMAIN recordings : r # n => recordings'[r] = recordings[r]
        /\ recordings'[n].rows = recordings[n].rows
    <3>1. CASE recordings' = WithEntries(recordings, restarts)
      BY <1>1, <3>1, ExceptLast
    <3>2. CASE recordings' = [recordings EXCEPT ![n].final = TRUE]
      <4>1. <<>> \in Seq(Restart)
        OBVIOUS
      <4> QED  BY <1>1, <3>2, <4>1, ExceptLast
    <3> QED  BY <1>4, <3>1, <3>2
  <2>2. RowsInHand' = RowsInHand
    BY <1>4, <2>1 DEF RowsInHand, InHand
  <2> QED  BY <2>1, <2>2
<1>5. CASE UNCHANGED <<recordings, staged>>
  BY <1>5 DEF RowsInHand, InHand
<1> QED  BY <1>3, <1>4, <1>5

\* The new producer's recording has no row.
LEMMA AppendedRows ==
    ASSUME TypeInv, NEW p \in Procs, staged' = {},
           recordings' = Append(Finalized, Opened(p))
    PROVE  /\ Len(recordings') = Len(recordings) + 1
           /\ DOMAIN recordings' = 1..(Len(recordings) + 1)
           /\ RowsInHand' = {}
           /\ InHand' = Opened(p)
           /\ \A r \in DOMAIN recordings : /\ recordings'[r] = Finalized[r]
                                          /\ recordings'[r].rows = AllRows(r)
<1> DEFINE n == Len(recordings)  F == Finalized  o == Opened(p)
<1>1. /\ F \in Seq(Recording) /\ Len(F) = n /\ DOMAIN F = DOMAIN recordings
      /\ \A r \in DOMAIN recordings : F[r].rows = Committed[r].rows
      /\ n \in DOMAIN recordings /\ DOMAIN recordings = 1..n /\ n \in Nat
  BY FinalizedShape, HandShape
<1>2. o \in Recording /\ o.rows = {}
  BY Bounds DEF Opened, Recording, Restart
<1>3. recordings' = Append(F, o)
  OBVIOUS
<1> HIDE DEF F, o
<1>4. /\ recordings' \in Seq(Recording) /\ Len(recordings') = n + 1
      /\ \A r \in 1..n : recordings'[r] = F[r]
      /\ recordings'[n + 1] = o
  BY <1>1, <1>2, <1>3, AppendProperties
<1>5. DOMAIN recordings' = 1..(n + 1)
  BY <1>4, RecordingFields
<1>6. RowsInHand' = {} /\ InHand' = o
  BY <1>2, <1>4 DEF RowsInHand, InHand
<1>7. \A r \in DOMAIN recordings : recordings'[r].rows = AllRows(r)
  BY <1>1, <1>4, HandShape
<1> QED  BY <1>1, <1>4, <1>5, <1>6, <1>7 DEF F, o

LEMMA RowsNamedStep ==
    ASSUME TypeInv, Chained, RowsNamed, TypeInv', [SSNext]_ssvars
    PROVE  RowsNamed'
<1> DEFINE n == Len(recordings)
<1>1. /\ procs[epoch] \in {NoName, producer}
      /\ ~stopping =>
            /\ added => \A w \in RowsInHand : procs[w.proc] \in {NoName, producer}
            /\ \A r \in DOMAIN recordings : Agree(AllRows(r))
  BY DEF RowsNamed
<1>2. /\ n \in DOMAIN recordings /\ DOMAIN recordings = 1..n /\ n \in Nat
      /\ RowsInHand \subseteq Row /\ \A w \in RowsInHand : w.proc <= Len(procs)
      /\ \A r \in DOMAIN recordings :
            /\ Committed[r].rows = AllRows(r) /\ recordings[r].rows \subseteq AllRows(r)
            /\ AllRows(r) \subseteq Row /\ \A w \in AllRows(r) : w.proc <= Len(procs)
  BY HandShape
<1>3. \A w \in Row : w.proc \in Procs
  BY DEF Row
<1>4. /\ DOMAIN recordings' = 1..Len(recordings') /\ procs \in Seq(Names \cup {NoName})
      /\ DOMAIN procs = 1..Len(procs) /\ epoch \in Procs /\ epoch <= Len(procs)
  BY RecordingFields, LenProperties DEF TypeInv, SSTypeOK, Wired
\* Rows where they were, producer, epoch and names as they were.
<1>5. ASSUME UNCHANGED <<procs, epoch, producer, added>>, stopping' \in {stopping, TRUE},
             Len(recordings') = n, RowsInHand' = RowsInHand,
             \A r \in DOMAIN recordings : r # n => recordings'[r].rows = recordings[r].rows
      PROVE  RowsNamed'
  <2>1. DOMAIN recordings' = DOMAIN recordings
        /\ \A r \in DOMAIN recordings : AllRows(r)' = AllRows(r)
    BY <1>5, SameRows
  <2>2. ~stopping' => ~stopping
    BY <1>5
  <2>3. \A R : Agree(R)' <=> Agree(R')
    BY <1>5 DEF Agree
  <2>4. ASSUME ~stopping, NEW r \in DOMAIN recordings  PROVE Agree(AllRows(r))'
    BY <1>1, <1>5, <2>1, <2>4 DEF Agree
  <2> QED  BY <1>1, <1>5, <2>1, <2>2, <2>4 DEF RowsNamed
<1>6. ASSUME NEW m \in Names \cup {NoName}, NewProcess(m)  PROVE RowsNamed'
  <2>1. procs' = Append(procs, m) /\ UNCHANGED <<slot, store, driver>>
    BY <1>6 DEF NewProcess
  <2>2. \A p \in Procs : p <= Len(procs) => procs'[p] = procs[p]
    BY <1>4, <2>1, AppendProperties DEF Procs
  <2>3. /\ RowsInHand' = RowsInHand /\ recordings' = recordings
        /\ \A r : AllRows(r)' = AllRows(r)
        /\ UNCHANGED <<epoch, producer, added, stopping>>
    BY <2>1 DEF RowsInHand, InHand, AllRows, slot, store, driver
  <2>4. \A r \in DOMAIN recordings : \A w \in AllRows(r) : procs'[w.proc] = procs[w.proc]
    BY <1>2, <1>3, <2>2
  <2>5. \A w \in RowsInHand : procs'[w.proc] = procs[w.proc]
    BY <1>2, <1>3, <2>2
  <2>6. procs'[epoch] = procs[epoch]
    BY <1>4, <2>2
  <2>7. ~stopping' => /\ added' => \A w \in RowsInHand' : procs'[w.proc] \in {NoName, producer'}
                      /\ \A r \in DOMAIN recordings' : Agree(AllRows(r))'
    BY <1>1, <2>3, <2>4, <2>5 DEF Agree
  <2> QED  BY <1>1, <2>3, <2>6, <2>7 DEF RowsNamed
<1>7. CASE Commit \/ ApplyRestarts \/ Finalize
  <2>1. \/ recordings' = Committed /\ staged' = {}
        \/ recordings' = WithEntries(recordings, restarts) /\ staged' = staged
        \/ recordings' = [recordings EXCEPT ![n].final = TRUE] /\ staged' = staged
        \/ UNCHANGED <<recordings, staged>>
    BY <1>7 DEF Commit, ApplyRestarts, Finalize
  <2>2. UNCHANGED <<procs, epoch, producer, added>> /\ stopping' = stopping
    BY <1>7 DEF Commit, ApplyRestarts, Finalize, slot, pumpVars
  <2> QED  BY <1>5, <2>1, <2>2, StoreSteps
<1>8. CASE UNCHANGED <<procs, epoch, producer, added, recordings, staged>>
           /\ stopping' \in {stopping, TRUE}
  BY <1>5, <1>8 DEF RowsInHand, InHand
<1>9. CASE Receive
  <2> DEFINE e == stream[1]  p == e.proc
  <2>1. /\ stream # <<>> /\ OnStreamEvent(e) /\ 1 \in DOMAIN stream
        /\ UNCHANGED <<procs, stopping>> /\ p \in Procs /\ p <= Len(procs)
    <3>1. stream \in Seq(StreamEvent) /\ stream # <<>> /\ OnStreamEvent(Head(stream))
          /\ UNCHANGED <<procs, stopping>>
      BY <1>9 DEF Receive, TypeInv, SSTypeOK
    <3>2. Head(stream) = e /\ 1 \in DOMAIN stream /\ p \in Procs
      BY <3>1, StreamEnds
    <3> QED  BY <3>1, <3>2 DEF TypeInv, Wired
  <2>2. CASE e.kind = "interval" /\ Interval(e)
    <3>1. CASE UNCHANGED staged
      BY <1>8, <2>1, <2>2, <3>1 DEF Interval
    <3>2. CASE staged' = staged \cup {[ts |-> e.ts, proc |-> p, rec |-> n]}
               /\ archive = "open" /\ added
      <4>1. /\ UNCHANGED <<recordings, epoch, producer, added>>
            /\ RowsInHand' = RowsInHand \cup {[ts |-> e.ts, proc |-> p]}
        <5> DEFINE x == [ts |-> e.ts, proc |-> p, rec |-> n]
                   Shown(S) == {[ts |-> s.ts, proc |-> s.proc] : s \in S}
        <5>1. x.ts = e.ts /\ x.proc = p /\ staged' = staged \cup {x}
          BY <3>2
        <5> HIDE DEF x
        <5>2. Shown(staged') = Shown(staged) \cup {[ts |-> e.ts, proc |-> p]}
          BY <5>1
        <5>3. UNCHANGED <<recordings, epoch, producer, added>>
          BY <2>2 DEF Interval
        <5>4. RowsInHand = InHand.rows \cup Shown(staged)
          BY DEF RowsInHand
        <5>5. RowsInHand' = InHand.rows \cup Shown(staged')
          BY <5>3 DEF RowsInHand, InHand
        <5> HIDE DEF Shown
        <5> QED  BY <5>2, <5>3, <5>4, <5>5
      <4>2. p = epoch
        BY <2>1, <2>2, <3>2 DEF Chained, Before
      <4>3. ASSUME ~stopping  PROVE \A w \in RowsInHand' : procs[w.proc] \in {NoName, producer}
        BY <1>1, <3>2, <4>1, <4>2, <4>3
      <4>4. ASSUME ~stopping, NEW r \in DOMAIN recordings  PROVE Agree(AllRows(r)')
        <5>1. CASE r = n
          <6>1. AllRows(r)' = RowsInHand'
            BY <4>1, <5>1 DEF AllRows
          <6> QED  BY <4>3, <4>4, <6>1 DEF Agree
        <5>2. CASE r # n
          <6>1. AllRows(r)' = AllRows(r)
            BY <4>1, <5>2 DEF AllRows
          <6> QED  BY <1>1, <4>4, <6>1
        <5> QED  BY <5>1, <5>2
      <4>5. \A R : Agree(R)' <=> Agree(R')
        BY <2>1 DEF Agree
      <4> QED  BY <1>1, <2>1, <4>1, <4>3, <4>4, <4>5 DEF RowsNamed, Agree
    <3> QED  BY <2>2, <3>1, <3>2 DEF Interval
  <2>3. CASE UNCHANGED <<slot, store, erred, failed, reported, pump>> \/ Refused
    BY <1>8, <2>1, <2>3 DEF slot, store, Refused
  <2>4. CASE ~Changes(p) /\ Adopt(p)
    <3>1. /\ producer' = (IF procs[p] = NoName THEN producer ELSE procs[p])
          /\ epoch' = p /\ UNCHANGED <<added, recordings, staged>>
      BY <2>4 DEF Adopt, Named, store
    <3>2. RowsInHand' = RowsInHand /\ \A r \in DOMAIN recordings : AllRows(r)' = AllRows(r)
      BY <3>1 DEF RowsInHand, InHand, AllRows
    <3>3. ASSUME ~stopping, added, NEW w \in RowsInHand  PROVE procs[w.proc] \in {NoName, producer'}
      BY <1>1, <2>4, <3>1, <3>3 DEF Changes
    <3>4. procs[epoch'] \in {NoName, producer'}
      BY <3>1
    <3> QED  BY <1>1, <2>1, <3>1, <3>2, <3>3, <3>4 DEF RowsNamed, Agree
  <2>5. CASE NewSource(p)
    <3>1. CASE Usable /\ recordings' = Append(Finalized, Opened(p)) /\ staged' = {}
               /\ epoch' = p /\ producer' = procs[p]
      <4>1. /\ Len(recordings') = n + 1 /\ DOMAIN recordings' = 1..(n + 1) /\ RowsInHand' = {}
            /\ \A r \in DOMAIN recordings : recordings'[r].rows = AllRows(r)
        BY <2>1, <3>1, AppendedRows
      <4>2. \A r \in DOMAIN recordings' : AllRows(r)' = IF r = n + 1 THEN {} ELSE AllRows(r)
        BY <1>2, <4>1 DEF AllRows
      <4>3. ASSUME ~stopping, NEW r \in DOMAIN recordings'  PROVE Agree(AllRows(r)')
        BY <1>1, <1>2, <4>1, <4>2, <4>3 DEF Agree
      <4> QED  BY <2>1, <3>1, <4>1, <4>3 DEF RowsNamed, Agree
    <3>2. CASE Usable /\ recordings' = Finalized /\ staged' = {} /\ added' = FALSE
               /\ epoch' = p /\ producer' = procs[p]
      <4>1. /\ Len(recordings') = n /\ RowsInHand' = RowsInHand
            /\ DOMAIN recordings' = DOMAIN recordings
            /\ \A r \in DOMAIN recordings : r # n => recordings'[r].rows = recordings[r].rows
        BY <3>2, StoreSteps
      <4>2. \A r \in DOMAIN recordings : AllRows(r)' = AllRows(r)
        BY <4>1 DEF AllRows
      <4>3. ASSUME ~stopping, NEW r \in DOMAIN recordings'  PROVE Agree(AllRows(r)')
        BY <1>1, <4>1, <4>2, <4>3 DEF Agree
      <4> QED  BY <2>1, <3>2, <4>1, <4>3 DEF RowsNamed, Agree
    <3>3. CASE UNCHANGED <<epoch, producer, added, staged, recordings>>
      BY <1>8, <2>1, <3>3
    <3> QED  BY <2>5, <3>1, <3>2, <3>3 DEF NewSource, CommitAtChange
  <2> QED  BY <2>1, <2>2, <2>3, <2>4, <2>5 DEF OnStreamEvent
<1>10. \/ \E m \in Names \cup {NoName} : NewProcess(m)
       \/ Commit \/ ApplyRestarts \/ Finalize \/ Receive
       \/ UNCHANGED <<procs, epoch, producer, added, recordings, staged>>
          /\ stopping' \in {stopping, TRUE}
  BY DEF SSNext, ssvars, pumpVars, slot, store, driver, DriverStep, Arrives, Drain,
         WriterBreaks, Tick, Drained, Finish, Abandon, PatchPanics, Pump, PumpInterval,
         PumpDropped, PumpConnected, PumpRefused, PumpSend
<1> QED  BY <1>6, <1>7, <1>8, <1>9, <1>10

-----------------------------------------------------------------------------
(* Every row taken is kept.                                                *)

LEMMA TakenRowsStep ==
    ASSUME TypeInv, TakenRows, TypeInv', [SSNext]_ssvars
    PROVE  TakenRows'
<1> DEFINE n == Len(recordings)
<1>1. n \in DOMAIN recordings /\ DOMAIN recordings = 1..n /\ n \in Nat
  BY HandShape
<1>2. ASSUME taken' = taken, Len(recordings') = n, RowsInHand' = RowsInHand,
             \A r \in DOMAIN recordings : r # n => recordings'[r].rows = recordings[r].rows
      PROVE  TakenRows'
  <2>1. DOMAIN recordings' = DOMAIN recordings
        /\ \A r \in DOMAIN recordings : AllRows(r)' = AllRows(r)
    BY <1>2, SameRows
  <2> QED  BY <1>2, <2>1 DEF TakenRows
<1>3. CASE Commit \/ ApplyRestarts \/ Finalize
  <2>1. \/ recordings' = Committed /\ staged' = {}
        \/ recordings' = WithEntries(recordings, restarts) /\ staged' = staged
        \/ recordings' = [recordings EXCEPT ![n].final = TRUE] /\ staged' = staged
        \/ UNCHANGED <<recordings, staged>>
    BY <1>3 DEF Commit, ApplyRestarts, Finalize
  <2>2. taken' = taken
    BY <1>3 DEF Commit, ApplyRestarts, Finalize
  <2> QED  BY <1>2, <2>1, <2>2, StoreSteps
<1>4. CASE UNCHANGED <<taken, recordings, staged>>
  BY <1>2, <1>4 DEF RowsInHand, InHand
<1>5. CASE Receive
  <2> DEFINE e == Head(stream)
  <2>1. OnStreamEvent(e)
    BY <1>5 DEF Receive
  <2>2. e.proc \in Procs
    BY <1>5, StreamEnds DEF Receive, TypeInv, SSTypeOK
  <2> HIDE DEF e
  <2>3. CASE Interval(e) /\ ~UNCHANGED <<staged, taken>>
    <3>1. /\ staged' = staged \cup {[ts |-> e.ts, proc |-> e.proc, rec |-> n]}
          /\ taken' = taken \cup {e.ts} /\ recordings' = recordings
      BY <2>3 DEF Interval
    <3> DEFINE x == [ts |-> e.ts, proc |-> e.proc, rec |-> n]
               Shown(S) == {[ts |-> s.ts, proc |-> s.proc] : s \in S}
               y == [ts |-> e.ts, proc |-> e.proc]
    <3>2. x.ts = e.ts /\ x.proc = e.proc /\ staged' = staged \cup {x} /\ y.ts = e.ts
      BY <3>1
    <3> HIDE DEF x
    <3>3. Shown(staged') = Shown(staged) \cup {y}
      BY <3>2
    <3>4. RowsInHand = InHand.rows \cup Shown(staged)
          /\ RowsInHand' = InHand.rows \cup Shown(staged')
      BY <3>1 DEF RowsInHand, InHand
    <3> HIDE DEF Shown, y
    <3>5. RowsInHand' = RowsInHand \cup {y}
      BY <3>3, <3>4
    <3>6. /\ AllRows(n) = RowsInHand /\ AllRows(n)' = RowsInHand \cup {y}
          /\ \A r \in DOMAIN recordings : r # n => AllRows(r)' = AllRows(r)
      BY <3>1, <3>5 DEF AllRows
    <3> QED  BY <1>1, <3>1, <3>2, <3>6 DEF TakenRows
  <2>4. CASE NewSource(e.proc)
    <3>1. CASE recordings' = Append(Finalized, Opened(e.proc)) /\ staged' = {} /\ taken' = taken
      <4>1. /\ Len(recordings') = n + 1 /\ DOMAIN recordings' = 1..(n + 1) /\ RowsInHand' = {}
            /\ \A r \in DOMAIN recordings : recordings'[r].rows = AllRows(r)
        BY <2>2, <3>1, AppendedRows
      <4>2. PICK m \in Nat : m = n
        BY <1>1
      <4>3. ASSUME NEW r \in 1..(m + 1)
            PROVE  AllRows(r)' = IF r = m + 1 THEN {} ELSE AllRows(r)
        <5>1. AllRows(r)' = IF r = Len(recordings') THEN RowsInHand' ELSE recordings'[r].rows
          BY DEF AllRows
        <5>2. Len(recordings') = m + 1 /\ (r # m + 1 => r \in DOMAIN recordings)
          BY <1>1, <4>1, <4>2
        <5> QED  BY <4>1, <5>1, <5>2
      <4>4. taken' = UNION {{w.ts : w \in AllRows(r)} : r \in 1..m}
        BY <1>1, <3>1, <4>2 DEF TakenRows
      <4>5. \A r \in 1..m : r \in 1..(m + 1) /\ r # m + 1
        BY <4>2
      <4>6. \A r \in 1..(m + 1) : r = m + 1 \/ r \in 1..m
        BY <4>2
      <4>7. taken' = UNION {{w.ts : w \in AllRows(r)'} : r \in 1..(m + 1)}
        BY <4>3, <4>4, <4>5, <4>6
      <4> QED  BY <4>1, <4>2, <4>7 DEF TakenRows
    <3>2. CASE recordings' = Finalized /\ staged' = {} /\ taken' = taken
      BY <1>2, <3>2, StoreSteps
    <3>3. CASE UNCHANGED <<taken, recordings, staged>>
      BY <1>4, <3>3
    <3> QED  BY <2>4, <3>1, <3>2, <3>3 DEF NewSource, CommitAtChange
  <2>5. CASE UNCHANGED <<taken, recordings, staged>>
    BY <1>4, <2>5
  <2> QED  BY <2>1, <2>3, <2>4, <2>5 DEF OnStreamEvent, Interval, Adopt, Refused, store
<1>6. Commit \/ ApplyRestarts \/ Finalize \/ Receive \/ UNCHANGED <<taken, recordings, staged>>
  BY DEF SSNext, ssvars, pumpVars, slot, store, driver, DriverStep, Arrives, Drain, NewProcess,
         WriterBreaks, Tick, Drained, Finish, Abandon, PatchPanics, Pump, PumpInterval,
         PumpDropped, PumpConnected, PumpRefused, PumpSend
<1> QED  BY <1>3, <1>4, <1>5, <1>6

LEMMA EndedStep ==
    ASSUME TypeInv, Ended, [SSNext]_ssvars
    PROVE  Ended'
<1> USE DEF Ended
<1>1. failed \in BOOLEAN /\ stopping \in BOOLEAN /\ erred \in BOOLEAN
  BY DEF TypeInv, SSTypeOK
<1>2. CASE Receive /\ pc \in {"idle", "drain"} /\ pc' \in {"commit", "drain"}
  <2>1. result' = result /\ result = "none"
    BY <1>2 DEF Receive
  <2>2. UNCHANGED <<failed, archive>> \/ FailArchive
    BY <1>2 DEF Receive, OnStreamEvent, Interval, NewSource, Adopt, Refused, store
  <2> QED  BY <1>2, <2>1, <2>2 DEF FailArchive
<1>3. CASE ApplyRestarts
  BY <1>1, <1>3 DEF ApplyRestarts, Panics
<1>4. CASE Commit
  BY <1>1, <1>4 DEF Commit, CommitFails, FailArchive, AfterCommit, Usable
<1>5. CASE Finalize
  <2>1. CASE delivered /\ ~broken /\ result' = "ok"
    <3>1. /\ recordings \in Seq(Recording) /\ recordings # <<>> /\ <<>> \in Seq(Restart)
          /\ recordings' = [recordings EXCEPT ![Len(recordings)].final = TRUE]
      BY <1>5, <2>1 DEF Finalize, TypeInv, SSTypeOK, Wired
    <3>2. InHand'.final
      BY <3>1, ExceptLast DEF InHand
    <3> QED  BY <1>1, <1>5, <2>1, <3>2 DEF Finalize
  <2>2. CASE result' # "ok"
    BY <1>1, <1>5, <2>2 DEF Finalize
  <2> QED  BY <1>5, <2>1, <2>2 DEF Finalize
<1>6. CASE Tick \/ Drained \/ Finish \/ Abandon \/ PatchPanics
  BY <1>1, <1>6 DEF Tick, Drained, Finish, Abandon, PatchPanics, Panics, store, pumpVars, slot, InHand
<1>7. CASE UNCHANGED <<pc, failed, archive, staged, result, recordings>>
  BY <1>7 DEF InHand
<1>8. \/ Receive /\ pc \in {"idle", "drain"} /\ pc' \in {"commit", "drain"}
      \/ ApplyRestarts \/ Commit \/ Finalize
      \/ Tick \/ Drained \/ Finish \/ Abandon \/ PatchPanics
      \/ UNCHANGED <<pc, failed, archive, staged, result, recordings>>
  BY DEF SSNext, ssvars, pumpVars, slot, store, driver, DriverStep, Arrives, Drain, NewProcess,
         WriterBreaks, Pump, PumpInterval, PumpDropped, PumpConnected, PumpRefused, PumpSend
<1> QED  BY <1>2, <1>3, <1>4, <1>5, <1>6, <1>7, <1>8

-----------------------------------------------------------------------------
(* Rows are read under their epoch.                                        *)

LEMMA EntriesShape ==
    ASSUME TypeInv
    PROVE  /\ InHand.entries \in Seq(Restart) /\ restarts \in Seq(Restart)
           /\ Entries \in Seq(Restart)
           /\ Len(Entries) = Len(InHand.entries) + Len(restarts)
           /\ DOMAIN Entries = 1..Len(Entries) /\ DOMAIN restarts = 1..Len(restarts)
           /\ DOMAIN InHand.entries = 1..Len(InHand.entries)
           /\ Len(InHand.entries) \in Nat /\ Len(restarts) \in Nat /\ Len(Entries) \in Nat
           /\ \A i \in DOMAIN InHand.entries : i \in DOMAIN Entries /\ Entries[i] = InHand.entries[i]
           /\ \A i \in DOMAIN restarts : /\ Len(InHand.entries) + i \in DOMAIN Entries
                                        /\ Entries[Len(InHand.entries) + i] = restarts[i]
           /\ \A k \in DOMAIN Entries :
                  \/ k \in DOMAIN InHand.entries
                  \/ k - Len(InHand.entries) \in DOMAIN restarts /\ k > Len(InHand.entries)
<1>1. InHand.entries \in Seq(Restart)
  <2>1. Len(recordings) \in DOMAIN recordings /\ recordings \in Seq(Recording)
    BY HandShape DEF TypeInv, SSTypeOK
  <2> QED  BY <2>1, RecordingFields DEF InHand
<1>2. restarts \in Seq(Restart)
  BY DEF TypeInv, SSTypeOK
<1> DEFINE s == InHand.entries
<1> HIDE DEF s
<1>3. s \in Seq(Restart)
  BY <1>1 DEF s
<1>4. /\ s \o restarts \in Seq(Restart)
      /\ Len(s \o restarts) = Len(s) + Len(restarts)
      /\ \A i \in DOMAIN s : i \in DOMAIN (s \o restarts) /\ (s \o restarts)[i] = s[i]
      /\ \A i \in DOMAIN restarts : /\ Len(s) + i \in DOMAIN (s \o restarts)
                                   /\ (s \o restarts)[Len(s) + i] = restarts[i]
      /\ \A k \in DOMAIN (s \o restarts) :
            \/ k \in DOMAIN s
            \/ k - Len(s) \in DOMAIN restarts /\ k = Len(s) + (k - Len(s)) /\ k > Len(s)
  BY <1>2, <1>3, ConcatAt
<1>5. Entries = s \o restarts
  BY DEF Entries, s
<1>6. /\ DOMAIN Entries = 1..Len(Entries) /\ DOMAIN restarts = 1..Len(restarts)
      /\ DOMAIN s = 1..Len(s) /\ Len(s) \in Nat /\ Len(restarts) \in Nat /\ Len(Entries) \in Nat
  BY <1>2, <1>3, <1>4, <1>5, RestartFields
<1> QED  BY <1>1, <1>2, <1>4, <1>5, <1>6 DEF s

\* What the invariant says of the recording in hand is what a reader finds,
\* in the entries with the restarts that have a row.
LEMMA KeptReadsRight ==
    ASSUME TypeInv, Current
    PROVE  LET F == InHand.entries \o RestartsKept
           IN  \A w \in RowsInHand : SpanOf(F, w.ts).epoch = w.proc
<1> DEFINE s == InHand.entries
           kept == RestartsKept
           F == s \o kept
<1>1. /\ kept \in Seq(Restart) /\ Len(kept) <= Len(restarts)
      /\ \A i \in DOMAIN kept : i \in DOMAIN restarts /\ kept[i] = restarts[i]
      /\ \A i \in DOMAIN restarts : HasRow(restarts[i]) <=> i <= Len(kept)
  BY KeptIsPrefix DEF TypeInv, SSTypeOK, Wired
<1>2. /\ s \in Seq(Restart) /\ restarts \in Seq(Restart)
      /\ Entries \in Seq(Restart)
      /\ Len(Entries) = Len(s) + Len(restarts)
      /\ DOMAIN Entries = 1..Len(Entries) /\ DOMAIN restarts = 1..Len(restarts)
      /\ DOMAIN s = 1..Len(s)
      /\ Len(s) \in Nat /\ Len(restarts) \in Nat /\ Len(Entries) \in Nat
      /\ \A i \in DOMAIN s : i \in DOMAIN Entries /\ Entries[i] = s[i]
      /\ \A i \in DOMAIN restarts : /\ Len(s) + i \in DOMAIN Entries
                                   /\ Entries[Len(s) + i] = restarts[i]
      /\ \A k \in DOMAIN Entries :
             \/ k \in DOMAIN s
             \/ k - Len(s) \in DOMAIN restarts /\ k > Len(s)
  BY EntriesShape
<1>3. /\ s # <<>> /\ Sorted(Entries)
      /\ \A i \in DOMAIN s : i = 1 \/ HasRow(s[i])
      /\ \A w \in RowsInHand : Reads(Entries, w)
  BY DEF Current
<1>4. RowsInHand \subseteq Row
  BY HandShape
<1> HIDE DEF s, kept
<1>5. /\ F \in Seq(Restart)
      /\ Len(F) = Len(s) + Len(kept)
      /\ \A i \in DOMAIN s : i \in DOMAIN F /\ F[i] = s[i]
      /\ \A k \in DOMAIN F :
            \/ k \in DOMAIN s
            \/ k - Len(s) \in DOMAIN kept /\ k = Len(s) + (k - Len(s)) /\ k > Len(s)
      /\ \A i \in DOMAIN kept : F[Len(s) + i] = kept[i]
  BY <1>1, <1>2, ConcatAt
<1> HIDE DEF F
<1>6. /\ DOMAIN F = 1..Len(F) /\ DOMAIN kept = 1..Len(kept)
      /\ Len(kept) \in Nat /\ Len(F) \in Nat /\ Len(s) > 0
  BY <1>1, <1>2, <1>3, <1>5, RestartFields, EmptySeq
<1>7. F # <<>> /\ Len(F) <= Len(Entries)
  BY <1>1, <1>2, <1>5, <1>6, EmptySeq
<1>8. ASSUME NEW i \in DOMAIN F
      PROVE  F[i] = Entries[i] /\ (i = 1 \/ HasRow(F[i]))
  <2>1. CASE i \in DOMAIN s
    BY <2>1, <1>2, <1>3, <1>5
  <2>2. CASE i - Len(s) \in DOMAIN kept /\ i = Len(s) + (i - Len(s))
    <3> DEFINE k == i - Len(s)
    <3>1. k \in DOMAIN kept /\ i = Len(s) + k
      BY <2>2
    <3> HIDE DEF k
    <3>2. F[i] = restarts[k] /\ k \in DOMAIN restarts /\ Entries[i] = restarts[k]
      BY <3>1, <1>1, <1>2, <1>5
    <3>3. k <= Len(kept)
      BY <3>1, <1>6
    <3> QED  BY <3>2, <3>3, <1>1
  <2> QED  BY <2>1, <2>2, <1>5
<1>9. ASSUME NEW i \in DOMAIN Entries, i > Len(F)  PROVE ~HasRow(Entries[i])
  <2> DEFINE k == i - Len(s)
  <2>1. k \in DOMAIN restarts /\ i = Len(s) + k /\ k > Len(kept)
    BY <1>2, <1>5, <1>6, <1>9
  <2> HIDE DEF k
  <2>2. Entries[i] = restarts[k] /\ ~HasRow(restarts[k])
    BY <2>1, <1>1, <1>2, <1>6
  <2> QED  BY <2>2
<1>10. Sorted(F) /\ \A w \in Row : Reads(Entries, w) => Reads(F, w)
  BY <1>2, <1>3, <1>5, <1>7, <1>8, <1>9, PrefixKeepsReads
<1>11. \A w \in RowsInHand : SpanOf(F, w.ts).epoch = w.proc
  BY <1>3, <1>4, <1>5, <1>8, <1>10, ReadsIsSpan
<1> QED  BY <1>11 DEF F, s, kept

\* A step that leaves the recordings before the last one as they are.
LEMMA EarlierSame ==
    ASSUME TypeInv, Spanned, Len(recordings') = Len(recordings), Usable' => Current',
           \A r \in DOMAIN recordings :
               r # Len(recordings) => /\ recordings'[r].rows = recordings[r].rows
                                      /\ recordings'[r].entries = recordings[r].entries
    PROVE  Spanned'
<1>1. DOMAIN recordings = 1..Len(recordings) /\ Len(recordings) \in Nat
  BY HandShape
<1>2. \A r \in 1..(Len(recordings) - 1) : RowsReadRight(recordings'[r])
  BY <1>1 DEF Spanned, RowsReadRight
<1> QED  BY <1>2 DEF Spanned

LEMMA SameCurrent ==
    ASSUME Current, UNCHANGED <<added, restarts, taken, epoch>>,
           InHand'.entries = InHand.entries, RowsInHand' = RowsInHand
    PROVE  Current'
  BY DEF Current, Entries

\* The restarts written are the entries they were.
LEMMA WrittenCurrent ==
    ASSUME TypeInv, Current, RestartsDue, restarts' = <<>>,
           recordings' = WithEntries(recordings, restarts),
           UNCHANGED <<added, taken, epoch, staged>>
    PROVE  Current'
<1> DEFINE n == Len(recordings)
<1>1. /\ recordings \in Seq(Recording) /\ recordings # <<>> /\ restarts \in Seq(Restart)
  BY DEF TypeInv, SSTypeOK, Wired
<1>2. Len(recordings') = n /\ recordings'[n].entries = Entries /\ recordings'[n].rows = InHand.rows
  <2>1. /\ Len(WithEntries(recordings, restarts)) = n
        /\ WithEntries(recordings, restarts)[n].entries = recordings[n].entries \o restarts
        /\ WithEntries(recordings, restarts)[n].rows = recordings[n].rows
    BY <1>1, ExceptLast
  <2> QED  BY <2>1 DEF Entries, InHand
<1>3. InHand'.entries = Entries /\ RowsInHand' = RowsInHand
  BY <1>2 DEF InHand, RowsInHand
<1>4. Entries \in Seq(Restart) /\ Entries # <<>>
  BY EntriesShape DEF Current, Sorted
<1>5. Entries' = Entries
  <2>1. Entries' = InHand'.entries \o <<>>
    BY DEF Entries
  <2> QED  BY <1>3, <1>4, <2>1, ConcatEmptySeq
<1>6. \A i \in DOMAIN Entries : i = 1 \/ HasRow(Entries[i])
  <2> TAKE i \in DOMAIN Entries
  <2>1. CASE i \in DOMAIN InHand.entries
    BY <2>1, EntriesShape DEF Current
  <2>2. CASE i - Len(InHand.entries) \in DOMAIN restarts
    <3> DEFINE k == i - Len(InHand.entries)
    <3>1. k \in DOMAIN restarts /\ i = Len(InHand.entries) + k
      <4>0. DOMAIN Entries = 1..Len(Entries) /\ Len(Entries) \in Nat /\ Len(InHand.entries) \in Nat
        BY EntriesShape, Zenon
      <4>1. i \in Nat /\ Len(InHand.entries) \in Nat
        BY <4>0
      <4> QED  BY <2>2, <4>1
    <3> HIDE DEF k
    <3> QED  BY <3>1, EntriesShape DEF RestartsDue
  <2> QED  BY <2>1, <2>2, EntriesShape
<1> QED  BY <1>3, <1>4, <1>5, <1>6 DEF Current

\* A restart is told: one more entry, without a row.
LEMMA AdoptedCurrent ==
    ASSUME TypeInv, Current, NEW p \in Procs, epoch' = p,
           restarts' = Append(restarts, [epoch |-> p, from |-> NoStamp]),
           UNCHANGED <<added, taken, recordings, staged>>
    PROVE  Current'
<1> DEFINE x == [epoch |-> p, from |-> NoStamp]  s == InHand.entries
<1>1. x \in Restart
  BY DEF Restart
<1>2. /\ s \in Seq(Restart) /\ restarts \in Seq(Restart) /\ Entries \in Seq(Restart)
      /\ DOMAIN Entries = 1..Len(Entries)
  BY EntriesShape
<1>3. InHand' = InHand /\ RowsInHand' = RowsInHand /\ RowsInHand \subseteq Row
  BY HandShape DEF InHand, RowsInHand
<1>4. Entries' = Append(Entries, x)
  <2>1. Entries' = s \o Append(restarts, x)
    BY <1>3 DEF Entries
  <2>2. Entries = s \o restarts
    BY DEF Entries
  <2> HIDE DEF x, s
  <2>3. Append(restarts, x) = restarts \o <<x>> /\ Append(Entries, x) = Entries \o <<x>>
    BY <1>1, <1>2, AppendIsConcat
  <2>4. <<x>> \in Seq(Restart)
    BY <1>1
  <2>5. (s \o restarts) \o <<x>> = s \o (restarts \o <<x>>)
    BY <1>2, <2>4, ConcatAssociative
  <2> QED  BY <2>1, <2>2, <2>3, <2>5
<1>5. Sorted(Entries)
  BY DEF Current
<1> DEFINE F == Append(Entries, x)
<1>6. /\ F \in Seq(Restart) /\ Sorted(F) /\ F[Len(F)].epoch = p
      /\ \A i \in DOMAIN F : HasRow(F[i]) => i \in DOMAIN Entries /\ F[i] = Entries[i]
      /\ \A w \in Row : Reads(Entries, w) => Reads(F, w)
  BY <1>2, <1>5, AppendKeepsReads
<1>7. Entries' = F
  BY <1>4
<1> HIDE DEF F, x
<1>8. \A i \in DOMAIN F : HasRow(F[i]) => F[i].from \in taken
  BY <1>6 DEF Current
<1> QED  BY <1>3, <1>6, <1>7, <1>8 DEF Current

\* A row of the process on record: the restarts that waited begin at it.
LEMMA StagedCurrent ==
    ASSUME TypeInv, TakenRows, Current, NEW ts \in Stamps,
           \A t \in taken : t < ts,
           restarts' = Stamped(ts), taken' = taken \cup {ts},
           RowsInHand' = RowsInHand \cup {[ts |-> ts, proc |-> epoch]},
           UNCHANGED <<added, epoch, recordings>>
    PROVE  Current'
<1> DEFINE s == InHand.entries
           y == [ts |-> ts, proc |-> epoch]
<1>1. /\ s \in Seq(Restart) /\ restarts \in Seq(Restart)
      /\ Entries \in Seq(Restart)
      /\ Len(Entries) = Len(s) + Len(restarts)
      /\ DOMAIN Entries = 1..Len(Entries) /\ DOMAIN restarts = 1..Len(restarts)
      /\ DOMAIN s = 1..Len(s)
      /\ Len(s) \in Nat /\ Len(restarts) \in Nat /\ Len(Entries) \in Nat
      /\ \A i \in DOMAIN s : i \in DOMAIN Entries /\ Entries[i] = s[i]
      /\ \A i \in DOMAIN restarts : /\ Len(s) + i \in DOMAIN Entries
                                   /\ Entries[Len(s) + i] = restarts[i]
      /\ \A k \in DOMAIN Entries :
             \/ k \in DOMAIN s
             \/ k - Len(s) \in DOMAIN restarts /\ k > Len(s)
  BY EntriesShape
<1>2. /\ restarts' \in Seq(Restart) /\ Len(restarts') = Len(restarts)
      /\ \A i \in DOMAIN restarts :
            /\ HasRow(restarts'[i])
            /\ \/ HasRow(restarts[i]) /\ restarts'[i] = restarts[i]
               \/ /\ ~HasRow(restarts[i]) /\ restarts'[i].from = ts
                  /\ restarts'[i].epoch = restarts[i].epoch
  BY <1>1, StampedShape
<1>3. InHand' = InHand /\ Entries' = s \o restarts'
  BY DEF InHand, Entries
<1>4. s # <<>> /\ Sorted(Entries) /\ (\A i \in DOMAIN s : i = 1 \/ HasRow(s[i]))
  BY DEF Current
<1>5. RowsInHand \subseteq Row /\ y \in Row /\ y.ts = ts /\ y.proc = epoch
  BY HandShape DEF Row, TypeInv, SSTypeOK
<1> HIDE DEF s, y
<1> DEFINE F == s \o restarts'
<1>6. /\ F \in Seq(Restart)
      /\ Len(F) = Len(s) + Len(restarts')
      /\ \A i \in DOMAIN s : F[i] = s[i]
      /\ \A i \in DOMAIN restarts' : F[Len(s) + i] = restarts'[i]
  <2> DEFINE u == restarts'
  <2>1. u \in Seq(Restart)
    BY <1>2
  <2> HIDE DEF u
  <2>2. /\ s \o u \in Seq(Restart)
        /\ Len(s \o u) = Len(s) + Len(u)
        /\ \A i \in DOMAIN s : (s \o u)[i] = s[i]
        /\ \A i \in DOMAIN u : (s \o u)[Len(s) + i] = u[i]
    BY <1>1, <2>1, ConcatAt
  <2> QED  BY <2>2 DEF u
<1> HIDE DEF F
<1>7. /\ DOMAIN restarts' = DOMAIN restarts /\ Len(s) > 0 /\ DOMAIN F = DOMAIN Entries
      /\ Len(F) = Len(Entries)
  BY <1>1, <1>2, <1>4, <1>6, RestartFields, EmptySeq
<1>8. ASSUME NEW i \in DOMAIN Entries
      PROVE  \/ F[i] = Entries[i] /\ (i = 1 \/ HasRow(Entries[i]))
             \/ ~HasRow(Entries[i]) /\ F[i].epoch = Entries[i].epoch /\ F[i].from = ts /\ i > 1
  <2>1. CASE i \in DOMAIN s
    BY <2>1, <1>1, <1>4, <1>6
  <2>2. CASE i - Len(s) \in DOMAIN restarts /\ i > Len(s)
    <3> DEFINE k == i - Len(s)
    <3>1. k \in DOMAIN restarts /\ i = Len(s) + k /\ i > 1
      BY <2>2, <1>1, <1>7
    <3> HIDE DEF k
    <3>2. F[i] = restarts'[k] /\ Entries[i] = restarts[k]
      BY <3>1, <1>1, <1>6, <1>7
    <3> QED  BY <3>1, <3>2, <1>2
  <2> QED  BY <2>1, <2>2, <1>1
<1>9. \A i \in DOMAIN Entries : HasRow(Entries[i]) => Entries[i].from \in taken /\ Entries[i].from < ts
  BY DEF Current
<1>10. /\ Sorted(F)
       /\ \A w \in Row : Reads(Entries, w) /\ w.ts < ts => Reads(F, w)
       /\ \A w \in Row : w.proc = Entries[Len(Entries)].epoch /\ w.ts = ts => Reads(F, w)
  BY <1>1, <1>4, <1>6, <1>7, <1>8, <1>9, StampKeepsReads
<1>11. \A w \in RowsInHand : w.ts < ts
  <2>1. \A w \in RowsInHand : w.ts \in taken
    BY HandShape DEF TakenRows, AllRows
  <2> QED  BY <2>1
<1>12. Entries[Len(Entries)].epoch = epoch /\ \A w \in RowsInHand : Reads(Entries, w)
  BY DEF Current
<1>13. \A w \in RowsInHand \cup {y} : Reads(F, w)
  BY <1>5, <1>10, <1>11, <1>12
<1>14. \A i \in DOMAIN F : HasRow(F[i]) => F[i].from \in taken'
  BY <1>7, <1>8, <1>9
<1>15. F[Len(F)].epoch = epoch
  <2>1. Len(F) \in DOMAIN Entries
    BY <1>1, <1>7
  <2> QED  BY <2>1, <1>7, <1>8, <1>12
<1> QED  BY <1>3, <1>4, <1>10, <1>13, <1>14, <1>15 DEF Current, F, s, y

\* A recording begins.
LEMMA OpenedCurrent ==
    ASSUME NEW p \in Procs, InHand' = Opened(p), restarts' = <<>>, epoch' = p,
           RowsInHand' = {}, added'
    PROVE  Current'
<1> DEFINE x == [epoch |-> p, from |-> NoStamp]
<1>1. x \in Restart /\ x.epoch = p /\ x.from = NoStamp /\ ~HasRow(x)
  BY DEF Restart, HasRow
<1>2. InHand'.entries = <<x>>
  BY DEF Opened
<1> HIDE DEF x
<1>3. <<x>> \in Seq(Restart) /\ <<x>> # <<>> /\ Len(<<x>>) = 1 /\ <<x>>[1] = x /\ DOMAIN <<x>> = {1}
  BY <1>1
<1>4. Entries' = <<x>>
  <2>1. Entries' = <<x>> \o <<>>
    BY <1>2 DEF Entries
  <2> QED  BY <1>3, <2>1, ConcatEmptySeq
<1>5. Sorted(<<x>>)
  BY <1>1, <1>3 DEF Sorted
<1> QED  BY <1>1, <1>2, <1>3, <1>4, <1>5 DEF Current

LEMMA SpannedStep ==
    ASSUME TypeInv, Ordered, Chained, TakenRows, Spanned, [SSNext]_ssvars
    PROVE  Spanned'
<1> DEFINE n == Len(recordings)
<1>1. n \in DOMAIN recordings /\ DOMAIN recordings = 1..n /\ n \in Nat
  BY HandShape
<1>2. Usable => Current
  BY DEF Spanned
<1>3. ASSUME UNCHANGED recordings, Usable' => Current'  PROVE Spanned'
  BY <1>3, EarlierSame
<1>4. CASE /\ UNCHANGED <<added, restarts, taken, epoch, recordings, staged>>
           /\ Usable' => Usable
  BY <1>2, <1>3, <1>4, SameCurrent DEF InHand, RowsInHand
<1>5. CASE Commit
  <2>1. CASE recordings' = Committed /\ staged' = {} /\ Usable
    <3>1. /\ Len(recordings') = n /\ RowsInHand' = RowsInHand
          /\ \A r \in DOMAIN recordings :
                r # n => /\ recordings'[r].rows = recordings[r].rows
                         /\ recordings'[r].entries = recordings[r].entries
      BY <2>1, StoreSteps
    <3>2. recordings'[n].entries = recordings[n].entries
      BY <1>1, <2>1, CommittedShape DEF TypeInv, SSTypeOK
    <3>3. UNCHANGED <<added, restarts, taken, epoch>>
      BY <1>5 DEF Commit, slot
    <3>4. Current'
      BY <1>2, <2>1, <3>1, <3>2, <3>3, SameCurrent DEF InHand
    <3> QED  BY <3>1, <3>4, EarlierSame
  <2>2. CASE UNCHANGED <<recordings, staged>> /\ archive' # "open"
    BY <1>3, <2>2 DEF Usable
  <2> QED  BY <1>5, <2>1, <2>2 DEF Commit, CommitFails, FailArchive
<1>6. CASE ApplyRestarts
  <2>1. UNCHANGED <<added, taken, epoch, staged, broken>>
    BY <1>6 DEF ApplyRestarts
  <2>2. CASE UNCHANGED <<restarts, recordings, archive>>
    BY <1>4, <2>1, <2>2 DEF Usable
  <2>3. CASE RestartsDue /\ restarts' = <<>> /\ Usable /\ recordings' = WithEntries(recordings, restarts)
    <3>1. Current'
      BY <1>2, <2>1, <2>3, WrittenCurrent
    <3>2. /\ Len(recordings') = n
          /\ \A r \in DOMAIN recordings :
                r # n => /\ recordings'[r].rows = recordings[r].rows
                         /\ recordings'[r].entries = recordings[r].entries
      BY <2>1, <2>3, StoreSteps
    <3> QED  BY <3>1, <3>2, EarlierSame
  <2>4. CASE ~Usable /\ UNCHANGED <<recordings, archive>>
    BY <1>3, <2>1, <2>4 DEF Usable
  <2>5. CASE archive' = "lost" /\ UNCHANGED recordings
    BY <1>3, <2>5 DEF Usable
  <2> QED  BY <1>6, <2>2, <2>3, <2>4, <2>5 DEF ApplyRestarts, Panics
<1>7. CASE Finalize
  <2>1. archive' # "open" /\ staged' = staged
        /\ recordings' \in {recordings, [recordings EXCEPT ![n].final = TRUE]}
    BY <1>7 DEF Finalize
  <2>2. /\ Len(recordings') = n
        /\ \A r \in DOMAIN recordings :
              r # n => /\ recordings'[r].rows = recordings[r].rows
                       /\ recordings'[r].entries = recordings[r].entries
    BY <2>1, StoreSteps
  <2> QED  BY <2>1, <2>2, EarlierSame DEF Usable
<1>8. CASE Receive
  <2> DEFINE e == stream[1]  p == e.proc
  <2>1. /\ OnStreamEvent(e) /\ 1 \in DOMAIN stream
        /\ p \in Procs /\ e.ts \in Stamps \cup {NoStamp}
    <3>1. stream \in Seq(StreamEvent) /\ stream # <<>> /\ OnStreamEvent(Head(stream))
      BY <1>8 DEF Receive, TypeInv, SSTypeOK
    <3>2. Head(stream) = e /\ 1 \in DOMAIN stream /\ e \in StreamEvent
      BY <3>1, StreamEnds
    <3> QED  BY <3>1, <3>2 DEF StreamEvent
  <2>2. CASE e.kind = "interval" /\ Interval(e)
    <3>1. UNCHANGED <<epoch, added, recordings, archive, broken>>
      BY <2>2 DEF Interval
    <3>2. CASE UNCHANGED <<restarts, staged, taken>>
      BY <1>4, <3>1, <3>2 DEF Usable
    <3>3. CASE /\ staged' = staged \cup {[ts |-> e.ts, proc |-> p, rec |-> n]}
               /\ taken' = taken \cup {e.ts} /\ restarts' = Stamped(e.ts)
               /\ archive = "open" /\ e.ts # NoStamp
      <4>1. p = epoch
        BY <2>1, <2>2, <3>3 DEF Chained, Before
      <4>2. e.ts \in Stamps /\ \A t \in taken : t < e.ts
        BY <2>1, <3>3 DEF Ordered
      <4>3. RowsInHand' = RowsInHand \cup {[ts |-> e.ts, proc |-> epoch]}
        <5> DEFINE x == [ts |-> e.ts, proc |-> p, rec |-> n]
                   Shown(S) == {[ts |-> s.ts, proc |-> s.proc] : s \in S}
        <5>1. x.ts = e.ts /\ x.proc = p /\ staged' = staged \cup {x}
          BY <3>3
        <5> HIDE DEF x
        <5>2. Shown(staged') = Shown(staged) \cup {[ts |-> e.ts, proc |-> p]}
          BY <5>1
        <5>3. RowsInHand = InHand.rows \cup Shown(staged)
              /\ RowsInHand' = InHand.rows \cup Shown(staged')
          BY <3>1 DEF RowsInHand, InHand
        <5> HIDE DEF Shown
        <5> QED  BY <4>1, <5>2, <5>3
      <4>4. Usable' => Current'
        BY <1>2, <3>1, <3>3, <4>2, <4>3, StagedCurrent DEF Usable
      <4> QED  BY <1>3, <3>1, <4>4
    <3> QED  BY <2>2, <3>2, <3>3 DEF Interval
  <2>3. CASE UNCHANGED <<slot, store, erred, failed, reported, pump>> \/ Refused
    BY <1>4, <2>3 DEF slot, store, Refused, Usable
  <2>4. CASE Adopt(p)
    <3>1. UNCHANGED <<added, taken, recordings, staged, archive, broken>> /\ epoch' = p
      BY <2>4 DEF Adopt, store
    <3>2. CASE p = epoch /\ UNCHANGED restarts
      BY <1>4, <3>1, <3>2 DEF Usable
    <3>3. CASE restarts' = Append(restarts, [epoch |-> p, from |-> NoStamp])
      BY <1>2, <1>3, <2>1, <3>1, <3>3, AdoptedCurrent DEF Usable
    <3> QED  BY <2>4, <3>2, <3>3 DEF Adopt
  <2>5. CASE NewSource(p)
    <3>1. CASE /\ Usable /\ recordings' = Append(Finalized, Opened(p)) /\ staged' = {}
               /\ epoch' = p /\ restarts' = <<>> /\ added' = added
      <4>1. /\ Len(recordings') = n + 1 /\ RowsInHand' = {} /\ InHand' = Opened(p)
            /\ \A r \in DOMAIN recordings : /\ recordings'[r] = Finalized[r]
                                           /\ recordings'[r].rows = AllRows(r)
        BY <2>1, <3>1, AppendedRows
      <4>2. Current'
        BY <1>2, <2>1, <3>1, <4>1, OpenedCurrent DEF Current
      <4>3. RowsReadRight(recordings'[n])
        <5>1. recordings'[n].entries = InHand.entries \o RestartsKept
              /\ recordings'[n].rows = RowsInHand
          BY <1>1, <4>1, FinalizedShape DEF InHand, AllRows
        <5> QED  BY <1>2, <3>1, <5>1, KeptReadsRight DEF RowsReadRight
      <4>4. ASSUME NEW r \in DOMAIN recordings, r # n  PROVE RowsReadRight(recordings'[r])
        <5>1. Finalized[r] = Committed[r] /\ Committed[r].entries = recordings[r].entries
          BY <4>4, FinalizedShape, CommittedShape DEF TypeInv, SSTypeOK
        <5>2. recordings'[r].entries = recordings[r].entries /\ recordings'[r].rows = recordings[r].rows
          BY <4>1, <4>4, <5>1 DEF AllRows
        <5>3. RowsReadRight(recordings[r])
          BY <1>1, <4>4 DEF Spanned
        <5> QED  BY <5>2, <5>3 DEF RowsReadRight
      <4>5. \A r \in 1..(Len(recordings') - 1) : RowsReadRight(recordings'[r])
        BY <1>1, <4>1, <4>3, <4>4
      <4> QED  BY <4>2, <4>5 DEF Spanned
    <3>2. CASE Usable /\ recordings' = Finalized /\ staged' = {} /\ broken' = TRUE
      <4>1. /\ Len(recordings') = n
            /\ \A r \in DOMAIN recordings :
                  r # n => /\ recordings'[r].rows = recordings[r].rows
                           /\ recordings'[r].entries = recordings[r].entries
        BY <3>2, StoreSteps
      <4> QED  BY <3>2, <4>1, EarlierSame DEF Usable
    <3>3. CASE UNCHANGED recordings /\ archive' # "open"
      BY <1>3, <3>3 DEF Usable
    <3> QED  BY <2>5, <3>1, <3>2, <3>3 DEF NewSource, CommitAtChange, FailArchive
  <2> QED  BY <2>1, <2>2, <2>3, <2>4, <2>5 DEF OnStreamEvent
<1>9. \/ Commit \/ ApplyRestarts \/ Finalize \/ Receive
      \/ /\ UNCHANGED <<added, restarts, taken, epoch, recordings, staged>>
         /\ Usable' => Usable
  BY DEF SSNext, ssvars, pumpVars, slot, store, driver, DriverStep, Arrives, Drain, NewProcess,
         WriterBreaks, Tick, Drained, Finish, Abandon, PatchPanics, Panics, Pump, PumpInterval,
         PumpDropped, PumpConnected, PumpRefused, PumpSend, Usable
<1> QED  BY <1>4, <1>5, <1>6, <1>7, <1>8, <1>9

-----------------------------------------------------------------------------
(* The theorems.                                                           *)

LEMMA InvInit == SSInit => SSInv
<1> SUFFICES ASSUME SSInit  PROVE SSInv
  OBVIOUS
<1>1. TypeInv
  BY TypeInit
<1>2. /\ stream = <<>> /\ Len(stream) = 0 /\ DOMAIN stream = {} /\ taken = {} /\ staged = {}
      /\ epoch = 1 /\ peer = 1 /\ producer = procs[1] /\ added
      /\ recordings = <<Opened(1)>> /\ restarts = <<>>
      /\ archive = "open" /\ pc = "idle" /\ ~failed /\ result = "none"
  BY DEF SSInit
<1>3. /\ Len(recordings) = 1 /\ DOMAIN recordings = {1} /\ recordings[1] = Opened(1)
      /\ Opened(1).rows = {}
  BY <1>2 DEF Opened
<1>4. Ordered /\ Chained
  BY <1>2 DEF Ordered, Chained, Before
<1>5. RowsInHand = {} /\ InHand = Opened(1) /\ \A r \in DOMAIN recordings : AllRows(r) = {}
  BY <1>2, <1>3 DEF RowsInHand, InHand, AllRows
<1>6. RowsNamed
  BY <1>2, <1>5 DEF RowsNamed, Agree
<1>7. TakenRows /\ Ended
  BY <1>2, <1>5 DEF TakenRows, Ended
<1>8. Spanned
  <2>1. Current
    <3> DEFINE x == [epoch |-> 1, from |-> NoStamp]
    <3>1. x \in Restart /\ x.epoch = 1 /\ x.from = NoStamp /\ ~HasRow(x)
      BY Bounds DEF Restart, HasRow
    <3>2. InHand.entries = <<x>>
      BY <1>5 DEF Opened
    <3> HIDE DEF x
    <3>3. <<x>> \in Seq(Restart) /\ <<x>> # <<>> /\ Len(<<x>>) = 1 /\ <<x>>[1] = x /\ DOMAIN <<x>> = {1}
      BY <3>1
    <3>4. Entries = <<x>>
      <4>1. Entries = <<x>> \o <<>>
        BY <1>2, <3>2 DEF Entries
      <4> QED  BY <3>3, <4>1, ConcatEmptySeq
    <3>5. Sorted(<<x>>)
      BY <3>1, <3>3 DEF Sorted
    <3> QED  BY <1>2, <1>5, <3>1, <3>2, <3>3, <3>4, <3>5 DEF Current
  <2> QED  BY <1>3, <2>1 DEF Spanned
<1> QED  BY <1>1, <1>4, <1>6, <1>7, <1>8 DEF SSInv, TypeInv

LEMMA InvStep == SSInv /\ [SSNext]_ssvars => SSInv'
<1> SUFFICES ASSUME SSInv, [SSNext]_ssvars  PROVE SSInv'
  OBVIOUS
<1>1. TypeInv /\ Ordered /\ Chained /\ RowsNamed /\ TakenRows /\ Ended /\ Spanned
  BY DEF SSInv, TypeInv
<1>2. TypeInv'
  BY <1>1, TypeStep
<1>3. Ordered' /\ Chained'
  BY <1>1, OrderedStep, ChainedStep
<1>4. RowsNamed' /\ TakenRows'
  BY <1>1, <1>2, RowsNamedStep, TakenRowsStep
<1>5. Ended' /\ Spanned'
  BY <1>1, EndedStep, SpannedStep
<1> QED  BY <1>2, <1>3, <1>4, <1>5 DEF SSInv, TypeInv

LEMMA InvAlways == SSSpec => []SSInv
  BY InvInit, InvStep, PTL DEF SSSpec

\* No two rows of a recording are of processes that name different
\* producers, unless the recorder is stopping: whatever is told of the
\* processes, and however often (producer_change and new_source).
THEOREM SourceOneProducer == SSSpec => []OneProducer
<1>1. SSInv => OneProducer
  <2> SUFFICES ASSUME SSInv, ~stopping, NEW r \in DOMAIN recordings,
                      NEW v \in recordings[r].rows, NEW w \in recordings[r].rows
               PROVE  procs[v.proc] = procs[w.proc] \/ NoName \in {procs[v.proc], procs[w.proc]}
    BY DEF OneProducer
  <2>1. v \in AllRows(r) /\ w \in AllRows(r)
    BY HandShape DEF SSInv, TypeInv
  <2>2. Agree(AllRows(r))
    BY DEF SSInv, RowsNamed
  <2> QED  BY <2>1, <2>2 DEF Agree
<1> QED  BY InvAlways, <1>1, PTL

\* A finish that succeeds left no row behind, over every change of producer
\* and every refusal, and never follows a failure of the archive.
THEOREM SourceFinishCommitsAll == SSSpec => []FinishCommitsAll
<1>1. SSInv => FinishCommitsAll
  <2> SUFFICES ASSUME SSInv, result = "ok"
               PROVE  taken = Recorded /\ ~failed /\ Last(recordings).final
    BY DEF FinishCommitsAll
  <2>1. staged = {} /\ ~failed /\ InHand.final
    BY DEF SSInv, Ended
  <2>2. \A r \in DOMAIN recordings : AllRows(r) = recordings[r].rows
    BY <2>1 DEF AllRows, RowsInHand, InHand
  <2>3. taken = Recorded
    BY <2>2 DEF SSInv, TakenRows, Recorded
  <2> QED  BY <2>1, <2>3 DEF Last, InHand
<1> QED  BY InvAlways, <1>1, PTL

\* A reader takes each row for the process that sent it: in the recording in
\* hand between ticks, with no restart waiting, and in every recording that
\* ended at a change of producer (epoch_spans).
THEOREM SourceRowsReadUnderTheirEpoch == SSSpec => []RowsReadUnderTheirEpoch
<1>1. SSInv => RowsReadUnderTheirEpoch
  <2> SUFFICES ASSUME SSInv  PROVE RowsReadUnderTheirEpoch
    OBVIOUS
  <2>1. \A r \in 1..(Len(recordings) - 1) : RowsReadRight(recordings[r])
    BY DEF SSInv, Spanned
  <2>2. ASSUME restarts = <<>>, Usable  PROVE RowsReadRight(InHand)
    <3>1. TypeInv /\ Current
      BY <2>2 DEF SSInv, TypeInv, Spanned
    <3>2. /\ RestartsKept \in Seq(Restart) /\ Len(RestartsKept) <= Len(restarts)
      BY <3>1, KeptIsPrefix DEF TypeInv, SSTypeOK, Wired
    <3>3. RestartsKept = <<>>
      BY <2>2, <3>2, EmptySeq
    <3>4. InHand.entries \o RestartsKept = InHand.entries
      BY <3>1, <3>3, EntriesShape, ConcatEmptySeq
    <3>5. InHand.rows \subseteq RowsInHand
      BY DEF RowsInHand
    <3>6. \A w \in RowsInHand : SpanOf(InHand.entries, w.ts).epoch = w.proc
      BY <3>1, <3>4, KeptReadsRight
    <3> QED  BY <3>5, <3>6 DEF RowsReadRight
  <2> QED  BY <2>1, <2>2 DEF RowsReadUnderTheirEpoch, Last, InHand, Usable
<1> QED  BY InvAlways, <1>1, PTL
=============================================================================
