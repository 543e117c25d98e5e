---------------------------- MODULE ArchiveProofs ----------------------------
(***************************************************************************)
(* Theorems about what an archive holds.  Of ArchiveWriter, for any        *)
(* schemas, occupants, restatement period and retention, and any gaps      *)
(* between ticks: every run of rows decodes, retention keeps its window,   *)
(* and the rows it keeps are labelled, as long as no occupant returns      *)
(* after a restatement period away.  Of Layers, for any keys, texts and    *)
(* epochs: what a producer declared is read as if no repetition of it had  *)
(* been left out, and what an operator edited outlives what is appended.   *)
(*                                                                         *)
(* What they rest on: an open segment knows its first timestamp and its    *)
(* last schema, so that an eviction which does not seal cuts no unsealed   *)
(* row; whoever was seen less than a period before the last restatement    *)
(* was stated at it; and every entry a producer declared is kept, or is    *)
(* stamped no later than the latest that was skipped.                      *)
(***************************************************************************)
EXTENDS ArchiveWriter, Layers, FiniteSetTheorems, SequenceTheorems, WellFoundedInduction, TLAPS

Runs == segments \cup {wal}

OpenKnown ==
    /\ opened = Never <=> wal = <<>>
    /\ \A i \in 1..Len(wal) : opened <= wal[i].ts

AnchorKnown ==
    /\ wal = <<>> => anchored = NoSchema
    /\ wal # <<>> => anchored = wal[Len(wal)].hash

RowsOrdered ==
    /\ \A r \in Runs : \A i \in 1..Len(r) : r[i].ts <= now
    /\ \A r \in Runs : \A i, j \in 1..Len(r) : i < j => r[i].ts < r[j].ts

CutoffBehind == cutoff <= now /\ opened <= now

RunInv == TypeOK /\ OpenKnown /\ AnchorKnown /\ RowsOrdered /\ CutoffBehind

\* The row a tick at ts writes.
NewRow(ts, h, present) ==
    [ts |-> ts, hash |-> h, schema |-> NeedsSchema(h), occupants |-> present]

\* A tick that writes a row of some form.
RowTick(ts, h, present) ==
    /\ ts \in 1..MaxTime /\ now < ts /\ h \in Schemas /\ present \in SUBSET Occupants
    /\ now' = ts
    /\ WriteRow(ts, h, present)
    /\ UNCHANGED <<form, segments, cutoff>>

\* A step that leaves the runs alone.
Skips(ts) ==
    /\ ts \in 1..MaxTime /\ now < ts
    /\ now' = ts
    /\ UNCHANGED <<form, anchored, opened, described, seen, lastRestated, tables, cutoff,
                   written, lastSeen>>

-----------------------------------------------------------------------------
LEMMA AppendRow ==
    ASSUME NEW q \in Seq(Row), NEW x \in Row
    PROVE  LET r == Append(q, x)
           IN  /\ r \in Seq(Row) /\ r # <<>> /\ Len(q) \in Nat /\ Len(r) = Len(q) + 1
               /\ r[Len(q) + 1] = x
               /\ \A i \in 1..Len(q) : r[i] = q[i]
               /\ \A i \in 1..Len(r) : i \in 1..Len(q) \/ i = Len(q) + 1
<1> DEFINE r == Append(q, x)
<1>1. /\ r \in Seq(Row) /\ r # <<>> /\ Len(r) = Len(q) + 1 /\ Len(q) \in Nat
      /\ r[Len(q) + 1] = x
      /\ \A i \in 1..Len(q) : r[i] = q[i]
  BY AppendProperties, LenProperties
<1> HIDE DEF r
<1>2. \A i \in 1..Len(r) : i \in 1..Len(q) \/ i = Len(q) + 1
  BY <1>1
<1> QED BY <1>1, <1>2 DEF r

LEMMA NonEmptyRow ==
    ASSUME NEW q \in Seq(Row), q # <<>>
    PROVE  Len(q) \in Nat \ {0} /\ Len(q) \in 1..Len(q) /\ q[Len(q)] \in Row
<1>1. Len(q) \in Nat /\ Len(q) # 0
  BY EmptySeq, LenProperties
<1>2. Len(q) \in 1..Len(q)
  BY <1>1
<1> QED BY <1>1, <1>2, ElementOfSeq

\* What a step is: the cases of Next.
LEMMA StepCases ==
    ASSUME TypeOK, Next
    PROVE  \/ \E ts \in 1..MaxTime, h \in Schemas :
                 RowTick(ts, h, {}) /\ form = "wide"
                 /\ UNCHANGED <<hash, described, seen, lastRestated, labels, lastSeen>>
           \/ \E ts \in 1..MaxTime, h \in Schemas, present \in SUBSET Occupants :
                 RowTick(ts, h, present) /\ WriteLabels(ts, present) /\ hash' = h
                 /\ \A o \in present : MayReturn(ts, o)
           \/ \E ts \in 1..MaxTime, h \in Schemas : Skips(ts) /\ hash' = h
           \/ MaybeSeal
           \/ \E c \in 1..MaxTime : Evict(c)
<1>1. CASE Tick
  <2>1. PICK ts \in (now + 1)..(now + MaxGap), h \in Schemas :
               /\ ts <= MaxTime
               /\ \/ TickWide(ts, h)
                  \/ \E present \in SUBSET Occupants : TickLong(ts, h, present)
                  \/ TickSkipped(ts, h)
    BY <1>1 DEF Tick
  <2>2. ts \in 1..MaxTime /\ now < ts
    BY <2>1, ArchiveWriterAssumption DEF TypeOK
  <2>3. CASE TickWide(ts, h)
    BY <2>2, <2>3 DEF TickWide, RowTick
  <2>4. CASE \E present \in SUBSET Occupants : TickLong(ts, h, present)
    BY <2>2, <2>4 DEF TickLong, RowTick
  <2>5. CASE TickSkipped(ts, h)
    BY <2>2, <2>5 DEF TickSkipped, Skips
  <2> QED BY <2>1, <2>3, <2>4, <2>5
<1> QED BY <1>1 DEF Next

-----------------------------------------------------------------------------
LEMMA RowTickTypes ==
    ASSUME TypeOK, NEW ts, NEW h, NEW present, RowTick(ts, h, present)
    PROVE  /\ now' \in 0..MaxTime /\ form' \in Forms /\ cutoff' \in 0..MaxTime
           /\ anchored' \in Schemas \cup {NoSchema} /\ opened' \in 0..MaxTime
           /\ wal' \in Seq(Row) /\ written' \subseteq 1..MaxTime
           /\ segments' \subseteq Seq(Row) \ {<<>>}
           /\ NewRow(ts, h, present) \in Row /\ wal' = Append(wal, NewRow(ts, h, present))
<1>1. NewRow(ts, h, present) \in Row
  BY DEF RowTick, NewRow, Row, NeedsSchema
<1>2. wal' = Append(wal, NewRow(ts, h, present))
  BY DEF RowTick, WriteRow, NewRow
<1>3. wal' \in Seq(Row)
  BY <1>1, <1>2, AppendProperties DEF TypeOK
<1>4. now' \in 0..MaxTime /\ opened' \in 0..MaxTime
  BY ArchiveWriterAssumption DEF TypeOK, RowTick, WriteRow, Never
<1>5. written' \subseteq 1..MaxTime /\ anchored' \in Schemas \cup {NoSchema}
  BY DEF TypeOK, RowTick, WriteRow
<1> QED BY <1>1, <1>2, <1>3, <1>4, <1>5 DEF TypeOK, RowTick

\* An eviction that does not seal cuts no unsealed row.
LEMMA EvictEffect ==
    ASSUME TypeOK, OpenKnown, NEW c \in 1..MaxTime, Evict(c)
    PROVE  \/ /\ CutsOpen(c) /\ wal # <<>> /\ wal' = <<>>
              /\ segments' = {s \in segments \cup {wal} : ~SegmentOlder(s, c)}
              /\ anchored' = NoSchema /\ opened' = Never
           \/ /\ wal' = wal
              /\ segments' = {s \in segments : ~SegmentOlder(s, c)}
              /\ UNCHANGED <<anchored, opened>>
<1>1. CASE CutsOpen(c)
  BY <1>1 DEF Evict, CutsOpen, OpenKnown, Sealed, AfterSealing
<1>2. CASE ~CutsOpen(c)
  <2>1. wal \in Seq(Row) /\ Len(wal) \in Nat
    BY LenProperties DEF TypeOK
  <2>2. {i \in 1..Len(wal) : wal[i].ts < c} = {}
    <3> SUFFICES ASSUME NEW i \in 1..Len(wal), wal[i].ts < c PROVE FALSE
      OBVIOUS
    <3>1. wal # <<>>
      BY <2>1, EmptySeq
    <3>2. opened # Never /\ opened <= wal[i].ts /\ c <= opened
      BY <1>2, <3>1, ArchiveWriterAssumption DEF OpenKnown, CutsOpen, TypeOK
    <3>3. wal[i] \in Row
      BY <2>1, ElementOfSeq
    <3>4. wal[i].ts \in 1..MaxTime
      BY <3>3 DEF Row
    <3> QED BY <3>2, <3>4, ArchiveWriterAssumption DEF TypeOK
  <2>3. Older(wal, c) = 0
    BY <2>2, FS_EmptySet DEF Older
  <2>4. wal' = SubSeq(wal, 0 + 1, Len(wal))
    BY <1>2, <2>3 DEF Evict
  <2>5. SubSeq(wal, 1, Len(wal)) = wal
    BY <2>1, SubSeqFull
  <2>6. wal' = wal
    BY <2>4, <2>5
  <2> QED BY <1>2, <2>6 DEF Evict
<1> QED BY <1>1, <1>2

-----------------------------------------------------------------------------
\* Sealing, retention and a tick without a row add no run but an empty one.
LEMMA RunsOnlyShrink ==
    ASSUME TypeOK, OpenKnown,
           MaybeSeal \/ (\E c \in 1..MaxTime : Evict(c)) \/ (\E ts \in 1..MaxTime : Skips(ts))
    PROVE  /\ \A r \in Runs' : r \in Runs \/ r = <<>>
           /\ written' = written /\ now' >= now /\ now' \in Nat /\ now \in Nat
<1>1. now \in Nat
  BY ArchiveWriterAssumption DEF TypeOK
<1>2. CASE MaybeSeal
  BY <1>1, <1>2 DEF MaybeSeal, Sealed, Runs
<1>3. ASSUME NEW c \in 1..MaxTime, Evict(c)
      PROVE  (\A r \in Runs' : r \in Runs \/ r = <<>>) /\ written' = written /\ now' = now
  <2>1. written' = written /\ now' = now
    BY <1>3 DEF Evict
  <2>2. (wal' = <<>> \/ wal' = wal) /\ segments' \subseteq segments \cup {wal}
    BY <1>3, EvictEffect
  <2> QED BY <2>1, <2>2 DEF Runs
<1>4. ASSUME NEW ts \in 1..MaxTime, Skips(ts)
      PROVE  Runs' = Runs /\ written' = written /\ now' >= now /\ now' \in Nat
  BY <1>1, <1>4 DEF Skips, tables, Runs
<1> QED BY <1>1, <1>2, <1>3, <1>4

\* The open segment's first timestamp and last schema.
LEMMA OpenRowTick ==
    ASSUME RunInv, NEW ts, NEW h, NEW present, RowTick(ts, h, present)
    PROVE  OpenKnown' /\ AnchorKnown' /\ CutoffBehind' /\ RowsOrdered'
<1> DEFINE x == NewRow(ts, h, present)
<1>1. /\ ts \in 1..MaxTime /\ now < ts /\ now' = ts /\ cutoff' = cutoff
      /\ opened' = (IF opened = Never THEN ts ELSE opened) /\ anchored' = h
      /\ segments' = segments
  BY DEF RowTick, WriteRow
<1>2. /\ x \in Row /\ wal' = Append(wal, x) /\ x.ts = ts /\ x.hash = h
      /\ wal \in Seq(Row)
  BY RowTickTypes DEF RunInv, NewRow, TypeOK
<1>3. {now, opened, cutoff} \subseteq Nat /\ ts \in Nat \ {0} /\ MaxTime \in Nat
  BY <1>1, ArchiveWriterAssumption DEF RunInv, TypeOK
<1> HIDE DEF x
<1>4. /\ wal' # <<>> /\ Len(wal) \in Nat /\ Len(wal') = Len(wal) + 1
      /\ wal'[Len(wal) + 1] = x
      /\ \A i \in 1..Len(wal) : wal'[i] = wal[i]
      /\ \A i \in 1..Len(wal') : i \in 1..Len(wal) \/ i = Len(wal) + 1
  BY <1>2, AppendRow
<1>5. \A i \in 1..Len(wal) : wal[i].ts \in Nat /\ wal[i].ts < ts
  <2> SUFFICES ASSUME NEW i \in 1..Len(wal) PROVE wal[i].ts \in Nat /\ wal[i].ts < ts
    OBVIOUS
  <2>1. wal[i] \in Row /\ wal[i].ts <= now
    BY <1>2, ElementOfSeq DEF RunInv, RowsOrdered, Runs
  <2>2. wal[i].ts \in Nat
    BY <2>1 DEF Row
  <2> QED BY <1>1, <1>3, <2>1, <2>2
<1>6. OpenKnown'
  <2>1. opened' # Never
    BY <1>1, <1>3 DEF Never
  <2>2. ASSUME NEW i \in 1..Len(wal') PROVE opened' <= wal'[i].ts
    <3>1. CASE i \in 1..Len(wal)
      <4>1. opened # Never /\ opened <= wal[i].ts
        BY <1>2, <1>4, <3>1, EmptySeq DEF RunInv, OpenKnown
      <4> QED BY <1>1, <1>4, <3>1, <4>1
    <3>2. CASE i = Len(wal) + 1
      <4>1. wal'[i].ts = ts
        BY <1>2, <1>4, <3>2
      <4>2. opened' <= ts
        BY <1>1, <1>3 DEF RunInv, CutoffBehind
      <4> QED BY <4>1, <4>2
    <3> QED BY <1>4, <2>2, <3>1, <3>2
  <2> QED BY <1>4, <2>1, <2>2 DEF OpenKnown
<1>7. AnchorKnown'
  BY <1>1, <1>2, <1>4 DEF AnchorKnown
<1>8. CutoffBehind'
  BY <1>1, <1>3 DEF CutoffBehind, RunInv
<1>9. RowsOrdered'
  <2>1. ASSUME NEW r \in segments
        PROVE  /\ \A i \in 1..Len(r) : r[i].ts <= now'
               /\ \A i, j \in 1..Len(r) : i < j => r[i].ts < r[j].ts
    <3>1. r \in Seq(Row) /\ r \in Runs
      BY DEF RunInv, TypeOK, Runs
    <3>2. ASSUME NEW i \in 1..Len(r) PROVE r[i].ts <= now'
      <4>1. r[i] \in Row /\ r[i].ts <= now
        BY <3>1, ElementOfSeq DEF RunInv, RowsOrdered
      <4>2. r[i].ts \in Nat
        BY <4>1 DEF Row
      <4> QED BY <1>1, <1>3, <4>1, <4>2
    <3> QED BY <3>1, <3>2 DEF RunInv, RowsOrdered
  <2>2. ASSUME NEW i \in 1..Len(wal') PROVE wal'[i].ts <= now'
    <3>1. CASE i \in 1..Len(wal)
      BY <1>1, <1>3, <1>4, <1>5, <3>1
    <3>2. CASE i = Len(wal) + 1
      BY <1>1, <1>2, <1>3, <1>4, <3>2
    <3> QED BY <1>4, <2>2, <3>1, <3>2
  <2>3. ASSUME NEW i \in 1..Len(wal'), NEW j \in 1..Len(wal'), i < j
        PROVE  wal'[i].ts < wal'[j].ts
    <3>1. i \in 1..Len(wal)
      BY <1>4, <2>3
    <3>2. CASE j \in 1..Len(wal)
      BY <1>4, <2>3, <3>1, <3>2 DEF RunInv, RowsOrdered, Runs
    <3>3. CASE j = Len(wal) + 1
      BY <1>2, <1>4, <1>5, <3>1, <3>3
    <3> QED BY <1>4, <3>2, <3>3
  <2> QED BY <1>1, <2>1, <2>2, <2>3 DEF RowsOrdered, Runs
<1> QED BY <1>6, <1>7, <1>8, <1>9

LEMMA OpenSealed ==
    ASSUME RunInv,
           MaybeSeal \/ (\E c \in 1..MaxTime : Evict(c)) \/ (\E ts \in 1..MaxTime : Skips(ts))
    PROVE  OpenKnown' /\ AnchorKnown' /\ CutoffBehind' /\ RowsOrdered'
<1>1. /\ \A r \in Runs' : r \in Runs \/ r = <<>>
      /\ now' >= now /\ now' \in Nat /\ now \in Nat
  BY RunsOnlyShrink DEF RunInv
<1>2. {opened, cutoff} \subseteq Nat
  BY ArchiveWriterAssumption DEF RunInv, TypeOK
<1>3. \/ wal' = <<>> /\ opened' = Never /\ anchored' = NoSchema
      \/ wal' = wal /\ opened' = opened /\ anchored' = anchored
  <2>1. CASE MaybeSeal
    BY <2>1 DEF MaybeSeal, AfterSealing
  <2>2. ASSUME NEW c \in 1..MaxTime, Evict(c)
        PROVE  \/ wal' = <<>> /\ opened' = Never /\ anchored' = NoSchema
               \/ wal' = wal /\ opened' = opened /\ anchored' = anchored
    BY <2>2, EvictEffect DEF RunInv
  <2>3. ASSUME NEW ts \in 1..MaxTime, Skips(ts)
        PROVE  wal' = wal /\ opened' = opened /\ anchored' = anchored
    BY <2>3 DEF Skips, tables
  <2> QED BY <2>1, <2>2, <2>3
<1>4. OpenKnown' /\ AnchorKnown'
  <2>1. Len(<<>>) = 0
    BY EmptySeq
  <2>2. \A i \in 1..Len(<<>>) : FALSE
    BY <2>1
  <2>3. CASE wal' = <<>> /\ opened' = Never /\ anchored' = NoSchema
    BY <2>2, <2>3 DEF OpenKnown, AnchorKnown
  <2>4. CASE wal' = wal /\ opened' = opened /\ anchored' = anchored
    BY <2>4 DEF RunInv, OpenKnown, AnchorKnown
  <2> QED BY <1>3, <2>3, <2>4
<1>5. CutoffBehind'
  <2>1. cutoff' <= now'
    <3>1. CASE \E c \in 1..MaxTime : Evict(c)
      BY <1>1, <3>1, ArchiveWriterAssumption DEF Evict
    <3>2. CASE ~(\E c \in 1..MaxTime : Evict(c))
      <4>1. cutoff' = cutoff
        BY <3>2 DEF MaybeSeal, Skips
      <4> QED BY <1>1, <1>2, <4>1 DEF RunInv, CutoffBehind
    <3> QED BY <3>1, <3>2
  <2>2. opened' <= now'
    BY <1>1, <1>2, <1>3 DEF RunInv, CutoffBehind, Never
  <2> QED BY <2>1, <2>2 DEF CutoffBehind
<1>6. RowsOrdered'
  <2> SUFFICES ASSUME NEW r \in Runs'
               PROVE  /\ \A i \in 1..Len(r) : r[i].ts <= now'
                      /\ \A i, j \in 1..Len(r) : i < j => r[i].ts < r[j].ts
    BY DEF RowsOrdered
  <2>1. CASE r = <<>>
    <3>1. \A i \in 1..Len(r) : FALSE
      BY <2>1, EmptySeq
    <3> QED BY <3>1
  <2>2. CASE r \in Runs
    <3>1. r \in Seq(Row)
      BY <2>2 DEF RunInv, TypeOK, Runs
    <3>2. ASSUME NEW i \in 1..Len(r) PROVE r[i].ts <= now'
      <4>1. r[i] \in Row /\ r[i].ts <= now
        BY <2>2, <3>1, ElementOfSeq DEF RunInv, RowsOrdered
      <4>2. r[i].ts \in Nat
        BY <4>1 DEF Row
      <4> QED BY <1>1, <4>1, <4>2
    <3> QED BY <2>2, <3>2 DEF RunInv, RowsOrdered
  <2> QED BY <1>1, <2>1, <2>2
<1> QED BY <1>4, <1>5, <1>6

-----------------------------------------------------------------------------
LEMMA TypesStart == Init => TypeOK
<1> SUFFICES ASSUME Init PROVE TypeOK
  OBVIOUS
<1>1. 1 \in Schemas /\ 0 \in 0..MaxTime
  BY ArchiveWriterAssumption DEF Schemas
<1>2. wal \in Seq(Row)
  BY EmptySeq DEF Init
<1> QED BY <1>1, <1>2 DEF Init, TypeOK, Never, NoSchema

LEMMA LabelTypes ==
    ASSUME TypeOK, NEW ts \in 1..MaxTime, NEW present \in SUBSET Occupants,
           WriteLabels(ts, present)
    PROVE  /\ described' \subseteq Occupants /\ seen' \subseteq Occupants
           /\ lastRestated' \in 0..MaxTime /\ labels' \subseteq LabelRow
           /\ lastSeen' \in [Occupants -> 0..MaxTime]
<1>1. ts \in 0..MaxTime
  BY ArchiveWriterAssumption
<1>2. described' \subseteq Occupants /\ seen' \subseteq Occupants /\ lastRestated' \in 0..MaxTime
  BY <1>1 DEF TypeOK, WriteLabels
<1>3. lastSeen' \in [Occupants -> 0..MaxTime]
  <2>1. lastSeen' = [o \in Occupants |-> IF o \in present THEN ts ELSE lastSeen[o]]
    BY DEF WriteLabels
  <2> QED BY <1>1, <2>1 DEF TypeOK
<1>4. labels' \subseteq LabelRow
  <2>1. Stated(ts, present) \subseteq Occupants
    BY DEF Stated, TypeOK
  <2> QED BY <2>1 DEF TypeOK, WriteLabels, LabelRow
<1> QED BY <1>2, <1>3, <1>4

LEMMA TypesNext == RunInv /\ [Next]_vars => TypeOK'
<1> SUFFICES ASSUME RunInv, [Next]_vars PROVE TypeOK'
  OBVIOUS
<1> USE DEF RunInv
<1>1. ASSUME NEW ts \in 1..MaxTime, NEW h \in Schemas, RowTick(ts, h, {}),
             UNCHANGED <<hash, described, seen, lastRestated, labels, lastSeen>>
      PROVE  TypeOK'
  BY <1>1, RowTickTypes DEF TypeOK
<1>2. ASSUME NEW ts \in 1..MaxTime, NEW h \in Schemas, NEW present \in SUBSET Occupants,
             RowTick(ts, h, present), WriteLabels(ts, present), hash' = h
      PROVE  TypeOK'
  BY <1>2, RowTickTypes, LabelTypes DEF TypeOK
<1>3. ASSUME NEW ts \in 1..MaxTime, NEW h \in Schemas, Skips(ts), hash' = h
      PROVE  TypeOK'
  BY <1>3, ArchiveWriterAssumption DEF TypeOK, Skips, tables
<1>4. wal # <<>> => segments \cup {wal} \subseteq Seq(Row) \ {<<>>}
  BY DEF TypeOK
<1>5. CASE MaybeSeal
  <2>1. segments' \subseteq Seq(Row) \ {<<>>}
    BY <1>4, <1>5 DEF MaybeSeal, Sealed
  <2>2. wal' \in Seq(Row) /\ opened' \in 0..MaxTime /\ anchored' \in Schemas \cup {NoSchema}
    BY <1>5, EmptySeq, ArchiveWriterAssumption DEF MaybeSeal, Never, AfterSealing
  <2> QED BY <1>5, <2>1, <2>2 DEF MaybeSeal, TypeOK
<1>6. ASSUME NEW c \in 1..MaxTime, Evict(c) PROVE TypeOK'
  <2>1. /\ segments' \subseteq Seq(Row) \ {<<>>} /\ wal' \in Seq(Row)
        /\ opened' \in 0..MaxTime /\ anchored' \in Schemas \cup {NoSchema}
    <3>1. <<>> \in Seq(Row) /\ 0 \in 0..MaxTime
      BY EmptySeq, ArchiveWriterAssumption
    <3>2. CASE /\ CutsOpen(c) /\ wal # <<>> /\ wal' = <<>>
               /\ segments' = {s \in segments \cup {wal} : ~SegmentOlder(s, c)}
               /\ anchored' = NoSchema /\ opened' = Never
      BY <1>4, <3>1, <3>2 DEF Never
    <3>3. CASE /\ wal' = wal
               /\ segments' = {s \in segments : ~SegmentOlder(s, c)}
               /\ UNCHANGED <<anchored, opened>>
      BY <3>3 DEF TypeOK
    <3> QED BY <1>6, <3>2, <3>3, EvictEffect
  <2>2. c \in 0..MaxTime
    BY ArchiveWriterAssumption
  <2> QED BY <1>6, <2>1, <2>2 DEF TypeOK, Evict
<1>7. CASE UNCHANGED vars
  BY <1>7 DEF vars, groupState, tables, TypeOK
<1>8. CASE Next
  BY <1>1, <1>2, <1>3, <1>5, <1>6, <1>8, StepCases
<1> QED BY <1>7, <1>8

LEMMA RunStart == Init => RunInv
<1> SUFFICES ASSUME Init PROVE RunInv
  OBVIOUS
<1>1. \A i \in 1..Len(<<>>) : FALSE
  BY EmptySeq
<1>2. TypeOK /\ OpenKnown /\ AnchorKnown /\ CutoffBehind
  BY <1>1, TypesStart DEF Init, OpenKnown, AnchorKnown, CutoffBehind, Never
<1>3. RowsOrdered
  BY <1>1 DEF Init, RowsOrdered, Runs
<1> QED BY <1>2, <1>3 DEF RunInv

LEMMA RunNext == RunInv /\ [Next]_vars => RunInv'
<1> SUFFICES ASSUME RunInv, [Next]_vars PROVE RunInv'
  OBVIOUS
<1>1. TypeOK'
  BY TypesNext
<1>2. CASE Next
  <2>1. \/ \E ts, h, present : RowTick(ts, h, present)
        \/ MaybeSeal
        \/ \E c \in 1..MaxTime : Evict(c)
        \/ \E ts \in 1..MaxTime : Skips(ts)
    BY <1>2, StepCases DEF RunInv
  <2>2. OpenKnown' /\ AnchorKnown' /\ CutoffBehind' /\ RowsOrdered'
    BY <2>1, OpenRowTick, OpenSealed
  <2> QED BY <1>1, <2>2 DEF RunInv
<1>3. CASE UNCHANGED vars
  BY <1>1, <1>3 DEF vars, groupState, tables, RunInv, OpenKnown, AnchorKnown, CutoffBehind,
                    RowsOrdered, Runs
<1> QED BY <1>2, <1>3

\* Every variable keeps its type.
THEOREM ArchiveWriterTypes == Spec => []TypeOK
<1>1. RunInv => TypeOK
  BY DEF RunInv
<1> QED BY <1>1, RunStart, RunNext, PTL DEF Spec

-----------------------------------------------------------------------------
\* A step of the runs: a row appended, or runs sealed and dropped.
LEMMA RunSteps ==
    ASSUME RunInv, [Next]_vars
    PROVE  \/ \E ts, h, present : RowTick(ts, h, present)
           \/ (\A r \in Runs' : r \in Runs \/ r = <<>>) /\ written' = written
<1>1. CASE UNCHANGED vars
  BY <1>1 DEF vars, tables, Runs
<1>2. CASE Next
  <2>1. \/ \E ts, h, present : RowTick(ts, h, present)
        \/ MaybeSeal
        \/ \E c \in 1..MaxTime : Evict(c)
        \/ \E ts \in 1..MaxTime : Skips(ts)
    BY <1>2, StepCases DEF RunInv
  <2> QED BY <2>1, RunsOnlyShrink DEF RunInv
<1> QED BY <1>1, <1>2

LEMMA DecodesAppended ==
    ASSUME RunInv, Decodes(wal), NEW ts, NEW h, NEW present, RowTick(ts, h, present)
    PROVE  Decodes(wal')
<1> DEFINE x == NewRow(ts, h, present)
           n == Len(wal)
<1>1. x \in Row /\ wal' = Append(wal, x) /\ wal \in Seq(Row)
  BY RowTickTypes DEF RunInv, TypeOK
<1>2. x.hash = h /\ x.schema = (anchored # h)
  BY DEF NewRow, NeedsSchema
<1> HIDE DEF x, n
<1>3. /\ n \in Nat /\ Len(wal') = n + 1 /\ wal'[n + 1] = x
      /\ \A i \in 1..n : wal'[i] = wal[i]
      /\ \A i \in 1..Len(wal') : i \in 1..n \/ i = n + 1
  BY <1>1, AppendRow DEF n
<1> SUFFICES ASSUME NEW i \in 1..Len(wal')
             PROVE  \E j \in 1..i :
                       /\ wal'[j].schema /\ wal'[j].hash = wal'[i].hash
                       /\ \A k \in (j + 1)..i : wal'[k].schema => wal'[k].hash = wal'[i].hash
  BY DEF Decodes
<1>4. CASE i \in 1..n
  <2>1. PICK j \in 1..i :
               /\ wal[j].schema /\ wal[j].hash = wal[i].hash
               /\ \A k \in (j + 1)..i : wal[k].schema => wal[k].hash = wal[i].hash
    BY <1>4 DEF Decodes, n
  <2>2. j \in 1..n /\ \A k \in (j + 1)..i : k \in 1..n
    BY <1>3, <1>4
  <2> QED BY <1>3, <1>4, <2>1, <2>2
<1>5. CASE i = n + 1 /\ x.schema
  <2>1. i \in 1..i /\ \A k \in (i + 1)..i : FALSE
    BY <1>3, <1>5
  <2> QED BY <1>3, <1>5, <2>1
<1>6. CASE i = n + 1 /\ ~x.schema
  <2>1. anchored = h /\ h # NoSchema
    <3>1. anchored = h
      BY <1>2, <1>6, Zenon
    <3>2. h # NoSchema
      BY ArchiveWriterAssumption DEF RowTick, Schemas, NoSchema
    <3> QED BY <3>1, <3>2
  <2>2. wal # <<>> /\ wal[n].hash = h
    BY <2>1 DEF RunInv, AnchorKnown, n
  <2>3. n \in 1..n
    BY <1>1, <2>2, NonEmptyRow DEF n
  <2>4. PICK j \in 1..n :
               /\ wal[j].schema /\ wal[j].hash = wal[n].hash
               /\ \A k \in (j + 1)..n : wal[k].schema => wal[k].hash = wal[n].hash
    BY <2>3 DEF Decodes, n
  <2>5. j \in 1..i /\ \A k \in (j + 1)..i : (k \in (j + 1)..n /\ k \in 1..n) \/ k = n + 1
    BY <1>3, <1>6
  <2> QED BY <1>2, <1>3, <1>6, <2>2, <2>4, <2>5
<1> QED BY <1>3, <1>4, <1>5, <1>6

DecodeInv == RunInv /\ EveryRunDecodes

LEMMA DecodeNext == DecodeInv /\ [Next]_vars => DecodeInv'
<1> SUFFICES ASSUME DecodeInv, [Next]_vars PROVE DecodeInv'
  OBVIOUS
<1>1. RunInv'
  BY RunNext DEF DecodeInv
<1>2. ASSUME NEW ts, NEW h, NEW present, RowTick(ts, h, present) PROVE EveryRunDecodes'
  <2>1. Decodes(wal')
    BY <1>2, DecodesAppended DEF DecodeInv, EveryRunDecodes
  <2> QED BY <1>2, <2>1 DEF DecodeInv, EveryRunDecodes, RowTick
<1>3. CASE \A r \in Runs' : r \in Runs \/ r = <<>>
  <2>1. Decodes(<<>>)
    BY EmptySeq DEF Decodes
  <2>2. \A r \in Runs : Decodes(r)
    BY DEF DecodeInv, EveryRunDecodes, Runs
  <2>3. \A r \in segments' \cup {wal'} : Decodes(r)
    BY <1>3, <2>1, <2>2 DEF Runs
  <2> QED BY <1>1, <2>3 DEF DecodeInv, EveryRunDecodes
<1> QED BY <1>1, <1>2, <1>3, RunSteps DEF DecodeInv

\* Every row of every run, unsealed or sealed, decodes against the last schema
\* its run carries before it, whatever was sealed, evicted or skipped.
THEOREM RunsDecode == Spec => []EveryRunDecodes
<1>1. Init => DecodeInv
  BY RunStart, EmptySeq DEF Init, DecodeInv, EveryRunDecodes, Decodes
<1>2. DecodeInv => EveryRunDecodes
  BY DEF DecodeInv
<1> QED BY <1>1, <1>2, DecodeNext, PTL DEF Spec

-----------------------------------------------------------------------------
HeldAt(ts) == \E r \in Runs : \E i \in 1..Len(r) : r[i].ts = ts

RetainInv == RunInv /\ \A ts \in written : ts >= cutoff => HeldAt(ts)

LEMMA RetainsRuns ==
    (\A ts \in written : ts >= cutoff => HeldAt(ts)) => RetainsTheWindow
  BY DEF RetainsTheWindow, HeldAt, Timestamps, Runs

LEMMA RetainAppended ==
    ASSUME RetainInv, RunInv', NEW ts, NEW h, NEW present, RowTick(ts, h, present)
    PROVE  RetainInv'
<1> DEFINE x == NewRow(ts, h, present)
<1>1. x \in Row /\ wal' = Append(wal, x) /\ wal \in Seq(Row) /\ x.ts = ts
  BY RowTickTypes DEF RetainInv, RunInv, TypeOK, NewRow
<1>2. written' = written \cup {ts} /\ cutoff' = cutoff /\ segments' = segments
  BY DEF RowTick, WriteRow
<1> HIDE DEF x
<1>3. /\ Len(wal) \in Nat /\ Len(wal') = Len(wal) + 1
      /\ wal'[Len(wal) + 1] = x /\ \A i \in 1..Len(wal) : wal'[i] = wal[i]
  BY <1>1, AppendRow
<1>4. ASSUME NEW w, HeldAt(w) PROVE HeldAt(w)'
  <2>1. PICK r \in Runs : \E i \in 1..Len(r) : r[i].ts = w
    BY <1>4 DEF HeldAt
  <2>2. CASE r \in segments
    BY <1>2, <2>1, <2>2 DEF HeldAt, Runs
  <2>3. CASE r = wal
    <3>1. PICK i \in 1..Len(wal) : wal[i].ts = w
      BY <2>1, <2>3
    <3>2. i \in 1..Len(wal') /\ wal'[i].ts = w
      BY <1>3, <3>1
    <3> QED BY <3>2 DEF HeldAt, Runs
  <2> QED BY <2>1, <2>2, <2>3 DEF Runs
<1>5. HeldAt(ts)'
  <2>1. Len(wal) + 1 \in 1..Len(wal') /\ wal'[Len(wal) + 1].ts = ts
    BY <1>1, <1>3
  <2> QED BY <2>1 DEF HeldAt, Runs
<1>6. \A w \in written' : w >= cutoff' => HeldAt(w)'
  BY <1>2, <1>4, <1>5 DEF RetainInv
<1> QED BY <1>6 DEF RetainInv

\* A run that holds a row inside the new cutoff is not dropped.
LEMMA RetainEvicted ==
    ASSUME RetainInv, RunInv', NEW c \in 1..MaxTime, Evict(c)
    PROVE  RetainInv'
<1>1. cutoff < c /\ cutoff' = c /\ written' = written /\ c \in Nat /\ cutoff \in Nat
  BY ArchiveWriterAssumption DEF Evict, RetainInv, RunInv, TypeOK
<1>2. written \subseteq Nat
  BY ArchiveWriterAssumption DEF RetainInv, RunInv, TypeOK
<1>3. ASSUME NEW w \in written, w >= c PROVE HeldAt(w)'
  <2>1. HeldAt(w)
    BY <1>1, <1>2, <1>3 DEF RetainInv
  <2>2. PICK r \in Runs : \E i \in 1..Len(r) : r[i].ts = w
    BY <2>1 DEF HeldAt
  <2>3. PICK i \in 1..Len(r) : r[i].ts = w
    BY <2>2
  <2>4. r \in Seq(Row)
    BY DEF RetainInv, RunInv, TypeOK, Runs
  <2>5. Len(r) \in Nat /\ r # <<>>
    BY <2>3, <2>4, EmptySeq, LenProperties
  <2>6. Len(r) \in 1..Len(r) /\ r[Len(r)] \in Row
    BY <2>4, <2>5, NonEmptyRow
  <2>7. r[Len(r)].ts >= c
    <3>1. r[Len(r)].ts \in Nat
      BY <2>6 DEF Row
    <3>2. i = Len(r) \/ i < Len(r)
      BY <2>3, <2>5
    <3>3. i < Len(r) => r[i].ts < r[Len(r)].ts
      BY <2>6 DEF RetainInv, RunInv, RowsOrdered
    <3> QED BY <1>1, <1>2, <1>3, <2>3, <3>1, <3>2, <3>3
  <2>8. ~SegmentOlder(r, c)
    <3>1. r[Len(r)].ts \in Nat
      BY <2>6 DEF Row
    <3> QED BY <1>1, <2>7, <3>1 DEF SegmentOlder
  <2>9. r \in Runs'
    <3>1. TypeOK /\ OpenKnown
      BY DEF RetainInv, RunInv
    <3>2. \/ segments' = {s \in segments \cup {wal} : ~SegmentOlder(s, c)}
          \/ wal' = wal /\ segments' = {s \in segments : ~SegmentOlder(s, c)}
      BY <3>1, EvictEffect
    <3> QED BY <2>8, <3>2 DEF Runs
  <2> QED BY <2>3, <2>9 DEF HeldAt
<1> QED BY <1>1, <1>3 DEF RetainInv

LEMMA RetainNext == RetainInv /\ [Next]_vars => RetainInv'
<1> SUFFICES ASSUME RetainInv, [Next]_vars PROVE RetainInv'
  OBVIOUS
<1>1. RunInv'
  BY RunNext DEF RetainInv
<1>2. ASSUME Runs' = Runs, written' = written, cutoff' = cutoff PROVE RetainInv'
  <2>1. \A w : HeldAt(w) => HeldAt(w)'
    BY <1>2 DEF HeldAt
  <2> QED BY <1>1, <1>2, <2>1 DEF RetainInv
<1>3. CASE MaybeSeal
  <2>1. Runs \subseteq Runs' /\ written' = written /\ cutoff' = cutoff
    BY <1>3 DEF MaybeSeal, Sealed, Runs
  <2>2. \A w : HeldAt(w) => HeldAt(w)'
    BY <2>1 DEF HeldAt
  <2> QED BY <1>1, <2>1, <2>2 DEF RetainInv
<1>4. ASSUME NEW ts \in 1..MaxTime, Skips(ts) PROVE RetainInv'
  BY <1>2, <1>4 DEF Skips, tables, Runs
<1>5. CASE UNCHANGED vars
  BY <1>2, <1>5 DEF vars, tables, Runs
<1>6. CASE Next
  <2>1. \/ \E ts, h, present : RowTick(ts, h, present)
        \/ MaybeSeal
        \/ \E c \in 1..MaxTime : Evict(c)
        \/ \E ts \in 1..MaxTime : Skips(ts)
    BY <1>6, StepCases DEF RetainInv, RunInv
  <2> QED BY <1>1, <1>3, <1>4, <2>1, RetainAppended, RetainEvicted
<1> QED BY <1>5, <1>6

\* Retention drops no row inside its cutoff, however eviction, sealing and
\* ticks with or without a row follow each other.
THEOREM WindowIsRetained == Spec => []RetainsTheWindow
<1>1. Init => RetainInv
  BY RunStart DEF Init, RetainInv
<1>2. RetainInv => RetainsTheWindow
  BY RetainsRuns DEF RetainInv
<1> QED BY <1>1, <1>2, RetainNext, PTL DEF Spec

-----------------------------------------------------------------------------
\* Every row inside the cutoff has a label less than a restatement period
\* older than itself.
LabelledInTime(r) ==
    \A i \in 1..Len(r) : r[i].ts >= cutoff =>
        \A o \in r[i].occupants : \E l \in labels :
            l.occupant = o /\ r[i].ts < l.ts + RestateEvery

\* Whoever was seen less than a period before the last restatement was
\* stated at it or since, and the label is there.
StatedInTime ==
    \A o \in described :
        lastRestated < lastSeen[o] + RestateEvery /\ LabelCutoff(cutoff) <= lastRestated =>
            \E l \in labels : l.occupant = o /\ lastRestated <= l.ts

SeenSince == \A o \in described : lastRestated < lastSeen[o] => o \in seen

SeenBefore ==
    /\ lastRestated = Never => described = {}
    /\ lastRestated <= now
    /\ \A o \in Occupants : lastSeen[o] <= now

LabelInv ==
    RunInv /\ (\A r \in Runs : LabelledInTime(r)) /\ StatedInTime /\ SeenSince /\ SeenBefore

LEMMA LabelNumbers ==
    ASSUME TypeOK
    PROVE  /\ now \in Nat /\ cutoff \in Nat /\ lastRestated \in Nat
           /\ RestateEvery \in Nat \ {0} /\ LabelCutoff(cutoff) \in Nat
           /\ \A o \in Occupants : lastSeen[o] \in Nat
           /\ \A l \in labels : l.ts \in Nat
           /\ \A r \in Runs : r \in Seq(Row)
           /\ \A r \in Runs : \A i \in 1..Len(r) :
                 r[i].ts \in Nat /\ r[i].occupants \subseteq Occupants
<1>1. /\ now \in Nat /\ cutoff \in Nat /\ lastRestated \in Nat
      /\ RestateEvery \in Nat \ {0}
      /\ \A o \in Occupants : lastSeen[o] \in Nat
      /\ \A l \in labels : l.ts \in Nat
  BY ArchiveWriterAssumption DEF TypeOK, LabelRow
<1>2. LabelCutoff(cutoff) \in Nat
  BY <1>1 DEF LabelCutoff
<1>3. \A r \in Runs : r \in Seq(Row)
  BY DEF TypeOK, Runs
<1>4. ASSUME NEW r \in Runs, NEW i \in 1..Len(r)
      PROVE  r[i].ts \in Nat /\ r[i].occupants \subseteq Occupants
  <2>1. r[i] \in Row
    BY <1>3, ElementOfSeq
  <2> QED BY <2>1 DEF Row
<1> QED BY <1>1, <1>2, <1>3, <1>4

\* Fewer runs, the same labels, and a clock that may have gone on.
LEMMA LabelsLeft ==
    ASSUME LabelInv, RunInv', \A r \in Runs' : r \in Runs \/ r = <<>>, now' >= now,
           UNCHANGED <<described, seen, lastRestated, labels, cutoff, lastSeen>>
    PROVE  LabelInv'
<1>1. \A r \in Runs' : LabelledInTime(r)'
  <2> SUFFICES ASSUME NEW r \in Runs' PROVE LabelledInTime(r)'
    OBVIOUS
  <2>1. CASE r = <<>>
    <3>1. \A i \in 1..Len(r) : FALSE
      BY <2>1, EmptySeq
    <3> QED BY <3>1 DEF LabelledInTime
  <2>2. CASE r \in Runs
    BY <2>2 DEF LabelInv, LabelledInTime
  <2> QED BY <2>1, <2>2
<1>2. StatedInTime' /\ SeenSince'
  BY DEF LabelInv, StatedInTime, SeenSince
<1>3. SeenBefore'
  <2>1. /\ now \in Nat /\ now' \in Nat /\ lastRestated \in Nat
        /\ \A o \in Occupants : lastSeen[o] \in Nat
    BY LabelNumbers, ArchiveWriterAssumption DEF LabelInv, RunInv, TypeOK
  <2> QED BY <2>1 DEF LabelInv, SeenBefore
<1> QED BY <1>1, <1>2, <1>3 DEF LabelInv

\* A tick of the wide form.
LEMMA LabelsOfWide ==
    ASSUME LabelInv, RunInv', NEW ts, NEW h, RowTick(ts, h, {}),
           UNCHANGED <<described, seen, lastRestated, labels, lastSeen>>
    PROVE  LabelInv'
<1> DEFINE x == NewRow(ts, h, {})
<1>1. x \in Row /\ wal' = Append(wal, x) /\ wal \in Seq(Row) /\ x.occupants = {}
  BY RowTickTypes DEF LabelInv, RunInv, TypeOK, NewRow
<1>2. cutoff' = cutoff /\ segments' = segments /\ now < ts /\ now' = ts /\ ts \in 1..MaxTime
  BY DEF RowTick
<1> HIDE DEF x
<1>3. /\ wal'[Len(wal) + 1] = x /\ (\A i \in 1..Len(wal) : wal'[i] = wal[i])
      /\ \A i \in 1..Len(wal') : i \in 1..Len(wal) \/ i = Len(wal) + 1
  BY <1>1, AppendRow
<1>4. \A r \in Runs' : LabelledInTime(r)'
  <2>1. \A r \in segments : LabelledInTime(r)'
    BY <1>2 DEF LabelInv, LabelledInTime, Runs
  <2>2. ASSUME NEW r, r = wal' PROVE LabelledInTime(r)'
    <3>1. \A i \in 1..Len(wal) : wal[i].ts >= cutoff =>
             \A o \in wal[i].occupants : \E l \in labels :
                l.occupant = o /\ wal[i].ts < l.ts + RestateEvery
      BY DEF LabelInv, LabelledInTime, Runs
    <3> QED BY <1>1, <1>2, <1>3, <2>2, <3>1 DEF LabelledInTime
  <2> QED BY <1>2, <2>1, <2>2 DEF Runs
<1>5. StatedInTime' /\ SeenSince'
  BY <1>2 DEF LabelInv, StatedInTime, SeenSince
<1>6. SeenBefore'
  <2>1. /\ now \in Nat /\ now' \in Nat /\ lastRestated \in Nat /\ now <= now'
        /\ \A o \in Occupants : lastSeen[o] \in Nat
    BY <1>2, LabelNumbers, ArchiveWriterAssumption DEF LabelInv, RunInv, TypeOK
  <2> QED BY <2>1 DEF LabelInv, SeenBefore
<1> QED BY <1>4, <1>5, <1>6 DEF LabelInv

\* A tick of the long form: each occupant of its row has a label, in time for
\* the row and since the last restatement.
LEMMA LabelsOfRow ==
    ASSUME LabelInv, ~Returns, NEW ts \in 1..MaxTime, now < ts,
           NEW present \in SUBSET Occupants, WriteLabels(ts, present),
           NEW o \in present, MayReturn(ts, o)
    PROVE  \E l \in labels' :
              l.occupant = o /\ lastRestated' <= l.ts /\ ts < l.ts + RestateEvery
<1>1. /\ now \in Nat /\ cutoff \in Nat /\ lastRestated \in Nat /\ ts \in Nat \ {0}
      /\ RestateEvery \in Nat \ {0} /\ lastSeen[o] \in Nat
      /\ \A l \in labels : l.ts \in Nat
  BY LabelNumbers, ArchiveWriterAssumption DEF LabelInv, RunInv, TypeOK
<1>2. /\ labels' = labels \cup {[ts |-> ts, occupant |-> p] : p \in Stated(ts, present)}
      /\ lastRestated' = (IF lastRestated = Never \/ RestateDue(ts) THEN ts ELSE lastRestated)
  BY DEF WriteLabels
<1>3. CASE o \in Stated(ts, present)
  <2> DEFINE l == [ts |-> ts, occupant |-> o]
  <2>1. l \in labels'
    BY <1>2, <1>3
  <2>2. l.occupant = o /\ l.ts = ts
    OBVIOUS
  <2>3. lastRestated' <= ts /\ ts < ts + RestateEvery
    BY <1>1, <1>2 DEF LabelInv, SeenBefore
  <2> HIDE DEF l
  <2> QED BY <2>1, <2>2, <2>3
<1>4. CASE o \notin Stated(ts, present)
  <2>1. o \in described /\ ~RestateDue(ts)
    BY <1>4 DEF Stated
  <2>2. lastRestated # Never /\ lastRestated' = lastRestated
    BY <1>2, <2>1 DEF LabelInv, SeenBefore
  <2>3. ts < lastRestated + RestateEvery
    BY <1>1, <2>1, <2>2 DEF RestateDue
  <2>4. ts < lastSeen[o] + RestateEvery
    BY <1>1, <2>1 DEF MayReturn
  <2>5. lastRestated < lastSeen[o] + RestateEvery
    BY <1>1, <2>4 DEF LabelInv, SeenBefore
  <2>6. LabelCutoff(cutoff) <= lastRestated
    BY <1>1, <2>3 DEF LabelCutoff, LabelInv, RunInv, CutoffBehind
  <2>7. PICK l \in labels : l.occupant = o /\ lastRestated <= l.ts
    BY <2>1, <2>5, <2>6 DEF LabelInv, StatedInTime
  <2>8. ts < l.ts + RestateEvery
    BY <1>1, <2>3, <2>7
  <2> QED BY <1>2, <2>2, <2>7, <2>8
<1> QED BY <1>3, <1>4

LEMMA LabelsOfLong ==
    ASSUME LabelInv, RunInv', ~Returns, NEW ts, NEW h, NEW present \in SUBSET Occupants,
           RowTick(ts, h, present), WriteLabels(ts, present),
           \A o \in present : MayReturn(ts, o)
    PROVE  LabelInv'
<1> DEFINE x == NewRow(ts, h, present)
<1>1. x \in Row /\ wal' = Append(wal, x) /\ wal \in Seq(Row) /\ x.occupants = present /\ x.ts = ts
  BY RowTickTypes DEF LabelInv, RunInv, TypeOK, NewRow
<1>2. cutoff' = cutoff /\ segments' = segments /\ now < ts /\ now' = ts /\ ts \in 1..MaxTime
  BY DEF RowTick
<1> HIDE DEF x
<1>3. /\ wal'[Len(wal) + 1] = x /\ (\A i \in 1..Len(wal) : wal'[i] = wal[i])
      /\ \A i \in 1..Len(wal') : i \in 1..Len(wal) \/ i = Len(wal) + 1
  BY <1>1, AppendRow
<1>4. /\ now \in Nat /\ lastRestated \in Nat /\ ts \in Nat \ {0}
      /\ RestateEvery \in Nat \ {0} /\ \A o \in Occupants : lastSeen[o] \in Nat
  BY <1>2, LabelNumbers, ArchiveWriterAssumption DEF LabelInv, RunInv, TypeOK
<1>5. /\ described' = described \cup present
      /\ seen' = (IF RestateDue(ts) THEN {} ELSE seen \cup present)
      /\ labels' = labels \cup {[ts |-> ts, occupant |-> p] : p \in Stated(ts, present)}
      /\ lastRestated' = (IF lastRestated = Never \/ RestateDue(ts) THEN ts ELSE lastRestated)
      /\ \A o \in Occupants : lastSeen'[o] = IF o \in present THEN ts ELSE lastSeen[o]
  BY DEF WriteLabels
<1>6. \A o \in present : \E l \in labels' :
         l.occupant = o /\ lastRestated' <= l.ts /\ ts < l.ts + RestateEvery
  BY <1>2, LabelsOfRow
<1>7. described \subseteq Occupants
  BY DEF LabelInv, RunInv, TypeOK
<1>8. \A r \in Runs' : LabelledInTime(r)'
  <2>1. \A r \in segments : LabelledInTime(r)'
    BY <1>2, <1>5 DEF LabelInv, LabelledInTime, Runs
  <2>2. ASSUME NEW r, r = wal' PROVE LabelledInTime(r)'
    <3>1. \A i \in 1..Len(wal) : wal[i].ts >= cutoff =>
             \A o \in wal[i].occupants : \E l \in labels' :
                l.occupant = o /\ wal[i].ts < l.ts + RestateEvery
      BY <1>5 DEF LabelInv, LabelledInTime, Runs
    <3>2. ASSUME NEW i \in 1..Len(r), r[i].ts >= cutoff, NEW o \in r[i].occupants
          PROVE  \E l \in labels' : l.occupant = o /\ r[i].ts < l.ts + RestateEvery
      <4>1. CASE i \in 1..Len(wal)
        BY <1>3, <2>2, <3>1, <3>2, <4>1
      <4>2. CASE i = Len(wal) + 1
        BY <1>1, <1>3, <1>6, <2>2, <3>2, <4>2
      <4> QED BY <1>3, <2>2, <4>1, <4>2
    <3> QED BY <1>2, <3>2 DEF LabelledInTime
  <2> QED BY <1>2, <2>1, <2>2 DEF Runs
<1>9. StatedInTime'
  <2> SUFFICES ASSUME NEW o \in described', lastRestated' < lastSeen'[o] + RestateEvery,
                      LabelCutoff(cutoff') <= lastRestated'
               PROVE  \E l \in labels' : l.occupant = o /\ lastRestated' <= l.ts
    BY DEF StatedInTime
  <2>1. CASE o \in present
    BY <1>6, <2>1
  <2>2. CASE o \notin present /\ RestateDue(ts)
    <3>1. o \in described /\ lastRestated' = ts /\ lastSeen'[o] = lastSeen[o]
      BY <1>5, <1>7, <2>2
    <3>2. lastRestated < lastSeen[o]
      BY <1>4, <1>7, <2>2, <3>1 DEF RestateDue
    <3>3. o \in Stated(ts, present)
      BY <2>2, <3>1, <3>2 DEF LabelInv, SeenSince, Stated
    <3> DEFINE l == [ts |-> ts, occupant |-> o]
    <3>4. l \in labels' /\ l.occupant = o /\ l.ts = ts
      BY <1>5, <3>3
    <3>5. ts <= ts
      BY <1>4
    <3> HIDE DEF l
    <3> QED BY <3>1, <3>4, <3>5
  <2>3. CASE o \notin present /\ ~RestateDue(ts)
    <3>1. o \in described /\ lastSeen'[o] = lastSeen[o]
      BY <1>5, <1>7, <2>3
    <3>2. lastRestated' = lastRestated
      BY <1>5, <2>3, <3>1 DEF LabelInv, SeenBefore
    <3>3. \E l \in labels : l.occupant = o /\ lastRestated <= l.ts
      BY <1>2, <3>1, <3>2 DEF LabelInv, StatedInTime
    <3> QED BY <1>5, <3>2, <3>3
  <2> QED BY <2>1, <2>2, <2>3
<1>10. SeenSince'
  <2> SUFFICES ASSUME NEW o \in described', lastRestated' < lastSeen'[o] PROVE o \in seen'
    BY DEF SeenSince
  <2>1. o \in Occupants /\ lastSeen[o] \in Nat /\ lastSeen[o] <= now
    BY <1>4, <1>5, <1>7 DEF LabelInv, SeenBefore
  <2>2. lastRestated' # ts
    BY <1>2, <1>4, <1>5, <2>1
  <2>3. ~RestateDue(ts) /\ lastRestated' = lastRestated
    BY <1>5, <2>2
  <2> QED BY <1>5, <2>1, <2>3 DEF LabelInv, SeenSince
<1>11. SeenBefore'
  <2>1. lastRestated' # Never /\ lastRestated' <= ts
    BY <1>2, <1>4, <1>5 DEF LabelInv, SeenBefore, Never
  <2>2. \A o \in Occupants : lastSeen'[o] <= ts
    BY <1>2, <1>4, <1>5 DEF LabelInv, SeenBefore
  <2> QED BY <1>2, <2>1, <2>2 DEF SeenBefore
<1> QED BY <1>8, <1>9, <1>10, <1>11 DEF LabelInv

\* An eviction keeps labels a restatement period longer than rows.
LEMMA LabelsEvicted ==
    ASSUME LabelInv, RunInv', NEW c \in 1..MaxTime, Evict(c)
    PROVE  LabelInv'
<1>1. /\ cutoff < c /\ cutoff' = c /\ labels' = {l \in labels : l.ts >= LabelCutoff(c)}
      /\ UNCHANGED <<now, described, seen, lastRestated, lastSeen>>
  BY DEF Evict
<1>2. /\ cutoff \in Nat /\ c \in Nat /\ lastRestated \in Nat /\ RestateEvery \in Nat \ {0}
      /\ \A l \in labels : l.ts \in Nat
      /\ \A r \in Runs : \A i \in 1..Len(r) : r[i].ts \in Nat
  BY LabelNumbers DEF LabelInv, RunInv
<1>3. LabelCutoff(c) \in Nat /\ LabelCutoff(cutoff) \in Nat /\ LabelCutoff(cutoff) <= LabelCutoff(c)
  BY <1>1, <1>2 DEF LabelCutoff
<1>4. \A r \in Runs' : r \in Runs \/ r = <<>>
  BY RunsOnlyShrink DEF LabelInv, RunInv
<1>5. ASSUME NEW r \in Runs' PROVE LabelledInTime(r)'
  <2>1. CASE r = <<>>
    <3>1. \A i \in 1..Len(r) : FALSE
      BY <2>1, EmptySeq
    <3> QED BY <3>1 DEF LabelledInTime
  <2>2. CASE r \in Runs
    <3> SUFFICES ASSUME NEW i \in 1..Len(r), r[i].ts >= c, NEW o \in r[i].occupants
                 PROVE  \E l \in labels' : l.occupant = o /\ r[i].ts < l.ts + RestateEvery
      BY <1>1 DEF LabelledInTime
    <3>1. r[i].ts \in Nat /\ r[i].ts >= cutoff
      BY <1>1, <1>2, <2>2
    <3>2. PICK l \in labels : l.occupant = o /\ r[i].ts < l.ts + RestateEvery
      BY <2>2, <3>1 DEF LabelInv, LabelledInTime
    <3>3. l.ts >= LabelCutoff(c)
      BY <1>2, <3>1, <3>2 DEF LabelCutoff
    <3> QED BY <1>1, <3>2, <3>3
  <2> QED BY <1>4, <2>1, <2>2
<1>6. StatedInTime'
  <2> SUFFICES ASSUME NEW o \in described, lastRestated < lastSeen[o] + RestateEvery,
                      LabelCutoff(c) <= lastRestated
               PROVE  \E l \in labels' : l.occupant = o /\ lastRestated <= l.ts
    BY <1>1 DEF StatedInTime
  <2>1. LabelCutoff(cutoff) <= lastRestated
    BY <1>2, <1>3
  <2>2. PICK l \in labels : l.occupant = o /\ lastRestated <= l.ts
    BY <2>1 DEF LabelInv, StatedInTime
  <2>3. l.ts >= LabelCutoff(c)
    BY <1>2, <1>3, <2>2
  <2> QED BY <1>1, <2>2, <2>3
<1>7. SeenSince' /\ SeenBefore'
  BY <1>1 DEF LabelInv, SeenSince, SeenBefore
<1> QED BY <1>5, <1>6, <1>7 DEF LabelInv

LEMMA LabelNext == LabelInv /\ ~Returns /\ [Next]_vars => LabelInv'
<1> SUFFICES ASSUME LabelInv, ~Returns, [Next]_vars PROVE LabelInv'
  OBVIOUS
<1>1. RunInv'
  BY RunNext DEF LabelInv
<1>2. TypeOK /\ OpenKnown /\ now \in Nat
  BY LabelNumbers DEF LabelInv, RunInv
<1>3. CASE MaybeSeal
  <2>1. now' >= now /\ \A r \in Runs' : r \in Runs \/ r = <<>>
    BY <1>2, <1>3, RunsOnlyShrink
  <2> QED BY <1>1, <1>3, <2>1, LabelsLeft DEF MaybeSeal
<1>4. ASSUME NEW ts \in 1..MaxTime, Skips(ts) PROVE LabelInv'
  <2>1. now' >= now /\ \A r \in Runs' : r \in Runs \/ r = <<>>
    BY <1>2, <1>4, RunsOnlyShrink
  <2> QED BY <1>1, <1>4, <2>1, LabelsLeft DEF Skips, tables
<1>5. CASE UNCHANGED vars
  <2>1. now' >= now /\ \A r \in Runs' : r \in Runs \/ r = <<>>
    BY <1>2, <1>5 DEF vars, tables, Runs
  <2> QED BY <1>1, <1>5, <2>1, LabelsLeft DEF vars, groupState, tables
<1>6. CASE Next
  BY <1>1, <1>2, <1>3, <1>4, <1>6, StepCases, LabelsOfWide, LabelsOfLong, LabelsEvicted
<1> QED BY <1>5, <1>6

LEMMA LabelStart == Init => LabelInv
<1> SUFFICES ASSUME Init PROVE LabelInv
  OBVIOUS
<1>1. \A i \in 1..Len(<<>>) : FALSE
  BY EmptySeq
<1>2. \A r \in Runs : LabelledInTime(r)
  BY <1>1 DEF Init, Runs, LabelledInTime
<1>3. StatedInTime /\ SeenSince /\ SeenBefore
  BY DEF Init, StatedInTime, SeenSince, SeenBefore, Never
<1> QED BY <1>2, <1>3, RunStart DEF LabelInv

\* Every row inside the cutoff finds the labels of its occupants, when none of
\* them returns after a restatement period away.  With `Returns` TLC finds a
\* row whose labels are gone.
THEOREM RowsKeepTheirLabels == ASSUME ~Returns PROVE Spec => []RowsAreLabelled
<1>1. LabelInv /\ [Next]_vars => LabelInv'
  BY LabelNext
<1>2. LabelInv => RowsAreLabelled
  BY DEF LabelInv, RowsAreLabelled, LabelledIn, LabelledInTime, Runs
<1> QED BY <1>1, <1>2, LabelStart, PTL DEF Spec

-----------------------------------------------------------------------------
(***************************************************************************)
(* Induction over an initial segment of the naturals, for a set.           *)
(***************************************************************************)
LEMMA LeastExists ==
    ASSUME NEW T, T \subseteq Nat, T # {}
    PROVE  \E m \in T : \A k \in T : m <= k
<1> DEFINE R == {p \in Nat \X Nat : p[1] < p[2]}
<1>1. R \cap (Nat \X Nat) \subseteq OpToRel(<, Nat)
  BY DEF OpToRel
<1>2. IsWellFoundedOn(R, Nat)
  BY <1>1, NatLessThanWellFounded, IsWellFoundedOnSubrelation
<1>3. PICK m \in T : \A k \in T : ~(<<k, m>> \in R)
  BY <1>2, WFMin
<1>4. ASSUME NEW k \in T PROVE m <= k
  <2>1. ~(k < m)
    BY <1>3
  <2> QED BY <2>1
<1> QED BY <1>4

LEMMA UpTo ==
    ASSUME NEW n \in Nat, NEW S, 0 \in S,
           \A i \in Nat : i < n /\ i \in S => i + 1 \in S
    PROVE  \A i \in 0..n : i \in S
<1> DEFINE T == {i \in 0..n : i \notin S}
<1> SUFFICES ASSUME T # {} PROVE FALSE
  OBVIOUS
<1>1. PICK m \in T : \A k \in T : m <= k
  <2>1. T \subseteq Nat
    OBVIOUS
  <2> HIDE DEF T
  <2> QED BY <2>1, LeastExists
<1>2. m # 0 /\ m \in 0..n /\ m - 1 \in Nat /\ m - 1 < n
  BY <1>1
<1>3. m - 1 \notin T
  BY <1>1, <1>2
<1>4. m - 1 \in S
  BY <1>2, <1>3
<1>5. (m - 1) + 1 \in S
  BY <1>2, <1>4
<1> QED BY <1>1, <1>2, <1>5

-----------------------------------------------------------------------------
(***************************************************************************)
(* Entries in the producer's order.  A set of entries that are numbered    *)
(* apart has a last one among any of them, and only one.                   *)
(***************************************************************************)
IsLast(T, x) == x \in T /\ \A y \in T : x = y \/ Before("producer", y, x)

Ranked(S) ==
    /\ S \subseteq Entries
    /\ \A x, y \in S : x.seq = y.seq => x = y
    /\ \A T \in SUBSET S : T # {} => \E x \in T : IsLast(T, x)

Numbered(q) == \A i, j \in 1..Len(q) : i < j => q[i].seq < q[j].seq

LEMMA SetOf ==
    ASSUME NEW U, NEW q \in Seq(U)
    PROVE  /\ ToSet(q) = {q[i] : i \in 1..Len(q)} /\ ToSet(q) \subseteq U
           /\ Len(q) \in Nat
<1>1. DOMAIN q = 1..Len(q) /\ Len(q) \in Nat /\ \A i \in 1..Len(q) : q[i] \in U
  BY LenProperties, ElementOfSeq
<1> QED BY <1>1 DEF ToSet

LEMMA EntryFields ==
    ASSUME NEW e \in Entries
    PROVE  e.seq \in Nat /\ e.from \in Nat
  BY DEF Entries

LEMMA BeforeIs ==
    ASSUME NEW x \in Entries, NEW y \in Entries
    PROVE  Before("producer", x, y) <=> x.from < y.from \/ (x.from = y.from /\ x.seq < y.seq)
  BY EntryFields DEF Before

LEMMA OrderedSeq ==
    ASSUME NEW q \in Seq(Entries), Numbered(q)
    PROVE  Ranked(ToSet(q))
<1> DEFINE S == ToSet(q)
           n == Len(q)
<1>1. /\ S = {q[i] : i \in 1..n} /\ S \subseteq Entries /\ n \in Nat
  BY SetOf
<1>2. \A i \in 1..n : q[i] \in Entries /\ q[i].seq \in Nat /\ q[i].from \in Nat
  BY <1>1, EntryFields
<1>3. \A i, j \in 1..n : i < j => q[i].seq < q[j].seq
  BY DEF Numbered
<1> HIDE DEF S, n
<1>4. ASSUME NEW x \in S, NEW y \in S, x.seq = y.seq PROVE x = y
  <2>1. PICK i \in 1..n : x = q[i]
    BY <1>1
  <2>2. PICK j \in 1..n : y = q[j]
    BY <1>1
  <2>3. ~(i < j) /\ ~(j < i)
    BY <1>2, <1>3, <1>4, <2>1, <2>2
  <2>4. i = j
    BY <2>3
  <2> QED BY <2>1, <2>2, <2>4
<1>5. ASSUME NEW T \in SUBSET S, T # {} PROVE \E x \in T : IsLast(T, x)
  <2> DEFINE Up(k) == {q[i] : i \in 1..k} \cap T
             G == {k \in 0..n : Up(k) = {} \/ \E x \in Up(k) : IsLast(Up(k), x)}
  <2>1. 0 \in G
    <3>1. Up(0) = {}
      OBVIOUS
    <3> QED BY <1>1, <3>1
  <2>2. ASSUME NEW k \in Nat, k < n, k \in G PROVE k + 1 \in G
    <3> DEFINE z == q[k + 1]
    <3>1. k + 1 \in 1..n /\ k + 1 \in 0..n /\ z \in Entries
      BY <1>1, <1>2, <2>2
    <3>2. \A i \in 1..(k + 1) : i = k + 1 \/ i \in 1..k
      BY <2>2
    <3>3. \A i \in 1..k : i \in 1..(k + 1) /\ i \in 1..n /\ i < k + 1
      BY <1>1, <2>2
    <3>4. Up(k + 1) = IF z \in T THEN Up(k) \cup {z} ELSE Up(k)
      <4>1. {q[i] : i \in 1..(k + 1)} = {q[i] : i \in 1..k} \cup {z}
        <5>1. k + 1 \in 1..(k + 1)
          BY <2>2
        <5> QED BY <3>2, <3>3, <5>1
      <4> QED BY <4>1
    <3>5. \A y \in Up(k) : y \in Entries /\ y.seq < z.seq
      BY <1>2, <1>3, <3>1, <3>3
    <3> HIDE DEF z
    <3>6. CASE z \notin T
      BY <2>2, <3>1, <3>4, <3>6
    <3>7. CASE z \in T /\ Up(k) = {}
      <4>1. Up(k + 1) = {z}
        BY <3>4, <3>7
      <4>2. IsLast(Up(k + 1), z)
        BY <4>1 DEF IsLast
      <4> QED BY <3>1, <4>1, <4>2
    <3>8. CASE z \in T /\ Up(k) # {}
      <4>1. PICK x \in Up(k) : IsLast(Up(k), x)
        BY <2>2, <3>8
      <4>2. Up(k + 1) = Up(k) \cup {z}
        BY <3>4, <3>8
      <4> HIDE DEF Up
      <4>3. x \in Entries /\ x.seq \in Nat /\ z.seq \in Nat /\ x.from \in Nat /\ z.from \in Nat
            /\ x.seq < z.seq
        BY <3>1, <3>5, EntryFields
      <4>4. CASE x.from <= z.from
        <5>1. ASSUME NEW y \in Up(k) PROVE Before("producer", y, z)
          <6>1. y \in Entries /\ y.seq < z.seq /\ y.seq \in Nat /\ y.from \in Nat
            BY <3>5, EntryFields
          <6>2. y = x \/ Before("producer", y, x)
            BY <4>1 DEF IsLast
          <6>3. y.from <= x.from
            BY <4>3, <6>1, <6>2, BeforeIs
          <6>4. y.from < z.from \/ (y.from = z.from /\ y.seq < z.seq)
            BY <4>3, <4>4, <6>1, <6>3
          <6> QED BY <3>1, <6>1, <6>4, BeforeIs
        <5>2. IsLast(Up(k + 1), z)
          BY <4>2, <5>1 DEF IsLast
        <5> QED BY <3>1, <5>2 DEF IsLast
      <4>5. CASE ~(x.from <= z.from)
        <5>1. Before("producer", z, x)
          BY <3>1, <4>3, <4>5, BeforeIs
        <5>2. IsLast(Up(k + 1), x)
          BY <4>1, <4>2, <5>1 DEF IsLast
        <5> QED BY <3>1, <5>2 DEF IsLast
      <4> QED BY <4>4, <4>5
    <3> QED BY <3>6, <3>7, <3>8
  <2>3. n \in G
    <3> HIDE DEF G
    <3>1. \A i \in 0..n : i \in G
      BY <1>1, <2>1, <2>2, UpTo
    <3> QED BY <1>1, <3>1
  <2>4. Up(n) = T
    BY <1>1
  <2> QED BY <1>5, <2>3, <2>4
<1> QED BY <1>1, <1>4, <1>5 DEF Ranked, S

LEMMA RankedPart ==
    ASSUME NEW S, Ranked(S), NEW T, T \subseteq S
    PROVE  Ranked(T)
  BY DEF Ranked

LEMMA LastOfIs ==
    ASSUME NEW S, Ranked(S), S # {}
    PROVE  IsLast(S, LastOf("producer", S))
<1>1. \E x \in S : \A y \in S : x = y \/ Before("producer", y, x)
  BY DEF Ranked, IsLast
<1> QED BY <1>1 DEF LastOf, IsLast

LEMMA LastIsOne ==
    ASSUME NEW S, Ranked(S), NEW x, IsLast(S, x)
    PROVE  LastOf("producer", S) = x
<1>1. IsLast(S, LastOf("producer", S))
  BY LastOfIs DEF IsLast
<1> DEFINE z == LastOf("producer", S)
<1>2. z \in S /\ x \in S /\ x \in Entries /\ z \in Entries
  BY <1>1 DEF IsLast, Ranked
<1> HIDE DEF z
<1>3. (x = z \/ Before("producer", z, x)) /\ (z = x \/ Before("producer", x, z))
  BY <1>1, <1>2 DEF IsLast, z
<1>4. ~(Before("producer", z, x) /\ Before("producer", x, z))
  BY <1>2, EntryFields, BeforeIs
<1> QED BY <1>3, <1>4 DEF z

-----------------------------------------------------------------------------
(***************************************************************************)
(* What an entry more does to the fold: under each key it wins or leaves   *)
(* it.                                                                     *)
(***************************************************************************)
Value(e, k) == IF k \in DOMAIN e.sets THEN e.sets[k] ELSE Absent
Touching(S, k) == {x \in S : k \in Touched(x)}
Wins(S, e, k) == k \in Touched(e) /\ \A x \in S : k \in Touched(x) => x.from <= e.from

LEMMA FoldAt ==
    ASSUME NEW S, NEW k \in IdKeys
    PROVE  Fold("producer", S)[k] =
              IF Touching(S, k) = {} THEN Absent
              ELSE Value(LastOf("producer", Touching(S, k)), k)
  BY DEF Fold, Touching, Value

LEMMA FoldIs ==
    ASSUME NEW S, NEW T, \A k \in IdKeys : Fold("producer", S)[k] = Fold("producer", T)[k]
    PROVE  Fold("producer", S) = Fold("producer", T)
  BY DEF Fold

LEMMA FoldWith ==
    ASSUME NEW S, NEW e \in Entries, Ranked(S \cup {e}), \A x \in S : x.seq < e.seq,
           NEW k \in IdKeys
    PROVE  Fold("producer", S \cup {e})[k] =
              IF Wins(S, e, k) THEN Value(e, k) ELSE Fold("producer", S)[k]
<1> DEFINE A == S \cup {e}
           t == Touching(S, k)
           u == Touching(A, k)
<1>1. Ranked(S) /\ Ranked(t) /\ Ranked(u)
  BY RankedPart DEF Touching
<1>2. \A x \in S : x \in Entries /\ x.seq \in Nat /\ x.from \in Nat /\ x.seq < e.seq
  BY <1>1, EntryFields DEF Ranked
<1>3. e.seq \in Nat /\ e.from \in Nat
  BY EntryFields
<1>4. CASE Wins(S, e, k)
  <2>1. u = t \cup {e}
    BY <1>4 DEF Touching, Wins
  <2>2. ASSUME NEW x \in t PROVE Before("producer", x, e)
    <3>1. x \in S /\ x.from <= e.from
      BY <1>4 DEF Touching, Wins
    <3>2. x.from < e.from \/ (x.from = e.from /\ x.seq < e.seq)
      BY <1>2, <1>3, <3>1
    <3> QED BY <1>2, <3>1, <3>2, BeforeIs
  <2>3. IsLast(u, e)
    BY <2>1, <2>2 DEF IsLast
  <2>4. LastOf("producer", u) = e /\ u # {}
    BY <1>1, <2>3, LastIsOne DEF IsLast
  <2> QED BY <1>4, <2>4, FoldAt
<1>5. CASE ~Wins(S, e, k) /\ k \notin Touched(e)
  <2>1. u = t
    BY <1>5 DEF Touching
  <2> QED BY <1>5, <2>1, FoldAt
<1>6. CASE ~Wins(S, e, k) /\ k \in Touched(e)
  <2>1. PICK x \in S : k \in Touched(x) /\ ~(x.from <= e.from)
    BY <1>6 DEF Wins
  <2>2. x \in t /\ t # {} /\ u # {} /\ u = t \cup {e}
    BY <1>6, <2>1 DEF Touching
  <2> DEFINE z == LastOf("producer", t)
  <2>3. IsLast(t, z)
    BY <1>1, <2>2, LastOfIs
  <2> HIDE DEF z
  <2>4. z \in t /\ z \in S /\ (z = x \/ Before("producer", x, z))
    BY <2>2, <2>3 DEF IsLast, Touching
  <2>5. x.from <= z.from
    BY <1>2, <2>4, BeforeIs
  <2>6. Before("producer", e, z)
    BY <1>2, <1>3, <2>1, <2>4, <2>5, BeforeIs
  <2>7. IsLast(u, z)
    BY <2>2, <2>3, <2>6 DEF IsLast
  <2>8. LastOf("producer", u) = z
    BY <1>1, <2>7, LastIsOne
  <2> QED BY <1>6, <2>2, <2>8, FoldAt DEF z
<1> QED BY <1>4, <1>5, <1>6

-----------------------------------------------------------------------------
(***************************************************************************)
(* The entries kept and all that were declared.                            *)
(***************************************************************************)
Says(x, y) == x.from = y.from /\ x.sets = y.sets /\ x.unsets = y.unsets /\ x.epoch = y.epoch

Corr(S, D, f) ==
    /\ \A x \in S : \E y \in D : Says(x, y)
    /\ \A y \in D : y.from <= f \/ \E x \in S : Says(x, y)

Same(S, D) == Fold("producer", S) = Fold("producer", D)

LEMMA SaysTouches ==
    ASSUME NEW x, NEW y, Says(x, y)
    PROVE  Touched(x) = Touched(y) /\ \A k \in IdKeys : Value(x, k) = Value(y, k)
  BY DEF Says, Touched, Value

LEMMA CorrOfEpoch ==
    ASSUME NEW S, NEW D, NEW f, Corr(S, D, f), NEW c
    PROVE  Corr(OfEpoch(S, c), OfEpoch(D, c), f)
<1>1. ASSUME NEW x \in OfEpoch(S, c) PROVE \E y \in OfEpoch(D, c) : Says(x, y)
  BY DEF OfEpoch, Corr, Says
<1>2. ASSUME NEW y \in OfEpoch(D, c) PROVE y.from <= f \/ \E x \in OfEpoch(S, c) : Says(x, y)
  BY DEF OfEpoch, Corr, Says
<1> QED BY <1>1, <1>2 DEF Corr

LEMMA OfEpochWith ==
    ASSUME NEW S, NEW e, NEW c
    PROVE  /\ e.epoch = c => OfEpoch(S \cup {e}, c) = OfEpoch(S, c) \cup {e}
           /\ e.epoch # c => OfEpoch(S \cup {e}, c) = OfEpoch(S, c)
           /\ OfEpoch(S, c) \subseteq S
  BY DEF OfEpoch

\* An entry appended to both is behind none of what only one of them has.
LEMMA Appended ==
    ASSUME NEW S, NEW D, NEW f \in Nat, Corr(S, D, f), Same(S, D),
           NEW n \in Entries, NEW d \in Entries, Says(n, d), f <= d.from,
           Ranked(S \cup {n}), \A x \in S : x.seq < n.seq,
           Ranked(D \cup {d}), \A x \in D : x.seq < d.seq
    PROVE  Same(S \cup {n}, D \cup {d})
<1>1. ASSUME NEW k \in IdKeys
      PROVE  Fold("producer", S \cup {n})[k] = Fold("producer", D \cup {d})[k]
  <2>1. Wins(S, n, k) <=> Wins(D, d, k)
    <3>1. Touched(n) = Touched(d) /\ n.from = d.from
      BY SaysTouches DEF Says
    <3>2. ASSUME Wins(D, d, k), NEW x \in S, k \in Touched(x) PROVE x.from <= n.from
      <4>1. PICK y \in D : Says(x, y)
        BY DEF Corr
      <4>2. k \in Touched(y) /\ x.from = y.from
        BY <3>2, <4>1, SaysTouches DEF Says
      <4> QED BY <3>1, <3>2, <4>2 DEF Wins
    <3>3. ASSUME Wins(S, n, k), NEW y \in D, k \in Touched(y) PROVE y.from <= d.from
      <4>1. CASE y.from <= f
        <5>1. y \in Entries
          BY DEF Ranked
        <5>2. y.from \in Nat /\ d.from \in Nat
          BY <5>1, EntryFields
        <5> QED BY <4>1, <5>2
      <4>2. CASE \E x \in S : Says(x, y)
        <5>1. PICK x \in S : Says(x, y)
          BY <4>2
        <5>2. k \in Touched(x) /\ x.from = y.from
          BY <3>3, <5>1, SaysTouches DEF Says
        <5> QED BY <3>1, <3>3, <5>2 DEF Wins
      <4> QED BY <4>1, <4>2 DEF Corr
    <3> QED BY <3>1, <3>2, <3>3 DEF Wins
  <2>2. Fold("producer", S)[k] = Fold("producer", D)[k]
    BY DEF Same
  <2>3. Value(n, k) = Value(d, k)
    BY SaysTouches
  <2>4. Fold("producer", S \cup {n})[k] =
           IF Wins(S, n, k) THEN Value(n, k) ELSE Fold("producer", S)[k]
    BY FoldWith
  <2>5. Fold("producer", D \cup {d})[k] =
           IF Wins(D, d, k) THEN Value(d, k) ELSE Fold("producer", D)[k]
    BY FoldWith
  <2> QED BY <2>1, <2>2, <2>3, <2>4, <2>5
<1> QED BY <1>1, FoldIs DEF Same

\* What says the same as the last entry of all changes nothing.
LEMMA WinnerSkipped ==
    ASSUME NEW S, NEW D, Same(S, D), Ranked(S), NEW w, IsLast(S, w),
           NEW d \in Entries, SameContents(w, d),
           Ranked(D \cup {d}), \A x \in D : x.seq < d.seq
    PROVE  Same(S, D \cup {d})
<1>1. ASSUME NEW k \in IdKeys
      PROVE  Fold("producer", S)[k] = Fold("producer", D \cup {d})[k]
  <2>1. Fold("producer", D \cup {d})[k] =
           IF Wins(D, d, k) THEN Value(d, k) ELSE Fold("producer", D)[k]
    BY FoldWith
  <2>2. Fold("producer", S)[k] = Fold("producer", D)[k]
    BY DEF Same
  <2>3. ASSUME k \in Touched(d) PROVE Fold("producer", S)[k] = Value(d, k)
    <3> DEFINE t == Touching(S, k)
    <3>1. Touched(w) = Touched(d) /\ Value(w, k) = Value(d, k)
      BY DEF SameContents, Touched, Value
    <3>2. w \in t /\ Ranked(t) /\ t # {}
      BY <2>3, <3>1, RankedPart DEF IsLast, Touching
    <3>3. IsLast(t, w)
      BY <3>2 DEF IsLast, Touching
    <3>4. LastOf("producer", t) = w
      BY <3>2, <3>3, LastIsOne
    <3> QED BY <3>1, <3>2, <3>4, FoldAt
  <2> QED BY <2>1, <2>2, <2>3 DEF Wins
<1> QED BY <1>1, FoldIs DEF Same

\* What the fold would not show is not missed.
LEMMA UnseenSkipped ==
    ASSUME NEW S, NEW D, NEW f, Corr(S, D, f), Same(S, D),
           NEW n \in Entries, NEW d \in Entries, Says(n, d), Unchanged(S, n),
           Ranked(S \cup {n}), \A x \in S : x.seq < n.seq,
           Ranked(D \cup {d}), \A x \in D : x.seq < d.seq
    PROVE  Same(S, D \cup {d})
<1>1. ASSUME NEW k \in IdKeys
      PROVE  Fold("producer", S)[k] = Fold("producer", D \cup {d})[k]
  <2>1. Fold("producer", D \cup {d})[k] =
           IF Wins(D, d, k) THEN Value(d, k) ELSE Fold("producer", D)[k]
    BY FoldWith
  <2>2. Fold("producer", S)[k] = Fold("producer", D)[k]
    BY DEF Same
  <2>3. Fold("producer", S \cup {n})[k] =
           IF Wins(S, n, k) THEN Value(n, k) ELSE Fold("producer", S)[k]
    BY FoldWith
  <2>4. Fold("producer", S \cup {n})[k] = Fold("producer", S)[k]
    BY DEF Unchanged
  <2>5. Wins(D, d, k) => Wins(S, n, k)
    <3>1. Touched(n) = Touched(d) /\ n.from = d.from
      BY SaysTouches DEF Says
    <3>2. ASSUME Wins(D, d, k), NEW x \in S, k \in Touched(x) PROVE x.from <= n.from
      <4>1. PICK y \in D : Says(x, y)
        BY DEF Corr
      <4>2. k \in Touched(y) /\ x.from = y.from
        BY <3>2, <4>1, SaysTouches DEF Says
      <4> QED BY <3>1, <3>2, <4>2 DEF Wins
    <3> QED BY <3>1, <3>2 DEF Wins
  <2>6. Value(n, k) = Value(d, k)
    BY SaysTouches
  <2> QED BY <2>1, <2>2, <2>3, <2>4, <2>5, <2>6
<1> QED BY <1>1, FoldIs DEF Same

-----------------------------------------------------------------------------
(***************************************************************************)
(* The layer as a sequence: an append numbers an entry behind the others.  *)
(***************************************************************************)
LEMMA NextSeqIs ==
    ASSUME NEW q \in Seq(Entries), Numbered(q)
    PROVE  NextSeq(q) \in Nat /\ \A x \in ToSet(q) : x.seq < NextSeq(q)
<1> DEFINE n == Len(q)
           seqs == {q[i].seq : i \in DOMAIN q}
<1>1. /\ ToSet(q) = {q[i] : i \in 1..n} /\ n \in Nat /\ DOMAIN q = 1..n
      /\ \A i \in 1..n : q[i].seq \in Nat
  BY SetOf, LenProperties, ElementOfSeq, EntryFields
<1>2. CASE q = <<>>
  <2>1. n = 0
    BY <1>2
  <2> HIDE DEF n
  <2>2. ToSet(q) = {}
    BY <1>1, <2>1
  <2> QED BY <1>2, <2>2 DEF NextSeq
<1>3. CASE q # <<>>
  <2>1. n # 0
    BY <1>3, EmptySeq DEF Numbered
  <2>2. n \in 1..n /\ \A i \in 1..n : i = n \/ i < n
    <3> HIDE DEF n
    <3> QED BY <1>1, <2>1
  <2>3. ASSUME NEW i \in 1..n PROVE q[i].seq <= q[n].seq
    <3>1. q[i].seq \in Nat /\ q[n].seq \in Nat
      BY <1>1, <2>2
    <3>2. i = n \/ q[i].seq < q[n].seq
      BY <2>2 DEF Numbered
    <3> QED BY <3>1, <3>2
  <2>4. q[n].seq \in seqs /\ \A m \in seqs : m <= q[n].seq /\ m \in Nat
    BY <1>1, <2>2, <2>3
  <2> DEFINE top == CHOOSE m \in seqs : \A k \in seqs : k <= m
  <2>5. top \in seqs /\ \A k \in seqs : k <= top
    BY <2>4
  <2>6. NextSeq(q) = 1 + top
    BY <1>3 DEF NextSeq
  <2>7. \A x \in ToSet(q) : x.seq \in seqs
    BY <1>1
  <2> HIDE DEF top, seqs
  <2> QED BY <2>4, <2>5, <2>6, <2>7
<1> QED BY <1>2, <1>3

LEMMA SetOfAppended ==
    ASSUME NEW U, NEW q \in Seq(U), NEW e \in U
    PROVE  /\ Append(q, e) \in Seq(U) /\ ToSet(Append(q, e)) = ToSet(q) \cup {e}
           /\ Len(Append(q, e)) = Len(q) + 1
<1> DEFINE r == Append(q, e)
           n == Len(q)
<1>1. /\ r \in Seq(U) /\ Len(r) = n + 1 /\ n \in Nat
      /\ \A i \in 1..n : r[i] = q[i]
      /\ r[n + 1] = e
  BY AppendProperties, LenProperties
<1>2. ToSet(q) = {q[i] : i \in 1..n} /\ ToSet(r) = {r[i] : i \in 1..(n + 1)}
  BY <1>1, SetOf
<1> HIDE DEF r, n
<1>3. \A i \in 1..n : i \in 1..(n + 1)
  BY <1>1
<1>4. \A i \in 1..(n + 1) : i \in 1..n \/ i = n + 1
  BY <1>1
<1>5. n + 1 \in 1..(n + 1)
  BY <1>1
<1>6. ToSet(r) = ToSet(q) \cup {e}
  BY <1>1, <1>2, <1>3, <1>4, <1>5
<1> QED BY <1>1, <1>6 DEF r, n

LEMMA NumberedAppended ==
    ASSUME NEW q \in Seq(Entries), Numbered(q), NEW e \in Entries,
           \A x \in ToSet(q) : x.seq < e.seq
    PROVE  /\ Append(q, e) \in Seq(Entries) /\ Numbered(Append(q, e))
           /\ ToSet(Append(q, e)) = ToSet(q) \cup {e} /\ Ranked(ToSet(q) \cup {e})
<1> DEFINE r == Append(q, e)
           n == Len(q)
<1>1. /\ r \in Seq(Entries) /\ Len(r) = n + 1 /\ n \in Nat
      /\ \A i \in 1..n : r[i] = q[i]
      /\ r[n + 1] = e
  BY AppendProperties, LenProperties
<1>2. ToSet(q) = {q[i] : i \in 1..n}
  BY <1>1, SetOf
<1>3. ToSet(r) = ToSet(q) \cup {e}
  BY SetOfAppended
<1> HIDE DEF r, n
<1>4. ASSUME NEW i \in 1..(n + 1), NEW j \in 1..(n + 1), i < j PROVE r[i].seq < r[j].seq
  <2>1. i \in 1..n /\ (j \in 1..n \/ j = n + 1)
    BY <1>1, <1>4
  <2>2. CASE j \in 1..n
    <3>1. q[i].seq < q[j].seq
      BY <1>4, <2>1, <2>2 DEF Numbered, n
    <3> QED BY <1>1, <2>1, <2>2, <3>1
  <2>3. CASE j = n + 1
    BY <1>1, <1>2, <2>1, <2>3
  <2> QED BY <2>1, <2>2, <2>3
<1>5. Numbered(r)
  BY <1>1, <1>4 DEF Numbered
<1>6. Ranked(ToSet(r))
  BY <1>1, <1>5, OrderedSeq
<1> QED BY <1>1, <1>3, <1>5, <1>6 DEF r

-----------------------------------------------------------------------------
(***************************************************************************)
(* The invariant, and that every step keeps it.                            *)
(***************************************************************************)
Kept == layers["producer"]
All == history.declared
HistoryFields == {"offers", "edits", "declared", "skipped", "overtaken", "layer", "touched"}

ShapeOK ==
    /\ DOMAIN layers = LayerNames /\ layered \in BOOLEAN
    /\ DOMAIN history = HistoryFields
    /\ history.skipped \in Nat /\ history.overtaken \in BOOLEAN
    /\ Kept \in Seq(Entries) /\ All \in Seq(Entries)

NumbersOK ==
    /\ Numbered(Kept)
    /\ \A i \in 1..Len(All) : All[i].seq = i - 1
    /\ ~layered => Kept = <<>>

SameInAll(S, D) == Same(S, D) /\ \A c \in Epochs : Same(OfEpoch(S, c), OfEpoch(D, c))

\* Every entry that is kept was declared, and every one declared is kept or
\* stamped no later than the latest that was skipped.
DeclaredOK ==
    /\ ShapeOK /\ NumbersOK
    /\ Corr(ToSet(Kept), ToSet(All), history.skipped)
    /\ ~history.overtaken => SameInAll(ToSet(Kept), ToSet(All))

LEMMA SameIsWhatIsRead ==
    ReadsAsAllDeclared <=> (~history.overtaken => SameInAll(ToSet(Kept), ToSet(All)))
  BY DEF ReadsAsAllDeclared, SameInAll, Same, Kept, All

NewKept(e) == [e EXCEPT !.seq = NextSeq(Kept)]
NewAll(e) == [e EXCEPT !.seq = Len(All)]

LEMMA NewEntries ==
    ASSUME DeclaredOK, NEW e \in Entries
    PROVE  /\ NewKept(e) \in Entries /\ NewAll(e) \in Entries
           /\ Says(NewKept(e), NewAll(e)) /\ NewAll(e).from = e.from /\ NewKept(e).from = e.from
           /\ NewKept(e).epoch = NewAll(e).epoch /\ NewAll(e).seq = Len(All)
           /\ \A x \in ToSet(Kept) : x.seq < NewKept(e).seq
           /\ \A x \in ToSet(All) : x.seq < NewAll(e).seq
<1>1. NextSeq(Kept) \in Nat /\ \A x \in ToSet(Kept) : x.seq < NextSeq(Kept)
  BY NextSeqIs DEF DeclaredOK, ShapeOK, NumbersOK
<1>2. ToSet(All) = {All[i] : i \in 1..Len(All)} /\ Len(All) \in Nat
  BY SetOf DEF DeclaredOK, ShapeOK
<1>3. \A x \in ToSet(All) : x.seq < Len(All)
  BY <1>2 DEF DeclaredOK, NumbersOK
<1> HIDE DEF Kept, All
<1>4. /\ NewKept(e) \in Entries /\ NewAll(e) \in Entries
      /\ NewKept(e).seq = NextSeq(Kept) /\ NewAll(e).seq = Len(All)
  BY <1>1, <1>2 DEF NewKept, NewAll, Entries
<1>5. /\ NewKept(e).from = e.from /\ NewKept(e).sets = e.sets
      /\ NewKept(e).unsets = e.unsets /\ NewKept(e).epoch = e.epoch
  BY DEF NewKept, Entries
<1>6. /\ NewAll(e).from = e.from /\ NewAll(e).sets = e.sets
      /\ NewAll(e).unsets = e.unsets /\ NewAll(e).epoch = e.epoch
  BY DEF NewAll, Entries
<1> QED BY <1>1, <1>3, <1>4, <1>5, <1>6 DEF Says

\* What an append does to the producer's layer and to what was declared.
LayerSkips(e) ==
    /\ Repeats(ToSet(Kept), NewKept(e))
    /\ Kept' = Kept /\ layered' = layered
    /\ history'.skipped = IF e.from > history.skipped THEN e.from ELSE history.skipped
    /\ history'.overtaken = history.overtaken

LayerKeeps(e) ==
    /\ Kept' = Append(Kept, NewKept(e)) /\ layered' = TRUE
    /\ history'.skipped = history.skipped
    /\ history'.overtaken = (history.overtaken \/ e.from < history.skipped)

LEMMA ProducerAppends ==
    ASSUME DeclaredOK, NEW e \in Entries, AppendEntry("producer", e)
    PROVE  /\ DOMAIN layers' = LayerNames /\ DOMAIN history' = HistoryFields
           /\ All' = Append(All, NewAll(e))
           /\ LayerSkips(e) \/ LayerKeeps(e)
<1> DEFINE docs     == IF layered THEN layers ELSE DeriveLegacy
           found    == IF layered THEN Drift(MergedWithRemovals(docs)) ELSE <<>>
           external == IF DOMAIN found = {} THEN <<>>
                       ELSE <<NewEntry(NextSeq(docs["user"]), found)>>
           kept     == [docs EXCEPT !["user"] = @ \o external]
           numbered == [e EXCEPT !.seq = NextSeq(kept["producer"])]
           result  == [kept EXCEPT !["producer"] = Append(@, numbered)]
           skipped  == "producer" = "producer" /\ Repeats(ToSet(kept["producer"]), numbered)
<1>1. DOMAIN docs = LayerNames /\ docs["producer"] = Kept
  <2>1. CASE layered
    BY <2>1 DEF DeclaredOK, ShapeOK, Kept
  <2>2. CASE ~layered
    <3>1. DOMAIN DeriveLegacy = LayerNames /\ DeriveLegacy["producer"] = <<>>
      BY DEF DeriveLegacy, LayerNames
    <3> QED BY <2>2, <3>1 DEF DeclaredOK, NumbersOK
  <2> QED BY <2>1, <2>2
<1>2. DOMAIN kept = LayerNames /\ kept["producer"] = Kept
  <2> HIDE DEF docs, external
  <2> QED BY <1>1 DEF LayerNames
<1>3. numbered = NewKept(e)
  BY <1>2 DEF NewKept
<1>4. DOMAIN result = LayerNames /\ result["producer"] = Append(Kept, NewKept(e))
  <2> HIDE DEF kept, numbered
  <2> QED BY <1>2, <1>3 DEF LayerNames
<1>5. skipped <=> Repeats(ToSet(Kept), NewKept(e))
  BY <1>2, <1>3
<1>6. /\ history' = [history EXCEPT
              !.offers    = @ + 1,
              !.declared  = IF "producer" # "producer" THEN @
                            ELSE Append(@, [e EXCEPT !.seq = Len(history.declared)]),
              !.skipped   = IF skipped /\ e.from > @ THEN e.from ELSE @,
              !.overtaken = @ \/ ("producer" = "producer" /\ ~skipped
                                    /\ e.from < history.skipped),
              !.layer     = "producer",
              !.touched   = Touched(e)]
      /\ IF skipped
          THEN UNCHANGED <<layers, layered, shown>>
          ELSE /\ layers' = result
               /\ layered' = TRUE
               /\ shown' = Shown(Merged(docs), result)
  BY DEF AppendEntry
<1> HIDE DEF docs, kept, numbered, result, skipped
<1>7. DOMAIN history = HistoryFields /\ history.overtaken \in BOOLEAN
  BY DEF DeclaredOK, ShapeOK
<1>8. /\ DOMAIN history' = HistoryFields
      /\ history'.declared = Append(history.declared, [e EXCEPT !.seq = Len(history.declared)])
      /\ history'.skipped = IF skipped /\ e.from > history.skipped THEN e.from
                            ELSE history.skipped
      /\ history'.overtaken = (history.overtaken \/ (~skipped /\ e.from < history.skipped))
  BY <1>6, <1>7 DEF HistoryFields
<1>9. All' = Append(All, NewAll(e))
  BY <1>8 DEF All, NewAll
<1>10. CASE skipped
  <2>1. layers' = layers /\ layered' = layered
    BY <1>6, <1>10
  <2>2. LayerSkips(e)
    BY <1>5, <1>7, <1>8, <1>10, <2>1 DEF LayerSkips, Kept
  <2> QED BY <1>8, <1>9, <2>1, <2>2 DEF DeclaredOK, ShapeOK
<1>11. CASE ~skipped
  <2>1. layers' = result /\ layered' = TRUE
    BY <1>6, <1>11
  <2>2. LayerKeeps(e)
    BY <1>4, <1>8, <1>11, <2>1 DEF LayerKeeps, Kept
  <2> QED BY <1>4, <1>8, <1>9, <2>1, <2>2
<1> QED BY <1>10, <1>11

LEMMA Declared ==
    ASSUME DeclaredOK, NEW e \in Entries
    PROVE  /\ Append(All, NewAll(e)) \in Seq(Entries)
           /\ \A i \in 1..Len(Append(All, NewAll(e))) : Append(All, NewAll(e))[i].seq = i - 1
           /\ ToSet(Append(All, NewAll(e))) = ToSet(All) \cup {NewAll(e)}
           /\ Ranked(ToSet(All) \cup {NewAll(e)})
<1> DEFINE r == Append(All, NewAll(e))
           n == Len(All)
<1>1. /\ All \in Seq(Entries) /\ NewAll(e) \in Entries /\ NewAll(e).seq = n
      /\ \A x \in ToSet(All) : x.seq < NewAll(e).seq
      /\ \A i \in 1..n : All[i].seq = i - 1
  BY NewEntries DEF DeclaredOK, ShapeOK, NumbersOK
<1>2. /\ r \in Seq(Entries) /\ Len(r) = n + 1 /\ n \in Nat
      /\ \A i \in 1..n : r[i] = All[i]
      /\ r[n + 1] = NewAll(e)
  BY <1>1, AppendProperties, LenProperties
<1>3. Numbered(All)
  <2> HIDE DEF All
  <2>1. \A i, j \in 1..n : i < j => i - 1 < j - 1
    BY <1>2
  <2> QED BY <1>1, <2>1 DEF Numbered
<1>4. /\ ToSet(r) = ToSet(All) \cup {NewAll(e)} /\ Ranked(ToSet(All) \cup {NewAll(e)})
  BY <1>1, <1>3, NumberedAppended
<1> HIDE DEF r, n
<1>5. ASSUME NEW i \in 1..Len(r) PROVE r[i].seq = i - 1
  <2>1. i \in 1..n \/ i = n + 1
    BY <1>2
  <2>2. n = (n + 1) - 1
    BY <1>2
  <2> QED BY <1>1, <1>2, <2>1, <2>2
<1> QED BY <1>2, <1>4, <1>5 DEF r

LEMMA KeptIsRanked ==
    ASSUME DeclaredOK, NEW e \in Entries
    PROVE  /\ Append(Kept, NewKept(e)) \in Seq(Entries) /\ Numbered(Append(Kept, NewKept(e)))
           /\ ToSet(Append(Kept, NewKept(e))) = ToSet(Kept) \cup {NewKept(e)}
           /\ Ranked(ToSet(Kept) \cup {NewKept(e)}) /\ Ranked(ToSet(Kept))
<1>1. /\ Kept \in Seq(Entries) /\ Numbered(Kept) /\ NewKept(e) \in Entries
      /\ \A x \in ToSet(Kept) : x.seq < NewKept(e).seq
  BY NewEntries DEF DeclaredOK, ShapeOK, NumbersOK
<1> QED BY <1>1, NumberedAppended, OrderedSeq

\* Under one epoch, an entry of another epoch changes nothing.
LEMMA InEpoch ==
    ASSUME NEW S, NEW e \in Entries, NEW c, Ranked(S \cup {e}), \A x \in S : x.seq < e.seq,
           e.epoch = c
    PROVE  /\ Ranked(OfEpoch(S, c) \cup {e}) /\ Ranked(OfEpoch(S, c))
           /\ \A x \in OfEpoch(S, c) : x.seq < e.seq
<1>1. OfEpoch(S, c) \subseteq S
  BY OfEpochWith
<1>2. OfEpoch(S, c) \subseteq S \cup {e} /\ OfEpoch(S, c) \cup {e} \subseteq S \cup {e}
  BY <1>1
<1> QED BY <1>1, <1>2, RankedPart

LEMMA SkippedSame ==
    ASSUME DeclaredOK, NEW e \in Entries, Repeats(ToSet(Kept), NewKept(e)), ~history.overtaken
    PROVE  SameInAll(ToSet(Kept), ToSet(All) \cup {NewAll(e)})
<1> DEFINE S == ToSet(Kept)
           D == ToSet(All)
           n == NewKept(e)
           d == NewAll(e)
           f == history.skipped
<1>1. /\ n \in Entries /\ d \in Entries /\ Says(n, d) /\ n.epoch = d.epoch
      /\ \A x \in S : x.seq < n.seq
      /\ \A x \in D : x.seq < d.seq
  BY NewEntries
<1>2. Ranked(S \cup {n}) /\ Ranked(S) /\ Ranked(D \cup {d})
  BY KeptIsRanked, Declared
<1>3. Corr(S, D, f) /\ Same(S, D) /\ \A c \in Epochs : Same(OfEpoch(S, c), OfEpoch(D, c))
  BY DEF DeclaredOK, SameInAll
<1>4. /\ S # {}
      /\ \/ SameContents(LastOf("producer", S), n)
         \/ Unchanged(S, n) /\ Unchanged(OfEpoch(S, n.epoch), n)
  BY DEF Repeats
<1> HIDE DEF S, D, n, d, f
<1>5. ASSUME NEW c \in Epochs, d.epoch # c PROVE Same(OfEpoch(S, c), OfEpoch(D \cup {d}, c))
  BY <1>3, <1>5, OfEpochWith
<1>6. ASSUME NEW c \in Epochs, d.epoch = c
      PROVE  /\ OfEpoch(D \cup {d}, c) = OfEpoch(D, c) \cup {d}
             /\ Same(OfEpoch(S, c), OfEpoch(D, c)) /\ Corr(OfEpoch(S, c), OfEpoch(D, c), f)
             /\ Ranked(OfEpoch(S, c) \cup {n}) /\ Ranked(OfEpoch(S, c))
             /\ Ranked(OfEpoch(D, c) \cup {d})
             /\ \A x \in OfEpoch(S, c) : x.seq < n.seq
             /\ \A x \in OfEpoch(D, c) : x.seq < d.seq
  <2>1. /\ Ranked(OfEpoch(S, c) \cup {n}) /\ Ranked(OfEpoch(S, c))
        /\ \A x \in OfEpoch(S, c) : x.seq < n.seq
    BY <1>1, <1>2, <1>6, InEpoch
  <2>2. /\ Ranked(OfEpoch(D, c) \cup {d})
        /\ \A x \in OfEpoch(D, c) : x.seq < d.seq
    BY <1>1, <1>2, <1>6, InEpoch
  <2>3. Corr(OfEpoch(S, c), OfEpoch(D, c), f)
    BY <1>3, CorrOfEpoch
  <2>4. OfEpoch(D \cup {d}, c) = OfEpoch(D, c) \cup {d}
    BY <1>6, OfEpochWith
  <2>5. Same(OfEpoch(S, c), OfEpoch(D, c))
    BY <1>3
  <2> QED BY <2>1, <2>2, <2>3, <2>4, <2>5
<1>7. CASE SameContents(LastOf("producer", S), n)
  <2> DEFINE w == LastOf("producer", S)
  <2>1. IsLast(S, w)
    BY <1>2, <1>4, LastOfIs
  <2>2. SameContents(w, d) /\ w.epoch = d.epoch
    BY <1>1, <1>7 DEF SameContents, Says
  <2> HIDE DEF w
  <2>3. Same(S, D \cup {d})
    BY <1>1, <1>2, <1>3, <2>1, <2>2, WinnerSkipped
  <2>4. ASSUME NEW c \in Epochs, d.epoch = c PROVE Same(OfEpoch(S, c), OfEpoch(D \cup {d}, c))
    <3>1. IsLast(OfEpoch(S, c), w)
      BY <2>1, <2>2, <2>4 DEF IsLast, OfEpoch
    <3>2. Same(OfEpoch(S, c), OfEpoch(D, c) \cup {d})
      BY <1>1, <1>6, <2>2, <2>4, <3>1, WinnerSkipped
    <3> QED BY <1>6, <2>4, <3>2
  <2> QED BY <1>5, <2>3, <2>4 DEF SameInAll, S, D, d
<1>8. CASE Unchanged(S, n) /\ Unchanged(OfEpoch(S, n.epoch), n)
  <2>1. Same(S, D \cup {d})
    BY <1>1, <1>2, <1>3, <1>8, UnseenSkipped
  <2>2. ASSUME NEW c \in Epochs, d.epoch = c PROVE Same(OfEpoch(S, c), OfEpoch(D \cup {d}, c))
    <3>1. Unchanged(OfEpoch(S, c), n)
      BY <1>1, <1>8, <2>2
    <3>2. Same(OfEpoch(S, c), OfEpoch(D, c) \cup {d})
      BY <1>1, <1>6, <2>2, <3>1, UnseenSkipped
    <3> QED BY <1>6, <2>2, <3>2
  <2> QED BY <1>5, <2>1, <2>2 DEF SameInAll, S, D, d
<1> QED BY <1>4, <1>7, <1>8

LEMMA KeptSame ==
    ASSUME DeclaredOK, NEW e \in Entries, ~history.overtaken, ~(e.from < history.skipped)
    PROVE  SameInAll(ToSet(Kept) \cup {NewKept(e)}, ToSet(All) \cup {NewAll(e)})
<1> DEFINE S == ToSet(Kept)
           D == ToSet(All)
           n == NewKept(e)
           d == NewAll(e)
           f == history.skipped
<1>1. /\ n \in Entries /\ d \in Entries /\ Says(n, d) /\ n.epoch = d.epoch /\ d.from = e.from
      /\ \A x \in S : x.seq < n.seq
      /\ \A x \in D : x.seq < d.seq
  BY NewEntries
<1>2. Ranked(S \cup {n}) /\ Ranked(D \cup {d})
  BY KeptIsRanked, Declared
<1>3. Corr(S, D, f) /\ Same(S, D) /\ \A c \in Epochs : Same(OfEpoch(S, c), OfEpoch(D, c))
  BY DEF DeclaredOK, SameInAll
<1>4. f \in Nat /\ e.from \in Nat
  BY EntryFields DEF DeclaredOK, ShapeOK
<1>5. ~(e.from < f)
  OBVIOUS
<1> HIDE DEF S, D, n, d, f
<1>6. f <= d.from
  BY <1>1, <1>4, <1>5
<1>7. Same(S \cup {n}, D \cup {d})
  BY <1>1, <1>2, <1>3, <1>4, <1>6, Appended
<1>8. ASSUME NEW c \in Epochs, d.epoch # c
      PROVE  Same(OfEpoch(S \cup {n}, c), OfEpoch(D \cup {d}, c))
  <2>1. OfEpoch(S \cup {n}, c) = OfEpoch(S, c)
    <3>1. n.epoch # c
      BY <1>1, <1>8
    <3> QED BY <3>1, OfEpochWith
  <2>2. OfEpoch(D \cup {d}, c) = OfEpoch(D, c)
    BY <1>8, OfEpochWith
  <2>3. Same(OfEpoch(S, c), OfEpoch(D, c))
    BY <1>3
  <2> QED BY <2>1, <2>2, <2>3
<1>9. ASSUME NEW c \in Epochs, d.epoch = c
      PROVE  Same(OfEpoch(S \cup {n}, c), OfEpoch(D \cup {d}, c))
  <2>1. /\ Ranked(OfEpoch(S, c) \cup {n})
        /\ \A x \in OfEpoch(S, c) : x.seq < n.seq
    BY <1>1, <1>2, <1>9, InEpoch
  <2>2. /\ Ranked(OfEpoch(D, c) \cup {d})
        /\ \A x \in OfEpoch(D, c) : x.seq < d.seq
    BY <1>1, <1>2, <1>9, InEpoch
  <2>3. Corr(OfEpoch(S, c), OfEpoch(D, c), f)
    BY <1>3, CorrOfEpoch
  <2>4. Same(OfEpoch(S, c) \cup {n}, OfEpoch(D, c) \cup {d})
    BY <1>1, <1>3, <1>4, <1>6, <2>1, <2>2, <2>3, Appended
  <2>5. OfEpoch(S \cup {n}, c) = OfEpoch(S, c) \cup {n}
    <3>1. n.epoch = c
      BY <1>1, <1>9
    <3> QED BY <3>1, OfEpochWith
  <2>6. OfEpoch(D \cup {d}, c) = OfEpoch(D, c) \cup {d}
    BY <1>9, OfEpochWith
  <2> QED BY <2>4, <2>5, <2>6
<1> QED BY <1>7, <1>8, <1>9 DEF SameInAll, S, D, n, d

\* What an append leaves in the producer's layer.
LEMMA SkipKeepsIt ==
    ASSUME DeclaredOK, NEW e \in Entries, LayerSkips(e), All' = Append(All, NewAll(e)),
           DOMAIN layers' = LayerNames, DOMAIN history' = HistoryFields
    PROVE  DeclaredOK'
<1>1. /\ All' \in Seq(Entries)
      /\ \A i \in 1..Len(All') : All'[i].seq = i - 1
      /\ ToSet(All') = ToSet(All) \cup {NewAll(e)}
  BY Declared
<1>2. Kept' = Kept /\ layered' = layered /\ history'.overtaken = history.overtaken
  BY DEF LayerSkips
<1>3. /\ history.skipped \in Nat /\ e.from \in Nat
      /\ history'.skipped \in Nat
      /\ history.skipped <= history'.skipped /\ e.from <= history'.skipped
  BY EntryFields DEF LayerSkips, DeclaredOK, ShapeOK
<1>4. ShapeOK'
  <2>1. /\ Kept' \in Seq(Entries) /\ layered' \in BOOLEAN /\ history'.overtaken \in BOOLEAN
    BY <1>2 DEF DeclaredOK, ShapeOK
  <2> QED BY <1>1, <1>3, <2>1 DEF ShapeOK
<1>5. NumbersOK'
  <2>1. Numbered(Kept') /\ (~layered' => Kept' = <<>>)
    BY <1>2 DEF DeclaredOK, NumbersOK
  <2> QED BY <1>1, <2>1 DEF NumbersOK
<1>6. Corr(ToSet(Kept'), ToSet(All'), history'.skipped)
  <2>1. Corr(ToSet(Kept), ToSet(All), history.skipped)
    BY DEF DeclaredOK
  <2>2. ASSUME NEW y \in ToSet(All')
        PROVE  y.from <= history'.skipped \/ \E x \in ToSet(Kept') : Says(x, y)
    <3>1. CASE y = NewAll(e)
      BY <1>3, <3>1, NewEntries
    <3>2. CASE y \in ToSet(All)
      <4>1. y.from \in Nat
        BY <3>2, SetOf, EntryFields DEF DeclaredOK, ShapeOK
      <4>2. y.from <= history.skipped \/ \E x \in ToSet(Kept) : Says(x, y)
        BY <2>1, <3>2 DEF Corr
      <4>3. CASE y.from <= history.skipped
        BY <1>3, <4>1, <4>3
      <4> QED BY <1>2, <4>2, <4>3
    <3> QED BY <1>1, <3>1, <3>2
  <2>3. \A x \in ToSet(Kept') : \E y \in ToSet(All') : Says(x, y)
    BY <1>1, <1>2, <2>1 DEF Corr
  <2> QED BY <2>2, <2>3 DEF Corr
<1>7. ASSUME ~history'.overtaken PROVE SameInAll(ToSet(Kept'), ToSet(All'))
  <2>1. SameInAll(ToSet(Kept), ToSet(All) \cup {NewAll(e)})
    BY <1>2, <1>7, SkippedSame DEF LayerSkips
  <2> QED BY <1>1, <1>2, <2>1
<1> QED BY <1>4, <1>5, <1>6, <1>7 DEF DeclaredOK

LEMMA KeepKeepsIt ==
    ASSUME DeclaredOK, NEW e \in Entries, LayerKeeps(e), All' = Append(All, NewAll(e)),
           DOMAIN layers' = LayerNames, DOMAIN history' = HistoryFields
    PROVE  DeclaredOK'
<1>1. /\ All' \in Seq(Entries)
      /\ \A i \in 1..Len(All') : All'[i].seq = i - 1
      /\ ToSet(All') = ToSet(All) \cup {NewAll(e)}
  BY Declared
<1>2. /\ Kept' \in Seq(Entries) /\ Numbered(Kept')
      /\ ToSet(Kept') = ToSet(Kept) \cup {NewKept(e)}
  BY KeptIsRanked DEF LayerKeeps
<1>3. /\ layered' = TRUE /\ history'.skipped = history.skipped
      /\ history'.overtaken = (history.overtaken \/ e.from < history.skipped)
  BY DEF LayerKeeps
<1>4. ShapeOK'
  BY <1>1, <1>2, <1>3 DEF ShapeOK, DeclaredOK
<1>5. NumbersOK'
  BY <1>1, <1>2, <1>3 DEF NumbersOK
<1>6. Corr(ToSet(Kept'), ToSet(All'), history'.skipped)
  <2>1. Corr(ToSet(Kept), ToSet(All), history.skipped)
    BY DEF DeclaredOK
  <2>2. Says(NewKept(e), NewAll(e))
    BY NewEntries
  <2>3. Corr(ToSet(Kept) \cup {NewKept(e)}, ToSet(All) \cup {NewAll(e)}, history.skipped)
    <3> DEFINE S == ToSet(Kept)
               D == ToSet(All)
               n == NewKept(e)
               d == NewAll(e)
    <3> HIDE DEF S, D, n, d
    <3>1. Corr(S, D, history.skipped) /\ Says(n, d)
      BY <2>1, <2>2 DEF S, D, n, d
    <3>2. Corr(S \cup {n}, D \cup {d}, history.skipped)
      BY <3>1 DEF Corr
    <3> QED BY <3>2 DEF S, D, n, d
  <2> QED BY <1>1, <1>2, <1>3, <2>3
<1>7. ASSUME ~history'.overtaken PROVE SameInAll(ToSet(Kept'), ToSet(All'))
  <2>1. ~history.overtaken /\ ~(e.from < history.skipped)
    BY <1>3, <1>7
  <2>2. SameInAll(ToSet(Kept) \cup {NewKept(e)}, ToSet(All) \cup {NewAll(e)})
    BY <2>1, KeptSame
  <2> QED BY <1>1, <1>2, <2>2
<1> QED BY <1>4, <1>5, <1>6, <1>7 DEF DeclaredOK

LEMMA UntouchedKeepsIt ==
    ASSUME DeclaredOK, Kept' = Kept, All' = All, layered' = layered \/ layered' = TRUE,
           history'.skipped = history.skipped, history'.overtaken = history.overtaken,
           DOMAIN layers' = LayerNames, DOMAIN history' = HistoryFields
    PROVE  DeclaredOK'
<1>1. ShapeOK'
  BY DEF DeclaredOK, ShapeOK
<1>2. NumbersOK'
  BY DEF DeclaredOK, NumbersOK, ShapeOK
<1>3. Corr(ToSet(Kept'), ToSet(All'), history'.skipped)
  BY DEF DeclaredOK
<1>4. ASSUME ~history'.overtaken PROVE SameInAll(ToSet(Kept'), ToSet(All'))
  BY <1>4 DEF DeclaredOK
<1> QED BY <1>1, <1>2, <1>3, <1>4 DEF DeclaredOK

\* An append to another layer writes two documents, and not the producer's.
LEMMA OtherAppends ==
    ASSUME DeclaredOK, NEW layer \in LayerNames, layer # "producer", NEW e,
           AppendEntry(layer, e)
    PROVE  DeclaredOK'
<1> DEFINE docs     == IF layered THEN layers ELSE DeriveLegacy
           found    == IF layered THEN Drift(MergedWithRemovals(docs)) ELSE <<>>
           external == IF DOMAIN found = {} THEN <<>>
                       ELSE <<NewEntry(NextSeq(docs["user"]), found)>>
           kept     == [docs EXCEPT !["user"] = @ \o external]
           numbered == [e EXCEPT !.seq = NextSeq(kept[layer])]
           result  == [kept EXCEPT ![layer] = Append(@, numbered)]
           skipped  == layer = "producer" /\ Repeats(ToSet(kept["producer"]), numbered)
<1>1. DOMAIN docs = LayerNames /\ docs["producer"] = Kept
  <2>1. CASE layered
    BY <2>1 DEF DeclaredOK, ShapeOK, Kept
  <2>2. CASE ~layered
    <3>1. DOMAIN DeriveLegacy = LayerNames /\ DeriveLegacy["producer"] = <<>>
      BY DEF DeriveLegacy, LayerNames
    <3> QED BY <2>2, <3>1 DEF DeclaredOK, NumbersOK
  <2> QED BY <2>1, <2>2
<1>2. DOMAIN kept = LayerNames /\ kept["producer"] = Kept
  <2> HIDE DEF docs, external
  <2> QED BY <1>1 DEF LayerNames
<1>3. DOMAIN result = LayerNames /\ result["producer"] = Kept
  <2> HIDE DEF kept, numbered
  <2> QED BY <1>2 DEF LayerNames
<1>4. /\ history' = [history EXCEPT
              !.offers    = @ + 1,
              !.declared  = IF layer # "producer" THEN @
                            ELSE Append(@, [e EXCEPT !.seq = Len(history.declared)]),
              !.skipped   = IF skipped /\ e.from > @ THEN e.from ELSE @,
              !.overtaken = @ \/ (layer = "producer" /\ ~skipped
                                    /\ e.from < history.skipped),
              !.layer     = layer,
              !.touched   = Touched(e)]
      /\ IF skipped
          THEN UNCHANGED <<layers, layered, shown>>
          ELSE /\ layers' = result
               /\ layered' = TRUE
               /\ shown' = Shown(Merged(docs), result)
  BY DEF AppendEntry
<1>5. ~skipped
  OBVIOUS
<1> HIDE DEF docs, kept, numbered, result, skipped
<1>6. DOMAIN history = HistoryFields /\ history.overtaken \in BOOLEAN
  BY DEF DeclaredOK, ShapeOK
<1>7. /\ DOMAIN history' = HistoryFields
      /\ history'.declared = history.declared
      /\ history'.skipped = history.skipped
      /\ history'.overtaken = history.overtaken
  BY <1>4, <1>5, <1>6 DEF HistoryFields
<1>8. layers' = result /\ layered' = TRUE
  BY <1>4, <1>5
<1>9. All' = All /\ Kept' = Kept
  BY <1>3, <1>7, <1>8 DEF All, Kept
<1> QED BY <1>3, <1>7, <1>8, <1>9, UntouchedKeepsIt

LEMMA DeclaredInit ==
    ASSUME LYInit
    PROVE  DeclaredOK
<1>1. Kept = <<>> /\ All = <<>> /\ history.skipped = 0 /\ history.overtaken = FALSE
      /\ layered = FALSE /\ DOMAIN layers = LayerNames /\ DOMAIN history = HistoryFields
  BY DEF LYInit, Kept, All, LayerNames, HistoryFields
<1>2. <<>> \in Seq(Entries) /\ Len(<<>>) = 0
  BY EmptySeq
<1>3. ToSet(Kept) = {} /\ ToSet(All) = {}
  <2>1. DOMAIN <<>> = {}
    OBVIOUS
  <2>2. ToSet(<<>>) = {}
    BY <2>1 DEF ToSet
  <2> QED BY <1>1, <2>2
<1>4. ShapeOK
  <2>1. Kept \in Seq(Entries) /\ All \in Seq(Entries)
    BY <1>1, <1>2
  <2>2. history.skipped \in Nat
    BY <1>1
  <2>3. history.overtaken \in BOOLEAN /\ layered \in BOOLEAN
    BY <1>1, Zenon
  <2> QED BY <1>1, <2>1, <2>2, <2>3 DEF ShapeOK
<1>5. NumbersOK
  BY <1>1, <1>2 DEF NumbersOK, Numbered
<1>6. Corr(ToSet(Kept), ToSet(All), history.skipped)
  BY <1>3 DEF Corr
<1>7. SameInAll(ToSet(Kept), ToSet(All))
  BY <1>3 DEF SameInAll, Same
<1> QED BY <1>4, <1>5, <1>6, <1>7 DEF DeclaredOK

LEMMA DeclaredStep ==
    ASSUME DeclaredOK, [LYNext]_lyvars
    PROVE  DeclaredOK'
<1>1. ASSUME NEW e \in Entries, AppendEntry("producer", e) PROVE DeclaredOK'
  BY <1>1, ProducerAppends, SkipKeepsIt, KeepKeepsIt
<1>2. CASE Declare
  <2>1. PICK e \in Declarations : AppendEntry("producer", e)
    BY <1>2 DEF Declare
  <2> QED BY <1>1, <2>1, LayersAssumption
<1>3. CASE Annotate
  <2>1. PICK layer \in LayerNames, e \in Assertions : AppendEntry(layer, e)
    BY <1>3 DEF Annotate
  <2>2. CASE layer = "producer"
    BY <1>1, <2>1, <2>2, LayersAssumption
  <2>3. CASE layer # "producer"
    BY <2>1, <2>3, OtherAppends
  <2> QED BY <2>2, <2>3
<1>4. CASE EditOutside
  <2>1. PICK k \in IdKeys, v \in Texts \cup {Removed, Absent} : EditShown(k, v)
    BY <1>4 DEF EditOutside
  <2>2. /\ layers' = layers /\ layered' = layered
        /\ history' = [history EXCEPT !.edits = @ + 1]
    BY <2>1 DEF EditShown
  <2>3. DOMAIN history = HistoryFields /\ DOMAIN layers = LayerNames
    BY DEF DeclaredOK, ShapeOK
  <2>4. /\ DOMAIN history' = HistoryFields /\ history'.declared = history.declared
        /\ history'.skipped = history.skipped /\ history'.overtaken = history.overtaken
    BY <2>2, <2>3 DEF HistoryFields
  <2>5. Kept' = Kept /\ All' = All
    BY <2>2, <2>4 DEF Kept, All
  <2> QED BY <2>2, <2>3, <2>4, <2>5, UntouchedKeepsIt
<1>5. CASE UNCHANGED lyvars
  <2>1. Kept' = Kept /\ All' = All /\ layers' = layers /\ layered' = layered /\ history' = history
    BY <1>5 DEF lyvars, Kept, All
  <2> QED BY <2>1, UntouchedKeepsIt DEF DeclaredOK, ShapeOK
<1> QED BY <1>2, <1>3, <1>4, <1>5 DEF LYNext

(***************************************************************************)
(* What a producer declared is read as if every one of its entries had     *)
(* been appended, whole and per epoch, for any keys, texts, epochs and     *)
(* declarations, in whatever order their stamps come: unless an entry was  *)
(* stamped behind one that was skipped.  It is the two rules of            *)
(* append_producer by which an entry counts as a repetition.               *)
(***************************************************************************)
THEOREM ProducersReadAsDeclared == LYSpec => []ReadsAsAllDeclared
<1>1. LYInit => DeclaredOK
  BY DeclaredInit
<1>2. DeclaredOK /\ [LYNext]_lyvars => DeclaredOK'
  BY DeclaredStep
<1>3. DeclaredOK => ReadsAsAllDeclared
  BY SameIsWhatIsRead DEF DeclaredOK
<1> QED BY <1>1, <1>2, <1>3, PTL DEF LYSpec

-----------------------------------------------------------------------------
(***************************************************************************)
(* What a fold gives, in each layer's order.                               *)
(***************************************************************************)
Values == Texts \cup {Removed, Absent}

LEMMA UserLast ==
    ASSUME NEW q \in Seq(Entries), Numbered(q), NEW T, T \subseteq ToSet(q), T # {}
    PROVE  LastOf("user", T) \in T
<1> DEFINE n == Len(q)
           I == {n - i : i \in {j \in 1..n : q[j] \in T}}
<1>1. /\ ToSet(q) = {q[i] : i \in 1..n} /\ n \in Nat
  BY SetOf
<1>2. I # {} /\ I \subseteq Nat
  <2>1. PICK x \in T : TRUE
    OBVIOUS
  <2>2. PICK i \in 1..n : q[i] \in T
    BY <1>1, <2>1
  <2>3. n - i \in I
    BY <2>2
  <2>4. ASSUME NEW j \in 1..n PROVE n - j \in Nat
    <3> HIDE DEF n
    <3> QED BY <1>1, <2>4
  <2> QED BY <2>3, <2>4
<1>3. PICK m \in I : \A k \in I : m <= k
  <2> HIDE DEF I
  <2> QED BY <1>2, LeastExists
<1>4. PICK i \in 1..n : m = n - i /\ q[i] \in T
  BY <1>3
<1>5. ASSUME NEW y \in T PROVE q[i] = y \/ Before("user", y, q[i])
  <2>1. PICK j \in 1..n : y = q[j]
    BY <1>1
  <2>2. n - j \in I
    BY <2>1
  <2>3. n - i <= n - j
    BY <1>3, <1>4, <2>2
  <2>4. j <= i
    <3> HIDE DEF n, I
    <3> QED BY <1>1, <2>3
  <2>5. j = i \/ j < i
    <3> HIDE DEF n, I
    <3> QED BY <1>1, <2>4
  <2>6. CASE j < i
    <3>1. q[j].seq < q[i].seq
      BY <2>6 DEF Numbered
    <3> QED BY <2>1, <3>1 DEF Before
  <2> QED BY <2>1, <2>5, <2>6
<1>6. \E x \in T : \A y \in T : x = y \/ Before("user", y, x)
  BY <1>4, <1>5
<1> QED BY <1>6 DEF LastOf

LEMMA LastIsThere ==
    ASSUME NEW q \in Seq(Entries), Numbered(q), NEW T, T \subseteq ToSet(q), T # {},
           NEW layer \in LayerNames
    PROVE  LastOf(layer, T) \in T
<1>1. CASE layer = "user"
  BY <1>1, UserLast
<1>2. CASE layer # "user"
  <2>1. LastOf(layer, T) = LastOf("producer", T)
    <3>1. \A x, y : Before(layer, x, y) = Before("producer", x, y)
      BY <1>2 DEF Before
    <3> QED BY <3>1 DEF LastOf
  <2>2. Ranked(T)
    BY OrderedSeq, RankedPart
  <2>3. LastOf("producer", T) \in T
    BY <2>2, LastOfIs DEF IsLast
  <2> QED BY <2>1, <2>3
<1> QED BY <1>1, <1>2

LEMMA FoldIn ==
    ASSUME NEW S, NEW k \in IdKeys, NEW layer
    PROVE  Fold(layer, S)[k] =
              IF Touching(S, k) = {} THEN Absent
              ELSE Value(LastOf(layer, Touching(S, k)), k)
  BY DEF Fold, Touching, Value

LEMMA FoldTyped ==
    ASSUME NEW q \in Seq(Entries), Numbered(q), NEW layer \in LayerNames, NEW k \in IdKeys
    PROVE  Fold(layer, ToSet(q))[k] \in Values
<1> DEFINE T == Touching(ToSet(q), k)
<1>1. CASE T = {}
  BY <1>1, FoldIn DEF Values
<1>2. CASE T # {}
  <2> DEFINE x == LastOf(layer, T)
  <2>1. x \in T /\ T \subseteq ToSet(q)
    BY <1>2, LastIsThere DEF Touching
  <2>2. x \in Entries
    BY <2>1, SetOf
  <2>3. Fold(layer, ToSet(q))[k] = Value(x, k)
    BY <1>2, FoldIn
  <2> HIDE DEF x
  <2>4. x.sets \in Sets
    BY <2>2 DEF Entries
  <2>5. PICK keys \in SUBSET IdKeys : x.sets \in [keys -> Texts \cup {Removed}]
    BY <2>4 DEF Sets
  <2>6. Value(x, k) \in Values
    BY <2>5 DEF Value, Values
  <2> QED BY <2>3, <2>6
<1> QED BY <1>1, <1>2

\* An entry that does not touch a key leaves it.
LEMMA FoldUntouched ==
    ASSUME NEW S, NEW e, NEW k \in IdKeys, k \notin Touched(e), NEW layer
    PROVE  Fold(layer, S \cup {e})[k] = Fold(layer, S)[k]
<1>1. Touching(S \cup {e}, k) = Touching(S, k)
  BY DEF Touching
<1> QED BY <1>1, FoldIn

\* In the user layer the last entry written wins.
LEMMA UserWins ==
    ASSUME NEW S, NEW e, NEW k \in IdKeys, k \in Touched(e), S \subseteq Entries, e \in Entries,
           \A x \in S : x.seq < e.seq
    PROVE  Fold("user", S \cup {e})[k] = Value(e, k)
<1> DEFINE T == Touching(S \cup {e}, k)
<1>1. e \in T /\ \A x \in T : x = e \/ (x \in S /\ x.seq < e.seq /\ x.seq \in Nat)
  BY EntryFields DEF Touching
<1>2. e.seq \in Nat
  BY EntryFields
<1> HIDE DEF T
<1>3. \A y \in T : e = y \/ Before("user", y, e)
  BY <1>1 DEF Before
<1> DEFINE z == LastOf("user", T)
<1>4. z \in T /\ \A y \in T : z = y \/ Before("user", y, z)
  BY <1>1, <1>3 DEF LastOf
<1> HIDE DEF z
<1>5. z = e
  <2>1. z = e \/ e.seq < z.seq
    BY <1>1, <1>4 DEF Before
  <2>2. z = e \/ (z.seq < e.seq /\ z.seq \in Nat)
    BY <1>1, <1>4
  <2> QED BY <1>2, <2>1, <2>2
<1> QED BY <1>1, <1>5, FoldIn DEF T, z

-----------------------------------------------------------------------------
(***************************************************************************)
(* The layers merged, at one key.                                          *)
(***************************************************************************)
FoldOf(docs, layer, k) == Fold(layer, ToSet(docs[layer]))[k]

\* What the layers say of a key, what is derived apart.
Said(docs, k) ==
    IF FoldOf(docs, "user", k) # Absent THEN FoldOf(docs, "user", k)
    ELSE IF Present(FoldOf(docs, "producer", k)) # Absent
         THEN Present(FoldOf(docs, "producer", k))
         ELSE Present(FoldOf(docs, "recorder", k))

LEMMA MergedAt ==
    ASSUME NEW docs, NEW k \in IdKeys
    PROVE  /\ MergedWithRemovals(docs)[k] =
                 IF k = ProducerLabel /\ Said(docs, k) = Absent
                 THEN Present(Said(docs, ProducerName)) ELSE Said(docs, k)
           /\ Merged(docs)[k] = Present(MergedWithRemovals(docs)[k])
           /\ Merged(docs) \in [IdKeys -> {Merged(docs)[j] : j \in IdKeys}]
<1>1. Merged(docs)[k] = Present(MergedWithRemovals(docs)[k])
  BY DEF Merged, Restrained
<1>2. Merged(docs) \in [IdKeys -> {Merged(docs)[j] : j \in IdKeys}]
  BY DEF Merged, Restrained
<1> DEFINE recorder == Restrained(Fold("recorder", ToSet(docs["recorder"])))
           producer == Restrained(Fold("producer", ToSet(docs["producer"])))
           user     == Fold("user", ToSet(docs["user"]))
           Over(upper, lower) == [j \in IdKeys |-> IF upper[j] # Absent THEN upper[j] ELSE lower[j]]
           merged   == Over(user, Over(producer, recorder))
<1>3. /\ MergedWithRemovals(docs) =
            [merged EXCEPT ![ProducerLabel] =
                IF @ # Absent THEN @ ELSE Present(merged[ProducerName])]
  BY DEF MergedWithRemovals
<1>4. \A j \in IdKeys : merged[j] = Said(docs, j)
  BY DEF Said, FoldOf, Restrained
<1>5. DOMAIN merged = IdKeys /\ merged = [j \in IdKeys |-> merged[j]]
  OBVIOUS
<1>6. ProducerName \in IdKeys /\ ProducerLabel \in IdKeys
  BY LayersAssumption DEF IdKeys
<1> HIDE DEF merged
<1>7. MergedWithRemovals(docs)[k] =
          IF k = ProducerLabel /\ Said(docs, k) = Absent
          THEN Present(Said(docs, ProducerName)) ELSE Said(docs, k)
  BY <1>3, <1>4, <1>5, <1>6
<1> QED BY <1>1, <1>2, <1>7

DocsOK(docs) ==
    /\ DOMAIN docs = LayerNames
    /\ \A l \in LayerNames : docs[l] \in Seq(Entries) /\ Numbered(docs[l])

LEMMA PresentTyped ==
    ASSUME NEW v \in Values
    PROVE  /\ Present(v) \in Values /\ Present(Present(v)) = Present(v)
           /\ Present(v) # Absent => v \in Texts /\ Present(v) = v
           /\ Present(Absent) = Absent /\ Present(Removed) = Absent
  BY LayersAssumption DEF Present, Values

LEMMA MergedTyped ==
    ASSUME NEW docs, DocsOK(docs), NEW k \in IdKeys
    PROVE  MergedWithRemovals(docs)[k] \in Values /\ Merged(docs)[k] \in Values
<1>1. ASSUME NEW j \in IdKeys PROVE Said(docs, j) \in Values
  <2>1. \A l \in LayerNames : FoldOf(docs, l, j) \in Values
    BY FoldTyped DEF DocsOK, FoldOf
  <2>2. FoldOf(docs, "user", j) \in Values /\ FoldOf(docs, "producer", j) \in Values
        /\ FoldOf(docs, "recorder", j) \in Values
    BY <2>1 DEF LayerNames
  <2> QED BY <2>2, PresentTyped DEF Said
<1>2. ProducerName \in IdKeys
  BY LayersAssumption DEF IdKeys
<1> QED BY <1>1, <1>2, MergedAt, PresentTyped

-----------------------------------------------------------------------------
(***************************************************************************)
(* What is recorded in the layers, and what an append reads of it.         *)
(***************************************************************************)
LYTypes ==
    /\ DocsOK(layers)
    /\ layered \in BOOLEAN
    /\ ~layered => \A l \in LayerNames : layers[l] = <<>>
    /\ shown \in [IdKeys -> Values]
    /\ evidence \in Texts \cup {Absent}
    /\ DOMAIN history = HistoryFields

Docs == IF layered THEN layers ELSE DeriveLegacy
Found == IF layered THEN Drift(MergedWithRemovals(Docs)) ELSE <<>>
External == IF DOMAIN Found = {} THEN <<>> ELSE <<NewEntry(NextSeq(Docs["user"]), Found)>>
KeptDocs == [Docs EXCEPT !["user"] = @ \o External]
Added(layer, e) == [e EXCEPT !.seq = NextSeq(KeptDocs[layer])]
Result(layer, e) == [KeptDocs EXCEPT ![layer] = Append(@, Added(layer, e))]

LEMMA AppendIs ==
    ASSUME LYTypes, NEW layer \in LayerNames, NEW e, AppendEntry(layer, e)
    PROVE  /\ DOMAIN history' = HistoryFields
           /\ history'.layer = layer /\ history'.touched = Touched(e)
           /\ evidence' = evidence
           /\ \/ layers' = layers /\ layered' = layered /\ shown' = shown
              \/ /\ layers' = Result(layer, e) /\ layered' = TRUE
                 /\ shown' = Shown(Merged(Docs), Result(layer, e))
<1>1. /\ evidence' = evidence
      /\ \/ layers' = layers /\ layered' = layered /\ shown' = shown
         \/ /\ layers' = Result(layer, e) /\ layered' = TRUE
            /\ shown' = Shown(Merged(Docs), Result(layer, e))
  BY DEF AppendEntry, Result, Added, KeptDocs, External, Found, Docs
<1>2. DOMAIN history' = DOMAIN history /\ DOMAIN history = HistoryFields
  BY DEF AppendEntry, LYTypes
<1>3. history'.layer = layer /\ history'.touched = Touched(e)
  BY <1>2 DEF AppendEntry, HistoryFields
<1> QED BY <1>1, <1>2, <1>3

LEMMA EntryIs ==
    ASSUME NEW seq \in Nat, NEW sets \in Sets
    PROVE  /\ NewEntry(seq, sets) \in Entries
           /\ NewEntry(seq, sets).seq = seq /\ NewEntry(seq, sets).sets = sets
           /\ Touched(NewEntry(seq, sets)) = DOMAIN sets
  BY DEF NewEntry, Entries, Touched

LEMMA SetsOf ==
    ASSUME NEW keys \in SUBSET IdKeys, NEW f \in [keys -> Texts \cup {Removed}]
    PROVE  f \in Sets /\ DOMAIN f = keys
  BY DEF Sets

LEMMA OneEntry ==
    ASSUME NEW e \in Entries
    PROVE  /\ <<e>> \in Seq(Entries) /\ ToSet(<<e>>) = {e} /\ Numbered(<<e>>)
           /\ Len(<<e>>) = 1 /\ <<e>>[1] = e
<1>1. <<e>> \in Seq(Entries) /\ Len(<<e>>) = 1 /\ <<e>>[1] = e
  OBVIOUS
<1>2. ToSet(<<e>>) = {<<e>>[i] : i \in 1..1}
  BY <1>1, SetOf
<1>3. ToSet(<<e>>) = {e}
  BY <1>1, <1>2
<1>4. Numbered(<<e>>)
  BY <1>1 DEF Numbered
<1> QED BY <1>1, <1>3, <1>4

LEMMA NoEntry == <<>> \in Seq(Entries) /\ ToSet(<<>>) = {} /\ Numbered(<<>>) /\ Len(<<>>) = 0
<1>1. <<>> \in Seq(Entries) /\ Len(<<>>) = 0 /\ DOMAIN <<>> = {}
  OBVIOUS
<1> QED BY <1>1 DEF ToSet, Numbered

-----------------------------------------------------------------------------
(***************************************************************************)
(* What is derived for a source without layers says what it showed.        *)
(***************************************************************************)
One(seq, sets) == IF DOMAIN sets = {} THEN <<>> ELSE <<NewEntry(seq, sets)>>
MetaSets == SetTo(shown, MetaKeys)
NameSets == SetTo([k \in {ProducerName} |-> evidence], {ProducerName})
LabelSets == SetTo(shown, LabelKeys)

LEMMA DerivedIs ==
    /\ DeriveLegacy["recorder"] = One(0, MetaSets) \o One(1, NameSets)
    /\ DeriveLegacy["producer"] = <<>>
    /\ DeriveLegacy["user"] = One(0, LabelSets)
    /\ DOMAIN DeriveLegacy = LayerNames
  BY DEF DeriveLegacy, One, MetaSets, NameSets, LabelSets, LayerNames

\* Nothing that is shown is removed: before there are layers, no text is.
LEMMA SetToIs ==
    ASSUME NEW map, NEW keys \in SUBSET IdKeys,
           \A k \in keys : map[k] \in Values
    PROVE  /\ SetTo(map, keys) \in Sets
           /\ DOMAIN SetTo(map, keys) = {k \in keys : map[k] # Absent}
           /\ \A k \in DOMAIN SetTo(map, keys) : SetTo(map, keys)[k] = map[k]
<1> DEFINE held == {k \in keys : map[k] # Absent}
<1>1. SetTo(map, keys) = [k \in held |-> map[k]]
  BY DEF SetTo
<1>2. \A k \in held : map[k] \in Texts \cup {Removed}
  BY DEF Values
<1>3. held \in SUBSET IdKeys
  OBVIOUS
<1>4. SetTo(map, keys) \in [held -> Texts \cup {Removed}]
  <2> HIDE DEF held
  <2> QED BY <1>1, <1>2
<1> QED BY <1>1, <1>3, <1>4, SetsOf

LEMMA OneIs ==
    ASSUME NEW seq \in Nat, NEW sets \in Sets
    PROVE  /\ One(seq, sets) \in Seq(Entries) /\ Numbered(One(seq, sets))
           /\ ToSet(One(seq, sets)) = IF DOMAIN sets = {} THEN {} ELSE {NewEntry(seq, sets)}
  BY EntryIs, OneEntry, NoEntry DEF One

LEMMA DerivedSets ==
    ASSUME LYTypes
    PROVE  /\ MetaSets \in Sets /\ NameSets \in Sets /\ LabelSets \in Sets
           /\ DOMAIN MetaSets = {k \in MetaKeys : shown[k] # Absent}
           /\ DOMAIN LabelSets = {k \in LabelKeys : shown[k] # Absent}
           /\ DOMAIN NameSets = {k \in {ProducerName} : evidence # Absent}
           /\ \A k \in DOMAIN MetaSets : MetaSets[k] = shown[k]
           /\ \A k \in DOMAIN LabelSets : LabelSets[k] = shown[k]
<1>1. MetaKeys \in SUBSET IdKeys /\ LabelKeys \in SUBSET IdKeys /\ {ProducerName} \in SUBSET IdKeys
  BY LayersAssumption DEF IdKeys
<1>2. \A k \in IdKeys : shown[k] \in Values
  BY DEF LYTypes
<1>3. /\ MetaSets \in Sets /\ DOMAIN MetaSets = {k \in MetaKeys : shown[k] # Absent}
      /\ \A k \in DOMAIN MetaSets : MetaSets[k] = shown[k]
  BY <1>1, <1>2, SetToIs DEF MetaSets
<1>4. /\ LabelSets \in Sets /\ DOMAIN LabelSets = {k \in LabelKeys : shown[k] # Absent}
      /\ \A k \in DOMAIN LabelSets : LabelSets[k] = shown[k]
  BY <1>1, <1>2, SetToIs DEF LabelSets
<1>5. NameSets \in Sets /\ DOMAIN NameSets = {k \in {ProducerName} : evidence # Absent}
  <2> DEFINE map == [k \in {ProducerName} |-> evidence]
  <2>1. \A k \in {ProducerName} : map[k] = evidence /\ map[k] \in Values
    BY DEF LYTypes, Values
  <2> HIDE DEF map
  <2>2. /\ SetTo(map, {ProducerName}) \in Sets
        /\ DOMAIN SetTo(map, {ProducerName}) = {k \in {ProducerName} : map[k] # Absent}
    BY <1>1, <2>1, SetToIs
  <2>3. {k \in {ProducerName} : map[k] # Absent} = {k \in {ProducerName} : evidence # Absent}
    BY <2>1
  <2> QED BY <2>2, <2>3 DEF NameSets, map
<1> QED BY <1>3, <1>4, <1>5

LEMMA TwoEntries ==
    ASSUME NEW x \in Sets, NEW y \in Sets
    PROVE  /\ One(0, x) \o One(1, y) \in Seq(Entries) /\ Numbered(One(0, x) \o One(1, y))
           /\ ToSet(One(0, x) \o One(1, y)) = ToSet(One(0, x)) \cup ToSet(One(1, y))
<1>1. /\ One(0, x) \in Seq(Entries) /\ Numbered(One(0, x)) /\ One(1, y) \in Seq(Entries)
      /\ Numbered(One(1, y))
      /\ ToSet(One(0, x)) = IF DOMAIN x = {} THEN {} ELSE {NewEntry(0, x)}
      /\ ToSet(One(1, y)) = IF DOMAIN y = {} THEN {} ELSE {NewEntry(1, y)}
  BY OneIs
<1>2. CASE DOMAIN y = {}
  <2>1. One(1, y) = <<>> /\ ToSet(One(1, y)) = {}
    BY <1>1, <1>2 DEF One
  <2>2. One(0, x) \o <<>> = One(0, x)
    BY <1>1
  <2>3. ToSet(One(0, x)) = ToSet(One(0, x)) \cup {}
    OBVIOUS
  <2> QED BY <1>1, <2>1, <2>2, <2>3
<1>3. CASE DOMAIN y # {}
  <2> DEFINE d == NewEntry(1, y)
  <2>1. One(1, y) = <<d>> /\ d \in Entries /\ d.seq = 1
    BY <1>3, EntryIs DEF One
  <2>2. \A e \in ToSet(One(0, x)) : e.seq < d.seq
    <3>1. \A e \in ToSet(One(0, x)) : e.seq = 0
      BY <1>1, EntryIs
    <3> QED BY <2>1, <3>1
  <2>3. ToSet(One(1, y)) = {d}
    BY <1>1, <1>3
  <2> HIDE DEF d
  <2>4. One(0, x) \o <<d>> = Append(One(0, x), d)
    BY <1>1, <2>1
  <2>5. /\ Append(One(0, x), d) \in Seq(Entries) /\ Numbered(Append(One(0, x), d))
        /\ ToSet(Append(One(0, x), d)) = ToSet(One(0, x)) \cup {d}
    BY <1>1, <2>1, <2>2, NumberedAppended
  <2>6. One(0, x) \o One(1, y) = Append(One(0, x), d)
    BY <2>1, <2>4
  <2> QED BY <2>3, <2>5, <2>6
<1> QED BY <1>2, <1>3

LEMMA DerivedOK ==
    ASSUME LYTypes
    PROVE  DocsOK(DeriveLegacy)
<1>1. /\ DeriveLegacy["recorder"] \in Seq(Entries) /\ Numbered(DeriveLegacy["recorder"])
  BY DerivedIs, DerivedSets, TwoEntries
<1>2. /\ DeriveLegacy["user"] \in Seq(Entries) /\ Numbered(DeriveLegacy["user"])
  BY DerivedIs, DerivedSets, OneIs
<1>3. /\ DeriveLegacy["producer"] \in Seq(Entries) /\ Numbered(DeriveLegacy["producer"])
  BY DerivedIs, NoEntry
<1> QED BY <1>1, <1>2, <1>3, DerivedIs DEF DocsOK, LayerNames

\* One entry alone gives what it sets.
LEMMA FoldOfOne ==
    ASSUME NEW S, NEW e, NEW k \in IdKeys, Touching(S, k) = {e}, NEW layer
    PROVE  Fold(layer, S)[k] = Value(e, k)
<1>1. LastOf(layer, {e}) = e
  BY DEF LastOf
<1> QED BY <1>1, FoldIn

LEMMA DerivedSays ==
    ASSUME LYTypes, NEW k \in IdKeys
    PROVE  /\ FoldOf(DeriveLegacy, "producer", k) = Absent
           /\ FoldOf(DeriveLegacy, "user", k) = IF k \in LabelKeys THEN shown[k] ELSE Absent
           /\ k \in LabelKeys => FoldOf(DeriveLegacy, "recorder", k) = Absent
           /\ k \in MetaKeys /\ ~(k = ProducerName /\ evidence # Absent)
              => FoldOf(DeriveLegacy, "recorder", k) = shown[k]
<1> USE DEF FoldOf
<1>1. FoldOf(DeriveLegacy, "producer", k) = Absent
  <2>1. ToSet(DeriveLegacy["producer"]) = {}
    BY DerivedIs, NoEntry
  <2>2. Touching({}, k) = {}
    BY DEF Touching
  <2> QED BY <2>1, <2>2, FoldIn
<1>2. FoldOf(DeriveLegacy, "user", k) = IF k \in LabelKeys THEN shown[k] ELSE Absent
  <2> DEFINE S == ToSet(DeriveLegacy["user"])
             e == NewEntry(0, LabelSets)
  <2>1. S = IF DOMAIN LabelSets = {} THEN {} ELSE {e}
    BY DerivedIs, DerivedSets, OneIs
  <2>2. e.sets = LabelSets /\ Touched(e) = DOMAIN LabelSets
    BY DerivedSets, EntryIs
  <2> HIDE DEF S, e
  <2>3. CASE k \in DOMAIN LabelSets
    <3>1. Touching(S, k) = {e}
      BY <2>1, <2>2, <2>3 DEF Touching
    <3>2. Fold("user", S)[k] = Value(e, k)
      BY <3>1, FoldOfOne
    <3>3. Value(e, k) = shown[k] /\ k \in LabelKeys
      BY <2>2, <2>3, DerivedSets DEF Value
    <3> QED BY <3>2, <3>3 DEF S
  <2>4. CASE k \notin DOMAIN LabelSets
    <3>1. Touching(S, k) = {}
      BY <2>1, <2>2, <2>4 DEF Touching
    <3>2. Fold("user", S)[k] = Absent
      BY <3>1, FoldIn
    <3>3. k \in LabelKeys => shown[k] = Absent
      BY <2>4, DerivedSets
    <3> QED BY <3>2, <3>3 DEF S
  <2> QED BY <2>3, <2>4
<1> DEFINE S == ToSet(DeriveLegacy["recorder"])
           e == NewEntry(0, MetaSets)
           d == NewEntry(1, NameSets)
<1>3. S = (IF DOMAIN MetaSets = {} THEN {} ELSE {e}) \cup (IF DOMAIN NameSets = {} THEN {} ELSE {d})
  <2>1. S = ToSet(One(0, MetaSets)) \cup ToSet(One(1, NameSets))
    BY DerivedIs, DerivedSets, TwoEntries
  <2>2. /\ ToSet(One(0, MetaSets)) = IF DOMAIN MetaSets = {} THEN {} ELSE {e}
        /\ ToSet(One(1, NameSets)) = IF DOMAIN NameSets = {} THEN {} ELSE {d}
    BY DerivedSets, OneIs
  <2> QED BY <2>1, <2>2
<1>4. /\ e.sets = MetaSets /\ Touched(e) = DOMAIN MetaSets
      /\ Touched(d) = DOMAIN NameSets
  BY DerivedSets, EntryIs
<1> HIDE DEF S, e, d
<1>5. ASSUME k \notin DOMAIN MetaSets, k \notin DOMAIN NameSets
      PROVE  Fold("recorder", S)[k] = Absent
  <2>1. Touching(S, k) = {}
    BY <1>3, <1>4, <1>5 DEF Touching
  <2> QED BY <2>1, FoldIn
<1>6. ASSUME k \in LabelKeys PROVE FoldOf(DeriveLegacy, "recorder", k) = Absent
  <2>1. k \notin MetaKeys /\ k # ProducerName
    BY <1>6, LayersAssumption
  <2> QED BY <1>5, <2>1, DerivedSets DEF S
<1>7. ASSUME k \in MetaKeys, ~(k = ProducerName /\ evidence # Absent)
      PROVE  FoldOf(DeriveLegacy, "recorder", k) = shown[k]
  <2>1. k \notin DOMAIN NameSets
    BY <1>7, DerivedSets
  <2>2. CASE k \in DOMAIN MetaSets
    <3>1. Touching(S, k) = {e}
      BY <1>3, <1>4, <2>1, <2>2 DEF Touching
    <3>2. Fold("recorder", S)[k] = Value(e, k)
      BY <3>1, FoldOfOne
    <3>3. Value(e, k) = shown[k]
      BY <1>4, <2>2, DerivedSets DEF Value
    <3> QED BY <3>2, <3>3 DEF S
  <2>3. CASE k \notin DOMAIN MetaSets
    <3>1. shown[k] = Absent
      BY <1>7, <2>3, DerivedSets
    <3> QED BY <1>5, <2>1, <2>3, <3>1 DEF S
  <2> QED BY <2>2, <2>3
<1> QED BY <1>1, <1>2, <1>6, <1>7

-----------------------------------------------------------------------------
(***************************************************************************)
(* The edits found become an entry of the user layer.                      *)
(***************************************************************************)
LEMMA DocsAreOK ==
    ASSUME LYTypes
    PROVE  DocsOK(Docs) /\ (layered => Docs = layers) /\ (~layered => Docs = DeriveLegacy)
  BY DerivedOK DEF Docs, LYTypes

LEMMA FoundIs ==
    ASSUME LYTypes
    PROVE  /\ Found \in Sets
           /\ ~layered => DOMAIN Found = {}
           /\ layered => DOMAIN Found =
                 {k \in IdKeys :
                    /\ Present(MergedWithRemovals(layers)[k]) # Present(shown[k])
                    /\ IF k \in MetaKeys THEN MergedWithRemovals(layers)[k] # Absent
                       ELSE k = ProducerLabel => shown[k] # Absent}
           /\ \A k \in DOMAIN Found :
                 Found[k] = IF Present(shown[k]) = Absent THEN Removed ELSE shown[k]
<1>1. CASE ~layered
  <2>1. Found = <<>> /\ DOMAIN <<>> = {} /\ {} \in SUBSET IdKeys
    BY <1>1 DEF Found
  <2>2. <<>> \in [{} -> Texts \cup {Removed}]
    OBVIOUS
  <2>3. Found \in Sets
    BY <2>1, <2>2, SetsOf
  <2> QED BY <1>1, <2>1, <2>3
<1>2. CASE layered
  <2> DEFINE before == MergedWithRemovals(layers)
             changed == {k \in IdKeys :
                          /\ Present(before[k]) # Present(shown[k])
                          /\ IF k \in MetaKeys THEN before[k] # Absent
                             ELSE k = ProducerLabel => shown[k] # Absent}
  <2>1. Found = [k \in changed |-> IF Present(shown[k]) = Absent THEN Removed ELSE shown[k]]
    BY <1>2, DocsAreOK DEF Found, Drift
  <2>2. \A k \in changed : shown[k] \in Values
    BY DEF LYTypes
  <2>3. \A k \in changed : (IF Present(shown[k]) = Absent THEN Removed ELSE shown[k])
                              \in Texts \cup {Removed}
    BY <2>2, PresentTyped
  <2>4. changed \in SUBSET IdKeys
    OBVIOUS
  <2> HIDE DEF changed
  <2>5. Found \in [changed -> Texts \cup {Removed}]
    BY <2>1, <2>3
  <2>6. Found \in Sets /\ DOMAIN Found = changed
    BY <2>4, <2>5, SetsOf
  <2> QED BY <1>2, <2>1, <2>6 DEF changed
<1> QED BY <1>1, <1>2

LEMMA KeptDocsAre ==
    ASSUME LYTypes
    PROVE  /\ DocsOK(KeptDocs)
           /\ \A l \in LayerNames : l # "user" => KeptDocs[l] = Docs[l]
           /\ \A k \in IdKeys : FoldOf(KeptDocs, "user", k) =
                 IF k \in DOMAIN Found THEN Found[k] ELSE FoldOf(Docs, "user", k)
<1> DEFINE q == Docs["user"]
           e == NewEntry(NextSeq(q), Found)
<1>1. /\ DOMAIN Docs = LayerNames /\ \A l \in LayerNames : Docs[l] \in Seq(Entries) /\ Numbered(Docs[l])
      /\ q \in Seq(Entries) /\ Numbered(q) /\ "user" \in LayerNames
  BY DocsAreOK DEF DocsOK, LayerNames
<1>2. /\ NextSeq(q) \in Nat /\ \A x \in ToSet(q) : x.seq < NextSeq(q)
  BY <1>1, NextSeqIs
<1>3. /\ e \in Entries /\ e.seq = NextSeq(q) /\ e.sets = Found /\ Touched(e) = DOMAIN Found
  <2>1. Found \in Sets
    BY FoundIs
  <2> HIDE DEF q
  <2> QED BY <1>2, <2>1, EntryIs
<1>4. /\ DOMAIN KeptDocs = LayerNames /\ KeptDocs["user"] = q \o External
      /\ \A l \in LayerNames : l # "user" => KeptDocs[l] = Docs[l]
  BY <1>1 DEF KeptDocs
<1> HIDE DEF q, e
<1>5. CASE DOMAIN Found = {}
  <2>1. KeptDocs["user"] = q
    BY <1>1, <1>4, <1>5 DEF External
  <2>2. \A l \in LayerNames : KeptDocs[l] = Docs[l]
    BY <1>4, <2>1 DEF q
  <2> QED BY <1>1, <1>4, <1>5, <2>2 DEF DocsOK, FoldOf
<1>6. CASE DOMAIN Found # {}
  <2>1. KeptDocs["user"] = Append(q, e)
    BY <1>1, <1>3, <1>4, <1>6 DEF External, e, q
  <2>2. /\ Append(q, e) \in Seq(Entries) /\ Numbered(Append(q, e))
        /\ ToSet(Append(q, e)) = ToSet(q) \cup {e}
    <3>1. \A x \in ToSet(q) : x.seq < e.seq
      BY <1>2, <1>3
    <3>2. q \in Seq(Entries) /\ Numbered(q) /\ e \in Entries
      BY <1>1, <1>3
    <3> QED BY <3>1, <3>2, NumberedAppended
  <2>3. DocsOK(KeptDocs)
    <3>1. ASSUME NEW l \in LayerNames PROVE KeptDocs[l] \in Seq(Entries) /\ Numbered(KeptDocs[l])
      BY <1>1, <1>4, <2>1, <2>2
    <3> QED BY <1>4, <3>1 DEF DocsOK
  <2>4. ASSUME NEW k \in IdKeys
        PROVE  FoldOf(KeptDocs, "user", k) =
                 IF k \in DOMAIN Found THEN Found[k] ELSE FoldOf(Docs, "user", k)
    <3>1. FoldOf(KeptDocs, "user", k) = Fold("user", ToSet(q) \cup {e})[k]
      BY <2>1, <2>2 DEF FoldOf
    <3>2. CASE k \in DOMAIN Found
      <4>1. ToSet(q) \subseteq Entries /\ \A x \in ToSet(q) : x.seq < e.seq
        BY <1>1, <1>2, <1>3, SetOf
      <4>2. Fold("user", ToSet(q) \cup {e})[k] = Value(e, k)
        BY <1>3, <3>2, <4>1, UserWins
      <4> QED BY <1>3, <3>1, <3>2, <4>2 DEF Value
    <3>3. CASE k \notin DOMAIN Found
      <4>1. Fold("user", ToSet(q) \cup {e})[k] = Fold("user", ToSet(q))[k]
        BY <1>3, <3>3, FoldUntouched
      <4> QED BY <3>1, <3>3, <4>1 DEF FoldOf, q
    <3> QED BY <3>2, <3>3
  <2> QED BY <1>4, <2>3, <2>4
<1> QED BY <1>5, <1>6

LEMMA ResultIs ==
    ASSUME LYTypes, NEW layer \in LayerNames, NEW e \in Entries
    PROVE  /\ DocsOK(Result(layer, e))
           /\ \A l \in LayerNames, k \in IdKeys : l # layer \/ k \notin Touched(e) =>
                 FoldOf(Result(layer, e), l, k) = FoldOf(KeptDocs, l, k)
<1> DEFINE q == KeptDocs[layer]
           n == Added(layer, e)
           r == Result(layer, e)
<1>1. DOMAIN KeptDocs = LayerNames /\ \A l \in LayerNames : KeptDocs[l] \in Seq(Entries) /\ Numbered(KeptDocs[l])
  BY KeptDocsAre DEF DocsOK
<1>2. NextSeq(q) \in Nat /\ \A x \in ToSet(q) : x.seq < NextSeq(q)
  BY <1>1, NextSeqIs
<1>3. n \in Entries /\ n.seq = NextSeq(q) /\ Touched(n) = Touched(e)
  <2> HIDE DEF q
  <2>1. n = [e EXCEPT !.seq = NextSeq(q)]
    BY DEF Added, q
  <2> HIDE DEF n
  <2> QED BY <1>2, <2>1 DEF Entries, Touched
<1>4. /\ DOMAIN r = LayerNames /\ r[layer] = Append(q, n)
      /\ \A l \in LayerNames : l # layer => r[l] = KeptDocs[l]
  BY <1>1 DEF Result
<1> HIDE DEF q, n, r
<1>5. /\ Append(q, n) \in Seq(Entries) /\ Numbered(Append(q, n))
      /\ ToSet(Append(q, n)) = ToSet(q) \cup {n}
  <2>1. q \in Seq(Entries) /\ Numbered(q)
    BY <1>1 DEF q
  <2>2. n \in Entries /\ \A x \in ToSet(q) : x.seq < n.seq
    BY <1>2, <1>3
  <2> QED BY <2>1, <2>2, NumberedAppended
<1>6. DocsOK(r)
  <2>1. ASSUME NEW l \in LayerNames PROVE r[l] \in Seq(Entries) /\ Numbered(r[l])
    BY <1>1, <1>4, <1>5
  <2> QED BY <1>4, <2>1 DEF DocsOK
<1>7. ASSUME NEW l \in LayerNames, NEW k \in IdKeys, l # layer \/ k \notin Touched(e)
      PROVE  FoldOf(r, l, k) = FoldOf(KeptDocs, l, k)
  <2>1. CASE l # layer
    BY <1>4, <2>1 DEF FoldOf
  <2>2. CASE l = layer /\ k \notin Touched(e)
    <3>1. Fold(l, ToSet(q) \cup {n})[k] = Fold(l, ToSet(q))[k]
      BY <1>3, <2>2, FoldUntouched
    <3> QED BY <1>4, <1>5, <2>2, <3>1 DEF FoldOf, q
  <2> QED BY <1>7, <2>1, <2>2
<1> QED BY <1>6, <1>7 DEF r

-----------------------------------------------------------------------------
(***************************************************************************)
(* What is shown after an append, at one key.                              *)
(***************************************************************************)
LEMMA ShownAt ==
    ASSUME NEW before, NEW docs, NEW k \in IdKeys
    PROVE  Shown(before, docs)[k] =
              IF \/ k \in LabelKeys \/ Merged(docs)[k] # Absent \/ before[k] # Absent
                 \/ MergedWithRemovals(docs)[k] = Removed
              THEN Merged(docs)[k] ELSE shown[k]
  BY DEF Shown

\* An edit that was found wins over every layer, and over what the append
\* adds to another one.
LEMMA FoundSurvives ==
    ASSUME LYTypes, NEW layer \in LayerNames, NEW e \in Entries, NEW k \in DOMAIN Found,
           k \in IdKeys, layer # "user" \/ k \notin Touched(e)
    PROVE  Merged(Result(layer, e))[k] = Present(shown[k])
<1> DEFINE R == Result(layer, e)
<1>1. "user" \in LayerNames
  BY DEF LayerNames
<1>2. FoldOf(R, "user", k) = FoldOf(KeptDocs, "user", k)
  BY <1>1, ResultIs
<1>3. FoldOf(KeptDocs, "user", k) = Found[k]
  BY KeptDocsAre
<1>4. Found[k] = IF Present(shown[k]) = Absent THEN Removed ELSE shown[k]
  BY FoundIs
<1>5. shown[k] \in Values
  BY DEF LYTypes
<1>6. Found[k] # Absent /\ Present(Found[k]) = Present(shown[k])
  BY <1>4, <1>5, PresentTyped, LayersAssumption DEF Present
<1> HIDE DEF R
<1>7. Said(R, k) = Found[k]
  BY <1>2, <1>3, <1>6 DEF Said
<1>8. MergedWithRemovals(R)[k] = Said(R, k)
  BY <1>6, <1>7, MergedAt
<1> QED BY <1>6, <1>7, <1>8, MergedAt DEF R

\* A key the append does not touch, and that nobody edited, is merged as before.
LEMMA UntouchedIsSaid ==
    ASSUME LYTypes, NEW layer \in LayerNames, NEW e \in Entries, NEW k \in IdKeys,
           k \notin DOMAIN Found, k \notin Touched(e)
    PROVE  Said(Result(layer, e), k) = Said(Docs, k)
<1> DEFINE R == Result(layer, e)
<1>1. \A l \in LayerNames : FoldOf(R, l, k) = FoldOf(KeptDocs, l, k)
  BY ResultIs
<1>2. \A l \in LayerNames : FoldOf(KeptDocs, l, k) = FoldOf(Docs, l, k)
  <2>1. FoldOf(KeptDocs, "user", k) = FoldOf(Docs, "user", k)
    BY KeptDocsAre
  <2>2. ASSUME NEW l \in LayerNames, l # "user" PROVE FoldOf(KeptDocs, l, k) = FoldOf(Docs, l, k)
    BY <2>2, KeptDocsAre DEF FoldOf
  <2> QED BY <2>1, <2>2
<1> HIDE DEF R
<1>3. /\ FoldOf(R, "user", k) = FoldOf(Docs, "user", k)
      /\ FoldOf(R, "producer", k) = FoldOf(Docs, "producer", k)
      /\ FoldOf(R, "recorder", k) = FoldOf(Docs, "recorder", k)
  BY <1>1, <1>2 DEF LayerNames
<1>4. Said(R, k) = Said(Docs, k)
  BY <1>3 DEF Said
<1> QED BY <1>4 DEF R

\* What a source showed before it had layers is what they say.
LEMMA LegacyIsSaid ==
    ASSUME LYTypes, ~layered, NEW k \in IdKeys, ~(k = ProducerName /\ evidence # Absent)
    PROVE  Present(Said(Docs, k)) = Present(shown[k]) /\ (k \in LabelKeys => Said(Docs, k) = shown[k])
<1>1. Docs = DeriveLegacy
  BY DocsAreOK
<1>2. /\ shown[k] \in Values
      /\ Present(shown[k]) \in Values /\ Present(Present(shown[k])) = Present(shown[k])
      /\ Present(Absent) = Absent
  <2>1. shown[k] \in Values
    BY DEF LYTypes
  <2> QED BY <2>1, PresentTyped
<1>3. CASE k \in LabelKeys
  <2>1. /\ FoldOf(Docs, "user", k) = shown[k] /\ FoldOf(Docs, "producer", k) = Absent
        /\ FoldOf(Docs, "recorder", k) = Absent
    BY <1>1, <1>3, DerivedSays
  <2>2. Said(Docs, k) = shown[k]
    BY <1>2, <2>1 DEF Said
  <2> QED BY <2>2
<1>4. CASE k \in MetaKeys /\ k \notin LabelKeys
  <2>1. /\ FoldOf(Docs, "user", k) = Absent /\ FoldOf(Docs, "producer", k) = Absent
        /\ FoldOf(Docs, "recorder", k) = shown[k]
    BY <1>1, <1>4, DerivedSays
  <2>2. Said(Docs, k) = Present(shown[k])
    BY <1>2, <2>1 DEF Said
  <2> QED BY <1>2, <1>4, <2>2
<1> QED BY <1>3, <1>4 DEF IdKeys

LEMMA AppendKeeps ==
    ASSUME LYTypes, NEW layer \in LayerNames, NEW e \in Entries, NEW k \in IdKeys,
           k \notin Touched(e) \/ (layer # "user" /\ Edited(k)),
           k = ProducerLabel => shown[k] # Absent /\ Present(shown[k]) # Merged(layers)[k],
           ~(k = ProducerName /\ ~layered /\ evidence # Absent)
    PROVE  Present(Shown(Merged(Docs), Result(layer, e))[k]) = Present(shown[k])
<1> DEFINE R == Result(layer, e)
           after == Merged(R)[k]
<1>1. shown[k] \in Values /\ Present(Present(shown[k])) = Present(shown[k])
  <2>1. shown[k] \in Values
    BY DEF LYTypes
  <2> QED BY <2>1, PresentTyped
<1>2. Shown(Merged(Docs), R)[k] = after \/ Shown(Merged(Docs), R)[k] = shown[k]
  BY ShownAt
<1> HIDE DEF R, after
<1>3. SUFFICES ASSUME Shown(Merged(Docs), R)[k] # shown[k]
               PROVE  Present(after) = Present(shown[k])
  BY <1>2 DEF R
<1>4. CASE k \in DOMAIN Found
  <2>1. layer # "user" \/ k \notin Touched(e)
    OBVIOUS
  <2>2. after = Present(shown[k])
    BY <1>4, <2>1, FoundSurvives DEF after, R
  <2> QED BY <1>1, <2>2
<1>5. ASSUME layered, k \notin DOMAIN Found
      PROVE  /\ k \notin Touched(e) /\ k # ProducerLabel
             /\ \/ Present(MergedWithRemovals(layers)[k]) = Present(shown[k])
                \/ k \in MetaKeys /\ MergedWithRemovals(layers)[k] = Absent
  <2> DEFINE m == MergedWithRemovals(layers)[k]
  <2>1. Merged(layers)[k] = Present(m)
    BY MergedAt
  <2>2. \/ Present(m) = Present(shown[k])
        \/ k \in MetaKeys /\ m = Absent
        \/ k \notin MetaKeys /\ k = ProducerLabel /\ shown[k] = Absent
    BY <1>5, FoundIs
  <2> HIDE DEF m
  <2>3. k # ProducerLabel
    <3>1. k = ProducerLabel => k \notin MetaKeys
      BY LayersAssumption
    <3> QED BY <2>1, <2>2, <3>1
  <2>4. k \notin Touched(e)
    BY <2>1, <2>2, <2>3 DEF Edited, m
  <2> QED BY <2>2, <2>3, <2>4 DEF m
<1>6. CASE layered /\ k \notin DOMAIN Found
  <2>1. Docs = layers
    BY <1>6, DocsAreOK
  <2>2. Said(R, k) = Said(layers, k)
    BY <1>5, <1>6, <2>1, UntouchedIsSaid DEF R
  <2>3. /\ MergedWithRemovals(R)[k] = MergedWithRemovals(layers)[k]
        /\ after = Present(MergedWithRemovals(layers)[k])
        /\ Merged(layers)[k] = Present(MergedWithRemovals(layers)[k])
    BY <1>5, <1>6, <2>2, MergedAt DEF after
  <2>4. CASE Present(MergedWithRemovals(layers)[k]) = Present(shown[k])
    BY <1>1, <2>3, <2>4
  <2>5. CASE k \in MetaKeys /\ MergedWithRemovals(layers)[k] = Absent
    <3>1. Absent # Removed /\ Present(Absent) = Absent /\ k \notin LabelKeys
      BY <2>5, LayersAssumption DEF Present
    <3>2. Merged(Docs)[k] = Absent /\ after = Absent
      BY <2>1, <2>3, <2>5, <3>1
    <3>3. Shown(Merged(Docs), R)[k] = shown[k]
      BY <2>3, <2>5, <3>1, <3>2, ShownAt DEF after
    <3> QED BY <1>3, <3>3
  <2> QED BY <1>5, <1>6, <2>4, <2>5
<1>7. CASE ~layered
  <2>1. DOMAIN Found = {} /\ k \notin Touched(e)
    BY <1>7, FoundIs DEF Edited
  <2>2. Said(R, k) = Said(Docs, k)
    BY <2>1, UntouchedIsSaid DEF R
  <2>3. /\ Present(Said(Docs, k)) = Present(shown[k])
        /\ k \in LabelKeys => Said(Docs, k) = shown[k]
    BY <1>7, LegacyIsSaid
  <2>4. MergedWithRemovals(R)[k] = Said(R, k)
    <3>1. k = ProducerLabel => Said(R, k) # Absent
      BY <2>2, <2>3, LayersAssumption
    <3> QED BY <3>1, MergedAt
  <2>5. after = Present(shown[k])
    BY <2>2, <2>3, <2>4, MergedAt DEF after
  <2> QED BY <1>1, <2>5
<1> QED BY <1>4, <1>6, <1>7

LEMMA ShownTyped ==
    ASSUME LYTypes, NEW docs, DocsOK(docs), NEW before
    PROVE  Shown(before, docs) \in [IdKeys -> Values]
<1>1. ASSUME NEW k \in IdKeys PROVE Shown(before, docs)[k] \in Values
  <2>1. shown[k] \in Values /\ Merged(docs)[k] \in Values
    BY MergedTyped DEF LYTypes
  <2> QED BY <2>1, ShownAt
<1>2. Shown(before, docs) = [k \in IdKeys |-> Shown(before, docs)[k]]
  BY DEF Shown
<1> QED BY <1>1, <1>2

LEMMA LYTypesInit ==
    ASSUME LYInit
    PROVE  LYTypes
<1>1. DocsOK(layers)
  <2>1. DOMAIN layers = LayerNames /\ \A l \in LayerNames : layers[l] = <<>>
    BY DEF LYInit
  <2> QED BY <2>1, NoEntry DEF DocsOK
<1>2. shown \in [IdKeys -> Values] /\ evidence \in Texts \cup {Absent}
  BY DEF LYInit, Values
<1>3. layered = FALSE /\ \A l \in LayerNames : layers[l] = <<>>
  BY DEF LYInit
<1>4. DOMAIN history = HistoryFields
  BY DEF LYInit, HistoryFields
<1> QED BY <1>1, <1>2, <1>3, <1>4 DEF LYTypes

LEMMA AppendTyped ==
    ASSUME LYTypes, NEW layer \in LayerNames, NEW e \in Entries, AppendEntry(layer, e)
    PROVE  LYTypes'
<1>1. DOMAIN history' = HistoryFields /\ evidence' = evidence
  BY AppendIs
<1>2. CASE layers' = layers /\ layered' = layered /\ shown' = shown
  BY <1>1, <1>2 DEF LYTypes, DocsOK
<1>3. CASE /\ layers' = Result(layer, e) /\ layered' = TRUE
           /\ shown' = Shown(Merged(Docs), Result(layer, e))
  <2>1. DocsOK(Result(layer, e))
    BY ResultIs
  <2>2. Shown(Merged(Docs), Result(layer, e)) \in [IdKeys -> Values]
    BY <2>1, ShownTyped
  <2>3. DocsOK(layers')
    BY <1>3, <2>1
  <2>4. shown' \in [IdKeys -> Values]
    BY <1>3, <2>2
  <2> QED BY <1>1, <1>3, <2>3, <2>4 DEF LYTypes, DocsOK
<1> QED BY <1>2, <1>3, AppendIs

LEMMA LYTypesStep ==
    ASSUME LYTypes, [LYNext]_lyvars
    PROVE  LYTypes'
<1>1. CASE Declare
  <2>1. PICK e \in Declarations : AppendEntry("producer", e)
    BY <1>1 DEF Declare
  <2> QED BY <2>1, AppendTyped, LayersAssumption DEF LayerNames
<1>2. CASE Annotate
  <2>1. PICK layer \in LayerNames, e \in Assertions : AppendEntry(layer, e)
    BY <1>2 DEF Annotate
  <2> QED BY <2>1, AppendTyped, LayersAssumption
<1>3. CASE EditOutside
  <2>1. PICK k \in IdKeys, v \in Texts \cup {Removed, Absent} : EditShown(k, v)
    BY <1>3 DEF EditOutside
  <2>2. /\ layers' = layers /\ layered' = layered /\ evidence' = evidence
        /\ shown' = [shown EXCEPT ![k] = v]
    BY <2>1 DEF EditShown
  <2>3. DOMAIN history' = HistoryFields
    BY <2>1 DEF EditShown, LYTypes
  <2>4. shown' \in [IdKeys -> Values]
    BY <2>2 DEF LYTypes, Values
  <2> QED BY <2>2, <2>3, <2>4 DEF LYTypes, DocsOK
<1>4. CASE UNCHANGED lyvars
  BY <1>4 DEF lyvars, LYTypes, DocsOK
<1> QED BY <1>1, <1>2, <1>3, <1>4 DEF LYNext

\* The action of EditsSurvive.
Survives ==
    layers' # layers =>
        \A k \in IdKeys :
            /\ \/ k \notin history'.touched
               \/ history'.layer # "user" /\ Edited(k)
            /\ k = ProducerLabel => shown[k] # Absent /\ Present(shown[k]) # Merged(layers)[k]
            /\ ~(k = ProducerName /\ ~layered /\ evidence # Absent)
            => Present(shown'[k]) = Present(shown[k])

LEMMA AppendSurvives ==
    ASSUME LYTypes, NEW layer \in LayerNames, NEW e \in Entries, AppendEntry(layer, e)
    PROVE  Survives
<1> SUFFICES ASSUME layers' # layers, NEW k \in IdKeys,
                    k \notin history'.touched \/ (history'.layer # "user" /\ Edited(k)),
                    k = ProducerLabel =>
                        shown[k] # Absent /\ Present(shown[k]) # Merged(layers)[k],
                    ~(k = ProducerName /\ ~layered /\ evidence # Absent)
             PROVE  Present(shown'[k]) = Present(shown[k])
  BY DEF Survives
<1>1. history'.touched = Touched(e) /\ history'.layer = layer
      /\ shown' = Shown(Merged(Docs), Result(layer, e))
  BY AppendIs
<1>2. k \notin Touched(e) \/ (layer # "user" /\ Edited(k))
  BY <1>1
<1>3. Present(Shown(Merged(Docs), Result(layer, e))[k]) = Present(shown[k])
  BY <1>2, AppendKeeps
<1> QED BY <1>1, <1>3

LEMMA SurvivesStep ==
    ASSUME LYTypes, [LYNext]_lyvars
    PROVE  Survives
<1>1. CASE Declare
  <2>1. PICK e \in Declarations : AppendEntry("producer", e)
    BY <1>1 DEF Declare
  <2> QED BY <2>1, AppendSurvives, LayersAssumption DEF LayerNames
<1>2. CASE Annotate
  <2>1. PICK layer \in LayerNames, e \in Assertions : AppendEntry(layer, e)
    BY <1>2 DEF Annotate
  <2> QED BY <2>1, AppendSurvives, LayersAssumption
<1>3. CASE EditOutside
  BY <1>3 DEF EditOutside, EditShown, Survives
<1>4. CASE UNCHANGED lyvars
  BY <1>4 DEF lyvars, Survives
<1> QED BY <1>1, <1>2, <1>3, <1>4 DEF LYNext

(***************************************************************************)
(* An append leaves what a source shows under every key it does not touch, *)
(* and one of a producer or recorder also under the keys that a person     *)
(* edited, as it found it: for any keys, texts and entries and whatever    *)
(* was edited outside the layers, before there were layers too.  It is the *)
(* drift that append records before its own entry, and what derive_legacy  *)
(* makes of a source that has none.                                        *)
(***************************************************************************)
THEOREM EditsAreKept == LYSpec => EditsSurvive
<1>1. LYInit => LYTypes
  BY LYTypesInit
<1>2. LYTypes /\ [LYNext]_lyvars => LYTypes'
  BY LYTypesStep
<1>3. LYTypes /\ [LYNext]_lyvars => [Survives]_lyvars
  BY SurvivesStep
<1>4. EditsSurvive <=> [][Survives]_lyvars
  BY DEF EditsSurvive, Survives
<1> QED BY <1>1, <1>2, <1>3, <1>4, PTL DEF LYSpec
=============================================================================
