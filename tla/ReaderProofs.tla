---------------------------- MODULE ReaderProofs ----------------------------
(***************************************************************************)
(* Theorems about the readers of an archive.                               *)
(*                                                                         *)
(* Of BlockCaches, for any keys, types, sizes, readers and budget: each    *)
(* cache counts what it holds and keeps its budget.  It rests on what one  *)
(* entry taken out, put last or dropped does to the bytes added up, and on *)
(* the pool being the tail of the keys used.                               *)
(*                                                                         *)
(* Of LiveReader, for any tenants, any number of rows, changes and         *)
(* readers, any cache size and any ranges: what has_row_in answers is      *)
(* true, an open reader's state is the one a fresh fold gives, and a query *)
(* returns what its reader lists and the archive still has, exactly.  It   *)
(* rests, beside the invariant of each part, on the segments being         *)
(* adjacent and only becoming coarser (Follows), so that a segment that is *)
(* gone stays gone, and a listed one is fetched whole or not at all; on an *)
(* entry of the catalog being about the rows listed at its place           *)
(* (EntryOK); and on what one reader passes on to the next being of        *)
(* segments that have a number, with the labels of all its series          *)
(* (Carries).                                                              *)
(*                                                                         *)
(* Of SplicedReads, for any tables, relabellings, queries and chunk sizes: *)
(* a series holds the same samples whichever way it is read, and what a    *)
(* chunk says of the chunks after it is so.  It rests on FlattenSeq being  *)
(* a joining piece by piece, on what an enumeration of a set is, on the    *)
(* samples of two sets of places, one before the other, being those of     *)
(* both together (SamplesAtSplit), and on a scan having read exactly the   *)
(* planned segments before its next one (SRInv).                           *)
(*                                                                         *)
(* Of BatchedUnion, for any scenes, segment widths and chunk sizes: a      *)
(* batched read that finishes has found every row two sources hold at one  *)
(* time with different values, and no other.  It rests on what each of its *)
(* loops passes through, on the rows of a source being in order            *)
(* (WithinIs), and on a row that one source has read and another still can *)
(* being held (Compared, UInv).                                            *)
(***************************************************************************)
EXTENDS LiveReader, BlockCaches, SplicedReads, BatchedUnion, SequenceTheorems,
        FiniteSetTheorems, WellFoundedInduction, TLAPS

LEMMA LeastExists ==
    ASSUME NEW T, T \subseteq Nat, T # {}
    PROVE  \E m \in T : \A k \in T : m <= k
<1> DEFINE R == {p \in Nat \X Nat : p[1] < p[2]}
<1>1. R \cap (Nat \X Nat) \subseteq OpToRel(<, Nat)
  BY DEF OpToRel
<1>2. IsWellFoundedOn(R, Nat)
  BY <1>1, NatLessThanWellFounded, IsWellFoundedOnSubrelation
<1>3. PICK m \in T : \A k \in T : ~(<<k, m>> \in R)
  BY <1>2, WFMin
<1>4. ASSUME NEW k \in T PROVE m <= k
  <2>1. ~(k < m)
    BY <1>3
  <2> QED BY <2>1
<1> QED BY <1>4

LEMMA UpTo ==
    ASSUME NEW n \in Nat, NEW S, 0 \in S,
           \A i \in Nat : i < n /\ i \in S => i + 1 \in S
    PROVE  \A i \in 0..n : i \in S
<1> DEFINE T == {i \in 0..n : i \notin S}
<1> SUFFICES ASSUME T # {} PROVE FALSE
  OBVIOUS
<1>1. PICK m \in T : \A k \in T : m <= k
  <2>1. T \subseteq Nat
    OBVIOUS
  <2> HIDE DEF T
  <2> QED BY <2>1, LeastExists
<1>2. m # 0 /\ m \in 0..n /\ m - 1 \in Nat /\ m - 1 < n
  BY <1>1
<1>3. m - 1 \notin T
  BY <1>1, <1>2
<1>4. m - 1 \in S
  BY <1>2, <1>3
<1>5. (m - 1) + 1 \in S
  BY <1>2, <1>4
<1> QED BY <1>1, <1>2, <1>5

-----------------------------------------------------------------------------
(***************************************************************************)
(* The bytes of a cache's entries, added up from the oldest.               *)
(***************************************************************************)
CachedEntry == [key : BlockKeys, type : Types \cup {0}, size : Nat]

\* h adds up the first n of the entries s, for every n up to m.
AddsUp(h, s, m) ==
    /\ h \in [0..m -> Nat] /\ h[0] = 0
    /\ \A i \in 1..m : h[i] = h[i - 1] + s[i].size

LEMMA EntriesOf ==
    ASSUME NEW s \in Seq(CachedEntry)
    PROVE  /\ Len(s) \in Nat /\ DOMAIN s = 1..Len(s)
           /\ \A i \in 1..Len(s) : s[i] \in CachedEntry /\ s[i].size \in Nat
<1>1. \A e \in CachedEntry : e.size \in Nat
  BY DEF CachedEntry
<1>2. \A i \in 1..Len(s) : s[i] \in CachedEntry
  BY ElementOfSeq
<1>3. Len(s) \in Nat /\ DOMAIN s = 1..Len(s)
  BY LenProperties
<1> QED BY <1>1, <1>2, <1>3

LEMMA AddsExist ==
    ASSUME NEW s \in Seq(CachedEntry)
    PROVE  \E h : AddsUp(h, s, Len(s))
<1> DEFINE L == Len(s)
           S == {n \in 0..L : \E h : AddsUp(h, s, n)}
<1>1. L \in Nat /\ \A i \in 1..L : s[i].size \in Nat
  BY EntriesOf
<1> HIDE DEF L
<1>2. 0 \in S
  <2>1. AddsUp([i \in 0..0 |-> 0], s, 0)
    BY DEF AddsUp
  <2> QED BY <1>1, <2>1
<1>3. ASSUME NEW n \in Nat, n < L, n \in S PROVE n + 1 \in S
  <2>1. PICK h : AddsUp(h, s, n)
    BY <1>3
  <2> DEFINE g == [i \in 0..(n + 1) |-> IF i = n + 1 THEN h[n] + s[n + 1].size ELSE h[i]]
  <2>2. s[n + 1].size \in Nat /\ h[n] \in Nat
    BY <1>1, <1>3, <2>1 DEF AddsUp
  <2>3. g \in [0..(n + 1) -> Nat] /\ g[0] = 0
    BY <1>3, <2>1, <2>2 DEF AddsUp
  <2>4. ASSUME NEW i \in 1..(n + 1) PROVE g[i] = g[i - 1] + s[i].size
    <3>1. CASE i = n + 1
      BY <1>3, <3>1
    <3>2. CASE i # n + 1
      <4>1. i \in 1..n /\ i - 1 \in 0..n /\ i - 1 # n + 1
        BY <1>3, <3>2
      <4> QED BY <2>1, <4>1 DEF AddsUp
    <3> QED BY <3>1, <3>2
  <2>5. AddsUp(g, s, n + 1)
    BY <2>3, <2>4 DEF AddsUp
  <2> QED BY <1>1, <1>3, <2>5
<1>4. \A n \in 0..L : n \in S
  <2> HIDE DEF S
  <2> QED BY <1>1, <1>2, <1>3, UpTo
<1> QED BY <1>1, <1>4 DEF L

LEMMA AddsAreOne ==
    ASSUME NEW s, NEW m \in Nat, NEW g, NEW h, AddsUp(g, s, m), AddsUp(h, s, m)
    PROVE  \A i \in 0..m : g[i] = h[i]
<1> DEFINE S == {n \in 0..m : g[n] = h[n]}
<1>1. 0 \in S
  BY DEF AddsUp
<1>2. ASSUME NEW n \in Nat, n < m, n \in S PROVE n + 1 \in S
  <2>1. n + 1 \in 1..m /\ (n + 1) - 1 = n /\ n + 1 \in 0..m
    BY <1>2
  <2> QED BY <1>2, <2>1 DEF AddsUp
<1>3. \A n \in 0..m : n \in S
  <2> HIDE DEF S
  <2> QED BY <1>1, <1>2, UpTo
<1> QED BY <1>3

Sums(s) ==
    CHOOSE g : g = [i \in 0..Len(s) |-> IF i = 0 THEN 0 ELSE g[i - 1] + s[i].size]

LEMMA BytesAreSums ==
    ASSUME NEW s, NEW n
    PROVE  BytesOf(s, n) = Sums(s)[n]
  BY DEF BytesOf, Sums

LEMMA SumsAdd ==
    ASSUME NEW s \in Seq(CachedEntry)
    PROVE  AddsUp(Sums(s), s, Len(s)) /\ Len(s) \in Nat
<1> DEFINE L == Len(s)
           Body(g) == [i \in 0..L |-> IF i = 0 THEN 0 ELSE g[i - 1] + s[i].size]
<1>1. L \in Nat
  BY LenProperties
<1>2. PICK h : AddsUp(h, s, L)
  BY AddsExist
<1>3. Sums(s) = CHOOSE g : g = Body(g)
  BY DEF Sums
<1>4. h = Body(h)
  <2> HIDE DEF L
  <2>1. \A i \in 0..L : i # 0 => i \in 1..L
    BY <1>1
  <2> QED BY <1>2, <2>1 DEF AddsUp
<1> HIDE DEF Body
<1>5. Sums(s) = Body(Sums(s))
  BY <1>3, <1>4
<1>6. /\ Sums(s) = [i \in 0..L |-> Sums(s)[i]]
      /\ \A i \in 0..L : Sums(s)[i] = IF i = 0 THEN 0 ELSE Sums(s)[i - 1] + s[i].size
  BY <1>5 DEF Body
<1> DEFINE S == {n \in 0..L : Sums(s)[n] = h[n]}
<1> HIDE DEF L
<1>7. 0 \in S
  <2>1. 0 \in 0..L /\ h[0] = 0
    BY <1>1, <1>2 DEF AddsUp
  <2>2. Sums(s)[0] = 0
    BY <1>6, <2>1
  <2> QED BY <2>1, <2>2
<1>8. ASSUME NEW n \in Nat, n < L, n \in S PROVE n + 1 \in S
  <2>1. n + 1 \in 1..L /\ (n + 1) - 1 = n /\ n + 1 \in 0..L /\ n + 1 # 0
    BY <1>1, <1>8
  <2>2. Sums(s)[n + 1] = Sums(s)[n] + s[n + 1].size
    BY <1>6, <2>1
  <2>3. h[n + 1] = h[n] + s[n + 1].size
    BY <1>2, <2>1 DEF AddsUp
  <2> QED BY <1>8, <2>1, <2>2, <2>3
<1>9. \A n \in 0..L : n \in S
  <2> HIDE DEF S
  <2> QED BY <1>1, <1>7, <1>8, UpTo
<1>10. Sums(s) = h
  BY <1>2, <1>6, <1>9 DEF AddsUp
<1> QED BY <1>1, <1>2, <1>10 DEF L

LEMMA BytesStep ==
    ASSUME NEW s \in Seq(CachedEntry)
    PROVE  /\ Len(s) \in Nat /\ BytesOf(s, 0) = 0
           /\ \A n \in 0..Len(s) : BytesOf(s, n) \in Nat
           /\ \A n \in 1..Len(s) : BytesOf(s, n) = BytesOf(s, n - 1) + s[n].size
           /\ \A n \in 1..Len(s) : s[n] \in CachedEntry /\ s[n].size \in Nat
<1> DEFINE L == Len(s)
<1>1. AddsUp(Sums(s), s, L) /\ L \in Nat
  BY SumsAdd
<1>2. \A n \in 1..L : s[n] \in CachedEntry /\ s[n].size \in Nat
  BY EntriesOf
<1> HIDE DEF L
<1>3. BytesOf(s, 0) = 0 /\ \A n \in 0..L : BytesOf(s, n) \in Nat
  BY <1>1, BytesAreSums DEF AddsUp
<1>4. \A n \in 1..L : BytesOf(s, n) = BytesOf(s, n - 1) + s[n].size
  BY <1>1, BytesAreSums DEF AddsUp
<1> QED BY <1>1, <1>2, <1>3, <1>4 DEF L

\* What adds up the entries is their bytes.
LEMMA BytesAre ==
    ASSUME NEW s \in Seq(CachedEntry), NEW h, AddsUp(h, s, Len(s))
    PROVE  \A n \in 0..Len(s) : BytesOf(s, n) = h[n]
<1>1. AddsUp(Sums(s), s, Len(s)) /\ Len(s) \in Nat
  BY SumsAdd
<1>2. \A i \in 0..Len(s) : Sums(s)[i] = h[i]
  BY <1>1, AddsAreOne
<1> QED BY <1>2, BytesAreSums

-----------------------------------------------------------------------------
(***************************************************************************)
(* Sequences without an element, and without the first ones.               *)
(***************************************************************************)
LEMMA RemoveAtIs ==
    ASSUME NEW U, NEW s \in Seq(U), NEW p \in 1..Len(s)
    PROVE  /\ RemoveAt(s, p) \in Seq(U) /\ Len(RemoveAt(s, p)) = Len(s) - 1
           /\ \A i \in 1..(Len(s) - 1) : RemoveAt(s, p)[i] = IF i < p THEN s[i] ELSE s[i + 1]
<1> DEFINE n == Len(s)
           a == SubSeq(s, 1, p - 1)
           b == SubSeq(s, p + 1, n)
<1>1. n \in Nat /\ p \in Nat /\ 1 <= p /\ p <= n /\ \A i \in 1..n : s[i] \in U
  BY LenProperties, ElementOfSeq
<1>2. RemoveAt(s, p) = a \o b
  BY DEF RemoveAt
<1> HIDE DEF n
<1>3. /\ a \in Seq(U) /\ Len(a) = p - 1
      /\ \A i \in 1..(p - 1) : a[i] = s[i]
  <2>1. \A i \in 1..(p - 1) : s[i] \in U
    BY <1>1
  <2>2. /\ a \in Seq(U) /\ Len(a) = IF 1 <= p - 1 THEN (p - 1) - 1 + 1 ELSE 0
        /\ \A i \in 1..((p - 1) - 1 + 1) : a[i] = s[1 + i - 1]
    BY <1>1, <2>1, SubSeqProperties
  <2> HIDE DEF a
  <2>3. Len(a) = p - 1
    BY <1>1, <2>2
  <2>4. \A i \in 1..(p - 1) : i \in 1..((p - 1) - 1 + 1) /\ 1 + i - 1 = i
    BY <1>1
  <2> QED BY <2>2, <2>3, <2>4
<1>4. /\ b \in Seq(U) /\ Len(b) = n - p
      /\ \A i \in 1..(n - p) : b[i] = s[p + i]
  <2>1. \A i \in (p + 1)..n : s[i] \in U
    BY <1>1
  <2>2. /\ b \in Seq(U) /\ Len(b) = IF p + 1 <= n THEN n - (p + 1) + 1 ELSE 0
        /\ \A i \in 1..(n - (p + 1) + 1) : b[i] = s[(p + 1) + i - 1]
    BY <1>1, <2>1, SubSeqProperties
  <2> HIDE DEF b
  <2>3. Len(b) = n - p
    BY <1>1, <2>2
  <2>4. \A i \in 1..(n - p) : i \in 1..(n - (p + 1) + 1) /\ (p + 1) + i - 1 = p + i
    BY <1>1
  <2> QED BY <2>2, <2>3, <2>4
<1> HIDE DEF a, b
<1>5. /\ a \o b \in Seq(U) /\ Len(a \o b) = Len(a) + Len(b)
      /\ \A i \in 1..(Len(a) + Len(b)) :
            (a \o b)[i] = IF i <= Len(a) THEN a[i] ELSE b[i - Len(a)]
  BY <1>3, <1>4, ConcatProperties
<1>6. ASSUME NEW i \in 1..(n - 1) PROVE (a \o b)[i] = IF i < p THEN s[i] ELSE s[i + 1]
  <2>1. i \in 1..(Len(a) + Len(b))
    BY <1>1, <1>3, <1>4
  <2>2. CASE i < p
    <3>1. i <= Len(a) /\ i \in 1..(p - 1)
      BY <1>1, <1>3, <2>2
    <3> QED BY <1>3, <1>5, <2>1, <2>2, <3>1
  <2>3. CASE ~(i < p)
    <3>1. ~(i <= Len(a)) /\ i - Len(a) \in 1..(n - p) /\ p + (i - Len(a)) = i + 1
      BY <1>1, <1>3, <2>3
    <3> QED BY <1>4, <1>5, <2>1, <2>3, <3>1
  <2> QED BY <2>2, <2>3
<1>7. Len(a) + Len(b) = n - 1
  BY <1>1, <1>3, <1>4
<1> QED BY <1>2, <1>5, <1>6, <1>7 DEF n

LEMMA DroppedIs ==
    ASSUME NEW U, NEW s \in Seq(U), NEW p \in 0..Len(s)
    PROVE  /\ SubSeq(s, p + 1, Len(s)) \in Seq(U)
           /\ Len(SubSeq(s, p + 1, Len(s))) = Len(s) - p
           /\ \A i \in 1..(Len(s) - p) : SubSeq(s, p + 1, Len(s))[i] = s[p + i]
<1> DEFINE n == Len(s)
           b == SubSeq(s, p + 1, n)
<1>1. n \in Nat /\ p \in Nat /\ p <= n /\ \A i \in 1..n : s[i] \in U
  BY LenProperties, ElementOfSeq
<1> HIDE DEF n
<1>2. \A i \in (p + 1)..n : s[i] \in U
  BY <1>1
<1>3. /\ b \in Seq(U) /\ Len(b) = IF p + 1 <= n THEN n - (p + 1) + 1 ELSE 0
      /\ \A i \in 1..(n - (p + 1) + 1) : b[i] = s[(p + 1) + i - 1]
  BY <1>1, <1>2, SubSeqProperties
<1> HIDE DEF b
<1>4. Len(b) = n - p
  BY <1>1, <1>3
<1>5. \A i \in 1..(n - p) : i \in 1..(n - (p + 1) + 1) /\ (p + 1) + i - 1 = p + i
  BY <1>1
<1> QED BY <1>3, <1>4, <1>5 DEF b, n

-----------------------------------------------------------------------------
(***************************************************************************)
(* What the operations on a cache do to its bytes.                         *)
(***************************************************************************)
LEMMA BytesRise ==
    ASSUME NEW s \in Seq(CachedEntry), NEW i \in 0..Len(s), NEW j \in 0..Len(s), i <= j
    PROVE  BytesOf(s, i) <= BytesOf(s, j)
<1> DEFINE n == Len(s)
           S == {k \in 0..n : k >= i => BytesOf(s, i) <= BytesOf(s, k)}
<1>1. /\ n \in Nat /\ \A k \in 0..n : BytesOf(s, k) \in Nat
      /\ \A k \in 1..n : BytesOf(s, k) = BytesOf(s, k - 1) + s[k].size /\ s[k].size \in Nat
  BY BytesStep
<1> HIDE DEF n
<1>2. 0 \in S
  BY <1>1 DEF n
<1>3. ASSUME NEW k \in Nat, k < n, k \in S PROVE k + 1 \in S
  <2>1. k + 1 \in 1..n /\ k + 1 \in 0..n /\ (k + 1) - 1 = k /\ k \in 0..n
    BY <1>1, <1>3
  <2>2. BytesOf(s, k + 1) = BytesOf(s, k) + s[k + 1].size /\ s[k + 1].size \in Nat
    BY <1>1, <2>1
  <2>3. BytesOf(s, k) <= BytesOf(s, k + 1)
    BY <1>1, <2>1, <2>2
  <2>4. CASE k + 1 = i
    BY <1>1, <2>1, <2>4
  <2>5. CASE k + 1 # i
    <3>1. k + 1 >= i => BytesOf(s, i) <= BytesOf(s, k)
      BY <1>3, <2>5 DEF n
    <3>2. i \in 0..n
      BY DEF n
    <3>3. BytesOf(s, i) \in Nat /\ BytesOf(s, k) \in Nat /\ BytesOf(s, k + 1) \in Nat
      BY <1>1, <2>1, <3>2
    <3> QED BY <2>1, <2>3, <3>1, <3>3
  <2> QED BY <2>4, <2>5
<1>4. \A k \in 0..n : k \in S
  <2> HIDE DEF S
  <2> QED BY <1>1, <1>2, <1>3, UpTo
<1> QED BY <1>4 DEF n

LEMMA BytesAppended ==
    ASSUME NEW s \in Seq(CachedEntry), NEW e \in CachedEntry
    PROVE  BytesOf(Append(s, e), Len(s) + 1) = BytesOf(s, Len(s)) + e.size
<1> DEFINE n == Len(s)
           r == Append(s, e)
<1>1. /\ n \in Nat /\ r \in Seq(CachedEntry) /\ Len(r) = n + 1
      /\ \A i \in 1..n : r[i] = s[i]
      /\ r[n + 1] = e
  BY AppendProperties, LenProperties
<1>2. /\ BytesOf(s, 0) = 0 /\ \A k \in 0..n : BytesOf(s, k) \in Nat
      /\ \A k \in 1..n : BytesOf(s, k) = BytesOf(s, k - 1) + s[k].size
  BY BytesStep
<1>3. e.size \in Nat
  BY DEF CachedEntry
<1> HIDE DEF n, r
<1> DEFINE h == [i \in 0..(n + 1) |-> IF i = n + 1 THEN BytesOf(s, n) + e.size ELSE BytesOf(s, i)]
<1>4. AddsUp(h, r, n + 1)
  <2>1. n \in 0..n /\ 0 # n + 1
    BY <1>1
  <2>2. h[0] = 0
    BY <1>1, <1>2, <2>1
  <2>3. h \in [0..(n + 1) -> Nat]
    <3>1. ASSUME NEW i \in 0..(n + 1) PROVE h[i] \in Nat
      <4>1. i = n + 1 \/ i \in 0..n
        BY <1>1
      <4> QED BY <1>2, <1>3, <2>1, <4>1
    <3> QED BY <3>1
  <2>4. ASSUME NEW i \in 1..(n + 1) PROVE h[i] = h[i - 1] + r[i].size
    <3>1. CASE i = n + 1
      <4>1. i - 1 = n /\ i - 1 \in 0..(n + 1) /\ i - 1 # n + 1 /\ i \in 0..(n + 1)
        BY <1>1, <3>1
      <4> QED BY <1>1, <3>1, <4>1
    <3>2. CASE i # n + 1
      <4>1. i \in 1..n /\ i - 1 \in 0..(n + 1) /\ i - 1 # n + 1 /\ i \in 0..(n + 1)
        BY <1>1, <3>2
      <4> QED BY <1>1, <1>2, <3>2, <4>1
    <3> QED BY <3>1, <3>2
  <2> HIDE DEF h
  <2> QED BY <2>2, <2>3, <2>4 DEF AddsUp
<1>5. n + 1 \in 0..(n + 1)
  BY <1>1
<1>6. \A k \in 0..(n + 1) : BytesOf(r, k) = h[k]
  <2> HIDE DEF h
  <2> QED BY <1>1, <1>4, BytesAre
<1>7. BytesOf(r, n + 1) = BytesOf(s, n) + e.size
  BY <1>5, <1>6
<1> QED BY <1>7 DEF n, r

LEMMA BytesDropped ==
    ASSUME NEW s \in Seq(CachedEntry), NEW p \in 0..Len(s)
    PROVE  BytesOf(SubSeq(s, p + 1, Len(s)), Len(s) - p) = BytesOf(s, Len(s)) - BytesOf(s, p)
<1> DEFINE n == Len(s)
           r == SubSeq(s, p + 1, n)
           B(i) == BytesOf(s, i)
<1>1. /\ n \in Nat /\ p \in Nat /\ p <= n /\ r \in Seq(CachedEntry) /\ Len(r) = n - p
      /\ \A i \in 1..(n - p) : r[i] = s[p + i]
  BY DroppedIs, LenProperties
<1>2. /\ B(0) = 0 /\ \A k \in 0..n : B(k) \in Nat
      /\ \A k \in 1..n : B(k) = B(k - 1) + s[k].size /\ s[k].size \in Nat
  BY BytesStep
<1>3. \A k \in p..n : B(p) <= B(k)
  <2>1. \A k \in p..n : k \in 0..n /\ p \in 0..n /\ p <= k
    BY <1>1
  <2> QED BY <2>1, BytesRise
<1> HIDE DEF n, r, B
<1> DEFINE h == [i \in 0..(n - p) |-> B(p + i) - B(p)]
<1>4. AddsUp(h, r, n - p)
  <2>1. \A i \in 0..(n - p) : p + i \in p..n /\ p + i \in 0..n
    BY <1>1
  <2>2. h \in [0..(n - p) -> Nat]
    <3>1. ASSUME NEW i \in 0..(n - p) PROVE h[i] \in Nat
      <4>1. B(p + i) \in Nat /\ B(p) \in Nat /\ B(p) <= B(p + i)
        BY <1>1, <1>2, <1>3, <2>1
      <4>2. B(p + i) - B(p) \in Nat
        BY <4>1
      <4> QED BY <4>2
    <3> QED BY <3>1
  <2>3. h[0] = 0
    <3>1. 0 \in 0..(n - p) /\ p + 0 = p /\ B(p) \in Nat
      BY <1>1, <1>2
    <3>2. h[0] = B(p) - B(p)
      BY <3>1
    <3> QED BY <3>1, <3>2
  <2>4. ASSUME NEW i \in 1..(n - p) PROVE h[i] = h[i - 1] + r[i].size
    <3>1. /\ i \in 0..(n - p) /\ i - 1 \in 0..(n - p) /\ p + i \in 1..n /\ (p + i) - 1 = p + (i - 1)
          /\ p + i \in 0..n /\ p + (i - 1) \in 0..n /\ p \in 0..n
      BY <1>1
    <3>2. B(p + i) = B(p + (i - 1)) + s[p + i].size /\ s[p + i].size \in Nat /\ r[i] = s[p + i]
      BY <1>1, <1>2, <3>1
    <3>3. B(p + i) \in Nat /\ B(p + (i - 1)) \in Nat /\ B(p) \in Nat
      BY <1>2, <3>1
    <3>4. h[i] = B(p + i) - B(p) /\ h[i - 1] = B(p + (i - 1)) - B(p)
      BY <3>1
    <3> HIDE DEF h
    <3> QED BY <3>2, <3>3, <3>4
  <2> HIDE DEF h
  <2> QED BY <2>2, <2>3, <2>4 DEF AddsUp
<1>5. n - p \in 0..(n - p) /\ p + (n - p) = n
  BY <1>1
<1>6. \A k \in 0..(n - p) : BytesOf(r, k) = h[k]
  <2> HIDE DEF h
  <2> QED BY <1>1, <1>4, BytesAre
<1>7. BytesOf(r, n - p) = B(n) - B(p)
  BY <1>5, <1>6
<1> QED BY <1>7 DEF n, r, B

LEMMA BytesRemoved ==
    ASSUME NEW s \in Seq(CachedEntry), NEW p \in 1..Len(s)
    PROVE  /\ BytesOf(RemoveAt(s, p), Len(s) - 1) = BytesOf(s, Len(s)) - s[p].size
           /\ s[p].size <= BytesOf(s, Len(s))
<1> DEFINE n == Len(s)
           r == RemoveAt(s, p)
           z == s[p].size
           B(i) == BytesOf(s, i)
<1>1. /\ n \in Nat /\ p \in Nat /\ p <= n /\ 1 <= p /\ r \in Seq(CachedEntry) /\ Len(r) = n - 1
      /\ \A i \in 1..(n - 1) : r[i] = IF i < p THEN s[i] ELSE s[i + 1]
  BY RemoveAtIs, LenProperties
<1>2. /\ B(0) = 0 /\ \A k \in 0..n : B(k) \in Nat
      /\ \A k \in 1..n : B(k) = B(k - 1) + s[k].size /\ s[k].size \in Nat
  BY BytesStep
<1>3. \A k \in p..n : B(p) <= B(k)
  <2>1. \A k \in p..n : k \in 0..n /\ p \in 0..n /\ p <= k
    BY <1>1
  <2> QED BY <2>1, BytesRise
<1>4. B(p) = B(p - 1) + z /\ z \in Nat /\ B(p - 1) \in Nat
  <2>1. p \in 1..n /\ p - 1 \in 0..n
    BY <1>1
  <2> QED BY <1>2, <2>1
<1> HIDE DEF n, r, B, z
<1>5. \A k \in p..n : z <= B(k) /\ B(k) \in Nat
  <2>1. \A k \in p..n : B(k) \in Nat /\ B(p) <= B(k)
    <3>1. \A k \in p..n : k \in 0..n
      BY <1>1
    <3> QED BY <1>2, <1>3, <3>1
  <2> QED BY <1>4, <2>1
<1> DEFINE h == [i \in 0..(n - 1) |-> IF i < p THEN B(i) ELSE B(i + 1) - z]
<1>6. AddsUp(h, r, n - 1)
  <2>1. n - 1 \in Nat
    BY <1>1
  <2>2. h \in [0..(n - 1) -> Nat]
    <3>1. ASSUME NEW i \in 0..(n - 1) PROVE h[i] \in Nat
      <4>1. i \in 0..n /\ (~(i < p) => i + 1 \in p..n)
        BY <1>1
      <4>2. ~(i < p) => B(i + 1) - z \in Nat
        BY <1>4, <1>5, <4>1
      <4> QED BY <1>2, <4>1, <4>2
    <3> QED BY <3>1
  <2>3. h[0] = 0
    BY <1>1, <1>2, <2>1
  <2>4. ASSUME NEW i \in 1..(n - 1) PROVE h[i] = h[i - 1] + r[i].size
    <3>1. i \in 0..(n - 1) /\ i - 1 \in 0..(n - 1) /\ i \in 1..n /\ i + 1 \in 1..n
          /\ (i + 1) - 1 = i /\ i \in 0..n /\ i - 1 \in 0..n /\ i + 1 \in 0..n /\ (i - 1) + 1 = i
      BY <1>1
    <3>2. h[i] = (IF i < p THEN B(i) ELSE B(i + 1) - z)
          /\ h[i - 1] = (IF i - 1 < p THEN B(i - 1) ELSE B(i) - z)
      BY <3>1
    <3>3. /\ B(i) = B(i - 1) + s[i].size /\ s[i].size \in Nat /\ B(i) \in Nat /\ B(i - 1) \in Nat
          /\ B(i + 1) = B(i) + s[i + 1].size /\ s[i + 1].size \in Nat /\ B(i + 1) \in Nat
      BY <1>2, <3>1
    <3> HIDE DEF h
    <3>4. CASE i < p
      <4>1. i - 1 < p /\ r[i] = s[i]
        BY <1>1, <3>4
      <4> QED BY <3>2, <3>3, <3>4, <4>1
    <3>5. CASE i = p
      <4>1. ~(i < p) /\ i - 1 < p
        BY <1>1, <3>5
      <4>2. r[i].size = s[i + 1].size
        BY <1>1, <4>1
      <4>3. h[i] = B(i + 1) - z /\ h[i - 1] = B(i - 1)
        BY <3>2, <4>1
      <4>4. B(i) = B(i - 1) + z
        BY <1>4, <3>5
      <4>5. B(i + 1) - z = B(i - 1) + s[i + 1].size
        <5>1. z \in Nat
          BY <1>4
        <5>2. B(i + 1) = B(i) + s[i + 1].size
          BY <3>3
        <5>3. B(i) \in Nat /\ B(i + 1) \in Nat /\ B(i - 1) \in Nat
          BY <3>3
        <5>4. s[i + 1].size \in Nat
          BY <3>3
        <5> QED BY <4>4, <5>1, <5>2, <5>3, <5>4
      <4> QED BY <4>2, <4>3, <4>5
    <3>6. CASE p < i
      <4>1. ~(i < p) /\ ~(i - 1 < p)
        BY <1>1, <3>6
      <4>2. r[i].size = s[i + 1].size
        BY <1>1, <4>1
      <4>3. h[i] = B(i + 1) - z /\ h[i - 1] = B(i) - z
        BY <3>2, <4>1
      <4>4. B(i + 1) - z = (B(i) - z) + s[i + 1].size
        <5>1. z \in Nat
          BY <1>4
        <5>2. B(i + 1) = B(i) + s[i + 1].size
          BY <3>3
        <5>3. B(i) \in Nat /\ B(i + 1) \in Nat
          BY <3>3
        <5>4. s[i + 1].size \in Nat
          BY <3>3
        <5> QED BY <5>1, <5>2, <5>3, <5>4
      <4> QED BY <4>2, <4>3, <4>4
    <3> QED BY <1>1, <3>4, <3>5, <3>6
  <2> HIDE DEF h
  <2> QED BY <2>2, <2>3, <2>4 DEF AddsUp
<1>7. n - 1 \in 0..(n - 1) /\ ~(n - 1 < p /\ p < n)
  BY <1>1
<1>8. \A k \in 0..(n - 1) : BytesOf(r, k) = h[k]
  <2> HIDE DEF h
  <2> QED BY <1>1, <1>6, BytesAre
<1>9. BytesOf(r, n - 1) = B(n) - z
  <2>1. BytesOf(r, n - 1) = IF n - 1 < p THEN B(n - 1) ELSE B((n - 1) + 1) - z
    BY <1>7, <1>8
  <2>2. CASE n - 1 < p
    <3>1. n = p
      BY <1>1, <2>2
    <3>2. BytesOf(r, n - 1) = B(p - 1)
      BY <2>1, <2>2, <3>1
    <3> QED BY <1>4, <3>1, <3>2
  <2>3. CASE ~(n - 1 < p)
    <3>1. (n - 1) + 1 = n
      BY <1>1
    <3> QED BY <2>1, <2>3, <3>1
  <2> QED BY <2>2, <2>3
<1>10. z <= B(n)
  <2>1. n \in p..n
    BY <1>1
  <2> QED BY <1>5, <2>1
<1> QED BY <1>9, <1>10 DEF n, r, z, B

-----------------------------------------------------------------------------
(***************************************************************************)
(* A cache that counts exactly what it holds, each key once.               *)
(***************************************************************************)
KeysOnce(s) == \A i, j \in 1..Len(s) : s[i].key = s[j].key => i = j

CountsOK(c) ==
    /\ c \in [entries : Seq(CachedEntry), bytes : Nat]
    /\ c.bytes = BytesOf(c.entries, Len(c.entries))
    /\ KeysOnce(c.entries)

LEMMA PlaceIs ==
    ASSUME NEW s \in Seq(CachedEntry), NEW key, Holds(s, key)
    PROVE  Place(s, key) \in 1..Len(s) /\ s[Place(s, key)].key = key
<1>1. DOMAIN s = 1..Len(s)
  BY EntriesOf
<1>2. \E i \in 1..Len(s) : s[i].key = key
  BY <1>1 DEF Holds
<1>3. Place(s, key) = CHOOSE i \in 1..Len(s) : s[i].key = key
  BY <1>1 DEF Place
<1> QED BY <1>2, <1>3

LEMMA WithoutIs ==
    ASSUME NEW c, CountsOK(c), NEW key
    PROVE  /\ Without(c.entries, key) \in Seq(CachedEntry)
           /\ KeysOnce(Without(c.entries, key))
           /\ \A i \in 1..Len(Without(c.entries, key)) : Without(c.entries, key)[i].key # key
           /\ BytesWithout(c, key) = BytesOf(Without(c.entries, key), Len(Without(c.entries, key)))
           /\ BytesWithout(c, key) \in Nat /\ BytesWithout(c, key) <= c.bytes
           /\ Holds(c.entries, key) =>
                BytesWithout(c, key) + c.entries[Place(c.entries, key)].size = c.bytes
<1> DEFINE s == c.entries
           n == Len(s)
           p == Place(s, key)
           w == Without(s, key)
<1>1. s \in Seq(CachedEntry) /\ c.bytes = BytesOf(s, n) /\ KeysOnce(s) /\ c.bytes \in Nat
  BY DEF CountsOK
<1>2. n \in Nat /\ DOMAIN s = 1..n
  BY <1>1, EntriesOf
<1>3. CASE ~Holds(s, key)
  <2>1. w = s /\ BytesWithout(c, key) = c.bytes
    BY <1>3 DEF Without, BytesWithout
  <2>2. \A i \in 1..n : s[i].key # key
    BY <1>2, <1>3 DEF Holds
  <2> HIDE DEF w, n, s
  <2>3. BytesWithout(c, key) <= c.bytes
    BY <1>1, <2>1
  <2> QED BY <1>1, <1>3, <2>1, <2>2, <2>3 DEF w, n, s
<1>4. CASE Holds(s, key)
  <2>1. p \in 1..n /\ s[p].key = key
    BY <1>1, <1>4, PlaceIs
  <2>2. w = RemoveAt(s, p) /\ BytesWithout(c, key) = Less(c.bytes, s[p].size)
    BY <1>4 DEF Without, BytesWithout
  <2>3. BytesOf(RemoveAt(s, p), n - 1) = BytesOf(s, n) - s[p].size /\ s[p].size <= BytesOf(s, n)
    BY <1>1, <2>1, BytesRemoved
  <2>4. /\ RemoveAt(s, p) \in Seq(CachedEntry) /\ Len(RemoveAt(s, p)) = n - 1
        /\ \A i \in 1..(n - 1) : RemoveAt(s, p)[i] = IF i < p THEN s[i] ELSE s[i + 1]
    BY <1>1, <2>1, RemoveAtIs
  <2>5. s[p].size \in Nat
    BY <1>1, <2>1, EntriesOf
  <2> DEFINE z == s[p].size
             at(i) == IF i < p THEN i ELSE i + 1
  <2> HIDE DEF p, n, w, s
  <2>6. BytesWithout(c, key) = c.bytes - z /\ z <= c.bytes /\ z \in Nat
    BY <1>1, <2>2, <2>3, <2>5 DEF Less
  <2> HIDE DEF z
  <2>7. /\ BytesWithout(c, key) \in Nat /\ BytesWithout(c, key) <= c.bytes
        /\ BytesWithout(c, key) + z = c.bytes
    BY <1>1, <2>6
  <2>8. \A i \in 1..(n - 1) : w[i] = s[at(i)] /\ at(i) \in 1..n /\ at(i) # p
    BY <1>2, <2>1, <2>2, <2>4
  <2>9. \A i, j \in 1..(n - 1) : at(i) = at(j) => i = j
    BY <1>2, <2>1
  <2> HIDE DEF at
  <2>10. KeysOnce(w)
    BY <1>1, <2>2, <2>4, <2>8, <2>9 DEF KeysOnce, n
  <2>11. \A i \in 1..(n - 1) : w[i].key # key
    BY <1>1, <2>1, <2>8 DEF KeysOnce, n
  <2>12. Len(w) = n - 1 /\ w \in Seq(CachedEntry) /\ BytesWithout(c, key) = BytesOf(w, Len(w))
    BY <1>1, <2>2, <2>3, <2>4, <2>6 DEF z
  <2> QED BY <2>7, <2>10, <2>11, <2>12 DEF z, p, n, w, s
<1> QED BY <1>3, <1>4

\* A cache with its key's entry last is one again.
LEMMA RestoredIs ==
    ASSUME NEW c, CountsOK(c), NEW e \in CachedEntry,
           NEW b, b = BytesWithout(c, e.key) + e.size
    PROVE  /\ CountsOK([entries |-> Append(Without(c.entries, e.key), e), bytes |-> b])
           /\ Len(Append(Without(c.entries, e.key), e)) >= 1
           /\ b <= c.bytes + e.size
<1> DEFINE w == Without(c.entries, e.key)
           m == Len(w)
           a == Append(w, e)
<1>1. /\ w \in Seq(CachedEntry) /\ KeysOnce(w) /\ \A i \in 1..m : w[i].key # e.key
      /\ BytesWithout(c, e.key) = BytesOf(w, m)
      /\ BytesWithout(c, e.key) \in Nat /\ BytesWithout(c, e.key) <= c.bytes
  BY WithoutIs
<1>2. e.size \in Nat /\ c.bytes \in Nat
  BY DEF CachedEntry, CountsOK
<1>3. /\ m \in Nat /\ a \in Seq(CachedEntry) /\ Len(a) = m + 1
      /\ \A i \in 1..m : a[i] = w[i]
      /\ a[m + 1] = e
  BY <1>1, AppendProperties, LenProperties
<1>4. BytesOf(a, m + 1) = BytesOf(w, m) + e.size
  BY <1>1, BytesAppended
<1> HIDE DEF w, m, a
<1>5. b \in Nat /\ b <= c.bytes + e.size /\ b = BytesOf(a, Len(a)) /\ Len(a) >= 1
  BY <1>1, <1>2, <1>3, <1>4
<1>6. KeysOnce(a)
  <2>1. ASSUME NEW i \in 1..(m + 1), NEW j \in 1..(m + 1), a[i].key = a[j].key PROVE i = j
    <3>1. (i \in 1..m \/ i = m + 1) /\ (j \in 1..m \/ j = m + 1)
      BY <1>3
    <3>2. CASE i \in 1..m /\ j \in 1..m
      BY <1>1, <1>3, <2>1, <3>2 DEF KeysOnce, m
    <3>3. CASE i \in 1..m /\ j = m + 1
      BY <1>1, <1>3, <2>1, <3>3
    <3>4. CASE i = m + 1 /\ j \in 1..m
      BY <1>1, <1>3, <2>1, <3>4
    <3> QED BY <3>1, <3>2, <3>3, <3>4
  <2> QED BY <1>3, <2>1 DEF KeysOnce
<1>7. CountsOK([entries |-> a, bytes |-> b])
  BY <1>3, <1>5, <1>6 DEF CountsOK
<1> QED BY <1>5, <1>7 DEF a, w

LEMMA PopUntilIs ==
    ASSUME NEW c, CountsOK(c), NEW keep \in {0, 1}, keep <= Len(c.entries), NEW more \in Nat
    PROVE  \E q \in 0..(Len(c.entries) - keep) :
              /\ PopUntil(c, keep, more).entries = SubSeq(c.entries, q + 1, Len(c.entries))
              /\ CountsOK(PopUntil(c, keep, more))
              /\ \/ q = Len(c.entries) - keep
                 \/ PopUntil(c, keep, more).bytes + more <= Budget
<1> DEFINE s       == c.entries
           n       == Len(s)
           left(i) == Less(c.bytes, BytesOf(s, i))
           enough  == {i \in 0..n : i = n - keep \/ left(i) + more <= Budget}
           pops    == CHOOSE i \in enough : \A j \in enough : i <= j
           room    == PopUntil(c, keep, more)
<1>1. s \in Seq(CachedEntry) /\ c.bytes = BytesOf(s, n) /\ KeysOnce(s) /\ c.bytes \in Nat
  BY DEF CountsOK
<1>2. room = [entries |-> SubSeq(s, pops + 1, n), bytes |-> left(pops)]
  BY DEF PopUntil
<1>3. n \in Nat /\ \A i \in 0..n : BytesOf(s, i) \in Nat
  BY <1>1, BytesStep
<1>4. n - keep \in enough /\ enough \subseteq Nat
  BY <1>3
<1>5. pops \in enough /\ \A j \in enough : pops <= j
  <2> HIDE DEF enough
  <2>1. \E i \in enough : \A j \in enough : i <= j
    BY <1>4, LeastExists
  <2> QED BY <2>1
<1> HIDE DEF pops
<1>6. pops \in 0..n /\ pops <= n - keep /\ (pops = n - keep \/ left(pops) + more <= Budget)
  BY <1>4, <1>5
<1>7. pops \in 0..(n - keep) /\ n \in 0..n /\ pops <= n
  BY <1>3, <1>6
<1>8. BytesOf(s, pops) <= BytesOf(s, n)
  BY <1>1, <1>6, <1>7, BytesRise
<1>9. left(pops) = BytesOf(s, n) - BytesOf(s, pops) /\ left(pops) \in Nat
  BY <1>1, <1>3, <1>6, <1>7, <1>8 DEF Less
<1> DEFINE d == SubSeq(s, pops + 1, n)
<1>10. /\ d \in Seq(CachedEntry) /\ Len(d) = n - pops
       /\ \A i \in 1..(n - pops) : d[i] = s[pops + i]
  BY <1>1, <1>6, DroppedIs
<1>11. BytesOf(d, n - pops) = BytesOf(s, n) - BytesOf(s, pops)
  BY <1>1, <1>6, BytesDropped
<1> HIDE DEF s, n, left, enough, d, room
<1>12. KeysOnce(d)
  <2>1. ASSUME NEW i \in 1..(n - pops), NEW j \in 1..(n - pops), d[i].key = d[j].key
        PROVE  i = j
    <3>1. pops + i \in 1..n /\ pops + j \in 1..n
      BY <1>3, <1>6
    <3>2. s[pops + i].key = s[pops + j].key
      BY <1>10, <2>1
    <3>3. pops + i = pops + j
      BY <1>1, <3>1, <3>2 DEF KeysOnce, n
    <3> QED BY <1>6, <3>3
  <2> QED BY <1>10, <2>1 DEF KeysOnce
<1>13. room.entries = d /\ room.bytes = left(pops)
  BY <1>2 DEF d
<1>14. CountsOK(room)
  BY <1>2, <1>9, <1>10, <1>11, <1>12, <1>13 DEF CountsOK, d
<1> QED BY <1>6, <1>7, <1>13, <1>14 DEF s, n, d, room

-----------------------------------------------------------------------------
(***************************************************************************)
(* The operations.                                                         *)
(***************************************************************************)
LEMMA PutIs ==
    ASSUME NEW c, CountsOK(c), c.bytes <= Budget, NEW e \in CachedEntry
    PROVE  /\ CountsOK(Put(c, e)) /\ Put(c, e).bytes <= Budget
           /\ e.size > Budget => Put(c, e) = c
           /\ e.size <= Budget =>
                \E q \in 0..Len(c.entries) :
                   Put(c, e).entries =
                      Append(Without(SubSeq(c.entries, q + 1, Len(c.entries)), e.key), e)
<1> DEFINE room == PopUntil(c, 0, e.size)
           n == Len(c.entries)
<1>1. e.size \in Nat /\ Budget \in Nat /\ n \in Nat
  BY BCAssumption, EntriesOf DEF CachedEntry, CountsOK
<1>2. CASE e.size > Budget
  BY <1>1, <1>2 DEF Put
<1>3. CASE e.size <= Budget
  <2>1. Put(c, e) = Replaced(room, e)
    BY <1>1, <1>3 DEF Put
  <2>2. PICK q \in 0..(n - 0) :
           /\ room.entries = SubSeq(c.entries, q + 1, n)
           /\ CountsOK(room)
           /\ q = n - 0 \/ room.bytes + e.size <= Budget
    <3>1. 0 <= n /\ 0 \in {0, 1}
      BY <1>1
    <3> HIDE DEF room
    <3> QED BY <1>1, <3>1, PopUntilIs DEF room
  <2> HIDE DEF room
  <2>3. q \in 0..n /\ room.bytes \in Nat
    BY <1>1, <2>2 DEF CountsOK
  <2>4. room.bytes + e.size <= Budget
    <3>1. CASE q = n
      <4>1. Len(room.entries) = 0
        <5>1. c.entries \in Seq(CachedEntry)
          BY DEF CountsOK
        <5>2. Len(SubSeq(c.entries, q + 1, n)) = n - q
          BY <2>3, <5>1, DroppedIs
        <5> QED BY <1>1, <2>2, <3>1, <5>2
      <4>2. room.bytes = BytesOf(room.entries, 0) /\ room.entries \in Seq(CachedEntry)
        BY <2>2, <4>1 DEF CountsOK
      <4>3. room.bytes = 0
        BY <4>2, BytesStep
      <4> QED BY <1>1, <1>3, <4>3
    <3>2. CASE q # n
      BY <1>1, <2>2, <3>2
    <3> QED BY <3>1, <3>2
  <2> DEFINE b == BytesWithout(room, e.key) + e.size
  <2>5. Replaced(room, e) = [entries |-> Append(Without(room.entries, e.key), e), bytes |-> b]
    BY DEF Replaced
  <2>6. /\ CountsOK([entries |-> Append(Without(room.entries, e.key), e), bytes |-> b])
        /\ b <= room.bytes + e.size
    BY <2>2, RestoredIs
  <2>7. b \in Nat
    BY <2>6 DEF CountsOK
  <2>8. b <= Budget
    <3> HIDE DEF b
    <3> QED BY <1>1, <2>3, <2>4, <2>6, <2>7
  <2>9. Put(c, e).bytes = b
    BY <2>1, <2>5
  <2>10. Put(c, e).entries = Append(Without(SubSeq(c.entries, q + 1, n), e.key), e)
    BY <2>1, <2>2, <2>5
  <2> QED BY <1>1, <1>3, <2>1, <2>3, <2>5, <2>6, <2>8, <2>9, <2>10
<1> QED BY <1>1, <1>2, <1>3

LEMMA InsertIs ==
    ASSUME NEW c, CountsOK(c), NEW e \in CachedEntry
    PROVE  /\ CountsOK(Insert(c, e))
           /\ Insert(c, e).bytes <= Budget \/ Len(Insert(c, e).entries) = 1
<1> DEFINE r == Replaced(c, e)
           n == Len(r.entries)
           b == BytesWithout(c, e.key) + e.size
<1>1. r = [entries |-> Append(Without(c.entries, e.key), e), bytes |-> b]
  BY DEF Replaced
<1>2. CountsOK(r) /\ Len(Append(Without(c.entries, e.key), e)) >= 1
  BY <1>1, RestoredIs
<1>3. n >= 1
  BY <1>1, <1>2
<1>4. n \in Nat /\ r.entries \in Seq(CachedEntry) /\ Budget \in Nat
  BY <1>2, BCAssumption, EntriesOf DEF CountsOK
<1> HIDE DEF r
<1> DEFINE k == PopUntil(r, 1, 0)
<1>5. PICK q \in 0..(n - 1) :
         /\ k.entries = SubSeq(r.entries, q + 1, n)
         /\ CountsOK(k)
         /\ q = n - 1 \/ k.bytes + 0 <= Budget
  <2>1. 1 <= n /\ 1 \in {0, 1} /\ 0 \in Nat
    BY <1>3, <1>4
  <2> QED BY <1>2, <2>1, PopUntilIs
<1>6. Insert(c, e) = k
  BY DEF Insert, r
<1> HIDE DEF k
<1>7. Len(k.entries) = n - q
  <2>1. q \in 0..n
    BY <1>3, <1>4
  <2> QED BY <1>4, <1>5, <2>1, DroppedIs
<1>8. k.bytes \in Nat
  BY <1>5 DEF CountsOK
<1>9. k.bytes <= Budget \/ Len(k.entries) = 1
  <2> HIDE DEF n
  <2> QED BY <1>4, <1>5, <1>7, <1>8
<1> QED BY <1>5, <1>6, <1>9

LEMMA TouchIs ==
    ASSUME NEW c, CountsOK(c), NEW key
    PROVE  /\ CountsOK(Touch(c, key)) /\ Touch(c, key).bytes = c.bytes
           /\ ~Holds(c.entries, key) => Touch(c, key) = c
           /\ Holds(c.entries, key) =>
                \E e \in CachedEntry :
                   /\ e.key = key
                   /\ Touch(c, key).entries = Append(Without(c.entries, key), e)
<1>1. CASE ~Holds(c.entries, key)
  BY <1>1 DEF Touch
<1>2. CASE Holds(c.entries, key)
  <2> DEFINE e == c.entries[Place(c.entries, key)]
  <2>1. c.entries \in Seq(CachedEntry) /\ c \in [entries : Seq(CachedEntry), bytes : Nat]
    BY DEF CountsOK
  <2>2. Place(c.entries, key) \in 1..Len(c.entries) /\ e.key = key
    BY <1>2, <2>1, PlaceIs
  <2>3. e \in CachedEntry
    BY <2>1, <2>2, EntriesOf
  <2>4. BytesWithout(c, key) + e.size = c.bytes
    BY <1>2, WithoutIs
  <2>5. Touch(c, key) = [c EXCEPT !.entries = Append(Without(c.entries, key), e)]
    BY <1>2 DEF Touch
  <2> HIDE DEF e
  <2> DEFINE a == Append(Without(c.entries, key), e)
             b == c.bytes
  <2>6. Touch(c, key) = [entries |-> a, bytes |-> b]
    <3> HIDE DEF a
    <3> QED BY <2>1, <2>5 DEF a
  <2>7. CountsOK([entries |-> a, bytes |-> b])
    <3>1. b = BytesWithout(c, e.key) + e.size
      BY <2>2, <2>4 DEF e
    <3>2. CountsOK([entries |-> Append(Without(c.entries, e.key), e), bytes |-> b])
      <4> HIDE DEF b
      <4> QED BY <2>3, <3>1, RestoredIs
    <3> QED BY <2>2, <3>2 DEF e
  <2>8. e.key = key
    BY <2>2 DEF e
  <2> QED BY <1>2, <2>3, <2>6, <2>7, <2>8
<1> QED BY <1>1, <1>2

-----------------------------------------------------------------------------
(***************************************************************************)
(* The pool beside the keys used in it.                                    *)
(***************************************************************************)
EachOnce(u) == \A i, j \in 1..Len(u) : u[i] = u[j] => i = j

\* The entries s are those of the last keys of u.
AreTheLast(s, u) ==
    /\ Len(s) <= Len(u)
    /\ \A i \in 1..Len(s) : s[i].key = u[(Len(u) - Len(s)) + i]

LEMMA DroppedAreTheLast ==
    ASSUME NEW s \in Seq(CachedEntry), NEW u \in Seq(BlockKeys), AreTheLast(s, u),
           NEW q \in 0..Len(s)
    PROVE  AreTheLast(SubSeq(s, q + 1, Len(s)), u)
<1> DEFINE n == Len(s)
           m == Len(u)
           d == SubSeq(s, q + 1, n)
<1>1. Len(d) = n - q /\ \A i \in 1..(n - q) : d[i] = s[q + i]
  BY DroppedIs
<1>2. n \in Nat /\ m \in Nat /\ q \in Nat /\ q <= n /\ n <= m
  BY LenProperties DEF AreTheLast
<1>3. \A i \in 1..n : s[i].key = u[(m - n) + i]
  BY DEF AreTheLast
<1> HIDE DEF n, m, d
<1>4. ASSUME NEW i \in 1..(n - q) PROVE d[i].key = u[(m - (n - q)) + i]
  <2>1. q + i \in 1..n /\ (m - n) + (q + i) = (m - (n - q)) + i
    BY <1>2
  <2> QED BY <1>1, <1>3, <2>1
<1>5. n - q <= m
  BY <1>2
<1> QED BY <1>1, <1>4, <1>5 DEF AreTheLast, n, m, d

LEMMA MovedIs ==
    ASSUME NEW u \in Seq(BlockKeys), EachOnce(u), NEW key \in BlockKeys
    PROVE  /\ Moved(u, key) \in Seq(BlockKeys) /\ EachOnce(Moved(u, key))
           /\ \E v \in Seq(BlockKeys) :
                 /\ Moved(u, key) = Append(v, key)
                 /\ \/ v = u /\ \A i \in 1..Len(u) : u[i] # key
                    \/ \E q \in 1..Len(u) : u[q] = key /\ v = RemoveAt(u, q)
<1> DEFINE m == Len(u)
           q == CHOOSE i \in 1..m : u[i] = key
           has == \E i \in 1..m : u[i] = key
           v == IF has THEN RemoveAt(u, q) ELSE u
<1>1. m \in Nat /\ DOMAIN u = 1..m
  BY LenProperties
<1>2. Moved(u, key) = Append(v, key)
  BY <1>1 DEF Moved
<1>3. has => q \in 1..m /\ u[q] = key
  OBVIOUS
<1>4. /\ v \in Seq(BlockKeys)
      /\ EachOnce(v)
      /\ \A i \in 1..Len(v) : v[i] # key
  <2>1. CASE ~has
    BY <2>1
  <2>2. CASE has
    <3> DEFINE at(i) == IF i < q THEN i ELSE i + 1
    <3>1. q \in 1..m /\ u[q] = key
      BY <1>3, <2>2
    <3> HIDE DEF q
    <3>2. /\ v \in Seq(BlockKeys) /\ Len(v) = m - 1
          /\ \A i \in 1..(m - 1) : v[i] = IF i < q THEN u[i] ELSE u[i + 1]
      BY <2>2, <3>1, RemoveAtIs
    <3> HIDE DEF v, m
    <3>3. \A i \in 1..(m - 1) : v[i] = u[at(i)] /\ at(i) \in 1..m /\ at(i) # q
      BY <1>1, <3>1, <3>2
    <3>4. \A i, j \in 1..(m - 1) : at(i) = at(j) => i = j
      BY <1>1, <3>1
    <3> HIDE DEF at
    <3>5. \A i, j \in 1..m : u[i] = u[j] => i = j
      BY DEF EachOnce, m
    <3>6. EachOnce(v)
      BY <3>2, <3>3, <3>4, <3>5 DEF EachOnce
    <3>7. \A i \in 1..(m - 1) : v[i] # key
      BY <3>1, <3>3, <3>5
    <3> QED BY <3>2, <3>6, <3>7
  <2> QED BY <2>1, <2>2
<1>5. \/ v = u /\ \A i \in 1..Len(u) : u[i] # key
      \/ \E i \in 1..Len(u) : u[i] = key /\ v = RemoveAt(u, i)
  BY <1>3
<1> HIDE DEF v
<1> DEFINE a == Append(v, key)
           k == Len(v)
<1>6. /\ k \in Nat /\ a \in Seq(BlockKeys) /\ Len(a) = k + 1
      /\ \A i \in 1..k : a[i] = v[i]
      /\ a[k + 1] = key
  BY <1>4, AppendProperties, LenProperties
<1> HIDE DEF a, k
<1>7. EachOnce(a)
  <2>1. ASSUME NEW i \in 1..(k + 1), NEW j \in 1..(k + 1), a[i] = a[j] PROVE i = j
    <3>1. (i \in 1..k \/ i = k + 1) /\ (j \in 1..k \/ j = k + 1)
      BY <1>6
    <3>2. CASE i \in 1..k /\ j \in 1..k
      BY <1>4, <1>6, <2>1, <3>2 DEF EachOnce, k
    <3>3. CASE i \in 1..k /\ j = k + 1
      BY <1>4, <1>6, <2>1, <3>3 DEF k
    <3>4. CASE i = k + 1 /\ j \in 1..k
      BY <1>4, <1>6, <2>1, <3>4 DEF k
    <3> QED BY <3>1, <3>2, <3>3, <3>4
  <2> QED BY <1>6, <2>1 DEF EachOnce
<1> QED BY <1>2, <1>4, <1>5, <1>6, <1>7 DEF a

\* Replacing an entry, or putting one, keeps the pool beside its keys.
LEMMA RestoredAreTheLast ==
    ASSUME NEW s \in Seq(CachedEntry), NEW u \in Seq(BlockKeys),
           KeysOnce(s), EachOnce(u), AreTheLast(s, u),
           NEW e \in CachedEntry
    PROVE  AreTheLast(Append(Without(s, e.key), e), Moved(u, e.key))
<1> DEFINE key == e.key
           n == Len(s)
           l == Len(u)
           m == l - n
           w == Without(s, key)
<1>1. key \in BlockKeys
  BY DEF CachedEntry
<1>2. n \in Nat /\ l \in Nat /\ n <= l /\ \A i \in 1..n : s[i].key = u[m + i]
  BY LenProperties DEF AreTheLast
<1>3. m \in Nat /\ l = m + n /\ \A i \in 1..n : m + i \in 1..l
  BY <1>2
<1>4. PICK v \in Seq(BlockKeys) :
         /\ Moved(u, key) = Append(v, key)
         /\ \/ v = u /\ \A i \in 1..l : u[i] # key
            \/ \E q \in 1..l : u[q] = key /\ v = RemoveAt(u, q)
  BY <1>1, MovedIs
<1>5. \A i, j \in 1..l : u[i] = u[j] => i = j
  BY DEF EachOnce
<1>6. DOMAIN s = 1..n
  BY EntriesOf
<1>7. /\ w \in Seq(CachedEntry) /\ Len(w) <= Len(v)
      /\ \A i \in 1..Len(w) : w[i].key = v[(Len(v) - Len(w)) + i]
  <2>1. CASE Holds(s, key)
    <3> DEFINE p == Place(s, key)
    <3>1. p \in 1..n /\ s[p].key = key /\ w = RemoveAt(s, p)
      BY <2>1, PlaceIs DEF Without
    <3> HIDE DEF p
    <3>2. /\ w \in Seq(CachedEntry) /\ Len(w) = n - 1
          /\ \A i \in 1..(n - 1) : w[i] = IF i < p THEN s[i] ELSE s[i + 1]
      BY <3>1, RemoveAtIs
    <3>3. u[m + p] = key /\ m + p \in 1..l
      BY <1>2, <1>3, <3>1
    <3>4. v = RemoveAt(u, m + p)
      BY <1>4, <1>5, <3>3
    <3>5. /\ Len(v) = l - 1
          /\ \A i \in 1..(l - 1) : v[i] = IF i < m + p THEN u[i] ELSE u[i + 1]
      BY <3>3, <3>4, RemoveAtIs
    <3> HIDE DEF n, l, w
    <3>6. ASSUME NEW i \in 1..(n - 1) PROVE w[i].key = v[m + i]
      <4>1. /\ m + i \in 1..(l - 1) /\ i \in 1..n /\ i + 1 \in 1..n
            /\ (m + i) + 1 = m + (i + 1) /\ (m + i < m + p <=> i < p)
        BY <1>2, <1>3, <3>1
      <4> HIDE DEF m
      <4>2. CASE i < p
        <5>1. w[i] = s[i] /\ v[m + i] = u[m + i]
          BY <3>2, <3>5, <4>1, <4>2
        <5> QED BY <1>2, <4>1, <5>1
      <4>3. CASE ~(i < p)
        <5>1. w[i] = s[i + 1] /\ v[m + i] = u[m + (i + 1)]
          BY <3>2, <3>5, <4>1, <4>3
        <5> QED BY <1>2, <4>1, <5>1
      <4> QED BY <4>2, <4>3
    <3>7. Len(w) <= Len(v) /\ Len(v) - Len(w) = m
      BY <1>2, <3>2, <3>5
    <3> HIDE DEF m
    <3> QED BY <3>2, <3>6, <3>7
  <2>2. CASE ~Holds(s, key)
    <3>1. w = s /\ \A i \in 1..n : s[i].key # key
      BY <1>6, <2>2 DEF Without, Holds
    <3>2. CASE v = u
      BY <1>2, <3>1, <3>2
    <3>3. CASE \E q \in 1..l : u[q] = key /\ v = RemoveAt(u, q)
      <4>1. PICK q \in 1..l : u[q] = key /\ v = RemoveAt(u, q)
        BY <3>3
      <4>2. /\ Len(v) = l - 1
            /\ \A i \in 1..(l - 1) : v[i] = IF i < q THEN u[i] ELSE u[i + 1]
        BY <4>1, RemoveAtIs
      <4> HIDE DEF n, l, w
      <4>3. q <= m
        <5>1. ASSUME q > m PROVE FALSE
          <6>1. q - m \in 1..n /\ m + (q - m) = q
            BY <1>2, <1>3, <5>1
          <6> QED BY <1>2, <3>1, <4>1, <6>1
        <5> QED BY <1>3, <5>1
      <4>4. ASSUME NEW i \in 1..n PROVE w[i].key = v[(m - 1) + i]
        <5>1. (m - 1) + i \in 1..(l - 1) /\ ~((m - 1) + i < q) /\ ((m - 1) + i) + 1 = m + i
          BY <1>2, <1>3, <4>3
        <5> HIDE DEF m
        <5>2. v[(m - 1) + i] = u[m + i]
          BY <4>2, <5>1
        <5> QED BY <1>2, <3>1, <5>2
      <4>5. Len(w) = n /\ n <= Len(v) /\ Len(v) - n = m - 1
        BY <1>2, <1>3, <3>1, <4>2, <4>3 DEF n
      <4>6. w \in Seq(CachedEntry)
        BY <3>1
      <4> HIDE DEF m
      <4> QED BY <4>4, <4>5, <4>6
    <3> QED BY <1>4, <3>2, <3>3
  <2> QED BY <2>1, <2>2
<1> HIDE DEF w
<1> DEFINE a == Append(w, e)
           b == Append(v, key)
           x == Len(w)
           y == Len(v)
<1>8. /\ x \in Nat /\ Len(a) = x + 1 /\ a[x + 1] = e
      /\ \A i \in 1..x : a[i] = w[i]
  BY <1>7, AppendProperties, LenProperties
<1>9. /\ y \in Nat /\ Len(b) = y + 1 /\ b[y + 1] = key
      /\ \A i \in 1..y : b[i] = v[i]
  BY <1>1, <1>4, AppendProperties, LenProperties
<1>10. x <= y /\ \A i \in 1..x : w[i].key = v[(y - x) + i]
  BY <1>7
<1> HIDE DEF a, b, x, y
<1>11. ASSUME NEW i \in 1..(x + 1) PROVE a[i].key = b[((y + 1) - (x + 1)) + i]
  <2>1. (y + 1) - (x + 1) = y - x
    BY <1>8, <1>9
  <2>2. CASE i = x + 1
    <3>1. (y - x) + i = y + 1
      BY <1>8, <1>9, <2>2
    <3>2. a[i].key = key
      BY <1>8, <2>2
    <3> QED BY <1>9, <2>1, <3>1, <3>2
  <2>3. CASE i # x + 1
    <3>1. i \in 1..x /\ (y - x) + i \in 1..y
      BY <1>8, <1>9, <1>10, <2>3
    <3> QED BY <1>8, <1>9, <1>10, <2>1, <3>1
  <2> QED BY <2>2, <2>3
<1>12. AreTheLast(a, b)
  <2>1. x + 1 <= y + 1
    BY <1>8, <1>9, <1>10
  <2> QED BY <1>8, <1>9, <1>11, <2>1 DEF AreTheLast
<1> QED BY <1>4, <1>12 DEF a, b, w

-----------------------------------------------------------------------------
(***************************************************************************)
(* The inductive invariant.                                                *)
(***************************************************************************)
Decoded ==
    [key : BlockKeys, type : Types \cup {0}, size : Sizes, into : {"pool", "kept"}]

BCIsOK ==
    /\ CountsOK(pool) /\ pool.bytes <= Budget
    /\ CountsOK(kept) /\ (kept.bytes <= Budget \/ Len(kept.entries) = 1)
    /\ filling \in [Readers -> Decoded \cup {Idle}]
    /\ used \in Seq(BlockKeys) /\ EachOnce(used)
    /\ AreTheLast(pool.entries, used)

LEMMA EmptyIs ==
    /\ CountsOK(Empty) /\ Empty.bytes = 0 /\ Empty.entries = <<>>
    /\ \A u \in Seq(BlockKeys) : AreTheLast(<<>>, u)
<1> DEFINE none == <<>>
<1>1. none \in Seq(CachedEntry) /\ Len(none) = 0
  BY EmptySeq
<1>2. BytesOf(none, 0) = 0
  BY <1>1, BytesStep
<1>3. KeysOnce(none)
  BY <1>1 DEF KeysOnce
<1>4. CountsOK(Empty)
  BY <1>1, <1>2, <1>3 DEF CountsOK, Empty
<1>5. \A u \in Seq(BlockKeys) : AreTheLast(none, u)
  <2>1. \A u \in Seq(BlockKeys) : Len(u) \in Nat
    BY LenProperties
  <2>2. \A u \in Seq(BlockKeys) : 0 <= Len(u)
    BY <2>1
  <2> QED BY <1>1, <2>2 DEF AreTheLast
<1> QED BY <1>4, <1>5 DEF Empty

LEMMA BCStarts == BCInit => BCIsOK
<1> SUFFICES ASSUME BCInit PROVE BCIsOK
  OBVIOUS
<1>1. pool = Empty /\ kept = Empty /\ used = <<>>
  BY DEF BCInit
<1>2. filling \in [Readers -> Decoded \cup {Idle}]
  BY DEF BCInit
<1>3. used \in Seq(BlockKeys) /\ EachOnce(used)
  <2>1. <<>> \in Seq(BlockKeys) /\ Len(<<>>) = 0
    BY EmptySeq
  <2> QED BY <1>1, <2>1 DEF EachOnce
<1>4. Budget \in Nat
  BY BCAssumption
<1>5. CountsOK(pool) /\ CountsOK(kept) /\ AreTheLast(pool.entries, used)
  BY <1>1, <1>3, EmptyIs
<1>6. pool.bytes <= Budget /\ kept.bytes <= Budget
  BY <1>1, <1>4, EmptyIs
<1> QED BY <1>2, <1>3, <1>5, <1>6 DEF BCIsOK

\* What a get or a fill of the pool does to it and to the keys used.
LEMMA PoolStaysOK ==
    ASSUME BCIsOK, NEW e \in CachedEntry
    PROVE  /\ AreTheLast(Append(Without(pool.entries, e.key), e), Moved(used, e.key))
           /\ \A q \in 0..Len(pool.entries) :
                 AreTheLast(Append(Without(SubSeq(pool.entries, q + 1, Len(pool.entries)), e.key), e),
                            Moved(used, e.key))
           /\ Moved(used, e.key) \in Seq(BlockKeys) /\ EachOnce(Moved(used, e.key))
<1> DEFINE s == pool.entries
           n == Len(s)
<1>1. s \in Seq(CachedEntry) /\ KeysOnce(s) /\ AreTheLast(s, used)
      /\ used \in Seq(BlockKeys) /\ EachOnce(used)
  BY DEF BCIsOK, CountsOK
<1>2. e.key \in BlockKeys
  BY DEF CachedEntry
<1>3. n \in Nat
  BY <1>1, EntriesOf
<1>4. ASSUME NEW q \in 0..n
      PROVE  AreTheLast(Append(Without(SubSeq(s, q + 1, n), e.key), e), Moved(used, e.key))
  <2> DEFINE d == SubSeq(s, q + 1, n)
  <2>1. /\ d \in Seq(CachedEntry) /\ Len(d) = n - q
        /\ \A i \in 1..(n - q) : d[i] = s[q + i]
    BY <1>1, DroppedIs
  <2>2. AreTheLast(d, used)
    BY <1>1, DroppedAreTheLast
  <2> HIDE DEF d, n, s
  <2>3. KeysOnce(d)
    <3>1. ASSUME NEW i \in 1..(n - q), NEW j \in 1..(n - q), d[i].key = d[j].key PROVE i = j
      <4>1. q + i \in 1..n /\ q + j \in 1..n
        BY <1>3
      <4>2. s[q + i].key = s[q + j].key
        BY <2>1, <3>1
      <4>3. q + i = q + j
        BY <1>1, <4>1, <4>2 DEF KeysOnce, n
      <4> QED BY <1>3, <4>3
    <3> QED BY <2>1, <3>1 DEF KeysOnce
  <2>4. AreTheLast(Append(Without(d, e.key), e), Moved(used, e.key))
    BY <1>1, <2>1, <2>2, <2>3, RestoredAreTheLast
  <2> QED BY <2>4 DEF d
<1>5. AreTheLast(Append(Without(s, e.key), e), Moved(used, e.key))
  BY <1>1, RestoredAreTheLast
<1> QED BY <1>1, <1>2, <1>4, <1>5, MovedIs

LEMMA PoolGetIsOK ==
    ASSUME BCIsOK, NEW r \in Readers, NEW k \in BlockKeys, NEW t \in Types, PoolGet(r, k, t)
    PROVE  BCIsOK'
<1>1. pool' = Touch(pool, k) /\ kept' = kept
      /\ used' = (IF Holds(pool.entries, k) THEN Moved(used, k) ELSE used)
  BY DEF PoolGet
<1>2. CountsOK(pool) /\ pool.bytes <= Budget
  BY DEF BCIsOK
<1>3. filling' \in [Readers -> Decoded \cup {Idle}]
  <2>1. \/ filling' = filling
        \/ \E n \in Sizes : filling' = [filling EXCEPT ![r] =
              [key |-> k, type |-> t, size |-> n, into |-> "pool"]]
    BY DEF PoolGet
  <2>2. \A n \in Sizes : [key |-> k, type |-> t, size |-> n, into |-> "pool"] \in Decoded
    BY DEF Decoded
  <2>3. filling \in [Readers -> Decoded \cup {Idle}]
    BY DEF BCIsOK
  <2> QED BY <2>1, <2>2, <2>3
<1>4. CountsOK(pool') /\ pool'.bytes <= Budget
  BY <1>1, <1>2, TouchIs
<1>5. /\ used' \in Seq(BlockKeys) /\ EachOnce(used')
      /\ AreTheLast(pool'.entries, used')
  <2>1. CASE ~Holds(pool.entries, k)
    <3>1. pool' = pool /\ used' = used
      BY <1>1, <1>2, <2>1, TouchIs
    <3> QED BY <3>1 DEF BCIsOK
  <2>2. CASE Holds(pool.entries, k)
    <3>1. PICK e \in CachedEntry :
             e.key = k /\ pool'.entries = Append(Without(pool.entries, k), e)
      BY <1>1, <1>2, <2>2, TouchIs
    <3>2. used' = Moved(used, e.key)
      BY <1>1, <2>2, <3>1
    <3> QED BY <3>1, <3>2, PoolStaysOK
  <2> QED BY <2>1, <2>2
<1> QED BY <1>1, <1>3, <1>4, <1>5 DEF BCIsOK

LEMMA SegmentGetIsOK ==
    ASSUME BCIsOK, NEW r \in Readers, NEW k \in BlockKeys, SegmentGet(r, k)
    PROVE  BCIsOK'
<1>1. kept' = Touch(kept, k) /\ pool' = pool /\ used' = used
  BY DEF SegmentGet
<1>2. CountsOK(kept) /\ (kept.bytes <= Budget \/ Len(kept.entries) = 1)
  BY DEF BCIsOK
<1>3. filling' \in [Readers -> Decoded \cup {Idle}]
  <2>1. \/ filling' = filling
        \/ \E n \in Sizes : filling' = [filling EXCEPT ![r] =
              [key |-> k, type |-> 0, size |-> n, into |-> "kept"]]
    BY DEF SegmentGet
  <2>2. \A n \in Sizes : [key |-> k, type |-> 0, size |-> n, into |-> "kept"] \in Decoded
    BY DEF Decoded
  <2>3. filling \in [Readers -> Decoded \cup {Idle}]
    BY DEF BCIsOK
  <2> QED BY <2>1, <2>2, <2>3
<1>4. CountsOK(kept') /\ kept'.bytes = kept.bytes
  BY <1>1, <1>2, TouchIs
<1>5. Len(kept.entries) = 1 => Len(kept'.entries) = 1
  <2> SUFFICES ASSUME Len(kept.entries) = 1 PROVE Len(kept'.entries) = 1
    OBVIOUS
  <2>1. CASE ~Holds(kept.entries, k)
    BY <1>1, <1>2, <2>1, TouchIs
  <2>2. CASE Holds(kept.entries, k)
    <3> DEFINE p == Place(kept.entries, k)
               w == RemoveAt(kept.entries, p)
    <3>1. kept.entries \in Seq(CachedEntry)
      BY <1>2 DEF CountsOK
    <3>2. p \in 1..Len(kept.entries)
      BY <2>2, <3>1, PlaceIs
    <3>3. w \in Seq(CachedEntry) /\ Len(w) = 1 - 1
      <4> HIDE DEF p
      <4> QED BY <3>1, <3>2, RemoveAtIs
    <3>4. Without(kept.entries, k) = w
      BY <2>2 DEF Without
    <3>5. PICK e \in CachedEntry : kept'.entries = Append(w, e)
      BY <1>1, <1>2, <2>2, <3>4, TouchIs
    <3>6. Len(Append(w, e)) = Len(w) + 1
      <4> HIDE DEF w
      <4> QED BY <3>3, AppendProperties
    <3> QED BY <3>3, <3>5, <3>6
  <2> QED BY <2>1, <2>2
<1> QED BY <1>1, <1>2, <1>3, <1>4, <1>5 DEF BCIsOK

LEMMA FillIsOK ==
    ASSUME BCIsOK, NEW r \in Readers, Fill(r)
    PROVE  BCIsOK'
<1> DEFINE f == filling[r]
           e == [key |-> f.key, type |-> f.type, size |-> f.size]
<1>1. f \in Decoded
  BY DEF BCIsOK, Fill
<1>2. e \in CachedEntry
  BY <1>1, BCAssumption DEF Decoded, CachedEntry
<1>3. filling' \in [Readers -> Decoded \cup {Idle}]
  BY DEF BCIsOK, Fill
<1>4. CountsOK(pool) /\ pool.bytes <= Budget /\ CountsOK(kept)
  BY DEF BCIsOK
<1>5. CASE f.into = "pool"
  <2>1. /\ pool' = Put(pool, e) /\ kept' = kept
        /\ used' = (IF e.size > Budget THEN used ELSE Moved(used, e.key))
    BY <1>5 DEF Fill
  <2> HIDE DEF e
  <2>2. CountsOK(pool') /\ pool'.bytes <= Budget
    BY <1>2, <1>4, <2>1, PutIs
  <2>3. /\ used' \in Seq(BlockKeys) /\ EachOnce(used')
        /\ AreTheLast(pool'.entries, used')
    <3>1. CASE e.size > Budget
      <4>1. pool' = pool /\ used' = used
        BY <1>2, <1>4, <2>1, <3>1, PutIs
      <4> QED BY <4>1 DEF BCIsOK
    <3>2. CASE ~(e.size > Budget)
      <4>1. e.size <= Budget
        <5>1. e.size \in Nat /\ Budget \in Nat
          BY <1>2, BCAssumption DEF CachedEntry
        <5> QED BY <3>2, <5>1
      <4>2. PICK q \in 0..Len(pool.entries) :
               pool'.entries =
                  Append(Without(SubSeq(pool.entries, q + 1, Len(pool.entries)), e.key), e)
        BY <1>2, <1>4, <2>1, <4>1, PutIs
      <4>3. used' = Moved(used, e.key)
        BY <2>1, <3>2
      <4> QED BY <1>2, <4>2, <4>3, PoolStaysOK
    <3> QED BY <3>1, <3>2
  <2> QED BY <1>3, <2>1, <2>2, <2>3 DEF BCIsOK
<1>6. CASE f.into # "pool"
  <2>1. kept' = Insert(kept, e) /\ pool' = pool /\ used' = used
    BY <1>6 DEF Fill
  <2> HIDE DEF e
  <2>2. CountsOK(kept') /\ (kept'.bytes <= Budget \/ Len(kept'.entries) = 1)
    BY <1>2, <1>4, <2>1, InsertIs
  <2> QED BY <1>3, <2>1, <2>2 DEF BCIsOK
<1> QED BY <1>5, <1>6

LEMMA ClearIsOK ==
    ASSUME BCIsOK, Clear
    PROVE  BCIsOK'
<1>1. pool' = Empty /\ kept' = kept /\ filling' = filling /\ used' = used
  BY DEF Clear
<1>2. used \in Seq(BlockKeys) /\ Budget \in Nat
  BY BCAssumption DEF BCIsOK
<1>3. CountsOK(pool') /\ pool'.bytes <= Budget /\ AreTheLast(pool'.entries, used')
  BY <1>1, <1>2, EmptyIs
<1> QED BY <1>1, <1>3 DEF BCIsOK

LEMMA BCKeeps == BCIsOK /\ [BCNext]_bcvars => BCIsOK'
<1> SUFFICES ASSUME BCIsOK, [BCNext]_bcvars PROVE BCIsOK'
  OBVIOUS
<1>1. CASE UNCHANGED bcvars
  BY <1>1 DEF bcvars, BCIsOK
<1>2. ASSUME NEW r \in Readers, NEW k \in BlockKeys, SegmentGet(r, k) PROVE BCIsOK'
  BY <1>2, SegmentGetIsOK
<1>3. ASSUME NEW r \in Readers, NEW k \in BlockKeys, NEW t \in Types, PoolGet(r, k, t)
      PROVE  BCIsOK'
  BY <1>3, PoolGetIsOK
<1>4. ASSUME NEW r \in Readers, Fill(r) PROVE BCIsOK'
  BY <1>4, FillIsOK
<1>5. CASE Clear
  BY <1>5, ClearIsOK
<1> QED BY <1>1, <1>2, <1>3, <1>4, <1>5 DEF BCNext

LEMMA BCIsOKImplies == BCIsOK => CachesKeepTheirBudget
<1> SUFFICES ASSUME BCIsOK PROVE CachesKeepTheirBudget
  OBVIOUS
<1>1. ASSUME NEW c \in {pool, kept}
      PROVE  /\ c.bytes = BytesOf(c.entries, Len(c.entries))
             /\ \A i, j \in DOMAIN c.entries : c.entries[i].key = c.entries[j].key => i = j
  <2>1. CountsOK(c)
    BY DEF BCIsOK
  <2>2. DOMAIN c.entries = 1..Len(c.entries)
    BY <2>1, EntriesOf DEF CountsOK
  <2> QED BY <2>1, <2>2 DEF CountsOK, KeysOnce
<1>2. DOMAIN pool.entries = 1..Len(pool.entries)
  BY EntriesOf DEF BCIsOK, CountsOK
<1>3. /\ Len(pool.entries) <= Len(used)
      /\ \A i \in DOMAIN pool.entries :
            pool.entries[i].key = used[Len(used) - Len(pool.entries) + i]
  BY <1>2 DEF BCIsOK, AreTheLast
<1> QED BY <1>1, <1>3 DEF BCIsOK, CachesKeepTheirBudget

(***************************************************************************)
(* However the fills of one key and its replacements are ordered, each     *)
(* cache counts exactly what it holds, each key once, and keeps its        *)
(* budget, and the pool holds the keys used last: for any keys, types,     *)
(* sizes, readers and budget.                                              *)
(***************************************************************************)
THEOREM CachesAreInBudget == BCSpec => []CachesKeepTheirBudget
<1> QED BY BCStarts, BCKeeps, BCIsOKImplies, PTL DEF BCSpec

-----------------------------------------------------------------------------
(***************************************************************************)
(* The archive: each stream's segments cover its rows up to the last       *)
(* sealed one, in order, and the table's may lose their beginning.         *)
(***************************************************************************)
Segment == [seq : Nat, lo : Nat, hi : Nat]

Rows(g) == g.lo..g.hi

\* A stream's segments follow one another up to the last sealed row.
InOrder(q) == \A i, j \in 1..Len(q) : i < j => q[i].hi < q[j].lo
Adjacent(q) == \A i \in 1..(Len(q) - 1) : q[i + 1].lo = q[i].hi + 1
SegmentsTo(q, sealed) ==
    /\ \A i \in 1..Len(q) : 1 <= q[i].lo /\ q[i].lo <= q[i].hi /\ q[i].hi <= sealed
    /\ InOrder(q) /\ Adjacent(q)
    /\ Len(q) > 0 => q[Len(q)].hi = sealed

Archives ==
    [log : [Streams -> Seq(Tenants)], segs : [Streams -> Seq(Segment)],
     sealed : [Streams -> Nat], next : [Streams -> Nat]]

Covers(q, sealed) == \A n \in 1..sealed : \E i \in 1..Len(q) : n \in Rows(q[i])

ArchiveOK(a) ==
    /\ a \in Archives
    /\ \A s \in Streams :
          /\ a.sealed[s] <= Len(a.log[s])
          /\ SegmentsTo(a.segs[s], a.sealed[s])
    /\ Covers(a.segs["occupants"], a.sealed["occupants"])

\* The segments of the table only become coarser: one that was sealed is in
\* one of those there now, or none of its rows is.
Apart(g, h) == g.hi < h.lo \/ h.hi < g.lo
IsWithin(g, h) == h.lo <= g.lo /\ g.hi <= h.hi
Settled(a, g) ==
    /\ 1 <= g.lo /\ g.lo <= g.hi /\ g.hi <= a.sealed["rows"]
    /\ \A i \in 1..Len(a.segs["rows"]) :
          Apart(g, a.segs["rows"][i]) \/ IsWithin(g, a.segs["rows"][i])

IsIn(g, q) == \E i \in 1..Len(q) : q[i] = g

\* What holds of an archive and of a later one.
Follows(a, b) ==
    /\ \A s \in Streams :
          /\ Len(a.log[s]) <= Len(b.log[s])
          /\ \A n \in 1..Len(a.log[s]) : b.log[s][n] = a.log[s][n]
          /\ a.sealed[s] <= b.sealed[s]
    /\ \A g \in Segment :
          Settled(a, g) =>
             /\ Settled(b, g)
             /\ IsIn(g, b.segs["rows"]) => IsIn(g, a.segs["rows"])

-----------------------------------------------------------------------------
LEMMA ArchiveFields ==
    ASSUME NEW a \in Archives, NEW s \in Streams
    PROVE  /\ a.log[s] \in Seq(Tenants) /\ a.segs[s] \in Seq(Segment)
           /\ a.sealed[s] \in Nat /\ a.next[s] \in Nat
           /\ Len(a.log[s]) \in Nat /\ Len(a.segs[s]) \in Nat
  BY LenProperties DEF Archives

LEMMA SegmentFields ==
    ASSUME NEW g \in Segment
    PROVE  g.seq \in Nat /\ g.lo \in Nat /\ g.hi \in Nat
  BY DEF Segment

LEMMA FollowsItself == ASSUME NEW a \in Archives PROVE Follows(a, a)
  BY ArchiveFields DEF Follows

LEMMA ArchiveStarts == LRInit => ArchiveOK(archive)
<1> SUFFICES ASSUME LRInit PROVE ArchiveOK(archive)
  OBVIOUS
<1>1. archive \in Archives
  BY DEF LRInit, Archives, Streams
<1>2. \A s \in Streams : archive.segs[s] = <<>> /\ archive.sealed[s] = 0 /\ archive.log[s] = <<>>
  BY DEF LRInit
<1>3. \A s \in Streams : SegmentsTo(archive.segs[s], archive.sealed[s])
  BY <1>2 DEF SegmentsTo, InOrder, Adjacent
<1>4. Covers(archive.segs["occupants"], archive.sealed["occupants"])
  BY <1>2 DEF Covers, Streams
<1> QED BY <1>1, <1>2, <1>3, <1>4 DEF ArchiveOK

\* An appended row.
LEMMA AppendKeeps ==
    ASSUME ArchiveOK(archive), NEW s \in Streams, NEW o \in Tenants, AppendTo(s, o)
    PROVE  ArchiveOK(archive') /\ Follows(archive, archive')
<1> DEFINE a == archive
           b == archive'
<1>1. a \in Archives /\ a.log[s] \in Seq(Tenants)
  BY ArchiveFields DEF ArchiveOK
<1>2. /\ b.log = [a.log EXCEPT ![s] = Append(a.log[s], o)]
      /\ b.segs = a.segs /\ b.sealed = a.sealed /\ b.next = a.next
      /\ b = [log |-> b.log, segs |-> a.segs, sealed |-> a.sealed, next |-> a.next]
  BY <1>1 DEF AppendTo, Archives
<1>3. b.log \in [Streams -> Seq(Tenants)]
  BY <1>1, <1>2, AppendProperties DEF Archives
<1>4. b \in Archives
  BY <1>1, <1>2, <1>3 DEF Archives
<1>5. \A r \in Streams :
         /\ Len(a.log[r]) <= Len(b.log[r])
         /\ \A n \in 1..Len(a.log[r]) : b.log[r][n] = a.log[r][n]
  <2> SUFFICES ASSUME NEW r \in Streams
               PROVE  /\ Len(a.log[r]) <= Len(b.log[r])
                      /\ \A n \in 1..Len(a.log[r]) : b.log[r][n] = a.log[r][n]
    OBVIOUS
  <2>1. Len(a.log[r]) \in Nat /\ a.log[r] \in Seq(Tenants)
    BY <1>1, ArchiveFields
  <2>2. CASE r = s
    <3>1. b.log[r] = Append(a.log[r], o)
      BY <1>1, <1>2, <2>2 DEF Archives
    <3> QED BY <2>1, <3>1, AppendProperties
  <2>3. CASE r # s
    <3>1. b.log[r] = a.log[r]
      BY <1>1, <1>2, <2>3 DEF Archives
    <3> QED BY <2>1, <3>1
  <2> QED BY <2>2, <2>3
<1>6. ArchiveOK(b)
  <2>1. ASSUME NEW r \in Streams
        PROVE  b.sealed[r] <= Len(b.log[r]) /\ SegmentsTo(b.segs[r], b.sealed[r])
    <3>1. a.sealed[r] <= Len(a.log[r]) /\ Len(a.log[r]) <= Len(b.log[r])
      BY <1>5 DEF ArchiveOK
    <3>2. a.sealed[r] \in Nat /\ Len(a.log[r]) \in Nat /\ Len(b.log[r]) \in Nat
      BY <1>1, <1>4, ArchiveFields
    <3> QED BY <1>2, <3>1, <3>2 DEF ArchiveOK
  <2> QED BY <1>2, <1>4, <2>1 DEF ArchiveOK
<1>7. \A r \in Streams : a.sealed[r] <= b.sealed[r]
  BY <1>1, <1>2, ArchiveFields
<1>8. Follows(a, b)
  BY <1>2, <1>5, <1>7 DEF Follows, Settled
<1> QED BY <1>6, <1>8

\* Segments in place of a stream's that have the rows of those.
Coarser(a, q) ==
    \A g \in Segment :
       Settled(a, g) => /\ \A i \in 1..Len(q) : Apart(g, q[i]) \/ IsWithin(g, q[i])
                        /\ IsIn(g, q) => IsIn(g, a.segs["rows"])

Replaces(a, b, s, q, n) ==
    /\ b \in Archives /\ b.log = a.log
    /\ b.segs[s] = q /\ b.sealed[s] = n
    /\ \A r \in Streams : r # s => b.segs[r] = a.segs[r] /\ b.sealed[r] = a.sealed[r]

\* One stream's segments replaced.
LEMMA SegmentsChange ==
    ASSUME NEW a, NEW b, ArchiveOK(a), NEW s \in Streams, NEW q, NEW n \in Nat,
           Replaces(a, b, s, q, n),
           a.sealed[s] <= n, n <= Len(a.log[s]), SegmentsTo(q, n),
           s = "occupants" => Covers(q, n), s = "rows" => Coarser(a, q)
    PROVE  ArchiveOK(b) /\ Follows(a, b)
<1>1. a \in Archives
  BY DEF ArchiveOK
<1>2. /\ b.log = a.log
      /\ b.segs[s] = q /\ b.sealed[s] = n
      /\ \A r \in Streams : r # s => b.segs[r] = a.segs[r] /\ b.sealed[r] = a.sealed[r]
  BY DEF Replaces
<1>3. b \in Archives
  BY DEF Replaces
<1>4. ASSUME NEW r \in Streams
      PROVE  /\ a.sealed[r] <= b.sealed[r] /\ b.sealed[r] <= Len(b.log[r])
             /\ SegmentsTo(b.segs[r], b.sealed[r])
  <2>1. a.sealed[r] \in Nat
    BY <1>1, ArchiveFields
  <2>2. CASE r = s
    BY <1>2, <2>2
  <2>3. CASE r # s
    BY <1>2, <2>1, <2>3 DEF ArchiveOK
  <2> QED BY <2>2, <2>3
<1>5. Covers(b.segs["occupants"], b.sealed["occupants"])
  <2>1. "occupants" \in Streams
    BY DEF Streams
  <2> QED BY <1>2, <2>1 DEF ArchiveOK
<1>6. ASSUME NEW g \in Segment, Settled(a, g)
      PROVE  Settled(b, g) /\ (IsIn(g, b.segs["rows"]) => IsIn(g, a.segs["rows"]))
  <2>0. "rows" \in Streams
    BY DEF Streams
  <2>1. g.hi \in Nat /\ a.sealed["rows"] \in Nat /\ b.sealed["rows"] \in Nat
    BY <1>1, <1>3, <2>0, ArchiveFields, SegmentFields
  <2>2. a.sealed["rows"] <= b.sealed["rows"]
    BY <1>4, <2>0
  <2>3. g.hi <= b.sealed["rows"] /\ 1 <= g.lo /\ g.lo <= g.hi
    BY <1>6, <2>1, <2>2 DEF Settled
  <2>4. CASE s = "rows"
    BY <1>2, <1>6, <2>3, <2>4 DEF Settled, Coarser
  <2>5. CASE s # "rows"
    <3>1. b.segs["rows"] = a.segs["rows"]
      BY <1>2, <2>0, <2>5
    <3> QED BY <1>6, <2>3, <3>1 DEF Settled
  <2> QED BY <2>4, <2>5
<1>7. \A r \in Streams : Len(a.log[r]) \in Nat
  BY <1>1, ArchiveFields
<1>8. ASSUME NEW r \in Streams
      PROVE  /\ Len(a.log[r]) <= Len(b.log[r])
             /\ \A m \in 1..Len(a.log[r]) : b.log[r][m] = a.log[r][m]
             /\ a.sealed[r] <= b.sealed[r]
  <2>1. b.log[r] = a.log[r]
    BY <1>2
  <2> QED BY <1>4, <1>7, <2>1
<1>9. Follows(a, b)
  BY <1>6, <1>8 DEF Follows
<1> QED BY <1>3, <1>4, <1>5, <1>9 DEF ArchiveOK

LEMMA SealKeeps ==
    ASSUME ArchiveOK(archive), NEW s \in Streams, Seal(s)
    PROVE  ArchiveOK(archive') /\ Follows(archive, archive')
<1> DEFINE a == archive
           b == archive'
           old == a.segs[s]
           g == [seq |-> a.next[s], lo |-> a.sealed[s] + 1, hi |-> Len(a.log[s])]
           q == Append(old, g)
<1>1. /\ a \in Archives /\ old \in Seq(Segment) /\ a.sealed[s] \in Nat /\ a.next[s] \in Nat
      /\ Len(a.log[s]) \in Nat /\ Len(old) \in Nat
  BY ArchiveFields DEF ArchiveOK
<1>2. /\ a.sealed[s] <= Len(a.log[s]) /\ SegmentsTo(old, a.sealed[s])
  BY DEF ArchiveOK
<1>3. a.sealed[s] + 1 <= Len(a.log[s])
  BY <1>1 DEF Seal, Wal
<1>4. b = [log |-> a.log, segs |-> [a.segs EXCEPT ![s] = q],
           sealed |-> [a.sealed EXCEPT ![s] = Len(a.log[s])],
           next |-> [a.next EXCEPT ![s] = a.next[s] + 1]]
  BY <1>1 DEF Seal, Change, Archives
<1>5. g \in Segment
  BY <1>1 DEF Segment
<1>6. /\ q \in Seq(Segment) /\ Len(q) = Len(old) + 1 /\ q[Len(old) + 1] = g
      /\ \A i \in 1..Len(old) : q[i] = old[i]
  BY <1>1, <1>5, AppendProperties
<1>7. [a.next EXCEPT ![s] = a.next[s] + 1] \in [Streams -> Nat]
  BY <1>1 DEF Archives
<1>8. g.lo = a.sealed[s] + 1 /\ g.hi = Len(a.log[s])
  OBVIOUS
<1> HIDE DEF g, q
<1>9. SegmentsTo(q, Len(a.log[s]))
  <2>1. ASSUME NEW i \in 1..Len(q)
        PROVE  1 <= q[i].lo /\ q[i].lo <= q[i].hi /\ q[i].hi <= Len(a.log[s])
    <3>1. CASE i = Len(old) + 1
      <4>1. q[i] = g
        BY <1>6, <3>1
      <4> QED BY <1>1, <1>3, <1>8, <4>1
    <3>2. CASE i # Len(old) + 1
      <4>1. i \in 1..Len(old)
        BY <1>1, <1>6, <3>2
      <4>2. old[i].lo \in Nat /\ old[i].hi \in Nat
        BY <1>1, <4>1, ElementOfSeq, SegmentFields
      <4>3. 1 <= old[i].lo /\ old[i].lo <= old[i].hi /\ old[i].hi <= a.sealed[s]
        BY <1>2, <4>1 DEF SegmentsTo
      <4>4. old[i].hi <= Len(a.log[s])
        BY <1>1, <1>2, <4>2, <4>3
      <4>5. q[i] = old[i]
        BY <1>6, <4>1
      <4> QED BY <4>3, <4>4, <4>5
    <3> QED BY <3>1, <3>2
  <2>2. ASSUME NEW i \in 1..Len(q), NEW j \in 1..Len(q), i < j
        PROVE  q[i].hi < q[j].lo
    <3>1. i \in 1..Len(old)
      BY <1>1, <1>6, <2>2
    <3>2. CASE j = Len(old) + 1
      <4>1. old[i].hi <= a.sealed[s] /\ old[i].hi \in Nat
        BY <1>1, <1>2, <3>1, ElementOfSeq, SegmentFields DEF SegmentsTo
      <4>2. q[i] = old[i] /\ q[j].lo = a.sealed[s] + 1
        BY <1>6, <1>8, <3>1, <3>2
      <4> QED BY <1>1, <4>1, <4>2
    <3>3. CASE j # Len(old) + 1
      <4>1. j \in 1..Len(old)
        BY <1>1, <1>6, <3>3
      <4> QED BY <1>2, <1>6, <2>2, <3>1, <4>1 DEF SegmentsTo, InOrder
    <3> QED BY <3>2, <3>3
  <2>3. ASSUME NEW i \in 1..(Len(q) - 1) PROVE q[i + 1].lo = q[i].hi + 1
    <3>1. i \in 1..Len(old)
      BY <1>1, <1>6
    <3>2. CASE i = Len(old)
      <4>1. old[Len(old)].hi = a.sealed[s]
        BY <1>1, <1>2, <3>1 DEF SegmentsTo
      <4> QED BY <1>1, <1>6, <1>8, <3>1, <3>2, <4>1
    <3>3. CASE i # Len(old)
      <4>1. i \in 1..(Len(old) - 1) /\ i + 1 \in 1..Len(old)
        BY <1>1, <3>1, <3>3
      <4> QED BY <1>2, <1>6, <3>1, <4>1 DEF SegmentsTo, Adjacent
    <3> QED BY <3>2, <3>3
  <2>4. q[Len(q)].hi = Len(a.log[s])
    BY <1>6, <1>8
  <2> QED BY <2>1, <2>2, <2>3, <2>4 DEF SegmentsTo, InOrder, Adjacent
<1>10. ASSUME s = "occupants" PROVE Covers(q, Len(a.log[s]))
  <2> SUFFICES ASSUME NEW n \in 1..Len(a.log[s]) PROVE \E i \in 1..Len(q) : n \in Rows(q[i])
    BY DEF Covers
  <2>1. CASE n <= a.sealed[s]
    <3>1. PICK i \in 1..Len(old) : n \in Rows(old[i])
      BY <1>1, <1>10, <2>1 DEF ArchiveOK, Covers
    <3>2. i \in 1..Len(q) /\ q[i] = old[i]
      BY <1>1, <1>6
    <3> QED BY <3>1, <3>2
  <2>2. CASE ~(n <= a.sealed[s])
    <3>1. Len(old) + 1 \in 1..Len(q)
      BY <1>1, <1>6
    <3>2. n \in Rows(g)
      BY <1>1, <1>8, <2>2 DEF Rows
    <3> QED BY <1>6, <3>1, <3>2
  <2> QED BY <2>1, <2>2
<1>11. ASSUME s = "rows", NEW h \in Segment, Settled(a, h)
       PROVE  /\ \A i \in 1..Len(q) : Apart(h, q[i]) \/ IsWithin(h, q[i])
              /\ IsIn(h, q) => IsIn(h, a.segs["rows"])
  <2>1. h.hi <= a.sealed[s] /\ h.hi \in Nat
    BY <1>11, SegmentFields DEF Settled
  <2>2. h.hi < g.lo /\ h # g
    BY <1>1, <1>3, <1>8, <2>1
  <2>3. ASSUME NEW i \in 1..Len(q), i # Len(old) + 1
        PROVE  i \in 1..Len(old) /\ q[i] = old[i]
    BY <1>1, <1>6, <2>3
  <2>4. ASSUME NEW i \in 1..Len(q) PROVE Apart(h, q[i]) \/ IsWithin(h, q[i])
    <3>1. CASE i = Len(old) + 1
      BY <1>6, <2>2, <3>1 DEF Apart
    <3>2. CASE i # Len(old) + 1
      BY <1>11, <2>3, <3>2 DEF Settled
    <3> QED BY <3>1, <3>2
  <2>5. ASSUME IsIn(h, q) PROVE IsIn(h, old)
    <3>1. PICK i \in 1..Len(q) : q[i] = h
      BY <2>5 DEF IsIn
    <3>2. i # Len(old) + 1
      BY <1>6, <2>2, <3>1
    <3> QED BY <2>3, <3>1, <3>2 DEF IsIn
  <2> QED BY <1>11, <2>4, <2>5
<1>12. Replaces(a, b, s, q, Len(a.log[s]))
  <2>1. /\ b.log = a.log /\ b.segs = [a.segs EXCEPT ![s] = q]
        /\ b.sealed = [a.sealed EXCEPT ![s] = Len(a.log[s])]
    BY <1>4
  <2>2. a.segs \in [Streams -> Seq(Segment)] /\ a.sealed \in [Streams -> Nat]
    BY <1>1 DEF Archives
  <2>3. b \in Archives
    BY <1>1, <1>4, <1>6, <1>7, <2>2 DEF Archives
  <2> QED BY <2>1, <2>2, <2>3 DEF Replaces
<1>13. s = "rows" => Coarser(a, q)
  BY <1>11 DEF Coarser
<1>14. ArchiveOK(a)
  OBVIOUS
<1> DEFINE n == Len(a.log[s])
<1>15. /\ n \in Nat /\ a.sealed[s] <= n /\ n <= Len(a.log[s]) /\ SegmentsTo(q, n)
       /\ s = "occupants" => Covers(q, n)
       /\ Replaces(a, b, s, q, n)
  BY <1>1, <1>2, <1>9, <1>10, <1>12
<1> HIDE DEF a, b, old, n
<1>16. ArchiveOK(b) /\ Follows(a, b)
  BY <1>13, <1>14, <1>15, SegmentsChange
<1> QED BY <1>16 DEF a, b

LEMMA SegmentsReplaced ==
    ASSUME NEW a \in Archives, NEW s \in Streams, NEW q \in Seq(Segment), NEW b,
           b = [a EXCEPT !.segs[s] = q]
    PROVE  Replaces(a, b, s, q, a.sealed[s])
<1>1. a.segs \in [Streams -> Seq(Segment)]
  BY DEF Archives
<1>2. b = [log |-> a.log, segs |-> [a.segs EXCEPT ![s] = q], sealed |-> a.sealed,
           next |-> a.next]
  BY DEF Archives
<1>3. b \in Archives
  BY <1>1, <1>2 DEF Archives
<1> QED BY <1>1, <1>2, <1>3 DEF Replaces

LEMMA EvictKeeps ==
    ASSUME ArchiveOK(archive), EvictBefore
    PROVE  ArchiveOK(archive') /\ Follows(archive, archive')
<1> DEFINE a == archive
           b == archive'
           old == a.segs["rows"]
           q == Tail(old)
           n == a.sealed["rows"]
<1>0. "rows" \in Streams /\ "rows" # "occupants"
  BY DEF Streams
<1>1. /\ a \in Archives /\ old \in Seq(Segment) /\ n \in Nat /\ Len(old) \in Nat
      /\ Len(a.log["rows"]) \in Nat
  BY <1>0, ArchiveFields DEF ArchiveOK
<1>2. n <= Len(a.log["rows"]) /\ SegmentsTo(old, n)
  BY <1>0 DEF ArchiveOK
<1>3. old # <<>>
  BY DEF EvictBefore
<1>4. q \in Seq(Segment) /\ Len(q) = Len(old) - 1 /\ \A k \in 1..Len(q) : q[k] = old[k + 1]
  BY <1>1, <1>3, HeadTailProperties
<1>5. b = [a EXCEPT !.segs["rows"] = q]
  BY DEF EvictBefore, Change
<1>6. Replaces(a, b, "rows", q, n)
  BY <1>0, <1>1, <1>4, <1>5, SegmentsReplaced
<1> HIDE DEF q
<1>7. SegmentsTo(q, n)
  <2>1. \A i \in 1..Len(q) : i + 1 \in 1..Len(old)
    BY <1>1, <1>4
  <2>2. \A i \in 1..Len(q) : 1 <= q[i].lo /\ q[i].lo <= q[i].hi /\ q[i].hi <= n
    BY <1>2, <1>4, <2>1 DEF SegmentsTo
  <2>3. ASSUME NEW i \in 1..Len(q), NEW j \in 1..Len(q), i < j
        PROVE  q[i].hi < q[j].lo
    <3>1. i + 1 < j + 1
      BY <2>3
    <3> QED BY <1>2, <1>4, <2>1, <3>1 DEF SegmentsTo, InOrder
  <2>4. ASSUME NEW i \in 1..(Len(q) - 1) PROVE q[i + 1].lo = q[i].hi + 1
    <3>1. i \in 1..Len(q) /\ i + 1 \in 1..Len(q) /\ i + 1 \in 1..(Len(old) - 1)
      BY <1>1, <1>4
    <3>2. old[(i + 1) + 1].lo = old[i + 1].hi + 1
      BY <1>2, <3>1 DEF SegmentsTo, Adjacent
    <3> QED BY <1>4, <3>1, <3>2
  <2>5. ASSUME Len(q) > 0 PROVE q[Len(q)].hi = n
    BY <1>1, <1>2, <1>4, <2>5 DEF SegmentsTo
  <2> QED BY <2>2, <2>3, <2>4, <2>5 DEF SegmentsTo, InOrder, Adjacent
<1>8. Coarser(a, q)
  <2> SUFFICES ASSUME NEW g \in Segment, Settled(a, g)
               PROVE  /\ \A i \in 1..Len(q) : Apart(g, q[i]) \/ IsWithin(g, q[i])
                      /\ IsIn(g, q) => IsIn(g, old)
    BY DEF Coarser
  <2>1. \A i \in 1..Len(q) : i + 1 \in 1..Len(old) /\ q[i] = old[i + 1]
    BY <1>1, <1>4
  <2> QED BY <2>1 DEF Settled, IsIn
<1>9. ArchiveOK(a) /\ n <= n
  BY <1>1
<1> HIDE DEF a, b, old, n
<1>10. ArchiveOK(b) /\ Follows(a, b)
  <2>1. n = a.sealed["rows"]
    BY DEF n
  <2> QED BY <1>0, <1>1, <1>2, <1>6, <1>7, <1>8, <1>9, <2>1, SegmentsChange
<1> QED BY <1>10 DEF a, b

LEMMA RestartKeeps ==
    ASSUME ArchiveOK(archive), Restart
    PROVE  ArchiveOK(archive') /\ Follows(archive, archive')
<1> DEFINE a == archive
           b == archive'
           next(s) == IF a.segs[s] = <<>> THEN 0 ELSE Last(a.segs[s]).seq + 1
<1>1. a \in Archives
  BY DEF ArchiveOK
<1>2. \A s \in Streams : next(s) \in Nat
  <2> SUFFICES ASSUME NEW s \in Streams, a.segs[s] # <<>> PROVE Last(a.segs[s]).seq \in Nat
    OBVIOUS
  <2>1. a.segs[s] \in Seq(Segment) /\ Len(a.segs[s]) \in Nat
    BY <1>1, ArchiveFields
  <2>2. Len(a.segs[s]) \in 1..Len(a.segs[s])
    BY <2>1, EmptySeq
  <2>3. Last(a.segs[s]) \in Segment
    BY <2>1, <2>2, ElementOfSeq DEF Last
  <2> QED BY <2>3, SegmentFields
<1>3. b = [a EXCEPT !.next = [s \in Streams |-> next(s)]]
  BY DEF Restart, Change
<1>4. /\ b = [log |-> a.log, segs |-> a.segs, sealed |-> a.sealed,
              next |-> [s \in Streams |-> next(s)]]
      /\ b.log = a.log /\ b.segs = a.segs /\ b.sealed = a.sealed
  BY <1>1, <1>3 DEF Archives
<1>5. b \in Archives
  <2>1. [s \in Streams |-> next(s)] \in [Streams -> Nat]
    BY <1>2
  <2> QED BY <1>1, <1>4, <2>1 DEF Archives
<1>6. ArchiveOK(b)
  BY <1>4, <1>5 DEF ArchiveOK
<1>7. Follows(a, a)
  BY <1>1, FollowsItself
<1> QED BY <1>4, <1>6, <1>7 DEF Follows, Settled

\* A merged pair in place of its two segments.
LEMMA CompactKeeps ==
    ASSUME ArchiveOK(archive), NEW s \in Streams, NEW i \in Nat, i >= 1, Compact(s, i)
    PROVE  ArchiveOK(archive') /\ Follows(archive, archive')
<1> DEFINE a == archive
           b == archive'
           old == a.segs[s]
           m == [old[i] EXCEPT !.hi = old[i + 1].hi]
           q == SubSeq(old, 1, i - 1) \o <<m>> \o SubSeq(old, i + 2, Len(old))
           n == a.sealed[s]
<1>1. /\ a \in Archives /\ old \in Seq(Segment) /\ n \in Nat /\ Len(old) \in Nat
      /\ Len(a.log[s]) \in Nat
  BY ArchiveFields DEF ArchiveOK
<1>2. n <= Len(a.log[s]) /\ SegmentsTo(old, n)
  BY DEF ArchiveOK
<1>3. i + 1 <= Len(old) /\ i \in 1..Len(old) /\ i + 1 \in 1..Len(old)
  <2>1. i + 1 <= Len(old)
    BY Zenon DEF Compact
  <2> HIDE DEF old
  <2> QED BY <1>1, <2>1
<1>4. old[i] \in Segment /\ old[i + 1] \in Segment
  BY <1>1, <1>3, ElementOfSeq
<1>5. /\ m \in Segment /\ m.lo = old[i].lo /\ m.hi = old[i + 1].hi
  BY <1>4 DEF Segment
<1> HIDE DEF m
<1>6. /\ SubSeq(old, 1, i - 1) \in Seq(Segment)
      /\ Len(SubSeq(old, 1, i - 1)) = i - 1
      /\ \A k \in 1..(i - 1) : SubSeq(old, 1, i - 1)[k] = old[k]
  <2>1. \A k \in 1..(i - 1) : old[k] \in Segment
    BY <1>1, <1>3, ElementOfSeq
  <2> QED BY <1>1, <1>3, <2>1, SubSeqProperties
<1>7. /\ SubSeq(old, i + 2, Len(old)) \in Seq(Segment)
      /\ Len(SubSeq(old, i + 2, Len(old))) = Len(old) - (i + 1)
      /\ \A k \in 1..(Len(old) - (i + 1)) : SubSeq(old, i + 2, Len(old))[k] = old[i + 1 + k]
  <2>1. \A k \in (i + 2)..Len(old) : old[k] \in Segment
    BY <1>1, <1>3, ElementOfSeq
  <2>2. \A k \in 1..(Len(old) - (i + 1)) : (i + 2) + k - 1 = i + 1 + k
    BY <1>1
  <2> QED BY <1>1, <1>3, <2>1, <2>2, SubSeqProperties
<1> DEFINE front == SubSeq(old, 1, i - 1)
           back == SubSeq(old, i + 2, Len(old))
<1> HIDE DEF front, back, old
<1>8. /\ <<m>> \in Seq(Segment) /\ Len(<<m>>) = 1 /\ <<m>>[1] = m
  BY <1>5
<1> DEFINE most == front \o <<m>>
<1>9. /\ most \in Seq(Segment) /\ Len(most) = i
      /\ \A k \in 1..(i - 1) : most[k] = old[k]
      /\ most[i] = m
  <2> DEFINE one == <<m>>
  <2>1. front \in Seq(Segment) /\ Len(front) = i - 1 /\ \A k \in 1..(i - 1) : front[k] = old[k]
    BY <1>6 DEF front
  <2>2. one \in Seq(Segment) /\ Len(one) = 1 /\ one[1] = m
    BY <1>8
  <2> HIDE DEF one
  <2>3. /\ front \o one \in Seq(Segment) /\ Len(front \o one) = Len(front) + Len(one)
        /\ \A k \in 1..(Len(front) + Len(one)) :
              (front \o one)[k] = IF k <= Len(front) THEN front[k] ELSE one[k - Len(front)]
    BY <2>1, <2>2, ConcatProperties
  <2>4. i \in Nat /\ 1 <= i
    BY <1>3
  <2> QED BY <2>1, <2>2, <2>3, <2>4 DEF one
<1>10a. q = most \o back
  BY DEF front, back, old
<1>10b. back \in Seq(Segment) /\ Len(back) = Len(old) - (i + 1)
  BY <1>7 DEF back
<1> HIDE DEF q, most
<1>10. /\ q \in Seq(Segment) /\ Len(q) = Len(old) - 1 /\ q[i] = m
       /\ \A k \in 1..(i - 1) : q[k] = old[k]
       /\ \A k \in (i + 1)..(Len(old) - 1) : q[k] = old[k + 1]
  <2>1. /\ q \in Seq(Segment) /\ Len(q) = Len(most) + Len(back)
        /\ \A k \in 1..(Len(most) + Len(back)) :
              q[k] = IF k <= Len(most) THEN most[k] ELSE back[k - Len(most)]
    BY <1>9, <1>10a, <1>10b, ConcatProperties
  <2>2. Len(q) = Len(old) - 1 /\ Len(most) + Len(back) = Len(old) - 1
    BY <1>1, <1>3, <1>9, <1>10b, <2>1
  <2>3. ASSUME NEW k \in 1..i PROVE q[k] = most[k]
    <3>1. k \in 1..(Len(most) + Len(back)) /\ k <= Len(most)
      BY <1>1, <1>3, <1>9, <2>2
    <3> QED BY <2>1, <3>1
  <2>4. ASSUME NEW k \in (i + 1)..(Len(old) - 1) PROVE q[k] = old[k + 1]
    <3>1. /\ k \in 1..(Len(most) + Len(back)) /\ ~(k <= Len(most))
          /\ k - i \in 1..(Len(old) - (i + 1))
      BY <1>1, <1>3, <1>9, <2>2
    <3>2. q[k] = back[k - i]
      BY <1>9, <2>1, <3>1
    <3>3. back[k - i] = old[i + 1 + (k - i)]
      BY <1>7, <3>1 DEF back
    <3>4. i + 1 + (k - i) = k + 1
      BY <1>3, <3>1
    <3> QED BY <3>2, <3>3, <3>4
  <2>5. i \in 1..i /\ \A k \in 1..(i - 1) : k \in 1..i
    BY <1>3
  <2> QED BY <1>9, <2>1, <2>2, <2>3, <2>4, <2>5
<1>11. b = [a EXCEPT !.segs[s] = q]
  BY DEF Compact, Change, m, old, q
<1>12. Replaces(a, b, s, q, n)
  BY <1>1, <1>10, <1>11, SegmentsReplaced
<1> DEFINE L(k) == IF k <= i THEN k ELSE k + 1
           H(k) == IF k < i THEN k ELSE k + 1
<1>13. ASSUME NEW k \in 1..Len(q)
       PROVE  /\ L(k) \in 1..Len(old) /\ H(k) \in 1..Len(old) /\ L(k) <= H(k)
              /\ q[k].lo = old[L(k)].lo /\ q[k].hi = old[H(k)].hi
  <2>1. k \in Nat /\ k <= Len(old) - 1 /\ k >= 1
    BY <1>1, <1>10
  <2>2. CASE k < i
    <3>1. k \in 1..(i - 1) /\ k \in 1..Len(old) /\ L(k) = k /\ H(k) = k
      BY <1>1, <2>1, <2>2
    <3> QED BY <1>10, <2>1, <3>1
  <2>3. CASE k = i
    <3>1. L(k) = i /\ H(k) = i + 1 /\ q[k] = m
      BY <1>10, <2>1, <2>3
    <3> QED BY <1>3, <1>5, <3>1 DEF old
  <2>4. CASE k > i
    <3>1. k \in (i + 1)..(Len(old) - 1) /\ k + 1 \in 1..Len(old) /\ L(k) = k + 1 /\ H(k) = k + 1
      BY <1>1, <2>1, <2>4
    <3> QED BY <1>10, <2>1, <3>1
  <2> QED BY <2>1, <2>2, <2>3, <2>4
<1>14. \A j, k \in 1..Len(q) : j < k => H(j) < L(k)
  BY <1>1, <1>10
<1>15. \A k \in 1..(Len(q) - 1) : L(k + 1) = H(k) + 1
  BY <1>1, <1>10
<1>16. \A p \in 1..Len(old) : old[p].lo \in Nat /\ old[p].hi \in Nat
  BY <1>1, ElementOfSeq, SegmentFields
<1>17. \A p \in 1..Len(old) : 1 <= old[p].lo /\ old[p].lo <= old[p].hi /\ old[p].hi <= n
  BY <1>2 DEF SegmentsTo, old
<1>18. \A p, r \in 1..Len(old) : p < r => old[p].hi < old[r].lo
  BY <1>2 DEF SegmentsTo, InOrder, old
<1>19. H(Len(q)) = Len(old) /\ Len(q) > 0
  BY <1>1, <1>3, <1>10
<1> HIDE DEF L, H
<1>20. SegmentsTo(q, n)
  <2>1. ASSUME NEW k \in 1..Len(q)
        PROVE  1 <= q[k].lo /\ q[k].lo <= q[k].hi /\ q[k].hi <= n
    <3>1. PICK p \in 1..Len(old), r \in 1..Len(old) :
             p <= r /\ q[k].lo = old[p].lo /\ q[k].hi = old[r].hi
      BY <1>13
    <3>2. p = r \/ p < r
      BY <3>1
    <3>3. old[p].lo <= old[r].hi
      <4>1. CASE p = r
        BY <1>17, <4>1
      <4>2. CASE p < r
        <5>1. /\ old[p].lo <= old[p].hi /\ old[p].hi < old[r].lo /\ old[r].lo <= old[r].hi
              /\ old[p].lo \in Nat /\ old[p].hi \in Nat
              /\ old[r].lo \in Nat /\ old[r].hi \in Nat
          BY <1>16, <1>17, <1>18, <4>2
        <5> QED BY <5>1
      <4> QED BY <3>2, <4>1, <4>2
    <3> QED BY <1>17, <3>1, <3>3
  <2>2. \A j, k \in 1..Len(q) : j < k => q[j].hi < q[k].lo
    BY <1>13, <1>14, <1>18
  <2>3. ASSUME NEW k \in 1..(Len(q) - 1) PROVE q[k + 1].lo = q[k].hi + 1
    <3>1. k \in 1..Len(q) /\ k + 1 \in 1..Len(q)
      BY <1>1, <1>10
    <3>2. L(k + 1) = H(k) + 1 /\ L(k + 1) \in 1..Len(old) /\ H(k) \in 1..Len(old)
      BY <1>13, <1>15, <3>1
    <3>3. H(k) \in 1..(Len(old) - 1)
      BY <1>1, <3>2
    <3>4. old[H(k) + 1].lo = old[H(k)].hi + 1
      BY <1>2, <3>3 DEF SegmentsTo, Adjacent, old
    <3> QED BY <1>13, <3>1, <3>2, <3>4
  <2>4. q[Len(q)].hi = n
    <3>1. Len(q) \in 1..Len(q)
      BY <1>1, <1>10, <1>19
    <3>2. q[Len(q)].hi = old[Len(old)].hi
      BY <1>13, <1>19, <3>1
    <3>3. old[Len(old)].hi = n
      BY <1>1, <1>2, <1>3 DEF SegmentsTo, old
    <3> QED BY <3>2, <3>3
  <2> QED BY <2>1, <2>2, <2>3, <2>4 DEF SegmentsTo, InOrder, Adjacent
<1>21. ASSUME s = "occupants" PROVE Covers(q, n)
  <2> SUFFICES ASSUME NEW x \in 1..n PROVE \E k \in 1..Len(q) : x \in Rows(q[k])
    BY DEF Covers
  <2>1. PICK p \in 1..Len(old) : x \in Rows(old[p])
    BY <1>21 DEF ArchiveOK, Covers, old
  <2>2. p \in Nat /\ 1 <= p /\ p <= Len(old) /\ x \in Nat
    BY <1>1, <2>1
  <2>3. CASE p < i
    <3>1. p \in 1..(i - 1) /\ p \in 1..Len(q)
      BY <1>1, <1>10, <1>3, <2>2, <2>3
    <3>2. q[p] = old[p]
      BY <1>10, <3>1
    <3> QED BY <2>1, <3>1, <3>2
  <2>4. CASE p = i \/ p = i + 1
    <3>1. i \in 1..Len(q)
      BY <1>1, <1>3, <1>10
    <3>2. old[i].lo <= old[i].hi /\ old[i].hi < old[i + 1].lo /\ old[i + 1].lo <= old[i + 1].hi
      BY <1>3, <1>17, <1>18
    <3>3. m.lo = old[i].lo /\ m.hi = old[i + 1].hi
      BY <1>5 DEF old
    <3>4. old[p].lo <= x /\ x <= old[p].hi
      BY <1>16, <2>1, <2>2 DEF Rows
    <3>5. m.lo <= x /\ x <= m.hi /\ m.lo \in Nat /\ m.hi \in Nat
      BY <1>3, <1>16, <2>2, <2>4, <3>2, <3>3, <3>4
    <3>6. x \in Rows(q[i])
      BY <1>10, <2>2, <3>5 DEF Rows
    <3> QED BY <3>1, <3>6
  <2>5. CASE p > i + 1
    <3>1. p - 1 \in (i + 1)..(Len(old) - 1) /\ p - 1 \in 1..Len(q) /\ (p - 1) + 1 = p
      BY <1>1, <1>3, <1>10, <2>2, <2>5
    <3>2. q[p - 1] = old[p]
      BY <1>10, <3>1
    <3> QED BY <2>1, <3>1, <3>2
  <2> QED BY <2>2, <2>3, <2>4, <2>5
<1>22. ASSUME s = "rows" PROVE Coarser(a, q)
  <2> SUFFICES ASSUME NEW g \in Segment, Settled(a, g)
               PROVE  /\ \A k \in 1..Len(q) : Apart(g, q[k]) \/ IsWithin(g, q[k])
                      /\ IsIn(g, q) => IsIn(g, old)
    BY <1>22 DEF Coarser, old
  <2>1. \A p \in 1..Len(old) : Apart(g, old[p]) \/ IsWithin(g, old[p])
    BY <1>22 DEF Settled, old
  <2>2. g.lo \in Nat /\ g.hi \in Nat /\ g.lo <= g.hi
    BY SegmentFields DEF Settled
  <2>3. old[i].lo <= old[i].hi /\ old[i + 1].lo = old[i].hi + 1 /\ old[i + 1].lo <= old[i + 1].hi
    <3>1. i \in 1..(Len(old) - 1)
      BY <1>1, <1>3
    <3> QED BY <1>2, <1>3, <1>17, <3>1 DEF SegmentsTo, Adjacent, old
  <2>4. /\ old[i].lo \in Nat /\ old[i].hi \in Nat
        /\ old[i + 1].lo \in Nat /\ old[i + 1].hi \in Nat
    BY <1>3, <1>16
  <2>5. m.lo = old[i].lo /\ m.hi = old[i + 1].hi
    BY <1>5 DEF old
  <2>6. Apart(g, m) \/ IsWithin(g, m)
    BY <1>3, <2>1, <2>2, <2>3, <2>4, <2>5 DEF Apart, IsWithin
  <2>7. g # m
    BY <1>3, <2>1, <2>2, <2>3, <2>4, <2>5 DEF Apart, IsWithin
  <2>8. ASSUME NEW k \in 1..Len(q), k # i
        PROVE  \E p \in 1..Len(old) : q[k] = old[p]
    <3>1. CASE k < i
      <4>1. k \in 1..(i - 1) /\ k \in 1..Len(old)
        BY <1>1, <1>10, <3>1
      <4> QED BY <1>10, <4>1
    <3>2. CASE k > i
      <4>1. k \in (i + 1)..(Len(old) - 1) /\ k + 1 \in 1..Len(old)
        BY <1>1, <1>10, <3>2
      <4> QED BY <1>10, <4>1
    <3> QED BY <1>1, <2>8, <3>1, <3>2
  <2>9. ASSUME NEW k \in 1..Len(q) PROVE Apart(g, q[k]) \/ IsWithin(g, q[k])
    <3>1. CASE k = i
      BY <1>10, <2>6, <3>1
    <3>2. CASE k # i
      BY <2>1, <2>8, <3>2
    <3> QED BY <3>1, <3>2
  <2>10. ASSUME IsIn(g, q) PROVE IsIn(g, old)
    <3>1. PICK k \in 1..Len(q) : q[k] = g
      BY <2>10 DEF IsIn
    <3>2. k # i
      BY <1>10, <2>7, <3>1
    <3> QED BY <2>8, <3>1, <3>2 DEF IsIn
  <2> QED BY <2>9, <2>10
<1>23. ArchiveOK(a) /\ a.sealed[s] <= n /\ n <= Len(a.log[s]) /\ n \in Nat
  BY <1>1, <1>2
<1> HIDE DEF a, b, n
<1>24. ArchiveOK(b) /\ Follows(a, b)
  BY <1>12, <1>20, <1>21, <1>22, <1>23, SegmentsChange
<1> QED BY <1>24 DEF a, b

\* What a step of the archive does to it; the others leave it.
LEMMA ArchiveStep ==
    ArchiveOK(archive) /\ [LRNext]_lrvars
       => ArchiveOK(archive') /\ Follows(archive, archive')
<1> SUFFICES ASSUME ArchiveOK(archive), [LRNext]_lrvars
             PROVE  ArchiveOK(archive') /\ Follows(archive, archive')
  OBVIOUS
<1>1. archive' = archive => ArchiveOK(archive') /\ Follows(archive, archive')
  <2>1. archive \in Archives
    BY DEF ArchiveOK
  <2> QED BY <2>1, FollowsItself
<1>2. ASSUME NEW o \in Tenants, AppendRow(o) \/ Describe(o)
      PROVE  ArchiveOK(archive') /\ Follows(archive, archive')
  <2>1. CASE AppendRow(o)
    <3>1. AppendTo("rows", o) /\ "rows" \in Streams
      BY <2>1 DEF AppendRow, Streams
    <3> QED BY <3>1, AppendKeeps
  <2>2. CASE Describe(o)
    <3>1. AppendTo("occupants", o) /\ "occupants" \in Streams
      BY <2>2 DEF Describe, Streams
    <3> QED BY <3>1, AppendKeeps
  <2> QED BY <1>2, <2>1, <2>2
<1>3. ASSUME NEW s \in Streams, NEW i \in 1..MaxChanges, Compact(s, i)
      PROVE  ArchiveOK(archive') /\ Follows(archive, archive')
  <2>1. i \in Nat /\ i >= 1
    BY LRAssumption
  <2> QED BY <1>3, <2>1, CompactKeeps
<1>4. CASE Open
  BY <1>1, <1>4 DEF Open
<1>5. CASE BuildStore
  BY <1>1, <1>5 DEF BuildStore
<1>6. CASE ReadLabels
  BY <1>1, <1>6 DEF ReadLabels
<1>7. CASE FoldNext
  BY <1>1, <1>7 DEF FoldNext
<1>8. CASE Opened
  BY <1>1, <1>8 DEF Opened
<1>9. ASSUME NEW r \in Ranges, Begin(r[1], r[2])
      PROVE  ArchiveOK(archive') /\ Follows(archive, archive')
  BY <1>1, <1>9 DEF Begin
<1>10. CASE Step
  BY <1>1, <1>10 DEF Step
<1>11. CASE Finish
  BY <1>1, <1>11 DEF Finish
<1>12. CASE UNCHANGED lrvars
  BY <1>1, <1>12 DEF lrvars
<1> QED BY <1>2, <1>3, <1>4, <1>5, <1>6, <1>7, <1>8, <1>9, <1>10, <1>11, <1>12, SealKeeps,
           EvictKeeps, RestartKeeps DEF LRNext

-----------------------------------------------------------------------------
(***************************************************************************)
(* The row index: each segment and the unsealed rows are known by their    *)
(* ends, which are rows the table had.                                     *)
(***************************************************************************)
Span(w, last) ==
    \E x, y \in Nat : x <= y /\ y <= last /\ w = x + 1..y

IndexOK(a, ix) ==
    /\ ix.segs \in Seq(Segment)
    /\ \A i \in 1..Len(ix.segs) :
          LET g == ix.segs[i]
          IN 1 <= g.lo /\ g.lo <= g.hi /\ g.hi <= Len(a.log["rows"])
    /\ Span(ix.wal, Len(a.log["rows"]))

\* What CHOOSE takes of an interval.
LEMMA EndsOf ==
    ASSUME NEW x \in Int, NEW y \in Int, x <= y
    PROVE  Lowest(x..y) = x /\ Highest(x..y) = y
<1>1. x \in x..y /\ \A m \in x..y : x <= m
  OBVIOUS
<1>2. y \in x..y /\ \A m \in x..y : m <= y
  OBVIOUS
<1>3. ASSUME NEW n \in x..y, \A m \in x..y : n <= m PROVE n = x
  BY <1>1, <1>3
<1>4. ASSUME NEW n \in x..y, \A m \in x..y : m <= n PROVE n = y
  BY <1>2, <1>4
<1>5. Lowest(x..y) = x
  BY <1>1, <1>3 DEF Lowest
<1>6. Highest(x..y) = y
  BY <1>2, <1>4 DEF Highest
<1> QED BY <1>5, <1>6

LEMMA RangeOf ==
    ASSUME NEW S, NEW q \in Seq(S)
    PROVE  Range(q) = {q[i] : i \in 1..Len(q)}
  BY LenProperties DEF Range

LEMMA IndexGrows ==
    ASSUME NEW a, NEW b, ArchiveOK(a), ArchiveOK(b), Follows(a, b), NEW ix, IndexOK(a, ix)
    PROVE  IndexOK(b, ix)
<1> DEFINE la == Len(a.log["rows"])
           lb == Len(b.log["rows"])
<1>1. la \in Nat /\ lb \in Nat /\ la <= lb
  <2>1. "rows" \in Streams /\ a \in Archives /\ b \in Archives
    BY DEF Streams, ArchiveOK
  <2> QED BY <2>1, ArchiveFields DEF Follows
<1>2. \A i \in 1..Len(ix.segs) : ix.segs[i].hi \in Nat
  BY ElementOfSeq, SegmentFields DEF IndexOK
<1> HIDE DEF la, lb
<1>3. Span(ix.wal, lb)
  <2>1. Span(ix.wal, la)
    BY DEF IndexOK, la
  <2> QED BY <1>1, <2>1 DEF Span
<1>4. \A i \in 1..Len(ix.segs) :
         1 <= ix.segs[i].lo /\ ix.segs[i].lo <= ix.segs[i].hi /\ ix.segs[i].hi <= lb
  <2>1. \A i \in 1..Len(ix.segs) :
           1 <= ix.segs[i].lo /\ ix.segs[i].lo <= ix.segs[i].hi /\ ix.segs[i].hi <= la
    BY DEF IndexOK, la
  <2> QED BY <1>1, <1>2, <2>1
<1> QED BY <1>3, <1>4 DEF IndexOK, lb

\* The snapshot an open takes.
LEMMA IndexTaken ==
    ASSUME NEW a, ArchiveOK(a), NEW ix,
           ix.segs = a.segs["rows"], ix.wal = Wal(a, "rows")
    PROVE  IndexOK(a, ix)
<1> DEFINE n == a.sealed["rows"]
           l == Len(a.log["rows"])
<1>1. "rows" \in Streams /\ a \in Archives
  BY DEF Streams, ArchiveOK
<1>2. n \in Nat /\ l \in Nat /\ n <= l /\ a.segs["rows"] \in Seq(Segment)
  BY <1>1, ArchiveFields DEF ArchiveOK
<1>3. ASSUME NEW i \in 1..Len(ix.segs)
      PROVE  1 <= ix.segs[i].lo /\ ix.segs[i].lo <= ix.segs[i].hi /\ ix.segs[i].hi <= l
  <2>1. 1 <= ix.segs[i].lo /\ ix.segs[i].lo <= ix.segs[i].hi /\ ix.segs[i].hi <= n
    BY <1>1 DEF ArchiveOK, SegmentsTo
  <2>2. ix.segs[i].hi \in Nat
    BY <1>2, ElementOfSeq, SegmentFields
  <2> QED BY <1>2, <2>1, <2>2
<1>4. Span(ix.wal, l)
  BY <1>2 DEF Span, Wal
<1> QED BY <1>2, <1>3, <1>4 DEF IndexOK

LEMMA AnswerHolds ==
    ASSUME NEW a, a = archive, ArchiveOK(a), NEW ix, IndexOK(a, ix), NEW r \in Ranges
    PROVE  LET rows == ix.wal \cup UNION {g.lo..g.hi : g \in Range(ix.segs)}
               says == HasRowIn(ix, r[1], r[2])
           IN /\ says = "no" => \A n \in rows : ~Inside(n, r[1], r[2])
              /\ says = "yes" => \E n \in 1..Len(archive.log["rows"]) : Inside(n, r[1], r[2])
<1> DEFINE from == r[1]
           to == r[2]
           l == Len(a.log["rows"])
           seg == Range(ix.segs)
           says == HasRowIn(ix, from, to)
           cur == Wal(archive, "rows")
           read == {g \in seg : Straddles(g.lo, g.hi, from, to)}
           ends == \/ \E g \in seg : EndInside(g.lo, g.hi, from, to)
                   \/ ix.wal # {} /\ EndInside(Lowest(ix.wal), Highest(ix.wal), from, to)
<1>1. from \in Nat /\ to \in Nat
  BY LRAssumption
<1>2. /\ "rows" \in Streams /\ l \in Nat /\ a.sealed["rows"] \in Nat
      /\ a.sealed["rows"] <= l
  BY ArchiveFields DEF Streams, ArchiveOK
<1>3. ASSUME NEW g \in seg
      PROVE  g.lo \in Nat /\ g.hi \in Nat /\ 1 <= g.lo /\ g.lo <= g.hi /\ g.hi <= l
  <2>1. PICK i \in 1..Len(ix.segs) : ix.segs[i] = g
    BY RangeOf DEF IndexOK
  <2> QED BY <2>1, ElementOfSeq, SegmentFields DEF IndexOK
<1>4. PICK x \in Nat, y \in Nat : x <= y /\ y <= l /\ ix.wal = x + 1..y
  BY DEF IndexOK, Span
<1>5. cur = a.sealed["rows"] + 1..l
  BY DEF Wal
<1>6. ix.wal # {} => x + 1 <= y /\ Lowest(ix.wal) = x + 1 /\ Highest(ix.wal) = y
  <2> SUFFICES ASSUME ix.wal # {}
               PROVE  x + 1 <= y /\ Lowest(ix.wal) = x + 1 /\ Highest(ix.wal) = y
    OBVIOUS
  <2>1. x + 1 <= y
    BY <1>4
  <2> QED BY <1>4, <2>1, EndsOf
<1>7. says = IF ends THEN "yes"
             ELSE IF \E g \in read : Bytes(archive, "rows", g) = {} THEN "unknown"
             ELSE IF \E g \in read : \E n \in g.lo..g.hi : Inside(n, from, to) THEN "yes"
             ELSE IF ix.wal # {} /\ Straddles(Lowest(ix.wal), Highest(ix.wal), from, to)
                  THEN WalSays(ix.wal, from, to)
                  ELSE "no"
  BY DEF HasRowIn
<1> HIDE DEF seg, from, to, l, cur, says
<1>8. ASSUME says = "yes" PROVE \E n \in 1..l : Inside(n, from, to)
  <2>1. CASE \E g \in seg : EndInside(g.lo, g.hi, from, to)
    <3>1. PICK g \in seg : Inside(g.lo, from, to) \/ Inside(g.hi, from, to)
      BY <2>1 DEF EndInside
    <3>2. g.lo \in 1..l /\ g.hi \in 1..l
      BY <1>2, <1>3
    <3> QED BY <3>1, <3>2
  <2>2. CASE ix.wal # {} /\ EndInside(Lowest(ix.wal), Highest(ix.wal), from, to)
    <3>1. x + 1 \in 1..l /\ y \in 1..l
      BY <1>2, <1>4, <1>6, <2>2
    <3>2. Inside(x + 1, from, to) \/ Inside(y, from, to)
      BY <1>6, <2>2 DEF EndInside
    <3> QED BY <3>1, <3>2
  <2>3. CASE \E g \in read : \E n \in g.lo..g.hi : Inside(n, from, to)
    <3>1. PICK g \in seg : \E n \in g.lo..g.hi : Inside(n, from, to)
      BY <2>3
    <3>2. PICK n \in g.lo..g.hi : Inside(n, from, to)
      BY <3>1
    <3>3. n \in 1..l
      BY <1>2, <1>3, <3>2
    <3> QED BY <3>2, <3>3
  <2>4. CASE WalSays(ix.wal, from, to) = "yes"
    <3>1. PICK n \in cur : Inside(n, from, to)
      BY <2>4 DEF WalSays, cur
    <3>2. n \in 1..l
      BY <1>2, <1>5, <3>1 DEF l
    <3> QED BY <3>1, <3>2
  <2> QED BY <1>7, <1>8, <2>1, <2>2, <2>3, <2>4
<1>9. ASSUME says = "no", NEW g \in seg, NEW n \in g.lo..g.hi PROVE ~Inside(n, from, to)
  <2> SUFFICES ASSUME Inside(n, from, to) PROVE FALSE
    OBVIOUS
  <2>1. g.lo \in Nat /\ g.hi \in Nat /\ g.lo <= n /\ n <= g.hi /\ n \in Int
    BY <1>3
  <2>2. ~EndInside(g.lo, g.hi, from, to)
    BY <1>7, <1>9
  <2>3. Straddles(g.lo, g.hi, from, to)
    BY <1>1, <2>1, <2>2 DEF EndInside, Inside, Straddles, Ts
  <2>4. g \in read
    BY <2>3
  <2> QED BY <1>7, <1>9, <2>4
<1>10. ASSUME says = "no", NEW n \in ix.wal PROVE ~Inside(n, from, to)
  <2> SUFFICES ASSUME Inside(n, from, to) PROVE FALSE
    OBVIOUS
  <2>1. n \in Int /\ x + 1 <= n /\ n <= y /\ ix.wal # {}
    BY <1>4, <1>10
  <2>2. Lowest(ix.wal) = x + 1 /\ Highest(ix.wal) = y
    BY <1>6, <2>1
  <2>3. ~EndInside(x + 1, y, from, to)
    BY <1>7, <1>10, <2>1, <2>2
  <2>4. Straddles(x + 1, y, from, to)
    BY <1>1, <1>4, <2>1, <2>3 DEF EndInside, Inside, Straddles, Ts
  <2>5. WalSays(ix.wal, from, to) = "no"
    BY <1>7, <1>10, <2>1, <2>2, <2>4
  <2>6. cur # {} /\ Lowest(cur) = x + 1 /\ \A m \in cur : ~Inside(m, from, to)
    BY <2>2, <2>5 DEF WalSays, cur
  <2>7. a.sealed["rows"] + 1 <= l /\ Lowest(cur) = a.sealed["rows"] + 1
    <3>1. a.sealed["rows"] + 1 <= l
      BY <1>2, <1>5, <2>6 DEF l
    <3> QED BY <1>2, <1>5, <3>1, EndsOf DEF l
  <2>8. n \in cur
    BY <1>2, <1>4, <1>5, <2>1, <2>6, <2>7 DEF l
  <2> QED BY <2>6, <2>8
<1> QED BY <1>8, <1>9, <1>10 DEF says, from, to, l, seg

-----------------------------------------------------------------------------
(***************************************************************************)
(* The store and the labels of an open.                                    *)
(***************************************************************************)
\* The rows of a store's segments, and of its tail after them, in order.
StoreOK(a, store) ==
    /\ store.segs \in Seq(Segment)
    /\ \A i \in 1..Len(store.segs) : Settled(a, store.segs[i])
    /\ InOrder(store.segs)
    /\ \E x, y \in Nat : /\ x <= y /\ y <= Len(a.log["rows"])
                         /\ store.tail = x + 1..y
                         /\ \A i \in 1..Len(store.segs) : store.segs[i].hi <= x

Places(store) == 1..StoreLen(store)

DescribedBy(a) == Range(a.log["occupants"])

LEMMA PlacesOf ==
    ASSUME NEW store, store.segs \in Seq(Segment)
    PROVE  /\ StoreLen(store) \in Nat /\ Len(store.segs) \in Nat
           /\ StoreLen(store) = IF store.tail = {} THEN Len(store.segs)
                                ELSE Len(store.segs) + 1
<1>1. Len(store.segs) \in Nat
  BY LenProperties
<1>2. CASE store.tail = {}
  BY <1>1, <1>2 DEF StoreLen
<1>3. CASE store.tail # {}
  <2>1. StoreLen(store) = Len(store.segs) + 1
    BY <1>3 DEF StoreLen
  <2> QED BY <1>1, <1>3, <2>1
<1> QED BY <1>2, <1>3

\* What is listed at a place: an interval, of rows there are.
LEMMA ListedIs ==
    ASSUME NEW a, ArchiveOK(a), NEW store, StoreOK(a, store), NEW i \in Places(store)
    PROVE  \E x, y \in Nat : /\ 1 <= x /\ x <= y /\ y <= Len(a.log["rows"])
                             /\ Listed(store, i) = x..y
                             /\ i <= Len(store.segs) => x = store.segs[i].lo /\ y = store.segs[i].hi
<1>1. /\ StoreLen(store) \in Nat /\ Len(store.segs) \in Nat
      /\ StoreLen(store) = IF store.tail = {} THEN Len(store.segs) ELSE Len(store.segs) + 1
  BY PlacesOf DEF StoreOK
<1>2. i \in Nat /\ 1 <= i /\ i <= StoreLen(store)
  BY <1>1 DEF Places
<1>3. CASE i <= Len(store.segs)
  <2>1. i \in 1..Len(store.segs)
    BY <1>1, <1>2, <1>3
  <2>2. store.segs[i].lo \in Nat /\ store.segs[i].hi \in Nat
    BY <2>1, ElementOfSeq, SegmentFields DEF StoreOK
  <2>3. "rows" \in Streams /\ a \in Archives
    BY DEF ArchiveOK, Streams
  <2>4. /\ a.sealed["rows"] \in Nat /\ Len(a.log["rows"]) \in Nat
        /\ a.sealed["rows"] <= Len(a.log["rows"])
    BY <2>3, ArchiveFields DEF ArchiveOK
  <2>5. /\ 1 <= store.segs[i].lo /\ store.segs[i].lo <= store.segs[i].hi
        /\ store.segs[i].hi <= a.sealed["rows"]
    BY <2>1 DEF StoreOK, Settled
  <2>6. store.segs[i].hi <= Len(a.log["rows"])
    BY <2>2, <2>4, <2>5
  <2>7. Listed(store, i) = store.segs[i].lo..store.segs[i].hi
    BY <1>3 DEF Listed
  <2> QED BY <2>2, <2>5, <2>6, <2>7
<1>4. CASE ~(i <= Len(store.segs))
  <2>1. PICK x \in Nat, y \in Nat :
           x <= y /\ y <= Len(a.log["rows"]) /\ store.tail = x + 1..y
    BY DEF StoreOK
  <2>2. store.tail # {}
    BY <1>1, <1>2, <1>4
  <2>3. x + 1 <= y
    BY <2>1, <2>2
  <2>4. Listed(store, i) = x + 1..y
    BY <1>4, <2>1 DEF Listed
  <2>5. x + 1 \in Nat /\ 1 <= x + 1
    OBVIOUS
  <2> QED BY <1>4, <2>1, <2>3, <2>4, <2>5
<1> QED BY <1>3, <1>4

LEMMA ListedInOrder ==
    ASSUME NEW a, ArchiveOK(a), NEW store, StoreOK(a, store),
           NEW i \in Places(store), NEW j \in Places(store), i < j,
           NEW n \in Listed(store, i), NEW m \in Listed(store, j)
    PROVE  n < m
<1>1. /\ StoreLen(store) \in Nat /\ Len(store.segs) \in Nat
      /\ StoreLen(store) = IF store.tail = {} THEN Len(store.segs) ELSE Len(store.segs) + 1
  BY PlacesOf DEF StoreOK
<1>2. i \in 1..Len(store.segs) /\ j \in Nat
  BY <1>1 DEF Places
<1>3. store.segs[i].lo \in Nat /\ store.segs[i].hi \in Nat
  BY <1>2, ElementOfSeq, SegmentFields DEF StoreOK
<1>4. n \in Int /\ n <= store.segs[i].hi
  BY <1>2, <1>3 DEF Listed
<1>5. CASE j <= Len(store.segs)
  <2>1. j \in 1..Len(store.segs)
    BY <1>1, <1>2, <1>5 DEF Places
  <2>2. store.segs[j].lo \in Nat /\ store.segs[j].hi \in Nat
    BY <2>1, ElementOfSeq, SegmentFields DEF StoreOK
  <2>3. m \in Int /\ store.segs[j].lo <= m
    BY <1>5, <2>2 DEF Listed
  <2>4. store.segs[i].hi < store.segs[j].lo
    BY <1>2, <2>1 DEF StoreOK, InOrder
  <2> QED BY <1>3, <1>4, <2>2, <2>3, <2>4
<1>6. CASE ~(j <= Len(store.segs))
  <2>1. PICK x \in Nat, y \in Nat :
           /\ store.tail = x + 1..y
           /\ \A k \in 1..Len(store.segs) : store.segs[k].hi <= x
    BY DEF StoreOK
  <2>2. m \in x + 1..y
    BY <1>6, <2>1 DEF Listed
  <2>3. store.segs[i].hi <= x
    BY <1>2, <2>1
  <2> QED BY <1>3, <1>4, <2>1, <2>2, <2>3
<1> QED BY <1>5, <1>6

LEMMA StoreGrows ==
    ASSUME NEW a, NEW b, ArchiveOK(a), ArchiveOK(b), Follows(a, b),
           NEW store, StoreOK(a, store)
    PROVE  StoreOK(b, store)
<1>1. /\ "rows" \in Streams /\ a \in Archives /\ b \in Archives
  BY DEF Streams, ArchiveOK
<1>2. /\ Len(a.log["rows"]) \in Nat /\ Len(b.log["rows"]) \in Nat
      /\ Len(a.log["rows"]) <= Len(b.log["rows"])
  BY <1>1, ArchiveFields DEF Follows
<1>3. ASSUME NEW i \in 1..Len(store.segs) PROVE Settled(b, store.segs[i])
  <2>1. store.segs[i] \in Segment /\ Settled(a, store.segs[i])
    BY ElementOfSeq DEF StoreOK
  <2> QED BY <2>1 DEF Follows
<1>4. PICK x \in Nat, y \in Nat :
         /\ x <= y /\ y <= Len(a.log["rows"]) /\ store.tail = x + 1..y
         /\ \A i \in 1..Len(store.segs) : store.segs[i].hi <= x
  BY DEF StoreOK
<1>5. y <= Len(b.log["rows"])
  BY <1>2, <1>4
<1> QED BY <1>3, <1>4, <1>5 DEF StoreOK

\* A segment is apart from the others of its table and within itself.
LEMMA OwnSegmentsSettled ==
    ASSUME NEW a, ArchiveOK(a), NEW i \in 1..Len(a.segs["rows"])
    PROVE  Settled(a, a.segs["rows"][i])
<1> DEFINE q == a.segs["rows"]
<1>1. "rows" \in Streams /\ a \in Archives
  BY DEF Streams, ArchiveOK
<1>2. q \in Seq(Segment) /\ SegmentsTo(q, a.sealed["rows"]) /\ Len(q) \in Nat
  BY <1>1, ArchiveFields DEF ArchiveOK
<1>3. \A j \in 1..Len(q) : q[j].lo \in Nat /\ q[j].hi \in Nat
  BY <1>2, ElementOfSeq, SegmentFields
<1>4. 1 <= q[i].lo /\ q[i].lo <= q[i].hi /\ q[i].hi <= a.sealed["rows"]
  BY <1>2 DEF SegmentsTo
<1> SUFFICES ASSUME NEW j \in 1..Len(q) PROVE Apart(q[i], q[j]) \/ IsWithin(q[i], q[j])
  BY <1>4 DEF Settled
<1>5. CASE i = j
  BY <1>3, <1>5 DEF IsWithin
<1>6. CASE i < j
  BY <1>2, <1>6 DEF SegmentsTo, InOrder, Apart
<1>7. CASE j < i
  BY <1>2, <1>7 DEF SegmentsTo, InOrder, Apart
<1> QED BY <1>2, <1>5, <1>6, <1>7

LEMMA StoreTaken ==
    ASSUME ArchiveOK(archive)
    PROVE  StoreOK(archive, Store)
<1> DEFINE a == archive
           n == a.sealed["rows"]
           l == Len(a.log["rows"])
<1>1. "rows" \in Streams /\ a \in Archives
  BY DEF Streams, ArchiveOK
<1>2. n \in Nat /\ l \in Nat /\ n <= l /\ a.segs["rows"] \in Seq(Segment)
  BY <1>1, ArchiveFields DEF ArchiveOK
<1>3. SegmentsTo(a.segs["rows"], n)
  BY <1>1 DEF ArchiveOK
<1>4. Store.segs = a.segs["rows"] /\ Store.tail = n + 1..l
  BY DEF Store, Wal
<1>5. \A i \in 1..Len(Store.segs) : Settled(a, Store.segs[i])
  BY <1>4, OwnSegmentsSettled
<1>6. InOrder(Store.segs) /\ \A i \in 1..Len(Store.segs) : Store.segs[i].hi <= n
  BY <1>3, <1>4 DEF SegmentsTo
<1>7. \E x, y \in Nat : /\ x <= y /\ y <= Len(a.log["rows"]) /\ Store.tail = x + 1..y
                         /\ \A i \in 1..Len(Store.segs) : Store.segs[i].hi <= x
  <2>1. l <= Len(a.log["rows"])
    BY <1>2
  <2> HIDE DEF n
  <2> QED BY <1>2, <1>4, <1>6, <2>1
<1>8. Store.segs \in Seq(Segment)
  BY <1>2, <1>4
<1> QED BY <1>5, <1>6, <1>7, <1>8 DEF StoreOK

\* The labels an open reads, whatever was decoded before.
LEMMA LabelsRead ==
    ASSUME ArchiveOK(archive), NEW known
    PROVE  Labels(known) = DescribedBy(archive)
<1> DEFINE a == archive
           q == a.segs["occupants"]
           n == a.sealed["occupants"]
           log == a.log["occupants"]
           rows(g) == IF Known(known, g) # {} THEN UNION {k.lo..k.hi : k \in Known(known, g)}
                      ELSE g.lo..g.hi
           decoded == UNION {rows(g) : g \in Range(q)}
           read == (UNION {rows(g) : g \in Range(q)}) \cup Wal(a, "occupants")
<1>1. "occupants" \in Streams /\ a \in Archives
  BY DEF Streams, ArchiveOK
<1>2. /\ n \in Nat /\ Len(log) \in Nat /\ n <= Len(log) /\ q \in Seq(Segment)
      /\ log \in Seq(Tenants)
  BY <1>1, ArchiveFields DEF ArchiveOK
<1>3. SegmentsTo(q, n) /\ Covers(q, n)
  BY <1>1 DEF ArchiveOK
<1>4. Labels(known) = {log[m] : m \in read}
  BY DEF Labels
<1>5. ASSUME NEW g PROVE rows(g) = g.lo..g.hi
  BY DEF Known
<1>6. read = 1..Len(log)
  <2> DEFINE sealed == UNION {g.lo..g.hi : g \in Range(q)}
             wal == n + 1..Len(log)
  <2>1. read = sealed \cup wal
    <3>1. {rows(g) : g \in Range(q)} = {g.lo..g.hi : g \in Range(q)}
      BY <1>5
    <3>2. Wal(a, "occupants") = wal
      BY DEF Wal
    <3> HIDE DEF rows, wal
    <3>3. decoded = sealed
      BY <3>1
    <3>4. read = decoded \cup Wal(a, "occupants")
      OBVIOUS
    <3> HIDE DEF decoded, sealed, read
    <3> QED BY <3>2, <3>3, <3>4
  <2>2. Range(q) = {q[i] : i \in 1..Len(q)}
    BY <1>2, RangeOf
  <2> HIDE DEF q, n, log, rows, read
  <2>3. \A m : m \in sealed <=> \E i \in 1..Len(q) : m \in q[i].lo..q[i].hi
    BY <2>2
  <2> HIDE DEF sealed
  <2>4. ASSUME NEW m \in sealed PROVE m \in 1..Len(log)
    <3>1. PICK i \in 1..Len(q) : m \in q[i].lo..q[i].hi
      BY <2>3
    <3>2. q[i].lo \in Nat /\ q[i].hi \in Nat
      BY <1>2, ElementOfSeq, SegmentFields
    <3>3. 1 <= q[i].lo /\ q[i].hi <= n
      BY <1>3 DEF SegmentsTo
    <3> QED BY <1>2, <3>1, <3>2, <3>3
  <2>5. ASSUME NEW m \in 1..Len(log), m <= n PROVE m \in sealed
    <3>1. PICK i \in 1..Len(q) : m \in Rows(q[i])
      BY <1>2, <1>3, <2>5 DEF Covers
    <3> QED BY <2>3, <3>1 DEF Rows
  <2>6. \A m \in 1..Len(log) : m <= n \/ m \in wal
    BY <1>2
  <2>7. wal \subseteq 1..Len(log)
    BY <1>2
  <2> QED BY <2>1, <2>4, <2>5, <2>6, <2>7
<1>7. DescribedBy(a) = {log[m] : m \in 1..Len(log)}
  BY <1>2, RangeOf DEF DescribedBy
<1> QED BY <1>4, <1>6, <1>7

\* Descriptions are not taken back.
LEMMA DescriptionsStay ==
    ASSUME NEW a, NEW b, ArchiveOK(a), ArchiveOK(b), Follows(a, b)
    PROVE  DescribedBy(a) \subseteq DescribedBy(b)
<1> DEFINE la == a.log["occupants"]
           lb == b.log["occupants"]
<1>1. "occupants" \in Streams /\ a \in Archives /\ b \in Archives
  BY DEF Streams, ArchiveOK
<1>2. /\ la \in Seq(Tenants) /\ lb \in Seq(Tenants)
      /\ Len(la) \in Nat /\ Len(lb) \in Nat /\ Len(la) <= Len(lb)
      /\ \A m \in 1..Len(la) : lb[m] = la[m]
  BY <1>1, ArchiveFields DEF Follows
<1>3. Range(la) = {la[m] : m \in 1..Len(la)} /\ Range(lb) = {lb[m] : m \in 1..Len(lb)}
  BY <1>2, RangeOf
<1> QED BY <1>2, <1>3 DEF DescribedBy

-----------------------------------------------------------------------------
(***************************************************************************)
(* The open state: an entry for each segment folded, of the rows listed at *)
(* its place unless the segment is gone, and then it is gone for good; and *)
(* the series of what the entries cover.                                   *)
(***************************************************************************)
Entries == [present : BOOLEAN, lo : Nat, hi : Nat]

EntryOK(a, store, i, e) ==
    \/ e = Entry(Listed(store, i))
    \/ /\ e = Gone /\ i <= Len(store.segs)
       /\ ~IsIn(store.segs[i], a.segs["rows"])

Present(catalog) == {i \in 1..Len(catalog) : catalog[i].present}
Covered(store, catalog) == UNION {Listed(store, i) : i \in Present(catalog)}
OccsIn(a, rows) == {OccupantOf(a, n) : n \in rows}

CatalogOK(a, store, catalog) ==
    /\ catalog \in Seq(Entries) /\ Len(catalog) <= StoreLen(store)
    /\ \A i \in 1..Len(catalog) : EntryOK(a, store, i, catalog[i])

StateOK(a, store, described, state) ==
    /\ CatalogOK(a, store, state.catalog)
    /\ state.listing = {Identity(o, described) :
                          o \in OccsIn(a, Covered(store, state.catalog))}
    /\ state.unresolved \in BOOLEAN
    /\ state.unresolved \/ OccsIn(a, Covered(store, state.catalog)) \subseteq described

LEMMA EntryOfSpan ==
    ASSUME NEW x \in Nat, NEW y \in Nat, x <= y
    PROVE  Entry(x..y) = [present |-> TRUE, lo |-> x, hi |-> y]
<1>1. x..y # {}
  <2>1. x \in x..y
    OBVIOUS
  <2> QED BY <2>1
<1>2. Lowest(x..y) = x /\ Highest(x..y) = y
  BY EndsOf
<1> DEFINE rows == x..y
<1> HIDE DEF rows
<1>3. Entry(rows) = [present |-> TRUE, lo |-> Lowest(rows), hi |-> Highest(rows)]
  BY <1>1 DEF Entry, rows
<1> QED BY <1>2, <1>3 DEF rows

LEMMA CatalogFits ==
    ASSUME NEW store, store.segs \in Seq(Segment), NEW a, NEW catalog,
           CatalogOK(a, store, catalog)
    PROVE  /\ Len(catalog) \in Nat /\ 1..Len(catalog) \subseteq Places(store)
           /\ Present(catalog) \subseteq 1..Len(catalog)
<1>1. StoreLen(store) \in Nat
  BY PlacesOf
<1>2. Len(catalog) \in Nat /\ Len(catalog) <= StoreLen(store)
  BY LenProperties DEF CatalogOK
<1> QED BY <1>1, <1>2 DEF Places, Present

LEMMA CoveredRows ==
    ASSUME NEW a, ArchiveOK(a), NEW store, StoreOK(a, store), NEW catalog,
           CatalogOK(a, store, catalog)
    PROVE  Covered(store, catalog) \subseteq 1..Len(a.log["rows"])
<1> SUFFICES ASSUME NEW i \in Present(catalog), NEW n \in Listed(store, i)
             PROVE  n \in 1..Len(a.log["rows"])
  BY DEF Covered
<1>1. i \in Places(store)
  BY CatalogFits DEF StoreOK
<1>2. PICK x \in Nat, y \in Nat : 1 <= x /\ x <= y /\ y <= Len(a.log["rows"]) /\ Listed(store, i) = x..y
  BY <1>1, ListedIs
<1>3. Len(a.log["rows"]) \in Nat
  BY ArchiveFields DEF ArchiveOK, Streams
<1> QED BY <1>2, <1>3

LEMMA StateGrows ==
    ASSUME NEW a, NEW b, ArchiveOK(a), ArchiveOK(b), Follows(a, b),
           NEW store, StoreOK(a, store), NEW described, NEW state,
           StateOK(a, store, described, state)
    PROVE  StateOK(b, store, described, state)
<1> DEFINE catalog == state.catalog
           rows == Covered(store, catalog)
<1>1. CatalogOK(a, store, catalog)
  BY DEF StateOK
<1>2. rows \subseteq 1..Len(a.log["rows"])
  BY <1>1, CoveredRows
<1>3. \A n \in 1..Len(a.log["rows"]) : OccupantOf(b, n) = OccupantOf(a, n)
  BY DEF Follows, OccupantOf, Streams
<1> HIDE DEF rows
<1>4. OccsIn(b, rows) = OccsIn(a, rows)
  BY <1>2, <1>3 DEF OccsIn
<1>5. ASSUME NEW i \in 1..Len(catalog) PROVE EntryOK(b, store, i, catalog[i])
  <2>1. EntryOK(a, store, i, catalog[i])
    BY <1>1 DEF CatalogOK
  <2>2. CASE catalog[i] = Entry(Listed(store, i))
    BY <2>2 DEF EntryOK
  <2>3. CASE /\ catalog[i] = Gone /\ i <= Len(store.segs)
             /\ ~IsIn(store.segs[i], a.segs["rows"])
    <3>1. i \in 1..Len(store.segs)
      BY <2>3, PlacesOf DEF StoreOK
    <3>2. store.segs[i] \in Segment /\ Settled(a, store.segs[i])
      BY <3>1, ElementOfSeq DEF StoreOK
    <3>3. ~IsIn(store.segs[i], b.segs["rows"])
      BY <2>3, <3>2 DEF Follows
    <3> QED BY <2>3, <3>3 DEF EntryOK
  <2> QED BY <2>1, <2>2, <2>3 DEF EntryOK
<1>6. CatalogOK(b, store, catalog)
  BY <1>1, <1>5 DEF CatalogOK
<1> QED BY <1>4, <1>6 DEF StateOK, rows

\* The state after a table's first segments is that of each table that
\* begins with them.
LEMMA StateOfPrefix ==
    ASSUME NEW a, NEW store, NEW other, store.segs \in Seq(Segment), other.segs \in Seq(Segment),
           NEW described, NEW state, StateOK(a, store, described, state),
           Len(state.catalog) <= Len(store.segs), Len(state.catalog) <= Len(other.segs),
           \A i \in 1..Len(state.catalog) : other.segs[i] = store.segs[i]
    PROVE  StateOK(a, other, described, state)
<1> DEFINE catalog == state.catalog
<1>1. CatalogOK(a, store, catalog)
  BY DEF StateOK
<1>2. /\ Len(catalog) \in Nat /\ Len(store.segs) \in Nat /\ Len(other.segs) \in Nat
      /\ StoreLen(other) \in Nat /\ Len(other.segs) <= StoreLen(other)
  BY <1>1, CatalogFits, PlacesOf
<1>3. \A i \in 1..Len(catalog) : i <= Len(store.segs) /\ i <= Len(other.segs)
  BY <1>2
<1>4. \A i \in 1..Len(catalog) : Listed(other, i) = Listed(store, i)
  BY <1>3 DEF Listed
<1>5. Covered(other, catalog) = Covered(store, catalog)
  <2>1. \A i \in Present(catalog) : Listed(other, i) = Listed(store, i)
    BY <1>4 DEF Present
  <2>2. {Listed(other, i) : i \in Present(catalog)} = {Listed(store, i) : i \in Present(catalog)}
    BY <2>1
  <2> QED BY <2>2 DEF Covered
<1>6. \A i \in 1..Len(catalog) : EntryOK(a, other, i, catalog[i])
  BY <1>1, <1>3, <1>4 DEF CatalogOK, EntryOK
<1>7. CatalogOK(a, other, catalog)
  BY <1>1, <1>2, <1>6 DEF CatalogOK
<1> QED BY <1>5, <1>7 DEF StateOK

\* Series that all have their labels have them for each later reader.
LEMMA StateRedescribed ==
    ASSUME NEW a, NEW store, NEW d, NEW e, NEW state, StateOK(a, store, d, state),
           ~state.unresolved, d \subseteq e
    PROVE  StateOK(a, store, e, state)
<1> DEFINE occs == OccsIn(a, Covered(store, state.catalog))
<1>1. /\ occs \subseteq d /\ CatalogOK(a, store, state.catalog)
      /\ state.listing = {Identity(o, d) : o \in occs} /\ state.unresolved \in BOOLEAN
  BY DEF StateOK
<1> HIDE DEF occs
<1>2. \A o \in occs : Identity(o, d) = Identity(o, e)
  BY <1>1 DEF Identity
<1>3. state.listing = {Identity(o, e) : o \in occs}
  BY <1>1, <1>2
<1>4. occs \subseteq e
  BY <1>1
<1> QED BY <1>1, <1>3, <1>4 DEF StateOK, occs

LEMMA StateStarts ==
    ASSUME NEW a, NEW store, store.segs \in Seq(Segment), NEW described
    PROVE  StateOK(a, store, described, NewState)
<1>1. /\ NewState.catalog = <<>> /\ NewState.listing = {} /\ NewState.unresolved = FALSE
  BY DEF NewState
<1>2. Len(<<>>) = 0 /\ <<>> \in Seq(Entries) /\ 1..0 = {}
  BY EmptySeq
<1>3. StoreLen(store) \in Nat
  BY PlacesOf
<1>4. CatalogOK(a, store, <<>>)
  BY <1>2, <1>3 DEF CatalogOK
<1>5. Present(<<>>) = {}
  BY <1>2 DEF Present
<1>6. Covered(store, <<>>) = {}
  BY <1>5 DEF Covered
<1>7. OccsIn(a, {}) = {}
  BY DEF OccsIn
<1> QED BY <1>1, <1>4, <1>6, <1>7 DEF StateOK

\* One segment more: its rows, or none when it is gone.
LEMMA Fetched ==
    ASSUME ArchiveOK(archive), NEW store, StoreOK(archive, store), NEW i \in Places(store)
    PROVE  \/ Fetch(store, i) = Listed(store, i)
           \/ /\ Fetch(store, i) = {} /\ i <= Len(store.segs)
              /\ ~IsIn(store.segs[i], archive.segs["rows"])
<1>1. CASE i <= Len(store.segs)
  <2>1. Fetch(store, i) = Bytes(archive, "rows", store.segs[i])
    BY <1>1 DEF Fetch
  <2>2. Listed(store, i) = store.segs[i].lo..store.segs[i].hi
    BY <1>1 DEF Listed
  <2>3. archive.segs["rows"] \in Seq(Segment)
    BY ArchiveFields DEF ArchiveOK, Streams
  <2>4. CASE store.segs[i] \in Range(archive.segs["rows"])
    BY <2>1, <2>2, <2>4 DEF Bytes
  <2>5. CASE store.segs[i] \notin Range(archive.segs["rows"])
    <3>1. ~IsIn(store.segs[i], archive.segs["rows"])
      BY <2>3, <2>5, RangeOf DEF IsIn
    <3>2. Fetch(store, i) = {}
      BY <2>1, <2>5 DEF Bytes
    <3> QED BY <1>1, <3>1, <3>2
  <2> QED BY <2>4, <2>5
<1>2. CASE ~(i <= Len(store.segs))
  BY <1>2 DEF Fetch, Listed
<1> QED BY <1>1, <1>2

LEMMA FoldKeeps ==
    ASSUME ArchiveOK(archive), NEW store, StoreOK(archive, store), NEW described, NEW state,
           StateOK(archive, store, described, state), NEW n,
           n = Len(state.catalog) + 1, n <= StoreLen(store), NEW next,
           next = Folded(state, Fetch(store, n), described)
    PROVE  StateOK(archive, store, described, next) /\ Len(next.catalog) = n
<1> DEFINE a == archive
           rows == Fetch(store, n)
           e == Entry(rows)
           old == state.catalog
           new == next.catalog
<1>1. /\ CatalogOK(a, store, old) /\ old \in Seq(Entries) /\ Len(old) \in Nat
      /\ store.segs \in Seq(Segment) /\ StoreLen(store) \in Nat
      /\ Len(old) <= StoreLen(store)
  BY CatalogFits, PlacesOf DEF StateOK, CatalogOK, StoreOK
<1>2. n \in Nat /\ n \in Places(store)
  BY <1>1 DEF Places
<1>3. PICK x \in Nat, y \in Nat : x <= y /\ Listed(store, n) = x..y
  BY <1>2, ListedIs
<1>4. \/ rows = Listed(store, n)
      \/ rows = {} /\ n <= Len(store.segs) /\ ~IsIn(store.segs[n], a.segs["rows"])
  BY <1>2, Fetched
<1>5. /\ next.catalog = Append(old, e)
      /\ next.listing = state.listing \cup {Identity(o, described) : o \in OccsIn(a, rows)}
      /\ next.unresolved = (state.unresolved \/ ~(OccsIn(a, rows) \subseteq described))
  BY DEF Folded, Occs, OccsIn
<1>5a. e = Entry(rows) /\ new = Append(old, e)
  BY <1>5
<1> HIDE DEF e, old, new, rows
<1>6. EntryOK(a, store, n, e) /\ e \in Entries /\ (e.present <=> rows = Listed(store, n))
      /\ (~e.present => rows = {})
  <2>1. CASE rows = Listed(store, n)
    <3>1. e = [present |-> TRUE, lo |-> x, hi |-> y]
      BY <1>3, <1>5a, <2>1, EntryOfSpan
    <3>2. e \in Entries /\ e.present
      BY <3>1 DEF Entries
    <3> QED BY <1>5a, <2>1, <3>2 DEF EntryOK
  <2>2. CASE rows # Listed(store, n)
    <3>1. e = Gone
      BY <1>4, <1>5a, <2>2 DEF Entry
    <3>2. e = [present |-> FALSE, lo |-> 0, hi |-> 0]
      BY <3>1 DEF Gone
    <3>3. e \in Entries
      BY <3>2 DEF Entries
    <3>4. ~e.present
      BY <3>2
    <3> QED BY <1>4, <2>2, <3>1, <3>3, <3>4 DEF EntryOK
  <2> QED BY <2>1, <2>2
<1>7. /\ new \in Seq(Entries) /\ Len(new) = n /\ new[n] = e
      /\ \A i \in 1..Len(old) : new[i] = old[i]
  <2>1. n = Len(old) + 1
    BY DEF old
  <2> QED BY <1>1, <1>5a, <1>6, <2>1, AppendProperties
<1>8. 1..n = 1..Len(old) \cup {n}
  BY <1>1 DEF old
<1> HIDE DEF a
<1>9. CatalogOK(a, store, new)
  <2>1. \A i \in 1..Len(new) : EntryOK(a, store, i, new[i])
    BY <1>1, <1>6, <1>7, <1>8 DEF CatalogOK
  <2> QED BY <1>7, <2>1 DEF CatalogOK
<1>10. Covered(store, new) = Covered(store, old) \cup rows
  <2>1. CASE e.present
    <3>1. Present(new) = Present(old) \cup {n}
      BY <1>7, <1>8, <2>1 DEF Present
    <3> QED BY <1>6, <2>1, <3>1 DEF Covered
  <2>2. CASE ~e.present
    <3>1. Present(new) = Present(old)
      BY <1>7, <1>8, <2>2 DEF Present
    <3> QED BY <1>6, <2>2, <3>1 DEF Covered
  <2> QED BY <2>1, <2>2
<1>11. OccsIn(a, Covered(store, new)) = OccsIn(a, Covered(store, old)) \cup OccsIn(a, rows)
  BY <1>10 DEF OccsIn
<1>12. /\ state.listing = {Identity(o, described) : o \in OccsIn(a, Covered(store, old))}
       /\ state.unresolved \in BOOLEAN
       /\ state.unresolved \/ OccsIn(a, Covered(store, old)) \subseteq described
  BY DEF StateOK, a, old
<1>13. next.listing = {Identity(o, described) : o \in OccsIn(a, Covered(store, new))}
  <2> DEFINE P == OccsIn(a, Covered(store, old))
             Q == OccsIn(a, rows)
             R == OccsIn(a, Covered(store, new))
  <2>1. /\ R = P \cup Q /\ state.listing = {Identity(o, described) : o \in P}
        /\ next.listing = state.listing \cup {Identity(o, described) : o \in Q}
    BY <1>5, <1>11, <1>12
  <2> HIDE DEF P, Q, R
  <2>2. next.listing = {Identity(o, described) : o \in R}
    BY <2>1
  <2> QED BY <2>2 DEF R
<1>14. next.unresolved \in BOOLEAN
  BY <1>5
<1>15. next.unresolved \/ OccsIn(a, Covered(store, new)) \subseteq described
  BY <1>5, <1>11, <1>12
<1> QED BY <1>7, <1>9, <1>13, <1>14, <1>15 DEF StateOK, a, new

-----------------------------------------------------------------------------
(***************************************************************************)
(* The segment cache: one entry at most for each place, with its rows.     *)
(***************************************************************************)
Held == [idx : Nat, rows : SUBSET Int]

CacheOK(store, cache) ==
    /\ cache \in Seq(Held)
    /\ \A p \in 1..Len(cache) : /\ cache[p].idx \in Places(store)
                                /\ cache[p].rows = Listed(store, cache[p].idx)
    /\ \A p, r \in 1..Len(cache) : cache[p].idx = cache[r].idx => p = r

\* Some of the entries: f says which.
Picks(f, d, c) ==
    /\ \A k \in 1..Len(d) : f[k] \in 1..Len(c) /\ d[k] = c[f[k]]
    /\ \A k, l \in 1..Len(d) : f[k] = f[l] => k = l

LEMMA SomeOfCache ==
    ASSUME NEW store, NEW c, CacheOK(store, c), NEW d \in Seq(Held), NEW f, Picks(f, d, c)
    PROVE  CacheOK(store, d)
<1>1. /\ \A k \in 1..Len(d) : f[k] \in 1..Len(c) /\ d[k] = c[f[k]]
      /\ \A k, l \in 1..Len(d) : f[k] = f[l] => k = l
  BY DEF Picks
<1>2. \A k \in 1..Len(d) : d[k].idx \in Places(store) /\ d[k].rows = Listed(store, d[k].idx)
  BY <1>1 DEF CacheOK
<1>3. ASSUME NEW k \in 1..Len(d), NEW l \in 1..Len(d), d[k].idx = d[l].idx PROVE k = l
  <2>1. /\ f[k] \in 1..Len(c) /\ d[k] = c[f[k]]
        /\ f[l] \in 1..Len(c) /\ d[l] = c[f[l]]
    BY <1>1
  <2>2. c[f[k]].idx = c[f[l]].idx
    BY <1>3, <2>1
  <2>3. f[k] = f[l]
    BY <2>1, <2>2 DEF CacheOK
  <2> QED BY <1>1, <2>3
<1> QED BY <1>2, <1>3 DEF CacheOK

LEMMA WithoutOne ==
    ASSUME NEW S, NEW c \in Seq(S), NEW p \in 1..Len(c)
    PROVE  /\ RemoveAt(c, p) \in Seq(S) /\ Len(RemoveAt(c, p)) = Len(c) - 1
           /\ \A k \in 1..(Len(c) - 1) :
                 RemoveAt(c, p)[k] = IF k < p THEN c[k] ELSE c[k + 1]
<1> DEFINE front == SubSeq(c, 1, p - 1)
           back == SubSeq(c, p + 1, Len(c))
           n == Len(c)
<1>1. n \in Nat /\ p \in Nat /\ 1 <= p /\ p <= n
  BY LenProperties
<1>2. \A k \in 1..n : c[k] \in S
  BY ElementOfSeq
<1>3. /\ front \in Seq(S) /\ Len(front) = p - 1 /\ \A k \in 1..(p - 1) : front[k] = c[k]
  <2>1. \A k \in 1..(p - 1) : c[k] \in S
    BY <1>1, <1>2
  <2> QED BY <1>1, <2>1, SubSeqProperties
<1>4. /\ back \in Seq(S) /\ Len(back) = n - p /\ \A k \in 1..(n - p) : back[k] = c[p + k]
  <2>1. \A k \in (p + 1)..n : c[k] \in S
    BY <1>1, <1>2
  <2>2. \A k \in 1..(n - p) : (p + 1) + k - 1 = p + k
    BY <1>1
  <2> QED BY <1>1, <2>1, <2>2, SubSeqProperties
<1>5. RemoveAt(c, p) = front \o back
  BY DEF RemoveAt
<1> HIDE DEF front, back, n
<1>6. /\ front \o back \in Seq(S) /\ Len(front \o back) = Len(front) + Len(back)
      /\ \A k \in 1..(Len(front) + Len(back)) :
            (front \o back)[k] = IF k <= Len(front) THEN front[k] ELSE back[k - Len(front)]
  BY <1>3, <1>4, ConcatProperties
<1>7. Len(front) + Len(back) = n - 1
  BY <1>1, <1>3, <1>4
<1>8. ASSUME NEW k \in 1..(n - 1)
      PROVE  (front \o back)[k] = IF k < p THEN c[k] ELSE c[k + 1]
  <2>1. CASE k < p
    <3>1. k \in 1..(p - 1) /\ k <= Len(front)
      BY <1>1, <1>3, <2>1
    <3> QED BY <1>3, <1>6, <1>7, <2>1, <3>1
  <2>2. CASE ~(k < p)
    <3>1. ~(k <= Len(front)) /\ k - (p - 1) \in 1..(n - p) /\ p + (k - (p - 1)) = k + 1
      BY <1>1, <1>3, <2>2
    <3>2. (front \o back)[k] = back[k - (p - 1)]
      BY <1>3, <1>6, <1>7, <3>1
    <3> QED BY <1>4, <2>2, <3>1, <3>2
  <2> QED BY <2>1, <2>2
<1> QED BY <1>5, <1>6, <1>7, <1>8 DEF n

LEMMA DroppingKeeps ==
    ASSUME NEW store, NEW c, CacheOK(store, c), NEW i, NEW d, d = Dropping(c, i)
    PROVE  CacheOK(store, d) /\ \A k \in 1..Len(d) : d[k].idx # i
<1> DEFINE at == {p \in DOMAIN c : c[p].idx = i}
<1>1. c \in Seq(Held) /\ DOMAIN c = 1..Len(c) /\ Len(c) \in Nat
  BY LenProperties DEF CacheOK
<1>2. CASE at = {}
  <2>1. d = c
    BY <1>2 DEF Dropping
  <2> QED BY <1>1, <1>2, <2>1
<1>3. CASE at # {}
  <2> DEFINE p == CHOOSE x \in at : TRUE
             n == Len(c) - 1
  <2>1. p \in 1..Len(c) /\ c[p].idx = i
    BY <1>1, <1>3
  <2>2. d = RemoveAt(c, p)
    BY <1>3 DEF Dropping
  <2> HIDE DEF p, at
  <2>3. /\ d \in Seq(Held) /\ Len(d) = n
        /\ \A k \in 1..n : d[k] = IF k < p THEN c[k] ELSE c[k + 1]
    BY <1>1, <2>1, <2>2, WithoutOne
  <2> DEFINE f == [k \in 1..n |-> IF k < p THEN k ELSE k + 1]
  <2>4. \A k \in 1..n : f[k] = (IF k < p THEN k ELSE k + 1) /\ f[k] \in 1..Len(c) /\ f[k] # p
    BY <1>1, <2>1
  <2>6. \A k, l \in 1..n : f[k] = f[l] => k = l
    BY <1>1, <2>1, <2>4
  <2>7. \A k \in 1..n : d[k] = c[f[k]]
    BY <2>3, <2>4
  <2> HIDE DEF f
  <2>8. CacheOK(store, d)
    <3>1. Picks(f, d, c)
      BY <2>3, <2>4, <2>6, <2>7 DEF Picks
    <3> QED BY <2>3, <3>1, SomeOfCache
  <2>9. \A k \in 1..Len(d) : d[k].idx # i
    BY <2>1, <2>3, <2>4, <2>7 DEF CacheOK
  <2> QED BY <2>8, <2>9
<1> QED BY <1>2, <1>3

LEMMA UsedKeeps ==
    ASSUME NEW store, NEW c, CacheOK(store, c), NEW i \in Places(store), NEW rows \in SUBSET Int,
           rows = Listed(store, i), Places(store) \subseteq Nat
    PROVE  CacheOK(store, Used(c, [idx |-> i, rows |-> rows]))
<1> DEFINE e == [idx |-> i, rows |-> rows]
           d == Dropping(c, i)
           grown == Append(d, e)
<1>1. CacheOK(store, d) /\ \A k \in 1..Len(d) : d[k].idx # i
  BY DroppingKeeps
<1>2. e \in Held /\ e.idx = i /\ e.rows = rows
  BY DEF Held
<1>3. Used(c, e) = IF Len(grown) > CacheSize /\ Len(grown) > 1 THEN Tail(grown) ELSE grown
  BY <1>2 DEF Used
<1> HIDE DEF e, d
<1>4. d \in Seq(Held) /\ Len(d) \in Nat
  BY <1>1, LenProperties DEF CacheOK
<1>5. /\ grown \in Seq(Held) /\ Len(grown) = Len(d) + 1 /\ grown[Len(d) + 1] = e
      /\ \A k \in 1..Len(d) : grown[k] = d[k]
  BY <1>2, <1>4, AppendProperties
<1>6. \A k \in 1..Len(grown) : k \in 1..Len(d) \/ k = Len(d) + 1
  BY <1>4, <1>5
<1> HIDE DEF grown
<1>7. CacheOK(store, grown)
  <2>1. \A k \in 1..Len(grown) : grown[k].idx \in Places(store) /\ grown[k].rows = Listed(store, grown[k].idx)
    BY <1>1, <1>2, <1>5, <1>6 DEF CacheOK
  <2>2. \A k, l \in 1..Len(grown) : grown[k].idx = grown[l].idx => k = l
    BY <1>1, <1>2, <1>5, <1>6 DEF CacheOK
  <2> QED BY <1>5, <2>1, <2>2 DEF CacheOK
<1>8. CacheOK(store, Tail(grown))
  <2> DEFINE t == Tail(grown)
             n == Len(grown) - 1
             f == [k \in 1..n |-> k + 1]
  <2>1. grown # <<>>
    BY <1>4, <1>5, EmptySeq
  <2>2. t \in Seq(Held) /\ Len(t) = n /\ \A k \in 1..n : t[k] = grown[k + 1]
    BY <1>5, <2>1, HeadTailProperties
  <2>3. \A k \in 1..n : f[k] = k + 1 /\ f[k] \in 1..Len(grown)
    BY <1>4, <1>5
  <2>4. \A k, l \in 1..n : f[k] = f[l] => k = l
    BY <2>3
  <2>5. \A k \in 1..n : t[k] = grown[f[k]]
    BY <2>2, <2>3
  <2> HIDE DEF f, t
  <2>6. CacheOK(store, t)
    <3>1. Picks(f, t, grown)
      BY <2>2, <2>3, <2>4, <2>5 DEF Picks
    <3> QED BY <1>7, <2>2, <3>1, SomeOfCache
  <2> QED BY <2>6 DEF t
<1>9. CacheOK(store, Used(c, e))
  BY <1>3, <1>7, <1>8 DEF grown
<1> QED BY <1>9 DEF e

LEMMA CacheOfPrefix ==
    ASSUME NEW store, NEW other, store.segs \in Seq(Segment), other.segs \in Seq(Segment),
           NEW c, CacheOK(store, c),
           \A p \in 1..Len(c) : /\ c[p].idx <= Len(store.segs) /\ c[p].idx <= Len(other.segs)
                                /\ other.segs[c[p].idx] = store.segs[c[p].idx]
    PROVE  CacheOK(other, c)
<1>1. /\ StoreLen(store) \in Nat /\ StoreLen(other) \in Nat /\ Len(other.segs) \in Nat
      /\ Len(other.segs) <= StoreLen(other)
  BY PlacesOf
<1>2. ASSUME NEW p \in 1..Len(c)
      PROVE  c[p].idx \in Places(other) /\ c[p].rows = Listed(other, c[p].idx)
  <2>1. c[p].idx \in 1..StoreLen(store) /\ c[p].rows = Listed(store, c[p].idx)
    BY DEF CacheOK, Places
  <2>2. c[p].idx \in Places(other)
    BY <1>1, <2>1 DEF Places
  <2>3. Listed(other, c[p].idx) = Listed(store, c[p].idx)
    BY DEF Listed
  <2> QED BY <2>1, <2>2, <2>3
<1> QED BY <1>2 DEF CacheOK

-----------------------------------------------------------------------------
(***************************************************************************)
(* The reader, and what the one before it left.  What passes from one to   *)
(* the next is about the keyed segments alone, and has a label for each of *)
(* its series.                                                             *)
(***************************************************************************)
KeyStore(keys) == [segs |-> keys, tail |-> {}]

\* A state after all of a table's sealed segments.
Complete(a, keys, described, state) ==
    /\ StateOK(a, KeyStore(keys), described, state)
    /\ Len(state.catalog) = Len(keys)

Carries(a, c) ==
    /\ c = [state |-> c.state, keys |-> c.keys, cache |-> c.cache]
    /\ StoreOK(a, KeyStore(c.keys))
    /\ Complete(a, c.keys, DescribedBy(a), c.state)
    /\ ~c.state.unresolved
    /\ CacheOK(KeyStore(c.keys), c.cache)

CarriedOK(a, c) == c = None \/ Carries(a, c)

Starts(p, q) == Len(p) <= Len(q) /\ \A i \in 1..Len(p) : q[i] = p[i]

SavedOK(a, r) ==
    r.saved = None \/ /\ r.saved.keys = r.store.segs /\ ~r.saved.state.unresolved
                      /\ Complete(a, r.saved.keys, r.described, r.saved.state)

OpeningOK(a, r) ==
    /\ r = [pc |-> r.pc, index |-> r.index, store |-> r.store, before |-> r.before,
            described |-> r.described, decoded |-> r.decoded, state |-> r.state,
            reuse |-> r.reuse, sealed |-> r.sealed, saved |-> r.saved, cache |-> r.cache]
    /\ StoreOK(a, r.store)
    /\ r.before \subseteq r.described /\ r.described \subseteq DescribedBy(a)
    /\ StateOK(a, r.store, r.described, r.state)
    /\ r.sealed = None \/ Complete(a, r.store.segs, r.described, r.sealed)
    /\ SavedOK(a, r)
    /\ CacheOK(r.store, r.cache)
    /\ r.pc = "open" => Len(r.state.catalog) = StoreLen(r.store)

Phases == {"none", "listed", "built", "folding", "open", "absent"}

ReaderOK(a, r, c) ==
    /\ r.pc \in Phases
    /\ r.pc # "none" => IndexOK(a, r.index)
    /\ r.pc = "built" => StoreOK(a, r.store) /\ r.before \subseteq DescribedBy(a)
    /\ r.pc \in {"folding", "open"} => OpeningOK(a, r)
    /\ r.pc = "folding" /\ r.reuse => c # None /\ Starts(c.keys, r.store.segs)

LEMMA KeysOfStore ==
    ASSUME NEW a, ArchiveOK(a), NEW store, StoreOK(a, store)
    PROVE  StoreOK(a, KeyStore(store.segs))
<1> DEFINE k == KeyStore(store.segs)
<1>1. k.segs = store.segs /\ k.tail = {}
  BY DEF KeyStore
<1>2. PICK x \in Nat, y \in Nat :
         /\ x <= y /\ y <= Len(a.log["rows"]) /\ store.tail = x + 1..y
         /\ \A i \in 1..Len(store.segs) : store.segs[i].hi <= x
  BY DEF StoreOK
<1>3. \A i \in 1..Len(store.segs) : store.segs[i].hi \in Nat
  BY ElementOfSeq, SegmentFields DEF StoreOK
<1>4. x + 1..x = {}
  OBVIOUS
<1>5. Len(a.log["rows"]) \in Nat
  BY ArchiveFields DEF ArchiveOK, Streams
<1>6. x <= Len(a.log["rows"])
  BY <1>2, <1>5
<1>7. \E u, v \in Nat : /\ u <= v /\ v <= Len(a.log["rows"]) /\ k.tail = u + 1..v
                        /\ \A i \in 1..Len(k.segs) : k.segs[i].hi <= u
  BY <1>1, <1>2, <1>4, <1>6
<1> QED BY <1>1, <1>7 DEF StoreOK

LEMMA CompleteGrows ==
    ASSUME NEW a, NEW b, ArchiveOK(a), ArchiveOK(b), Follows(a, b), NEW keys,
           StoreOK(a, KeyStore(keys)), NEW d, NEW state, Complete(a, keys, d, state)
    PROVE  Complete(b, keys, d, state)
  BY StateGrows DEF Complete

LEMMA CompleteRedescribed ==
    ASSUME NEW a, NEW keys, NEW d, NEW e, NEW state, Complete(a, keys, d, state),
           ~state.unresolved, d \subseteq e
    PROVE  Complete(a, keys, e, state)
  BY StateRedescribed DEF Complete

LEMMA CarriedGrows ==
    ASSUME NEW a, NEW b, ArchiveOK(a), ArchiveOK(b), Follows(a, b), NEW c, CarriedOK(a, c)
    PROVE  CarriedOK(b, c)
<1> SUFFICES ASSUME Carries(a, c) PROVE Carries(b, c)
  BY DEF CarriedOK
<1>1. StoreOK(b, KeyStore(c.keys))
  BY StoreGrows DEF Carries
<1>2. Complete(b, c.keys, DescribedBy(a), c.state)
  BY CompleteGrows DEF Carries
<1>3. Complete(b, c.keys, DescribedBy(b), c.state)
  BY <1>2, DescriptionsStay, CompleteRedescribed DEF Carries
<1> QED BY <1>1, <1>3 DEF Carries

LEMMA OpeningGrows ==
    ASSUME NEW a, NEW b, ArchiveOK(a), ArchiveOK(b), Follows(a, b), NEW r, OpeningOK(a, r)
    PROVE  OpeningOK(b, r)
<1>1. StoreOK(b, r.store) /\ StoreOK(a, KeyStore(r.store.segs))
  BY StoreGrows, KeysOfStore DEF OpeningOK
<1>2. r.described \subseteq DescribedBy(b)
  BY DescriptionsStay DEF OpeningOK
<1>3. StateOK(b, r.store, r.described, r.state)
  BY StateGrows DEF OpeningOK
<1>4. r.sealed = None \/ Complete(b, r.store.segs, r.described, r.sealed)
  BY <1>1, CompleteGrows DEF OpeningOK
<1>5. SavedOK(b, r)
  <2>1. CASE r.saved = None
    BY <2>1 DEF SavedOK
  <2>2. CASE r.saved # None
    <3>1. /\ r.saved.keys = r.store.segs /\ ~r.saved.state.unresolved
          /\ Complete(a, r.saved.keys, r.described, r.saved.state)
      BY <2>2 DEF OpeningOK, SavedOK
    <3>2. Complete(b, r.saved.keys, r.described, r.saved.state)
      BY <1>1, <3>1, CompleteGrows
    <3> QED BY <3>1, <3>2 DEF SavedOK
  <2> QED BY <2>1, <2>2
<1> QED BY <1>1, <1>2, <1>3, <1>4, <1>5 DEF OpeningOK

LEMMA ReaderGrows ==
    ASSUME NEW a, NEW b, ArchiveOK(a), ArchiveOK(b), Follows(a, b), NEW r, NEW c,
           ReaderOK(a, r, c)
    PROVE  ReaderOK(b, r, c)
<1>1. r.pc # "none" => IndexOK(b, r.index)
  BY IndexGrows DEF ReaderOK
<1>2. r.pc = "built" => StoreOK(b, r.store) /\ r.before \subseteq DescribedBy(b)
  BY StoreGrows, DescriptionsStay DEF ReaderOK
<1>3. r.pc \in {"folding", "open"} => OpeningOK(b, r)
  BY OpeningGrows DEF ReaderOK
<1> QED BY <1>1, <1>2, <1>3 DEF ReaderOK

LEMMA EmptyCache == ASSUME NEW store PROVE CacheOK(store, <<>>)
<1>1. <<>> \in Seq(Held) /\ Len(<<>>) = 0 /\ 1..0 = {}
  BY EmptySeq
<1> QED BY <1>1 DEF CacheOK

LEMMA ReaderStarts == LRInit => ReaderOK(archive, reader, carried) /\ CarriedOK(archive, carried)
<1> SUFFICES ASSUME LRInit PROVE ReaderOK(archive, reader, carried) /\ CarriedOK(archive, carried)
  OBVIOUS
<1>1. reader.pc = "none" /\ carried = None
  BY DEF LRInit
<1> QED BY <1>1 DEF ReaderOK, CarriedOK, Phases

\* What a reader passes on when another is opened.
LEMMA HandoverOK ==
    ASSUME ArchiveOK(archive), ReaderOK(archive, reader, carried), CarriedOK(archive, carried)
    PROVE  CarriedOK(archive, Handover)
<1>1. CASE reader.pc = "open" /\ reader.saved # None
  <2> DEFINE keys == reader.saved.keys
             state == reader.saved.state
             cache == Dropping(reader.cache, Len(keys) + 1)
  <2>1. Handover = [state |-> state, keys |-> keys, cache |-> cache]
    BY <1>1 DEF Handover
  <2>2. OpeningOK(archive, reader)
    BY <1>1 DEF ReaderOK
  <2>3. /\ keys = reader.store.segs /\ ~state.unresolved
        /\ Complete(archive, keys, reader.described, state)
    BY <1>1, <2>2 DEF OpeningOK, SavedOK
  <2>4. /\ StoreOK(archive, reader.store) /\ CacheOK(reader.store, reader.cache)
        /\ reader.described \subseteq DescribedBy(archive) /\ reader.store.segs \in Seq(Segment)
    BY <2>2 DEF OpeningOK, StoreOK
  <2>5. StoreOK(archive, KeyStore(keys)) /\ KeyStore(keys).segs = keys
    BY <2>3, <2>4, KeysOfStore DEF KeyStore
  <2>6. Complete(archive, keys, DescribedBy(archive), state)
    BY <2>3, <2>4, CompleteRedescribed
  <2>7. /\ CacheOK(reader.store, cache)
        /\ \A k \in 1..Len(cache) : cache[k].idx # Len(keys) + 1
    BY <2>4, DroppingKeeps
  <2> HIDE DEF keys, state, cache
  <2>8. ASSUME NEW p \in 1..Len(cache) PROVE cache[p].idx <= Len(keys)
    <3>1. cache[p].idx \in 1..StoreLen(reader.store)
      BY <2>7 DEF CacheOK, Places
    <3>2. StoreLen(reader.store) \in Nat /\ Len(keys) \in Nat /\ StoreLen(reader.store) <= Len(keys) + 1
      BY <2>3, <2>4, PlacesOf
    <3> QED BY <2>7, <3>1, <3>2
  <2>9. CacheOK(KeyStore(keys), cache)
    BY <2>3, <2>4, <2>5, <2>7, <2>8, CacheOfPrefix
  <2>10. Carries(archive, Handover)
    BY <2>1, <2>3, <2>5, <2>6, <2>9 DEF Carries
  <2> QED BY <2>10 DEF CarriedOK
<1>2. CASE reader.pc = "listed" /\ carried # None
  <2>1. Carries(archive, carried)
    BY <1>2 DEF CarriedOK
  <2>2. Handover = [carried EXCEPT !.cache = <<>>]
    BY <1>2 DEF Handover
  <2>3. Handover = [state |-> carried.state, keys |-> carried.keys, cache |-> <<>>]
    BY <2>1, <2>2 DEF Carries
  <2>4. CacheOK(KeyStore(carried.keys), <<>>)
    BY EmptyCache
  <2>5. Carries(archive, Handover)
    BY <2>1, <2>3, <2>4 DEF Carries
  <2> QED BY <2>5 DEF CarriedOK
<1>3. CASE ~(reader.pc = "open" /\ reader.saved # None) /\ ~(reader.pc = "listed" /\ carried # None)
  BY <1>3 DEF Handover, CarriedOK
<1> QED BY <1>1, <1>2, <1>3

-----------------------------------------------------------------------------
(* The reader's steps, over an archive that stands still. *)

LEMMA OpenKeeps ==
    ASSUME ArchiveOK(archive), ReaderOK(archive, reader, carried), CarriedOK(archive, carried), Open
    PROVE  ReaderOK(archive, reader', carried') /\ CarriedOK(archive, carried')
<1>1. carried' = Handover
  BY DEF Open
<1>2. CarriedOK(archive, carried')
  BY <1>1, HandoverOK
<1>3. reader' = [pc |-> "listed", known |-> OccupantsKept,
                 index |-> [segs |-> archive.segs["rows"], wal |-> Wal(archive, "rows")]]
  BY DEF Open
<1>4. /\ reader'.pc = "listed" /\ reader'.index.segs = archive.segs["rows"]
      /\ reader'.index.wal = Wal(archive, "rows")
  BY <1>3
<1>5. IndexOK(archive, reader'.index)
  BY <1>4, IndexTaken
<1> QED BY <1>2, <1>4, <1>5 DEF ReaderOK, Phases

LEMMA BuildStoreKeeps ==
    ASSUME ArchiveOK(archive), ReaderOK(archive, reader, carried), BuildStore
    PROVE  ReaderOK(archive, reader', carried)
<1>1. IndexOK(archive, reader.index)
  BY DEF BuildStore, ReaderOK
<1>2. CASE reader' = [pc |-> "absent", index |-> reader.index]
  <2>1. reader'.pc = "absent" /\ reader'.index = reader.index
    BY <1>2
  <2> QED BY <1>1, <2>1 DEF ReaderOK, Phases
<1>3. CASE reader' = [pc |-> "built", known |-> reader.known, index |-> reader.index,
                      store |-> Store, described |-> {},
                      before |-> Range(archive.log["occupants"])]
  <2>1. /\ reader'.pc = "built" /\ reader'.index = reader.index /\ reader'.store = Store
        /\ reader'.before = DescribedBy(archive)
    BY <1>3 DEF DescribedBy
  <2>2. StoreOK(archive, reader'.store)
    BY <2>1, StoreTaken
  <2> QED BY <1>1, <2>1, <2>2 DEF ReaderOK, Phases
<1> QED BY <1>2, <1>3 DEF BuildStore

\* The segments a handover shares with a table.
LEMMA PrefixStarts ==
    ASSUME NEW p \in Seq(Segment), NEW q \in Seq(Segment), IsPrefix(p, q)
    PROVE  Starts(p, q)
<1>1. Len(p) \in Nat /\ Len(q) \in Nat
  BY LenProperties
<1>2. Len(p) <= Len(q) /\ SubSeq(p, 1, Len(p)) = SubSeq(q, 1, Len(p))
  BY DEF IsPrefix
<1>3. \A i \in 1..Len(p) : p[i] \in Segment /\ q[i] \in Segment
  <2>1. \A i \in 1..Len(p) : i \in 1..Len(q)
    BY <1>1, <1>2
  <2> QED BY <2>1, ElementOfSeq
<1>4. \A i \in 1..Len(p) : 1 + i - 1 = i
  OBVIOUS
<1>5. \A i \in 1..Len(p) : SubSeq(p, 1, Len(p))[i] = p[i]
  <2>1. \A i \in 1..(Len(p) - 1 + 1) : SubSeq(p, 1, Len(p))[i] = p[1 + i - 1]
    BY <1>1, <1>3, SubSeqProperties
  <2> QED BY <1>1, <1>4, <2>1
<1>6. \A i \in 1..Len(p) : SubSeq(q, 1, Len(p))[i] = q[i]
  <2>1. \A i \in 1..(Len(p) - 1 + 1) : SubSeq(q, 1, Len(p))[i] = q[1 + i - 1]
    BY <1>1, <1>3, SubSeqProperties
  <2> QED BY <1>1, <1>4, <2>1
<1> QED BY <1>2, <1>5, <1>6 DEF Starts

LEMMA StateOfStart ==
    ASSUME NEW a, NEW keys \in Seq(Segment), NEW store, store.segs \in Seq(Segment),
           Starts(keys, store.segs), NEW d, NEW state, Complete(a, keys, d, state)
    PROVE  /\ StateOK(a, store, d, state)
           /\ Len(state.catalog) = Len(store.segs) => Complete(a, store.segs, d, state)
<1>1. KeyStore(keys).segs = keys /\ KeyStore(store.segs).segs = store.segs
  BY DEF KeyStore
<1>2. /\ StateOK(a, KeyStore(keys), d, state) /\ Len(state.catalog) = Len(keys)
      /\ Len(keys) \in Nat
  BY LenProperties DEF Complete
<1>3. Len(keys) <= Len(store.segs) /\ \A i \in 1..Len(keys) : store.segs[i] = keys[i]
  BY DEF Starts
<1>4. StateOK(a, store, d, state)
  BY <1>1, <1>2, <1>3, StateOfPrefix
<1>5. StateOK(a, KeyStore(store.segs), d, state)
  BY <1>1, <1>2, <1>3, StateOfPrefix
<1> QED BY <1>4, <1>5 DEF Complete

LEMMA ReadLabelsKeeps ==
    ASSUME ArchiveOK(archive), ReaderOK(archive, reader, carried), CarriedOK(archive, carried),
           ReadLabels
    PROVE  ReaderOK(archive, reader', carried)
<1> DEFINE store == reader.store
           keys == store.segs
           described == DescribedBy(archive)
           reuse == SealedPrefix(Keys(store))
           start == IF reuse THEN carried.state ELSE NewState
           r == reader'
<1>1. /\ IndexOK(archive, reader.index) /\ StoreOK(archive, store)
      /\ reader.before \subseteq described
  BY DEF ReadLabels, ReaderOK
<1>2. Labels(reader.known) = described
  BY LabelsRead
<1>3. r = [pc |-> "folding", index |-> reader.index, store |-> store,
           before |-> reader.before, described |-> described,
           decoded |-> Range(archive.segs["occupants"]),
           state |-> start, reuse |-> reuse,
           sealed |-> IF Len(start.catalog) = Len(Keys(store)) /\ reuse THEN start ELSE None,
           saved |-> None, cache |-> <<>>]
  BY <1>2 DEF ReadLabels, OpenFrom
<1>4. keys \in Seq(Segment) /\ Keys(store) = keys
  BY <1>1 DEF StoreOK, Keys
<1>5. ASSUME reuse
      PROVE  /\ carried # None /\ Starts(carried.keys, keys)
             /\ StateOK(archive, store, described, carried.state)
             /\ Len(carried.state.catalog) = Len(keys)
                  => Complete(archive, keys, described, carried.state)
  <2>1. carried # None /\ IsPrefix(carried.keys, keys)
    BY <1>4, <1>5 DEF SealedPrefix
  <2>2. Carries(archive, carried)
    BY <2>1 DEF CarriedOK
  <2>3. carried.keys \in Seq(Segment) /\ Complete(archive, carried.keys, described, carried.state)
    BY <2>2 DEF Carries, StoreOK, KeyStore
  <2>4. Starts(carried.keys, keys)
    BY <1>4, <2>1, <2>3, PrefixStarts
  <2> QED BY <1>4, <2>1, <2>3, <2>4, StateOfStart
<1>6. StateOK(archive, store, described, start)
  BY <1>4, <1>5, StateStarts
<1>7. /\ r.pc = "folding" /\ r.index = reader.index /\ r.store = store /\ r.before = reader.before
      /\ r.described = described /\ r.state = start /\ (r.reuse <=> reuse) /\ r.saved = None
      /\ r.cache = <<>>
      /\ r.sealed = IF Len(start.catalog) = Len(keys) /\ reuse THEN start ELSE None
  BY <1>3, <1>4
<1>8. r.sealed = None \/ Complete(archive, keys, described, r.sealed)
  BY <1>5, <1>7
<1>9. CacheOK(store, <<>>)
  BY EmptyCache
<1>10. r = [pc |-> r.pc, index |-> r.index, store |-> r.store, before |-> r.before,
            described |-> r.described, decoded |-> r.decoded, state |-> r.state,
            reuse |-> r.reuse, sealed |-> r.sealed, saved |-> r.saved, cache |-> r.cache]
  BY <1>3
<1>11. r.reuse => carried # None /\ Starts(carried.keys, keys)
  BY <1>5, <1>7
<1> HIDE DEF r, start, reuse, store, described
<1>12. OpeningOK(archive, r)
  BY <1>1, <1>6, <1>7, <1>8, <1>9, <1>10 DEF OpeningOK, SavedOK, described
<1>13. ReaderOK(archive, r, carried)
  BY <1>1, <1>7, <1>11, <1>12 DEF ReaderOK, Phases
<1> QED BY <1>13 DEF r

LEMMA FoldNextKeeps ==
    ASSUME ArchiveOK(archive), ReaderOK(archive, reader, carried), FoldNext
    PROVE  ReaderOK(archive, reader', carried)
<1> DEFINE store == reader.store
           keys == store.segs
           n == Len(reader.state.catalog) + 1
           state == Folded(reader.state, Fetch(store, n), reader.described)
           sealed == IF n = Len(keys) THEN state ELSE reader.sealed
           r == reader'
<1>1. /\ OpeningOK(archive, reader) /\ reader.pc = "folding" /\ IndexOK(archive, reader.index)
      /\ reader.reuse => carried # None /\ Starts(carried.keys, keys)
  BY DEF FoldNext, ReaderOK
<1>2. /\ reader' = [reader EXCEPT !.state = state, !.sealed = sealed]
      /\ n <= StoreLen(store)
  BY DEF FoldNext, Keys
<1>3. reader = [pc |-> reader.pc, index |-> reader.index, store |-> reader.store,
                before |-> reader.before, described |-> reader.described,
                decoded |-> reader.decoded, state |-> reader.state,
                reuse |-> reader.reuse, sealed |-> reader.sealed, saved |-> reader.saved,
                cache |-> reader.cache]
  BY <1>1 DEF OpeningOK
<1> HIDE DEF state, sealed
<1>4. r = [pc |-> reader.pc, index |-> reader.index, store |-> reader.store,
           before |-> reader.before, described |-> reader.described,
           decoded |-> reader.decoded, state |-> state,
           reuse |-> reader.reuse, sealed |-> sealed, saved |-> reader.saved,
           cache |-> reader.cache]
  BY <1>2, <1>3
<1>5. /\ r.pc = "folding" /\ r.index = reader.index /\ r.store = store /\ r.before = reader.before
      /\ r.described = reader.described /\ r.state = state /\ r.reuse = reader.reuse
      /\ r.saved = reader.saved /\ r.cache = reader.cache /\ r.sealed = sealed
  BY <1>1, <1>4
<1>6. r = [pc |-> r.pc, index |-> r.index, store |-> r.store, before |-> r.before,
           described |-> r.described, decoded |-> r.decoded, state |-> r.state,
           reuse |-> r.reuse, sealed |-> r.sealed, saved |-> r.saved, cache |-> r.cache]
  BY <1>4
<1>7. /\ StoreOK(archive, store) /\ StateOK(archive, store, reader.described, reader.state)
      /\ store.segs \in Seq(Segment)
  BY <1>1 DEF OpeningOK, StoreOK
<1>8. StateOK(archive, store, reader.described, state) /\ Len(state.catalog) = n
  BY <1>2, <1>7, FoldKeeps DEF state
<1>9. sealed = None \/ Complete(archive, keys, reader.described, sealed)
  <2>1. CASE n = Len(keys)
    <3>1. sealed = state
      BY <2>1 DEF sealed
    <3>2. KeyStore(keys).segs = keys
      BY DEF KeyStore
    <3>3. Len(state.catalog) = Len(keys) /\ Len(keys) \in Nat
      BY <1>7, <1>8, <2>1, LenProperties
    <3>4. StateOK(archive, KeyStore(keys), reader.described, state)
      BY <1>7, <1>8, <3>2, <3>3, StateOfPrefix
    <3> QED BY <3>1, <3>3, <3>4 DEF Complete
  <2>2. CASE n # Len(keys)
    <3>1. sealed = reader.sealed
      BY <2>2 DEF sealed
    <3> QED BY <1>1, <3>1 DEF OpeningOK
  <2> QED BY <2>1, <2>2
<1> HIDE DEF r
<1>10. OpeningOK(archive, r)
  BY <1>1, <1>5, <1>6, <1>7, <1>8, <1>9 DEF OpeningOK, SavedOK
<1>11. ReaderOK(archive, r, carried)
  BY <1>1, <1>5, <1>10 DEF ReaderOK, Phases
<1> QED BY <1>11 DEF r

LEMMA OpenedKeeps ==
    ASSUME ArchiveOK(archive), ReaderOK(archive, reader, carried), CarriedOK(archive, carried),
           Opened
    PROVE  ReaderOK(archive, reader', carried') /\ CarriedOK(archive, carried')
<1> DEFINE store == reader.store
           keys == store.segs
           saved == IF reader.sealed # None /\ MaySave(reader.sealed)
                    THEN [state |-> reader.sealed, keys |-> Keys(store)] ELSE None
           cache == IF reader.reuse THEN Dropping(carried.cache, Len(carried.keys) + 1) ELSE <<>>
           r == reader'
<1>1. /\ OpeningOK(archive, reader) /\ reader.pc = "folding" /\ IndexOK(archive, reader.index)
      /\ reader.reuse => carried # None /\ Starts(carried.keys, keys)
  BY DEF Opened, ReaderOK
<1>2. CarriedOK(archive, carried')
  BY DEF Opened, CarriedOK
<1>3. Len(reader.state.catalog) = StoreLen(store)
  BY DEF Opened
<1>4. CASE reader' = [pc |-> "absent", index |-> reader.index]
  <2>1. reader'.pc = "absent" /\ reader'.index = reader.index
    BY <1>4
  <2>2. ReaderOK(archive, reader', carried')
    BY <1>1, <2>1 DEF ReaderOK, Phases
  <2> QED BY <1>2, <2>2
<1>5. CASE reader' = [reader EXCEPT !.pc = "open", !.saved = saved, !.cache = cache]
  <2>1. reader = [pc |-> reader.pc, index |-> reader.index, store |-> reader.store,
                  before |-> reader.before, described |-> reader.described,
                  decoded |-> reader.decoded, state |-> reader.state,
                  reuse |-> reader.reuse, sealed |-> reader.sealed, saved |-> reader.saved,
                  cache |-> reader.cache]
    BY <1>1 DEF OpeningOK
  <2> HIDE DEF saved, cache
  <2>2. r = [pc |-> "open", index |-> reader.index, store |-> reader.store,
             before |-> reader.before, described |-> reader.described,
             decoded |-> reader.decoded, state |-> reader.state,
             reuse |-> reader.reuse, sealed |-> reader.sealed, saved |-> saved,
             cache |-> cache]
    BY <1>5, <2>1
  <2>3. /\ r.pc = "open" /\ r.index = reader.index /\ r.store = store /\ r.before = reader.before
        /\ r.described = reader.described /\ r.state = reader.state /\ r.reuse = reader.reuse
        /\ r.saved = saved /\ r.cache = cache /\ r.sealed = reader.sealed
    BY <2>2
  <2>4. r = [pc |-> r.pc, index |-> r.index, store |-> r.store, before |-> r.before,
             described |-> r.described, decoded |-> r.decoded, state |-> r.state,
             reuse |-> r.reuse, sealed |-> r.sealed, saved |-> r.saved, cache |-> r.cache]
    BY <2>2
  <2>5. StoreOK(archive, store) /\ keys \in Seq(Segment)
    BY <1>1 DEF OpeningOK, StoreOK
  <2>6. SavedOK(archive, r)
    <3>1. CASE reader.sealed # None /\ MaySave(reader.sealed)
      <4>1. saved = [state |-> reader.sealed, keys |-> keys]
        BY <3>1 DEF saved, Keys
      <4>2. saved.state = reader.sealed /\ saved.keys = keys /\ ~reader.sealed.unresolved
        BY <3>1, <4>1 DEF MaySave
      <4>3. Complete(archive, keys, reader.described, reader.sealed)
        BY <1>1, <3>1 DEF OpeningOK
      <4> QED BY <2>3, <4>2, <4>3 DEF SavedOK
    <3>2. CASE ~(reader.sealed # None /\ MaySave(reader.sealed))
      <4>1. saved = None
        BY <3>2 DEF saved
      <4> QED BY <2>3, <4>1 DEF SavedOK
    <3> QED BY <3>1, <3>2
  <2>7. CacheOK(store, cache)
    <3>1. CASE reader.reuse
      <4> DEFINE k == KeyStore(carried.keys)
                 i == Len(carried.keys) + 1
      <4>1. Carries(archive, carried) /\ Starts(carried.keys, keys)
        BY <1>1, <3>1 DEF CarriedOK
      <4>2. /\ k.segs = carried.keys /\ k.tail = {} /\ carried.keys \in Seq(Segment)
            /\ CacheOK(k, carried.cache)
        BY <4>1 DEF Carries, StoreOK, KeyStore
      <4>3. cache = Dropping(carried.cache, i)
        BY <3>1 DEF cache
      <4>4. CacheOK(k, cache)
        BY <4>2, <4>3, DroppingKeeps
      <4>5. StoreLen(k) = Len(carried.keys) /\ Len(carried.keys) \in Nat /\ Len(keys) \in Nat
        BY <2>5, <4>2, PlacesOf, LenProperties
      <4> HIDE DEF k, cache
      <4>6. \A p \in 1..Len(cache) : cache[p].idx \in 1..Len(carried.keys)
        BY <4>4, <4>5 DEF CacheOK, Places
      <4>7. \A p \in 1..Len(cache) :
               /\ cache[p].idx <= Len(k.segs) /\ cache[p].idx <= Len(store.segs)
               /\ store.segs[cache[p].idx] = k.segs[cache[p].idx]
        BY <4>1, <4>2, <4>5, <4>6 DEF Starts
      <4> QED BY <2>5, <4>2, <4>4, <4>7, CacheOfPrefix
    <3>2. CASE ~reader.reuse
      BY <3>2, EmptyCache DEF cache
    <3> QED BY <3>1, <3>2
  <2> HIDE DEF r
  <2>8. OpeningOK(archive, r)
    BY <1>1, <1>3, <2>3, <2>4, <2>5, <2>6, <2>7 DEF OpeningOK
  <2>9. ReaderOK(archive, r, carried')
    BY <1>1, <2>3, <2>8 DEF ReaderOK, Phases
  <2> QED BY <1>2, <2>9 DEF r
<1>6. \/ reader' = [pc |-> "absent", index |-> reader.index]
      \/ reader' = [reader EXCEPT !.pc = "open", !.saved = saved, !.cache = cache]
  <2> DEFINE P == \A i \in DOMAIN reader.state.catalog : ~reader.state.catalog[i].present
  <2>1. reader' = IF P THEN [pc |-> "absent", index |-> reader.index]
                  ELSE [reader EXCEPT !.pc = "open", !.saved = saved, !.cache = cache]
    BY DEF Opened
  <2> HIDE DEF P
  <2> QED BY <2>1
<1> QED BY <1>4, <1>5, <1>6

\* A cache that a query left, or an open, with all the rest as it was.
Recached(r, cache) == [r EXCEPT !.cache = cache]

LEMMA CacheChangeKeeps ==
    ASSUME NEW a, NEW r, NEW c, ReaderOK(a, r, c), r.pc = "open", NEW cache,
           CacheOK(r.store, cache), NEW q, q = Recached(r, cache)
    PROVE  /\ ReaderOK(a, q, c) /\ q.pc = "open" /\ q.store = r.store /\ q.state = r.state
           /\ q.described = r.described /\ q.before = r.before /\ q.index = r.index
<1>1. OpeningOK(a, r) /\ IndexOK(a, r.index)
  BY DEF ReaderOK
<1>2. r = [pc |-> r.pc, index |-> r.index, store |-> r.store, before |-> r.before,
           described |-> r.described, decoded |-> r.decoded, state |-> r.state,
           reuse |-> r.reuse, sealed |-> r.sealed, saved |-> r.saved, cache |-> r.cache]
  BY <1>1 DEF OpeningOK
<1>3. q = [pc |-> r.pc, index |-> r.index, store |-> r.store, before |-> r.before,
           described |-> r.described, decoded |-> r.decoded, state |-> r.state,
           reuse |-> r.reuse, sealed |-> r.sealed, saved |-> r.saved, cache |-> cache]
  BY <1>2 DEF Recached
<1>4. /\ q.pc = "open" /\ q.index = r.index /\ q.store = r.store /\ q.before = r.before
      /\ q.described = r.described /\ q.state = r.state /\ q.reuse = r.reuse
      /\ q.saved = r.saved /\ q.cache = cache /\ q.sealed = r.sealed
  BY <1>3
<1>5. q = [pc |-> q.pc, index |-> q.index, store |-> q.store, before |-> q.before,
           described |-> q.described, decoded |-> q.decoded, state |-> q.state,
           reuse |-> q.reuse, sealed |-> q.sealed, saved |-> q.saved, cache |-> q.cache]
  BY <1>3
<1>6. OpeningOK(a, q)
  BY <1>1, <1>4, <1>5 DEF OpeningOK, SavedOK
<1>7. ReaderOK(a, q, c)
  BY <1>1, <1>4, <1>6 DEF ReaderOK, Phases
<1> QED BY <1>4, <1>7

-----------------------------------------------------------------------------
(***************************************************************************)
(* A query: what it has read so far is of the places before the next one,  *)
(* and it has read all of those whose segments are still there.            *)
(***************************************************************************)
Sample == [row : Nat, series : [occupant : Tenants, named : BOOLEAN]]

Kept(a, store, j) == j > Len(store.segs) \/ IsIn(store.segs[j], a.segs["rows"])

\* A sample of the rows listed at a place.
ReadsRow(a, r, q, j, s) ==
    /\ s.row \in Listed(r.store, j) /\ Inside(s.row, q.from, q.to)
    /\ s.series = Identity(OccupantOf(a, s.row), r.described)

RowsAscend(out) == \A k, l \in 1..Len(out) : k < l => out[k].row < out[l].row

ReadAll(r, q, j, out) ==
    \A n \in Listed(r.store, j) :
       Inside(n, q.from, q.to) => \E k \in 1..Len(out) : out[k].row = n

QueryOK(a, r, q) ==
    q.pc \in {"running", "done"} =>
       /\ r.pc = "open"
       /\ q = [pc |-> q.pc, from |-> q.from, to |-> q.to, idx |-> q.idx, out |-> q.out,
               count |-> q.count]
       /\ q.from \in Nat /\ q.to \in Nat /\ q.idx \in Nat
       /\ 1 <= q.idx /\ q.idx <= Len(r.state.catalog) + 1
       /\ q.out \in Seq(Sample) /\ RowsAscend(q.out)
       /\ \A k \in 1..Len(q.out) : \E j \in 1..(q.idx - 1) : ReadsRow(a, r, q, j, q.out[k])
       /\ \A j \in 1..(q.idx - 1) : Kept(a, r.store, j) => ReadAll(r, q, j, q.out)
       /\ q.pc = "done" => q.idx = Len(r.state.catalog) + 1

LEMMA LowestIs ==
    ASSUME NEW S, S \subseteq Nat, S # {}
    PROVE  Lowest(S) \in S /\ \A m \in S : Lowest(S) <= m
<1>1. \E n \in S : \A m \in S : n <= m
  BY LeastExists
<1> QED BY <1>1 DEF Lowest

LEMMA HighestIs ==
    ASSUME NEW S, NEW y \in Nat, S \subseteq 0..y, S # {}
    PROVE  Highest(S) \in S /\ \A m \in S : m <= Highest(S)
<1> DEFINE T == {y - n : n \in S}
<1>1. T \subseteq Nat /\ T # {}
  OBVIOUS
<1>2. PICK t \in T : \A k \in T : t <= k
  <2> HIDE DEF T
  <2> QED BY <1>1, LowestIs
<1>3. PICK n \in S : t = y - n
  BY <1>2
<1>4. ASSUME NEW m \in S PROVE m <= n
  <2>1. y - m \in T
    OBVIOUS
  <2>2. y - n <= y - m
    BY <1>2, <1>3, <2>1
  <2>3. n \in Nat /\ m \in Nat
    OBVIOUS
  <2> QED BY <2>2, <2>3
<1>5. \E x \in S : \A m \in S : m <= x
  BY <1>4
<1> QED BY <1>5 DEF Highest

\* The samples of a segment: its rows in the range, in order.
SamplesOK(a, d, q, rows, s) ==
    /\ s \in Seq(Sample) /\ RowsAscend(s)
    /\ \A k \in 1..Len(s) : /\ s[k].row \in rows /\ Inside(s[k].row, q.from, q.to)
                            /\ s[k].series = Identity(OccupantOf(a, s[k].row), d)
    /\ \A n \in rows : Inside(n, q.from, q.to) => \E k \in 1..Len(s) : s[k].row = n

LEMMA SamplesOf ==
    ASSUME ArchiveOK(archive), NEW rows, rows \subseteq 1..Len(archive.log["rows"]),
           NEW x \in Nat, NEW y \in Nat, rows = {} \/ rows = x..y,
           NEW q, q.from \in Nat, q.to \in Nat, NEW s, s = Samples(rows, q)
    PROVE  SamplesOK(archive, reader.described, q, rows, s)
<1> DEFINE in == {n \in rows : Ts(n) >= q.from /\ Ts(n) <= q.to}
           count == IF in = {} THEN 0 ELSE Highest(in) - Lowest(in) + 1
           low == Lowest(in)
           sample(k) == [row |-> low + k - 1,
                         series |-> Identity(OccupantOf(archive, low + k - 1), reader.described)]
           last == Len(archive.log["rows"])
<1>1. last \in Nat /\ archive.log["rows"] \in Seq(Tenants)
  BY ArchiveFields DEF ArchiveOK, Streams
<1>2. \A n \in rows : n \in Nat /\ 1 <= n /\ n <= last
  BY <1>1
<1>3. s = [k \in 1..count |-> sample(k)]
  BY DEF Samples
<1>5. \A n \in in : n \in rows /\ Inside(n, q.from, q.to)
  BY DEF Inside
<1>6. \A n \in rows : Inside(n, q.from, q.to) => n \in in
  BY DEF Inside
<1> HIDE DEF in, last
<1>4. /\ count \in Nat
      /\ \A k \in 1..count : low + k - 1 \in in
      /\ \A n \in in : low \in Nat /\ n - low + 1 \in 1..count
  <2>1. CASE in = {}
    BY <2>1
  <2>2. CASE in # {}
    <3>1. in \subseteq Nat /\ in \subseteq 0..last
      <4>1. \A n \in in : n \in Nat /\ 1 <= n /\ n <= last
        BY <1>2, <1>5
      <4> QED BY <1>1, <4>1
    <3> DEFINE high == Highest(in)
    <3>2. /\ low \in in /\ \A m \in in : low <= m
          /\ high \in in /\ \A m \in in : m <= high
      BY <1>1, <2>2, <3>1, LowestIs, HighestIs
    <3>3. rows = x..y
      BY <1>5, <2>2
    <3>5. count = high - low + 1
      BY <2>2
    <3> HIDE DEF low, high, count
    <3>4. /\ low \in Nat /\ high \in Nat /\ low <= high /\ x <= low /\ high <= y
          /\ Ts(low) >= q.from /\ Ts(high) <= q.to
      <4>1. low \in rows /\ high \in rows /\ low \in Nat /\ high \in Nat /\ low <= high
        BY <1>2, <1>5, <3>2
      <4>2. Inside(low, q.from, q.to) /\ Inside(high, q.from, q.to)
        BY <1>5, <3>2
      <4> QED BY <3>3, <4>1, <4>2 DEF Inside
    <3>6. count \in Nat
      BY <3>4, <3>5
    <3>7. ASSUME NEW k \in 1..count PROVE low + k - 1 \in in
      <4>1. low + k - 1 \in x..y /\ low <= low + k - 1 /\ low + k - 1 <= high
        BY <3>4, <3>5
      <4>2. Ts(low + k - 1) >= q.from /\ Ts(low + k - 1) <= q.to
        BY <3>4, <4>1 DEF Ts
      <4> QED BY <1>6, <3>3, <4>1, <4>2 DEF Inside
    <3>8. ASSUME NEW n \in in PROVE n - low + 1 \in 1..count
      <4>1. n \in Nat /\ low <= n /\ n <= high
        BY <3>1, <3>2
      <4> QED BY <3>4, <3>5, <4>1
    <3> QED BY <2>2, <3>4, <3>6, <3>7, <3>8
  <2> QED BY <2>1, <2>2
<1>7. \A k \in 1..count : low + k - 1 \in rows
  BY <1>4, <1>5
<1>8. \A n \in rows : OccupantOf(archive, n) \in Tenants
  BY <1>1, <1>2, ElementOfSeq DEF OccupantOf
<1> HIDE DEF count, low
<1>9. ASSUME NEW k \in 1..count PROVE sample(k) \in Sample
  <2>1. low + k - 1 \in rows
    BY <1>7
  <2>2. low + k - 1 \in Nat /\ OccupantOf(archive, low + k - 1) \in Tenants
    BY <1>2, <1>8, <2>1
  <2> QED BY <2>2 DEF Sample, Identity
<1>10. s \in Seq(Sample) /\ Len(s) = count /\ \A k \in 1..count : s[k] = sample(k)
  <2> HIDE DEF sample
  <2>1. [k \in 1..count |-> sample(k)] \in Seq(Sample)
    BY <1>4, <1>9, IsASeq
  <2>2. Len(s) = count
    BY <1>3, <1>4
  <2> QED BY <1>3, <2>1, <2>2
<1>11. \A k \in 1..count : /\ s[k].row = low + k - 1
                          /\ s[k].series = Identity(OccupantOf(archive, s[k].row), reader.described)
  BY <1>10
<1>12. RowsAscend(s)
  <2> SUFFICES ASSUME NEW k \in 1..count, NEW l \in 1..count, k < l
               PROVE  s[k].row < s[l].row
    BY <1>10 DEF RowsAscend
  <2>1. low \in Nat
    BY <1>4
  <2> QED BY <1>11, <2>1
<1>13. \A k \in 1..count : s[k].row \in rows /\ Inside(s[k].row, q.from, q.to)
  BY <1>4, <1>5, <1>11
<1>14. ASSUME NEW n \in rows, Inside(n, q.from, q.to) PROVE \E k \in 1..count : s[k].row = n
  <2>1. n \in in /\ n \in Nat
    BY <1>2, <1>6, <1>14
  <2>2. low \in Nat /\ n - low + 1 \in 1..count
    BY <1>4, <2>1
  <2>3. low + (n - low + 1) - 1 = n
    BY <2>1, <2>2
  <2> QED BY <1>11, <2>2, <2>3
<1> QED BY <1>10, <1>11, <1>12, <1>13, <1>14 DEF SamplesOK

LEMMA QueryGrows ==
    ASSUME NEW a, NEW b, ArchiveOK(a), ArchiveOK(b), Follows(a, b), NEW r, NEW c,
           ReaderOK(a, r, c), NEW q, QueryOK(a, r, q)
    PROVE  QueryOK(b, r, q)
<1> SUFFICES ASSUME q.pc \in {"running", "done"} PROVE QueryOK(b, r, q)
  BY DEF QueryOK
<1>1. r.pc = "open" /\ OpeningOK(a, r)
  BY DEF QueryOK, ReaderOK
<1>2. /\ StoreOK(a, r.store) /\ r.store.segs \in Seq(Segment)
      /\ Len(r.state.catalog) = StoreLen(r.store)
  BY <1>1 DEF OpeningOK, StoreOK
<1>3. \A j \in 1..(q.idx - 1) : j \in Places(r.store)
  BY <1>2, PlacesOf DEF QueryOK, Places
<1>4. \A n \in 1..Len(a.log["rows"]) : OccupantOf(b, n) = OccupantOf(a, n)
  BY DEF Follows, OccupantOf, Streams
<1>5. ASSUME NEW k \in 1..Len(q.out)
      PROVE  \E j \in 1..(q.idx - 1) : ReadsRow(b, r, q, j, q.out[k])
  <2>1. PICK j \in 1..(q.idx - 1) : ReadsRow(a, r, q, j, q.out[k])
    BY DEF QueryOK
  <2>2. PICK x \in Nat, y \in Nat :
           1 <= x /\ x <= y /\ y <= Len(a.log["rows"]) /\ Listed(r.store, j) = x..y
    BY <1>2, <1>3, ListedIs
  <2>3. Len(a.log["rows"]) \in Nat
    BY ArchiveFields DEF ArchiveOK, Streams
  <2>4. q.out[k].row \in 1..Len(a.log["rows"])
    BY <2>1, <2>2, <2>3 DEF ReadsRow
  <2>5. ReadsRow(b, r, q, j, q.out[k])
    BY <1>4, <2>1, <2>4 DEF ReadsRow
  <2> QED BY <2>5
<1>6. ASSUME NEW j \in 1..(q.idx - 1), Kept(b, r.store, j) PROVE Kept(a, r.store, j)
  <2>1. CASE j > Len(r.store.segs)
    BY <2>1 DEF Kept
  <2>2. CASE ~(j > Len(r.store.segs))
    <3>1. j \in 1..Len(r.store.segs)
      BY <1>2, <2>2, PlacesOf
    <3>2. r.store.segs[j] \in Segment /\ Settled(a, r.store.segs[j])
      BY <1>2, <3>1, ElementOfSeq DEF StoreOK
    <3> QED BY <1>6, <2>2, <3>2 DEF Kept, Follows
  <2> QED BY <2>1, <2>2
<1> QED BY <1>5, <1>6 DEF QueryOK

LEMMA QueryIdle ==
    ASSUME NEW a, NEW r, NEW q, QueryOK(a, r, q), r.pc # "open", NEW p
    PROVE  QueryOK(a, p, q)
  BY DEF QueryOK

LEMMA BeginKeeps ==
    ASSUME ArchiveOK(archive), ReaderOK(archive, reader, carried), NEW t \in Ranges,
           Begin(t[1], t[2])
    PROVE  QueryOK(archive, reader, query')
<1> DEFINE q == query'
<1>1. q = [pc |-> "running", from |-> t[1], to |-> t[2], idx |-> 1, out |-> <<>>,
           count |-> query.count + 1]
  BY DEF Begin
<1>2. t[1] \in Nat /\ t[2] \in Nat
  BY LRAssumption
<1>3. /\ q.pc = "running" /\ q.from = t[1] /\ q.to = t[2] /\ q.idx = 1 /\ q.out = <<>>
      /\ q = [pc |-> q.pc, from |-> q.from, to |-> q.to, idx |-> q.idx, out |-> q.out,
              count |-> q.count]
  BY <1>1
<1>4. reader.pc = "open" /\ OpeningOK(archive, reader)
  BY DEF Begin, ReaderOK
<1>5. Len(reader.state.catalog) \in Nat
  BY <1>4, CatalogFits DEF OpeningOK, StateOK, StoreOK
<1>6. <<>> \in Seq(Sample) /\ Len(<<>>) = 0 /\ 1..0 = {}
  BY EmptySeq
<1>7. RowsAscend(<<>>)
  BY <1>6 DEF RowsAscend
<1> HIDE DEF q
<1>8. 1..(q.idx - 1) = {}
  BY <1>3
<1> QED BY <1>2, <1>3, <1>4, <1>5, <1>6, <1>7, <1>8 DEF QueryOK, q

LEMMA FinishKeeps ==
    ASSUME ArchiveOK(archive), ReaderOK(archive, reader, carried),
           QueryOK(archive, reader, query), Finish
    PROVE  QueryOK(archive, reader, query')
<1> DEFINE q == query'
           n == Len(reader.state.catalog)
<1>1. query.pc = "running" /\ query.idx > n /\ q = [query EXCEPT !.pc = "done"]
  BY DEF Finish
<1>2. query = [pc |-> query.pc, from |-> query.from, to |-> query.to, idx |-> query.idx,
               out |-> query.out, count |-> query.count]
  BY <1>1 DEF QueryOK
<1>3. q = [pc |-> "done", from |-> query.from, to |-> query.to, idx |-> query.idx,
           out |-> query.out, count |-> query.count]
  BY <1>1, <1>2
<1>4. /\ q.pc = "done" /\ q.from = query.from /\ q.to = query.to /\ q.idx = query.idx
      /\ q.out = query.out
      /\ q = [pc |-> q.pc, from |-> q.from, to |-> q.to, idx |-> q.idx, out |-> q.out,
              count |-> q.count]
  BY <1>3
<1>5. reader.pc = "open" /\ OpeningOK(archive, reader)
  BY <1>1 DEF QueryOK, ReaderOK
<1>6. n \in Nat
  BY <1>5, CatalogFits DEF OpeningOK, StateOK, StoreOK
<1>7. query.idx \in Nat /\ query.idx <= n + 1
  BY <1>1 DEF QueryOK
<1>8. query.idx = n + 1
  BY <1>1, <1>6, <1>7
<1> HIDE DEF q
<1>9. QueryOK(archive, reader, q)
  BY <1>1, <1>4, <1>8 DEF QueryOK, ReadsRow, ReadAll
<1> QED BY <1>9 DEF q

\* The samples a step adds.
Adds(a, r, q, j, s) ==
    /\ s \in Seq(Sample) /\ RowsAscend(s)
    /\ \A k \in 1..Len(s) : ReadsRow(a, r, q, j, s[k])
    /\ Kept(a, r.store, j) => ReadAll(r, q, j, s)

Extended(q, s) == [q EXCEPT !.idx = q.idx + 1, !.out = q.out \o s]

LEMMA QueryExtends ==
    ASSUME NEW a, ArchiveOK(a), NEW r, NEW c, ReaderOK(a, r, c), NEW q, QueryOK(a, r, q),
           q.pc = "running", q.idx <= Len(r.state.catalog), NEW s, Adds(a, r, q, q.idx, s),
           NEW p, p = Extended(q, s),
           NEW t, t.pc = "open", t.store = r.store, t.state = r.state, t.described = r.described
    PROVE  QueryOK(a, t, p)
<1> DEFINE i == q.idx
           out == q.out
           new == q.out \o s
<1>1. /\ r.pc = "open" /\ OpeningOK(a, r)
      /\ q = [pc |-> q.pc, from |-> q.from, to |-> q.to, idx |-> q.idx, out |-> q.out,
              count |-> q.count]
      /\ q.from \in Nat /\ q.to \in Nat /\ i \in Nat /\ 1 <= i
      /\ out \in Seq(Sample) /\ RowsAscend(out)
      /\ \A k \in 1..Len(out) : \E j \in 1..(i - 1) : ReadsRow(a, r, q, j, out[k])
      /\ \A j \in 1..(i - 1) : Kept(a, r.store, j) => ReadAll(r, q, j, out)
  BY DEF QueryOK, ReaderOK
<1>2. p = [pc |-> q.pc, from |-> q.from, to |-> q.to, idx |-> i + 1, out |-> new,
           count |-> q.count]
  BY <1>1 DEF Extended
<1>3. /\ p.pc = "running" /\ p.from = q.from /\ p.to = q.to /\ p.idx = i + 1 /\ p.out = new
      /\ p = [pc |-> p.pc, from |-> p.from, to |-> p.to, idx |-> p.idx, out |-> p.out,
              count |-> p.count]
  BY <1>2
<1>4. /\ StoreOK(a, r.store) /\ r.store.segs \in Seq(Segment)
      /\ Len(r.state.catalog) = StoreLen(r.store) /\ Len(r.state.catalog) \in Nat
  BY <1>1, PlacesOf DEF OpeningOK, StoreOK
<1>5. \A j \in 1..i : j \in Places(r.store)
  BY <1>1, <1>4 DEF Places
<1>6. s \in Seq(Sample) /\ RowsAscend(s) /\ \A k \in 1..Len(s) : ReadsRow(a, r, q, i, s[k])
  BY DEF Adds
<1>7. Len(out) \in Nat /\ Len(s) \in Nat
  BY <1>1, <1>6, LenProperties
<1>8. /\ new \in Seq(Sample) /\ Len(new) = Len(out) + Len(s)
      /\ \A k \in 1..(Len(out) + Len(s)) :
            new[k] = IF k <= Len(out) THEN out[k] ELSE s[k - Len(out)]
  BY <1>1, <1>6, ConcatProperties
<1> HIDE DEF new, out, i
<1>9. \A k \in 1..Len(new) :
         \/ k \in 1..Len(out) /\ new[k] = out[k]
         \/ k > Len(out) /\ k - Len(out) \in 1..Len(s) /\ new[k] = s[k - Len(out)]
  BY <1>7, <1>8
<1>10. \A k \in 1..Len(out) : k \in 1..Len(new) /\ new[k] = out[k]
  BY <1>7, <1>8
<1>11. ASSUME NEW k \in 1..Len(s)
       PROVE  Len(out) + k \in 1..Len(new) /\ new[Len(out) + k] = s[k]
  <2>1. Len(out) + k \in 1..(Len(out) + Len(s)) /\ ~(Len(out) + k <= Len(out))
    BY <1>7
  <2>2. (Len(out) + k) - Len(out) = k
    BY <1>7
  <2> QED BY <1>8, <2>1, <2>2
<1>12. ASSUME NEW j, NEW x, ReadsRow(a, r, q, j, x) PROVE ReadsRow(a, t, p, j, x)
  BY <1>3, <1>12 DEF ReadsRow
<1>13. ASSUME NEW k \in 1..Len(new) PROVE \E j \in 1..i : ReadsRow(a, t, p, j, new[k])
  <2>1. CASE k \in 1..Len(out) /\ new[k] = out[k]
    <3>1. PICK j \in 1..(i - 1) : ReadsRow(a, r, q, j, out[k])
      BY <1>1, <2>1 DEF i, out
    <3>2. j \in 1..i
      BY <1>1 DEF i
    <3> QED BY <1>12, <2>1, <3>1, <3>2
  <2>2. CASE k > Len(out) /\ k - Len(out) \in 1..Len(s) /\ new[k] = s[k - Len(out)]
    <3>1. i \in 1..i
      BY <1>1 DEF i
    <3> QED BY <1>6, <1>12, <2>2, <3>1
  <2> QED BY <1>9, <2>1, <2>2
<1>14. RowsAscend(new)
  <2> SUFFICES ASSUME NEW k \in 1..Len(new), NEW l \in 1..Len(new), k < l
               PROVE  new[k].row < new[l].row
    BY DEF RowsAscend
  <2>1. CASE k \in 1..Len(out) /\ l \in 1..Len(out)
    BY <1>1, <1>10, <2>1 DEF RowsAscend, out
  <2>2. CASE ~(k \in 1..Len(out))
    <3>1. /\ k - Len(out) \in 1..Len(s) /\ l - Len(out) \in 1..Len(s)
          /\ k - Len(out) < l - Len(out)
          /\ new[k] = s[k - Len(out)] /\ new[l] = s[l - Len(out)]
      BY <1>7, <1>8, <1>9, <2>2
    <3> QED BY <1>6, <3>1 DEF RowsAscend
  <2>3. CASE k \in 1..Len(out) /\ ~(l \in 1..Len(out))
    <3>1. PICK j \in 1..(i - 1) : ReadsRow(a, r, q, j, out[k])
      BY <1>1, <2>3 DEF i, out
    <3>2. l - Len(out) \in 1..Len(s) /\ new[l] = s[l - Len(out)] /\ new[k] = out[k]
      BY <1>9, <1>10, <2>3
    <3>3. ReadsRow(a, r, q, i, new[l]) /\ ReadsRow(a, r, q, j, new[k])
      BY <1>6, <3>1, <3>2
    <3>4. j \in Places(r.store) /\ i \in Places(r.store) /\ j < i
      BY <1>1, <1>5 DEF i
    <3> QED BY <1>4, <3>3, <3>4, ListedInOrder DEF ReadsRow
  <2> QED BY <2>1, <2>2, <2>3
<1>15. ASSUME NEW j \in 1..i, Kept(a, t.store, j) PROVE ReadAll(t, p, j, new)
  <2> SUFFICES ASSUME NEW n \in Listed(r.store, j), Inside(n, q.from, q.to)
               PROVE  \E k \in 1..Len(new) : new[k].row = n
    BY <1>3 DEF ReadAll
  <2>1. CASE j = i
    <3>1. PICK k \in 1..Len(s) : s[k].row = n
      BY <1>15, <2>1 DEF Adds, ReadAll, i
    <3> QED BY <1>11, <3>1
  <2>2. CASE j # i
    <3>1. j \in 1..(i - 1)
      BY <1>1, <2>2 DEF i
    <3>2. PICK k \in 1..Len(out) : out[k].row = n
      BY <1>1, <1>15, <3>1 DEF ReadAll, i, out
    <3> QED BY <1>10, <3>2
  <2> QED BY <2>1, <2>2
<1>16. p.idx \in Nat /\ 1 <= p.idx /\ p.idx <= Len(r.state.catalog) + 1 /\ p.idx - 1 = i
  <2>1. i <= Len(r.state.catalog) /\ i \in Nat /\ 1 <= i
    BY <1>1 DEF i
  <2> HIDE DEF i
  <2> QED BY <1>3, <1>4, <2>1
<1> QED BY <1>1, <1>3, <1>8, <1>13, <1>14, <1>15, <1>16 DEF QueryOK

LEMMA StepKeeps ==
    ASSUME ArchiveOK(archive), ReaderOK(archive, reader, carried),
           QueryOK(archive, reader, query), Step
    PROVE  ReaderOK(archive, reader', carried) /\ QueryOK(archive, reader', query')
<1> DEFINE a == archive
           store == reader.store
           i == query.idx
           e == reader.state.catalog[i]
           touch == Touches(e, query.from, query.to)
           hit == Cached(i) # {}
           rows == IF hit THEN (CHOOSE c \in Cached(i) : TRUE).rows ELSE Fetch(store, i)
           samples == Samples(rows, query)
           s == IF touch THEN samples ELSE <<>>
           after == Used(reader.cache, [idx |-> i, rows |-> rows])
<1>1. /\ query.pc = "running" /\ i <= Len(reader.state.catalog)
      /\ query' = [query EXCEPT !.idx = i + 1,
                      !.out = IF touch THEN query.out \o samples ELSE query.out]
      /\ reader' = IF touch /\ rows # {} THEN [reader EXCEPT !.cache = after] ELSE reader
  BY DEF Step
<1>2. /\ reader.pc = "open" /\ query.from \in Nat /\ query.to \in Nat /\ i \in Nat /\ 1 <= i
      /\ query.out \in Seq(Sample)
  BY <1>1 DEF QueryOK
<1>3. OpeningOK(a, reader)
  BY <1>2 DEF ReaderOK
<1>4. /\ StoreOK(a, store) /\ store.segs \in Seq(Segment) /\ CacheOK(store, reader.cache)
      /\ CatalogOK(a, store, reader.state.catalog)
  BY <1>3 DEF OpeningOK, StateOK, StoreOK
<1>5. i \in 1..Len(reader.state.catalog) /\ i \in Places(store)
  <2>1. /\ Len(reader.state.catalog) \in Nat
        /\ 1..Len(reader.state.catalog) \subseteq Places(store)
    BY <1>4, CatalogFits
  <2> QED BY <1>1, <1>2, <2>1
<1>6. PICK x \in Nat, y \in Nat :
         1 <= x /\ x <= y /\ y <= Len(a.log["rows"]) /\ Listed(store, i) = x..y
  BY <1>4, <1>5, ListedIs
<1>7. \/ rows = Listed(store, i)
      \/ rows = {} /\ i <= Len(store.segs) /\ ~IsIn(store.segs[i], a.segs["rows"])
  <2>1. CASE hit
    <3> DEFINE c == CHOOSE z \in Cached(i) : TRUE
    <3>1. c \in Range(reader.cache) /\ c.idx = i
      BY <2>1 DEF Cached
    <3>2. reader.cache \in Seq(Held)
      BY <1>4 DEF CacheOK
    <3>3. rows = c.rows
      BY <2>1
    <3> HIDE DEF c, rows
    <3>4. PICK p \in 1..Len(reader.cache) : reader.cache[p] = c
      BY <3>1, <3>2, RangeOf
    <3> QED BY <1>4, <3>1, <3>3, <3>4 DEF CacheOK
  <2>2. CASE ~hit
    <3>1. rows = Fetch(store, i)
      BY <2>2
    <3> QED BY <1>4, <1>5, <3>1, Fetched
  <2> QED BY <2>1, <2>2
<1>8. EntryOK(a, store, i, e)
  BY <1>4, <1>5 DEF CatalogOK
<1>9. Kept(a, store, i) => rows = Listed(store, i)
  <2>1. Len(store.segs) \in Nat
    BY <1>4, PlacesOf
  <2> QED BY <1>2, <1>7, <2>1 DEF Kept
<1>10. Len(a.log["rows"]) \in Nat
  BY ArchiveFields DEF ArchiveOK, Streams
<1> HIDE DEF rows, touch, samples, e
<1>11. rows \subseteq x..y /\ (rows = {} \/ rows = x..y) /\ x..y \subseteq 1..Len(a.log["rows"])
  BY <1>6, <1>7, <1>10
<1>12. Adds(a, reader, query, i, s)
  <2>1. CASE touch
    <3>1. s = Samples(rows, query) /\ rows \subseteq 1..Len(a.log["rows"])
      BY <1>11, <2>1 DEF samples
    <3> HIDE DEF s
    <3>2. /\ s \in Seq(Sample) /\ RowsAscend(s)
          /\ \A k \in 1..Len(s) : /\ s[k].row \in rows /\ Inside(s[k].row, query.from, query.to)
                                  /\ s[k].series = Identity(OccupantOf(archive, s[k].row),
                                                            reader.described)
          /\ \A n \in rows : Inside(n, query.from, query.to) => \E k \in 1..Len(s) : s[k].row = n
      <4> HIDE DEF i
      <4>1. SamplesOK(archive, reader.described, query, rows, s)
        BY <1>2, <1>11, <3>1, SamplesOf
      <4> QED BY <4>1 DEF SamplesOK
    <3>3. \A k \in 1..Len(s) : ReadsRow(a, reader, query, i, s[k])
      BY <1>6, <1>11, <3>2 DEF ReadsRow
    <3>4. Kept(a, store, i) => ReadAll(reader, query, i, s)
      BY <1>9, <3>2 DEF ReadAll
    <3> QED BY <3>2, <3>3, <3>4 DEF Adds
  <2>2. CASE ~touch
    <3>1. s = <<>> /\ Len(s) = 0 /\ s \in Seq(Sample) /\ 1..0 = {}
      BY <2>2, EmptySeq
    <3> HIDE DEF s
    <3>2. RowsAscend(s) /\ \A k \in 1..Len(s) : ReadsRow(a, reader, query, i, s[k])
      BY <3>1 DEF RowsAscend
    <3>3. ASSUME Kept(a, store, i), NEW n \in Listed(store, i), Inside(n, query.from, query.to)
          PROVE  FALSE
      <4>1. Len(store.segs) \in Nat
        BY <1>4, PlacesOf
      <4>2. e = Entry(x..y)
        BY <1>2, <1>6, <1>8, <3>3, <4>1 DEF EntryOK, Kept
      <4>3. e = [present |-> TRUE, lo |-> x, hi |-> y]
        BY <1>6, <4>2, EntryOfSpan
      <4>4. ~(Ts(x) <= query.to /\ Ts(y) >= query.from)
        BY <2>2, <4>3 DEF touch, Touches
      <4>5. n \in x..y
        BY <1>6, <3>3
      <4> QED BY <1>2, <3>3, <4>4, <4>5 DEF Inside, Ts
    <3>4. Kept(a, store, i) => ReadAll(reader, query, i, s)
      BY <3>3 DEF ReadAll
    <3> QED BY <3>1, <3>2, <3>4 DEF Adds
  <2> QED BY <2>1, <2>2
<1>13. query' = Extended(query, s)
  <2> USE DEF Extended
  <2>1. CASE touch
    BY <1>1, <2>1
  <2>2. CASE ~touch
    <3>1. query.out \o <<>> = query.out
      BY <1>2, ConcatEmptySeq
    <3> QED BY <1>1, <2>2, <3>1
  <2> QED BY <2>1, <2>2
<1>14. /\ ReaderOK(a, reader', carried)
       /\ reader'.pc = "open" /\ reader'.store = reader.store /\ reader'.state = reader.state
       /\ reader'.described = reader.described
  <2>1. CASE touch /\ rows # {}
    <3>1. reader' = Recached(reader, after)
      BY <1>1, <2>1 DEF Recached
    <3>2. rows = Listed(store, i)
      BY <1>7, <2>1
    <3>3. rows \in SUBSET Int
      BY <1>11
    <3>4. Places(store) \subseteq Nat
      BY <1>4, PlacesOf DEF Places
    <3>5. CacheOK(store, after)
      BY <1>4, <1>5, <3>2, <3>3, <3>4, UsedKeeps
    <3> HIDE DEF after
    <3> QED BY <1>2, <3>1, <3>5, CacheChangeKeeps
  <2>2. CASE ~(touch /\ rows # {})
    BY <1>1, <1>2, <2>2
  <2> QED BY <2>1, <2>2
<1> HIDE DEF s, i
<1>15. QueryOK(a, reader', query')
  <2>1. query.pc = "running" /\ query.idx <= Len(reader.state.catalog)
    BY <1>1 DEF i
  <2>2. Adds(archive, reader, query, query.idx, s)
    BY <1>12 DEF i
  <2>3. /\ reader'.pc = "open" /\ reader'.store = reader.store
        /\ reader'.state = reader.state /\ reader'.described = reader.described
    BY <1>14
  <2> DEFINE t == reader'
             p == query'
  <2>4. p = Extended(query, s)
    BY <1>13
  <2>5. QueryOK(archive, reader, query) /\ ReaderOK(archive, reader, carried)
        /\ ArchiveOK(archive)
    OBVIOUS
  <2> HIDE DEF t, p
  <2>6. QueryOK(archive, t, p)
    BY <2>1, <2>2, <2>3, <2>4, <2>5, QueryExtends DEF t
  <2> QED BY <2>6 DEF t, p
<1> QED BY <1>14, <1>15

-----------------------------------------------------------------------------
(* The invariant of archive, reader and query. *)
ReaderInv ==
    /\ ArchiveOK(archive)
    /\ ReaderOK(archive, reader, carried) /\ CarriedOK(archive, carried)
    /\ QueryOK(archive, reader, query)

LEMMA ReadingStarts == LRInit => ReaderInv
<1> SUFFICES ASSUME LRInit PROVE ReaderInv
  OBVIOUS
<1>1. query.pc = "none"
  BY DEF LRInit
<1> QED BY <1>1, ArchiveStarts, ReaderStarts DEF ReaderInv, QueryOK

LEMMA ReadingStep == ReaderInv /\ [LRNext]_lrvars => ReaderInv'
<1> SUFFICES ASSUME ReaderInv, [LRNext]_lrvars PROVE ReaderInv'
  OBVIOUS
<1>1. /\ ArchiveOK(archive) /\ ReaderOK(archive, reader, carried) /\ CarriedOK(archive, carried)
      /\ QueryOK(archive, reader, query)
  BY DEF ReaderInv
<1>2. ArchiveOK(archive') /\ Follows(archive, archive')
  BY <1>1, ArchiveStep
<1>3. ASSUME reader' = reader, carried' = carried, query' = query PROVE ReaderInv'
  <2>1. ReaderOK(archive', reader, carried) /\ CarriedOK(archive', carried)
    BY <1>1, <1>2, ReaderGrows, CarriedGrows
  <2>2. QueryOK(archive', reader, query)
    BY <1>1, <1>2, QueryGrows
  <2> QED BY <1>2, <1>3, <2>1, <2>2 DEF ReaderInv
<1>4. ASSUME NEW o \in Tenants, AppendRow(o) \/ Describe(o) PROVE ReaderInv'
  BY <1>3, <1>4 DEF AppendRow, Describe
<1>5. ASSUME NEW s \in Streams, Seal(s) \/ \E i \in 1..MaxChanges : Compact(s, i) PROVE ReaderInv'
  BY <1>3, <1>5 DEF Seal, Compact, Change
<1>6. CASE EvictBefore \/ Restart
  BY <1>3, <1>6 DEF EvictBefore, Restart, Change
<1>7. CASE Open
  <2>1. archive' = archive /\ query'.pc = "none"
    BY <1>7 DEF Open
  <2>2. ReaderOK(archive, reader', carried') /\ CarriedOK(archive, carried')
    BY <1>1, <1>7, OpenKeeps
  <2> QED BY <1>1, <2>1, <2>2 DEF ReaderInv, QueryOK
<1>8. CASE BuildStore
  <2>1. archive' = archive /\ carried' = carried /\ query' = query /\ reader.pc # "open"
    BY <1>8 DEF BuildStore
  <2>2. ReaderOK(archive, reader', carried)
    BY <1>1, <1>8, BuildStoreKeeps
  <2> QED BY <1>1, <2>1, <2>2, QueryIdle DEF ReaderInv
<1>9. CASE ReadLabels
  <2>1. archive' = archive /\ carried' = carried /\ query' = query /\ reader.pc # "open"
    BY <1>9 DEF ReadLabels
  <2>2. ReaderOK(archive, reader', carried)
    BY <1>1, <1>9, ReadLabelsKeeps
  <2> QED BY <1>1, <2>1, <2>2, QueryIdle DEF ReaderInv
<1>10. CASE FoldNext
  <2>1. archive' = archive /\ carried' = carried /\ query' = query /\ reader.pc # "open"
    BY <1>10 DEF FoldNext
  <2>2. ReaderOK(archive, reader', carried)
    BY <1>1, <1>10, FoldNextKeeps
  <2> QED BY <1>1, <2>1, <2>2, QueryIdle DEF ReaderInv
<1>11. CASE Opened
  <2>1. archive' = archive /\ query' = query /\ reader.pc # "open"
    BY <1>11 DEF Opened
  <2>2. ReaderOK(archive, reader', carried') /\ CarriedOK(archive, carried')
    BY <1>1, <1>11, OpenedKeeps
  <2> QED BY <1>1, <2>1, <2>2, QueryIdle DEF ReaderInv
<1>12. ASSUME NEW r \in Ranges, Begin(r[1], r[2]) PROVE ReaderInv'
  <2>1. archive' = archive /\ carried' = carried /\ reader' = reader
    BY <1>12 DEF Begin
  <2>2. QueryOK(archive, reader, query')
    BY <1>1, <1>12, BeginKeeps
  <2> QED BY <1>1, <2>1, <2>2 DEF ReaderInv
<1>13. CASE Step
  <2>1. archive' = archive /\ carried' = carried
    BY <1>13 DEF Step
  <2>2. ReaderOK(archive, reader', carried) /\ QueryOK(archive, reader', query')
    BY <1>1, <1>13, StepKeeps
  <2> QED BY <1>1, <2>1, <2>2 DEF ReaderInv
<1>14. CASE Finish
  <2>1. archive' = archive /\ carried' = carried /\ reader' = reader
    BY <1>14 DEF Finish
  <2>2. QueryOK(archive, reader, query')
    BY <1>1, <1>14, FinishKeeps
  <2> QED BY <1>1, <2>1, <2>2 DEF ReaderInv
<1>15. CASE UNCHANGED lrvars
  BY <1>3, <1>15 DEF lrvars
<1> QED BY <1>4, <1>5, <1>6, <1>7, <1>8, <1>9, <1>10, <1>11, <1>12, <1>13, <1>14, <1>15 DEF LRNext

-----------------------------------------------------------------------------
(***************************************************************************)
(* What the invariant says of each property.                               *)
(***************************************************************************)
LEMMA AnswersOf == ReaderInv => AnswerIsTrue
<1> SUFFICES ASSUME ReaderInv, reader.pc # "none", NEW r \in Ranges
             PROVE  LET index == reader.index
                        rows  == index.wal \cup UNION {g.lo..g.hi : g \in Range(index.segs)}
                        says  == HasRowIn(index, r[1], r[2])
                    IN /\ says = "no" => \A n \in rows : ~Inside(n, r[1], r[2])
                       /\ says = "yes" => \E n \in 1..Len(archive.log["rows"]) :
                                              Inside(n, r[1], r[2])
  BY DEF AnswerIsTrue
<1> DEFINE a == archive
<1>1. a = archive
  OBVIOUS
<1>2. ArchiveOK(a) /\ IndexOK(a, reader.index)
  BY DEF ReaderInv, ReaderOK
<1> HIDE DEF a
<1> QED BY <1>1, <1>2, AnswerHolds

LEMMA OpenedOf == ReaderInv => OpenIsAsFresh
<1> SUFFICES ASSUME ReaderInv, reader.pc = "open" PROVE OpenIsAsFresh
  BY DEF OpenIsAsFresh
<1> DEFINE a == archive
           store == reader.store
           catalog == reader.state.catalog
           present == {i \in DOMAIN catalog : catalog[i].present}
           shown == UNION {Listed(store, i) : i \in present}
<1>1. ArchiveOK(a) /\ OpeningOK(a, reader)
  BY DEF ReaderInv, ReaderOK
<1>2. /\ StoreOK(a, store) /\ StateOK(a, store, reader.described, reader.state)
      /\ Len(catalog) = StoreLen(store) /\ reader.before \subseteq reader.described
  BY <1>1 DEF OpeningOK
<1>3. /\ CatalogOK(a, store, catalog)
      /\ reader.state.listing = {Identity(o, reader.described) :
                                   o \in OccsIn(a, Covered(store, catalog))}
  BY <1>2 DEF StateOK
<1>4. DOMAIN catalog = 1..Len(catalog)
  BY <1>3, LenProperties DEF CatalogOK
<1>5. present = Present(catalog)
  BY <1>4 DEF Present
<1>6. shown = Covered(store, catalog)
  BY <1>5 DEF Covered
<1>7. OccsIn(a, Covered(store, catalog)) = Occs(shown)
  BY <1>6 DEF OccsIn, Occs
<1>8. ASSUME NEW i \in present PROVE catalog[i].lo..catalog[i].hi = Listed(store, i)
  <2>1. i \in 1..Len(catalog) /\ catalog[i].present
    BY <1>4
  <2>2. i \in Places(store)
    BY <1>2, <2>1 DEF Places
  <2>3. EntryOK(a, store, i, catalog[i])
    BY <1>3, <2>1 DEF CatalogOK
  <2>4. catalog[i] = Entry(Listed(store, i))
    BY <2>1, <2>3 DEF EntryOK, Gone
  <2> HIDE DEF a, store, catalog
  <2>5. PICK x \in Nat, y \in Nat : x <= y /\ Listed(store, i) = x..y
    BY <1>1, <1>2, <2>2, ListedIs
  <2>6. catalog[i] = [present |-> TRUE, lo |-> x, hi |-> y]
    BY <2>4, <2>5, EntryOfSpan
  <2> QED BY <2>5, <2>6
<1>9. ASSUME NEW series \in reader.state.listing PROVE NamedIfDescribed(series)
  <2>1. PICK o : series = Identity(o, reader.described)
    BY <1>3, <1>9
  <2>2. series.occupant = o /\ series.named = (o \in reader.described)
    BY <2>1 DEF Identity
  <2> QED BY <1>2, <2>2 DEF NamedIfDescribed
<1>10. reader.state.listing = {Identity(o, reader.described) : o \in Occs(shown)}
  BY <1>3, <1>7
<1> QED BY <1>2, <1>8, <1>9, <1>10 DEF OpenIsAsFresh

LEMMA QueriedOf == ReaderInv => QueryIsExact
<1> SUFFICES ASSUME ReaderInv, query.pc = "done" PROVE QueryIsExact
  BY DEF QueryIsExact
<1> DEFINE a == archive
           store == reader.store
           out == query.out
           last == StoreLen(store)
           view == UNION {Listed(store, i) : i \in 1..last}
           segs == a.segs["rows"]
           there == Range(store.segs) \cap Range(segs)
           still == store.tail \cup UNION {g.lo..g.hi : g \in there}
<1>1. /\ ArchiveOK(a) /\ ReaderOK(a, reader, carried) /\ QueryOK(a, reader, query)
  BY DEF ReaderInv
<1>2. /\ reader.pc = "open" /\ query.idx = Len(reader.state.catalog) + 1
      /\ out \in Seq(Sample) /\ RowsAscend(out)
      /\ \A k \in 1..Len(out) : \E j \in 1..(query.idx - 1) : ReadsRow(a, reader, query, j, out[k])
      /\ \A j \in 1..(query.idx - 1) : Kept(a, store, j) => ReadAll(reader, query, j, out)
  BY <1>1 DEF QueryOK
<1>3. /\ StoreOK(a, store) /\ Len(reader.state.catalog) = last
      /\ reader.before \subseteq reader.described
  BY <1>1, <1>2 DEF ReaderOK, OpeningOK
<1>4. store.segs \in Seq(Segment) /\ segs \in Seq(Segment)
  BY <1>1, <1>3, ArchiveFields DEF StoreOK, ArchiveOK, Streams
<1>5. /\ last \in Nat /\ Len(store.segs) \in Nat
      /\ last = IF store.tail = {} THEN Len(store.segs) ELSE Len(store.segs) + 1
  BY <1>4, PlacesOf
<1>6. query.idx - 1 = last /\ Len(out) \in Nat
  BY <1>2, <1>3, <1>5, LenProperties
<1>7. Range(out) = {out[k] : k \in 1..Len(out)}
  BY <1>2, RangeOf
<1>8. /\ Range(store.segs) = {store.segs[i] : i \in 1..Len(store.segs)}
      /\ Range(segs) = {segs[i] : i \in 1..Len(segs)}
  BY <1>4, RangeOf
<1>9. ASSUME NEW i \in 1..Len(out) - 1 PROVE out[i].row < out[i + 1].row
  <2>1. i \in 1..Len(out) /\ i + 1 \in 1..Len(out) /\ i < i + 1
    BY <1>6
  <2> QED BY <1>2, <2>1 DEF RowsAscend
<1>10. ASSUME NEW s \in Range(out)
       PROVE  /\ s.row \in view /\ Inside(s.row, query.from, query.to)
              /\ s.series.occupant = OccupantOf(a, s.row)
              /\ NamedIfDescribed(s.series)
  <2>1. PICK k \in 1..Len(out) : s = out[k]
    BY <1>7
  <2>2. PICK j \in 1..last : ReadsRow(a, reader, query, j, s)
    BY <1>2, <1>6, <2>1
  <2>3. s.row \in Listed(store, j) /\ Inside(s.row, query.from, query.to)
    BY <2>2 DEF ReadsRow
  <2>4. s.series = Identity(OccupantOf(a, s.row), reader.described)
    BY <2>2 DEF ReadsRow
  <2>5. /\ s.series.occupant = OccupantOf(a, s.row)
        /\ s.series.named = (OccupantOf(a, s.row) \in reader.described)
    BY <2>4 DEF Identity
  <2>6. s.row \in view
    BY <2>3
  <2> QED BY <1>3, <2>3, <2>5, <2>6 DEF NamedIfDescribed
<1>11. ASSUME NEW j \in 1..last, Kept(a, store, j), NEW n \in Listed(store, j),
              Inside(n, query.from, query.to)
       PROVE  \E s \in Range(out) : s.row = n
  <2>1. PICK k \in 1..Len(out) : out[k].row = n
    BY <1>2, <1>6, <1>11 DEF ReadAll
  <2>2. out[k] \in Range(out)
    BY <1>7
  <2> QED BY <2>1, <2>2
<1>12. ASSUME NEW n \in still, Inside(n, query.from, query.to)
       PROVE  \E s \in Range(out) : s.row = n
  <2>1. CASE n \in store.tail
    <3>1. /\ last \in 1..last /\ ~(last <= Len(store.segs)) /\ last > Len(store.segs)
      BY <1>5, <2>1
    <3>2. n \in Listed(store, last) /\ Kept(a, store, last)
      BY <2>1, <3>1 DEF Listed, Kept
    <3> QED BY <1>11, <1>12, <3>1, <3>2
  <2>2. CASE n \notin store.tail
    <3>1. PICK g \in there : n \in g.lo..g.hi
      BY <2>2
    <3>2. PICK j \in 1..Len(store.segs) : store.segs[j] = g
      BY <1>8, <3>1
    <3>3. PICK i \in 1..Len(segs) : segs[i] = g
      BY <1>8, <3>1
    <3>4. j \in 1..last /\ j <= Len(store.segs)
      BY <1>5, <3>2
    <3>5. n \in Listed(store, j)
      BY <3>1, <3>2, <3>4 DEF Listed
    <3>6. Kept(a, store, j)
      BY <3>2, <3>3 DEF Kept, IsIn
    <3> QED BY <1>11, <1>12, <3>4, <3>5, <3>6
  <2> QED BY <2>1, <2>2
<1> QED BY <1>9, <1>10, <1>12 DEF QueryIsExact

-----------------------------------------------------------------------------
\* An answer of has_row_in is never wrong about the rows that were there when
\* the reader was made: "no" is said only when none of them is in the range,
\* "yes" only when the table had one, whatever was sealed, merged, evicted or
\* numbered anew between the listing and the question.
THEOREM AnswersAreTrue == LRSpec => []AnswerIsTrue
  BY ReadingStarts, ReadingStep, AnswersOf, PTL DEF LRSpec

\* An open reader's state is the one a fold of its own segments under its own
\* labels gives, also when it starts from what an earlier reader saved: what
\* is passed on is about segments that cannot change, and only of series
\* whose labels were known.
THEOREM OpensAreFresh == LRSpec => []OpenIsAsFresh
  BY ReadingStarts, ReadingStep, OpenedOf, PTL DEF LRSpec

\* A query that ran while the writer sealed, merged, evicted and restarted
\* returns rows of its reader's view, in order and once, each under its own
\* occupant, and every row in the range whose segment is still there.
THEOREM QueriesAreExact == LRSpec => []QueryIsExact
  BY ReadingStarts, ReadingStep, QueriedOf, PTL DEF LRSpec

-----------------------------------------------------------------------------
(* Spliced reads: sets of numbers. *)

\* A finite set of naturals has an n-th element.
LEMMA RankExists ==
    ASSUME NEW T, T \subseteq Nat, IsFiniteSet(T), NEW n \in 1..Cardinality(T)
    PROVE  \E a \in T : Cardinality({b \in T : b <= a}) = n
<1> DEFINE Upto(a) == {b \in T : b <= a}
           M == {m \in 1..Cardinality(T) : ~ \E a \in T : Cardinality(Upto(a)) = m}
<1>0. Cardinality(T) \in Nat
  BY FS_CardinalityType
<1>1. SUFFICES ASSUME M # {} PROVE FALSE
  BY <1>0
<1>2. PICK m \in M : \A k \in M : m <= k
  <2>1. M \subseteq Nat
    BY <1>0
  <2> HIDE DEF M
  <2> QED  BY <1>1, <2>1, LeastExists
<1>3. m \in 1..Cardinality(T) /\ m \in Nat
  BY <1>0
<1>4. CASE m = 1
  <2>1. T # {}
    BY <1>0, <1>3, FS_EmptySet
  <2>2. PICK a \in T : \A k \in T : a <= k
    BY <2>1, LeastExists
  <2>3. Upto(a) = {a}
    <3>1. ASSUME NEW b \in Upto(a) PROVE b = a
      <4>1. b \in Nat /\ a \in Nat /\ b <= a /\ a <= b
        BY <2>2
      <4> QED  BY <4>1
    <3>2. a \in Upto(a)
      OBVIOUS
    <3> QED  BY <3>1, <3>2
  <2>4. Cardinality(Upto(a)) = 1
    BY <2>3, FS_Singleton
  <2> QED  BY <1>2, <1>4, <2>4
<1>5. CASE m # 1
  <2>1. m - 1 \in 1..Cardinality(T) /\ m - 1 \notin M
    BY <1>0, <1>2, <1>3, <1>5
  <2>2. PICK a \in T : Cardinality(Upto(a)) = m - 1
    BY <2>1
  <2> DEFINE R == T \ Upto(a)
  <2>3. R # {}
    <3>1. Upto(a) # T
      <4> HIDE DEF Upto
      <4>1. m - 1 # Cardinality(T)
        BY <1>0, <1>3
      <4> QED  BY <2>2, <4>1
    <3> QED  BY <3>1
  <2>4. PICK c \in R : \A k \in R : c <= k
    <3>1. R \subseteq Nat
      OBVIOUS
    <3> HIDE DEF R
    <3> QED  BY <2>3, <3>1, LeastExists
  <2>5. Upto(c) = Upto(a) \cup {c}
    <3>1. c \in T /\ c > a /\ c \in Nat /\ a \in Nat
      BY <2>4
    <3>2. ASSUME NEW b \in Upto(c) PROVE b \in Upto(a) \cup {c}
      <4>1. b \in T /\ b \in Nat /\ b <= c
        OBVIOUS
      <4>2. CASE b <= a
        BY <4>1, <4>2
      <4>3. CASE ~(b <= a)
        BY <2>4, <3>1, <4>1, <4>3
      <4> QED  BY <4>2, <4>3
    <3>3. ASSUME NEW b \in Upto(a) \cup {c} PROVE b \in Upto(c)
      BY <3>1
    <3> QED  BY <3>2, <3>3
  <2>6. IsFiniteSet(Upto(a)) /\ c \notin Upto(a)
    <3>1. Upto(a) \in SUBSET T
      OBVIOUS
    <3> QED  BY <2>4, <3>1, FS_Subset
  <2>7. Cardinality(Upto(c)) = m
    <3> HIDE DEF Upto
    <3>1. Cardinality(Upto(a) \cup {c}) = Cardinality(Upto(a)) + 1
      BY <2>6, FS_AddElement
    <3> QED  BY <1>3, <2>2, <2>5, <3>1
  <2> QED  BY <1>2, <2>4, <2>7
<1> QED  BY <1>4, <1>5

-----------------------------------------------------------------------------
(* Sequences joined: FlattenSeq. *)

\* h joins the first n of the sequences s, for every n up to their number.
Joins(h, s, X) ==
    /\ h \in [0 .. Len(s) -> Seq(X)] /\ h[0] = <<>>
    /\ \A i \in 1 .. Len(s) : h[i] = h[i - 1] \o s[i]

JoinedUp(s) ==
    CHOOSE g : g = [i \in 1 .. Len(s) |-> IF i = 1 THEN s[i] ELSE g[i - 1] \o s[i]]

LEMMA PiecesOf ==
    ASSUME NEW X, NEW s \in Seq(Seq(X))
    PROVE  /\ Len(s) \in Nat /\ DOMAIN s = 1 .. Len(s)
           /\ \A i \in 1 .. Len(s) : s[i] \in Seq(X) /\ Len(s[i]) \in Nat
<1>1. Len(s) \in Nat /\ DOMAIN s = 1 .. Len(s)
  BY LenProperties
<1>2. \A i \in 1 .. Len(s) : s[i] \in Seq(X)
  BY ElementOfSeq
<1>3. \A i \in 1 .. Len(s) : Len(s[i]) \in Nat
  BY <1>2, LenProperties
<1> QED  BY <1>1, <1>2, <1>3

LEMMA JoinsExist ==
    ASSUME NEW X, NEW s \in Seq(Seq(X))
    PROVE  \E h : Joins(h, s, X)
<1> DEFINE L == Len(s)
           Partly(h, n) == /\ h \in [0 .. n -> Seq(X)] /\ h[0] = <<>>
                           /\ \A i \in 1 .. n : h[i] = h[i - 1] \o s[i]
           S == {n \in 0 .. L : \E h : Partly(h, n)}
<1>1. L \in Nat /\ \A i \in 1 .. L : s[i] \in Seq(X)
  BY PiecesOf
<1> HIDE DEF L
<1>2. 0 \in S
  <2>1. <<>> \in Seq(X)
    BY EmptySeq
  <2>2. Partly([i \in 0 .. 0 |-> <<>>], 0)
    BY <2>1
  <2> HIDE DEF Partly
  <2> QED  BY <1>1, <2>2
<1>3. ASSUME NEW n \in Nat, n < L, n \in S PROVE n + 1 \in S
  <2>1. PICK h : Partly(h, n)
    BY <1>3
  <2> DEFINE more == h[n] \o s[n + 1]
             g == [i \in 0 .. (n + 1) |-> IF i = n + 1 THEN more ELSE h[i]]
  <2>2. more \in Seq(X)
    <3>1. h[n] \in Seq(X) /\ s[n + 1] \in Seq(X)
      BY <1>1, <1>3, <2>1
    <3> QED  BY <3>1, ConcatProperties
  <2> HIDE DEF more
  <2>3. g \in [0 .. (n + 1) -> Seq(X)] /\ g[0] = <<>>
    BY <1>3, <2>1, <2>2
  <2>4. ASSUME NEW i \in 1 .. (n + 1) PROVE g[i] = g[i - 1] \o s[i]
    <3>1. CASE i = n + 1
      <4>1. g[i] = more /\ g[i - 1] = h[n] /\ s[i] = s[n + 1]
        BY <1>3, <3>1
      <4> QED  BY <4>1 DEF more
    <3>2. CASE i # n + 1
      <4>1. i \in 1 .. n /\ i - 1 \in 0 .. n /\ i - 1 # n + 1
        BY <1>3, <3>2
      <4>2. g[i] = h[i] /\ g[i - 1] = h[i - 1]
        BY <1>3, <3>2, <4>1
      <4>3. h[i] = h[i - 1] \o s[i]
        BY <2>1, <4>1
      <4> QED  BY <4>2, <4>3
    <3> QED  BY <3>1, <3>2
  <2>5. Partly(g, n + 1)
    BY <2>3, <2>4
  <2>6. n + 1 \in 0 .. L
    BY <1>1, <1>3
  <2> HIDE DEF Partly, g
  <2> QED  BY <2>5, <2>6
<1>4. \A n \in 0 .. L : n \in S
  <2> HIDE DEF S
  <2> QED  BY <1>1, <1>2, <1>3, UpTo
<1>5. PICK h : Partly(h, L)
  <2>1. L \in 0 .. L
    BY <1>1
  <2> QED  BY <1>4, <2>1
<1>6. Joins(h, s, X)
  BY <1>5 DEF L, Joins
<1> QED  BY <1>6

\* FlattenSeq is the last of what joins the sequences.
LEMMA FlattenJoins ==
    ASSUME NEW X, NEW s \in Seq(Seq(X))
    PROVE  \E h : Joins(h, s, X) /\ FlattenSeq(s) = h[Len(s)]
<1> DEFINE L == Len(s)
           Body(g) == [i \in 1 .. L |-> IF i = 1 THEN s[i] ELSE g[i - 1] \o s[i]]
<1>1. L \in Nat /\ \A i \in 1 .. L : s[i] \in Seq(X)
  BY PiecesOf
<1>2. PICK h : Joins(h, s, X)
  BY JoinsExist
<1>3. CASE L = 0
  <2>1. FlattenSeq(s) = s
    BY <1>3 DEF FlattenSeq
  <2>2. s = <<>>
    BY <1>3, EmptySeq
  <2> QED  BY <1>2, <1>3, <2>1, <2>2 DEF Joins
<1>4. CASE L # 0
  <2> DEFINE f == [i \in 1 .. L |-> h[i]]
  <2>1. \A i \in 1 .. L : h[i] = h[i - 1] \o s[i]
    BY <1>2 DEF Joins
  <2>2. 1 \in 1 .. L => h[1] = s[1]
    <3> SUFFICES ASSUME 1 \in 1 .. L PROVE h[1] = s[1]
      OBVIOUS
    <3>0. h[0] = <<>> /\ 1 - 1 = 0
      BY <1>2 DEF Joins
    <3>1. h[1] = <<>> \o s[1] /\ s[1] \in Seq(X)
      BY <1>1, <2>1, <3>0
    <3> QED  BY <3>1, ConcatEmptySeq
  <2>3. f = Body(f)
    <3> SUFFICES ASSUME NEW i \in 1 .. L PROVE f[i] = IF i = 1 THEN s[i] ELSE f[i - 1] \o s[i]
      BY Zenon
    <3>1. CASE i = 1
      BY <2>2, <3>1
    <3>2. CASE i # 1
      <4>1. i - 1 \in 1 .. L
        BY <1>1, <3>2
      <4>2. f[i - 1] = h[i - 1] /\ f[i] = h[i]
        BY <4>1
      <4> QED  BY <2>1, <3>2, <4>2
    <3> QED  BY <3>1, <3>2
  <2>4. JoinedUp(s) = CHOOSE g : g = Body(g)
    BY DEF JoinedUp
  <2>5. FlattenSeq(s) = JoinedUp(s)[L]
    BY <1>4 DEF FlattenSeq, JoinedUp
  <2> HIDE DEF Body, f
  <2>6. JoinedUp(s) = Body(JoinedUp(s))
    BY <2>3, <2>4
  <2> DEFINE g == JoinedUp(s)
             S == {n \in 0 .. L : n # 0 => g[n] = h[n]}
  <2>7. \A i \in 1 .. L : g[i] = IF i = 1 THEN s[i] ELSE g[i - 1] \o s[i]
    BY <2>6 DEF Body
  <2> HIDE DEF g, L
  <2>8. 0 \in S
    BY <1>1
  <2>9. ASSUME NEW n \in Nat, n < L, n \in S PROVE n + 1 \in S
    <3>1. n + 1 \in 1 .. L /\ n + 1 \in 0 .. L /\ (n + 1) - 1 = n
      BY <1>1, <2>9
    <3>2. CASE n = 0
      <4>1. g[1] = s[1] /\ h[1] = s[1]
        BY <2>2, <2>7, <3>1, <3>2
      <4> QED  BY <3>1, <3>2, <4>1
    <3>3. CASE n # 0
      <4>1. n + 1 # 1 /\ g[n] = h[n]
        BY <2>9, <3>3
      <4>2. g[n + 1] = g[n] \o s[n + 1]
        BY <2>7, <3>1, <4>1
      <4>3. h[n + 1] = h[n] \o s[n + 1]
        BY <2>1, <3>1
      <4> QED  BY <3>1, <4>1, <4>2, <4>3
    <3> QED  BY <3>2, <3>3
  <2>10. \A n \in 0 .. L : n \in S
    <3> HIDE DEF S
    <3> QED  BY <1>1, <2>8, <2>9, UpTo
  <2>11. L \in S /\ g[L] = h[L]
    BY <1>1, <1>4, <2>10
  <2> QED  BY <1>2, <2>5, <2>11 DEF g, L
<1> QED  BY <1>3, <1>4

\* What the first n of the sequences s have.
RangesTo(s, n) == UNION {Range(s[i]) : i \in 1 .. n}

\* What the joined sequences have is what one of them has.
LEMMA JoinedRange ==
    ASSUME NEW X, NEW s \in Seq(Seq(X)), NEW h, Joins(h, s, X)
    PROVE  \A n \in 0 .. Len(s) : Range(h[n]) = RangesTo(s, n)
<1> DEFINE L == Len(s)
           S == {m \in 0 .. L : Range(h[m]) = RangesTo(s, m)}
<1>1. L \in Nat /\ \A i \in 1 .. L : s[i] \in Seq(X)
  BY PiecesOf
<1>2. h \in [0 .. L -> Seq(X)] /\ h[0] = <<>> /\ \A i \in 1 .. L : h[i] = h[i - 1] \o s[i]
  BY DEF Joins
<1> HIDE DEF L
<1>3. 0 \in S
  <2>1. Range(<<>>) = {}
    BY DEF Range
  <2>2. RangesTo(s, 0) = {}
    BY DEF RangesTo
  <2>3. Range(h[0]) = RangesTo(s, 0)
    BY <1>2, <2>1, <2>2
  <2> QED  BY <1>1, <2>3
<1>4. ASSUME NEW m \in Nat, m < L, m \in S PROVE m + 1 \in S
  <2>1. m + 1 \in 1 .. L /\ m \in 0 .. L /\ (m + 1) - 1 = m
    BY <1>1, <1>4
  <2>2. h[m] \in Seq(X) /\ s[m + 1] \in Seq(X) /\ h[m + 1] = h[m] \o s[m + 1]
    BY <1>1, <1>2, <2>1
  <2>3. Range(h[m + 1]) = Range(h[m]) \cup Range(s[m + 1])
    BY <2>2, RangeConcatenation
  <2>4. RangesTo(s, m + 1) = RangesTo(s, m) \cup Range(s[m + 1])
    <3>1. 1 .. m + 1 = (1 .. m) \cup {m + 1}
      BY <1>4
    <3> QED  BY <3>1 DEF RangesTo
  <2>5. Range(h[m]) = RangesTo(s, m)
    BY <1>4
  <2>6. Range(h[m + 1]) = RangesTo(s, m + 1)
    BY <2>3, <2>4, <2>5
  <2> QED  BY <2>1, <2>6
<1>5. \A m \in 0 .. L : m \in S
  <2> HIDE DEF S
  <2> QED  BY <1>1, <1>3, <1>4, UpTo
<1> QED  BY <1>5 DEF L

LEMMA FlattenRange ==
    ASSUME NEW X, NEW s \in Seq(Seq(X))
    PROVE  /\ FlattenSeq(s) \in Seq(X)
           /\ Range(FlattenSeq(s)) = RangesTo(s, Len(s))
<1>1. PICK h : Joins(h, s, X) /\ FlattenSeq(s) = h[Len(s)]
  BY FlattenJoins
<1>2. \A m \in 0 .. Len(s) : Range(h[m]) = RangesTo(s, m)
  BY <1>1, JoinedRange
<1>3. Len(s) \in 0 .. Len(s)
  <2>1. Len(s) \in Nat
    BY PiecesOf
  <2> QED  BY <2>1
<1>4. h[Len(s)] \in Seq(X)
  BY <1>1, <1>3 DEF Joins
<1> QED  BY <1>1, <1>2, <1>3, <1>4

\* A sequence without repetition.
Once(q) == \A i, j \in 1 .. Len(q) : q[i] = q[j] => i = j

LEMMA OnceConcat ==
    ASSUME NEW X, NEW a \in Seq(X), NEW b \in Seq(X), Once(a), Once(b),
           Range(a) \cap Range(b) = {}
    PROVE  Once(a \o b)
<1> DEFINE c == a \o b
<1>1. /\ Len(a) \in Nat /\ Len(b) \in Nat /\ Len(c) = Len(a) + Len(b)
      /\ \A i \in 1 .. Len(a) + Len(b) : c[i] = IF i <= Len(a) THEN a[i] ELSE b[i - Len(a)]
  BY ConcatProperties, LenProperties
<1>2. /\ Range(a) = {a[j] : j \in 1 .. Len(a)} /\ Range(b) = {b[j] : j \in 1 .. Len(b)}
  BY RangeEquality
<1> HIDE DEF c
<1>3. \A i \in 1 .. Len(a), j \in 1 .. Len(b) : a[i] # b[j]
  BY <1>2
<1>4. ASSUME NEW i \in 1 .. Len(c), NEW j \in 1 .. Len(c), c[i] = c[j] PROVE i = j
  <2>1. \/ i \in 1 .. Len(a) /\ c[i] = a[i]
        \/ i - Len(a) \in 1 .. Len(b) /\ c[i] = b[i - Len(a)]
    BY <1>1
  <2>2. \/ j \in 1 .. Len(a) /\ c[j] = a[j]
        \/ j - Len(a) \in 1 .. Len(b) /\ c[j] = b[j - Len(a)]
    BY <1>1
  <2>3. CASE i \in 1 .. Len(a) /\ c[i] = a[i] /\ j \in 1 .. Len(a) /\ c[j] = a[j]
    BY <1>4, <2>3 DEF Once
  <2>4. CASE i - Len(a) \in 1 .. Len(b) /\ c[i] = b[i - Len(a)]
             /\ j - Len(a) \in 1 .. Len(b) /\ c[j] = b[j - Len(a)]
    <3>1. i - Len(a) = j - Len(a)
      BY <1>4, <2>4 DEF Once
    <3> QED  BY <1>1, <3>1
  <2> QED  BY <1>3, <1>4, <2>1, <2>2, <2>3, <2>4
<1> QED  BY <1>4 DEF Once, c

\* Sequences without repetition that share nothing, joined, repeat nothing.
LEMMA FlattenOnce ==
    ASSUME NEW X, NEW s \in Seq(Seq(X)),
           \A i \in 1 .. Len(s) : Once(s[i]),
           \A i, j \in 1 .. Len(s) : i < j => Range(s[i]) \cap Range(s[j]) = {}
    PROVE  Once(FlattenSeq(s))
<1> DEFINE L == Len(s)
<1>1. PICK h : Joins(h, s, X) /\ FlattenSeq(s) = h[L]
  BY FlattenJoins
<1> DEFINE S == {m \in 0 .. L : Once(h[m])}
<1>2. L \in Nat /\ \A i \in 1 .. L : s[i] \in Seq(X)
  BY PiecesOf
<1>3. h \in [0 .. L -> Seq(X)] /\ h[0] = <<>> /\ \A i \in 1 .. L : h[i] = h[i - 1] \o s[i]
  BY <1>1 DEF Joins
<1>4. \A m \in 0 .. L : Range(h[m]) = RangesTo(s, m)
  BY <1>1, JoinedRange
<1>5. 0 \in S
  <2>1. Once(<<>>)
    BY DEF Once
  <2> QED  BY <1>2, <1>3, <2>1
<1>6. ASSUME NEW m \in Nat, m < L, m \in S PROVE m + 1 \in S
  <2>1. m + 1 \in 1 .. L /\ m \in 0 .. L /\ (m + 1) - 1 = m /\ m + 1 \in 0 .. L
    BY <1>2, <1>6
  <2>2. h[m] \in Seq(X) /\ s[m + 1] \in Seq(X) /\ h[m + 1] = h[m] \o s[m + 1]
    BY <1>2, <1>3, <2>1
  <2>3. \A i \in 1 .. m : Range(s[i]) \cap Range(s[m + 1]) = {}
    <3>1. \A i \in 1 .. m : i \in 1 .. L /\ i < m + 1
      BY <1>2, <1>6
    <3> QED  BY <2>1, <3>1
  <2>4. Range(h[m]) \cap Range(s[m + 1]) = {}
    <3>1. Range(h[m]) = RangesTo(s, m)
      BY <1>4, <2>1
    <3> QED  BY <2>3, <3>1 DEF RangesTo
  <2>5. Once(h[m]) /\ Once(s[m + 1])
    BY <1>6, <2>1
  <2>6. Once(h[m + 1])
    BY <2>2, <2>4, <2>5, OnceConcat
  <2> QED  BY <2>1, <2>6
<1>7. \A m \in 0 .. L : m \in S
  <2> HIDE DEF S, L
  <2> QED  BY <1>2, <1>5, <1>6, UpTo
<1>8. L \in 0 .. L
  BY <1>2
<1> QED  BY <1>1, <1>7, <1>8

\* Where some are left empty in a and the others in b, and those of b come
\* after those of a, what a joins and then what b joins is the whole.
PartedInto(s, a, b) ==
    /\ Len(a) = Len(s) /\ Len(b) = Len(s)
    /\ \A i \in 1 .. Len(s) : \/ a[i] = s[i] /\ b[i] = <<>>
                              \/ a[i] = <<>> /\ b[i] = s[i]
    /\ \A i, j \in 1 .. Len(s) : i < j /\ b[i] # <<>> => a[j] = <<>>

LEMMA FlattenSplit ==
    ASSUME NEW X, NEW s \in Seq(Seq(X)), NEW a \in Seq(Seq(X)), NEW b \in Seq(Seq(X)),
           PartedInto(s, a, b)
    PROVE  FlattenSeq(s) = FlattenSeq(a) \o FlattenSeq(b)
<1> USE DEF PartedInto
<1> DEFINE L == Len(s)
<1>1. L \in Nat /\ \A i \in 1 .. L : s[i] \in Seq(X) /\ a[i] \in Seq(X) /\ b[i] \in Seq(X)
  BY PiecesOf
<1>2. PICK h : Joins(h, s, X) /\ FlattenSeq(s) = h[L]
  BY FlattenJoins
<1>3. PICK f : Joins(f, a, X) /\ FlattenSeq(a) = f[L]
  BY FlattenJoins
<1>4. PICK g : Joins(g, b, X) /\ FlattenSeq(b) = g[L]
  BY FlattenJoins
<1>5. /\ h \in [0 .. L -> Seq(X)] /\ h[0] = <<>> /\ \A i \in 1 .. L : h[i] = h[i - 1] \o s[i]
      /\ f \in [0 .. L -> Seq(X)] /\ f[0] = <<>> /\ \A i \in 1 .. L : f[i] = f[i - 1] \o a[i]
      /\ g \in [0 .. L -> Seq(X)] /\ g[0] = <<>> /\ \A i \in 1 .. L : g[i] = g[i - 1] \o b[i]
  BY <1>2, <1>3, <1>4 DEF Joins
<1> DEFINE Whole(m) == /\ h[m] = f[m] \o g[m]
                       /\ (\A i \in 1 .. m : b[i] = <<>>) => g[m] = <<>>
           S == {m \in 0 .. L : Whole(m)}
<1> HIDE DEF L
<1>6. 0 \in S
  <2>1. <<>> \o <<>> = <<>>
    BY EmptySeq, ConcatEmptySeq
  <2>2. Whole(0)
    BY <1>5, <2>1
  <2> HIDE DEF Whole
  <2> QED  BY <1>1, <2>2
<1>7. ASSUME NEW m \in Nat, m < L, m \in S PROVE m + 1 \in S
  <2>1. m + 1 \in 1 .. L /\ m \in 0 .. L /\ (m + 1) - 1 = m /\ m + 1 \in 0 .. L
    BY <1>1, <1>7
  <2>2. /\ h[m] \in Seq(X) /\ f[m] \in Seq(X) /\ g[m] \in Seq(X)
        /\ s[m + 1] \in Seq(X) /\ a[m + 1] \in Seq(X) /\ b[m + 1] \in Seq(X)
        /\ h[m + 1] = h[m] \o s[m + 1] /\ f[m + 1] = f[m] \o a[m + 1]
        /\ g[m + 1] = g[m] \o b[m + 1]
    BY <1>1, <1>5, <2>1
  <2>3. /\ h[m] = f[m] \o g[m]
        /\ (\A i \in 1 .. m : b[i] = <<>>) => g[m] = <<>>
    <3>1. Whole(m)
      <4> HIDE DEF Whole
      <4> QED  BY <1>7
    <3> QED  BY <3>1
  <2>4. (\A i \in 1 .. m + 1 : b[i] = <<>>) => g[m + 1] = <<>>
    <3> SUFFICES ASSUME \A i \in 1 .. m + 1 : b[i] = <<>> PROVE g[m + 1] = <<>>
      OBVIOUS
    <3>1. g[m] = <<>> /\ b[m + 1] = <<>>
      BY <1>7, <2>3
    <3> QED  BY <2>2, <3>1, ConcatEmptySeq
  <2>5. CASE b[m + 1] = <<>>
    <3>1. g[m + 1] = g[m]
      BY <2>2, <2>5, ConcatEmptySeq
    <3>2. CASE a[m + 1] = s[m + 1] /\ s[m + 1] # <<>>
      <4>1. g[m] = <<>>
        <5>1. \A i \in 1 .. m : b[i] = <<>>
          <6>1. \A i \in 1 .. m : i \in 1 .. L /\ i < m + 1
            BY <1>1, <1>7
          <6> QED  BY <2>1, <3>2, <6>1 DEF L
        <5> QED  BY <2>3, <5>1
      <4>2. h[m] = f[m]
        BY <2>2, <2>3, <4>1, ConcatEmptySeq
      <4>3. f[m + 1] \in Seq(X) /\ f[m + 1] \o <<>> = f[m + 1]
        BY <1>5, <2>1, ConcatEmptySeq
      <4>4. h[m + 1] = f[m + 1] \o g[m + 1]
        BY <2>2, <3>1, <3>2, <4>1, <4>2, <4>3
      <4> QED  BY <2>1, <2>4, <4>4
    <3>3. CASE s[m + 1] = <<>>
      <4>1. a[m + 1] = <<>>
        BY <2>1, <3>3 DEF L
      <4>2. h[m + 1] = h[m] /\ f[m + 1] = f[m]
        BY <2>2, <3>3, <4>1, ConcatEmptySeq
      <4> QED  BY <2>1, <2>3, <2>4, <3>1, <4>2
    <3>4. a[m + 1] = s[m + 1] \/ s[m + 1] = <<>>
      BY <2>1, <2>5 DEF L
    <3> QED  BY <3>2, <3>3, <3>4
  <2>6. CASE b[m + 1] # <<>>
    <3>1. a[m + 1] = <<>> /\ b[m + 1] = s[m + 1]
      BY <2>1, <2>6 DEF L
    <3>2. f[m + 1] = f[m]
      BY <2>2, <3>1, ConcatEmptySeq
    <3> DEFINE u == f[m]  v == g[m]  w == b[m + 1]
    <3>3. (u \o v) \o w = u \o (v \o w)
      <4>1. u \in Seq(X) /\ v \in Seq(X) /\ w \in Seq(X)
        BY <2>2
      <4> HIDE DEF u, v, w
      <4> QED  BY <4>1, ConcatAssociative
    <3>4. h[m + 1] = f[m + 1] \o g[m + 1]
      BY <2>2, <2>3, <3>1, <3>2, <3>3
    <3> QED  BY <2>1, <2>4, <3>4
  <2> QED  BY <2>5, <2>6
<1>8. \A m \in 0 .. L : m \in S
  <2> HIDE DEF S
  <2> QED  BY <1>1, <1>6, <1>7, UpTo
<1>9. L \in 0 .. L
  BY <1>1
<1>10. h[L] = f[L] \o g[L]
  <2>1. Whole(L)
    <3> HIDE DEF Whole
    <3> QED  BY <1>8, <1>9
  <2> QED  BY <2>1
<1> QED  BY <1>2, <1>3, <1>4, <1>10

-----------------------------------------------------------------------------
(* Sets of numbers in order. *)

LEMMA BelowGrows ==
    ASSUME NEW T, T \subseteq Nat, NEW x \in Nat, NEW y \in Nat
    PROVE  /\ x <= y => {b \in T : b <= x} \in SUBSET {b \in T : b <= y}
           /\ x < y => y \notin {b \in T : b <= x}
<1>1. ASSUME x <= y, NEW b \in T, b <= x PROVE b <= y
  <2>1. b \in Nat
    OBVIOUS
  <2> QED  BY <1>1, <2>1
<1>2. ASSUME x < y PROVE ~(y <= x)
  BY <1>2
<1> QED  BY <1>1, <1>2

\* Enumerated has each member once, and goes up.
LEMMA EnumeratedIs ==
    ASSUME NEW T, T \subseteq Nat, IsFiniteSet(T)
    PROVE  /\ Enumerated(T) \in Seq(T) /\ Range(Enumerated(T)) = T /\ Once(Enumerated(T))
           /\ \A i, j \in 1 .. Len(Enumerated(T)) : i < j => Enumerated(T)[i] < Enumerated(T)[j]
           /\ Len(Enumerated(T)) = Cardinality(T)
<1> DEFINE N == Cardinality(T)
           Below(a) == {b \in T : b <= a}
           e == Enumerated(T)
<1>1. N \in Nat
  BY FS_CardinalityType
<1>2. \A a \in T : /\ IsFiniteSet(Below(a)) /\ Cardinality(Below(a)) \in 1 .. N
  <2> SUFFICES ASSUME NEW a \in T
               PROVE  IsFiniteSet(Below(a)) /\ Cardinality(Below(a)) \in 1 .. N
    OBVIOUS
  <2>1. Below(a) \in SUBSET T /\ a \in Below(a)
    OBVIOUS
  <2> HIDE DEF Below
  <2>2. IsFiniteSet(Below(a)) /\ Cardinality(Below(a)) <= N
    BY <2>1, FS_Subset
  <2>3. Cardinality(Below(a)) \in Nat /\ Cardinality(Below(a)) # 0
    BY <2>1, <2>2, FS_CardinalityType, FS_EmptySet
  <2> QED  BY <1>1, <2>2, <2>3
<1>3. \A n \in 1 .. N : e[n] \in T /\ Cardinality(Below(e[n])) = n
  <2> SUFFICES ASSUME NEW n \in 1 .. N PROVE e[n] \in T /\ Cardinality(Below(e[n])) = n
    OBVIOUS
  <2>1. \E a \in T : Cardinality(Below(a)) = n
    BY RankExists
  <2>2. e[n] = CHOOSE x \in T : Cardinality({y \in T : y <= x}) = n
    BY DEF Enumerated
  <2> QED  BY <2>1, <2>2
<1>4. e \in [1 .. N -> T]
  <2>1. e = [n \in 1 .. N |-> e[n]]
    BY DEF Enumerated
  <2> HIDE DEF e
  <2> QED  BY <1>3, <2>1
<1>5. e \in Seq(T) /\ Len(e) = N /\ DOMAIN e = 1 .. N
  <2> HIDE DEF e
  <2> QED  BY <1>1, <1>4
<1> HIDE DEF e
<1>6. \A i, j \in 1 .. N : i < j => e[i] < e[j]
  <2> SUFFICES ASSUME NEW i \in 1 .. N, NEW j \in 1 .. N, i < j, ~(e[i] < e[j]) PROVE FALSE
    OBVIOUS
  <2>0. e[i] \in T /\ e[j] \in T
    BY <1>3
  <2>1. e[i] \in Nat /\ e[j] \in Nat /\ e[j] <= e[i]
    <3>1. e[i] \in Nat /\ e[j] \in Nat
      BY <2>0
    <3> QED  BY <3>1
  <2>2. Below(e[j]) \in SUBSET Below(e[i])
    BY <2>1, BelowGrows
  <2>3. IsFiniteSet(Below(e[i]))
    BY <1>2, <1>3
  <2> HIDE DEF Below
  <2>4. Cardinality(Below(e[j])) <= Cardinality(Below(e[i]))
    BY <2>2, <2>3, FS_Subset
  <2> QED  BY <1>1, <1>3, <2>4
<1>7. Once(e)
  <2> SUFFICES ASSUME NEW i \in 1 .. N, NEW j \in 1 .. N, e[i] = e[j] PROVE i = j
    BY <1>5 DEF Once
  <2> HIDE DEF Below
  <2> QED  BY <1>3
<1>8. Range(e) = T
  <2>1. Range(e) = {e[n] : n \in 1 .. N}
    BY <1>5 DEF Range
  <2>2. ASSUME NEW a \in T PROVE \E n \in 1 .. N : e[n] = a
    <3>0. PICK n \in 1 .. N : n = Cardinality(Below(a))
      BY <1>2
    <3>1. e[n] \in T /\ Cardinality(Below(e[n])) = n
      BY <1>3
    <3>2. PICK x \in T : x = e[n]
      BY <3>1
    <3>3. x \in Nat /\ a \in Nat /\ Cardinality(Below(x)) = Cardinality(Below(a))
      BY <3>0, <3>1, <3>2
    <3>4. ASSUME NEW y \in T, NEW z \in T, y < z, Cardinality(Below(y)) = Cardinality(Below(z))
          PROVE  FALSE
      <4>0. y \in Nat /\ z \in Nat
        OBVIOUS
      <4>1. z \in Below(z)
        BY <4>0
      <4>2. Below(y) \in SUBSET Below(z) /\ z \notin Below(y)
        <5>1. y <= z /\ y < z
          BY <3>4, <4>0
        <5>2. \A b \in Below(y) : b \in Below(z)
          <6> SUFFICES ASSUME NEW b \in T, b <= y PROVE b <= z
            OBVIOUS
          <6>1. b \in Nat
            OBVIOUS
          <6> QED  BY <4>0, <5>1, <6>1
        <5>3. ~(z <= y)
          BY <4>0, <5>1
        <5> QED  BY <5>2, <5>3
      <4>3. IsFiniteSet(Below(z))
        BY <1>2
      <4> HIDE DEF Below
      <4>4. Below(y) = Below(z)
        BY <3>4, <4>2, <4>3, FS_Subset
      <4> QED  BY <4>1, <4>2, <4>4
    <3> HIDE DEF Below
    <3>5. ~(x < a) /\ ~(a < x)
      BY <3>3, <3>4
    <3>6. x = a
      BY <3>3, <3>5
    <3> QED  BY <3>2, <3>6
  <2> QED  BY <1>3, <2>1, <2>2
<1> QED  BY <1>5, <1>6, <1>7, <1>8 DEF e

\* A sequence without repetition is as long as its range is large.
LEMMA OnceCounts ==
    ASSUME NEW X, NEW q \in Seq(X), Once(q)
    PROVE  Len(q) = Cardinality(Range(q))
<1>1. Len(q) \in Nat /\ DOMAIN q = 1 .. Len(q) /\ q \in [1 .. Len(q) -> X]
  BY LenProperties
<1>2. Range(q) = {q[i] : i \in 1 .. Len(q)}
  BY RangeEquality
<1>3. q \in Bijection(1 .. Len(q), Range(q))
  BY <1>1, <1>2 DEF Bijection, Injection, Surjection, IsInjective, Once
<1>4. IsFiniteSet(1 .. Len(q)) /\ Cardinality(1 .. Len(q)) = Len(q)
  BY <1>1, FS_Interval
<1> QED  BY <1>3, <1>4, FS_Bijection DEF ExistsBijection

-----------------------------------------------------------------------------
(* Tables, and the places of their columns. *)

\* What does not change: the table, the relabelling and the query.
Given == table \in Tables /\ relabel \in Relabels /\ asked \in Queries /\ OneHolder

Cells  == [col : Columns, times : SUBSET Times, windowed : BOOLEAN]
TablePlaces == [seg : Nat, at : Nat]

LEMMA TimesAreNumbers ==
    Times \subseteq Nat /\ \A T \in SUBSET Times : \A t \in T : t \in Nat
<1>1. Times \subseteq Nat
  BY SplicedReadsAssumption
<1> QED  BY <1>1

LEMMA TableIs ==
    ASSUME Given, NEW k \in DOMAIN table
    PROVE  /\ table \in Seq(Seq(TableSegments)) /\ table[k] \in Seq(TableSegments)
           /\ Len(table[k]) \in Nat /\ DOMAIN table[k] = 1 .. Len(table[k])
           /\ \A s \in DOMAIN table[k] :
                /\ table[k][s] \in TableSegments /\ Spanned(table[k][s])
                /\ \A c \in Range(table[k][s].cols) : IsFiniteSet(c.times)
<1>1. /\ table \in Seq(Seq(TableSegments))
      /\ \A j \in DOMAIN table : \A s \in DOMAIN table[j] :
            /\ Spanned(table[j][s])
            /\ \A c \in Range(table[j][s].cols) : IsFiniteSet(c.times)
  BY SplicedReadsAssumption DEF Given
<1>2. table[k] \in Seq(TableSegments)
  BY <1>1, ElementOfSeq, LenProperties
<1>3. Len(table[k]) \in Nat /\ DOMAIN table[k] = 1 .. Len(table[k])
  BY <1>2, LenProperties
<1>4. \A s \in DOMAIN table[k] : table[k][s] \in TableSegments
  BY <1>2, <1>3, ElementOfSeq
<1> QED  BY <1>1, <1>2, <1>3, <1>4

LEMMA SegmentIs ==
    ASSUME NEW seg \in TableSegments
    PROVE  /\ seg.cols \in Seq(Cells) /\ Len(seg.cols) \in Nat
           /\ DOMAIN seg.cols = 1 .. Len(seg.cols)
           /\ \A i \in DOMAIN seg.cols : seg.cols[i] \in Cells /\ seg.cols[i] \in Range(seg.cols)
           /\ seg.span # <<>> => seg.span \in Times \X Times /\ seg.span[1] \in Nat /\ seg.span[2] \in Nat
<1>1. seg.cols \in Seq(Cells) /\ seg.span \in {<<>>} \cup (Times \X Times)
  BY DEF TableSegments, Cells
<1>2. Len(seg.cols) \in Nat /\ DOMAIN seg.cols = 1 .. Len(seg.cols)
  BY <1>1, LenProperties
<1>3. \A i \in DOMAIN seg.cols : seg.cols[i] \in Cells /\ seg.cols[i] \in Range(seg.cols)
  BY <1>1, <1>2, ElementOfSeq DEF Range
<1>4. seg.span # <<>> => seg.span \in Times \X Times /\ seg.span[1] \in Nat /\ seg.span[2] \in Nat
  BY <1>1, TimesAreNumbers
<1> QED  BY <1>1, <1>2, <1>3, <1>4

\* The places of one segment, and of each.
PlacesIn(k, s) == [i \in DOMAIN table[k][s].cols |-> [seg |-> s, at |-> i]]
BySegment(k)   == [s \in DOMAIN table[k] |-> PlacesIn(k, s)]

LEMMA BySegmentIs ==
    ASSUME Given, NEW k \in DOMAIN table
    PROVE  /\ BySegment(k) \in Seq(Seq(TablePlaces)) /\ Len(BySegment(k)) = Len(table[k])
           /\ \A s \in DOMAIN table[k] :
                 /\ BySegment(k)[s] = PlacesIn(k, s) /\ Len(PlacesIn(k, s)) = Len(table[k][s].cols)
                 /\ \A i \in DOMAIN table[k][s].cols : PlacesIn(k, s)[i] = [seg |-> s, at |-> i]
<1>1. Len(table[k]) \in Nat /\ DOMAIN table[k] = 1 .. Len(table[k])
  BY TableIs
<1>2. \A s \in DOMAIN table[k] : /\ Len(table[k][s].cols) \in Nat
                                 /\ DOMAIN table[k][s].cols = 1 .. Len(table[k][s].cols)
  BY TableIs, SegmentIs
<1>3. ASSUME NEW s \in DOMAIN table[k]
      PROVE  /\ PlacesIn(k, s) \in Seq(TablePlaces) /\ Len(PlacesIn(k, s)) = Len(table[k][s].cols)
             /\ \A i \in DOMAIN table[k][s].cols : PlacesIn(k, s)[i] = [seg |-> s, at |-> i]
  <2>1. s \in Nat /\ \A i \in DOMAIN table[k][s].cols : i \in Nat
    BY <1>1, <1>2
  <2>2. PlacesIn(k, s) \in [1 .. Len(table[k][s].cols) -> TablePlaces]
    BY <1>2, <2>1 DEF PlacesIn, TablePlaces
  <2>3. PlacesIn(k, s) \in Seq(TablePlaces) /\ Len(PlacesIn(k, s)) = Len(table[k][s].cols)
    BY <1>2, <2>2
  <2> QED  BY <2>3 DEF PlacesIn
<1>4. BySegment(k) \in [1 .. Len(table[k]) -> Seq(TablePlaces)]
  BY <1>1, <1>3 DEF BySegment
<1>5. BySegment(k) \in Seq(Seq(TablePlaces)) /\ Len(BySegment(k)) = Len(table[k])
  BY <1>1, <1>4
<1>6. \A s \in DOMAIN table[k] : BySegment(k)[s] = PlacesIn(k, s)
  BY DEF BySegment
<1> QED  BY <1>3, <1>5, <1>6

LEMMA ConcatIs ==
    ASSUME NEW X, NEW a \in Seq(X), NEW b \in Seq(X)
    PROVE  /\ Len(a) \in Nat /\ Len(b) \in Nat /\ Len(a \o b) = Len(a) + Len(b)
           /\ \A i \in 1 .. Len(a) + Len(b) : (a \o b)[i] = IF i <= Len(a) THEN a[i] ELSE b[i - Len(a)]
  BY ConcatProperties, LenProperties

\* Sequences of places, each of its own segment, joined: segments go up.
LEMMA FlattenRises ==
    ASSUME NEW s \in Seq(Seq(TablePlaces)),
           \A i \in 1 .. Len(s) : \A j \in 1 .. Len(s[i]) : s[i][j].seg = i
    PROVE  LET f == FlattenSeq(s)
           IN \A i, j \in 1 .. Len(f) : i < j => f[i].seg <= f[j].seg
<1> DEFINE L == Len(s)
<1>1. PICK h : Joins(h, s, TablePlaces) /\ FlattenSeq(s) = h[L]
  BY FlattenJoins
<1>2. L \in Nat /\ \A i \in 1 .. L : s[i] \in Seq(TablePlaces) /\ Len(s[i]) \in Nat
  BY PiecesOf
<1>3. /\ h \in [0 .. L -> Seq(TablePlaces)] /\ h[0] = <<>>
      /\ \A i \in 1 .. L : h[i] = h[i - 1] \o s[i]
  BY <1>1 DEF Joins
<1> DEFINE Up(n) == /\ \A i \in 1 .. Len(h[n]) : h[n][i].seg <= n /\ h[n][i].seg \in Nat
                    /\ \A i, j \in 1 .. Len(h[n]) : i < j => h[n][i].seg <= h[n][j].seg
           S == {n \in 0 .. L : Up(n)}
<1>4. 0 \in S
  BY <1>2, <1>3, EmptySeq
<1>5. ASSUME NEW n \in Nat, n < L, n \in S PROVE n + 1 \in S
  <2>1. n + 1 \in 1 .. L /\ n \in 0 .. L /\ n + 1 \in 0 .. L /\ Up(n)
    BY <1>2, <1>5
  <2>2. /\ h[n + 1] = h[n] \o s[n + 1] /\ h[n] \in Seq(TablePlaces)
        /\ s[n + 1] \in Seq(TablePlaces) /\ \A j \in 1 .. Len(s[n + 1]) : s[n + 1][j].seg = n + 1
    <3>1. (n + 1) - 1 = n
      OBVIOUS
    <3> QED  BY <1>2, <1>3, <2>1, <3>1
  <2> DEFINE a == h[n]
             b == s[n + 1]
             c == h[n + 1]
  <2>0. c = a \o b /\ a \in Seq(TablePlaces) /\ b \in Seq(TablePlaces)
    BY <2>2
  <2>4. /\ \A i \in 1 .. Len(a) : a[i].seg <= n /\ a[i].seg \in Nat
        /\ \A i, j \in 1 .. Len(a) : i < j => a[i].seg <= a[j].seg
        /\ \A j \in 1 .. Len(b) : b[j].seg = n + 1
    BY <2>1, <2>2
  <2> HIDE DEF a, b, c
  <2>3. /\ Len(a) \in Nat /\ Len(b) \in Nat /\ Len(c) = Len(a) + Len(b)
        /\ \A i \in 1 .. Len(a) + Len(b) : c[i] = IF i <= Len(a) THEN a[i] ELSE b[i - Len(a)]
    BY <2>0, ConcatIs
  <2>5. \A i \in 1 .. Len(c) : \/ i <= Len(a) /\ i \in 1 .. Len(a) /\ c[i] = a[i]
                               \/ i > Len(a) /\ c[i].seg = n + 1
    <3> SUFFICES ASSUME NEW i \in 1 .. Len(c)
                 PROVE  \/ i <= Len(a) /\ i \in 1 .. Len(a) /\ c[i] = a[i]
                        \/ i > Len(a) /\ c[i].seg = n + 1
      OBVIOUS
    <3>1. CASE i <= Len(a)
      BY <2>3, <3>1
    <3>2. CASE i > Len(a)
      <4>1. c[i] = b[i - Len(a)] /\ i - Len(a) \in 1 .. Len(b)
        BY <2>3, <3>2
      <4> QED  BY <2>4, <3>2, <4>1
    <3> QED  BY <2>3, <3>1, <3>2
  <2>6. \A i \in 1 .. Len(c) : c[i].seg <= n + 1 /\ c[i].seg \in Nat
    BY <2>4, <2>5
  <2>7. \A i, j \in 1 .. Len(c) : i < j => c[i].seg <= c[j].seg
    <3> SUFFICES ASSUME NEW i \in 1 .. Len(c), NEW j \in 1 .. Len(c), i < j
                 PROVE  c[i].seg <= c[j].seg
      OBVIOUS
    <3>1. CASE j <= Len(a)
      <4>1. /\ i <= Len(a) /\ i \in 1 .. Len(a) /\ j \in 1 .. Len(a)
            /\ c[i] = a[i] /\ c[j] = a[j]
        BY <2>3, <2>5, <3>1
      <4> QED  BY <2>4, <4>1
    <3>2. CASE j > Len(a)
      <4>1. c[j].seg = n + 1
        BY <2>3, <2>5, <3>2
      <4> QED  BY <2>6, <4>1
    <3> QED  BY <2>3, <3>1, <3>2
  <2> QED  BY <2>1, <2>6, <2>7 DEF c
<1> HIDE DEF S
<1>6. \A i \in 0 .. L : i \in S
  BY <1>2, <1>4, <1>5, UpTo
<1>7. L \in S
  BY <1>2, <1>6
<1> QED  BY <1>1, <1>7 DEF S

\* The places are the columns of the segments, each once, by segment.
LEMMA PlacesAre ==
    ASSUME Given, NEW k \in DOMAIN table
    PROVE  LET all == ColumnPlaces(k)
           IN /\ all \in Seq(TablePlaces) /\ Len(all) \in Nat /\ DOMAIN all = 1 .. Len(all)
              /\ Once(all)
              /\ \A s \in DOMAIN table[k] : \A i \in DOMAIN table[k][s].cols :
                    [seg |-> s, at |-> i] \in Range(all)
              /\ \A p \in Range(all) : /\ p \in TablePlaces /\ p.seg \in DOMAIN table[k]
                                       /\ p.at \in DOMAIN table[k][p.seg].cols
              /\ \A i, j \in 1 .. Len(all) : i < j => all[i].seg <= all[j].seg
<1> DEFINE all == ColumnPlaces(k)
           by  == BySegment(k)
           D   == DOMAIN table[k]
<1>1. all = FlattenSeq(by)
  BY DEF ColumnPlaces, BySegment, PlacesIn
<1>2. /\ by \in Seq(Seq(TablePlaces)) /\ Len(by) = Len(table[k]) /\ D = 1 .. Len(by)
      /\ \A s \in D : by[s] \in Seq(TablePlaces) /\ by[s] = PlacesIn(k, s)
  BY BySegmentIs, TableIs, PiecesOf
<1>3. \A s \in D : /\ DOMAIN table[k][s].cols = 1 .. Len(by[s]) /\ Len(by[s]) \in Nat
                   /\ \A i \in 1 .. Len(by[s]) : by[s][i] = [seg |-> s, at |-> i]
  <2> SUFFICES ASSUME NEW s \in D
               PROVE  /\ DOMAIN table[k][s].cols = 1 .. Len(by[s]) /\ Len(by[s]) \in Nat
                      /\ \A i \in 1 .. Len(by[s]) : by[s][i] = [seg |-> s, at |-> i]
    OBVIOUS
  <2>1. DOMAIN table[k][s].cols = 1 .. Len(table[k][s].cols) /\ Len(table[k][s].cols) \in Nat
    BY TableIs, SegmentIs
  <2> QED  BY <2>1, BySegmentIs
<1>4. \A s \in D : /\ \A i \in DOMAIN table[k][s].cols : [seg |-> s, at |-> i] \in Range(by[s])
                   /\ \A p \in Range(by[s]) : /\ p.seg = s /\ p.at \in DOMAIN table[k][s].cols
                                              /\ p = [seg |-> s, at |-> p.at]
  <2> SUFFICES ASSUME NEW s \in D
               PROVE  /\ \A i \in DOMAIN table[k][s].cols : [seg |-> s, at |-> i] \in Range(by[s])
                      /\ \A p \in Range(by[s]) : /\ p.seg = s /\ p.at \in DOMAIN table[k][s].cols
                                                 /\ p = [seg |-> s, at |-> p.at]
    OBVIOUS
  <2>1. Range(by[s]) = {by[s][i] : i \in 1 .. Len(by[s])}
    BY <1>2, RangeEquality
  <2> HIDE DEF by
  <2>2. ASSUME NEW i \in DOMAIN table[k][s].cols PROVE [seg |-> s, at |-> i] \in Range(by[s])
    BY <1>3, <2>1
  <2>3. ASSUME NEW p \in Range(by[s])
        PROVE  /\ p.seg = s /\ p.at \in DOMAIN table[k][s].cols
               /\ p = [seg |-> s, at |-> p.at]
    <3>1. PICK i \in 1 .. Len(by[s]) : p = by[s][i]
      BY <2>1
    <3>2. p = [seg |-> s, at |-> i] /\ i \in DOMAIN table[k][s].cols
      BY <1>3, <3>1
    <3> QED  BY <3>2
  <2> QED  BY <2>2, <2>3
<1> HIDE DEF by, all
<1>5. all \in Seq(TablePlaces) /\ Range(all) = RangesTo(by, Len(by))
  BY <1>1, <1>2, FlattenRange
<1>6. Len(all) \in Nat /\ DOMAIN all = 1 .. Len(all)
  BY <1>5, LenProperties
<1>7. Once(all)
  <2>1. \A s \in 1 .. Len(by) : Once(by[s])
    <3> SUFFICES ASSUME NEW s \in 1 .. Len(by), NEW i \in 1 .. Len(by[s]), NEW j \in 1 .. Len(by[s]),
                        by[s][i] = by[s][j]
                 PROVE  i = j
      BY DEF Once
    <3>1. by[s][i] = [seg |-> s, at |-> i] /\ by[s][j] = [seg |-> s, at |-> j]
      BY <1>2, <1>3
    <3>2. [seg |-> s, at |-> i].at = [seg |-> s, at |-> j].at
      BY <3>1
    <3> QED  BY <3>2
  <2>2. \A s, r \in 1 .. Len(by) : s < r => Range(by[s]) \cap Range(by[r]) = {}
    <3> SUFFICES ASSUME NEW s \in 1 .. Len(by), NEW r \in 1 .. Len(by), s < r,
                        NEW p \in Range(by[s]), p \in Range(by[r])
                 PROVE  FALSE
      OBVIOUS
    <3>1. p.seg = s /\ p.seg = r
      BY <1>2, <1>4
    <3> QED  BY <3>1
  <2> QED  BY <1>1, <1>2, <2>1, <2>2, FlattenOnce
<1>8. ASSUME NEW s \in D, NEW i \in DOMAIN table[k][s].cols PROVE [seg |-> s, at |-> i] \in Range(all)
  BY <1>2, <1>4, <1>5 DEF RangesTo
<1>9. ASSUME NEW p \in Range(all)
      PROVE  p \in TablePlaces /\ p.seg \in D /\ p.at \in DOMAIN table[k][p.seg].cols
  <2>1. PICK s \in 1 .. Len(by) : p \in Range(by[s])
    BY <1>5 DEF RangesTo
  <2>2. p.seg = s /\ p.at \in DOMAIN table[k][s].cols
    BY <1>2, <1>4, <2>1
  <2>3. p \in TablePlaces
    BY <1>5, RangeEquality, ElementOfSeq
  <2> QED  BY <1>2, <2>2, <2>3
<1>10. \A i, j \in 1 .. Len(all) : i < j => all[i].seg <= all[j].seg
  <2>1. \A i \in 1 .. Len(by) : \A j \in 1 .. Len(by[i]) : by[i][j].seg = i
    <3> SUFFICES ASSUME NEW i \in 1 .. Len(by), NEW j \in 1 .. Len(by[i]) PROVE by[i][j].seg = i
      OBVIOUS
    <3>1. by[i][j] = [seg |-> i, at |-> j]
      BY <1>2, <1>3
    <3> QED  BY <3>1
  <2> QED  BY <1>1, <1>2, <2>1, FlattenRises
<1> QED  BY <1>5, <1>6, <1>7, <1>8, <1>9, <1>10 DEF all

-----------------------------------------------------------------------------
(* Samples. *)

\* The samples of a label that the column at a place has in a query's range.
HeldAt(k, q, label, p) ==
    {t \in ColumnAt(k, p).times :
        q.from <= t /\ t <= q.to /\ At(ColumnAt(k, p).col, t) = label}

PieceAt(k, q, label, p) == Piece(ColumnAt(k, p), q, label).times

LEMMA ColumnIs ==
    ASSUME Given, NEW k \in DOMAIN table, NEW p \in Range(ColumnPlaces(k))
    PROVE  /\ ColumnAt(k, p) \in Cells /\ ColumnAt(k, p).times \in SUBSET Times
           /\ IsFiniteSet(ColumnAt(k, p).times) /\ ColumnAt(k, p).col \in Columns
           /\ p.seg \in DOMAIN table[k] /\ ColumnAt(k, p) \in Range(table[k][p.seg].cols)
<1>1. p.seg \in DOMAIN table[k] /\ p.at \in DOMAIN table[k][p.seg].cols
  BY PlacesAre
<1>2. /\ table[k][p.seg] \in TableSegments
      /\ \A c \in Range(table[k][p.seg].cols) : IsFiniteSet(c.times)
  BY <1>1, TableIs
<1>3. ColumnAt(k, p) \in Cells /\ ColumnAt(k, p) \in Range(table[k][p.seg].cols)
  BY <1>1, <1>2, SegmentIs DEF ColumnAt
<1>4. ColumnAt(k, p).times \in SUBSET Times /\ ColumnAt(k, p).col \in Columns
  BY <1>3 DEF Cells
<1> QED  BY <1>1, <1>2, <1>3, <1>4

LEMMA PieceIs ==
    ASSUME Given, NEW k \in DOMAIN table, NEW p \in Range(ColumnPlaces(k)), NEW q, NEW label
    PROVE  /\ PieceAt(k, q, label, p) \in Seq(Times)
           /\ Range(PieceAt(k, q, label, p)) = HeldAt(k, q, label, p)
           /\ Once(PieceAt(k, q, label, p))
           /\ HeldAt(k, q, label, p) = {} => PieceAt(k, q, label, p) = <<>>
<1> DEFINE T == HeldAt(k, q, label, p)
           e == PieceAt(k, q, label, p)
<1>1. e = Enumerated(T)
  BY DEF PieceAt, Piece, HeldAt
<1>2. T \in SUBSET ColumnAt(k, p).times
  BY DEF HeldAt
<1>3. T \subseteq Times
  BY <1>2, ColumnIs
<1> HIDE DEF T, e
<1>4. T \subseteq Nat /\ IsFiniteSet(T)
  BY <1>2, <1>3, ColumnIs, TimesAreNumbers, FS_Subset
<1>5. e \in Seq(T) /\ Range(e) = T /\ Once(e)
  BY <1>1, <1>4, EnumeratedIs
<1>6. e \in Seq(Times)
  BY <1>3, <1>5, SeqMonotonic
<1>7. T = {} => e = <<>>
  <2> SUFFICES ASSUME T = {} PROVE e = <<>>
    OBVIOUS
  <2>1. Cardinality(T) = 0
    BY FS_EmptySet
  <2>2. Len(e) = 0
    BY <1>1, <1>4, <2>1, EnumeratedIs
  <2> QED  BY <1>5, <2>2, EmptySeq
<1> QED  BY <1>5, <1>6, <1>7 DEF T, e

\* SamplesAt joins the pieces of the places, those left out as nothing.
PiecesAt(k, q, label, ps) ==
    [n \in DOMAIN ColumnPlaces(k) |->
        IF ColumnPlaces(k)[n] \in ps THEN PieceAt(k, q, label, ColumnPlaces(k)[n]) ELSE <<>>]

LEMMA PiecesAtAre ==
    ASSUME Given, NEW k \in DOMAIN table, NEW q, NEW label, NEW ps
    PROVE  LET all == ColumnPlaces(k)
               sm  == PiecesAt(k, q, label, ps)
           IN /\ SamplesAt(k, q, label, ps) = FlattenSeq(sm)
              /\ sm \in Seq(Seq(Times)) /\ Len(sm) = Len(all) /\ Len(all) \in Nat
              /\ \A n \in 1 .. Len(all) :
                    /\ all[n] \in Range(all)
                    /\ sm[n] = IF all[n] \in ps THEN PieceAt(k, q, label, all[n]) ELSE <<>>
<1> DEFINE all == ColumnPlaces(k)
           sm  == PiecesAt(k, q, label, ps)
<1>1. all \in Seq(TablePlaces) /\ Len(all) \in Nat /\ DOMAIN all = 1 .. Len(all)
  BY PlacesAre
<1>2. SamplesAt(k, q, label, ps) = FlattenSeq(sm)
  BY DEF SamplesAt, PiecesAt, PieceAt
<1>3. \A n \in 1 .. Len(all) : all[n] \in Range(all)
  BY <1>1, RangeEquality
<1>4. \A n \in 1 .. Len(all) :
         /\ sm[n] = IF all[n] \in ps THEN PieceAt(k, q, label, all[n]) ELSE <<>>
         /\ sm[n] \in Seq(Times)
  <2> SUFFICES ASSUME NEW n \in 1 .. Len(all)
               PROVE  /\ sm[n] = IF all[n] \in ps THEN PieceAt(k, q, label, all[n]) ELSE <<>>
                      /\ sm[n] \in Seq(Times)
    OBVIOUS
  <2>1. sm[n] = IF all[n] \in ps THEN PieceAt(k, q, label, all[n]) ELSE <<>>
    BY <1>1 DEF PiecesAt
  <2>2. PieceAt(k, q, label, all[n]) \in Seq(Times) /\ <<>> \in Seq(Times)
    BY <1>3, PieceIs, EmptySeq
  <2> HIDE DEF sm, all
  <2> QED  BY <2>1, <2>2
<1>5. sm = [n \in 1 .. Len(all) |-> sm[n]]
  BY <1>1 DEF PiecesAt
<1>6. sm \in Seq(Seq(Times)) /\ Len(sm) = Len(all)
  <2> HIDE DEF sm, all
  <2>1. sm \in [1 .. Len(all) -> Seq(Times)]
    BY <1>4, <1>5
  <2> QED  BY <1>1, <2>1
<1> QED  BY <1>1, <1>2, <1>3, <1>4, <1>6

\* They are the samples the places have, of any sort.
LEMMA SamplesAtAre ==
    ASSUME Given, NEW k \in DOMAIN table, NEW q, NEW label, NEW ps
    PROVE  /\ SamplesAt(k, q, label, ps) \in Seq(Times)
           /\ \A t : t \in Range(SamplesAt(k, q, label, ps))
                       <=> \E p \in Range(ColumnPlaces(k)) : p \in ps /\ t \in HeldAt(k, q, label, p)
<1> DEFINE all == ColumnPlaces(k)
           sm  == PiecesAt(k, q, label, ps)
<1>1. /\ SamplesAt(k, q, label, ps) = FlattenSeq(sm)
      /\ sm \in Seq(Seq(Times)) /\ Len(sm) = Len(all) /\ Len(all) \in Nat
      /\ \A n \in 1 .. Len(all) :
            /\ all[n] \in Range(all)
            /\ sm[n] = IF all[n] \in ps THEN PieceAt(k, q, label, all[n]) ELSE <<>>
  BY PiecesAtAre
<1>2. all \in Seq(TablePlaces)
  BY PlacesAre
<1>3. \A n \in 1 .. Len(all) : Range(PieceAt(k, q, label, all[n])) = HeldAt(k, q, label, all[n])
  BY <1>1, PieceIs
<1> HIDE DEF sm, all
<1>4. FlattenSeq(sm) \in Seq(Times) /\ Range(FlattenSeq(sm)) = RangesTo(sm, Len(sm))
  BY <1>1, FlattenRange
<1>5. Range(<<>>) = {}
  BY DEF Range
<1>6. ASSUME NEW t, t \in RangesTo(sm, Len(sm))
      PROVE  \E p \in Range(all) : p \in ps /\ t \in HeldAt(k, q, label, p)
  <2>1. PICK n \in 1 .. Len(all) : t \in Range(sm[n])
    BY <1>1, <1>6 DEF RangesTo
  <2>2. all[n] \in ps
    BY <1>1, <1>5, <2>1
  <2>3. t \in HeldAt(k, q, label, all[n])
    BY <1>1, <1>3, <2>1, <2>2
  <2> QED  BY <1>1, <2>2, <2>3
<1>7. ASSUME NEW t, NEW p \in Range(all), p \in ps, t \in HeldAt(k, q, label, p)
      PROVE  t \in RangesTo(sm, Len(sm))
  <2>1. PICK n \in 1 .. Len(all) : all[n] = p
    BY <1>2, RangeEquality
  <2>2. t \in Range(sm[n])
    BY <1>1, <1>3, <1>7, <2>1
  <2> QED  BY <1>1, <2>2 DEF RangesTo
<1> QED  BY <1>1, <1>4, <1>6, <1>7 DEF all

\* One column holds a label at a time, so each sample is there once.
LEMMA SamplesAtOnce ==
    ASSUME Given, NEW k \in DOMAIN table, NEW q, NEW label, NEW ps
    PROVE  Once(SamplesAt(k, q, label, ps))
<1> DEFINE all == ColumnPlaces(k)
           sm  == PiecesAt(k, q, label, ps)
<1>1. /\ SamplesAt(k, q, label, ps) = FlattenSeq(sm)
      /\ sm \in Seq(Seq(Times)) /\ Len(sm) = Len(all) /\ Len(all) \in Nat
      /\ \A n \in 1 .. Len(all) :
            /\ all[n] \in Range(all)
            /\ sm[n] = IF all[n] \in ps THEN PieceAt(k, q, label, all[n]) ELSE <<>>
  BY PiecesAtAre
<1>2. Once(all)
  BY PlacesAre
<1>3. \A n \in 1 .. Len(all) : /\ Range(PieceAt(k, q, label, all[n])) = HeldAt(k, q, label, all[n])
                               /\ Once(PieceAt(k, q, label, all[n]))
  BY <1>1, PieceIs
<1>4. \A p, r \in Range(all) : p # r => HeldAt(k, q, label, p) \cap HeldAt(k, q, label, r) = {}
  <2> SUFFICES ASSUME NEW p \in Range(all), NEW r \in Range(all), p # r,
                      NEW t, t \in HeldAt(k, q, label, p), t \in HeldAt(k, q, label, r)
               PROVE  FALSE
    OBVIOUS
  <2>1. /\ t \in ColumnAt(k, p).times \cap ColumnAt(k, r).times
        /\ At(ColumnAt(k, p).col, t) = label /\ At(ColumnAt(k, r).col, t) = label
    BY DEF HeldAt
  <2> QED  BY <2>1 DEF Given, OneHolder
<1> HIDE DEF sm, all
<1>5. Range(<<>>) = {} /\ Once(<<>>)
  BY DEF Range, Once
<1>6. \A n \in 1 .. Len(sm) : Once(sm[n])
  BY <1>1, <1>3, <1>5
<1>7. \A i, j \in 1 .. Len(sm) : i < j => Range(sm[i]) \cap Range(sm[j]) = {}
  <2> SUFFICES ASSUME NEW i \in 1 .. Len(sm), NEW j \in 1 .. Len(sm), i < j,
                      NEW t, t \in Range(sm[i]), t \in Range(sm[j])
               PROVE  FALSE
    OBVIOUS
  <2>1. all[i] # all[j]
    BY <1>1, <1>2 DEF Once
  <2>2. t \in HeldAt(k, q, label, all[i]) /\ t \in HeldAt(k, q, label, all[j])
    BY <1>1, <1>3, <1>5
  <2>3. all[i] \in Range(all) /\ all[j] \in Range(all)
    BY <1>1
  <2> QED  BY <1>4, <2>1, <2>2, <2>3
<1> QED  BY <1>1, <1>6, <1>7, FlattenOnce

\* TablePlaces that have none of the samples make no difference.
LEMMA SamplesAtSame ==
    ASSUME Given, NEW k \in DOMAIN table, NEW q, NEW label, NEW ps, NEW qs,
           \A p \in Range(ColumnPlaces(k)) : HeldAt(k, q, label, p) # {} => (p \in ps <=> p \in qs)
    PROVE  SamplesAt(k, q, label, ps) = SamplesAt(k, q, label, qs)
<1> DEFINE all == ColumnPlaces(k)
           a   == PiecesAt(k, q, label, ps)
           b   == PiecesAt(k, q, label, qs)
<1>1. /\ SamplesAt(k, q, label, ps) = FlattenSeq(a) /\ SamplesAt(k, q, label, qs) = FlattenSeq(b)
      /\ a \in Seq(Seq(Times)) /\ b \in Seq(Seq(Times)) /\ Len(a) = Len(all) /\ Len(b) = Len(all)
      /\ \A n \in 1 .. Len(all) :
            /\ all[n] \in Range(all)
            /\ a[n] = IF all[n] \in ps THEN PieceAt(k, q, label, all[n]) ELSE <<>>
            /\ b[n] = IF all[n] \in qs THEN PieceAt(k, q, label, all[n]) ELSE <<>>
  BY PiecesAtAre
<1>2. \A n \in 1 .. Len(all) : \/ (all[n] \in ps <=> all[n] \in qs)
                               \/ PieceAt(k, q, label, all[n]) = <<>>
  BY <1>1, PieceIs
<1> HIDE DEF a, b, all
<1>3. \A n \in 1 .. Len(a) : a[n] = b[n]
  BY <1>1, <1>2
<1>4. a = b
  BY <1>1, <1>3, SeqEqual
<1> QED  BY <1>1, <1>4

\* Places in earlier segments than others.
Earlier(ps, qs) ==
    /\ \A p \in ps : \A r \in qs : p.seg < r.seg
    /\ \A p \in ps \cup qs : p.seg \in Nat

InTwo(k, q, label, ps, qs) ==
    SamplesAt(k, q, label, ps \cup qs)
      = SamplesAt(k, q, label, ps) \o SamplesAt(k, q, label, qs)

\* Read in two goes, the places of the first in earlier segments, they are the
\* same samples in the same order.
LEMMA SamplesAtSplit ==
    ASSUME Given, NEW k \in DOMAIN table, NEW q, NEW label, NEW ps, NEW qs,
           Earlier(ps, qs)
    PROVE  InTwo(k, q, label, ps, qs)
<1>0. /\ \A p \in ps : \A r \in qs : p.seg < r.seg
      /\ \A p \in ps \cup qs : p.seg \in Nat
  BY DEF Earlier
<1> DEFINE all == ColumnPlaces(k)
           s   == PiecesAt(k, q, label, ps \cup qs)
           a   == PiecesAt(k, q, label, ps)
           b   == PiecesAt(k, q, label, qs)
<1> DEFINE Is(sm, x) ==
             /\ SamplesAt(k, q, label, x) = FlattenSeq(sm)
             /\ sm \in Seq(Seq(Times)) /\ Len(sm) = Len(all)
             /\ \A n \in 1 .. Len(all) :
                   sm[n] = IF all[n] \in x THEN PieceAt(k, q, label, all[n]) ELSE <<>>
<1>1. ASSUME NEW x PROVE Is(PiecesAt(k, q, label, x), x)
  BY PiecesAtAre
<1> HIDE DEF Is
<1>1a. Is(a, ps) /\ Is(b, qs) /\ Is(s, ps \cup qs)
  BY <1>1
<1> HIDE DEF a, b, s
<1>1b. /\ SamplesAt(k, q, label, ps) = FlattenSeq(a) /\ SamplesAt(k, q, label, qs) = FlattenSeq(b)
       /\ SamplesAt(k, q, label, ps \cup qs) = FlattenSeq(s)
       /\ a \in Seq(Seq(Times)) /\ b \in Seq(Seq(Times)) /\ s \in Seq(Seq(Times))
       /\ Len(a) = Len(all) /\ Len(b) = Len(all) /\ Len(s) = Len(all)
       /\ \A n \in 1 .. Len(all) :
             /\ a[n] = IF all[n] \in ps THEN PieceAt(k, q, label, all[n]) ELSE <<>>
             /\ b[n] = IF all[n] \in qs THEN PieceAt(k, q, label, all[n]) ELSE <<>>
             /\ s[n] = IF all[n] \in ps \cup qs THEN PieceAt(k, q, label, all[n]) ELSE <<>>
  BY <1>1a DEF Is
<1>2. /\ Len(all) \in Nat /\ \A i, j \in 1 .. Len(all) : i < j => all[i].seg <= all[j].seg
  BY PlacesAre
<1> HIDE DEF all
<1>3. \A n \in 1 .. Len(all) : ~(all[n] \in ps /\ all[n] \in qs)
  BY <1>0, <1>2
<1>4. \A n \in 1 .. Len(s) : \/ a[n] = s[n] /\ b[n] = <<>>
                             \/ a[n] = <<>> /\ b[n] = s[n]
  BY <1>1b, <1>3
<1>5. \A i, j \in 1 .. Len(s) : i < j /\ b[i] # <<>> => a[j] = <<>>
  <2> SUFFICES ASSUME NEW i \in 1 .. Len(s), NEW j \in 1 .. Len(s), i < j,
                      b[i] # <<>>, a[j] # <<>>
               PROVE  FALSE
    OBVIOUS
  <2>1. all[i] \in qs /\ all[j] \in ps
    BY <1>1b
  <2>2. all[i].seg <= all[j].seg
    BY <1>1b, <1>2
  <2>3. all[j].seg < all[i].seg /\ all[j].seg \in Nat /\ all[i].seg \in Nat
    BY <1>0, <2>1
  <2> QED  BY <2>2, <2>3
<1>6. PartedInto(s, a, b)
  BY <1>1b, <1>4, <1>5 DEF PartedInto
<1>7. FlattenSeq(s) = FlattenSeq(a) \o FlattenSeq(b)
  BY <1>1b, <1>6, FlattenSplit
<1> QED  BY <1>1b, <1>7 DEF InTwo

-----------------------------------------------------------------------------
(* counters: merging the chunks one by one. *)

\* A sequence with nothing in it.
LEMMA NothingIn ==
    ASSUME NEW X, NEW e \in Seq(X), Range(e) = {}
    PROVE  e = <<>>
<1>1. Len(e) \in Nat /\ \A i \in 1 .. Len(e) : e[i] \in Range(e)
  BY LenProperties, RangeEquality
<1>2. Len(e) = 0
  BY <1>1
<1> QED  BY <1>2, EmptySeq

\* The places of the segments a query reads.
TouchedPlaces(k, q) == {p \in Range(ColumnPlaces(k)) : p.seg \in Touched(k, q)}

\* What the loop makes of the first n columns, given what it made of n - 1.
MergeStep(k, q, label, n, before) ==
    LET p == Piece(ColumnAt(k, ColumnPlaces(k)[n]), q, label)
    IN IF ColumnPlaces(k)[n].seg \in Touched(k, q) /\ p.times # <<>>
       THEN MergeCounter(before, p)
       ELSE before

Merged(k, q, label) ==
    CHOOSE g : g = [n \in 0 .. Len(ColumnPlaces(k)) |->
                       IF n = 0 THEN NoSeries ELSE MergeStep(k, q, label, n, g[n - 1])]

\* The loop joins the pieces, and their windows while all of them have some.
LEMMA MergedIs ==
    ASSUME Given, NEW k \in DOMAIN table, NEW q, NEW label
    PROVE  LET m == Merged(k, q, label)[Len(ColumnPlaces(k))]
           IN /\ m.times = SamplesAt(k, q, label, TouchedPlaces(k, q))
              /\ m.windows \in {<<>>, m.times}
<1> DEFINE all == ColumnPlaces(k)
           L   == Len(all)
           sm  == PiecesAt(k, q, label, TouchedPlaces(k, q))
           U(n) == all[n].seg \in Touched(k, q) /\ PieceAt(k, q, label, all[n]) # <<>>
           W(n) == Piece(ColumnAt(k, all[n]), q, label).windows
           C(n) == \A i \in 1 .. n : U(i) => W(i)
           Body(g) == [n \in 0 .. L |->
                         IF n = 0 THEN NoSeries ELSE MergeStep(k, q, label, n, g[n - 1])]
<1>1. /\ SamplesAt(k, q, label, TouchedPlaces(k, q)) = FlattenSeq(sm)
      /\ sm \in Seq(Seq(Times)) /\ Len(sm) = L /\ L \in Nat
      /\ \A n \in 1 .. L :
            /\ all[n] \in Range(all)
            /\ sm[n] = IF all[n] \in TouchedPlaces(k, q)
                       THEN PieceAt(k, q, label, all[n]) ELSE <<>>
  BY PiecesAtAre
<1>2. PICK h : Joins(h, sm, Times) /\ FlattenSeq(sm) = h[L]
  <2> HIDE DEF sm, L
  <2> QED  BY <1>1, FlattenJoins
<1>3. /\ h \in [0 .. L -> Seq(Times)] /\ h[0] = <<>>
      /\ \A n \in 1 .. L : h[n] = h[n - 1] \o sm[n]
  BY <1>1, <1>2 DEF Joins
<1>4. \A n \in 1 .. L : sm[n] = IF U(n) THEN PieceAt(k, q, label, all[n]) ELSE <<>>
  <2> HIDE DEF sm, L
  <2> QED  BY <1>1 DEF TouchedPlaces
<1>5. \A n \in 1 .. L : \A g :
         MergeStep(k, q, label, n, g) =
            IF U(n) THEN IF g.carried /\ W(n)
                         THEN [times |-> g.times \o sm[n], windows |-> g.windows \o sm[n], carried |-> TRUE]
                         ELSE [times |-> g.times \o sm[n], windows |-> <<>>, carried |-> FALSE]
            ELSE g
  <2> SUFFICES ASSUME NEW n \in 1 .. L, NEW g
               PROVE  MergeStep(k, q, label, n, g) =
            IF U(n) THEN IF g.carried /\ W(n)
                         THEN [times |-> g.times \o sm[n], windows |-> g.windows \o sm[n], carried |-> TRUE]
                         ELSE [times |-> g.times \o sm[n], windows |-> <<>>, carried |-> FALSE]
            ELSE g
    OBVIOUS
  <2>1. MergeStep(k, q, label, n, g) =
            IF U(n) THEN MergeCounter(g, Piece(ColumnAt(k, all[n]), q, label)) ELSE g
    BY DEF MergeStep, PieceAt
  <2>2. U(n) => sm[n] = Piece(ColumnAt(k, all[n]), q, label).times
    <3> HIDE DEF sm, L
    <3> QED  BY <1>4 DEF PieceAt
  <2> HIDE DEF U, sm, all, L
  <2>3. U(n) => MergeCounter(g, Piece(ColumnAt(k, all[n]), q, label)) =
                  IF g.carried /\ W(n)
                  THEN [times |-> g.times \o sm[n], windows |-> g.windows \o sm[n], carried |-> TRUE]
                  ELSE [times |-> g.times \o sm[n], windows |-> <<>>, carried |-> FALSE]
    BY <2>2 DEF MergeCounter
  <2> QED  BY <2>1, <2>3
<1> DEFINE w == [n \in 0 .. L |-> [times |-> h[n], windows |-> IF C(n) THEN h[n] ELSE <<>>,
                                   carried |-> C(n)]]
<1>6. \A n \in 1 .. L : C(n) <=> (C(n - 1) /\ (U(n) => W(n)))
  <2> SUFFICES ASSUME NEW n \in 1 .. L PROVE C(n) <=> (C(n - 1) /\ (U(n) => W(n)))
    OBVIOUS
  <2> HIDE DEF U, W, L
  <2>1. \A i : i \in 1 .. n <=> (i \in 1 .. n - 1 \/ i = n)
    BY <1>1
  <2> QED  BY <2>1
<1>6a. \A n : C(n) \in BOOLEAN
  OBVIOUS
<1> HIDE DEF U, W, sm, all, L, C
<1>7. \A n \in 1 .. L : w[n] = MergeStep(k, q, label, n, w[n - 1])
  <2> SUFFICES ASSUME NEW n \in 1 .. L PROVE w[n] = MergeStep(k, q, label, n, w[n - 1])
    OBVIOUS
  <2>1. n - 1 \in 0 .. L /\ n \in 0 .. L
    BY <1>1
  <2>2. /\ w[n - 1] = [times |-> h[n - 1], windows |-> IF C(n - 1) THEN h[n - 1] ELSE <<>>,
                       carried |-> C(n - 1)]
        /\ w[n] = [times |-> h[n], windows |-> IF C(n) THEN h[n] ELSE <<>>, carried |-> C(n)]
    BY <2>1
  <2>3. h[n] = h[n - 1] \o sm[n] /\ h[n - 1] \in Seq(Times)
    BY <1>3, <2>1
  <2>4. C(n) <=> (C(n - 1) /\ (U(n) => W(n)))
    BY <1>6
  <2>2a. /\ w[n - 1].times = h[n - 1] /\ w[n - 1].windows = IF C(n - 1) THEN h[n - 1] ELSE <<>>
         /\ w[n - 1].carried = C(n - 1)
    BY <2>2
  <2> HIDE DEF w
  <2>2b. MergeStep(k, q, label, n, w[n - 1]) =
            IF U(n) THEN IF w[n - 1].carried /\ W(n)
                         THEN [times |-> w[n - 1].times \o sm[n],
                               windows |-> w[n - 1].windows \o sm[n], carried |-> TRUE]
                         ELSE [times |-> w[n - 1].times \o sm[n], windows |-> <<>>, carried |-> FALSE]
            ELSE w[n - 1]
    BY <1>5
  <2>5. CASE U(n)
    <3>1. CASE C(n - 1) /\ W(n)
      <4>1. MergeStep(k, q, label, n, w[n - 1]) =
               [times |-> h[n - 1] \o sm[n], windows |-> h[n - 1] \o sm[n], carried |-> TRUE]
        BY <2>2a, <2>2b, <2>5, <3>1
      <4>2. C(n) = TRUE
        BY <1>6a, <2>4, <2>5, <3>1
      <4>3. w[n] = [times |-> h[n], windows |-> h[n], carried |-> TRUE]
        BY <2>2, <4>2
      <4> QED  BY <2>3, <4>1, <4>3
    <3>2. CASE ~(C(n - 1) /\ W(n))
      <4>1. MergeStep(k, q, label, n, w[n - 1]) =
               [times |-> h[n - 1] \o sm[n], windows |-> <<>>, carried |-> FALSE]
        BY <2>2a, <2>2b, <2>5, <3>2
      <4>2. C(n) = FALSE
        BY <1>6a, <2>4, <2>5, <3>2
      <4>3. w[n] = [times |-> h[n], windows |-> <<>>, carried |-> FALSE]
        BY <2>2, <4>2
      <4> QED  BY <2>3, <4>1, <4>3
    <3> QED  BY <3>1, <3>2
  <2>6. CASE ~U(n)
    <3>1. MergeStep(k, q, label, n, w[n - 1]) = w[n - 1]
      BY <1>5, <2>6
    <3>2. h[n] = h[n - 1]
      BY <1>4, <2>3, <2>6, ConcatEmptySeq
    <3>3. C(n) = C(n - 1)
      BY <2>4, <2>6 DEF C
    <3> QED  BY <2>2, <3>1, <3>2, <3>3
  <2> QED  BY <2>5, <2>6
<1>8. w = Body(w)
  <2>1. w[0] = NoSeries
    <3>1. C(0)
      BY DEF C
    <3>2. w[0] = [times |-> h[0], windows |-> IF C(0) THEN h[0] ELSE <<>>, carried |-> C(0)]
      BY <1>1
    <3>3. C(0) = TRUE
      BY <3>1 DEF C
    <3> HIDE DEF w
    <3> QED  BY <1>3, <3>2, <3>3 DEF NoSeries
  <2>2. \A n \in 0 .. L : w[n] = IF n = 0 THEN NoSeries ELSE MergeStep(k, q, label, n, w[n - 1])
    <3> SUFFICES ASSUME NEW n \in 0 .. L
                 PROVE  w[n] = IF n = 0 THEN NoSeries ELSE MergeStep(k, q, label, n, w[n - 1])
      OBVIOUS
    <3> HIDE DEF w
    <3>1. CASE n = 0
      BY <2>1, <3>1
    <3>2. CASE n # 0
      <4>1. n \in 1 .. L
        BY <1>1, <3>2
      <4> QED  BY <1>7, <3>2, <4>1
    <3> QED  BY <3>1, <3>2
  <2>3. w = [n \in 0 .. L |-> w[n]]
    OBVIOUS
  <2> HIDE DEF w
  <2> QED  BY <2>2, <2>3
<1> DEFINE m == Merged(k, q, label)
<1>9. m = CHOOSE g : g = Body(g)
  BY DEF Merged, L, all
<1> HIDE DEF w, Body, m
<1>10. m = Body(m)
  BY <1>8, <1>9
<1>11. \A n \in 0 .. L : m[n] = w[n]
  <2> DEFINE S == {n \in 0 .. L : m[n] = w[n]}
  <2>1. \A n \in 0 .. L :
           /\ m[n] = IF n = 0 THEN NoSeries ELSE MergeStep(k, q, label, n, m[n - 1])
           /\ w[n] = IF n = 0 THEN NoSeries ELSE MergeStep(k, q, label, n, w[n - 1])
    BY <1>8, <1>10 DEF Body
  <2>2. 0 \in S
    BY <1>1, <2>1
  <2>3. ASSUME NEW n \in Nat, n < L, n \in S PROVE n + 1 \in S
    <3>1. n + 1 \in 0 .. L /\ n + 1 # 0 /\ (n + 1) - 1 = n /\ m[n] = w[n]
      BY <1>1, <2>3
    <3>2. m[n + 1] = MergeStep(k, q, label, n + 1, m[n])
          /\ w[n + 1] = MergeStep(k, q, label, n + 1, w[n])
      BY <2>1, <3>1
    <3> QED  BY <3>1, <3>2
  <2> HIDE DEF S
  <2>4. \A n \in 0 .. L : n \in S
    BY <1>1, <2>2, <2>3, UpTo
  <2> QED  BY <2>4 DEF S
<1>12. m[L] = [times |-> h[L], windows |-> IF C(L) THEN h[L] ELSE <<>>, carried |-> C(L)]
  <2>1. L \in 0 .. L
    BY <1>1
  <2>2. w[L] = [times |-> h[L], windows |-> IF C(L) THEN h[L] ELSE <<>>, carried |-> C(L)]
    BY <2>1 DEF w
  <2> QED  BY <1>11, <2>1, <2>2
<1>13. m[L].times = h[L] /\ m[L].windows \in {<<>>, h[L]}
  BY <1>12
<1> QED  BY <1>1, <1>2, <1>13 DEF m, L, all

\* A column that holds samples of a label has it among its identities.
LEMMA HeldIsLocated ==
    ASSUME Given, NEW k \in DOMAIN table, NEW q, NEW label,
           NEW p \in Range(ColumnPlaces(k)), HeldAt(k, q, label, p) # {}
    PROVE  p \in Locations(k, label) /\ label \in Identified(k)
<1>1. PICK t : t \in HeldAt(k, q, label, p)
  OBVIOUS
<1>2. t \in ColumnAt(k, p).times /\ At(ColumnAt(k, p).col, t) = label
  BY <1>1 DEF HeldAt
<1>3. t \in Times /\ ColumnAt(k, p).col \in Columns
  BY <1>2, ColumnIs
<1>4. Presents(relabel)
  BY SplicedReadsAssumption DEF Given
<1>5. label \in Identities(ColumnAt(k, p).col)
  BY <1>2, <1>3, <1>4 DEF Presents, At, Identities
<1> QED  BY <1>5 DEF Locations, Identified

\* Read whole, a series accepted has the samples of the segments touched.
LEMMA CountersAre ==
    ASSUME Given, NEW k \in DOMAIN table, NEW q, NEW label
    PROVE  LET whole == Counters(k, q, label)
           IN /\ whole.times = IF label \in q.accepts
                               THEN SamplesAt(k, q, label, TouchedPlaces(k, q)) ELSE <<>>
              /\ whole.windows \in {<<>>, whole.times}
<1> DEFINE whole == Counters(k, q, label)
<1>1. whole = IF label \in Identified(k) \cap q.accepts
              THEN Merged(k, q, label)[Len(ColumnPlaces(k))] ELSE NoSeries
  BY DEF Counters, Merged, MergeStep
<1>2. CASE label \in Identified(k) \cap q.accepts
  <2>1. whole = Merged(k, q, label)[Len(ColumnPlaces(k))] /\ label \in q.accepts
    BY <1>1, <1>2
  <2> HIDE DEF whole
  <2>2. /\ whole.times = SamplesAt(k, q, label, TouchedPlaces(k, q))
        /\ whole.windows \in {<<>>, whole.times}
    BY <2>1, MergedIs
  <2> QED  BY <2>1, <2>2 DEF whole
<1>3. CASE label \notin q.accepts
  BY <1>1, <1>3 DEF NoSeries
<1>4. CASE label \in q.accepts /\ label \notin Identified(k)
  <2>1. SamplesAt(k, q, label, TouchedPlaces(k, q)) = SamplesAt(k, q, label, {})
    BY <1>4, HeldIsLocated, SamplesAtSame
  <2>2. SamplesAt(k, q, label, {}) = <<>>
    <3>1. SamplesAt(k, q, label, {}) \in Seq(Times) /\ Range(SamplesAt(k, q, label, {})) = {}
      BY SamplesAtAre
    <3> QED  BY <3>1, NothingIn
  <2>3. whole = NoSeries
    BY <1>1, <1>4
  <2> QED  BY <1>4, <2>1, <2>2, <2>3 DEF NoSeries
<1> QED  BY <1>2, <1>3, <1>4

-----------------------------------------------------------------------------
(* The plan of a scan. *)

LEMMA GreatestExists ==
    ASSUME NEW n \in Nat, NEW T, T \subseteq 0 .. n, T # {}
    PROVE  \E m \in T : \A j \in T : m >= j
<1> DEFINE R == {n - t : t \in T}
<1>1. R \subseteq Nat /\ R # {}
  <2>1. ASSUME NEW t \in T PROVE n - t \in Nat
    <3>1. t \in 0 .. n
      OBVIOUS
    <3> QED  BY <3>1
  <2> QED  BY <2>1
<1> HIDE DEF R
<1>2. PICK r \in R : \A x \in R : r <= x
  BY <1>1, LeastExists
<1>3. PICK m \in T : r = n - m
  BY DEF R
<1>4. ASSUME NEW j \in T PROVE m >= j
  <2>1. r <= n - j
    BY <1>2 DEF R
  <2>2. m \in 0 .. n /\ j \in 0 .. n
    OBVIOUS
  <2> QED  BY <1>3, <2>1, <2>2
<1> QED  BY <1>4

LEMMA PlanIs ==
    ASSUME Given, NEW k \in DOMAIN table
    PROVE  LET segs == PlanSegments(k, asked)
           IN /\ Len(segs) \in Nat /\ DOMAIN segs = 1 .. Len(segs)
              /\ \A i \in 1 .. Len(segs) : /\ segs[i] \in Planned(k, asked) /\ segs[i] \in Nat
                                           /\ segs[i] \in DOMAIN table[k]
              /\ \A s \in Planned(k, asked) : \E i \in 1 .. Len(segs) : segs[i] = s
              /\ \A i, j \in 1 .. Len(segs) : i < j => segs[i] < segs[j]
<1> DEFINE P == Planned(k, asked)
           segs == PlanSegments(k, asked)
<1>1. segs = Enumerated(P)
  BY DEF PlanSegments
<1>2. P \in SUBSET DOMAIN table[k] /\ DOMAIN table[k] = 1 .. Len(table[k]) /\ Len(table[k]) \in Nat
  BY TableIs DEF Planned
<1> HIDE DEF P, segs
<1>3. P \subseteq Nat /\ IsFiniteSet(P)
  <2>1. IsFiniteSet(1 .. Len(table[k]))
    BY <1>2, FS_Interval
  <2>2. IsFiniteSet(P)
    BY <1>2, <2>1, FS_Subset
  <2> QED  BY <1>2, <2>2
<1>4. /\ segs \in Seq(P) /\ Range(segs) = P
      /\ \A i, j \in 1 .. Len(segs) : i < j => segs[i] < segs[j]
  BY <1>1, <1>3, EnumeratedIs
<1>5. Len(segs) \in Nat /\ DOMAIN segs = 1 .. Len(segs) /\ \A i \in 1 .. Len(segs) : segs[i] \in P
  BY <1>4, LenProperties, ElementOfSeq
<1>6. \A s \in P : \E i \in 1 .. Len(segs) : segs[i] = s
  BY <1>4, RangeEquality
<1>7. \A i \in 1 .. Len(segs) : segs[i] \in Nat /\ segs[i] \in DOMAIN table[k]
  BY <1>2, <1>3, <1>5
<1> QED  BY <1>4, <1>5, <1>6, <1>7 DEF P, segs

\* rest_from is a start no later than those of the planned segments left.
LEMMA RestFromIs ==
    ASSUME Given, NEW k \in DOMAIN table, NEW i \in Nat \ {0}
    PROVE  LET segs == PlanSegments(k, asked)
               rest == RestFrom(k, asked, i)
           IN /\ rest \in Nat \cup {Unknown}
              /\ rest # Unknown => \A j \in i .. Len(segs) :
                    /\ table[k][segs[j]].span # <<>>
                    /\ rest <= table[k][segs[j]].span[1]
<1> DEFINE segs  == PlanSegments(k, asked)
           spans == {table[k][segs[j]].span : j \in i .. Len(segs)}
           starts == {s[1] : s \in spans}
<1>1. RestFrom(k, asked, i) = IF spans = {} \/ <<>> \in spans THEN Unknown ELSE Min(starts)
  BY DEF RestFrom
<1>2. CASE spans = {} \/ <<>> \in spans
  BY <1>1, <1>2
<1>3. CASE spans # {} /\ <<>> \notin spans
  <2>1. \A j \in i .. Len(segs) : /\ table[k][segs[j]].span # <<>>
                                  /\ table[k][segs[j]].span[1] \in Nat
    <3> SUFFICES ASSUME NEW j \in i .. Len(segs)
                 PROVE  table[k][segs[j]].span # <<>> /\ table[k][segs[j]].span[1] \in Nat
      OBVIOUS
    <3>1. j \in 1 .. Len(segs)
      BY PlanIs
    <3>2. table[k][segs[j]] \in TableSegments
      BY <3>1, PlanIs, TableIs
    <3>3. table[k][segs[j]].span # <<>>
      BY <1>3
    <3> QED  BY <3>2, <3>3, SegmentIs
  <2>2. \A j \in i .. Len(segs) : table[k][segs[j]].span[1] \in starts
    OBVIOUS
  <2>3. starts \subseteq Nat /\ starts # {}
    BY <1>3, <2>1
  <2> HIDE DEF starts
  <2>4. PICK m \in starts : \A x \in starts : m <= x
    BY <2>3, LeastExists
  <2>5. Min(starts) \in starts /\ \A x \in starts : Min(starts) <= x
    BY <2>4 DEF Min
  <2>6. RestFrom(k, asked, i) = Min(starts)
    BY <1>1, <1>3
  <2>7. RestFrom(k, asked, i) \in Nat
    BY <2>3, <2>5, <2>6
  <2> QED  BY <2>1, <2>2, <2>5, <2>6, <2>7
<1> QED  BY <1>2, <1>3

\* last_at is no earlier than any planned segment that can hold the series.
LEMMA LastAtIs ==
    ASSUME Given, NEW k \in DOMAIN table, NEW label
    PROVE  LET segs == PlanSegments(k, asked)
           IN /\ LastAt(k, asked, label) \in Nat
              /\ \A i \in 1 .. Len(segs) : \A p \in Locations(k, label) :
                    p.seg = segs[i] /\ ColumnAt(k, p).times # {} => i <= LastAt(k, asked, label)
<1> DEFINE segs == PlanSegments(k, asked)
           I == {i \in DOMAIN segs :
                   \E p \in Locations(k, label) : p.seg = segs[i] /\ ColumnAt(k, p).times # {}}
           T == {0} \cup I
<1>1. Len(segs) \in Nat /\ DOMAIN segs = 1 .. Len(segs)
  BY PlanIs
<1>2. LastAt(k, asked, label) = Max(T)
  BY DEF LastAt
<1>3. T \subseteq 0 .. Len(segs) /\ T # {}
  BY <1>1
<1>4. \A i \in 1 .. Len(segs) : \A p \in Locations(k, label) :
         p.seg = segs[i] /\ ColumnAt(k, p).times # {} => i \in T
  BY <1>1
<1> HIDE DEF T, segs
<1>5. PICK m \in T : \A j \in T : m >= j
  BY <1>1, <1>3, GreatestExists
<1>6. Max(T) \in T /\ \A j \in T : Max(T) >= j
  BY <1>5 DEF Max
<1>7. Max(T) \in Nat
  <2>1. Max(T) \in 0 .. Len(segs)
    BY <1>3, <1>6
  <2> QED  BY <2>1
<1>8. \A i \in 1 .. Len(segs) : i \in T => i <= Max(T)
  BY <1>6, <1>7
<1> QED  BY <1>2, <1>4, <1>7, <1>8 DEF segs

\* The places read from the a-th planned segment to the b-th.
Reading(k, a, b) ==
    {p \in Range(ColumnPlaces(k)) :
        p.seg \in {PlanSegments(k, asked)[i] : i \in a .. b} /\ <<k, p.seg>> \notin gone}

\* Reading on adds what the segments read have.
LEMMA ReadingOn ==
    ASSUME Given, NEW k \in DOMAIN table, NEW a \in Nat, NEW b \in Nat, 1 <= a, a <= b,
           b <= Len(PlanSegments(k, asked)), NEW label
    PROVE  SamplesAt(k, asked, label, Reading(k, 1, b))
             = SamplesAt(k, asked, label, Reading(k, 1, a - 1))
               \o SamplesAt(k, asked, label, Reading(k, a, b))
<1> DEFINE segs == PlanSegments(k, asked)
           ps == Reading(k, 1, a - 1)
           qs == Reading(k, a, b)
<1>1. /\ \A i \in 1 .. Len(segs) : segs[i] \in Nat
      /\ \A i, j \in 1 .. Len(segs) : i < j => segs[i] < segs[j]
      /\ Len(segs) \in Nat
  BY PlanIs
<1>2. Reading(k, 1, b) = ps \cup qs
  <2>1. \A i : i \in 1 .. b <=> (i \in 1 .. a - 1 \/ i \in a .. b)
    OBVIOUS
  <2>2. {segs[i] : i \in 1 .. b} = {segs[i] : i \in 1 .. a - 1} \cup {segs[i] : i \in a .. b}
    <3> HIDE DEF segs
    <3>1. ASSUME NEW x, x \in {segs[i] : i \in 1 .. b}
          PROVE  x \in {segs[i] : i \in 1 .. a - 1} \cup {segs[i] : i \in a .. b}
      BY <2>1, <3>1
    <3>2. ASSUME NEW x, x \in {segs[i] : i \in 1 .. a - 1} \cup {segs[i] : i \in a .. b}
          PROVE  x \in {segs[i] : i \in 1 .. b}
      BY <2>1, <3>2
    <3> QED  BY <3>1, <3>2
  <2> QED  BY <2>2 DEF Reading
<1>3. \A p \in ps : \E i \in 1 .. a - 1 : p.seg = segs[i]
  BY DEF Reading
<1>4. \A p \in qs : \E i \in a .. b : p.seg = segs[i]
  BY DEF Reading
<1> HIDE DEF ps, qs, segs
<1>5. ASSUME NEW p \in ps, NEW r \in qs PROVE p.seg < r.seg
  <2>1. PICK i \in 1 .. a - 1 : p.seg = segs[i]
    BY <1>3
  <2>2. PICK j \in a .. b : r.seg = segs[j]
    BY <1>4
  <2>3. i \in 1 .. Len(segs) /\ j \in 1 .. Len(segs) /\ i < j
    BY <1>1 DEF segs
  <2> QED  BY <1>1, <2>1, <2>2, <2>3
<1>6. ASSUME NEW p \in ps \cup qs PROVE p.seg \in Nat
  <2>1. PICK i \in 1 .. b : p.seg = segs[i]
    BY <1>3, <1>4
  <2>2. i \in 1 .. Len(segs)
    BY <1>1 DEF segs
  <2> QED  BY <1>1, <2>1, <2>2
<1>7. SamplesAt(k, asked, label, ps \cup qs)
         = SamplesAt(k, asked, label, ps) \o SamplesAt(k, asked, label, qs)
  <2>1. Earlier(ps, qs)
    BY <1>5, <1>6 DEF Earlier
  <2>2. InTwo(k, asked, label, ps, qs)
    BY <2>1, SamplesAtSplit
  <2> QED  BY <2>2 DEF InTwo
<1> QED  BY <1>2, <1>7 DEF ps, qs

\* The plan leaves out only segments that have nothing of what is asked.
LEMMA ReadingAll ==
    ASSUME Given, NEW k \in DOMAIN table, NEW label \in asked.accepts
    PROVE  SamplesAt(k, asked, label, Reading(k, 1, Len(PlanSegments(k, asked))))
             = SamplesAt(k, asked, label, TouchedPlaces(k, asked))
<1> DEFINE segs == PlanSegments(k, asked)
           N == Len(segs)
<1>1. \A p \in Range(ColumnPlaces(k)) :
         p \in Reading(k, 1, N) <=> p.seg \in Planned(k, asked) /\ <<k, p.seg>> \notin gone
  <2>1. {segs[i] : i \in 1 .. N} = Planned(k, asked)
    <3>1. ASSUME NEW x, x \in {segs[i] : i \in 1 .. N} PROVE x \in Planned(k, asked)
      BY <3>1, PlanIs
    <3>2. ASSUME NEW x, x \in Planned(k, asked) PROVE x \in {segs[i] : i \in 1 .. N}
      BY <3>2, PlanIs
    <3> QED  BY <3>1, <3>2
  <2> QED  BY <2>1 DEF Reading
<1>2. ASSUME NEW p \in Range(ColumnPlaces(k)), HeldAt(k, asked, label, p) # {}
      PROVE  p \in Reading(k, 1, N) <=> p \in TouchedPlaces(k, asked)
  <2>1. p \in Locations(k, label) /\ label \in Series(k, asked)
    BY <1>2, HeldIsLocated DEF Series
  <2>2. p.seg \in DOMAIN table[k]
    BY ColumnIs
  <2>3. p.seg \in Planned(k, asked) <=> Overlaps(table[k][p.seg], asked)
    BY <2>1, <2>2 DEF Planned
  <2> QED  BY <1>1, <2>2, <2>3 DEF TouchedPlaces, Touched
<1> QED  BY <1>2, SamplesAtSame

-----------------------------------------------------------------------------
(* What holds of a scan all along. *)

\* A scan is somewhere in its plan, at its end when it is done, and knows where
\* what it has left starts.
ScanFine(k, c) ==
    /\ c.next \in 1 .. Len(PlanSegments(k, asked)) + 1
    /\ c.start = "done" => c.next = Len(PlanSegments(k, asked)) + 1
    /\ c.start = "at" => c.at = RestFrom(k, asked, c.next)
    /\ c.start = "unread" => c.at = Unknown

\* It has the samples of the segments it has read, in their order.
GotFine(k, c, g) ==
    \A l \in SeriesLabels :
        g[l] = IF l \in asked.accepts
               THEN SamplesAt(k, asked, l, Reading(k, 1, c.next - 1)) ELSE <<>>

\* What was promised of it is so.
PromiseFine(k, c, pr, en) ==
    /\ pr.rest # Unknown => \A i \in c.next .. Len(PlanSegments(k, asked)) :
          LET span == table[k][PlanSegments(k, asked)[i]].span
          IN span # <<>> /\ pr.rest <= span[1]
    /\ k \in pr.ended \cup en => c.start = "done"
    /\ \A l \in SeriesLabels : <<k, l>> \in pr.silent => LastAt(k, asked, l) < c.next

ScanStates == [next : Nat \ {0}, at : Nat \cup {Unknown}, start : {"unread", "at", "done", "none"}]

SRTypeOK ==
    /\ scans \in [DOMAIN table -> ScanStates]
    /\ got \in [DOMAIN table -> [SeriesLabels -> Seq(Times)]]
    /\ promise.rest \in Nat \cup {Unknown}
    /\ promise \in [rest : {promise.rest}, ended : {promise.ended}, silent : {promise.silent}]

AllOrNone ==
    \/ \A k \in DOMAIN table : scans[k].start = "none"
    \/ \A k \in DOMAIN table : scans[k].start # "none"

\* The inductive invariant.
SRInv ==
    /\ Given /\ SRTypeOK /\ AllOrNone
    /\ \A k \in DOMAIN table : /\ ScanFine(k, scans[k])
                               /\ GotFine(k, scans[k], got[k])
                               /\ PromiseFine(k, scans[k], promise, ended)

LEMMA MinOfTwo ==
    ASSUME NEW a \in Int, NEW b \in Int
    PROVE  Min({a, b}) = IF a <= b THEN a ELSE b
<1>1. Min({a, b}) = CHOOSE x \in {a, b} : \A y \in {a, b} : x <= y
  BY DEF Min
<1>2. CASE a <= b
  <2>1. \A x \in {a, b} : (\A y \in {a, b} : x <= y) => x = a
    BY <1>2
  <2>2. \A y \in {a, b} : a <= y
    BY <1>2
  <2> QED  BY <1>1, <1>2, <2>1, <2>2
<1>3. CASE ~(a <= b)
  <2>1. \A x \in {a, b} : (\A y \in {a, b} : x <= y) => x = b
    BY <1>3
  <2>2. \A y \in {a, b} : b <= y
    BY <1>3
  <2> QED  BY <1>1, <1>3, <2>1, <2>2
<1> QED  BY <1>2, <1>3

LEMMA MaxOfTwo ==
    ASSUME NEW a \in Int, NEW b \in Int
    PROVE  Max({a, b}) \in {a, b}
<1>1. \E x \in {a, b} : \A y \in {a, b} : x >= y
  <2>1. CASE a >= b
    BY <2>1
  <2>2. CASE b >= a
    BY <2>2
  <2> QED  BY <2>1, <2>2
<1> QED  BY <1>1 DEF Max

\* The joined rest is no later than that of any scan that lives.
LEMMA JoinedRestIs ==
    ASSUME NEW D, NEW kids \in [D -> ScanStates]
    PROVE  /\ JoinedRest(kids) \in Nat \cup {Unknown}
           /\ JoinedRest(kids) # Unknown => \A k \in D : Live(kids[k]) =>
                 kids[k].at # Unknown /\ JoinedRest(kids) <= kids[k].at
<1> DEFINE live == {k \in DOMAIN kids : Live(kids[k])}
           ats  == {kids[k].at : k \in live}
<1>1. JoinedRest(kids) = IF live = {} \/ \E k \in live : kids[k].at = Unknown
                         THEN Unknown ELSE Min(ats)
  BY DEF JoinedRest
<1>2. CASE live = {} \/ \E k \in live : kids[k].at = Unknown
  BY <1>1, <1>2
<1>3. CASE live # {} /\ \A k \in live : kids[k].at # Unknown
  <2>1. \A k \in live : kids[k].at \in Nat
    BY <1>3 DEF ScanStates
  <2>2. ats \subseteq Nat /\ ats # {}
    BY <1>3, <2>1
  <2>3. \A k \in D : Live(kids[k]) => kids[k].at \in ats /\ kids[k].at # Unknown
    BY <1>3
  <2>4. JoinedRest(kids) = Min(ats)
    BY <1>1, <1>3
  <2> HIDE DEF ats, live
  <2>5. PICK m \in ats : \A x \in ats : m <= x
    BY <2>2, LeastExists
  <2>6. Min(ats) \in ats /\ \A x \in ats : Min(ats) <= x
    BY <2>5 DEF Min
  <2>7. Min(ats) \in Nat
    BY <2>2, <2>6
  <2> QED  BY <2>3, <2>4, <2>6, <2>7
<1> QED  BY <1>2, <1>3

LEMMA SilentIs ==
    ASSUME NEW kids, NEW k \in DOMAIN kids, NEW label
    PROVE  <<k, label>> \in Silent(kids) => LastAt(k, asked, label) < kids[k].next
  BY DEF Silent

\* A chunk's segments: at least one, and no further than the plan goes.
LEMMA ChunkIs ==
    ASSUME NEW from \in Nat \ {0}, NEW n \in Nat \ {0}, NEW len \in Nat, from <= len
    PROVE  LET to == Min({from + n - 1, len})
           IN to \in Nat /\ from <= to /\ to <= len /\ to + 1 \in Nat \ {0}
<1>1. Min({from + n - 1, len}) = IF from + n - 1 <= len THEN from + n - 1 ELSE len
  BY MinOfTwo
<1> QED  BY <1>1

\* None of this changes while a query is read.
LEMMA ReadUnchanged ==
    ASSUME UNCHANGED <<table, relabel, asked, gone>>
    PROVE  /\ Given' = Given
           /\ \A k : /\ ScanFine(k, scans[k])' = ScanFine(k, scans'[k])
                    /\ GotFine(k, scans[k], got[k])' = GotFine(k, scans'[k], got'[k])
                    /\ PromiseFine(k, scans[k], promise, ended)'
                          = PromiseFine(k, scans'[k], promise', ended')
<1>1. Given' = Given
  BY DEF Given, OneHolder, ColumnPlaces, ColumnAt, At
<1>2. \A k : ScanFine(k, scans[k])' = ScanFine(k, scans'[k])
  BY DEF ScanFine, PlanSegments, Planned, Series, Identified, Identities, Locations,
         ColumnPlaces, ColumnAt, RestFrom
<1>3. \A k : GotFine(k, scans[k], got[k])' = GotFine(k, scans'[k], got'[k])
  BY DEF GotFine, SamplesAt, Piece, At, Reading, PlanSegments, Planned, Series, Identified,
         Identities, Locations, ColumnPlaces, ColumnAt
<1>4. \A k : PromiseFine(k, scans[k], promise, ended)'
                = PromiseFine(k, scans'[k], promise', ended')
  BY DEF PromiseFine, LastAt, PlanSegments, Planned, Series, Identified,
         Identities, Locations, ColumnPlaces, ColumnAt
<1> QED  BY <1>1, <1>2, <1>3, <1>4

LEMMA SRInvInit == SRInit => SRInv
<1> SUFFICES ASSUME SRInit PROVE SRInv
  OBVIOUS
<1>1. Given
  BY DEF SRInit, Given
<1>2. \A k \in DOMAIN table : /\ scans[k].next = 1 /\ scans[k].at = Unknown
                              /\ scans[k].start \in {"unread", "none"}
                              /\ scans[k] = [next |-> 1, at |-> Unknown, start |-> scans[k].start]
  BY DEF SRInit
<1>3. scans \in [DOMAIN table -> ScanStates]
  <2>1. scans = [k \in DOMAIN table |-> scans[k]]
    BY DEF SRInit
  <2>2. ASSUME NEW k \in DOMAIN table PROVE scans[k] \in ScanStates
    <3>1. /\ scans[k] = [next |-> 1, at |-> Unknown, start |-> scans[k].start]
          /\ scans[k].start \in {"unread", "none"}
      BY <1>2
    <3>2. scans[k].start \in {"unread", "at", "done", "none"} /\ 1 \in Nat \ {0}
      BY <3>1
    <3>3. [next |-> 1, at |-> Unknown, start |-> scans[k].start] \in ScanStates
      BY <3>2 DEF ScanStates
    <3> QED  BY <3>1, <3>3, Zenon
  <2> QED  BY <2>1, <2>2
<1>4. AllOrNone
  BY DEF SRInit, AllOrNone
<1>5. got \in [DOMAIN table -> [SeriesLabels -> Seq(Times)]]
  BY EmptySeq DEF SRInit
<1>6. promise = Nothing /\ ended = {}
  BY DEF SRInit
<1>7. SRTypeOK
  BY <1>3, <1>5, <1>6 DEF SRTypeOK, Nothing
<1>8. ASSUME NEW k \in DOMAIN table
      PROVE  ScanFine(k, scans[k]) /\ GotFine(k, scans[k], got[k])
             /\ PromiseFine(k, scans[k], promise, ended)
  <2>1. ScanFine(k, scans[k])
    <3>1. Len(PlanSegments(k, asked)) \in Nat
      BY <1>1, PlanIs
    <3>2. 1 \in 1 .. Len(PlanSegments(k, asked)) + 1
      BY <3>1
    <3>3. scans[k].start # "done" /\ scans[k].start # "at"
      BY <1>2
    <3> QED  BY <1>2, <3>2, <3>3 DEF ScanFine
  <2>2. \A l \in SeriesLabels : SamplesAt(k, asked, l, Reading(k, 1, 1 - 1)) = <<>>
    <3> SUFFICES ASSUME NEW l \in SeriesLabels
                 PROVE  SamplesAt(k, asked, l, Reading(k, 1, 1 - 1)) = <<>>
      OBVIOUS
    <3>1. Reading(k, 1, 1 - 1) = {}
      BY DEF Reading
    <3>2. SamplesAt(k, asked, l, {}) \in Seq(Times) /\ Range(SamplesAt(k, asked, l, {})) = {}
      BY <1>1, SamplesAtAre
    <3> QED  BY <3>1, <3>2, NothingIn
  <2>3. \A l \in SeriesLabels : got[k][l] = <<>>
    BY DEF SRInit
  <2>4. GotFine(k, scans[k], got[k])
    BY <1>2, <2>2, <2>3 DEF GotFine
  <2>5. PromiseFine(k, scans[k], promise, ended)
    BY <1>6 DEF PromiseFine, Nothing
  <2> QED  BY <2>1, <2>4, <2>5
<1> QED  BY <1>1, <1>4, <1>7, <1>8 DEF SRInv

\* A scan found at its end has nothing more to read.
LEMMA SRInvEnd ==
    ASSUME SRInv, NEW k \in DOMAIN table, Live(scans[k]),
           scans[k].next > Len(PlanSegments(k, asked)),
           scans' = [scans EXCEPT ![k].start = "done"], ended' = ended \cup {k},
           UNCHANGED <<table, relabel, asked, gone, got, promise>>
    PROVE  SRInv'
<1>1. Given /\ SRTypeOK /\ AllOrNone
  BY DEF SRInv
<1>2. \A j \in DOMAIN table : /\ ScanFine(j, scans[j]) /\ GotFine(j, scans[j], got[j])
                              /\ PromiseFine(j, scans[j], promise, ended)
  BY DEF SRInv
<1>3. scans \in [DOMAIN table -> ScanStates]
  BY <1>1 DEF SRTypeOK
<1>4. /\ scans' \in [DOMAIN table -> ScanStates] /\ DOMAIN scans' = DOMAIN table
      /\ \A j \in DOMAIN table : j # k => scans'[j] = scans[j]
      /\ scans'[k].next = scans[k].next /\ scans'[k].start = "done"
  <2>1. scans[k] \in ScanStates
    BY <1>3
  <2>2. [scans[k] EXCEPT !.start = "done"] \in ScanStates
    BY <2>1 DEF ScanStates
  <2>3. /\ [scans[k] EXCEPT !.start = "done"].next = scans[k].next
        /\ [scans[k] EXCEPT !.start = "done"].start = "done"
    BY <2>1 DEF ScanStates
  <2>4. scans' = [scans EXCEPT ![k] = [scans[k] EXCEPT !.start = "done"]]
    OBVIOUS
  <2> QED  BY <1>3, <2>2, <2>3, <2>4
<1>5. Given' /\ SRTypeOK'
  <2>1. Given'
    BY <1>1, ReadUnchanged
  <2> QED  BY <1>1, <1>4, <2>1 DEF SRTypeOK
<1>6. AllOrNone'
  <2>1. \A j \in DOMAIN table : scans[j].start # "none"
    BY <1>1 DEF AllOrNone, Live
  <2> QED  BY <1>4, <2>1 DEF AllOrNone
<1>7. ASSUME NEW j \in DOMAIN table
      PROVE  /\ ScanFine(j, scans'[j]) /\ GotFine(j, scans'[j], got[j])
             /\ PromiseFine(j, scans'[j], promise, ended')
  <2>1. CASE j # k
    <3>1. PromiseFine(j, scans[j], promise, ended')
      BY <1>2, <2>1 DEF PromiseFine
    <3> QED  BY <1>2, <1>4, <2>1, <3>1
  <2>2. CASE j = k
    <3>1. ScanFine(k, scans'[k])
      <4>1. scans[k].next \in 1 .. Len(PlanSegments(k, asked)) + 1
        BY <1>2 DEF ScanFine
      <4>2. Len(PlanSegments(k, asked)) \in Nat
        BY <1>1, PlanIs
      <4>3. scans[k].next = Len(PlanSegments(k, asked)) + 1
        BY <4>1, <4>2
      <4> QED  BY <1>4, <4>1, <4>3 DEF ScanFine
    <3>2. GotFine(k, scans'[k], got[k])
      BY <1>2, <1>4 DEF GotFine
    <3>3. PromiseFine(k, scans'[k], promise, ended')
      BY <1>2, <1>4 DEF PromiseFine
    <3> QED  BY <2>2, <3>1, <3>2, <3>3
  <2> QED  BY <2>1, <2>2
<1>8. \A j \in DOMAIN table' : /\ ScanFine(j, scans[j])' /\ GotFine(j, scans[j], got[j])'
                               /\ PromiseFine(j, scans[j], promise, ended)'
  BY <1>7, ReadUnchanged, Zenon
<1> QED  BY <1>5, <1>6, <1>8 DEF SRInv

\* What a chunk adds to what its scan has.
LEMMA ReadIntoIs ==
    ASSUME SRInv, NEW k \in DOMAIN table, NEW b \in Nat, scans[k].next <= b,
           b <= Len(PlanSegments(k, asked))
    PROVE  LET a == scans[k].next
               g == ReadInto(k, {PlanSegments(k, asked)[i] : i \in a .. b})
           IN /\ g \in [SeriesLabels -> Seq(Times)]
              /\ \A l \in SeriesLabels :
                    IF l \in asked.accepts
                    THEN /\ g[l] = got[k][l] \o SamplesAt(k, asked, l, Reading(k, a, b))
                         /\ g[l] = SamplesAt(k, asked, l, Reading(k, 1, b))
                    ELSE g[l] = got[k][l]
<1> DEFINE a == scans[k].next
           g == ReadInto(k, {PlanSegments(k, asked)[i] : i \in a .. b})
<1>1. /\ Given /\ GotFine(k, scans[k], got[k])
      /\ a \in Nat \ {0} /\ got[k] \in [SeriesLabels -> Seq(Times)]
  BY DEF SRInv, SRTypeOK, ScanStates
<1>2. g = [l \in SeriesLabels |->
             IF l \notin asked.accepts THEN got[k][l]
             ELSE got[k][l] \o SamplesAt(k, asked, l, Reading(k, a, b))]
  BY DEF ReadInto, Reading
<1> HIDE DEF g
<1>3. ASSUME NEW l \in SeriesLabels
      PROVE  /\ g[l] \in Seq(Times)
             /\ IF l \in asked.accepts
                THEN /\ g[l] = got[k][l] \o SamplesAt(k, asked, l, Reading(k, a, b))
                     /\ g[l] = SamplesAt(k, asked, l, Reading(k, 1, b))
                ELSE g[l] = got[k][l]
  <2>1. CASE l \notin asked.accepts
    BY <1>1, <1>2, <2>1
  <2>2. CASE l \in asked.accepts
    <3>1. g[l] = got[k][l] \o SamplesAt(k, asked, l, Reading(k, a, b))
      BY <1>2, <2>2
    <3>2. got[k][l] = SamplesAt(k, asked, l, Reading(k, 1, a - 1))
      BY <1>1, <2>2 DEF GotFine
    <3>3. 1 <= a /\ a \in Nat /\ a <= b
      BY <1>1
    <3> HIDE DEF a
    <3>4. SamplesAt(k, asked, l, Reading(k, 1, b)) =
             SamplesAt(k, asked, l, Reading(k, 1, a - 1))
             \o SamplesAt(k, asked, l, Reading(k, a, b))
      BY <1>1, <3>3, ReadingOn
    <3>5. SamplesAt(k, asked, l, Reading(k, 1, b)) \in Seq(Times)
      BY <1>1, SamplesAtAre
    <3> QED  BY <2>2, <3>1, <3>2, <3>4, <3>5
  <2> QED  BY <2>1, <2>2
<1>4. g \in [SeriesLabels -> Seq(Times)]
  <2>1. g = [l \in SeriesLabels |-> g[l]]
    BY <1>2
  <2> QED  BY <1>3, <2>1
<1> QED  BY <1>3, <1>4 DEF g

\* A chunk: the segments planned from its scan's next to b.
ChunkOf(k, b) ==
    /\ b \in Nat /\ scans[k].next <= b /\ b <= Len(PlanSegments(k, asked))
    /\ scans' = [scans EXCEPT ![k] =
                    [next |-> b + 1, start |-> "at", at |-> RestFrom(k, asked, b + 1)]]
    /\ got' = [got EXCEPT ![k] =
                  ReadInto(k, {PlanSegments(k, asked)[i] : i \in scans[k].next .. b})]
    /\ promise' = [rest |-> Max({promise.rest, JoinedRest(scans')}),
                   ended |-> promise.ended \cup ended,
                   silent |-> Silent(scans')]
    /\ ended' = {}
    /\ UNCHANGED <<table, relabel, asked, gone>>

LEMMA SRInvChunk ==
    ASSUME SRInv, NEW k \in DOMAIN table, Live(scans[k]), NEW b, ChunkOf(k, b)
    PROVE  SRInv'
<1>1. Given /\ SRTypeOK /\ AllOrNone
  BY DEF SRInv
<1>2. \A j \in DOMAIN table : /\ ScanFine(j, scans[j]) /\ GotFine(j, scans[j], got[j])
                              /\ PromiseFine(j, scans[j], promise, ended)
  BY DEF SRInv
<1>3. /\ scans \in [DOMAIN table -> ScanStates] /\ scans[k].next \in Nat \ {0}
      /\ got \in [DOMAIN table -> [SeriesLabels -> Seq(Times)]]
      /\ promise.rest \in Nat \cup {Unknown}
  BY <1>1 DEF SRTypeOK, ScanStates
<1>4. /\ b \in Nat /\ scans[k].next <= b /\ b <= Len(PlanSegments(k, asked))
      /\ b + 1 \in Nat \ {0} /\ Len(PlanSegments(k, asked)) \in Nat
  BY <1>1, PlanIs DEF ChunkOf
<1>5. RestFrom(k, asked, b + 1) \in Nat \cup {Unknown}
  BY <1>1, <1>4, RestFromIs
<1> DEFINE c == [next |-> b + 1, start |-> "at", at |-> RestFrom(k, asked, b + 1)]
           g == ReadInto(k, {PlanSegments(k, asked)[i] : i \in scans[k].next .. b})
<1>6. c \in ScanStates /\ c.next = b + 1 /\ c.start = "at" /\ c.at = RestFrom(k, asked, b + 1)
  BY <1>4, <1>5 DEF ScanStates
<1>7. /\ g \in [SeriesLabels -> Seq(Times)]
      /\ \A l \in SeriesLabels :
            g[l] = IF l \in asked.accepts THEN SamplesAt(k, asked, l, Reading(k, 1, b))
                   ELSE got[k][l]
  BY <1>4, ReadIntoIs
<1>8. scans' = [scans EXCEPT ![k] = c] /\ got' = [got EXCEPT ![k] = g]
  BY DEF ChunkOf
<1> HIDE DEF c, g
<1>9. /\ scans' \in [DOMAIN table -> ScanStates] /\ DOMAIN scans' = DOMAIN table
      /\ scans'[k] = c /\ \A j \in DOMAIN table : j # k => scans'[j] = scans[j]
      /\ got' \in [DOMAIN table -> [SeriesLabels -> Seq(Times)]]
      /\ got'[k] = g /\ \A j \in DOMAIN table : j # k => got'[j] = got[j]
  BY <1>3, <1>6, <1>7, <1>8
<1>10. Given' /\ DOMAIN table' = DOMAIN table
  BY <1>1, ReadUnchanged DEF ChunkOf
<1> DEFINE joined == JoinedRest(scans')
           rest   == Max({promise.rest, joined})
<1>11. /\ joined \in Nat \cup {Unknown}
       /\ joined # Unknown => \A j \in DOMAIN table : Live(scans'[j]) =>
              scans'[j].at # Unknown /\ joined <= scans'[j].at
  BY <1>9, JoinedRestIs
<1>12. /\ promise' = [rest |-> rest, ended |-> promise.ended \cup ended, silent |-> Silent(scans')]
       /\ ended' = {}
  BY DEF ChunkOf
<1> HIDE DEF joined
<1>13. rest \in {promise.rest, joined}
  <2>1. promise.rest \in Int /\ joined \in Int
    BY <1>3, <1>11 DEF Unknown
  <2> QED  BY <2>1, MaxOfTwo
<1> HIDE DEF rest
<1>14. promise'.rest = rest /\ promise'.ended = promise.ended \cup ended
       /\ promise'.silent = Silent(scans')
  BY <1>12
<1>15. SRTypeOK'
  <2>1. promise'.rest \in Nat \cup {Unknown}
    BY <1>3, <1>11, <1>13, <1>14
  <2>2. promise' \in [rest : {promise'.rest}, ended : {promise'.ended}, silent : {promise'.silent}]
    BY <1>12, <1>14
  <2> QED  BY <1>9, <1>10, <2>1, <2>2 DEF SRTypeOK
<1>16. \A j \in DOMAIN table : scans[j].start # "none"
  BY <1>1 DEF AllOrNone, Live
<1>17. AllOrNone'
  BY <1>6, <1>9, <1>10, <1>16 DEF AllOrNone
<1>18. ASSUME NEW j \in DOMAIN table PROVE ScanFine(j, scans'[j])
  <2>1. CASE j # k
    BY <1>2, <1>9, <2>1
  <2>2. CASE j = k
    <3>1. b + 1 \in 1 .. Len(PlanSegments(k, asked)) + 1
      BY <1>4
    <3> QED  BY <1>6, <1>9, <2>2, <3>1 DEF ScanFine
  <2> QED  BY <2>1, <2>2
<1>19. ASSUME NEW j \in DOMAIN table PROVE GotFine(j, scans'[j], got'[j])
  <2>1. CASE j # k
    BY <1>2, <1>9, <2>1
  <2>2. CASE j = k
    <3>1. c.next - 1 = b
      BY <1>4, <1>6
    <3>2. \A l \in SeriesLabels : l \notin asked.accepts => got[k][l] = <<>>
      BY <1>2 DEF GotFine
    <3>3. GotFine(k, c, g)
      BY <1>7, <3>1, <3>2 DEF GotFine
    <3> QED  BY <1>9, <2>2, <3>3
  <2> QED  BY <2>1, <2>2
<1>20. ASSUME NEW j \in DOMAIN table PROVE PromiseFine(j, scans'[j], promise', ended')
  <2> DEFINE segs == PlanSegments(j, asked)
  <2>1. scans'[j] \in ScanStates /\ scans[j] \in ScanStates
    BY <1>3, <1>9
  <2>2. scans'[j].next \in Nat \ {0} /\ scans[j].next \in Nat \ {0} /\ scans[j].next <= scans'[j].next
    <3>1. scans'[j].next \in Nat \ {0} /\ scans[j].next \in Nat \ {0}
      BY <2>1 DEF ScanStates
    <3>2. CASE j # k
      BY <1>9, <3>1, <3>2
    <3>3. CASE j = k
      BY <1>4, <1>6, <1>9, <3>1, <3>3
    <3> QED  BY <3>1, <3>2, <3>3
  <2>3. Len(segs) \in Nat
    BY <1>1, PlanIs
  <2>4. ASSUME promise'.rest # Unknown, NEW i \in scans'[j].next .. Len(segs)
        PROVE  /\ table[j][segs[i]].span # <<>>
               /\ promise'.rest <= table[j][segs[i]].span[1]
    <3>1. CASE promise'.rest = promise.rest
      <4>1. i \in scans[j].next .. Len(segs)
        BY <2>2, <2>3
      <4> QED  BY <1>2, <2>4, <3>1, <4>1 DEF PromiseFine
    <3>2. CASE promise'.rest = joined
      <4>1. ScanFine(j, scans'[j])
        BY <1>18
      <4>2. Live(scans'[j])
        <5>1. scans'[j].start \in {"unread", "at", "done", "none"}
          BY <2>1 DEF ScanStates
        <5>2. scans'[j].start # "none"
          BY <1>6, <1>9, <1>16
        <5>3. scans'[j].start # "done"
          <6>1. scans'[j].next <= Len(segs)
            BY <2>2, <2>3
          <6> QED  BY <2>2, <2>3, <4>1, <6>1 DEF ScanFine
        <5> QED  BY <5>1, <5>2, <5>3 DEF Live
      <4>3. scans'[j].at # Unknown /\ joined <= scans'[j].at
        BY <1>11, <2>4, <3>2, <4>2
      <4>4. scans'[j].at = RestFrom(j, asked, scans'[j].next)
        BY <4>1, <4>2, <4>3 DEF ScanFine, Live
      <4>5. /\ table[j][segs[i]].span # <<>>
            /\ RestFrom(j, asked, scans'[j].next) <= table[j][segs[i]].span[1]
            /\ RestFrom(j, asked, scans'[j].next) \in Nat \cup {Unknown}
        BY <1>1, <2>2, <4>3, <4>4, RestFromIs
      <4>6. table[j][segs[i]].span[1] \in Nat
        <5>1. i \in 1 .. Len(segs)
          BY <2>2, <2>3
        <5>2. table[j][segs[i]] \in TableSegments
          BY <1>1, <5>1, PlanIs, TableIs
        <5> QED  BY <4>5, <5>2, SegmentIs
      <4> DEFINE x == table[j][segs[i]].span[1]
                 y == scans'[j].at
      <4>7. joined <= y /\ y <= x /\ joined \in Nat /\ y \in Nat /\ x \in Nat
        BY <1>11, <2>4, <3>2, <4>3, <4>4, <4>5, <4>6
      <4> HIDE DEF x, y
      <4>8. joined <= x
        BY <4>7
      <4> QED  BY <3>2, <4>5, <4>8 DEF x
    <3> QED  BY <1>13, <1>14, <3>1, <3>2
  <2>5. j \in promise'.ended \cup ended' => scans'[j].start = "done"
    <3>1. ASSUME j \in promise.ended \cup ended PROVE scans'[j].start = "done"
      <4>1. scans[j].start = "done"
        BY <1>2, <3>1 DEF PromiseFine
      <4>2. j # k
        BY <4>1 DEF Live
      <4> QED  BY <1>9, <4>1, <4>2
    <3> QED  BY <1>12, <1>14, <3>1
  <2>6. \A l \in SeriesLabels : <<j, l>> \in promise'.silent => LastAt(j, asked, l) < scans'[j].next
    BY <1>9, <1>14, SilentIs
  <2> QED  BY <2>4, <2>5, <2>6 DEF PromiseFine
<1>21. \A j \in DOMAIN table' : /\ ScanFine(j, scans[j])' /\ GotFine(j, scans[j], got[j])'
                                /\ PromiseFine(j, scans[j], promise, ended)'
  <2>1. UNCHANGED <<table, relabel, asked, gone>>
    BY DEF ChunkOf
  <2> QED  BY <1>10, <1>18, <1>19, <1>20, <2>1, ReadUnchanged, Zenon
<1> QED  BY <1>10, <1>15, <1>17, <1>21 DEF SRInv

\* What a step of a scan does: it finds its end, or reads a chunk.
LEMMA NextChunkIs ==
    ASSUME SRInv, NEW n \in ChunkSizes, NextChunk(n)
    PROVE  \E k \in DOMAIN table :
             /\ Live(scans[k])
             /\ \/ /\ scans[k].next > Len(PlanSegments(k, asked))
                   /\ scans' = [scans EXCEPT ![k].start = "done"] /\ ended' = ended \cup {k}
                   /\ UNCHANGED <<table, relabel, asked, gone, got, promise>>
                \/ \E b : ChunkOf(k, b)
<1>1. PICK k \in DOMAIN table :
        LET segs == PlanSegments(k, asked)
            from == scans[k].next
            to   == Min({from + n - 1, Len(segs)})
            rest == RestFrom(k, asked, to + 1)
        IN /\ Next(k)
           /\ IF from > Len(segs)
              THEN /\ scans' = [scans EXCEPT ![k].start = "done"]
                   /\ ended' = ended \cup {k}
                   /\ UNCHANGED <<got, promise>>
              ELSE /\ scans' = [scans EXCEPT ![k] =
                                   [next |-> to + 1, start |-> "at", at |-> rest]]
                   /\ got' = [got EXCEPT ![k] = ReadInto(k, {segs[i] : i \in from .. to})]
                   /\ promise' = [rest |-> Max({promise.rest, JoinedRest(scans')}),
                                  ended |-> promise.ended \cup ended,
                                  silent |-> Silent(scans')]
                   /\ ended' = {}
           /\ UNCHANGED <<table, relabel, asked, gone>>
  BY DEF NextChunk
<1> DEFINE segs == PlanSegments(k, asked)
           from == scans[k].next
           to   == Min({from + n - 1, Len(segs)})
<1>2. Live(scans[k])
  BY <1>1 DEF Next
<1>3. CASE from > Len(segs)
  BY <1>1, <1>2, <1>3
<1>4. CASE ~(from > Len(segs))
  <2>1. from \in Nat \ {0} /\ Len(segs) \in Nat /\ n \in Nat \ {0}
    BY PlanIs, SplicedReadsAssumption DEF SRInv, SRTypeOK, ScanStates
  <2>2. to \in Nat /\ from <= to /\ to <= Len(segs)
    <3> HIDE DEF from, segs
    <3> QED  BY <1>4, <2>1, ChunkIs
  <2>3. ChunkOf(k, to)
    BY <1>1, <1>4, <2>2 DEF ChunkOf
  <2> QED  BY <1>2, <2>3
<1> QED  BY <1>3, <1>4

LEMMA SRInvStep == SRInv /\ [SRNext]_srvars => SRInv'
<1> SUFFICES ASSUME SRInv, [SRNext]_srvars PROVE SRInv'
  OBVIOUS
<1>1. ASSUME NEW n \in ChunkSizes, NextChunk(n) PROVE SRInv'
  <2>1. PICK k \in DOMAIN table :
             /\ Live(scans[k])
             /\ \/ /\ scans[k].next > Len(PlanSegments(k, asked))
                   /\ scans' = [scans EXCEPT ![k].start = "done"] /\ ended' = ended \cup {k}
                   /\ UNCHANGED <<table, relabel, asked, gone, got, promise>>
                \/ \E b : ChunkOf(k, b)
    BY <1>1, NextChunkIs
  <2>2. CASE \E b : ChunkOf(k, b)
    BY <2>1, <2>2, SRInvChunk
  <2>3. CASE ~ \E b : ChunkOf(k, b)
    BY <2>1, <2>3, SRInvEnd
  <2> QED  BY <2>2, <2>3
<1>2. CASE UNCHANGED srvars
  <2>1. UNCHANGED <<table, relabel, asked, gone>> /\ UNCHANGED <<scans, ended, got, promise>>
    BY <1>2 DEF srvars
  <2>2. Given' /\ SRTypeOK' /\ AllOrNone'
    BY <2>1, ReadUnchanged DEF SRInv, SRTypeOK, AllOrNone
  <2>3. \A k \in DOMAIN table' : /\ ScanFine(k, scans[k])' /\ GotFine(k, scans[k], got[k])'
                                 /\ PromiseFine(k, scans[k], promise, ended)'
    <3>1. \A k \in DOMAIN table : /\ ScanFine(k, scans'[k]) /\ GotFine(k, scans'[k], got'[k])
                                  /\ PromiseFine(k, scans'[k], promise', ended')
      BY <2>1 DEF SRInv
    <3> QED  BY <2>1, <3>1, ReadUnchanged, Zenon
  <2> QED  BY <2>2, <2>3 DEF SRInv
<1> QED  BY <1>1, <1>2 DEF SRNext

\* The inductive invariant holds.
THEOREM SRInvHolds == SRSpec => []SRInv
  BY SRInvInit, SRInvStep, PTL DEF SRSpec

-----------------------------------------------------------------------------
(* The properties. *)

\* The samples of a label anywhere in a table, in the query's range.
Own(k, l) ==
    {t \in Times : \E s \in DOMAIN table[k] :
        /\ <<k, s>> \notin gone /\ l \in asked.accepts
        /\ \E c \in Range(table[k][s].cols) :
              t \in c.times /\ At(c.col, t) = l
              /\ asked.from <= t /\ t <= asked.to}

\* The segments touched have them all, and nothing else.
LEMMA OwnIsTouched ==
    ASSUME Given, NEW k \in DOMAIN table, NEW l \in asked.accepts
    PROVE  Range(SamplesAt(k, asked, l, TouchedPlaces(k, asked))) = Own(k, l)
<1> DEFINE R == Range(SamplesAt(k, asked, l, TouchedPlaces(k, asked)))
<1>1. \A t : t \in R <=> \E p \in Range(ColumnPlaces(k)) :
                            p \in TouchedPlaces(k, asked) /\ t \in HeldAt(k, asked, l, p)
  BY SamplesAtAre
<1> HIDE DEF R
<1>2. ASSUME NEW t \in R PROVE t \in Own(k, l)
  <2>1. PICK p \in Range(ColumnPlaces(k)) :
           p \in TouchedPlaces(k, asked) /\ t \in HeldAt(k, asked, l, p)
    BY <1>1
  <2>2. /\ p.seg \in DOMAIN table[k] /\ <<k, p.seg>> \notin gone
        /\ ColumnAt(k, p) \in Range(table[k][p.seg].cols) /\ ColumnAt(k, p).times \in SUBSET Times
    BY <2>1, ColumnIs DEF TouchedPlaces, Touched
  <2>3. /\ t \in ColumnAt(k, p).times /\ At(ColumnAt(k, p).col, t) = l
        /\ asked.from <= t /\ t <= asked.to
    BY <2>1 DEF HeldAt
  <2> QED  BY <2>2, <2>3 DEF Own
<1>3. ASSUME NEW t \in Own(k, l) PROVE t \in R
  <2>1. PICK s \in DOMAIN table[k] :
           /\ <<k, s>> \notin gone
           /\ \E c \in Range(table[k][s].cols) :
                 t \in c.times /\ At(c.col, t) = l /\ asked.from <= t /\ t <= asked.to
    BY DEF Own
  <2>2. PICK c \in Range(table[k][s].cols) :
           t \in c.times /\ At(c.col, t) = l /\ asked.from <= t /\ t <= asked.to
    BY <2>1
  <2>3. table[k][s] \in TableSegments /\ Spanned(table[k][s])
    BY TableIs
  <2>4. PICK i \in DOMAIN table[k][s].cols : c = table[k][s].cols[i]
    BY DEF Range
  <2> DEFINE p == [seg |-> s, at |-> i]
  <2>5. p \in Range(ColumnPlaces(k)) /\ ColumnAt(k, p) = c /\ p.seg = s
    BY <2>4, PlacesAre DEF ColumnAt
  <2>6. Overlaps(table[k][s], asked)
    <3>1. CASE table[k][s].span = <<>>
      BY <3>1 DEF Overlaps
    <3>2. CASE table[k][s].span # <<>>
      <4>1. table[k][s].span[1] \in Nat /\ table[k][s].span[2] \in Nat
        BY <2>3, <3>2, SegmentIs
      <4>2. t \in table[k][s].span[1] .. table[k][s].span[2]
        BY <2>2, <2>3, <3>2 DEF Spanned
      <4>3. asked.from \in Nat /\ asked.to \in Nat
        BY SplicedReadsAssumption DEF Given
      <4>4. table[k][s].span[1] <= asked.to /\ table[k][s].span[2] >= asked.from
        BY <2>2, <4>1, <4>2, <4>3
      <4> QED  BY <4>4 DEF Overlaps
    <3> QED  BY <3>1, <3>2
  <2>7. p \in TouchedPlaces(k, asked)
    BY <2>1, <2>5, <2>6 DEF TouchedPlaces, Touched
  <2>8. t \in HeldAt(k, asked, l, p)
    BY <2>2, <2>5 DEF HeldAt
  <2> QED  BY <1>1, <2>5, <2>7, <2>8
<1> QED  BY <1>2, <1>3 DEF R

LEMMA SRInvAgrees == SRInv => ReadsAgree
<1> SUFFICES ASSUME SRInv, NEW k \in DOMAIN table, NEW l \in SeriesLabels
             PROVE  LET whole == Counters(k, asked, l)
                        mine  == Own(k, l)
                    IN /\ Range(whole.times) = mine /\ Len(whole.times) = Cardinality(mine)
                       /\ whole.windows \in {<<>>, whole.times}
                       /\ Stream(k, asked, l) = whole.times
                       /\ (\A j \in DOMAIN scans : scans[j].start = "done")
                             => got[k][l] = whole.times
  BY DEF ReadsAgree, Own
<1> DEFINE whole == Counters(k, asked, l)
           all   == SamplesAt(k, asked, l, TouchedPlaces(k, asked))
<1>1. Given /\ ScanFine(k, scans[k]) /\ GotFine(k, scans[k], got[k]) /\ k \in DOMAIN scans
  BY DEF SRInv, SRTypeOK
<1>2. /\ whole.times = IF l \in asked.accepts THEN all ELSE <<>>
      /\ whole.windows \in {<<>>, whole.times}
  BY <1>1, CountersAre
<1>3. CASE l \in asked.accepts
  <2>1. all \in Seq(Times) /\ Range(all) = Own(k, l) /\ Once(all)
    BY <1>1, <1>3, SamplesAtAre, OwnIsTouched, SamplesAtOnce
  <2>2. Len(all) = Cardinality(Own(k, l))
    <3> HIDE DEF all
    <3> QED  BY <2>1, OnceCounts
  <2>3. Stream(k, asked, l) = all
    <3> DEFINE ps == {p \in Locations(k, l) : p.seg \in Touched(k, asked)}
    <3>1. Stream(k, asked, l) = SamplesAt(k, asked, l, ps)
      BY <1>3 DEF Stream
    <3>2. ASSUME NEW p \in Range(ColumnPlaces(k)), HeldAt(k, asked, l, p) # {}
          PROVE  p \in ps <=> p \in TouchedPlaces(k, asked)
      BY <1>1, <3>2, HeldIsLocated DEF TouchedPlaces
    <3> QED  BY <1>1, <3>1, <3>2, SamplesAtSame
  <2>4. ASSUME scans[k].start = "done" PROVE got[k][l] = all
    <3>1. scans[k].next - 1 = Len(PlanSegments(k, asked))
      BY <1>1, <2>4, PlanIs DEF ScanFine
    <3>2. got[k][l] = SamplesAt(k, asked, l, Reading(k, 1, Len(PlanSegments(k, asked))))
      BY <1>1, <1>3, <3>1 DEF GotFine
    <3> QED  BY <1>1, <1>3, <3>2, ReadingAll
  <2> HIDE DEF whole, all
  <2> QED  BY <1>1, <1>2, <1>3, <2>1, <2>2, <2>3, <2>4 DEF whole
<1>4. CASE l \notin asked.accepts
  <2>1. Own(k, l) = {}
    BY <1>4 DEF Own
  <2>2. Range(<<>>) = {} /\ Len(<<>>) = 0 /\ Cardinality({}) = 0
    BY FS_EmptySet DEF Range
  <2>3. Stream(k, asked, l) = <<>> /\ got[k][l] = <<>>
    BY <1>1, <1>4 DEF Stream, GotFine
  <2> HIDE DEF whole
  <2> QED  BY <1>2, <1>4, <2>1, <2>2, <2>3 DEF whole
<1> QED  BY <1>3, <1>4

\* Whichever way a counter's series is read, it is the same, and it is all of
\* the series' own samples, each once: through columns that change hands,
\* segments lost, and scans of several tables interleaved.
THEOREM ReadsAgreeHolds == SRSpec => []ReadsAgree
  BY SRInvHolds, SRInvAgrees, PTL

\* What a chunk of a scan adds is later than the rest promised, of a scan that
\* had not ended, and of a series that was not said to have no more.
LEMMA ChunkKeepsItsWord ==
    ASSUME SRInv, NEW k \in DOMAIN table, Live(scans[k]), NEW b, ChunkOf(k, b),
           NEW l \in SeriesLabels, NEW i \in Len(got[k][l]) + 1 .. Len(got'[k][l])
    PROVE  /\ promise.rest # Unknown => got'[k][l][i] >= promise.rest
           /\ k \notin promise.ended
           /\ <<k, l>> \notin promise.silent
<1> DEFINE a == scans[k].next
           segs == PlanSegments(k, asked)
           old == got[k][l]
           more == SamplesAt(k, asked, l, Reading(k, a, b))
           new == got'[k][l]
<1>1. /\ Given /\ ScanFine(k, scans[k]) /\ PromiseFine(k, scans[k], promise, ended)
      /\ got \in [DOMAIN table -> [SeriesLabels -> Seq(Times)]]
      /\ a \in Nat \ {0} /\ promise.rest \in Nat \cup {Unknown}
  BY DEF SRInv, SRTypeOK, ScanStates
<1>2. /\ b \in Nat /\ a <= b /\ b <= Len(segs) /\ Len(segs) \in Nat
      /\ new = ReadInto(k, {segs[j] : j \in a .. b})[l]
  BY <1>1, PlanIs DEF ChunkOf
<1>3. old \in Seq(Times) /\ more \in Seq(Times)
  BY <1>1, SamplesAtAre
<1>4. IF l \in asked.accepts THEN new = old \o more ELSE new = old
  BY <1>2, ReadIntoIs
<1>5. \A t : t \in Range(more) <=> \E p \in Range(ColumnPlaces(k)) :
                                      p \in Reading(k, a, b) /\ t \in HeldAt(k, asked, l, p)
  BY <1>1, SamplesAtAre
<1> HIDE DEF more, old, new
<1>6. i \in Len(old) + 1 .. Len(new)
  BY DEF old, new
<1>7. l \in asked.accepts /\ new = old \o more
  BY <1>3, <1>4, <1>6, LenProperties
<1>8. new[i] \in Range(more)
  <2>1. /\ Len(old) \in Nat /\ Len(more) \in Nat /\ Len(new) = Len(old) + Len(more)
        /\ \A j \in 1 .. Len(old) + Len(more) :
              new[j] = IF j <= Len(old) THEN old[j] ELSE more[j - Len(old)]
    BY <1>3, <1>7, ConcatIs
  <2>2. i \in 1 .. Len(old) + Len(more) /\ ~(i <= Len(old)) /\ i - Len(old) \in 1 .. Len(more)
    BY <1>6, <2>1
  <2>3. new[i] = more[i - Len(old)]
    BY <2>1, <2>2
  <2> QED  BY <1>3, <2>2, <2>3, RangeEquality
<1>9. PICK p \in Range(ColumnPlaces(k)) : p \in Reading(k, a, b) /\ new[i] \in HeldAt(k, asked, l, p)
  BY <1>5, <1>8
<1>10. PICK j \in a .. b : p.seg = segs[j]
  BY <1>9 DEF Reading
<1>11. j \in 1 .. Len(segs) /\ j \in a .. Len(segs) /\ a <= j
  BY <1>1, <1>2
<1>12. new[i] \in ColumnAt(k, p).times
  BY <1>9 DEF HeldAt
<1>13. ASSUME promise.rest # Unknown PROVE new[i] >= promise.rest
  <2>1. table[k][segs[j]].span # <<>> /\ promise.rest <= table[k][segs[j]].span[1]
    BY <1>1, <1>11, <1>13 DEF PromiseFine
  <2>2. /\ table[k][segs[j]] \in TableSegments /\ Spanned(table[k][segs[j]])
        /\ ColumnAt(k, p) \in Range(table[k][segs[j]].cols)
    BY <1>1, <1>10, ColumnIs, TableIs
  <2>3. table[k][segs[j]].span[1] \in Nat /\ table[k][segs[j]].span[2] \in Nat
    BY <2>1, <2>2, SegmentIs
  <2>4. new[i] \in table[k][segs[j]].span[1] .. table[k][segs[j]].span[2]
    BY <1>12, <2>1, <2>2 DEF Spanned
  <2>5. promise.rest \in Nat
    BY <1>1, <1>13
  <2> DEFINE x == table[k][segs[j]].span[1]
             y == table[k][segs[j]].span[2]
  <2>6. promise.rest <= x /\ x \in Nat /\ y \in Nat /\ new[i] \in x .. y
    BY <2>1, <2>3, <2>4
  <2> HIDE DEF x, y
  <2> QED  BY <2>5, <2>6
<1>14. k \notin promise.ended
  BY <1>1 DEF PromiseFine, Live
<1>15. <<k, l>> \notin promise.silent
  <2>1. p \in Locations(k, l) /\ ColumnAt(k, p).times # {}
    BY <1>1, <1>9, <1>12, HeldIsLocated
  <2>2. j <= LastAt(k, asked, l) /\ LastAt(k, asked, l) \in Nat
    BY <1>1, <1>10, <1>11, <2>1, LastAtIs
  <2>3. ~(LastAt(k, asked, l) < a)
    BY <1>1, <1>11, <2>2
  <2> QED  BY <1>1, <2>3 DEF PromiseFine
<1> QED  BY <1>13, <1>14, <1>15 DEF new

LEMMA StepKeepsItsWord ==
    ASSUME SRInv, SRNext, NEW k \in DOMAIN table, NEW l \in SeriesLabels,
           NEW i \in Len(got[k][l]) + 1 .. Len(got'[k][l])
    PROVE  /\ promise.rest # Unknown => got'[k][l][i] >= promise.rest
           /\ k \notin promise.ended
           /\ <<k, l>> \notin promise.silent
<1>1. got \in [DOMAIN table -> [SeriesLabels -> Seq(Times)]]
  BY DEF SRInv, SRTypeOK
<1>2. got'[k][l] # got[k][l]
  <2>1. Len(got[k][l]) \in Nat
    BY <1>1, LenProperties
  <2> SUFFICES ASSUME got'[k][l] = got[k][l] PROVE FALSE
    OBVIOUS
  <2>2. i \in Len(got[k][l]) + 1 .. Len(got[k][l])
    OBVIOUS
  <2> QED  BY <2>1, <2>2
<1>3. PICK n \in ChunkSizes : NextChunk(n)
  BY DEF SRNext
<1>4. PICK j \in DOMAIN table :
             /\ Live(scans[j])
             /\ \/ /\ scans[j].next > Len(PlanSegments(j, asked))
                   /\ scans' = [scans EXCEPT ![j].start = "done"] /\ ended' = ended \cup {j}
                   /\ UNCHANGED <<table, relabel, asked, gone, got, promise>>
                \/ \E b : ChunkOf(j, b)
  BY <1>3, NextChunkIs
<1>5. PICK b : ChunkOf(j, b)
  BY <1>2, <1>4
<1>6. j = k
  BY <1>1, <1>2, <1>5 DEF ChunkOf
<1> QED  BY <1>4, <1>5, <1>6, ChunkKeepsItsWord

\* What a chunk says of all the chunks after it is so, for every scan joined.
THEOREM ChunksKeepTheirWordHolds == SRSpec => ChunksKeepTheirWord
<1>1. SRInv /\ [SRNext]_srvars =>
        [\A k \in DOMAIN table : \A l \in SeriesLabels :
           LET n == Len(got[k][l])
           IN \A i \in n + 1 .. Len(got'[k][l]) :
                /\ promise.rest # Unknown => got'[k][l][i] >= promise.rest
                /\ k \notin promise.ended
                /\ <<k, l>> \notin promise.silent]_srvars
  BY StepKeepsItsWord
<1> QED  BY <1>1, SRInvHolds, PTL DEF SRSpec, ChunksKeepTheirWord

-----------------------------------------------------------------------------
(* Batched unions: what its loops pass through. *)

\* What the loop over the rows of a chunk passes through.
LEMMA TakeRowsIs ==
    ASSUME NEW s, NEW m, NEW rows, Len(rows) \in Nat
    PROVE  \E f : /\ f[0] = s /\ TakeRows(s, m, rows) = f[Len(rows)]
                 /\ \A n \in 1 .. Len(rows) : f[n] = TakeRow(m, f[n - 1], rows[n])
<1> DEFINE L == Len(rows)
           Pass(n, x) == TakeRow(m, x, rows[n])
           Upto(k, g) == [n \in 0 .. k |-> IF n = 0 THEN s ELSE Pass(n, g[n - 1])]
           S == {k \in 0 .. L : \E g : g = Upto(k, g)}
<1>1. L \in Nat
  OBVIOUS
<1>2. TakeRows(s, m, rows) = (CHOOSE g : g = Upto(L, g))[L]
  BY DEF TakeRows
<1> HIDE DEF L, Pass
<1>3. 0 \in S
  <2> DEFINE h == [n \in 0 .. 0 |-> s]
  <2>1. h = Upto(0, h)
    OBVIOUS
  <2>2. \E g : g = Upto(0, g)
    <3> HIDE DEF h, Upto
    <3> QED  BY <2>1
  <2> HIDE DEF Upto
  <2> QED  BY <1>1, <2>2
<1>4. ASSUME NEW k \in Nat, k < L, k \in S PROVE k + 1 \in S
  <2>1. PICK g : g = Upto(k, g)
    BY <1>4
  <2> DEFINE h == [n \in 0 .. k + 1 |-> IF n = k + 1 THEN Pass(k + 1, g[k]) ELSE g[n]]
  <2>2. \A n \in 0 .. k : g[n] = IF n = 0 THEN s ELSE Pass(n, g[n - 1])
    BY <2>1
  <2>3. ASSUME NEW n \in 0 .. k + 1 PROVE h[n] = IF n = 0 THEN s ELSE Pass(n, h[n - 1])
    <3>1. CASE n = k + 1
      <4>1. n # 0 /\ n - 1 = k /\ k \in 0 .. k + 1 /\ k # k + 1
        BY <3>1
      <4>2. h[n] = Pass(k + 1, g[k]) /\ h[k] = g[k]
        BY <3>1, <4>1
      <4> QED  BY <3>1, <4>1, <4>2
    <3>2. CASE n = 0
      BY <2>2, <3>2
    <3>3. CASE n # 0 /\ n # k + 1
      <4>1. n \in 0 .. k /\ n - 1 \in 0 .. k + 1 /\ n - 1 # k + 1
        BY <3>3
      <4>2. h[n] = g[n] /\ h[n - 1] = g[n - 1]
        BY <3>3, <4>1
      <4> QED  BY <2>2, <3>3, <4>1, <4>2
    <3> QED  BY <3>1, <3>2, <3>3
  <2>4. h = Upto(k + 1, h)
    <3>1. h = [n \in 0 .. k + 1 |-> h[n]]
      OBVIOUS
    <3> HIDE DEF h
    <3> QED  BY <2>3, <3>1
  <2>5. \E x : x = Upto(k + 1, x)
    <3> HIDE DEF h, Upto
    <3> QED  BY <2>4
  <2>6. k + 1 \in 0 .. L
    BY <1>1, <1>4
  <2> HIDE DEF Upto
  <2> QED  BY <2>5, <2>6
<1>5. \A k \in 0 .. L : k \in S
  <2> HIDE DEF S
  <2> QED  BY <1>1, <1>3, <1>4, UpTo
<1> DEFINE f == CHOOSE g : g = Upto(L, g)
<1>6. f = Upto(L, f)
  <2>1. L \in S
    BY <1>1, <1>5
  <2>2. \E g : g = Upto(L, g)
    BY <2>1
  <2> HIDE DEF Upto
  <2> QED  BY <2>2
<1>7. TakeRows(s, m, rows) = f[L]
  BY <1>2
<1> HIDE DEF f
<1>8. \A n \in 0 .. L : f[n] = IF n = 0 THEN s ELSE Pass(n, f[n - 1])
  BY <1>6
<1>9. f[0] = s /\ \A n \in 1 .. L : f[n] = Pass(n, f[n - 1])
  BY <1>1, <1>8
<1> QED  BY <1>7, <1>9 DEF L, Pass

\* What the loop over the scans that ended passes through.
LEMMA EndScansIs ==
    ASSUME NEW s, Scanned \in Nat
    PROVE  \E f : /\ f[0] = s /\ EndScans(s) = f[Scanned]
                 /\ \A n \in 1 .. Scanned : f[n] = IF n \in closed THEN EndScan(f[n - 1], n) ELSE f[n - 1]
<1> DEFINE L == Scanned
           Pass(n, x) == IF n \in closed THEN EndScan(x, n) ELSE x
           Upto(k, g) == [n \in 0 .. k |-> IF n = 0 THEN s ELSE Pass(n, g[n - 1])]
           S == {k \in 0 .. L : \E g : g = Upto(k, g)}
<1>1. L \in Nat
  OBVIOUS
<1>2. EndScans(s) = (CHOOSE g : g = Upto(L, g))[L]
  BY DEF EndScans
<1> HIDE DEF L, Pass
<1>3. 0 \in S
  <2> DEFINE h == [n \in 0 .. 0 |-> s]
  <2>1. h = Upto(0, h)
    OBVIOUS
  <2>2. \E g : g = Upto(0, g)
    <3> HIDE DEF h, Upto
    <3> QED  BY <2>1
  <2> HIDE DEF Upto
  <2> QED  BY <1>1, <2>2
<1>4. ASSUME NEW k \in Nat, k < L, k \in S PROVE k + 1 \in S
  <2>1. PICK g : g = Upto(k, g)
    BY <1>4
  <2> DEFINE h == [n \in 0 .. k + 1 |-> IF n = k + 1 THEN Pass(k + 1, g[k]) ELSE g[n]]
  <2>2. \A n \in 0 .. k : g[n] = IF n = 0 THEN s ELSE Pass(n, g[n - 1])
    BY <2>1
  <2>3. ASSUME NEW n \in 0 .. k + 1 PROVE h[n] = IF n = 0 THEN s ELSE Pass(n, h[n - 1])
    <3>1. CASE n = k + 1
      <4>1. n # 0 /\ n - 1 = k /\ k \in 0 .. k + 1 /\ k # k + 1
        BY <3>1
      <4>2. h[n] = Pass(k + 1, g[k]) /\ h[k] = g[k]
        BY <3>1, <4>1
      <4> QED  BY <3>1, <4>1, <4>2
    <3>2. CASE n = 0
      BY <2>2, <3>2
    <3>3. CASE n # 0 /\ n # k + 1
      <4>1. n \in 0 .. k /\ n - 1 \in 0 .. k + 1 /\ n - 1 # k + 1
        BY <3>3
      <4>2. h[n] = g[n] /\ h[n - 1] = g[n - 1]
        BY <3>3, <4>1
      <4> QED  BY <2>2, <3>3, <4>1, <4>2
    <3> QED  BY <3>1, <3>2, <3>3
  <2>4. h = Upto(k + 1, h)
    <3>1. h = [n \in 0 .. k + 1 |-> h[n]]
      OBVIOUS
    <3> HIDE DEF h
    <3> QED  BY <2>3, <3>1
  <2>5. \E x : x = Upto(k + 1, x)
    <3> HIDE DEF h, Upto
    <3> QED  BY <2>4
  <2>6. k + 1 \in 0 .. L
    BY <1>1, <1>4
  <2> HIDE DEF Upto
  <2> QED  BY <2>5, <2>6
<1>5. \A k \in 0 .. L : k \in S
  <2> HIDE DEF S
  <2> QED  BY <1>1, <1>3, <1>4, UpTo
<1> DEFINE f == CHOOSE g : g = Upto(L, g)
<1>6. f = Upto(L, f)
  <2>1. L \in S
    BY <1>1, <1>5
  <2>2. \E g : g = Upto(L, g)
    BY <2>1
  <2> HIDE DEF Upto
  <2> QED  BY <2>2
<1>7. EndScans(s) = f[L]
  BY <1>2
<1> HIDE DEF f
<1>8. \A n \in 0 .. L : f[n] = IF n = 0 THEN s ELSE Pass(n, f[n - 1])
  BY <1>6
<1>9. f[0] = s /\ \A n \in 1 .. L : f[n] = Pass(n, f[n - 1])
  BY <1>1, <1>8
<1> QED  BY <1>7, <1>9 DEF L, Pass

\* What the loop over the held points passes through.
LEMMA SettleAllIs ==
    ASSUME NEW s, Len(Ticks(scene.grid)) \in Nat
    PROVE  \E f : /\ f[0] = s /\ SettleAll(s) = f[Len(Ticks(scene.grid))]
                 /\ \A n \in 1 .. Len(Ticks(scene.grid)) : f[n] = SettleAt(f[n - 1], Ticks(scene.grid)[n])
<1> DEFINE L == Len(Ticks(scene.grid))
           Pass(n, x) == SettleAt(x, Ticks(scene.grid)[n])
           Upto(k, g) == [n \in 0 .. k |-> IF n = 0 THEN s ELSE Pass(n, g[n - 1])]
           S == {k \in 0 .. L : \E g : g = Upto(k, g)}
<1>1. L \in Nat
  OBVIOUS
<1>2. SettleAll(s) = (CHOOSE g : g = Upto(L, g))[L]
  BY DEF SettleAll
<1> HIDE DEF L, Pass
<1>3. 0 \in S
  <2> DEFINE h == [n \in 0 .. 0 |-> s]
  <2>1. h = Upto(0, h)
    OBVIOUS
  <2>2. \E g : g = Upto(0, g)
    <3> HIDE DEF h, Upto
    <3> QED  BY <2>1
  <2> HIDE DEF Upto
  <2> QED  BY <1>1, <2>2
<1>4. ASSUME NEW k \in Nat, k < L, k \in S PROVE k + 1 \in S
  <2>1. PICK g : g = Upto(k, g)
    BY <1>4
  <2> DEFINE h == [n \in 0 .. k + 1 |-> IF n = k + 1 THEN Pass(k + 1, g[k]) ELSE g[n]]
  <2>2. \A n \in 0 .. k : g[n] = IF n = 0 THEN s ELSE Pass(n, g[n - 1])
    BY <2>1
  <2>3. ASSUME NEW n \in 0 .. k + 1 PROVE h[n] = IF n = 0 THEN s ELSE Pass(n, h[n - 1])
    <3>1. CASE n = k + 1
      <4>1. n # 0 /\ n - 1 = k /\ k \in 0 .. k + 1 /\ k # k + 1
        BY <3>1
      <4>2. h[n] = Pass(k + 1, g[k]) /\ h[k] = g[k]
        BY <3>1, <4>1
      <4> QED  BY <3>1, <4>1, <4>2
    <3>2. CASE n = 0
      BY <2>2, <3>2
    <3>3. CASE n # 0 /\ n # k + 1
      <4>1. n \in 0 .. k /\ n - 1 \in 0 .. k + 1 /\ n - 1 # k + 1
        BY <3>3
      <4>2. h[n] = g[n] /\ h[n - 1] = g[n - 1]
        BY <3>3, <4>1
      <4> QED  BY <2>2, <3>3, <4>1, <4>2
    <3> QED  BY <3>1, <3>2, <3>3
  <2>4. h = Upto(k + 1, h)
    <3>1. h = [n \in 0 .. k + 1 |-> h[n]]
      OBVIOUS
    <3> HIDE DEF h
    <3> QED  BY <2>3, <3>1
  <2>5. \E x : x = Upto(k + 1, x)
    <3> HIDE DEF h, Upto
    <3> QED  BY <2>4
  <2>6. k + 1 \in 0 .. L
    BY <1>1, <1>4
  <2> HIDE DEF Upto
  <2> QED  BY <2>5, <2>6
<1>5. \A k \in 0 .. L : k \in S
  <2> HIDE DEF S
  <2> QED  BY <1>1, <1>3, <1>4, UpTo
<1> DEFINE f == CHOOSE g : g = Upto(L, g)
<1>6. f = Upto(L, f)
  <2>1. L \in S
    BY <1>1, <1>5
  <2>2. \E g : g = Upto(L, g)
    BY <2>1
  <2> HIDE DEF Upto
  <2> QED  BY <2>2
<1>7. SettleAll(s) = f[L]
  BY <1>2
<1> HIDE DEF f
<1>8. \A n \in 0 .. L : f[n] = IF n = 0 THEN s ELSE Pass(n, f[n - 1])
  BY <1>6
<1>9. f[0] = s /\ \A n \in 1 .. L : f[n] = Pass(n, f[n - 1])
  BY <1>1, <1>8
<1> QED  BY <1>7, <1>9 DEF L, Pass

\* The states f that the loop over the silent members passes through.
SilencedBy(f, s, kids, rest) ==
    /\ f[0] = s /\ Silenced(s, kids, rest) = f[Scanned]
    /\ \A n \in 1 .. Scanned : f[n] = Silence(f[n - 1], kids, MedianSpacing(s), rest, n)

\* There are such states.
LEMMA SilencedIs ==
    ASSUME NEW s, NEW kids, NEW rest, Scanned \in Nat
    PROVE  \E f : SilencedBy(f, s, kids, rest)
<1> DEFINE L == Scanned
           Pass(n, x) == Silence(x, kids, MedianSpacing(s), rest, n)
           Upto(k, g) == [n \in 0 .. k |-> IF n = 0 THEN s ELSE Pass(n, g[n - 1])]
           S == {k \in 0 .. L : \E g : g = Upto(k, g)}
<1>1. L \in Nat
  OBVIOUS
<1>2. Silenced(s, kids, rest) = (CHOOSE g : g = Upto(L, g))[L]
  BY DEF Silenced
<1> HIDE DEF L, Pass
<1>3. 0 \in S
  <2> DEFINE h == [n \in 0 .. 0 |-> s]
  <2>1. h = Upto(0, h)
    OBVIOUS
  <2>2. \E g : g = Upto(0, g)
    <3> HIDE DEF h, Upto
    <3> QED  BY <2>1
  <2> HIDE DEF Upto
  <2> QED  BY <1>1, <2>2
<1>4. ASSUME NEW k \in Nat, k < L, k \in S PROVE k + 1 \in S
  <2>1. PICK g : g = Upto(k, g)
    BY <1>4
  <2> DEFINE h == [n \in 0 .. k + 1 |-> IF n = k + 1 THEN Pass(k + 1, g[k]) ELSE g[n]]
  <2>2. \A n \in 0 .. k : g[n] = IF n = 0 THEN s ELSE Pass(n, g[n - 1])
    BY <2>1
  <2>3. ASSUME NEW n \in 0 .. k + 1 PROVE h[n] = IF n = 0 THEN s ELSE Pass(n, h[n - 1])
    <3>1. CASE n = k + 1
      <4>1. n # 0 /\ n - 1 = k /\ k \in 0 .. k + 1 /\ k # k + 1
        BY <3>1
      <4>2. h[n] = Pass(k + 1, g[k]) /\ h[k] = g[k]
        BY <3>1, <4>1
      <4> QED  BY <3>1, <4>1, <4>2
    <3>2. CASE n = 0
      BY <2>2, <3>2
    <3>3. CASE n # 0 /\ n # k + 1
      <4>1. n \in 0 .. k /\ n - 1 \in 0 .. k + 1 /\ n - 1 # k + 1
        BY <3>3
      <4>2. h[n] = g[n] /\ h[n - 1] = g[n - 1]
        BY <3>3, <4>1
      <4> QED  BY <2>2, <3>3, <4>1, <4>2
    <3> QED  BY <3>1, <3>2, <3>3
  <2>4. h = Upto(k + 1, h)
    <3>1. h = [n \in 0 .. k + 1 |-> h[n]]
      OBVIOUS
    <3> HIDE DEF h
    <3> QED  BY <2>3, <3>1
  <2>5. \E x : x = Upto(k + 1, x)
    <3> HIDE DEF h, Upto
    <3> QED  BY <2>4
  <2>6. k + 1 \in 0 .. L
    BY <1>1, <1>4
  <2> HIDE DEF Upto
  <2> QED  BY <2>5, <2>6
<1>5. \A k \in 0 .. L : k \in S
  <2> HIDE DEF S
  <2> QED  BY <1>1, <1>3, <1>4, UpTo
<1> DEFINE f == CHOOSE g : g = Upto(L, g)
<1>6. f = Upto(L, f)
  <2>1. L \in S
    BY <1>1, <1>5
  <2>2. \E g : g = Upto(L, g)
    BY <2>1
  <2> HIDE DEF Upto
  <2> QED  BY <2>2
<1>7. Silenced(s, kids, rest) = f[L]
  BY <1>2
<1> HIDE DEF f
<1>8. \A n \in 0 .. L : f[n] = IF n = 0 THEN s ELSE Pass(n, f[n - 1])
  BY <1>6
<1>9. f[0] = s /\ \A n \in 1 .. L : f[n] = Pass(n, f[n - 1])
  BY <1>1, <1>8
<1>10. SilencedBy(f, s, kids, rest)
  BY <1>7, <1>9 DEF L, Pass, SilencedBy
<1> QED  BY <1>10

\* What the last loop over the rates passes through.
LEMMA RatesFinishedIs ==
    ASSUME NEW s, Scanned \in Nat
    PROVE  \E f : /\ f[0] = s /\ RatesFinished(s) = f[Scanned]
                 /\ \A n \in 1 .. Scanned : f[n] = Emitted(f[n - 1], n, FinishRate(f[n - 1].rates[n], GridOf(n)))
<1> DEFINE L == Scanned
           Pass(n, x) == Emitted(x, n, FinishRate(x.rates[n], GridOf(n)))
           Upto(k, g) == [n \in 0 .. k |-> IF n = 0 THEN s ELSE Pass(n, g[n - 1])]
           S == {k \in 0 .. L : \E g : g = Upto(k, g)}
<1>1. L \in Nat
  OBVIOUS
<1>2. RatesFinished(s) = (CHOOSE g : g = Upto(L, g))[L]
  BY DEF RatesFinished
<1> HIDE DEF L, Pass
<1>3. 0 \in S
  <2> DEFINE h == [n \in 0 .. 0 |-> s]
  <2>1. h = Upto(0, h)
    OBVIOUS
  <2>2. \E g : g = Upto(0, g)
    <3> HIDE DEF h, Upto
    <3> QED  BY <2>1
  <2> HIDE DEF Upto
  <2> QED  BY <1>1, <2>2
<1>4. ASSUME NEW k \in Nat, k < L, k \in S PROVE k + 1 \in S
  <2>1. PICK g : g = Upto(k, g)
    BY <1>4
  <2> DEFINE h == [n \in 0 .. k + 1 |-> IF n = k + 1 THEN Pass(k + 1, g[k]) ELSE g[n]]
  <2>2. \A n \in 0 .. k : g[n] = IF n = 0 THEN s ELSE Pass(n, g[n - 1])
    BY <2>1
  <2>3. ASSUME NEW n \in 0 .. k + 1 PROVE h[n] = IF n = 0 THEN s ELSE Pass(n, h[n - 1])
    <3>1. CASE n = k + 1
      <4>1. n # 0 /\ n - 1 = k /\ k \in 0 .. k + 1 /\ k # k + 1
        BY <3>1
      <4>2. h[n] = Pass(k + 1, g[k]) /\ h[k] = g[k]
        BY <3>1, <4>1
      <4> QED  BY <3>1, <4>1, <4>2
    <3>2. CASE n = 0
      BY <2>2, <3>2
    <3>3. CASE n # 0 /\ n # k + 1
      <4>1. n \in 0 .. k /\ n - 1 \in 0 .. k + 1 /\ n - 1 # k + 1
        BY <3>3
      <4>2. h[n] = g[n] /\ h[n - 1] = g[n - 1]
        BY <3>3, <4>1
      <4> QED  BY <2>2, <3>3, <4>1, <4>2
    <3> QED  BY <3>1, <3>2, <3>3
  <2>4. h = Upto(k + 1, h)
    <3>1. h = [n \in 0 .. k + 1 |-> h[n]]
      OBVIOUS
    <3> HIDE DEF h
    <3> QED  BY <2>3, <3>1
  <2>5. \E x : x = Upto(k + 1, x)
    <3> HIDE DEF h, Upto
    <3> QED  BY <2>4
  <2>6. k + 1 \in 0 .. L
    BY <1>1, <1>4
  <2> HIDE DEF Upto
  <2> QED  BY <2>5, <2>6
<1>5. \A k \in 0 .. L : k \in S
  <2> HIDE DEF S
  <2> QED  BY <1>1, <1>3, <1>4, UpTo
<1> DEFINE f == CHOOSE g : g = Upto(L, g)
<1>6. f = Upto(L, f)
  <2>1. L \in S
    BY <1>1, <1>5
  <2>2. \E g : g = Upto(L, g)
    BY <2>1
  <2> HIDE DEF Upto
  <2> QED  BY <2>2
<1>7. RatesFinished(s) = f[L]
  BY <1>2
<1> HIDE DEF f
<1>8. \A n \in 0 .. L : f[n] = IF n = 0 THEN s ELSE Pass(n, f[n - 1])
  BY <1>6
<1>9. f[0] = s /\ \A n \in 1 .. L : f[n] = Pass(n, f[n - 1])
  BY <1>1, <1>8
<1> QED  BY <1>7, <1>9 DEF L, Pass

-----------------------------------------------------------------------------
(* Batched unions: the scene and the rows of its sources. *)

LEMMA SceneIs ==
    ASSUME scene \in Scenes
    PROVE  /\ Len(scene.members) \in Nat /\ Combined = 1 .. Len(scene.members)
           /\ Scanned \in Nat /\ Combined \subseteq All
           /\ \A m \in All : Member(m) \in Sources
           /\ scene.grid \in Grids
<1>1. /\ scene.grid \in Grids
      /\ scene.members \in Seq(Sources)
      /\ scene.single \in Seq(Sources) /\ Len(scene.single) <= 1
  BY BatchedUnionAssumption
<1>2. /\ Len(scene.members) \in Nat /\ DOMAIN scene.members = 1 .. Len(scene.members)
      /\ \A m \in 1 .. Len(scene.members) : scene.members[m] \in Sources
  BY <1>1, LenProperties, ElementOfSeq
<1>3. /\ Len(scene.single) \in Nat
      /\ \A m \in 1 .. Len(scene.single) : scene.single[m] \in Sources
  BY <1>1, LenProperties, ElementOfSeq
<1> DEFINE A == Len(scene.members)
           B == Len(scene.single)
<1>3a. A \in Nat /\ B \in Nat /\ B <= 1 /\ Scanned = A + B
  BY <1>1, <1>2, <1>3 DEF Scanned
<1> HIDE DEF A, B
<1>3b. B = 0 \/ B = 1
  BY <1>3a
<1>4. Scanned \in Nat /\ A <= Scanned
  BY <1>3a
<1>5. Combined = 1 .. Len(scene.members)
  BY <1>2 DEF Combined
<1>6. ASSUME NEW m \in All PROVE Member(m) \in Sources
  <2>1. CASE m \in Combined
    BY <1>2, <1>5, <2>1 DEF Member
  <2>2. CASE m \notin Combined
    <3>1. m \in 1 .. Scanned
      BY DEF All
    <3>2. m \notin 1 .. A
      BY <1>5, <2>2 DEF A
    <3>3. B = 1
      BY <1>3a, <1>3b, <3>1, <3>2
    <3>4. scene.single[1] \in Sources
      BY <1>3, <3>3 DEF B
    <3> QED  BY <2>2, <3>4 DEF Member
  <2> QED  BY <2>1, <2>2
<1>7. Combined \subseteq All
  <2>1. 1 .. A \subseteq 1 .. Scanned
    BY <1>3a, <1>4
  <2> QED  BY <1>5, <2>1 DEF A, All
<1> QED  BY <1>1, <1>2, <1>4, <1>5, <1>6, <1>7

LEMMA SourceIs ==
    ASSUME scene \in Scenes, NEW m \in All
    PROVE  /\ Member(m).rows \in Seq(Nat \ {0}) /\ Len(Member(m).rows) \in Nat \ {0}
           /\ DOMAIN Member(m).rows = 1 .. Len(Member(m).rows)
           /\ \A i \in 1 .. Len(Member(m).rows) : Member(m).rows[i] \in Nat \ {0}
           /\ \A i, j \in 1 .. Len(Member(m).rows) :
                 i < j => Member(m).rows[i] < Member(m).rows[j]
           /\ IntervalOf(m) \in Nat \ {0}
<1>1. /\ Member(m) \in [rows : Seq(Nat \ {0}), interval : Nat \ {0}]
      /\ Member(m).rows # <<>> /\ Ascending(Member(m).rows)
  BY SceneIs DEF Sources
<1>2. Member(m).rows \in Seq(Nat \ {0}) /\ IntervalOf(m) \in Nat \ {0}
  BY <1>1 DEF IntervalOf
<1>3. Len(Member(m).rows) \in Nat /\ DOMAIN Member(m).rows = 1 .. Len(Member(m).rows)
  BY <1>2, LenProperties
<1>4. Len(Member(m).rows) # 0
  BY <1>1, <1>2, EmptySeq
<1>5. \A i \in 1 .. Len(Member(m).rows) : Member(m).rows[i] \in Nat \ {0}
  BY <1>2, ElementOfSeq
<1> QED  BY <1>1, <1>2, <1>3, <1>4, <1>5 DEF Ascending

\* The rows up to a time are the first RowsTo of them.
LEMMA RowsToIs ==
    ASSUME NEW rows \in Seq(Nat \ {0}), Ascending(rows), NEW t \in Int
    PROVE  /\ RowsTo(rows, t) \in 0 .. Len(rows)
           /\ \A i \in 1 .. Len(rows) : rows[i] <= t <=> i <= RowsTo(rows, t)
<1> DEFINE L == Len(rows)
           T == {0} \cup {i \in DOMAIN rows : rows[i] <= t}
<1>1. L \in Nat /\ DOMAIN rows = 1 .. L /\ \A i \in 1 .. L : rows[i] \in Nat
  BY LenProperties, ElementOfSeq
<1>2. T \subseteq 0 .. L /\ T # {}
  BY <1>1
<1>3. RowsTo(rows, t) = Max(T)
  BY DEF RowsTo
<1>4. \A i \in 1 .. L : i \in T <=> rows[i] <= t
  BY <1>1
<1>5. \A i, j \in 1 .. L : i < j => rows[i] < rows[j]
  BY <1>1 DEF Ascending
<1> HIDE DEF T, L
<1>6. \E x \in T : \A j \in T : x >= j
  BY <1>1, <1>2, GreatestExists
<1>7. Max(T) \in T /\ \A j \in T : Max(T) >= j
  BY <1>6 DEF Max
<1> DEFINE k == Max(T)
<1>8. k \in 0 .. L /\ k \in T
  BY <1>2, <1>7
<1> HIDE DEF k
<1>9. ASSUME NEW i \in 1 .. L PROVE rows[i] <= t <=> i <= k
  <2>1. rows[i] <= t => i <= k
    BY <1>4, <1>7 DEF k
  <2>2. ASSUME i <= k PROVE rows[i] <= t
    <3>1. k \in 1 .. L
      BY <1>1, <1>8, <2>2
    <3>2. rows[k] <= t
      BY <1>4, <1>8, <3>1
    <3>3. i = k \/ rows[i] < rows[k]
      BY <1>1, <1>5, <2>2, <3>1
    <3>4. rows[i] \in Nat /\ rows[k] \in Nat
      BY <1>1, <3>1
    <3> QED  BY <3>2, <3>3, <3>4
  <2> QED  BY <2>1, <2>2
<1> QED  BY <1>3, <1>8, <1>9 DEF k, L

\* The rows of a member, as a set.
RowsOf(m) == {Member(m).rows[i] : i \in 1 .. Len(Member(m).rows)}

\* Within gives the rows in between, in order.
LEMMA WithinIs ==
    ASSUME scene \in Scenes, NEW m \in All, NEW from \in Int, NEW to \in Int, from <= to + 1
    PROVE  /\ Within(m, from, to) \in Seq(Nat \ {0})
           /\ Len(Within(m, from, to)) \in Nat
           /\ \A i, j \in 1 .. Len(Within(m, from, to)) :
                 i < j => Within(m, from, to)[i] < Within(m, from, to)[j]
           /\ {Within(m, from, to)[i] : i \in 1 .. Len(Within(m, from, to))}
                 = {t \in RowsOf(m) : from <= t /\ t <= to}
<1> DEFINE rows == Member(m).rows
           L == Len(rows)
           a == RowsTo(rows, from - 1)
           b == RowsTo(rows, to)
           w == Within(m, from, to)
<1>1. /\ rows \in Seq(Nat \ {0}) /\ L \in Nat /\ \A i \in 1 .. L : rows[i] \in Nat \ {0}
      /\ \A i, j \in 1 .. L : i < j => rows[i] < rows[j]
      /\ DOMAIN rows = 1 .. L
  BY SourceIs
<1>2. Ascending(rows)
  BY <1>1 DEF Ascending
<1>3. w = SubSeq(rows, a + 1, b)
  BY DEF Within
<1>4. /\ a \in 0 .. L /\ \A i \in 1 .. L : rows[i] <= from - 1 <=> i <= a
      /\ b \in 0 .. L /\ \A i \in 1 .. L : rows[i] <= to <=> i <= b
  <2>1. from - 1 \in Int
    OBVIOUS
  <2>2. /\ a \in 0 .. L /\ \A i \in 1 .. L : rows[i] <= from - 1 <=> i <= a
    <3> HIDE DEF rows
    <3> QED  BY <1>1, <1>2, <2>1, RowsToIs
  <2>3. /\ b \in 0 .. L /\ \A i \in 1 .. L : rows[i] <= to <=> i <= b
    <3> HIDE DEF rows
    <3> QED  BY <1>1, <1>2, RowsToIs
  <2> HIDE DEF rows, a, b, L
  <2> QED  BY <2>2, <2>3
<1>5. RowsOf(m) = {rows[i] : i \in 1 .. L}
  BY DEF RowsOf
<1> HIDE DEF rows, L, a, b, w
<1>6. a <= b
  <2>1. CASE a = 0
    BY <1>1, <1>4, <2>1
  <2>2. CASE a # 0
    <3>1. a \in 1 .. L
      BY <1>1, <1>4, <2>2
    <3>2. rows[a] <= from - 1 /\ rows[a] \in Nat
      BY <1>1, <1>4, <3>1
    <3>3. rows[a] <= to
      BY <3>2
    <3> QED  BY <1>4, <3>1, <3>3
  <2> QED  BY <2>1, <2>2
<1>7. /\ w \in Seq(Nat \ {0}) /\ Len(w) = b - a
      /\ \A i \in 1 .. b - a : w[i] = rows[a + i]
  <2>1. \A i \in a + 1 .. b : rows[i] \in Nat \ {0}
    BY <1>1, <1>4
  <2>2. a + 1 \in Int /\ b \in Int
    BY <1>1, <1>4
  <2>3. /\ w \in Seq(Nat \ {0})
        /\ Len(w) = IF a + 1 <= b THEN b - (a + 1) + 1 ELSE 0
        /\ \A i \in 1 .. b - (a + 1) + 1 : w[i] = rows[a + 1 + i - 1]
    BY <1>3, <2>1, <2>2, SubSeqProperties
  <2>4. Len(w) = b - a /\ b - (a + 1) + 1 = b - a
    BY <1>1, <1>4, <1>6, <2>3
  <2>5. \A i \in 1 .. b - a : a + 1 + i - 1 = a + i
    BY <1>1, <1>4
  <2> QED  BY <2>3, <2>4, <2>5
<1>8. \A i \in 1 .. b - a : a + i \in 1 .. L
  BY <1>1, <1>4
<1>9. \A i, j \in 1 .. Len(w) : i < j => w[i] < w[j]
  <2> SUFFICES ASSUME NEW i \in 1 .. Len(w), NEW j \in 1 .. Len(w), i < j PROVE w[i] < w[j]
    OBVIOUS
  <2>1. i \in 1 .. b - a /\ j \in 1 .. b - a /\ a \in Nat
    BY <1>4, <1>7
  <2>2. a + i < a + j
    BY <2>1
  <2>3. a + i \in 1 .. L /\ a + j \in 1 .. L
    BY <1>8, <2>1
  <2>4. w[i] = rows[a + i] /\ w[j] = rows[a + j]
    BY <1>7, <2>1
  <2> QED  BY <1>1, <2>2, <2>3, <2>4
<1>10. ASSUME NEW t PROVE t \in {w[i] : i \in 1 .. Len(w)}
                         <=> t \in RowsOf(m) /\ from <= t /\ t <= to
  <2>1. ASSUME NEW i \in 1 .. Len(w), t = w[i] PROVE t \in RowsOf(m) /\ from <= t /\ t <= to
    <3>0. i \in 1 .. b - a /\ a \in Nat /\ b \in Nat
      BY <1>4, <1>7, <2>1
    <3>1. a + i \in 1 .. L /\ t = rows[a + i] /\ a + i <= b /\ ~(a + i <= a)
      <4>1. a + i <= b /\ ~(a + i <= a)
        BY <3>0
      <4> QED  BY <1>7, <1>8, <2>1, <3>0, <4>1
    <3>2. t <= to /\ ~(t <= from - 1) /\ t \in Nat
      BY <1>1, <1>4, <3>1
    <3> QED  BY <1>5, <3>1, <3>2
  <2>2. ASSUME t \in RowsOf(m), from <= t, t <= to PROVE \E i \in 1 .. Len(w) : t = w[i]
    <3>1. PICK k \in 1 .. L : t = rows[k]
      BY <1>5, <2>2
    <3>2. t \in Nat /\ ~(t <= from - 1)
      BY <1>1, <2>2, <3>1
    <3>3. k <= b /\ ~(k <= a)
      BY <1>4, <2>2, <3>1, <3>2
    <3>4. k - a \in 1 .. b - a /\ a + (k - a) = k
      BY <1>1, <1>4, <3>1, <3>3
    <3>5. w[k - a] = t
      BY <1>7, <3>1, <3>4
    <3> QED  BY <1>7, <3>4, <3>5
  <2> QED  BY <2>1, <2>2
<1>11. {w[i] : i \in 1 .. Len(w)} = {t \in RowsOf(m) : from <= t /\ t <= to}
  BY <1>10
<1>12. Len(w) \in Nat
  BY <1>7, LenProperties
<1> QED  BY <1>7, <1>9, <1>11, <1>12 DEF w

\* The rows of a member its read takes, and those in the first k segments.
Wanted(m) == {t \in RowsOf(m) : DataStart(m) <= t /\ t <= scene.grid.end}

HadBy(m, k) == {t \in Wanted(m) : t < SegmentStart(m, k + 1)}

LEMMA DivisionLeaves ==
    ASSUME NEW a \in Int, NEW b \in Nat \ {0}
    PROVE  b * (a \div b) <= a /\ a < b * (a \div b) + b
  OBVIOUS

LEMMA GridIs ==
    ASSUME scene \in Scenes
    PROVE  /\ scene.grid.start \in Nat /\ scene.grid.end \in Nat
           /\ scene.grid.start <= scene.grid.end
           /\ scene.grid.step \in Nat \ {0} /\ scene.grid.span \in Nat
           /\ scene.grid.range \in BOOLEAN
           /\ Len(Ticks(scene.grid)) \in Nat
           /\ \A m \in All : DataStart(m) \in Nat /\ DataStart(m) <= scene.grid.end
<1> DEFINE g == scene.grid
<1>1. /\ g.start \in Nat /\ g.end \in Nat /\ g.start <= g.end
      /\ g.step \in Nat \ {0} /\ g.span \in Nat /\ g.range \in BOOLEAN
  BY SceneIs DEF Grids
<1>2. Len(Ticks(g)) \in Nat
  <2>1. Ticks(g) = [i \in 1 .. 1 + (g.end - g.start) \div g.step |-> g.start + (i - 1) * g.step]
    BY DEF Ticks
  <2> HIDE DEF g
  <2> DEFINE n == (g.end - g.start) \div g.step
  <2>2. n \in Nat
    <3>1. g.end - g.start \in Nat
      BY <1>1
    <3> QED  BY <1>1, <3>1
  <2> HIDE DEF n
  <2>3. 1 + n \in Nat
    BY <2>2
  <2>4. Ticks(g) = [i \in 1 .. 1 + n |-> g.start + (i - 1) * g.step]
    BY <2>1 DEF n
  <2> DEFINE F(i) == g.start + (i - 1) * g.step
  <2>5. Ticks(g) = [i \in 1 .. 1 + n |-> F(i)]
    BY <2>4
  <2> HIDE DEF F
  <2>6. Len([i \in 1 .. 1 + n |-> F(i)]) = 1 + n
    BY <2>3
  <2> QED  BY <2>3, <2>5, <2>6
<1>3. ASSUME NEW m \in All PROVE DataStart(m) \in Nat /\ DataStart(m) <= g.end
  <2> DEFINE back == IF g.range THEN g.span + 4 * IntervalOf(m) ELSE AtLeast(g.span, g.step)
  <2>1. back \in Nat
    <3>1. IntervalOf(m) \in Nat
      BY SourceIs
    <3> HIDE DEF g
    <3> QED  BY <1>1, <3>1 DEF AtLeast
  <2>2. DataStart(m) = AtLeast(g.start - back, 0)
    BY DEF DataStart
  <2> HIDE DEF back, g
  <2> QED  BY <1>1, <2>1, <2>2 DEF AtLeast
<1> QED  BY <1>1, <1>2, <1>3

\* The segments a scan reads begin no later than what is wanted, and end after it.
LEMMA SegmentsAre ==
    ASSUME scene \in Scenes, NEW m \in All
    PROVE  /\ Segments(m) \in Nat
           /\ \A k \in Nat : SegmentStart(m, k) \in Int
           /\ \A k, j \in Nat : k <= j => SegmentStart(m, k) <= SegmentStart(m, j)
           /\ SegmentStart(m, 1) <= AtLeast(DataStart(m), 1)
           /\ scene.grid.end < SegmentStart(m, Segments(m) + 1)
<1> DEFINE d == AtLeast(DataStart(m), 1)
           e == scene.grid.end
           a == (d - 1) \div Width
           b == (e - 1) \div Width
<1>1. Width \in Nat \ {0}
  BY BatchedUnionAssumption
<1>2. d \in Nat \ {0} /\ e \in Nat /\ (d <= e \/ (e = 0 /\ d = 1))
  BY GridIs DEF AtLeast
<1>3. FirstSegment(m) = a /\ Segments(m) = b - a + 1
  BY DEF FirstSegment, Segments
<1> HIDE DEF d, e
<1>4. a \in Nat /\ b \in Int
  <2>1. d - 1 \in Nat /\ e - 1 \in Int
    BY <1>2
  <2> QED  BY <1>1, <2>1
<1>5. a * Width <= d - 1 /\ e - 1 < b * Width + Width
  <2>1. d - 1 \in Nat /\ e - 1 \in Int
    BY <1>2
  <2>2. Width * a <= d - 1
    BY <1>1, <2>1
  <2>3. e - 1 < Width * b + Width
    BY <1>1, <2>1, DivisionLeaves
  <2>4. Width * a = a * Width /\ Width * b = b * Width
    BY <1>1, <1>4
  <2> QED  BY <2>2, <2>3, <2>4
<1>6. b - a + 1 \in Nat
  <2>1. CASE d <= e
    <3>1. d - 1 \in Nat /\ e - 1 \in Nat /\ d - 1 <= e - 1
      BY <1>2, <2>1
    <3>2. a <= b
      BY <1>1, <3>1
    <3> QED  BY <1>4, <3>2
  <2>2. CASE e = 0 /\ d = 1
    <3>1. a = 0 /\ b >= -1
      BY <1>1, <2>2
    <3> QED  BY <1>4, <3>1
  <2> QED  BY <1>2, <2>1, <2>2
<1> HIDE DEF a, b
<1>7. ASSUME NEW k \in Nat PROVE SegmentStart(m, k) = (a + k - 1) * Width + 1 /\ SegmentStart(m, k) \in Int
  <2>1. SegmentStart(m, k) = (a + k - 1) * Width + 1
    BY <1>3 DEF SegmentStart
  <2> QED  BY <1>1, <1>4, <2>1
<1>8. ASSUME NEW k \in Nat, NEW j \in Nat, k <= j PROVE SegmentStart(m, k) <= SegmentStart(m, j)
  <2> DEFINE x == a + k - 1
             y == a + j - 1
  <2>1. x \in Int /\ y \in Int /\ x <= y
    BY <1>4, <1>8
  <2>2. SegmentStart(m, k) = x * Width + 1 /\ SegmentStart(m, j) = y * Width + 1
    BY <1>7
  <2> HIDE DEF x, y
  <2>3. x * Width <= y * Width
    BY <1>1, <2>1
  <2>4. x * Width \in Int /\ y * Width \in Int
    BY <1>1, <2>1
  <2> QED  BY <2>2, <2>3, <2>4
<1>9. SegmentStart(m, 1) <= d
  <2>1. SegmentStart(m, 1) = (a + 1 - 1) * Width + 1 /\ a + 1 - 1 = a
    BY <1>4, <1>7
  <2>2. SegmentStart(m, 1) = a * Width + 1
    BY <2>1
  <2>3. a * Width \in Int
    BY <1>1, <1>4
  <2> QED  BY <1>2, <1>5, <2>2, <2>3
<1>10. e < SegmentStart(m, Segments(m) + 1)
  <2> DEFINE k == Segments(m) + 1
  <2>1. k \in Nat /\ a + k - 1 = b + 1
    BY <1>3, <1>4, <1>6
  <2>2. SegmentStart(m, k) = (a + k - 1) * Width + 1
    BY <1>7, <2>1
  <2>3. (b + 1) * Width = b * Width + Width
    BY <1>1, <1>4
  <2>4. b * Width \in Int
    BY <1>1, <1>4
  <2>5. SegmentStart(m, k) = b * Width + Width + 1
    BY <2>1, <2>2, <2>3
  <2> QED  BY <1>1, <1>2, <1>5, <2>4, <2>5
<1> QED  BY <1>3, <1>6, <1>7, <1>8, <1>9, <1>10 DEF d, e

\* What has been read grows from nothing to all that is wanted.
LEMMA HadIs ==
    ASSUME scene \in Scenes, NEW m \in All
    PROVE  /\ Wanted(m) \subseteq Nat \ {0} /\ Wanted(m) \subseteq RowsOf(m)
           /\ RowsOf(m) \subseteq Nat \ {0}
           /\ HadBy(m, 0) = {}
           /\ HadBy(m, Segments(m)) = Wanted(m)
           /\ \A k \in Nat : HadBy(m, k) \subseteq Wanted(m)
           /\ \A k \in Nat : \A x \in HadBy(m, k) : \A y \in Wanted(m) : y <= x => y \in HadBy(m, k)
<1>1. RowsOf(m) \subseteq Nat \ {0}
  BY SourceIs DEF RowsOf
<1>2. Wanted(m) \subseteq RowsOf(m) /\ Wanted(m) \subseteq Nat \ {0}
  BY <1>1 DEF Wanted
<1>3. HadBy(m, 0) = {}
  <2> SUFFICES ASSUME NEW t \in HadBy(m, 0) PROVE FALSE
    OBVIOUS
  <2>1. t \in Wanted(m) /\ t < SegmentStart(m, 1)
    BY DEF HadBy
  <2>2. t \in Nat \ {0} /\ DataStart(m) <= t
    BY <1>2, <2>1 DEF Wanted
  <2>3. SegmentStart(m, 1) <= AtLeast(DataStart(m), 1) /\ SegmentStart(m, 1) \in Int
    BY SegmentsAre
  <2>4. DataStart(m) \in Nat
    BY GridIs
  <2> QED  BY <2>1, <2>2, <2>3, <2>4 DEF AtLeast
<1>4. HadBy(m, Segments(m)) = Wanted(m)
  <2>1. ASSUME NEW t \in Wanted(m) PROVE t < SegmentStart(m, Segments(m) + 1)
    <3>1. t \in Nat /\ t <= scene.grid.end
      BY <1>2 DEF Wanted
    <3>2. scene.grid.end < SegmentStart(m, Segments(m) + 1) /\ Segments(m) + 1 \in Nat
      BY SegmentsAre
    <3>3. SegmentStart(m, Segments(m) + 1) \in Int
      BY <3>2, SegmentsAre
    <3>4. scene.grid.end \in Nat
      BY GridIs
    <3> QED  BY <3>1, <3>2, <3>3, <3>4
  <2> QED  BY <2>1 DEF HadBy
<1>5. ASSUME NEW k \in Nat, NEW x \in HadBy(m, k), NEW y \in Wanted(m), y <= x PROVE y \in HadBy(m, k)
  <2>1. x \in Nat /\ y \in Nat /\ x < SegmentStart(m, k + 1)
    BY <1>2 DEF HadBy
  <2>2. SegmentStart(m, k + 1) \in Int
    BY SegmentsAre
  <2>3. y < SegmentStart(m, k + 1)
    BY <1>5, <2>1, <2>2
  <2> QED  BY <2>3 DEF HadBy
<1>6. \A k \in Nat : HadBy(m, k) \subseteq Wanted(m)
  BY DEF HadBy
<1> QED  BY <1>1, <1>2, <1>3, <1>4, <1>5, <1>6

-----------------------------------------------------------------------------
(* Batched unions: the comparison of the sources' rows. *)

Stage(s) ==
    /\ s = [rates |-> s.rates, tracks |-> s.tracks, pending |-> s.pending, cmp |-> s.cmp,
            found |-> s.found, points |-> s.points, early |-> s.early, resumed |-> s.resumed]
    /\ s.cmp \in [Combined -> [held : SUBSET Nat, last : Nat \cup {NoTime}, ended : BOOLEAN]]
    /\ s.resumed \in BOOLEAN

\* What a step that is not about the comparison leaves.
SameCompare(s, q) ==
    q.cmp = s.cmp /\ q.found = s.found /\ q.early = s.early /\ q.resumed = s.resumed

Ended(s) == {m \in Combined : s.cmp[m].ended}

\* Of what is wanted of each member, the rows up to some time are read.
Progress(had) ==
    /\ had \in [Combined -> SUBSET Nat]
    /\ \A m \in Combined : /\ had[m] \subseteq Wanted(m)
                           /\ \A x \in had[m] : \A y \in Wanted(m) : y <= x => y \in had[m]

\* What both have read and differs is found; what one has read and another
\* still can is held.
BothRead(s, had, m, o) ==
    \A t \in had[m] :
        /\ t \in had[o] /\ t \in scene.differs => <<{m, o}, t>> \in s.found
        /\ t \in Wanted(o) /\ t \notin had[o] /\ ~s.cmp[o].ended => t \in s.cmp[m].held

Conflict(c, had) ==
    \E m, o \in Combined : \E t \in scene.differs :
        m # o /\ c = <<{m, o}, t>> /\ t \in had[m] /\ t \in had[o]

Compared(s, had) ==
    /\ \A m \in Combined :
          /\ s.cmp[m].held \subseteq had[m]
          /\ s.cmp[m].last = NoTime \/ s.cmp[m].last \in had[m]
          /\ \A o \in Combined : m # o => BothRead(s, had, m, o)
    /\ \A c \in s.found : Conflict(c, had)

LEMMA ComparedAsBefore ==
    ASSUME NEW s, NEW q, NEW had, SameCompare(s, q), Compared(s, had)
    PROVE  Compared(q, had) /\ Ended(q) = Ended(s)
  BY DEF SameCompare, Compared, BothRead, Ended

\* What a member is past, it has read if it wants it, or it has ended.
LEMMA PassedIsOver ==
    ASSUME scene \in Scenes, NEW s, Stage(s), NEW had, Progress(had), Compared(s, had),
           NEW o \in Combined, NEW t \in Nat, Passed(s, o, t), t \in Wanted(o), t \notin had[o]
    PROVE  s.cmp[o].ended
<1> SUFFICES ASSUME ~s.cmp[o].ended PROVE FALSE
  OBVIOUS
<1>1. o \in All
  BY SceneIs
<1>2. ~(t < FirstRow(o))
  <2>1. PICK i \in 1 .. Len(Member(o).rows) : t = Member(o).rows[i]
    BY DEF Wanted, RowsOf
  <2>2. /\ Len(Member(o).rows) \in Nat \ {0}
        /\ \A j \in 1 .. Len(Member(o).rows) : Member(o).rows[j] \in Nat
        /\ \A j, k \in 1 .. Len(Member(o).rows) : j < k => Member(o).rows[j] < Member(o).rows[k]
    BY <1>1, SourceIs
  <2>3. 1 \in 1 .. Len(Member(o).rows) /\ (i = 1 \/ 1 < i)
    BY <2>1, <2>2
  <2>4. Member(o).rows[1] \in Nat /\ (t = Member(o).rows[1] \/ Member(o).rows[1] < t)
    BY <2>1, <2>2, <2>3
  <2> QED  BY <2>4 DEF FirstRow
<1>3. s.cmp[o].last # NoTime /\ s.cmp[o].last > t
  BY <1>2 DEF Passed
<1>4. s.cmp[o].last \in had[o]
  BY <1>3 DEF Compared
<1>5. s.cmp[o].last \in Nat
  BY <1>4 DEF Progress
<1>6. t \in had[o]
  BY <1>3, <1>4, <1>5 DEF Progress
<1> QED  BY <1>6

\* Only rows held are forgotten: those every other source has read past.
LEMMA ForgetIs ==
    ASSUME NEW s, Stage(s)
    PROVE  /\ Stage(Forget(s))
           /\ Forget(s).found = s.found /\ Forget(s).early = s.early
           /\ Forget(s).resumed = s.resumed
           /\ \A m \in Combined :
                 /\ Forget(s).cmp[m].last = s.cmp[m].last
                 /\ Forget(s).cmp[m].ended = s.cmp[m].ended
                 /\ Forget(s).cmp[m].held = {t \in s.cmp[m].held : \E x \in s.cmp[m].held :
                       x <= t /\ \E o \in Combined \ {m} : ~Passed(s, o, x)}
<1> DEFINE H(m) == {t \in s.cmp[m].held : \E x \in s.cmp[m].held :
                       x <= t /\ \E o \in Combined \ {m} : ~Passed(s, o, x)}
           c == [m \in Combined |-> [s.cmp[m] EXCEPT !.held = H(m)]]
           q == Forget(s)
<1>1. q = [s EXCEPT !.cmp = c]
  BY DEF Forget
<1>2. \A m \in Combined : s.cmp[m] \in [held : SUBSET Nat, last : Nat \cup {NoTime}, ended : BOOLEAN]
  BY DEF Stage
<1>3. \A m \in Combined : H(m) \in SUBSET Nat
  BY <1>2
<1> HIDE DEF H
<1>4. /\ c \in [Combined -> [held : SUBSET Nat, last : Nat \cup {NoTime}, ended : BOOLEAN]]
      /\ \A m \in Combined : /\ c[m].last = s.cmp[m].last /\ c[m].ended = s.cmp[m].ended
                             /\ c[m].held = H(m)
  BY <1>2, <1>3
<1> HIDE DEF c
<1>5. q = [rates |-> s.rates, tracks |-> s.tracks, pending |-> s.pending, cmp |-> c,
           found |-> s.found, points |-> s.points, early |-> s.early, resumed |-> s.resumed]
  BY <1>1 DEF Stage
<1> HIDE DEF q
<1>6. q.cmp = c /\ q.found = s.found /\ q.early = s.early /\ q.resumed = s.resumed
  BY <1>5
<1>7. Stage(q)
  BY <1>4, <1>5 DEF Stage
<1> QED  BY <1>4, <1>6, <1>7 DEF H, q

LEMMA ForgetKeeps ==
    ASSUME scene \in Scenes, NEW s, Stage(s), NEW had, Progress(had), Compared(s, had)
    PROVE  Compared(Forget(s), had) /\ Ended(Forget(s)) = Ended(s)
<1> DEFINE q == Forget(s)
<1>1. /\ q.found = s.found
      /\ \A m \in Combined :
            /\ q.cmp[m].last = s.cmp[m].last /\ q.cmp[m].ended = s.cmp[m].ended
            /\ q.cmp[m].held = {t \in s.cmp[m].held : \E x \in s.cmp[m].held :
                  x <= t /\ \E o \in Combined \ {m} : ~Passed(s, o, x)}
  BY ForgetIs
<1> HIDE DEF q
<1>2. ASSUME NEW m \in Combined, NEW o \in Combined, m # o PROVE BothRead(q, had, m, o)
  <2> SUFFICES ASSUME NEW t \in had[m]
               PROVE /\ t \in had[o] /\ t \in scene.differs => <<{m, o}, t>> \in q.found
                     /\ t \in Wanted(o) /\ t \notin had[o] /\ ~q.cmp[o].ended => t \in q.cmp[m].held
    BY DEF BothRead
  <2>1. BothRead(s, had, m, o)
    BY <1>2 DEF Compared
  <2>2. t \in had[o] /\ t \in scene.differs => <<{m, o}, t>> \in q.found
    BY <1>1, <2>1 DEF BothRead
  <2>3. ASSUME t \in Wanted(o), t \notin had[o], ~q.cmp[o].ended PROVE t \in q.cmp[m].held
    <3>1. t \in Nat
      BY DEF Progress
    <3>2. ~s.cmp[o].ended
      BY <1>1, <2>3
    <3>3. t \in s.cmp[m].held
      BY <2>1, <2>3, <3>2 DEF BothRead
    <3>4. ~Passed(s, o, t)
      BY <2>3, <3>1, <3>2, PassedIsOver
    <3>5. t <= t
      BY <3>1
    <3> QED  BY <1>1, <1>2, <3>3, <3>4, <3>5
  <2> QED  BY <2>2, <2>3
<1>3. \A m \in Combined : q.cmp[m].held \subseteq had[m]
  BY <1>1 DEF Compared
<1>4. \A m \in Combined : q.cmp[m].last = NoTime \/ q.cmp[m].last \in had[m]
  BY <1>1 DEF Compared
<1>5. \A c \in q.found : Conflict(c, had)
  BY <1>1 DEF Compared
<1>6. Ended(q) = Ended(s)
  BY <1>1 DEF Ended
<1>7. Compared(q, had)
  BY <1>2, <1>3, <1>4, <1>5 DEF Compared
<1> QED  BY <1>6, <1>7 DEF q

\* The steps that are not about the comparison.
LEMMA EmittedIs ==
    ASSUME NEW s, Stage(s), NEW m, NEW rate
    PROVE  Stage(Emitted(s, m, rate)) /\ SameCompare(s, Emitted(s, m, rate))
<1> DEFINE q == [s EXCEPT !.rates[m] = [rate EXCEPT !.out = <<>>]]
<1>1. /\ q = [rates |-> q.rates, tracks |-> s.tracks, pending |-> s.pending, cmp |-> s.cmp,
              found |-> s.found, points |-> s.points, early |-> s.early, resumed |-> s.resumed]
  BY DEF Stage
<1>2. Emitted(s, m, rate) =
         IF m \in Combined THEN [q EXCEPT !.pending[m] = @ \o rate.out]
         ELSE [q EXCEPT !.points = @ \o [i \in DOMAIN rate.out |->
                  [unit |-> m, index |-> rate.out[i].index, by |-> m,
                   point |-> rate.out[i].point]]]
  BY DEF Emitted
<1> HIDE DEF q
<1>3. CASE m \in Combined
  <2> DEFINE p == [q.pending EXCEPT ![m] = @ \o rate.out]
  <2>1. Emitted(s, m, rate) = [q EXCEPT !.pending = p]
    BY <1>2, <1>3
  <2> HIDE DEF p
  <2>2. Emitted(s, m, rate) =
           [rates |-> q.rates, tracks |-> s.tracks, pending |-> p, cmp |-> s.cmp,
              found |-> s.found, points |-> s.points, early |-> s.early, resumed |-> s.resumed]
    BY <1>1, <2>1
  <2> QED  BY <2>2 DEF Stage, SameCompare
<1>4. CASE m \notin Combined
  <2> DEFINE p == q.points \o [i \in DOMAIN rate.out |->
                  [unit |-> m, index |-> rate.out[i].index, by |-> m,
                   point |-> rate.out[i].point]]
  <2>1. Emitted(s, m, rate) = [q EXCEPT !.points = p]
    BY <1>2, <1>4
  <2> HIDE DEF p
  <2>2. Emitted(s, m, rate) =
           [rates |-> q.rates, tracks |-> s.tracks, pending |-> s.pending, cmp |-> s.cmp,
              found |-> s.found, points |-> p, early |-> s.early, resumed |-> s.resumed]
    BY <1>1, <2>1
  <2> QED  BY <2>2 DEF Stage, SameCompare
<1> QED  BY <1>3, <1>4

\* A member's end leaves the comparison right.
LEMMA EndScanIs ==
    ASSUME scene \in Scenes, NEW s, Stage(s), NEW m \in All, NEW had, Progress(had)
    PROVE  /\ Stage(EndScan(s, m))
           /\ EndScan(s, m).early = s.early /\ EndScan(s, m).resumed = s.resumed
           /\ Ended(EndScan(s, m)) \subseteq Ended(s) \cup {m}
           /\ Compared(s, had) => Compared(EndScan(s, m), had)
<1> DEFINE e == Emitted(s, m, FinishRate(s.rates[m], GridOf(m)))
<1>1. Stage(e) /\ SameCompare(s, e)
  BY EmittedIs
<1>2. EndScan(s, m) = EndMember(e, m)
  BY DEF EndScan
<1> HIDE DEF e
<1>3. Ended(e) = Ended(s) /\ e.early = s.early /\ e.resumed = s.resumed
  BY <1>1 DEF SameCompare, Ended
<1>4. Compared(s, had) => Compared(e, had)
  BY <1>1, ComparedAsBefore
<1>5. CASE m \notin Combined
  <2>1. EndMember(e, m) = e
    BY <1>5 DEF EndMember
  <2> QED  BY <1>1, <1>2, <1>3, <1>4, <2>1
<1>6. CASE m \in Combined
  <2> DEFINE c == [e.cmp EXCEPT ![m] = [@ EXCEPT !.ended = TRUE]]
             k == [e.tracks EXCEPT ![m] = FinishTrack(@)]
             q == [e EXCEPT !.tracks = k, !.cmp = c]
  <2>1. EndMember(e, m) = Forget(q)
    BY <1>6 DEF EndMember
  <2>2. /\ c \in [Combined -> [held : SUBSET Nat, last : Nat \cup {NoTime}, ended : BOOLEAN]]
        /\ \A o \in Combined : /\ c[o].held = e.cmp[o].held /\ c[o].last = e.cmp[o].last
                               /\ c[o].ended = (e.cmp[o].ended \/ o = m)
    <3>1. e.cmp \in [Combined -> [held : SUBSET Nat, last : Nat \cup {NoTime}, ended : BOOLEAN]]
      BY <1>1 DEF Stage
    <3>2. c \in [Combined -> [held : SUBSET Nat, last : Nat \cup {NoTime}, ended : BOOLEAN]]
      BY <1>6, <3>1
    <3>3. \A o \in Combined \ {m} : c[o] = e.cmp[o] /\ e.cmp[o].ended \in BOOLEAN
      BY <3>1
    <3>4. c[m].held = e.cmp[m].held /\ c[m].last = e.cmp[m].last /\ c[m].ended = TRUE
      BY <1>6, <3>1
    <3> HIDE DEF c
    <3>5. \A o \in Combined : c[o].held = e.cmp[o].held /\ c[o].last = e.cmp[o].last
      BY <3>3, <3>4
    <3>6. \A o \in Combined : c[o].ended = (e.cmp[o].ended \/ o = m)
      BY <3>3, <3>4
    <3> QED  BY <3>2, <3>5, <3>6
  <2> HIDE DEF c, k
  <2>3. q = [rates |-> e.rates, tracks |-> k, pending |-> e.pending, cmp |-> c,
             found |-> e.found, points |-> e.points, early |-> e.early, resumed |-> e.resumed]
    <3> DEFINE p == [e EXCEPT !.tracks = k]
    <3>1. q = [p EXCEPT !.cmp = c]
      OBVIOUS
    <3>2. p = [rates |-> e.rates, tracks |-> k, pending |-> e.pending, cmp |-> e.cmp,
               found |-> e.found, points |-> e.points, early |-> e.early, resumed |-> e.resumed]
      BY <1>1 DEF Stage
    <3> HIDE DEF p, q
    <3> QED  BY <3>1, <3>2
  <2> HIDE DEF q
  <2>4. Stage(q) /\ q.cmp = c /\ q.found = e.found /\ q.early = e.early /\ q.resumed = e.resumed
    BY <1>1, <2>2, <2>3 DEF Stage
  <2>5. Ended(q) = Ended(e) \cup {m}
    BY <1>6, <2>2, <2>4 DEF Ended
  <2>6. ASSUME Compared(e, had) PROVE Compared(q, had)
    BY <2>2, <2>4, <2>6 DEF Compared, BothRead
  <2>7. /\ Stage(Forget(q)) /\ Forget(q).early = q.early /\ Forget(q).resumed = q.resumed
        /\ Ended(Forget(q)) = Ended(q)
    BY <2>4, ForgetIs DEF Ended
  <2>8. Compared(q, had) => Compared(Forget(q), had)
    BY <2>4, ForgetKeeps
  <2> QED  BY <1>2, <1>3, <1>4, <2>1, <2>4, <2>5, <2>6, <2>7, <2>8
<1> QED  BY <1>5, <1>6

\* The rows read of one member more.
With(had, m, S) == [o \in Combined |-> IF o = m THEN had[o] \cup S ELSE had[o]]

\* A row is compared with what the others hold, and held while one can
\* still read a row at its time.
LEMMA CompareRowIs ==
    ASSUME scene \in Scenes, NEW s, Stage(s), NEW had, Progress(had),
           NEW m \in Combined, NEW t \in Nat, NEW hath, hath = With(had, m, {t}), Progress(hath)
    PROVE  /\ Stage(CompareRow(s, m, t))
           /\ CompareRow(s, m, t).early = s.early /\ CompareRow(s, m, t).resumed = s.resumed
           /\ Ended(CompareRow(s, m, t)) = Ended(s)
           /\ Compared(s, had) /\ t \in Wanted(m) /\ t \notin had[m] /\ ~s.cmp[m].ended
                 => Compared(CompareRow(s, m, t), hath)
<1> DEFINE others == Combined \ {m}
           new == {<<{m, o}, t>> : o \in {x \in others : t \in s.cmp[x].held /\ t \in scene.differs}}
           c == [s.cmp EXCEPT ![m] = [s.cmp[m] EXCEPT !.last = t]]
           q == [s EXCEPT !.found = s.found \cup new, !.cmp = c]
           d == [q.cmp EXCEPT ![m] = [q.cmp[m] EXCEPT !.held = q.cmp[m].held \cup {t}]]
           open == \E o \in others : ~Passed(q, o, t)
           w == IF open THEN [q EXCEPT !.cmp = d] ELSE q
<1>1. CompareRow(s, m, t) = Forget(w)
  <2> DEFINE p == [s EXCEPT !.found = s.found \cup new, !.cmp[m].last = t]
             v == IF \E o \in others : ~Passed(p, o, t)
                  THEN [p EXCEPT !.cmp[m].held = p.cmp[m].held \cup {t}] ELSE p
  <2>1. CompareRow(s, m, t) = Forget(v)
    BY DEF CompareRow
  <2>2. p = q
    OBVIOUS
  <2>3. [q EXCEPT !.cmp[m].held = q.cmp[m].held \cup {t}] = [q EXCEPT !.cmp = d]
    <3> HIDE DEF q
    <3> QED  OBVIOUS
  <2> HIDE DEF p, q
  <2>4. v = w
    BY <2>2, <2>3
  <2> QED  BY <2>1, <2>4
<1>2. /\ c \in [Combined -> [held : SUBSET Nat, last : Nat \cup {NoTime}, ended : BOOLEAN]]
      /\ \A o \in others : c[o] = s.cmp[o]
      /\ c[m].held = s.cmp[m].held /\ c[m].last = t /\ c[m].ended = s.cmp[m].ended
  BY DEF Stage
<1>3. had \in [Combined -> SUBSET Nat] /\ hath[m] = had[m] \cup {t} /\ \A o \in others : hath[o] = had[o]
  BY DEF Progress, With
<1> HIDE DEF c, new
<1>4. q = [rates |-> s.rates, tracks |-> s.tracks, pending |-> s.pending, cmp |-> c,
           found |-> s.found \cup new, points |-> s.points, early |-> s.early, resumed |-> s.resumed]
  <2> DEFINE f == s.found \cup new
             p == [s EXCEPT !.found = f]
  <2>1. q = [p EXCEPT !.cmp = c]
    OBVIOUS
  <2> HIDE DEF f
  <2>2. p = [rates |-> s.rates, tracks |-> s.tracks, pending |-> s.pending, cmp |-> s.cmp,
             found |-> f, points |-> s.points, early |-> s.early, resumed |-> s.resumed]
    BY DEF Stage
  <2> HIDE DEF p, q
  <2>3. q = [rates |-> s.rates, tracks |-> s.tracks, pending |-> s.pending, cmp |-> c,
             found |-> f, points |-> s.points, early |-> s.early, resumed |-> s.resumed]
    BY <2>1, <2>2
  <2> QED  BY <2>3 DEF f
<1> HIDE DEF q
<1>5. q.cmp = c /\ q.found = s.found \cup new /\ q.early = s.early /\ q.resumed = s.resumed
  BY <1>4
<1>6. /\ d \in [Combined -> [held : SUBSET Nat, last : Nat \cup {NoTime}, ended : BOOLEAN]]
      /\ \A o \in others : d[o] = s.cmp[o]
      /\ d[m].held = s.cmp[m].held \cup {t} /\ d[m].last = t /\ d[m].ended = s.cmp[m].ended
  <2> DEFINE h == s.cmp[m].held \cup {t}
             b == [c EXCEPT ![m] = [c[m] EXCEPT !.held = h]]
  <2>1. d = b
    BY <1>2, <1>5
  <2>2. h \in SUBSET Nat /\ c[m] \in [held : SUBSET Nat, last : Nat \cup {NoTime}, ended : BOOLEAN]
    BY <1>2
  <2> HIDE DEF h, d
  <2>3. /\ b \in [Combined -> [held : SUBSET Nat, last : Nat \cup {NoTime}, ended : BOOLEAN]]
        /\ \A o \in others : b[o] = c[o]
        /\ b[m].held = h /\ b[m].last = c[m].last /\ b[m].ended = c[m].ended
    BY <1>2, <2>2
  <2> HIDE DEF b
  <2> QED  BY <1>2, <2>1, <2>3 DEF h
<1> HIDE DEF d, open
<1>7. /\ w.found = s.found \cup new /\ w.early = s.early /\ w.resumed = s.resumed
      /\ w = [rates |-> s.rates, tracks |-> s.tracks, pending |-> s.pending,
              cmp |-> IF open THEN d ELSE c, found |-> s.found \cup new, points |-> s.points,
              early |-> s.early, resumed |-> s.resumed]
      /\ w.cmp = IF open THEN d ELSE c
  <2>1. CASE open
    BY <1>4, <2>1
  <2>2. CASE ~open
    BY <1>4, <1>5, <2>2
  <2> QED  BY <2>1, <2>2
<1> HIDE DEF w
<1>8. /\ \A o \in others : w.cmp[o] = s.cmp[o]
      /\ w.cmp[m].last = t /\ w.cmp[m].ended = s.cmp[m].ended
      /\ w.cmp[m].held = IF open THEN s.cmp[m].held \cup {t} ELSE s.cmp[m].held
      /\ w.cmp \in [Combined -> [held : SUBSET Nat, last : Nat \cup {NoTime}, ended : BOOLEAN]]
  BY <1>2, <1>6, <1>7
<1>9. Stage(w)
  BY <1>7, <1>8 DEF Stage
<1>10. Ended(w) = Ended(s)
  BY <1>8 DEF Ended
<1>11. /\ Stage(Forget(w)) /\ Forget(w).early = w.early /\ Forget(w).resumed = w.resumed
      /\ Ended(Forget(w)) = Ended(w)
  BY <1>9, ForgetIs DEF Ended
<1>12. ASSUME Compared(s, had), t \in Wanted(m), t \notin had[m], ~s.cmp[m].ended
       PROVE  Compared(Forget(w), hath)
  \* Nothing the others can still read is forgotten at once.
  <2>1. ASSUME NEW o \in others, ~open PROVE t \in Wanted(o) /\ t \notin had[o] => s.cmp[o].ended
    <3>1. Passed(q, o, t)
      BY <2>1 DEF open
    <3>2. q.cmp[o] = s.cmp[o]
      BY <1>2, <1>5
    <3>3. Passed(s, o, t)
      BY <3>1, <3>2 DEF Passed
    <3> QED  BY <1>12, <3>3, PassedIsOver
  \* Of the others, what was read at that time is held: this member could
  \* still read it.
  <2>2. ASSUME NEW o \in others, t \in had[o] PROVE t \in s.cmp[o].held
    <3>1. BothRead(s, had, o, m)
      BY <1>12 DEF Compared
    <3> QED  BY <1>12, <2>2, <3>1 DEF BothRead
  <2>3. ASSUME NEW o \in others PROVE BothRead(w, hath, m, o) /\ BothRead(w, hath, o, m)
    <3>1. BothRead(s, had, m, o) /\ BothRead(s, had, o, m)
      BY <1>12 DEF Compared
    <3>2. hath[m] = had[m] \cup {t} /\ hath[o] = had[o]
      BY <1>3
    <3>3. w.cmp[o] = s.cmp[o] /\ w.cmp[m].ended = s.cmp[m].ended /\ s.cmp[m].held \subseteq w.cmp[m].held
          /\ (open => t \in w.cmp[m].held) /\ s.found \subseteq w.found
      BY <1>7, <1>8
    <3>4. t \in had[o] /\ t \in scene.differs => <<{m, o}, t>> \in w.found
      BY <1>7, <2>2 DEF new
    <3>5. <<{o, m}, t>> = <<{m, o}, t>>
      BY {o, m} = {m, o}
    <3>6. BothRead(w, hath, m, o)
      <4> SUFFICES ASSUME NEW x \in hath[m]
                   PROVE  /\ x \in hath[o] /\ x \in scene.differs => <<{m, o}, x>> \in w.found
                          /\ x \in Wanted(o) /\ x \notin hath[o] /\ ~w.cmp[o].ended => x \in w.cmp[m].held
        BY DEF BothRead
      <4>1. CASE x \in had[m]
        BY <3>1, <3>2, <3>3, <4>1 DEF BothRead
      <4>2. CASE x = t
        BY <2>1, <3>2, <3>3, <3>4, <4>2
      <4> QED  BY <3>2, <4>1, <4>2
    <3>7. BothRead(w, hath, o, m)
      <4> SUFFICES ASSUME NEW x \in hath[o]
                   PROVE  /\ x \in hath[m] /\ x \in scene.differs => <<{o, m}, x>> \in w.found
                          /\ x \in Wanted(m) /\ x \notin hath[m] /\ ~w.cmp[m].ended => x \in w.cmp[o].held
        BY DEF BothRead
      <4>1. x \in had[m] /\ x \in scene.differs => <<{o, m}, x>> \in w.found
        BY <3>1, <3>2, <3>3 DEF BothRead
      <4>2. x = t /\ x \in scene.differs => <<{o, m}, x>> \in w.found
        BY <3>2, <3>4, <3>5
      <4>3. x \in Wanted(m) /\ x \notin hath[m] /\ ~w.cmp[m].ended => x \in w.cmp[o].held
        BY <3>1, <3>2, <3>3 DEF BothRead
      <4> QED  BY <3>2, <4>1, <4>2, <4>3
    <3> QED  BY <3>6, <3>7
  <2>4. ASSUME NEW o \in others, NEW p \in others, o # p PROVE BothRead(w, hath, o, p)
    <3>1. BothRead(s, had, o, p)
      BY <1>12, <2>4 DEF Compared
    <3>2. w.cmp[o] = s.cmp[o] /\ w.cmp[p] = s.cmp[p] /\ s.found \subseteq w.found
          /\ hath[o] = had[o] /\ hath[p] = had[p]
      BY <1>3, <1>7, <1>8
    <3> QED  BY <3>1, <3>2 DEF BothRead
  <2>5. \A o \in Combined : had[o] \subseteq hath[o]
    BY <1>3
  <2>6. ASSUME NEW x \in w.found PROVE Conflict(x, hath)
    <3>1. CASE x \in s.found
      <4>1. Conflict(x, had)
        BY <1>12, <3>1 DEF Compared
      <4> QED  BY <2>5, <4>1 DEF Conflict
    <3>2. CASE x \in new
      <4>1. PICK o \in others : x = <<{m, o}, t>> /\ t \in s.cmp[o].held /\ t \in scene.differs
        BY <3>2 DEF new
      <4>2. t \in had[o]
        BY <1>12, <4>1 DEF Compared
      <4>3. t \in hath[m] /\ t \in hath[o]
        BY <1>3, <4>2
      <4> QED  BY <4>1, <4>3 DEF Conflict
    <3> QED  BY <1>7, <3>1, <3>2
  <2>7. /\ \A o \in Combined : w.cmp[o].held \subseteq hath[o]
        /\ \A o \in Combined : w.cmp[o].last = NoTime \/ w.cmp[o].last \in hath[o]
    <3>1. ASSUME NEW o \in Combined PROVE w.cmp[o].held \subseteq hath[o]
      <4>1. s.cmp[o].held \subseteq had[o]
        BY <1>12 DEF Compared
      <4>2. CASE o = m
        BY <1>3, <1>8, <4>1, <4>2
      <4>3. CASE o # m
        BY <1>3, <1>8, <4>1, <4>3
      <4> QED  BY <4>2, <4>3
    <3>2. ASSUME NEW o \in Combined PROVE w.cmp[o].last = NoTime \/ w.cmp[o].last \in hath[o]
      <4>1. s.cmp[o].last = NoTime \/ s.cmp[o].last \in had[o]
        BY <1>12 DEF Compared
      <4>2. CASE o = m
        BY <1>3, <1>8, <4>2
      <4>3. CASE o # m
        BY <1>3, <1>8, <4>1, <4>3
      <4> QED  BY <4>2, <4>3
    <3> QED  BY <3>1, <3>2
  <2>8. Compared(w, hath)
    <3>1. ASSUME NEW o \in Combined, NEW p \in Combined, o # p PROVE BothRead(w, hath, o, p)
      BY <2>3, <2>4, <3>1
    <3>2. \A x \in w.found : Conflict(x, hath)
      BY <2>6
    <3>5. \A o, p \in Combined : o # p => BothRead(w, hath, o, p)
      BY <3>1
    <3> HIDE DEF w
    <3> QED  BY <2>7, <3>2, <3>5 DEF Compared
  <2> QED  BY <1>9, <2>8, ForgetKeeps
<1> QED  BY <1>1, <1>7, <1>10, <1>11, <1>12
LEMMA TracksIs ==
    ASSUME NEW s, Stage(s), NEW k
    PROVE  Stage([s EXCEPT !.tracks = k]) /\ SameCompare(s, [s EXCEPT !.tracks = k])
<1> DEFINE q == [s EXCEPT !.tracks = k]
<1>1. q = [rates |-> s.rates, tracks |-> k, pending |-> s.pending, cmp |-> s.cmp,
           found |-> s.found, points |-> s.points, early |-> s.early, resumed |-> s.resumed]
  BY DEF Stage
<1> HIDE DEF q
<1>2. Stage(q) /\ SameCompare(s, q)
  BY <1>1 DEF Stage, SameCompare
<1> QED  BY <1>2 DEF q

LEMMA ResumedIs ==
    ASSUME NEW s, Stage(s)
    PROVE  /\ Stage([s EXCEPT !.resumed = TRUE]) /\ [s EXCEPT !.resumed = TRUE].resumed = TRUE
           /\ [s EXCEPT !.resumed = TRUE].early = s.early
           /\ Ended([s EXCEPT !.resumed = TRUE]) = Ended(s)
<1> DEFINE u == TRUE
           q == [s EXCEPT !.resumed = u]
<1> HIDE DEF u
<1>1. q = [rates |-> s.rates, tracks |-> s.tracks, pending |-> s.pending, cmp |-> s.cmp,
           found |-> s.found, points |-> s.points, early |-> s.early, resumed |-> u]
  BY DEF Stage
<1> HIDE DEF q
<1>2. Stage(q) /\ q.resumed = TRUE /\ q.early = s.early /\ q.cmp = s.cmp
  BY <1>1 DEF Stage, u
<1>3. Ended(q) = Ended(s)
  BY <1>2 DEF Ended
<1> QED  BY <1>2, <1>3 DEF q, u

LEMMA WithIs ==
    ASSUME NEW had, had \in [Combined -> SUBSET Nat], NEW m, NEW S, m \notin Combined \/ S = {}
    PROVE  With(had, m, S) = had
  BY DEF With

\* A row: unless it is of a member that has ended as silent, it is compared.
LEMMA TakeRowIs ==
    ASSUME scene \in Scenes, NEW s, Stage(s), NEW had, Progress(had),
           NEW m \in All, NEW t \in Nat, Progress(With(had, m, {t} \cap Wanted(m))),
           t \in RowsOf(m)
    PROVE  /\ Stage(TakeRow(m, s, t)) /\ TakeRow(m, s, t).early = s.early
           /\ Ended(TakeRow(m, s, t)) = Ended(s)
           /\ s.resumed => TakeRow(m, s, t).resumed
           /\ /\ Compared(s, had) /\ ~TakeRow(m, s, t).resumed
              /\ m \in Combined => t \notin had[m] /\ (m \in s.early \/ ~s.cmp[m].ended)
              => Compared(TakeRow(m, s, t), With(had, m, {t} \cap Wanted(m)))
<1> DEFINE tracked == IF m \in Combined THEN [s EXCEPT !.tracks[m] = PushRow(@, t)] ELSE s
           wanted  == DataStart(m) <= t /\ t <= scene.grid.end
           seen    == IF m \in Combined THEN CompareRow(tracked, m, t) ELSE tracked
           q       == TakeRow(m, s, t)
           hath    == With(had, m, {t} \cap Wanted(m))
<1>1. q = IF m \in s.early
          THEN [s EXCEPT !.resumed = TRUE]
          ELSE IF wanted THEN Emitted(seen, m, Push(s.rates[m], GridOf(m), t)) ELSE tracked
  BY DEF TakeRow
<1>2. Stage(tracked) /\ SameCompare(s, tracked)
  <2>1. CASE m \in Combined
    <3> DEFINE k == [s.tracks EXCEPT ![m] = PushRow(@, t)]
    <3>1. tracked = [s EXCEPT !.tracks = k]
      BY <2>1
    <3> HIDE DEF k, tracked
    <3> QED  BY <3>1, TracksIs
  <2>2. CASE m \notin Combined
    BY <2>2 DEF SameCompare
  <2> QED  BY <2>1, <2>2
<1>3. had \in [Combined -> SUBSET Nat]
  BY DEF Progress
<1>4. wanted <=> t \in Wanted(m)
  BY DEF Wanted
<1>5. Progress(hath)
  OBVIOUS
<1>6. Ended(tracked) = Ended(s) /\ (Compared(s, had) => Compared(tracked, had))
      /\ tracked.early = s.early /\ tracked.resumed = s.resumed /\ tracked.cmp = s.cmp
  <2> HIDE DEF tracked
  <2>1. Compared(s, had) => Compared(tracked, had)
    BY <1>2, ComparedAsBefore
  <2> QED  BY <1>2, <2>1 DEF SameCompare, Ended
<1> HIDE DEF tracked, q, hath
<1>7. CASE m \in s.early
  <2>1. q = [s EXCEPT !.resumed = TRUE]
    BY <1>1, <1>7
  <2> QED  BY <2>1, ResumedIs DEF q
<1>8. CASE m \notin s.early /\ ~wanted
  <2>1. q = tracked
    BY <1>1, <1>8
  <2>2. hath = had
    <3>1. {t} \cap Wanted(m) = {}
      BY <1>4, <1>8
    <3> QED  BY <1>3, <3>1, WithIs DEF hath
  <2> QED  BY <1>2, <1>6, <2>1, <2>2 DEF q, hath
<1>9. CASE m \notin s.early /\ wanted
  <2>1. q = Emitted(seen, m, Push(s.rates[m], GridOf(m), t))
    BY <1>1, <1>9
  <2>2. {t} \cap Wanted(m) = {t}
    BY <1>4, <1>9
  <2>3. /\ Stage(seen) /\ seen.early = s.early /\ seen.resumed = s.resumed
        /\ Ended(seen) = Ended(s)
        /\ Compared(s, had) /\ (m \in Combined => t \notin had[m] /\ ~s.cmp[m].ended)
              => Compared(seen, hath)
    <3>1. CASE m \notin Combined
      <4>1. hath = had
        BY <1>3, <3>1, WithIs DEF hath
      <4> QED  BY <1>2, <1>6, <3>1, <4>1
    <3>2. CASE m \in Combined
      <4>1. hath = With(had, m, {t})
        BY <2>2 DEF hath
      <4>2. seen = CompareRow(tracked, m, t)
        BY <3>2
      <4> HIDE DEF seen
      <4>3. /\ Stage(seen) /\ seen.early = tracked.early /\ seen.resumed = tracked.resumed
            /\ Ended(seen) = Ended(tracked)
            /\ Compared(tracked, had) /\ t \in Wanted(m) /\ t \notin had[m] /\ ~tracked.cmp[m].ended
                  => Compared(seen, hath)
        <5>1. Stage(tracked)
          BY <1>2
        <5> HIDE DEF tracked
        <5>2. /\ Stage(CompareRow(tracked, m, t))
              /\ CompareRow(tracked, m, t).early = tracked.early
              /\ CompareRow(tracked, m, t).resumed = tracked.resumed
              /\ Ended(CompareRow(tracked, m, t)) = Ended(tracked)
              /\ Compared(tracked, had) /\ t \in Wanted(m) /\ t \notin had[m] /\ ~tracked.cmp[m].ended
                    => Compared(CompareRow(tracked, m, t), hath)
          BY <1>5, <3>2, <4>1, <5>1, CompareRowIs
        <5> QED  BY <4>2, <5>2
      <4> QED  BY <1>4, <1>6, <1>9, <3>2, <4>3
    <3> QED  BY <3>1, <3>2
  <2> HIDE DEF seen
  <2>4. Stage(q) /\ SameCompare(seen, q)
    BY <2>1, <2>3, EmittedIs
  <2>5. Compared(seen, hath) => Compared(q, hath)
    BY <2>4, ComparedAsBefore
  <2>6. Ended(q) = Ended(seen) /\ q.early = seen.early /\ q.resumed = seen.resumed
    BY <2>4 DEF SameCompare, Ended
  <2> QED  BY <1>9, <2>3, <2>4, <2>5, <2>6 DEF q, hath
<1> QED  BY <1>7, <1>8, <1>9

LEMMA PointsIs ==
    ASSUME NEW s, Stage(s), NEW a, NEW b, NEW c
    PROVE  LET q == [s EXCEPT !.points = a, !.pending = b, !.tracks = c]
           IN Stage(q) /\ SameCompare(s, q)
<1> DEFINE q1 == [s EXCEPT !.points = a]
           q2 == [q1 EXCEPT !.pending = b]
           q  == [q2 EXCEPT !.tracks = c]
<1>1. [s EXCEPT !.points = a, !.pending = b, !.tracks = c] = q
  OBVIOUS
<1>2. q1 = [rates |-> s.rates, tracks |-> s.tracks, pending |-> s.pending, cmp |-> s.cmp,
            found |-> s.found, points |-> a, early |-> s.early, resumed |-> s.resumed]
  BY DEF Stage
<1> HIDE DEF q1
<1>3. q2 = [rates |-> s.rates, tracks |-> s.tracks, pending |-> b, cmp |-> s.cmp,
            found |-> s.found, points |-> a, early |-> s.early, resumed |-> s.resumed]
  BY <1>2
<1> HIDE DEF q2
<1>4. q = [rates |-> s.rates, tracks |-> c, pending |-> b, cmp |-> s.cmp,
            found |-> s.found, points |-> a, early |-> s.early, resumed |-> s.resumed]
  BY <1>3
<1> HIDE DEF q
<1>5. Stage(q) /\ SameCompare(s, q)
  BY <1>4 DEF Stage, SameCompare
<1> QED  BY <1>1, <1>5

\* Settling a point, and all of them, is not about the comparison.
LEMMA SettleAtIs ==
    ASSUME NEW s, Stage(s), NEW t
    PROVE  Stage(SettleAt(s, t)) /\ SameCompare(s, SettleAt(s, t))
<1>1. SettleAt(s, t) = s \/ \E a, b, c : SettleAt(s, t) = [s EXCEPT !.points = a, !.pending = b, !.tracks = c]
  BY DEF SettleAt
<1>2. SameCompare(s, s)
  BY DEF SameCompare
<1>3. ASSUME NEW a, NEW b, NEW c, SettleAt(s, t) = [s EXCEPT !.points = a, !.pending = b, !.tracks = c]
      PROVE  Stage(SettleAt(s, t)) /\ SameCompare(s, SettleAt(s, t))
  <2> DEFINE q == [s EXCEPT !.points = a, !.pending = b, !.tracks = c]
  <2>1. Stage(q) /\ SameCompare(s, q)
    BY PointsIs
  <2> HIDE DEF q
  <2>2. SettleAt(s, t) = q
    BY <1>3 DEF q
  <2> QED  BY <2>1, <2>2
<1> QED  BY <1>1, <1>2, <1>3

LEMMA SettleAllKeeps ==
    ASSUME scene \in Scenes, NEW s, Stage(s)
    PROVE  Stage(SettleAll(s)) /\ SameCompare(s, SettleAll(s))
<1> DEFINE L == Len(Ticks(scene.grid))
           S == {n \in 0 .. L : TRUE}
<1>1. L \in Nat
  BY GridIs
<1>2. PICK f : /\ f[0] = s /\ SettleAll(s) = f[L]
               /\ \A n \in 1 .. L : f[n] = SettleAt(f[n - 1], Ticks(scene.grid)[n])
  BY <1>1, SettleAllIs
<1> DEFINE T == {n \in 0 .. L : Stage(f[n]) /\ SameCompare(s, f[n])}
<1> HIDE DEF L
<1>3. 0 \in T
  BY <1>1, <1>2 DEF SameCompare
<1>4. ASSUME NEW n \in Nat, n < L, n \in T PROVE n + 1 \in T
  <2>1. n + 1 \in 1 .. L /\ (n + 1) - 1 = n /\ n + 1 \in 0 .. L
    BY <1>1, <1>4
  <2>2. f[n + 1] = SettleAt(f[n], Ticks(scene.grid)[n + 1])
    BY <1>2, <2>1
  <2>3. Stage(f[n]) /\ SameCompare(s, f[n])
    BY <1>4
  <2>4. Stage(f[n + 1]) /\ SameCompare(f[n], f[n + 1])
    BY <2>2, <2>3, SettleAtIs
  <2>5. SameCompare(s, f[n + 1])
    BY <2>3, <2>4 DEF SameCompare
  <2> QED  BY <2>1, <2>4, <2>5
<1> HIDE DEF T
<1>5. L \in T
  BY <1>1, <1>3, <1>4, UpTo
<1> QED  BY <1>2, <1>5 DEF T

LEMMA RatesFinishedKeeps ==
    ASSUME scene \in Scenes, NEW s, Stage(s)
    PROVE  Stage(RatesFinished(s)) /\ SameCompare(s, RatesFinished(s))
<1> DEFINE L == Scanned
<1>1. L \in Nat
  BY SceneIs
<1>2. PICK f : /\ f[0] = s /\ RatesFinished(s) = f[L]
               /\ \A n \in 1 .. L : f[n] = Emitted(f[n - 1], n, FinishRate(f[n - 1].rates[n], GridOf(n)))
  BY <1>1, RatesFinishedIs
<1> DEFINE T == {n \in 0 .. L : Stage(f[n]) /\ SameCompare(s, f[n])}
<1> HIDE DEF L
<1>3. 0 \in T
  BY <1>1, <1>2 DEF SameCompare
<1>4. ASSUME NEW n \in Nat, n < L, n \in T PROVE n + 1 \in T
  <2>1. n + 1 \in 1 .. L /\ (n + 1) - 1 = n /\ n + 1 \in 0 .. L
    BY <1>1, <1>4
  <2>2. f[n + 1] = Emitted(f[n], n + 1, FinishRate(f[n].rates[n + 1], GridOf(n + 1)))
    BY <1>2, <2>1
  <2>3. Stage(f[n]) /\ SameCompare(s, f[n])
    BY <1>4
  <2>4. Stage(f[n + 1]) /\ SameCompare(f[n], f[n + 1])
    BY <2>2, <2>3, EmittedIs
  <2>5. SameCompare(s, f[n + 1])
    BY <2>3, <2>4 DEF SameCompare
  <2> QED  BY <2>1, <2>4, <2>5
<1> HIDE DEF T
<1>5. L \in T
  BY <1>1, <1>3, <1>4, UpTo
<1> QED  BY <1>2, <1>5 DEF T

\* The scans that ended since the last chunk.
LEMMA EndScansKeeps ==
    ASSUME scene \in Scenes, NEW s, Stage(s), NEW had, Progress(had)
    PROVE  /\ Stage(EndScans(s))
           /\ EndScans(s).early = s.early /\ EndScans(s).resumed = s.resumed
           /\ Ended(EndScans(s)) \subseteq Ended(s) \cup closed
           /\ Compared(s, had) => Compared(EndScans(s), had)
<1> DEFINE L == Scanned
           Good(q) == /\ Stage(q) /\ q.early = s.early /\ q.resumed = s.resumed
                      /\ Ended(q) \subseteq Ended(s) \cup closed
                      /\ Compared(s, had) => Compared(q, had)
<1>1. L \in Nat
  BY SceneIs
<1>2. PICK f : /\ f[0] = s /\ EndScans(s) = f[L]
               /\ \A n \in 1 .. L : f[n] = IF n \in closed THEN EndScan(f[n - 1], n) ELSE f[n - 1]
  BY <1>1, EndScansIs
<1> DEFINE T == {n \in 0 .. L : Good(f[n])}
<1>3. 0 \in T
  BY <1>1, <1>2
<1>4. ASSUME NEW n \in Nat, n < L, n \in T PROVE n + 1 \in T
  <2>1. n + 1 \in 1 .. L /\ (n + 1) - 1 = n /\ n + 1 \in 0 .. L
    <3> HIDE DEF L
    <3> QED  BY <1>1, <1>4
  <2>2. f[n + 1] = IF n + 1 \in closed THEN EndScan(f[n], n + 1) ELSE f[n]
    BY <1>2, <2>1
  <2>3. Good(f[n]) /\ n + 1 \in All
    BY <1>4, <2>1 DEF All
  <2>4. CASE n + 1 \notin closed
    BY <2>1, <2>2, <2>3, <2>4
  <2>5. CASE n + 1 \in closed
    <3> DEFINE x == f[n]
               y == f[n + 1]
    <3>1. y = EndScan(x, n + 1) /\ Stage(x)
      BY <2>2, <2>3, <2>5
    <3>2. n + 1 \in All
      BY <2>3
    <3> HIDE DEF x, y
    <3>3. /\ Stage(y) /\ y.early = x.early /\ y.resumed = x.resumed
          /\ Ended(y) \subseteq Ended(x) \cup {n + 1}
          /\ Compared(x, had) => Compared(y, had)
      BY <3>1, <3>2, EndScanIs
    <3>4. Good(y)
      BY <2>3, <2>5, <3>3 DEF x
    <3> QED  BY <2>1, <3>4 DEF y
  <2> QED  BY <2>4, <2>5
<1> HIDE DEF T, L
<1>5. L \in T
  BY <1>1, <1>3, <1>4, UpTo
<1> QED  BY <1>2, <1>5 DEF T

LEMMA EarlyIs ==
    ASSUME NEW s, Stage(s), NEW m
    PROVE  LET q == [s EXCEPT !.early = @ \cup {m}]
           IN /\ Stage(q) /\ q.early = s.early \cup {m} /\ q.resumed = s.resumed
              /\ Ended(q) = Ended(s)
              /\ \A had : Compared(s, had) => Compared(q, had)
<1> DEFINE u == s.early \cup {m}
           q == [s EXCEPT !.early = u]
<1>0. q = [s EXCEPT !.early = @ \cup {m}]
  OBVIOUS
<1> HIDE DEF u
<1>1. q = [rates |-> s.rates, tracks |-> s.tracks, pending |-> s.pending, cmp |-> s.cmp,
           found |-> s.found, points |-> s.points, early |-> u, resumed |-> s.resumed]
  BY DEF Stage
<1> HIDE DEF q
<1>2. Stage(q) /\ q.resumed = s.resumed /\ q.early = u /\ q.cmp = s.cmp /\ q.found = s.found
  BY <1>1 DEF Stage
<1>3. Ended(q) = Ended(s)
  BY <1>2 DEF Ended
<1>4. ASSUME NEW had, Compared(s, had) PROVE Compared(q, had)
  BY <1>2, <1>4 DEF Compared, BothRead
<1> QED  BY <1>0, <1>2, <1>3, <1>4 DEF u

\* The silent members: what ends is noted as ended early.
LEMMA SilencedKeeps ==
    ASSUME scene \in Scenes, NEW s, Stage(s), NEW had, Progress(had), NEW kids, NEW rest
    PROVE  LET q == Silenced(s, kids, rest)
           IN /\ Stage(q) /\ q.resumed = s.resumed
              /\ s.early \subseteq q.early /\ Ended(q) \subseteq Ended(s) \cup q.early
              /\ Compared(s, had) => Compared(q, had)
<1> DEFINE L == Scanned
           Good(q) == /\ Stage(q) /\ q.resumed = s.resumed
                      /\ s.early \subseteq q.early /\ Ended(q) \subseteq Ended(s) \cup q.early
                      /\ Compared(s, had) => Compared(q, had)
           median == MedianSpacing(s)
<1>1. L \in Nat
  BY SceneIs
<1>2. PICK f : /\ f[0] = s /\ Silenced(s, kids, rest) = f[L]
               /\ \A n \in 1 .. L : f[n] = Silence(f[n - 1], kids, median, rest, n)
  <2>1. Scanned \in Nat
    BY SceneIs
  <2>2. \E f : SilencedBy(f, s, kids, rest)
    BY <2>1, SilencedIs, Zenon
  <2> QED  BY <2>2 DEF SilencedBy
<1> DEFINE T == {n \in 0 .. L : Good(f[n])}
<1> HIDE DEF median
<1>3. 0 \in T
  BY <1>1, <1>2
<1>4. ASSUME NEW n \in Nat, n < L, n \in T PROVE n + 1 \in T
  <2>1. n + 1 \in 1 .. L /\ (n + 1) - 1 = n /\ n + 1 \in 0 .. L
    <3> HIDE DEF L
    <3> QED  BY <1>1, <1>4
  <2> DEFINE x == f[n]
             y == f[n + 1]
             k == n + 1
  <2>2. y = Silence(x, kids, median, rest, k)
    BY <1>2, <2>1
  <2>3. Good(x) /\ k \in All
    BY <1>4, <2>1 DEF All
  <2> HIDE DEF x, y, k
  <2>4. y = x \/ y = EndScan([x EXCEPT !.early = @ \cup {k}], k)
    BY <2>2 DEF Silence
  <2>5. ASSUME y = EndScan([x EXCEPT !.early = @ \cup {k}], k) PROVE Good(y)
    <3> DEFINE z == [x EXCEPT !.early = @ \cup {k}]
    <3>1. /\ Stage(z) /\ z.early = x.early \cup {k} /\ z.resumed = x.resumed
          /\ Ended(z) = Ended(x) /\ (Compared(x, had) => Compared(z, had))
      BY <2>3, EarlyIs
    <3>2. y = EndScan(z, k)
      BY <2>5
    <3> HIDE DEF z
    <3>3. /\ Stage(y) /\ y.early = z.early /\ y.resumed = z.resumed
          /\ Ended(y) \subseteq Ended(z) \cup {k}
          /\ Compared(z, had) => Compared(y, had)
      BY <2>3, <3>1, <3>2, EndScanIs
    <3>4. s.early \subseteq y.early /\ Ended(y) \subseteq Ended(s) \cup y.early
      BY <2>3, <3>1, <3>3
    <3> QED  BY <2>3, <3>1, <3>3, <3>4
  <2>6. Good(y)
    BY <2>3, <2>4, <2>5
  <2> QED  BY <2>1, <2>6 DEF y, k
<1> HIDE DEF T, L
<1>5. L \in T
  BY <1>1, <1>3, <1>4, UpTo
<1> QED  BY <1>2, <1>5 DEF T

\* The rows of a chunk: what is compared grows by them, unless one is of a
\* member that has ended as silent.
LEMMA TakeRowsKeeps ==
    ASSUME scene \in Scenes, NEW s, Stage(s), NEW had, Progress(had), NEW m \in All,
           NEW from \in Int, NEW to \in Int, from <= to + 1,
           m \in Combined => \A y \in Wanted(m) : y \in had[m] <=> y < from
    PROVE  LET q == TakeRows(s, m, Within(m, from, to))
           IN /\ Stage(q) /\ q.early = s.early /\ Ended(q) = Ended(s)
              /\ s.resumed => q.resumed
              /\ Compared(s, had) /\ m \notin Ended(s) \ s.early /\ ~q.resumed
                    => Compared(q, With(had, m, {y \in Wanted(m) : from <= y /\ y <= to}))
<1> DEFINE rows == Within(m, from, to)
           L == Len(rows)
           R(n) == {rows[i] : i \in 1 .. n} \cap Wanted(m)
           hath(n) == With(had, m, R(n))
<1>1. /\ L \in Nat /\ rows \in Seq(Nat \ {0})
      /\ \A i, j \in 1 .. L : i < j => rows[i] < rows[j]
      /\ {rows[i] : i \in 1 .. L} = {t \in RowsOf(m) : from <= t /\ t <= to}
  BY WithinIs
<1>2. \A i \in 1 .. L : rows[i] \in Nat /\ rows[i] \in RowsOf(m) /\ from <= rows[i] /\ rows[i] <= to
  <2>1. \A i \in 1 .. L : rows[i] \in Nat \ {0}
    BY <1>1, ElementOfSeq
  <2> QED  BY <1>1, <2>1
<1>3. PICK f : /\ f[0] = s /\ TakeRows(s, m, rows) = f[L]
               /\ \A n \in 1 .. L : f[n] = TakeRow(m, f[n - 1], rows[n])
  BY <1>1, TakeRowsIs
<1>4. Wanted(m) \subseteq Nat /\ Wanted(m) \subseteq RowsOf(m)
  BY HadIs
<1>5. had \in [Combined -> SUBSET Nat]
  BY DEF Progress
<1> HIDE DEF rows, L
<1>6. ASSUME NEW n \in 0 .. L, m \in Combined, NEW x \in R(n), NEW y \in Wanted(m), y <= x
      PROVE  y \in had[m] \cup R(n)
  <2>1. PICK i \in 1 .. n : x = rows[i]
    OBVIOUS
  <2>2. i \in 1 .. L
    BY <1>1, <2>1
  <2>3. x <= to /\ x \in Nat /\ y \in Nat
    BY <1>2, <1>4, <2>1, <2>2
  <2>4. CASE y < from
    BY <1>6, <2>4
  <2>5. CASE ~(y < from)
    <3>1. from <= y /\ y <= to /\ y \in RowsOf(m)
      BY <1>4, <1>6, <2>3, <2>5
    <3>2. PICK j \in 1 .. L : y = rows[j]
      BY <1>1, <3>1
    <3>3. j <= i
      <4>1. ~(i < j)
        BY <1>1, <1>6, <2>1, <2>2, <2>3, <3>2
      <4> QED  BY <2>2, <3>2, <4>1
    <3>4. j \in 1 .. n
      BY <2>1, <3>2, <3>3
    <3> QED  BY <3>2, <3>4
  <2> QED  BY <2>4, <2>5
<1>7. ASSUME NEW n \in 0 .. L PROVE Progress(hath(n))
  <2> HIDE DEF R
  <2>1. R(n) \subseteq Wanted(m)
    BY DEF R
  <2>2. hath(n) \in [Combined -> SUBSET Nat]
    BY <1>4, <1>5, <2>1 DEF With
  <2>3. ASSUME NEW o \in Combined
        PROVE  /\ hath(n)[o] \subseteq Wanted(o)
               /\ \A x \in hath(n)[o] : \A y \in Wanted(o) : y <= x => y \in hath(n)[o]
    <3>1. /\ had[o] \subseteq Wanted(o)
          /\ \A x \in had[o] : \A y \in Wanted(o) : y <= x => y \in had[o]
      BY DEF Progress
    <3>2. hath(n)[o] = IF o = m THEN had[o] \cup R(n) ELSE had[o]
      BY DEF With
    <3> HIDE DEF hath
    <3>3. CASE o # m
      BY <3>1, <3>2, <3>3
    <3>4. CASE o = m
      <4>1. ASSUME NEW x \in hath(n)[o], NEW y \in Wanted(o), y <= x PROVE y \in hath(n)[o]
        <5>1. CASE x \in had[o]
          BY <3>1, <3>2, <3>4, <4>1, <5>1
        <5>2. CASE x \in R(n)
          BY <1>6, <3>2, <3>4, <4>1, <5>2
        <5> QED  BY <3>2, <3>4, <5>1, <5>2
      <4> QED  BY <2>1, <3>1, <3>2, <3>4, <4>1
    <3> QED  BY <3>3, <3>4
  <2> HIDE DEF hath
  <2> QED  BY <2>2, <2>3 DEF Progress
<1> DEFINE Good(n, q) == /\ Stage(q) /\ q.early = s.early /\ Ended(q) = Ended(s)
                         /\ s.resumed => q.resumed
                         /\ Compared(s, had) /\ m \notin Ended(s) \ s.early /\ ~q.resumed
                               => Compared(q, hath(n))
           T == {n \in 0 .. L : Good(n, f[n])}
<1>8. 0 \in T
  <2>1. R(0) = {}
    OBVIOUS
  <2>2. hath(0) = had
    BY <1>5, <2>1, WithIs
  <2>3. f[0] = s /\ 0 \in 0 .. L
    BY <1>1, <1>3
  <2> HIDE DEF hath
  <2> QED  BY <2>2, <2>3
<1>9. ASSUME NEW n \in Nat, n < L, n \in T PROVE n + 1 \in T
  <2>1. n + 1 \in 1 .. L /\ (n + 1) - 1 = n /\ n + 1 \in 0 .. L /\ n \in 0 .. L
    BY <1>1, <1>9
  <2> DEFINE x == f[n]
             y == f[n + 1]
             k == n + 1
             t == rows[k]
  <2>2. y = TakeRow(m, x, t)
    BY <1>3, <2>1
  <2>3. Good(n, x)
    BY <1>9
  <2>4. t \in Nat /\ t \in RowsOf(m)
    BY <1>2, <2>1
  <2>5. hath(k) = With(hath(n), m, {t} \cap Wanted(m))
    <3>1. R(k) = R(n) \cup ({t} \cap Wanted(m))
      <4>1. 1 .. k = (1 .. n) \cup {k}
        BY <2>1
      <4> HIDE DEF k
      <4> QED  BY <4>1
    <3> HIDE DEF R, k, t
    <3> QED  BY <1>5, <3>1 DEF With
  <2>6. m \in Combined => t \notin hath(n)[m]
    <3> SUFFICES ASSUME m \in Combined, t \in hath(n)[m] PROVE FALSE
      OBVIOUS
    <3>1. hath(n)[m] = had[m] \cup R(n)
      BY DEF With
    <3>2. t \in Nat /\ from <= t
      BY <1>2, <2>1
    <3>3. t \notin had[m]
      <4>1. had[m] \subseteq Wanted(m)
        BY DEF Progress
      <4> HIDE DEF t
      <4> QED  BY <3>2, <4>1
    <3>4. t \notin R(n)
      <4> SUFFICES ASSUME NEW i \in 1 .. n, t = rows[i] PROVE FALSE
        OBVIOUS
      <4>1. i \in 1 .. L /\ i < k
        BY <1>1, <2>1
      <4>2. rows[i] < rows[k] /\ rows[i] \in Nat
        BY <1>1, <1>2, <2>1, <4>1
      <4> QED  BY <4>2
    <3> QED  BY <3>1, <3>3, <3>4
  <2>7. Progress(hath(n)) /\ Progress(hath(k))
    BY <1>7, <2>1
  <2> HIDE DEF x, y, k, t, hath
  <2> DEFINE g == hath(n)
             h == hath(k)
  <2>7a. Progress(g) /\ h = With(g, m, {t} \cap Wanted(m)) /\ Progress(With(g, m, {t} \cap Wanted(m)))
    BY <2>5, <2>7
  <2>7b. Stage(x)
    BY <2>3
  <2>7c. m \in Combined => t \notin g[m]
    BY <2>6
  <2> HIDE DEF g, h
  <2>8. /\ Stage(y) /\ y.early = x.early /\ Ended(y) = Ended(x)
        /\ x.resumed => y.resumed
        /\ /\ Compared(x, g) /\ ~y.resumed
           /\ m \in Combined => t \notin g[m] /\ (m \in x.early \/ ~x.cmp[m].ended)
           => Compared(y, With(g, m, {t} \cap Wanted(m)))
    BY <2>2, <2>4, <2>7a, <2>7b, TakeRowIs
  <2>9. m \notin Ended(s) \ s.early => (m \in Combined => m \in x.early \/ ~x.cmp[m].ended)
    BY <2>3 DEF Ended
  <2>10. Compared(s, had) /\ m \notin Ended(s) \ s.early /\ ~y.resumed => Compared(y, h)
    <3> SUFFICES ASSUME Compared(s, had), m \notin Ended(s) \ s.early, ~y.resumed PROVE Compared(y, h)
      OBVIOUS
    <3>1. ~x.resumed
      BY <2>8
    <3>2. Compared(x, g)
      BY <2>3, <3>1 DEF g
    <3> QED  BY <2>7a, <2>7c, <2>8, <2>9, <3>2
  <2>11. Good(k, y)
    BY <2>3, <2>8, <2>10 DEF h
  <2> QED  BY <2>1, <2>11 DEF y, k
<1> HIDE DEF T
<1>10. L \in T
  <2>1. L \in Nat /\ L \in 0 .. L
    BY <1>1
  <2>2. \A i \in Nat : i < L /\ i \in T => i + 1 \in T
    BY <1>9
  <2>3. \A i \in 0 .. L : i \in T
    BY <1>8, <2>1, <2>2, UpTo
  <2> QED  BY <2>1, <2>3
<1>11. R(L) = {y \in Wanted(m) : from <= y /\ y <= to}
  BY <1>1, <1>4
<1>12. Good(L, f[L])
  BY <1>10 DEF T
<1> QED  BY <1>3, <1>11, <1>12 DEF rows

\* What cannot be met again is let go.
LEMMA ReadToKeeps ==
    ASSUME scene \in Scenes, NEW s, Stage(s), NEW t \in Nat
    PROVE  /\ Stage(ReadTo(s, t)) /\ ReadTo(s, t).early = s.early
           /\ ReadTo(s, t).resumed = s.resumed /\ Ended(ReadTo(s, t)) = Ended(s)
           /\ \A had : /\ Progress(had) /\ Compared(s, had)
                       /\ \A o \in Combined \ Ended(s) : \A y \in Wanted(o) : y \notin had[o] => t <= y
                       => Compared(ReadTo(s, t), had)
<1> DEFINE H(m) == {x \in s.cmp[m].held : x >= t}
           c == [m \in Combined |-> [s.cmp[m] EXCEPT !.held = H(m)]]
           q == ReadTo(s, t)
<1>1. q = [s EXCEPT !.cmp = c]
  BY DEF ReadTo
<1>2. \A m \in Combined : s.cmp[m] \in [held : SUBSET Nat, last : Nat \cup {NoTime}, ended : BOOLEAN]
  BY DEF Stage
<1>3. \A m \in Combined : H(m) \in SUBSET Nat
  BY <1>2
<1> HIDE DEF H
<1>4. /\ c \in [Combined -> [held : SUBSET Nat, last : Nat \cup {NoTime}, ended : BOOLEAN]]
      /\ \A m \in Combined : /\ c[m].last = s.cmp[m].last /\ c[m].ended = s.cmp[m].ended
                             /\ c[m].held = H(m)
  BY <1>2, <1>3
<1> HIDE DEF c
<1>5. q = [rates |-> s.rates, tracks |-> s.tracks, pending |-> s.pending, cmp |-> c,
           found |-> s.found, points |-> s.points, early |-> s.early, resumed |-> s.resumed]
  BY <1>1 DEF Stage
<1> HIDE DEF q
<1>6. q.cmp = c /\ q.found = s.found /\ q.early = s.early /\ q.resumed = s.resumed
  BY <1>5
<1>7. Stage(q)
  BY <1>4, <1>5 DEF Stage
<1>8. Ended(q) = Ended(s)
  BY <1>4, <1>6 DEF Ended
<1>9. ASSUME NEW had, Progress(had), Compared(s, had),
             \A o \in Combined \ Ended(s) : \A y \in Wanted(o) : y \notin had[o] => t <= y
      PROVE  Compared(q, had)
  <2>1. \A m \in Combined : q.cmp[m].held \subseteq had[m]
    BY <1>4, <1>6, <1>9 DEF Compared, H
  <2>2. \A m \in Combined : q.cmp[m].last = NoTime \/ q.cmp[m].last \in had[m]
    BY <1>4, <1>6, <1>9 DEF Compared
  <2>3. \A x \in q.found : Conflict(x, had)
    BY <1>6, <1>9 DEF Compared
  <2>4. ASSUME NEW m \in Combined, NEW o \in Combined, m # o PROVE BothRead(q, had, m, o)
    <3> SUFFICES ASSUME NEW x \in had[m]
                 PROVE  /\ x \in had[o] /\ x \in scene.differs => <<{m, o}, x>> \in q.found
                        /\ x \in Wanted(o) /\ x \notin had[o] /\ ~q.cmp[o].ended => x \in q.cmp[m].held
      BY DEF BothRead
    <3>1. BothRead(s, had, m, o)
      BY <1>9, <2>4 DEF Compared
    <3>2. x \in had[o] /\ x \in scene.differs => <<{m, o}, x>> \in q.found
      BY <1>6, <3>1 DEF BothRead
    <3>3. ASSUME x \in Wanted(o), x \notin had[o], ~q.cmp[o].ended PROVE x \in q.cmp[m].held
      <4>1. ~s.cmp[o].ended
        BY <1>4, <1>6, <3>3
      <4>2. x \in s.cmp[m].held
        BY <3>1, <3>3, <4>1 DEF BothRead
      <4>3. t <= x
        BY <1>9, <3>3, <4>1 DEF Ended
      <4>4. x \in Nat
        BY <1>9 DEF Progress
      <4>5. x >= t
        BY <4>3, <4>4
      <4> QED  BY <1>4, <1>6, <4>2, <4>5 DEF H
    <3> QED  BY <3>2, <3>3
  <2> HIDE DEF q
  <2> QED  BY <2>1, <2>2, <2>3, <2>4 DEF Compared
<1> QED  BY <1>6, <1>7, <1>8, <1>9 DEF q

-----------------------------------------------------------------------------
(* Batched unions: the invariant. *)

\* What each combined member has read of what its read takes.
Had(kids) == [m \in Combined |-> HadBy(m, kids[m].read)]

\* A scan reads its segments in turn, and says where the rest of them starts.
ScansInTurn(kids) ==
    /\ kids \in [All -> [read : Nat, at : Nat \cup {NoTime}, state : {"unread", "at", "done"}]]
    /\ \A m \in All :
          /\ kids[m].read <= Segments(m)
          /\ kids[m].state = "done" => kids[m].read = Segments(m)
          /\ kids[m].at # NoTime => kids[m].at = SegmentStart(m, kids[m].read + 1)

\* Unless a member ended as silent came back, every conflict among the rows
\* read is found, every row another source can still meet is held, and a
\* member has ended only with its scan or as silent.
ComparedSoFar(s, kids) ==
    s.resumed \/ /\ Compared(s, Had(kids))
                 /\ \A m \in Ended(s) : m \in s.early \/ kids[m].state = "done"

UInv ==
    /\ scene \in Scenes
    /\ ScansInTurn(child)
    /\ closed \subseteq {m \in All : child[m].state = "done"}
    /\ Stage(st) /\ ComparedSoFar(st, child)
    /\ phase = "done" => ~st.resumed /\ \A m \in All : child[m].state = "done"

LEMMA HadGrows ==
    ASSUME scene \in Scenes, NEW kids, ScansInTurn(kids)
    PROVE  Progress(Had(kids))
<1>1. Combined \subseteq All
  BY SceneIs
<1>2. \A m \in All : kids[m].read \in Nat
  BY DEF ScansInTurn
<1>3. ASSUME NEW m \in Combined
      PROVE  /\ HadBy(m, kids[m].read) \subseteq Nat
             /\ HadBy(m, kids[m].read) \subseteq Wanted(m)
             /\ \A x \in HadBy(m, kids[m].read) : \A y \in Wanted(m) :
                   y <= x => y \in HadBy(m, kids[m].read)
  <2>1. m \in All /\ kids[m].read \in Nat
    BY <1>1, <1>2
  <2> QED  BY <2>1, HadIs
<1>4. Had(kids) \in [Combined -> SUBSET Nat]
  BY <1>3 DEF Had
<1>5. \A m \in Combined : Had(kids)[m] = HadBy(m, kids[m].read)
  BY DEF Had
<1> QED  BY <1>3, <1>4, <1>5 DEF Progress

\* The rest of the joined scan starts no later than that of any scan.
LEMMA RestIs ==
    ASSUME scene \in Scenes, NEW kids, ScansInTurn(kids), RestOfJoined(kids) # NoTime
    PROVE  /\ RestOfJoined(kids) \in Nat
           /\ \A m \in All : kids[m].state # "done" =>
                 RestOfJoined(kids) <= SegmentStart(m, kids[m].read + 1)
<1> DEFINE open == {m \in All : kids[m].state \in {"unread", "at"}}
           A == {kids[m].at : m \in open}
<1>1. open # {} /\ \A m \in open : kids[m].at # NoTime
  BY DEF RestOfJoined
<1>2. RestOfJoined(kids) = Min(A)
  BY <1>1 DEF RestOfJoined
<1>3. \A m \in All : /\ kids[m].at \in Nat \cup {NoTime} /\ kids[m].state \in {"unread", "at", "done"}
                     /\ kids[m].at # NoTime => kids[m].at = SegmentStart(m, kids[m].read + 1)
  BY DEF ScansInTurn
<1>4. A \subseteq Nat /\ A # {}
  BY <1>1, <1>3
<1> HIDE DEF A
<1>5. \E x \in A : \A y \in A : x <= y
  BY <1>4, LeastExists
<1>6. Min(A) \in A /\ \A y \in A : Min(A) <= y
  BY <1>5 DEF Min
<1>7. ASSUME NEW m \in All, kids[m].state # "done" PROVE Min(A) <= SegmentStart(m, kids[m].read + 1)
  <2>1. m \in open
    BY <1>3, <1>7
  <2>2. kids[m].at \in A /\ kids[m].at = SegmentStart(m, kids[m].read + 1)
    BY <1>1, <1>3, <2>1 DEF A
  <2> QED  BY <1>6, <2>2
<1> QED  BY <1>2, <1>4, <1>6, <1>7

LEMMA SegmentStartIs ==
    ASSUME scene \in Scenes, NEW m \in All, NEW k \in Nat
    PROVE  SegmentStart(m, k + 1) \in Nat
<1> DEFINE d == AtLeast(DataStart(m), 1) - 1
           a == d \div Width
<1>1. d \in Nat /\ Width \in Nat \ {0}
  BY GridIs, BatchedUnionAssumption DEF AtLeast
<1> HIDE DEF d
<1>2. a \in Nat
  BY <1>1
<1>3. SegmentStart(m, k + 1) = (a + (k + 1) - 1) * Width + 1
  BY DEF SegmentStart, FirstSegment, d
<1> HIDE DEF a
<1>4. a + (k + 1) - 1 = a + k /\ a + k \in Nat
  BY <1>2
<1> DEFINE b == a + k
<1>5. b \in Nat
  BY <1>4
<1> HIDE DEF b
<1>6. b * Width \in Nat
  BY <1>1, <1>5
<1>7. SegmentStart(m, k + 1) = b * Width + 1
  BY <1>3, <1>4 DEF b
<1> QED  BY <1>6, <1>7

\* A chunk of one scan: where it ends, and what was read with it.
NextKids(m, n) ==
    LET to == Min({child[m].read + n, Segments(m)})
    IN [child EXCEPT ![m] =
          [read |-> to, state |-> "at",
           at |-> IF scene.spans /\ to < Segments(m) THEN SegmentStart(m, to + 1) ELSE NoTime]]

ChunkRows(m, n) == SegmentRows(m, child[m].read + 1, NextKids(m, n)[m].read)

LEMMA NextKidsIs ==
    ASSUME UInv, NEW m \in All, NEW n \in ChunkSegments, Scanning(m)
    PROVE  /\ ScansInTurn(NextKids(m, n))
           /\ \A o \in All \ {m} : NextKids(m, n)[o] = child[o]
           /\ child[m].read \in Nat /\ NextKids(m, n)[m].read \in Nat
           /\ NextKids(m, n)[m].read = Min({child[m].read + n, Segments(m)})
           /\ child[m].read <= NextKids(m, n)[m].read
           /\ NextKids(m, n)[m].state = "at" /\ child[m].state # "done"
<1> DEFINE r  == child[m].read
           to == Min({r + n, Segments(m)})
           at == IF scene.spans /\ to < Segments(m) THEN SegmentStart(m, to + 1) ELSE NoTime
           kids == NextKids(m, n)
           Kid == [read : Nat, at : Nat \cup {NoTime}, state : {"unread", "at", "done"}]
<1>0. scene \in Scenes /\ ScansInTurn(child)
  BY DEF UInv
<1>1. r \in Nat /\ r <= Segments(m) /\ Segments(m) \in Nat /\ n \in Nat \ {0}
  <2>1. r \in Nat /\ r <= Segments(m)
    BY <1>0 DEF ScansInTurn
  <2>2. Segments(m) \in Nat
    BY <1>0, SegmentsAre
  <2> QED  BY <2>1, <2>2, BatchedUnionAssumption
<1>2. to = IF r + n <= Segments(m) THEN r + n ELSE Segments(m)
  <2>1. r + n \in Int /\ Segments(m) \in Int
    BY <1>1
  <2> HIDE DEF r
  <2> QED  BY <2>1, MinOfTwo
<1>3. kids = [child EXCEPT ![m] = [read |-> to, state |-> "at", at |-> at]]
  BY DEF NextKids
<1> HIDE DEF to, r
<1>4. to \in Nat /\ r <= to /\ to <= Segments(m)
  BY <1>1, <1>2
<1>5. at \in Nat \cup {NoTime} /\ (at # NoTime => at = SegmentStart(m, to + 1))
  BY <1>0, <1>4, SegmentStartIs
<1> HIDE DEF at
<1>6. child \in [All -> Kid]
  BY <1>0 DEF ScansInTurn
<1> HIDE DEF kids
<1>7. /\ kids \in [All -> Kid] /\ \A o \in All \ {m} : kids[o] = child[o]
      /\ kids[m].read = to /\ kids[m].state = "at" /\ kids[m].at = at
  BY <1>3, <1>4, <1>5, <1>6
<1>8. ASSUME NEW o \in All
      PROVE  /\ kids[o].read <= Segments(o)
             /\ kids[o].state = "done" => kids[o].read = Segments(o)
             /\ kids[o].at # NoTime => kids[o].at = SegmentStart(o, kids[o].read + 1)
  <2>1. CASE o = m
    BY <1>4, <1>5, <1>7, <2>1
  <2>2. CASE o # m
    BY <1>0, <1>7, <2>2 DEF ScansInTurn
  <2> QED  BY <2>1, <2>2
<1>9. ScansInTurn(kids)
  BY <1>7, <1>8 DEF ScansInTurn
<1>10. child[m].state # "done"
  BY DEF Scanning
<1> QED  BY <1>1, <1>4, <1>7, <1>9, <1>10 DEF kids, r, to

LEMMA ReadChunkKeeps ==
    ASSUME UInv, NEW m \in All, NEW n \in ChunkSegments, Scanning(m)
    PROVE  LET kids == NextKids(m, n)
               q    == ReadChunk(st, m, ChunkRows(m, n), RestOfJoined(kids))
           IN Stage(q) /\ ComparedSoFar(q, kids)
<1> DEFINE kids == NextKids(m, n)
           rest == RestOfJoined(kids)
           from == SegmentStart(m, child[m].read + 1)
           to   == SegmentStart(m, kids[m].read + 1) - 1
           had  == Had(child)
           hath == Had(kids)
           q1   == EndScans(st)
           q2   == TakeRows(q1, m, Within(m, from, to))
           q3   == SettleAll(q2)
           q    == ReadChunk(st, m, ChunkRows(m, n), rest)
<1>0. scene \in Scenes /\ ScansInTurn(child) /\ Stage(st) /\ ComparedSoFar(st, child)
      /\ closed \subseteq {o \in All : child[o].state = "done"}
  BY DEF UInv
<1>1. /\ ScansInTurn(kids) /\ \A o \in All \ {m} : kids[o] = child[o]
      /\ child[m].read \in Nat /\ kids[m].read \in Nat /\ child[m].read <= kids[m].read
      /\ child[m].state # "done" /\ kids[m].state = "at"
  BY NextKidsIs
<1>2. q = IF rest = NoTime THEN q3 ELSE ReadTo(q3, rest)
  <2>1. ChunkRows(m, n) = Within(m, from, to)
    BY DEF ChunkRows, SegmentRows
  <2> QED  BY <2>1 DEF ReadChunk
<1>3. from \in Nat /\ to \in Int /\ from <= to + 1
  <2> DEFINE z == SegmentStart(m, kids[m].read + 1)
  <2>1. from \in Nat /\ z \in Nat
    BY <1>0, <1>1, SegmentStartIs
  <2>2. from <= z
    <3> DEFINE a == child[m].read + 1
               b == kids[m].read + 1
    <3>1. a \in Nat /\ b \in Nat /\ a <= b
      <4> HIDE DEF kids
      <4> QED  BY <1>1
    <3> HIDE DEF a, b
    <3>2. SegmentStart(m, a) <= SegmentStart(m, b)
      BY <1>0, <3>1, SegmentsAre
    <3> QED  BY <3>2 DEF a, b
  <2>3. to = z - 1
    OBVIOUS
  <2> HIDE DEF z, from, to
  <2> QED  BY <2>1, <2>2, <2>3
<1> HIDE DEF kids, rest
<1>4. Progress(had) /\ Progress(hath)
  BY <1>0, <1>1, HadGrows
<1>5. /\ Stage(q1) /\ q1.early = st.early /\ q1.resumed = st.resumed
      /\ Ended(q1) \subseteq Ended(st) \cup closed
      /\ Compared(st, had) => Compared(q1, had)
  <2> HIDE DEF had
  <2> QED  BY <1>0, <1>4, EndScansKeeps
<1>6. m \in Combined => \A y \in Wanted(m) : y \in had[m] <=> y < from
  BY DEF Had, HadBy
<1>7. m \in Combined => hath = With(had, m, {y \in Wanted(m) : from <= y /\ y <= to})
  <2> SUFFICES ASSUME m \in Combined
               PROVE  hath = With(had, m, {y \in Wanted(m) : from <= y /\ y <= to})
    OBVIOUS
  <2>1. HadBy(m, kids[m].read) = HadBy(m, child[m].read) \cup {y \in Wanted(m) : from <= y /\ y <= to}
    <3>1. Wanted(m) \subseteq Nat
      BY <1>0, HadIs
    <3>2. SegmentStart(m, kids[m].read + 1) = to + 1
      <4>1. SegmentStart(m, kids[m].read + 1) \in Nat
        BY <1>0, <1>1, SegmentStartIs
      <4> DEFINE z == SegmentStart(m, kids[m].read + 1)
      <4>2. z \in Nat /\ to = z - 1
        BY <4>1
      <4> HIDE DEF z, to
      <4> QED  BY <4>2 DEF z
    <3>3. ASSUME NEW y \in Wanted(m) PROVE y < to + 1 <=> y < from \/ (from <= y /\ y <= to)
      <4>1. y \in Nat
        BY <3>1
      <4> HIDE DEF from, to
      <4> QED  BY <1>3, <4>1
    <3>4. HadBy(m, child[m].read) = {y \in Wanted(m) : y < from}
      BY DEF HadBy
    <3>5. HadBy(m, kids[m].read) = {y \in Wanted(m) : y < to + 1}
      BY <3>2 DEF HadBy
    <3> HIDE DEF from, to
    <3> QED  BY <3>3, <3>4, <3>5
  <2>2. \A o \in Combined \ {m} : HadBy(o, kids[o].read) = HadBy(o, child[o].read)
    <3>1. Combined \subseteq All
      BY <1>0, SceneIs
    <3> QED  BY <1>1, <3>1
  <2> DEFINE S == {y \in Wanted(m) : from <= y /\ y <= to}
  <2>3. HadBy(m, kids[m].read) = HadBy(m, child[m].read) \cup S
    BY <2>1
  <2> HIDE DEF S
  <2>4. hath = With(had, m, S)
    BY <2>2, <2>3 DEF Had, With
  <2> QED  BY <2>4 DEF S
<1>8. m \notin Combined => hath = had
  <2>1. Combined \subseteq All
    BY <1>0, SceneIs
  <2> QED  BY <1>1, <2>1 DEF Had
<1>9. hath = With(had, m, {y \in Wanted(m) : from <= y /\ y <= to})
  <2> DEFINE S == {y \in Wanted(m) : from <= y /\ y <= to}
  <2>1. m \in Combined => hath = With(had, m, S)
    BY <1>7
  <2>2. had \in [Combined -> SUBSET Nat]
    BY <1>4 DEF Progress
  <2> HIDE DEF S, had, hath
  <2>3. m \notin Combined => With(had, m, S) = had
    BY <2>2, WithIs
  <2>4. hath = With(had, m, S)
    BY <1>8, <2>1, <2>3
  <2> QED  BY <2>4 DEF S
<1> HIDE DEF had, hath, q1, from, to
<1>10. /\ Stage(q2) /\ q2.early = q1.early /\ Ended(q2) = Ended(q1)
       /\ q1.resumed => q2.resumed
       /\ Compared(q1, had) /\ m \notin Ended(q1) \ q1.early /\ ~q2.resumed => Compared(q2, hath)
  <2>1. from \in Int /\ to \in Int /\ from <= to + 1
    BY <1>3
  <2>2. Stage(q1) /\ Progress(had) /\ scene \in Scenes
    BY <1>0, <1>4, <1>5
  <2>3. /\ Stage(q2) /\ q2.early = q1.early /\ Ended(q2) = Ended(q1)
        /\ q1.resumed => q2.resumed
        /\ Compared(q1, had) /\ m \notin Ended(q1) \ q1.early /\ ~q2.resumed
              => Compared(q2, With(had, m, {y \in Wanted(m) : from <= y /\ y <= to}))
    BY <1>6, <2>1, <2>2, TakeRowsKeeps
  <2> QED  BY <1>9, <2>3
<1> HIDE DEF q2
<1>11. Stage(q3) /\ SameCompare(q2, q3)
  BY <1>0, <1>10, SettleAllKeeps
<1> HIDE DEF q3
<1>12. /\ Ended(q3) = Ended(q2) /\ q3.early = q2.early /\ q3.resumed = q2.resumed
       /\ Compared(q2, hath) => Compared(q3, hath)
  <2>1. Compared(q2, hath) => Compared(q3, hath)
    BY <1>11, ComparedAsBefore
  <2> QED  BY <1>11, <2>1 DEF SameCompare, Ended
<1>13. ASSUME rest # NoTime
       PROVE  /\ rest \in Nat
              /\ \A o \in Combined \ Ended(q3) : \A y \in Wanted(o) : y \notin hath[o] => rest <= y
  <2>1. /\ rest \in Nat
        /\ \A o \in All : kids[o].state # "done" => rest <= SegmentStart(o, kids[o].read + 1)
    BY <1>0, <1>1, <1>13, RestIs DEF rest
  <2>2. ASSUME NEW o \in Combined, NEW y \in Wanted(o), y \notin hath[o] PROVE rest <= y
    <3>1. o \in All /\ y \in Nat
      BY <1>0, SceneIs, HadIs
    <3>2. hath[o] = HadBy(o, kids[o].read) /\ kids[o].read \in Nat
      BY <1>1, <3>1 DEF hath, Had, ScansInTurn
    <3>3. ~(y < SegmentStart(o, kids[o].read + 1))
      BY <2>2, <3>2 DEF HadBy
    <3>4. kids[o].state # "done"
      <4> SUFFICES ASSUME kids[o].state = "done" PROVE FALSE
        OBVIOUS
      <4>1. kids[o].read = Segments(o)
        BY <1>1, <3>1 DEF ScansInTurn
      <4>2. HadBy(o, Segments(o)) = Wanted(o)
        BY <1>0, <3>1, HadIs
      <4> QED  BY <2>2, <3>2, <4>1, <4>2
    <3>5. SegmentStart(o, kids[o].read + 1) \in Nat
      BY <1>0, <3>1, <3>2, SegmentStartIs
    <3>6. rest <= SegmentStart(o, kids[o].read + 1)
      BY <2>1, <3>1, <3>4
    <3> QED  BY <2>1, <3>1, <3>3, <3>5, <3>6
  <2> QED  BY <2>1, <2>2
<1>14. /\ Stage(q) /\ q.early = q3.early /\ q.resumed = q3.resumed /\ Ended(q) = Ended(q3)
       /\ Compared(q3, hath) => Compared(q, hath)
  <2>1. CASE rest = NoTime
    BY <1>2, <1>11, <2>1
  <2>2. CASE rest # NoTime
    <3>1. q = ReadTo(q3, rest) /\ rest \in Nat
      BY <1>2, <1>13, <2>2
    <3> HIDE DEF q
    <3>2. /\ Stage(q) /\ q.early = q3.early /\ q.resumed = q3.resumed /\ Ended(q) = Ended(q3)
          /\ /\ Progress(hath) /\ Compared(q3, hath)
             /\ \A o \in Combined \ Ended(q3) : \A y \in Wanted(o) : y \notin hath[o] => rest <= y
             => Compared(q, hath)
      BY <1>0, <1>11, <3>1, ReadToKeeps
    <3> QED  BY <1>4, <1>13, <2>2, <3>2
  <2> QED  BY <2>1, <2>2
<1> HIDE DEF q
<1>15. ComparedSoFar(q, kids)
  <2> SUFFICES ASSUME ~q.resumed
               PROVE Compared(q, hath) /\ \A o \in Ended(q) : o \in q.early \/ kids[o].state = "done"
    BY DEF ComparedSoFar, hath
  <2>1. ~q3.resumed /\ ~q2.resumed /\ ~q1.resumed /\ ~st.resumed
    BY <1>5, <1>10, <1>12, <1>14
  <2>2. Compared(st, had) /\ \A o \in Ended(st) : o \in st.early \/ child[o].state = "done"
    BY <1>0, <2>1 DEF ComparedSoFar, had
  <2>3. \A o \in Ended(q1) : o \in All /\ (o \in q1.early \/ child[o].state = "done")
    <3>1. Combined \subseteq All
      BY <1>0, SceneIs
    <3>2. Ended(q1) \subseteq All
      BY <3>1 DEF Ended
    <3> QED  BY <1>0, <1>5, <2>2, <3>2
  <2>4. m \notin Ended(q1) \ q1.early
    BY <1>1, <2>3
  <2>5. Compared(q, hath)
    BY <1>5, <1>10, <1>12, <1>14, <2>1, <2>2, <2>4
  <2>6. ASSUME NEW o \in Ended(q) PROVE o \in q.early \/ kids[o].state = "done"
    <3>1. o \in Ended(q1) /\ q.early = q1.early
      BY <1>10, <1>12, <1>14
    <3>2. CASE o \in q1.early
      BY <3>1, <3>2
    <3>3. CASE o \notin q1.early
      <4>1. child[o].state = "done" /\ o \in All
        BY <2>3, <3>1, <3>3
      <4>2. o # m
        BY <1>1, <4>1
      <4> QED  BY <1>1, <4>1, <4>2
    <3> QED  BY <3>2, <3>3
  <2> QED  BY <2>5, <2>6
<1> QED  BY <1>14, <1>15 DEF q, kids, rest

LEMMA UInvInit ==
    ASSUME UInit PROVE UInv
<1>1. scene \in Scenes /\ closed = {} /\ phase = "reading"
      /\ child = [m \in All |-> [read |-> 0, at |-> NoTime, state |-> "unread"]]
  BY DEF UInit
<1>2. ScansInTurn(child)
  <2>1. child \in [All -> [read : Nat, at : Nat \cup {NoTime}, state : {"unread", "at", "done"}]]
    BY <1>1
  <2>2. \A m \in All : Segments(m) \in Nat
    BY <1>1, SegmentsAre
  <2>3. \A m \in All : child[m].read = 0 /\ child[m].state = "unread" /\ child[m].at = NoTime
    BY <1>1
  <2> QED  BY <2>1, <2>2, <2>3 DEF ScansInTurn
<1> DEFINE a == [m \in All |-> NewRate(GridOf(m))]
           b == [m \in Combined |-> NewTrack(IntervalOf(m), Before(m), After(m))]
           c == [m \in Combined |-> <<>>]
           d == [m \in Combined |-> [held |-> {}, last |-> NoTime, ended |-> FALSE]]
<1>3. st = [rates |-> a, tracks |-> b, pending |-> c, cmp |-> d,
            found |-> {}, points |-> <<>>, early |-> {}, resumed |-> FALSE]
  BY DEF UInit
<1>4. /\ d \in [Combined -> [held : SUBSET Nat, last : Nat \cup {NoTime}, ended : BOOLEAN]]
      /\ \A m \in Combined : d[m].held = {} /\ d[m].last = NoTime /\ d[m].ended = FALSE
  OBVIOUS
<1> HIDE DEF a, b, c, d
<1>5. /\ st.rates = a /\ st.tracks = b /\ st.pending = c /\ st.cmp = d /\ st.found = {}
      /\ st.points = <<>> /\ st.early = {} /\ st.resumed = FALSE
  BY <1>3
<1>6. st = [rates |-> st.rates, tracks |-> st.tracks, pending |-> st.pending, cmp |-> st.cmp,
            found |-> st.found, points |-> st.points, early |-> st.early, resumed |-> st.resumed]
  BY <1>3, <1>5
<1>7. Stage(st)
  BY <1>4, <1>5, <1>6 DEF Stage
<1>8. \A m \in Combined : Had(child)[m] = {}
  <2>1. ASSUME NEW m \in Combined PROVE HadBy(m, child[m].read) = {}
    <3>1. m \in All
      BY <1>1, SceneIs
    <3>2. child[m].read = 0
      BY <1>1, <3>1
    <3> QED  BY <1>1, <3>1, <3>2, HadIs
  <2> QED  BY <2>1 DEF Had
<1>9. ComparedSoFar(st, child)
  <2>1. Ended(st) = {}
    BY <1>4, <1>5 DEF Ended
  <2> DEFINE had == Had(child)
  <2>2. \A m \in Combined : had[m] = {}
    BY <1>8
  <2> HIDE DEF had
  <2>3. \A m, o \in Combined : BothRead(st, had, m, o)
    BY <2>2 DEF BothRead
  <2>4. Compared(st, had)
    BY <1>4, <1>5, <2>3 DEF Compared
  <2> QED  BY <2>1, <2>4 DEF ComparedSoFar, had
<1> QED  BY <1>1, <1>2, <1>7, <1>9 DEF UInv

\* The scene stays: what is said of it, of the scans and of the comparison
\* says the same after a step.
LEMMA SceneStays ==
    ASSUME scene' = scene
    PROVE  /\ All' = All /\ Combined' = Combined
           /\ \A m : Segments(m)' = Segments(m)
           /\ \A m, k : SegmentStart(m, k)' = SegmentStart(m, k)
           /\ \A m : Wanted(m)' = Wanted(m)
           /\ \A m, k : HadBy(m, k)' = HadBy(m, k)
<1>1. Combined' = Combined
  BY DEF Combined
<1>2. All' = All
  BY DEF All, Scanned
<1>3. \A m : Member(m)' = Member(m)
  BY <1>1 DEF Member
<1>4. \A m : IntervalOf(m)' = IntervalOf(m)
  BY <1>3 DEF IntervalOf
<1>5. \A m : DataStart(m)' = DataStart(m)
  BY <1>4 DEF DataStart
<1>6. \A m : FirstSegment(m)' = FirstSegment(m)
  BY <1>5 DEF FirstSegment
<1>7. \A m : Segments(m)' = Segments(m)
  BY <1>6 DEF Segments
<1>8. \A m, k : SegmentStart(m, k)' = SegmentStart(m, k)
  BY <1>6 DEF SegmentStart
<1>9. \A m : Wanted(m)' = Wanted(m)
  <2>1. \A m : RowsOf(m)' = RowsOf(m)
    BY <1>3 DEF RowsOf
  <2> QED  BY <1>5, <2>1 DEF Wanted
<1>10. \A m, k : HadBy(m, k)' = HadBy(m, k)
  BY <1>8, <1>9 DEF HadBy
<1> QED  BY <1>1, <1>2, <1>7, <1>8, <1>9, <1>10

LEMMA InvariantCarries ==
    ASSUME scene' = scene
    PROVE  /\ ScansInTurn(child') => ScansInTurn(child)'
           /\ Stage(st') => Stage(st)'
           /\ ComparedSoFar(st', child') => ComparedSoFar(st, child)'
<1>1. /\ All' = All /\ Combined' = Combined
      /\ \A m : Segments(m)' = Segments(m)
      /\ \A m, k : SegmentStart(m, k)' = SegmentStart(m, k)
      /\ \A m : Wanted(m)' = Wanted(m)
      /\ \A m, k : HadBy(m, k)' = HadBy(m, k)
  BY SceneStays
<1>2. ScansInTurn(child') => ScansInTurn(child)'
  BY <1>1 DEF ScansInTurn
<1>3. Stage(st') => Stage(st)'
  BY <1>1 DEF Stage
<1>4. Had(child)' = Had(child')
  BY <1>1 DEF Had
<1>5. Ended(st)' = Ended(st')
  BY <1>1 DEF Ended
<1>6. Compared(st', Had(child')) => Compared(st, Had(child))'
  BY <1>1, <1>4 DEF Compared, BothRead, Conflict
<1>7. ComparedSoFar(st', child') => ComparedSoFar(st, child)'
  BY <1>4, <1>5, <1>6 DEF ComparedSoFar
<1> QED  BY <1>2, <1>3, <1>7

LEMMA UInvScanEnds ==
    ASSUME UInv, NEW m \in All, ScanEnds(m)
    PROVE  UInv'
<1>1. /\ scene' = scene /\ st' = st /\ phase' = phase /\ phase = "reading"
      /\ child[m].read = Segments(m)
      /\ child' = [child EXCEPT ![m].state = "done"]
      /\ closed' = closed \cup {m}
  BY DEF ScanEnds, NextScan
<1>2. /\ scene \in Scenes /\ ScansInTurn(child) /\ Stage(st) /\ ComparedSoFar(st, child)
      /\ closed \subseteq {o \in All : child[o].state = "done"}
  BY DEF UInv
<1>3. child \in [All -> [read : Nat, at : Nat \cup {NoTime}, state : {"unread", "at", "done"}]]
  BY <1>2 DEF ScansInTurn
<1>4. /\ child' \in [All -> [read : Nat, at : Nat \cup {NoTime}, state : {"unread", "at", "done"}]]
      /\ \A o \in All : child'[o].read = child[o].read /\ child'[o].at = child[o].at
      /\ \A o \in All \ {m} : child'[o] = child[o]
      /\ child'[m].state = "done"
  BY <1>1, <1>3
<1>5. All' = All /\ Combined' = Combined
  BY <1>1 DEF All, Scanned, Combined
<1>6. ScansInTurn(child')
  <2>1. ASSUME NEW o \in All
        PROVE  /\ child'[o].read <= Segments(o)
               /\ child'[o].state = "done" => child'[o].read = Segments(o)
               /\ child'[o].at # NoTime => child'[o].at = SegmentStart(o, child'[o].read + 1)
    <3>1. /\ child[o].read <= Segments(o)
          /\ child[o].state = "done" => child[o].read = Segments(o)
          /\ child[o].at # NoTime => child[o].at = SegmentStart(o, child[o].read + 1)
      BY <1>2 DEF ScansInTurn
    <3>2. CASE o = m
      BY <1>1, <1>4, <3>1, <3>2
    <3>3. CASE o # m
      BY <1>4, <3>1, <3>3
    <3> QED  BY <3>2, <3>3
  <2> QED  BY <1>4, <2>1 DEF ScansInTurn
<1>7. ComparedSoFar(st, child')
  <2>1. Combined \subseteq All
    BY <1>2, SceneIs
  <2>2. Had(child') = Had(child)
    BY <1>4, <2>1 DEF Had
  <2>3. \A o \in Ended(st) : child[o].state = "done" => child'[o].state = "done"
    <3>1. Ended(st) \subseteq All
      BY <2>1 DEF Ended
    <3> QED  BY <1>4, <3>1
  <2> QED  BY <1>2, <2>2, <2>3 DEF ComparedSoFar
<1>8. closed' \subseteq {o \in All : child'[o].state = "done"}
  BY <1>1, <1>2, <1>4
<1>9. /\ ScansInTurn(child)' /\ ComparedSoFar(st, child)' /\ Stage(st)'
      /\ (closed \subseteq {o \in All : child[o].state = "done"})'
      /\ (scene \in Scenes)'
  <2>1. ScansInTurn(child)' /\ Stage(st)' /\ ComparedSoFar(st, child)'
    BY <1>1, <1>2, <1>6, <1>7, InvariantCarries
  <2> QED  BY <1>1, <1>2, <1>5, <1>8, <2>1
<1> QED  BY <1>1, <1>9 DEF UInv

LEMMA UInvChunk ==
    ASSUME UInv, NEW m \in All, NEW n \in ChunkSegments, Chunk(m, n)
    PROVE  UInv'
<1> DEFINE kids == NextKids(m, n)
           rest == RestOfJoined(kids)
           s    == ReadChunk(st, m, ChunkRows(m, n), rest)
           q    == Silenced(s, kids, rest)
<1>1. /\ scene' = scene /\ phase = "reading" /\ Scanning(m) /\ closed' = {} /\ child' = kids
      /\ Flush(s, kids, rest)
  <2> DEFINE to == Min({child[m].read + n, Segments(m)})
             at == IF scene.spans /\ to < Segments(m) THEN SegmentStart(m, to + 1) ELSE NoTime
             kid == [child EXCEPT ![m] = [read |-> to, at |-> at, state |-> "at"]]
  <2>1. kids = kid
    BY DEF NextKids
  <2>2. NextKids(m, n)[m].read = to
    BY <2>1, NextKidsIs DEF Chunk, NextScan
  <2>3. ChunkRows(m, n) = SegmentRows(m, child[m].read + 1, to)
    BY <2>2 DEF ChunkRows
  <2>4. /\ scene' = scene /\ phase = "reading" /\ Scanning(m) /\ closed' = {} /\ child' = kid
        /\ Flush(ReadChunk(st, m, SegmentRows(m, child[m].read + 1, to), RestOfJoined(kid)),
                 kid, RestOfJoined(kid))
    BY DEF Chunk, NextScan
  <2> HIDE DEF kid
  <2> QED  BY <2>1, <2>3, <2>4
<1>2. scene \in Scenes
  BY DEF UInv
<1>3. Stage(s) /\ ComparedSoFar(s, kids)
  BY <1>1, ReadChunkKeeps
<1>4. ScansInTurn(kids)
  BY <1>1, NextKidsIs
<1> HIDE DEF kids, rest, s
<1>5. Stage(q) /\ ComparedSoFar(q, kids)
  <2> DEFINE had == Had(kids)
  <2>1. Progress(had)
    BY <1>2, <1>4, HadGrows
  <2> HIDE DEF had, q
  <2>2. /\ Stage(q) /\ q.resumed = s.resumed
        /\ s.early \subseteq q.early /\ Ended(q) \subseteq Ended(s) \cup q.early
        /\ Compared(s, had) => Compared(q, had)
    BY <1>2, <1>3, <2>1, SilencedKeeps DEF q
  <2>3. ComparedSoFar(q, kids)
    <3> SUFFICES ASSUME ~q.resumed
                 PROVE  Compared(q, had) /\ \A o \in Ended(q) : o \in q.early \/ kids[o].state = "done"
      BY DEF ComparedSoFar, had
    <3>1. Compared(s, had) /\ \A o \in Ended(s) : o \in s.early \/ kids[o].state = "done"
      BY <1>3, <2>2 DEF ComparedSoFar, had
    <3> QED  BY <2>2, <3>1
  <2> QED  BY <2>2, <2>3
<1> HIDE DEF q
<1>6. (st' = s \/ st' = q) /\ (phase' = phase \/ phase' = "abandoned")
  BY <1>1 DEF Flush, q
<1>7. Stage(st') /\ ComparedSoFar(st', child') /\ ScansInTurn(child')
  BY <1>1, <1>3, <1>4, <1>5, <1>6
<1>8. ScansInTurn(child)' /\ Stage(st)' /\ ComparedSoFar(st, child)'
  BY <1>1, <1>7, InvariantCarries
<1>9. phase' # "done"
  BY <1>1, <1>6
<1> QED  BY <1>1, <1>2, <1>8, <1>9 DEF UInv

LEMMA UInvFinishRead ==
    ASSUME UInv, FinishRead
    PROVE  UInv'
<1> DEFINE f == RatesFinished(st)
           k == [m \in Combined |-> FinishTrack(f.tracks[m])]
           over == [f EXCEPT !.tracks = k]
<1>1. /\ scene' = scene /\ child' = child /\ closed' = closed /\ phase = "reading"
      /\ \A m \in All : ~Scanning(m)
      /\ \/ phase' = "abandoned" /\ st' = st
         \/ phase' = "done" /\ st' = SettleAll(over) /\ ~st.resumed
  BY DEF FinishRead
<1>2. /\ scene \in Scenes /\ ScansInTurn(child) /\ Stage(st) /\ ComparedSoFar(st, child)
      /\ closed \subseteq {o \in All : child[o].state = "done"}
  BY DEF UInv
<1>3. All' = All
  BY <1>1, SceneStays
<1>4. \A m \in All : child[m].state = "done"
  BY <1>1, <1>2 DEF Scanning, ScansInTurn
<1>5. Stage(f) /\ SameCompare(st, f)
  BY <1>2, RatesFinishedKeeps
<1> HIDE DEF f, k
<1>6. Stage(over) /\ SameCompare(f, over)
  BY <1>5, TracksIs
<1> HIDE DEF over
<1> DEFINE q == SettleAll(over)
<1>7. Stage(q) /\ SameCompare(over, q)
  BY <1>2, <1>6, SettleAllKeeps
<1> HIDE DEF q
<1>8. SameCompare(st, q)
  BY <1>5, <1>6, <1>7 DEF SameCompare
<1>9. ComparedSoFar(q, child)
  <2> DEFINE had == Had(child)
  <2> HIDE DEF had
  <2>1. Compared(st, had) => Compared(q, had) /\ Ended(q) = Ended(st)
    BY <1>8, ComparedAsBefore
  <2>2. q.resumed = st.resumed /\ q.early = st.early
    BY <1>8 DEF SameCompare
  <2>3. Ended(q) = Ended(st)
    BY <1>8 DEF SameCompare, Ended
  <2> QED  BY <1>2, <2>1, <2>2, <2>3 DEF ComparedSoFar, had
<1>10. Stage(st') /\ ComparedSoFar(st', child') /\ ScansInTurn(child')
  BY <1>1, <1>2, <1>7, <1>9 DEF q
<1>11. ScansInTurn(child)' /\ Stage(st)' /\ ComparedSoFar(st, child)'
  BY <1>1, <1>10, InvariantCarries
<1>12. phase' = "done" => ~st'.resumed
  <2>1. q.resumed = st.resumed
    BY <1>8 DEF SameCompare
  <2> QED  BY <1>1, <2>1 DEF q
<1> QED  BY <1>1, <1>2, <1>3, <1>4, <1>11, <1>12 DEF UInv

LEMMA UInvStays ==
    ASSUME UInv, UNCHANGED uvars PROVE UInv'
<1>1. scene' = scene /\ child' = child /\ closed' = closed /\ st' = st /\ phase' = phase
  BY DEF uvars
<1>2. /\ scene \in Scenes /\ ScansInTurn(child) /\ Stage(st) /\ ComparedSoFar(st, child)
      /\ closed \subseteq {o \in All : child[o].state = "done"}
      /\ phase = "done" => ~st.resumed /\ \A m \in All : child[m].state = "done"
  BY DEF UInv
<1>3. All' = All
  BY <1>1, SceneStays
<1>4. ScansInTurn(child)' /\ Stage(st)' /\ ComparedSoFar(st, child)'
  BY <1>1, <1>2, InvariantCarries
<1> QED  BY <1>1, <1>2, <1>3, <1>4 DEF UInv

\* When nothing is left to read, what is found is every conflict.
LEMMA FoundIs ==
    ASSUME UInv PROVE ConflictsAreFound
<1> SUFFICES ASSUME phase = "done"
             PROVE st.found = {<<{p[1], p[2]}, p[3]>> : p \in
                      {q \in Combined \X Combined \X scene.differs :
                          q[1] # q[2] /\ q[3] \in Range(Reads(q[1])) \cap Range(Reads(q[2]))}}
  BY DEF ConflictsAreFound
<1> DEFINE had == Had(child)
           P == {q \in Combined \X Combined \X scene.differs :
                     q[1] # q[2] /\ q[3] \in Range(Reads(q[1])) \cap Range(Reads(q[2]))}
<1>1. /\ scene \in Scenes /\ ScansInTurn(child) /\ ~st.resumed /\ Compared(st, had)
      /\ \A m \in All : child[m].state = "done"
  BY DEF UInv, ComparedSoFar
<1>2. ASSUME NEW m \in Combined PROVE had[m] = Wanted(m) /\ Range(Reads(m)) = Wanted(m)
  <2>1. m \in All
    BY <1>1, SceneIs
  <2>2. child[m].read = Segments(m)
    BY <1>1, <2>1 DEF ScansInTurn
  <2>3. had[m] = Wanted(m)
    BY <1>1, <2>1, <2>2, HadIs DEF Had
  <2>4. Range(Reads(m)) = Wanted(m)
    <3> DEFINE w == Reads(m)
               a == DataStart(m)
               b == scene.grid.end
    <3>1. a \in Nat /\ b \in Nat /\ a <= b
      BY <1>1, <2>1, GridIs
    <3>2. w = Within(m, a, b)
      BY DEF Reads
    <3>3. Wanted(m) = {t \in RowsOf(m) : a <= t /\ t <= b}
      BY DEF Wanted
    <3> HIDE DEF w, a, b
    <3>4. a \in Int /\ b \in Int /\ a <= b + 1
      BY <3>1
    <3>5. w \in Seq(Nat \ {0}) /\ {w[i] : i \in 1 .. Len(w)} = {t \in RowsOf(m) : a <= t /\ t <= b}
      BY <1>1, <2>1, <3>2, <3>4, WithinIs
    <3>6. Range(w) = {w[i] : i \in 1 .. Len(w)}
      BY <3>5, RangeOf
    <3> QED  BY <3>3, <3>5, <3>6 DEF w
  <2> QED  BY <2>3, <2>4
<1> HIDE DEF had
<1>3. ASSUME NEW c \in st.found PROVE \E p \in P : c = <<{p[1], p[2]}, p[3]>>
  <2>1. PICK m \in Combined, o \in Combined : \E t \in scene.differs :
            m # o /\ c = <<{m, o}, t>> /\ t \in had[m] /\ t \in had[o]
    BY <1>1 DEF Compared, Conflict
  <2>2. PICK t \in scene.differs : m # o /\ c = <<{m, o}, t>> /\ t \in had[m] /\ t \in had[o]
    BY <2>1
  <2>3. t \in Range(Reads(m)) /\ t \in Range(Reads(o))
    BY <1>2, <2>2
  <2>4. <<m, o, t>> \in P
    BY <2>2, <2>3
  <2> HIDE DEF P
  <2> WITNESS <<m, o, t>> \in P
  <2> QED  BY <2>2
<1>4. ASSUME NEW p \in P PROVE <<{p[1], p[2]}, p[3]>> \in st.found
  <2>1. PICK m \in Combined, o \in Combined, t \in scene.differs : p = <<m, o, t>>
    OBVIOUS
  <2>2. m # o /\ t \in Range(Reads(m)) /\ t \in Range(Reads(o))
    BY <2>1
  <2>3. t \in had[m] /\ t \in had[o]
    BY <1>2, <2>2
  <2>4. BothRead(st, had, m, o)
    BY <1>1, <2>2 DEF Compared
  <2>5. <<{m, o}, t>> \in st.found
    BY <2>3, <2>4 DEF BothRead
  <2> QED  BY <2>1, <2>5
<1> HIDE DEF P
<1>5. st.found = {<<{p[1], p[2]}, p[3]>> : p \in P}
  BY <1>3, <1>4
<1> QED  BY <1>5 DEF P

\* What a batched read is in, whatever it reads: its scans in turn, and the
\* comparison as far as they have come.
THEOREM UInvHolds == USpec => []UInv
<1>1. UInit => UInv
  BY UInvInit
<1>2. UInv /\ [UNext]_uvars => UInv'
  <2> SUFFICES ASSUME UInv, [UNext]_uvars PROVE UInv'
    OBVIOUS
  <2>1. ASSUME NEW m \in All, ScanEnds(m) PROVE UInv'
    BY <2>1, UInvScanEnds
  <2>2. ASSUME NEW m \in All, NEW n \in ChunkSegments, Chunk(m, n) PROVE UInv'
    BY <2>2, UInvChunk
  <2>3. ASSUME FinishRead PROVE UInv'
    BY <2>3, UInvFinishRead
  <2>4. ASSUME UNCHANGED uvars PROVE UInv'
    BY <2>4, UInvStays
  <2> QED  BY <2>1, <2>2, <2>3, <2>4 DEF UNext
<1> QED  BY <1>1, <1>2, PTL DEF USpec

\* A batched read that finishes has found every row two sources hold at one
\* time with different values, and no other, whatever the sources, the grid,
\* the segments and the chunks: although a row is held only until every
\* other source has read past it, or up to where the rest of the scan
\* starts, and members are ended early as silent (StageCompare).
THEOREM ConflictsAreFoundHolds == USpec => []ConflictsAreFound
<1>1. UInv => ConflictsAreFound
  BY FoundIs
<1> QED  BY <1>1, UInvHolds, PTL
=============================================================================
