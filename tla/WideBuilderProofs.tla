------------------------- MODULE WideBuilderProofs -------------------------
(***************************************************************************)
(* Theorems about the group builder's wide form and the families it walks: *)
(* Family and WideBuilder.                                                 *)
(***************************************************************************)
EXTENDS WideBuilder, Integers, SequenceTheorems, FiniteSetTheorems, WellFoundedInduction, TLAPS

(***************************************************************************)
(* A theorem about Family, for any families and any number of members: a   *)
(* handle owns its slot for as long as it lives.                           *)
(*                                                                         *)
(* The property is inductive together with the types.  A slot that a       *)
(* member is given has no occupant, whether it is taken from the free list *)
(* or is past the table's end; and a handle that is dropped is its slot's  *)
(* only one, since the slot holds one uid.                                 *)
(***************************************************************************)

FamilyInv == FamilyTypeOK /\ EveryHandleOwnsItsSlot

FamilySlots == Nat \ {0}
ListOf(q) == {q[i] : i \in DOMAIN q}
Once(q) == \A i, j \in DOMAIN q : q[i] = q[j] => i = j

\* The part of the property that is about one family.
FamilyOwned(f) ==
    /\ ListOf(free[f]) = DOMAIN table[f] \ Taken(f)
    /\ Once(free[f])
    /\ liveCount[f] = Cardinality(Taken(f))
    /\ \A s \in Taken(f) : [family |-> f, slot |-> s, uid |-> table[f][s]] \in handles

LEMMA OwnedByFamily ==
    EveryHandleOwnsItsSlot <=>
        /\ \A h \in handles : MemberIn(h.family, h.slot) = h.uid
        /\ \A f \in Families : FamilyOwned(f)
BY DEF EveryHandleOwnsItsSlot, FamilyOwned, ListOf, Once

LEMMA OwnedByFamilyNext ==
    EveryHandleOwnsItsSlot' <=>
        /\ \A h \in handles' : MemberIn(h.family, h.slot)' = h.uid
        /\ \A f \in Families : FamilyOwned(f)'
BY DEF EveryHandleOwnsItsSlot, FamilyOwned, ListOf, Once

-----------------------------------------------------------------------------
(* The stack of free slots.                                                *)

LEMMA PushOnto ==
    ASSUME NEW q \in Seq(FamilySlots), NEW x \in FamilySlots, Once(q), x \notin ListOf(q)
    PROVE  LET r == Append(q, x)
           IN  r \in Seq(FamilySlots) /\ ListOf(r) = ListOf(q) \cup {x} /\ Once(r)
<1> DEFINE r == Append(q, x)
           n == Len(q)
<1>1. /\ r \in Seq(FamilySlots) /\ Len(r) = n + 1 /\ r[n + 1] = x
      /\ \A i \in 1..n : r[i] = q[i]
      /\ n \in Nat /\ DOMAIN q = 1..n
  BY AppendProperties, LenProperties
<1>2. DOMAIN r = 1..(n + 1)
  BY <1>1, LenProperties
<1> HIDE DEF r, n
<1>3. ListOf(r) = ListOf(q) \cup {x}
  <2>1. ASSUME NEW i \in DOMAIN r PROVE r[i] \in ListOf(q) \cup {x}
    BY <1>1, <1>2 DEF ListOf
  <2>2. ASSUME NEW i \in DOMAIN q PROVE q[i] \in ListOf(r)
    <3>1. i \in DOMAIN r /\ r[i] = q[i]
      BY <1>1, <1>2
    <3> QED BY <3>1 DEF ListOf
  <2>3. x \in ListOf(r)
    BY <1>1, <1>2 DEF ListOf
  <2> QED BY <2>1, <2>2, <2>3 DEF ListOf
<1>4. Once(r)
  <2> SUFFICES ASSUME NEW i \in DOMAIN r, NEW j \in DOMAIN r, r[i] = r[j] PROVE i = j
    BY DEF Once
  <2>1. \A k \in 1..n : r[k] = q[k] /\ q[k] # x
    BY <1>1 DEF ListOf
  <2> QED BY <1>1, <1>2, <2>1 DEF Once
<1> QED BY <1>1, <1>3, <1>4 DEF r

LEMMA PopTop ==
    ASSUME NEW q \in Seq(FamilySlots), q # <<>>, Once(q)
    PROVE  /\ RestOf(q) \in Seq(FamilySlots) /\ Once(RestOf(q))
           /\ Top(q) \in ListOf(q)
           /\ ListOf(RestOf(q)) = ListOf(q) \ {Top(q)}
<1> DEFINE r == SubSeq(q, 1, Len(q) - 1)
           n == Len(q)
<1>1. n \in Nat /\ n > 0 /\ DOMAIN q = 1..n /\ \A i \in 1..n : q[i] \in FamilySlots
  BY LenProperties, EmptySeq, ElementOfSeq
<1>2. /\ r \in Seq(FamilySlots)
      /\ Len(r) = IF 1 <= n - 1 THEN (n - 1) - 1 + 1 ELSE 0
      /\ \A i \in 1..((n - 1) - 1 + 1) : r[i] = q[1 + i - 1]
  <2>1. 1 \in Int /\ n - 1 \in Int /\ \A i \in 1..(n - 1) : q[i] \in FamilySlots
    BY <1>1
  <2> QED BY <2>1, SubSeqProperties
<1>3. DOMAIN r = 1..Len(r)
  BY <1>2, LenProperties
<1> HIDE DEF r, n
<1>4. Len(r) = n - 1
  BY <1>1, <1>2
<1>5. ASSUME NEW i \in 1..(n - 1) PROVE r[i] = q[i]
  <2>1. i \in 1..((n - 1) - 1 + 1) /\ 1 + i - 1 = i
    BY <1>1
  <2>2. r[i] = q[1 + i - 1]
    BY <1>2, <2>1
  <2> QED BY <2>1, <2>2
<1>6. \A i \in 1..n : i \in 1..(n - 1) \/ i = n
  BY <1>1
<1>7. n \in 1..n /\ \A i \in 1..(n - 1) : i \in 1..n /\ i # n
  BY <1>1
<1>8. ListOf(r) = ListOf(q) \ {q[n]}
  <2>1. ASSUME NEW i \in DOMAIN r PROVE r[i] \in ListOf(q) \ {q[n]}
    <3>1. i \in 1..(n - 1)
      BY <1>3, <1>4
    <3>2. r[i] = q[i] /\ i \in DOMAIN q /\ n \in DOMAIN q /\ i # n
      BY <1>1, <1>5, <1>7, <3>1
    <3> QED BY <3>2 DEF ListOf, Once
  <2>2. ASSUME NEW i \in DOMAIN q, q[i] # q[n] PROVE q[i] \in ListOf(r)
    <3>1. i \in 1..(n - 1)
      BY <1>1, <1>6, <2>2
    <3>2. i \in DOMAIN r /\ r[i] = q[i]
      BY <1>3, <1>4, <1>5, <3>1
    <3> QED BY <3>2 DEF ListOf
  <2> QED BY <2>1, <2>2 DEF ListOf
<1>9. Once(r)
  <2>1. \A i \in DOMAIN r : i \in DOMAIN q /\ r[i] = q[i]
    BY <1>1, <1>3, <1>4, <1>5, <1>7
  <2> QED BY <2>1 DEF Once
<1>10. q[n] \in ListOf(q)
  BY <1>1, <1>7 DEF ListOf
<1> QED BY <1>2, <1>8, <1>9, <1>10 DEF Top, RestOf, r, n

-----------------------------------------------------------------------------
LEMMA TakenIsFinite ==
    ASSUME FamilyTypeOK, NEW f \in Families
    PROVE  /\ DOMAIN table[f] = 1..Len(table[f]) /\ Len(table[f]) \in Nat
           /\ IsFiniteSet(Taken(f)) /\ Cardinality(Taken(f)) \in Nat
<1>1. DOMAIN table[f] = 1..Len(table[f]) /\ Len(table[f]) \in Nat
  BY LenProperties DEF FamilyTypeOK
<1>2. IsFiniteSet(1..Len(table[f]))
  <2>1. 1 \in Int /\ Len(table[f]) \in Int
    BY <1>1
  <2> QED BY <2>1, FS_Interval
<1> QED BY <1>1, <1>2, FS_Subset, FS_CardinalityType DEF Taken

\* A member is given a slot without an occupant, and its handle.
LEMMA GivenKeeps ==
    ASSUME FamilyInv, FamilyTypeOK', NEW f \in Families, NEW s \in FamilySlots,
           s \notin Taken(f), Insert(f, s, minted + 1),
           \A g \in Families : g # f => table'[g] = table[g] /\ free'[g] = free[g],
           DOMAIN table'[f] = DOMAIN table[f] \cup {s},
           table'[f][s] = minted + 1,
           \A t \in DOMAIN table[f] : t # s => table'[f][t] = table[f][t],
           ListOf(free'[f]) = ListOf(free[f]) \ {s}, Once(free'[f])
    PROVE  EveryHandleOwnsItsSlot'
<1> DEFINE new == [family |-> f, slot |-> s, uid |-> minted + 1]
<1>1. minted + 1 \in FamilySlots /\ minted + 1 # Vacant
  BY FamilyAssumption DEF FamilyInv, FamilyTypeOK, FamilySlots, Vacant
<1>2. handles' = handles \cup {new}
  BY DEF Insert
<1>3. \A h \in handles : h.uid # Vacant /\ h.family \in Families
  BY DEF FamilyInv, FamilyTypeOK, Handle, Vacant
<1>4. /\ \A h \in handles : MemberIn(h.family, h.slot) = h.uid
      /\ \A g \in Families : FamilyOwned(g)
  BY OwnedByFamily DEF FamilyInv
<1>5. ASSUME NEW h \in handles' PROVE MemberIn(h.family, h.slot)' = h.uid
  <2>1. CASE h \in handles
    <3>1. CASE h.family = f
      <4>1. h.slot \in DOMAIN table[f] /\ table[f][h.slot] = h.uid
        BY <1>3, <1>4, <2>1, <3>1 DEF MemberIn
      <4>2. h.slot # s
        BY <1>3, <2>1, <4>1 DEF Taken
      <4> QED BY <3>1, <4>1, <4>2 DEF MemberIn
    <3>2. CASE h.family # f
      BY <1>3, <1>4, <2>1, <3>2 DEF MemberIn
    <3> QED BY <3>1, <3>2
  <2>2. CASE h = new
    BY <2>2 DEF MemberIn
  <2> QED BY <1>2, <2>1, <2>2
<1>6. ASSUME NEW g \in Families, g # f PROVE FamilyOwned(g)'
  <2>1. Taken(g)' = Taken(g) /\ liveCount'[g] = liveCount[g]
    BY <1>6 DEF Taken, Insert, FamilyInv, FamilyTypeOK
  <2> QED BY <1>2, <1>4, <1>6, <2>1 DEF FamilyOwned
<1>7. FamilyOwned(f)'
  <2>1. Taken(f)' = Taken(f) \cup {s}
    BY <1>1 DEF Taken
  <2>2. liveCount'[f] = liveCount[f] + 1
    BY DEF Insert, FamilyInv, FamilyTypeOK
  <2>3. Cardinality(Taken(f) \cup {s}) = Cardinality(Taken(f)) + 1
    BY TakenIsFinite, FS_AddElement DEF FamilyInv
  <2>4. (liveCount[f] = Cardinality(Taken(f)))'
    BY <1>4, <2>1, <2>2, <2>3 DEF FamilyOwned
  <2>5. ListOf(free'[f]) = DOMAIN table'[f] \ Taken(f)'
    BY <1>4, <2>1 DEF FamilyOwned
  <2>6. ASSUME NEW t \in Taken(f)'
        PROVE [family |-> f, slot |-> t, uid |-> table'[f][t]] \in handles'
    <3>1. CASE t = s
      BY <1>2, <3>1
    <3>2. CASE t # s
      <4>1. t \in Taken(f) /\ table'[f][t] = table[f][t]
        BY <2>1, <3>2 DEF Taken
      <4> QED BY <1>2, <1>4, <4>1 DEF FamilyOwned
    <3> QED BY <3>1, <3>2
  <2> QED BY <2>4, <2>5, <2>6 DEF FamilyOwned
<1>8. \A g \in Families : FamilyOwned(g)'
  BY <1>6, <1>7
<1> QED BY <1>5, <1>8, OwnedByFamilyNext

LEMMA InsertTypes ==
    ASSUME FamilyTypeOK, NEW f \in Families, NEW s \in FamilySlots, Insert(f, s, minted + 1),
           minted < MaxMembers, minted' = minted + 1
    PROVE  /\ liveCount' \in [Families -> Nat] /\ tableVersion' \in [Families -> Nat]
           /\ minted' \in 0..MaxMembers /\ handles' \subseteq Handle
           /\ minted + 1 \in Nat \ {0}
<1>1. minted + 1 \in Nat \ {0} /\ minted' \in 0..MaxMembers
  BY FamilyAssumption DEF FamilyTypeOK
<1>2. [family |-> f, slot |-> s, uid |-> minted + 1] \in Handle
  BY <1>1 DEF Handle, FamilySlots
<1> QED BY <1>1, <1>2 DEF Insert, FamilyTypeOK

LEMMA ReusingKeeps ==
    ASSUME FamilyInv, NEW f \in Families, CreateReusing(f),
           minted < MaxMembers, minted' = minted + 1
    PROVE  FamilyInv'
<1> DEFINE s == Top(free[f])
           q == free[f]
<1>1. FamilyOwned(f) /\ q \in Seq(FamilySlots) /\ table[f] \in Seq(Nat) /\ q # <<>>
  BY OwnedByFamily DEF FamilyInv, FamilyTypeOK, CreateReusing, FamilySlots
<1>2. /\ RestOf(q) \in Seq(FamilySlots) /\ Once(RestOf(q)) /\ s \in ListOf(q)
      /\ ListOf(RestOf(q)) = ListOf(q) \ {s}
  BY <1>1, PopTop DEF FamilyOwned
<1>3. s \in DOMAIN table[f] /\ s \notin Taken(f)
  BY <1>1, <1>2 DEF FamilyOwned
<1>4. s \in 1..Len(table[f]) /\ s \in FamilySlots /\ DOMAIN table[f] = 1..Len(table[f])
  BY <1>3, TakenIsFinite DEF FamilyInv, FamilySlots
<1>5. /\ Insert(f, s, minted + 1)
      /\ free' = [free EXCEPT ![f] = RestOf(@)]
      /\ table' = [table EXCEPT ![f][s] = minted + 1]
  BY DEF CreateReusing
<1> HIDE DEF s, q
<1>6. /\ liveCount' \in [Families -> Nat] /\ tableVersion' \in [Families -> Nat]
      /\ minted' \in 0..MaxMembers /\ handles' \subseteq Handle /\ minted + 1 \in Nat
  BY <1>4, <1>5, InsertTypes DEF FamilyInv
<1>7. /\ table'[f] = [table[f] EXCEPT ![s] = minted + 1]
      /\ table' = [table EXCEPT ![f] = [table[f] EXCEPT ![s] = minted + 1]]
      /\ free'[f] = RestOf(q)
      /\ \A g \in Families : g # f => table'[g] = table[g] /\ free'[g] = free[g]
  BY <1>5 DEF FamilyInv, FamilyTypeOK, q
<1>8. /\ table'[f] \in Seq(Nat) /\ Len(table'[f]) = Len(table[f])
      /\ \A j \in 1..Len(table[f]) : table'[f][j] = IF j = s THEN minted + 1 ELSE table[f][j]
  BY <1>1, <1>4, <1>6, <1>7, ExceptSeq
<1>9. DOMAIN table'[f] = DOMAIN table[f]
  BY <1>4, <1>8, LenProperties
<1>10. FamilyTypeOK'
  <2>1. table' \in [Families -> Seq(Nat)]
    BY <1>7, <1>8 DEF FamilyInv, FamilyTypeOK
  <2>2. free' \in [Families -> Seq(Nat \ {0})]
    BY <1>2, <1>5 DEF FamilyInv, FamilyTypeOK, FamilySlots, q
  <2> QED BY <1>6, <2>1, <2>2 DEF FamilyTypeOK
<1>11. EveryHandleOwnsItsSlot'
  <2>1. DOMAIN table'[f] = DOMAIN table[f] \cup {s}
    BY <1>3, <1>9
  <2>2. table'[f][s] = minted + 1 /\ \A t \in DOMAIN table[f] : t # s => table'[f][t] = table[f][t]
    BY <1>4, <1>8
  <2>3. ListOf(free'[f]) = ListOf(free[f]) \ {s} /\ Once(free'[f])
    BY <1>2, <1>7 DEF q
  <2> QED BY <1>3, <1>4, <1>5, <1>7, <1>10, <2>1, <2>2, <2>3, GivenKeeps
<1> QED BY <1>10, <1>11 DEF FamilyInv

LEMMA GrowingKeeps ==
    ASSUME FamilyInv, NEW f \in Families, CreateGrowing(f),
           minted < MaxMembers, minted' = minted + 1
    PROVE  FamilyInv'
<1> DEFINE n == Len(table[f])
           s == n + 1
<1>1. FamilyOwned(f) /\ table[f] \in Seq(Nat) /\ n \in Nat /\ DOMAIN table[f] = 1..n
  BY OwnedByFamily, TakenIsFinite DEF FamilyInv, FamilyTypeOK
<1>2. s \in FamilySlots /\ s \notin DOMAIN table[f] /\ s \notin Taken(f)
  BY <1>1 DEF FamilySlots, Taken
<1>3. /\ Insert(f, s, minted + 1) /\ free' = free /\ free[f] = <<>>
      /\ table' = [table EXCEPT ![f] = Append(@, minted + 1)]
  BY DEF CreateGrowing, NewSlot
<1>4. /\ liveCount' \in [Families -> Nat] /\ tableVersion' \in [Families -> Nat]
      /\ minted' \in 0..MaxMembers /\ handles' \subseteq Handle /\ minted + 1 \in Nat
  BY <1>2, <1>3, InsertTypes DEF FamilyInv
<1>5. /\ table'[f] = Append(table[f], minted + 1)
      /\ \A g \in Families : g # f => table'[g] = table[g] /\ free'[g] = free[g]
  BY <1>3 DEF FamilyInv, FamilyTypeOK
<1>6. /\ table'[f] \in Seq(Nat) /\ Len(table'[f]) = n + 1 /\ table'[f][n + 1] = minted + 1
      /\ \A i \in 1..n : table'[f][i] = table[f][i]
  BY <1>1, <1>4, <1>5, AppendProperties
<1>7. DOMAIN table'[f] = 1..(n + 1)
  BY <1>6, LenProperties
<1> HIDE DEF n
<1>8. FamilyTypeOK'
  <2>1. table' \in [Families -> Seq(Nat)]
    BY <1>3, <1>5, <1>6 DEF FamilyInv, FamilyTypeOK
  <2> QED BY <1>3, <1>4, <2>1 DEF FamilyInv, FamilyTypeOK
<1>9. EveryHandleOwnsItsSlot'
  <2>1. DOMAIN table'[f] = DOMAIN table[f] \cup {s}
    BY <1>1, <1>7
  <2>2. table'[f][s] = minted + 1 /\ \A t \in DOMAIN table[f] : t # s => table'[f][t] = table[f][t]
    BY <1>1, <1>6
  <2>3. ListOf(free[f]) = {} /\ Once(free[f])
    <3>1. DOMAIN free[f] = {}
      BY <1>3
    <3> QED BY <3>1 DEF ListOf, Once
  <2>4. ListOf(free'[f]) = ListOf(free[f]) \ {s} /\ Once(free'[f])
    BY <1>3, <2>3
  <2> QED BY <1>2, <1>3, <1>5, <1>8, <2>1, <2>2, <2>4, GivenKeeps
<1> QED BY <1>8, <1>9 DEF FamilyInv

\* The slot of a dropped handle goes free, and no other handle was of it.
LEMMA DropKeeps ==
    ASSUME FamilyInv, NEW h \in handles, DropMember(h)
    PROVE  FamilyInv'
<1> DEFINE f == h.family
           s == h.slot
           q == free[f]
<1>1. f \in Families /\ s \in FamilySlots /\ h.uid # Vacant /\ h = [family |-> f, slot |-> s, uid |-> h.uid]
  BY DEF FamilyInv, FamilyTypeOK, Handle, FamilySlots, Vacant
<1>2. /\ \A k \in handles : MemberIn(k.family, k.slot) = k.uid
      /\ \A g \in Families : FamilyOwned(g)
  BY OwnedByFamily DEF FamilyInv
<1>3. s \in DOMAIN table[f] /\ table[f][s] = h.uid
  BY <1>1, <1>2 DEF MemberIn
<1>4. /\ table[f] \in Seq(Nat) /\ q \in Seq(FamilySlots) /\ DOMAIN table[f] = 1..Len(table[f])
      /\ IsFiniteSet(Taken(f)) /\ Cardinality(Taken(f)) \in Nat
  BY <1>1, TakenIsFinite DEF FamilyInv, FamilyTypeOK, FamilySlots
<1>5. s \in Taken(f)
  BY <1>1, <1>3 DEF Taken
<1>6. /\ table' = [table EXCEPT ![f][s] = Vacant]
      /\ free' = [free EXCEPT ![f] = Append(@, s)]
      /\ liveCount' = [liveCount EXCEPT ![f] = @ - 1]
      /\ tableVersion' = [tableVersion EXCEPT ![f] = @ + 1]
      /\ handles' = handles \ {h} /\ minted' = minted
  BY <1>1, <1>3 DEF DropMember
<1>7. FamilyOwned(f) /\ s \notin ListOf(q)
  BY <1>1, <1>2, <1>5 DEF FamilyOwned
<1>8. Append(q, s) \in Seq(FamilySlots) /\ ListOf(Append(q, s)) = ListOf(q) \cup {s} /\ Once(Append(q, s))
  BY <1>1, <1>4, <1>7, PushOnto DEF FamilyOwned
<1>9. liveCount[f] = Cardinality(Taken(f)) /\ Cardinality(Taken(f) \ {s}) = Cardinality(Taken(f)) - 1
      /\ liveCount[f] - 1 \in Nat
  <2>1. liveCount[f] = Cardinality(Taken(f))
    BY <1>7 DEF FamilyOwned
  <2>2. Cardinality(Taken(f) \ {s}) = Cardinality(Taken(f)) - 1
    BY <1>4, <1>5, FS_RemoveElement
  <2>3. Cardinality(Taken(f) \ {s}) \in Nat
    BY <1>4, FS_Subset, FS_CardinalityType
  <2> QED BY <2>1, <2>2, <2>3
<1> HIDE DEF f, s, q
<1>10. /\ table'[f] = [table[f] EXCEPT ![s] = Vacant]
       /\ table' = [table EXCEPT ![f] = [table[f] EXCEPT ![s] = Vacant]]
       /\ free'[f] = Append(q, s) /\ liveCount'[f] = liveCount[f] - 1
       /\ \A g \in Families : g # f => /\ table'[g] = table[g] /\ free'[g] = free[g]
                                       /\ liveCount'[g] = liveCount[g]
  BY <1>1, <1>6 DEF FamilyInv, FamilyTypeOK, q
<1>11. /\ table'[f] \in Seq(Nat) /\ Len(table'[f]) = Len(table[f])
       /\ \A j \in 1..Len(table[f]) : table'[f][j] = IF j = s THEN Vacant ELSE table[f][j]
  BY <1>3, <1>4, <1>10, ExceptSeq DEF Vacant
<1>12. DOMAIN table'[f] = DOMAIN table[f]
  BY <1>4, <1>11, LenProperties
<1>13. FamilyTypeOK'
  <2>1. table' \in [Families -> Seq(Nat)]
    BY <1>10, <1>11 DEF FamilyInv, FamilyTypeOK
  <2>2. free' \in [Families -> Seq(Nat \ {0})]
    BY <1>6, <1>8 DEF FamilyInv, FamilyTypeOK, FamilySlots, q
  <2>3. liveCount' \in [Families -> Nat]
    BY <1>6, <1>9 DEF FamilyInv, FamilyTypeOK
  <2>4. tableVersion' \in [Families -> Nat]
    BY <1>1, <1>6 DEF FamilyInv, FamilyTypeOK
  <2> QED BY <1>6, <2>1, <2>2, <2>3, <2>4 DEF FamilyInv, FamilyTypeOK
<1>14. ASSUME NEW k \in handles' PROVE MemberIn(k.family, k.slot)' = k.uid
  <2>1. /\ k \in handles /\ k # h /\ k \in Handle /\ k.uid # Vacant
        /\ k = [family |-> k.family, slot |-> k.slot, uid |-> k.uid] /\ k.family \in Families
        /\ MemberIn(k.family, k.slot) = k.uid
    BY <1>2, <1>6, <1>14 DEF FamilyInv, FamilyTypeOK, Handle, Vacant
  <2>2. CASE k.family = f
    <3>1. k.slot \in DOMAIN table[f] /\ table[f][k.slot] = k.uid
      BY <2>1, <2>2 DEF MemberIn
    <3>2. k.slot # s
      BY <1>1, <1>3, <2>1, <2>2, <3>1
    <3> QED BY <1>4, <1>11, <1>12, <2>2, <3>1, <3>2 DEF MemberIn
  <2>3. CASE k.family # f
    BY <1>10, <2>1, <2>3 DEF MemberIn
  <2> QED BY <2>2, <2>3
<1>15. ASSUME NEW g \in Families, g # f PROVE FamilyOwned(g)'
  <2>1. Taken(g)' = Taken(g)
    BY <1>10, <1>15 DEF Taken
  <2>2. ASSUME NEW t \in Taken(g)
        PROVE  [family |-> g, slot |-> t, uid |-> table[g][t]] \in handles'
    <3>1. [family |-> g, slot |-> t, uid |-> table[g][t]] \in handles
      BY <1>2 DEF FamilyOwned
    <3> QED BY <1>1, <1>6, <1>15, <3>1
  <2> QED BY <1>2, <1>10, <1>15, <2>1, <2>2 DEF FamilyOwned
<1>16. FamilyOwned(f)'
  <2>1. Taken(f)' = Taken(f) \ {s}
    BY <1>4, <1>11, <1>12 DEF Taken
  <2>2. (liveCount[f] = Cardinality(Taken(f)))'
    BY <1>9, <1>10, <2>1
  <2>3. ListOf(free'[f]) = DOMAIN table'[f] \ Taken(f)' /\ Once(free'[f])
    BY <1>3, <1>7, <1>8, <1>10, <1>12, <2>1 DEF FamilyOwned, q
  <2>4. ASSUME NEW t \in Taken(f)'
        PROVE [family |-> f, slot |-> t, uid |-> table'[f][t]] \in handles'
    <3>1. t \in Taken(f) /\ t # s /\ table'[f][t] = table[f][t]
      BY <1>4, <1>11, <2>1 DEF Taken
    <3>2. [family |-> f, slot |-> t, uid |-> table[f][t]] \in handles
      BY <1>7, <3>1 DEF FamilyOwned
    <3> QED BY <1>1, <1>6, <3>1, <3>2
  <2> QED BY <2>2, <2>3, <2>4 DEF FamilyOwned
<1>17. EveryHandleOwnsItsSlot'
  <2>1. \A g \in Families : FamilyOwned(g)'
    BY <1>15, <1>16
  <2> QED BY <1>14, <2>1, OwnedByFamilyNext
<1> QED BY <1>13, <1>17 DEF FamilyInv

-----------------------------------------------------------------------------
LEMMA FamilyInvInit == FamilyInit => FamilyInv
<1> SUFFICES ASSUME FamilyInit PROVE FamilyInv
  OBVIOUS
<1>1. FamilyTypeOK
  BY FamilyAssumption, EmptySeq DEF FamilyInit, FamilyTypeOK
<1>2. ASSUME NEW f \in Families PROVE FamilyOwned(f)
  <2>1. table[f] = <<>> /\ free[f] = <<>> /\ liveCount[f] = 0
    BY DEF FamilyInit
  <2>2. DOMAIN table[f] = {} /\ DOMAIN free[f] = {}
    BY <2>1
  <2>3. Taken(f) = {} /\ ListOf(free[f]) = {} /\ Once(free[f])
    BY <2>2 DEF Taken, ListOf, Once
  <2>4. Cardinality(Taken(f)) = 0
    BY <2>3, FS_EmptySet
  <2> QED BY <2>1, <2>2, <2>3, <2>4 DEF FamilyOwned
<1>3. EveryHandleOwnsItsSlot
  BY <1>2, OwnedByFamily DEF FamilyInit
<1> QED BY <1>1, <1>3 DEF FamilyInv

LEMMA FamilyInvStep == FamilyInv /\ [FamilyNext]_familyVars => FamilyInv'
<1> SUFFICES ASSUME FamilyInv, [FamilyNext]_familyVars PROVE FamilyInv'
  OBVIOUS
<1>1. ASSUME NEW f \in Families, CreateMember(f) PROVE FamilyInv'
  BY <1>1, ReusingKeeps, GrowingKeeps DEF CreateMember
<1>2. ASSUME NEW h \in handles, DropMember(h) PROVE FamilyInv'
  BY <1>2, DropKeeps
<1>3. CASE UNCHANGED familyVars
  <2>1. FamilyTypeOK'
    BY <1>3 DEF familyVars, FamilyInv, FamilyTypeOK
  <2>2. ASSUME NEW f \in Families PROVE FamilyOwned(f)'
    <3>1. FamilyOwned(f) /\ Taken(f)' = Taken(f)
      BY <1>3, OwnedByFamily DEF FamilyInv, familyVars, Taken
    <3> QED BY <1>3, <3>1 DEF familyVars, FamilyOwned
  <2>3. \A h \in handles' : MemberIn(h.family, h.slot)' = h.uid
    BY <1>3, OwnedByFamily DEF FamilyInv, familyVars, MemberIn
  <2> QED BY <2>1, <2>2, <2>3, OwnedByFamilyNext DEF FamilyInv
<1> QED BY <1>1, <1>2, <1>3 DEF FamilyNext

\* Whatever members are created and dropped, in whatever order their slots
\* are reused, a handle reads its own member until it is dropped.
THEOREM HandlesOwnTheirSlots == FamilySpec => []EveryHandleOwnsItsSlot
<1>1. FamilyInv => EveryHandleOwnsItsSlot
  BY DEF FamilyInv
<1> QED BY FamilyInvInit, FamilyInvStep, <1>1, PTL DEF FamilySpec

-----------------------------------------------------------------------------
(***************************************************************************)
(* A theorem about WideBuilder, for any families, plain metrics, slots and *)
(* dynamic metrics: a build the producer leaves alone is exact, but for    *)
(* the name of a dynamic metric that came to another's position.           *)
(*                                                                         *)
(* A build that finds its identity cached reuses a schema that an earlier  *)
(* build made, and members may have come and gone under that one.  The     *)
(* invariant says what the schema is worth (SkeletonInv): its identity is  *)
(* the fold of its places, and the version folded for a family is either   *)
(* older than the family's, or the schema has of the family exactly what   *)
(* is there now (Known).  It is kept because the version is read before    *)
(* the members: a label read after the table changed is under a version    *)
(* that is already old.  An undisturbed first pass folds the group as it   *)
(* stands, with the versions of now (FoldInv).  If the folds are equal,    *)
(* so are the places, and the versions are not old, so the schema          *)
(* describes the group (SchemaIsNow).  The dynamic metrics may be others   *)
(* than those the schema was made of, since it folds their positions and   *)
(* no version; what the schema has of one is the name its position had     *)
(* then (Named).                                                           *)
(*                                                                         *)
(* That equal folds mean equal places is what the theorem's hypotheses are *)
(* for: the numbers are folded with nothing between them, and a plain      *)
(* metric's slots can be taken for the next metric's position and version. *)
(* Where families come first and no slot of a plain metric is the number   *)
(* of a dynamic one's position they cannot (OneFoldOneGroup): at the first *)
(* place where two groups differ, one has the next metric's position where *)
(* the other still has a slot, and of families all that have one version   *)
(* have the same slots.                                                    *)
(***************************************************************************)

\* The readings of `group` that come before metric q.
Cut(group, q, k) ==
    /\ k \in 0..Len(group)
    /\ \A i \in 1..k : group[i].metric < q
    /\ \A i \in k + 1..Len(group) : group[i].metric >= q

Folded(p) == IF p <= NumStatic THEN p ELSE NumStatic

\* `id` is the fold of the readings of `group`, of the metrics up to p.
FoldOf(id, group, p) ==
    /\ Len(id) = Len(group) + 2 * Folded(p)
    /\ \A i \in 1..Len(group) :
        IF group[i].metric \in Static
        THEN id[i + 2 * group[i].metric] = group[i].slot - 1
        ELSE group[i].slot = 1 /\ id[i + 2 * NumStatic] = group[i].metric - 1
    /\ \A q \in Static, k \in Nat : q <= p /\ Cut(group, q, k) =>
        /\ id[k + 2 * q - 1] = q - 1
        /\ q \in Plain => id[k + 2 * q] = 0

\* `group` is in order, of metrics up to p, and of p before the slots `rest`.
Ordered(group, p, rest) ==
    /\ \A i, j \in 1..Len(group) : i < j =>
        \/ group[i].metric < group[j].metric
        \/ group[i].metric = group[j].metric /\ group[i].slot < group[j].slot
    /\ \A i \in 1..Len(group) :
        /\ group[i].metric <= p
        /\ group[i].metric = p => \A r \in rest : group[i].slot < r

\* `group` is what the members up to p read, without the slots `rest` of p.
Exact(group, p, rest) ==
    /\ \A i \in 1..Len(group) : group[i] \in GroupNow
    /\ \A x \in GroupNow : x.metric <= p /\ ~(x.metric = p /\ x.slot \in rest) =>
        \E i \in 1..Len(group) : group[i] = x

\* The family versions folded are those of now.
VersionsNow(id, group, p) ==
    \A q \in Families, k \in Nat : q <= p /\ Cut(group, q, k) => id[k + 2 * q] = tableVersion[q]

\* `descd` has of family q what is there, apart from the slots `rest` of p.
Current(descd, q, p, rest) ==
    /\ \A i \in 1..Len(descd) : descd[i].metric = q => descd[i] \in GroupNow
    /\ \A x \in GroupNow : x.metric = q /\ ~(q = p /\ x.slot \in rest) =>
        \E i \in 1..Len(descd) : descd[i] = x

\* A version that was folded is older than the family's, or what was read
\* after it is still so.
Known(id, group, descd, p, rest) ==
    \A q \in Families, k \in Nat : q <= p /\ Cut(group, q, k) =>
        /\ id[k + 2 * q] <= tableVersion[q]
        /\ id[k + 2 * q] = tableVersion[q] => Current(descd, q, p, rest)

\* What is not a family's is read as it stands.
DynamicNow == {Reads(p, 1) : p \in NumStatic + 1..NumRegistered}
Others(descd) ==
    \A i \in 1..Len(descd) :
        /\ descd[i].metric \in Plain => descd[i].who = Vacant /\ descd[i].slot \in PlainSlots
        /\ descd[i].metric \notin Static => descd[i] \in DynamicNow

\* The same of a schema made when `then` were the dynamic metrics' names.
Named(descd, then) ==
    \A i \in 1..Len(descd) :
        /\ descd[i].metric \in Plain => descd[i].who = Vacant /\ descd[i].slot \in PlainSlots
        /\ descd[i].metric \notin Static =>
            /\ descd[i].metric - NumStatic \in 1..Len(then)
            /\ descd[i].who = then[descd[i].metric - NumStatic]

\* `descd` is `group`, its dynamic metrics under the names `then`.
Describes(descd, group, then) ==
    Len(descd) = Len(group) /\ \A i \in 1..Len(group) : descd[i] = DescribedAs(group[i], then)

\* The slots `rest` of p are there, if p is as it was when it was folded.
Attested(id, group, p, rest) ==
    p \in Families => \A k \in Nat : Cut(group, p, k) /\ id[k + 2 * p] = tableVersion[p] =>
        \A r \in rest : \E x \in GroupNow : x.metric = p /\ x.slot = r

SamePlaces(g, h) ==
    \A i \in 1..Len(g) : g[i].metric = h[i].metric /\ g[i].slot = h[i].slot

-----------------------------------------------------------------------------
AllSlots == Nat \ {0}
Folding == phase \in {"fold", "fold_members"}
Walking == phase \in {"walk", "walk_members", "describe"}
Left ==
    IF phase \in {"fold", "walk"} THEN AllSlots
    ELSE IF phase = "describe" THEN {r \in remaining : \E x \in remaining : x < r}
    ELSE remaining
ToDescribe == IF phase = "walk" THEN AllSlots ELSE remaining

PassInv ==
    /\ phase # "idle" => cursor \in 1..NumRegistered
    /\ phase \in {"fold_members", "walk_members", "describe"} =>
        /\ cursor \notin Static => remaining \subseteq {1}
        /\ cursor \in Plain => remaining \subseteq PlainSlots
    /\ phase \in {"fold_members", "walk_members", "describe"} /\ undisturbed =>
        remaining \subseteq Walked(cursor)
    /\ Folding => values = <<>> /\ descs = <<>>
    /\ phase # "idle" => emitted = NoGroup

\* As many metrics were walked when the cached schema was made.
Made == NumStatic + Len(skeleton.names)

SkeletonInv ==
    skeleton # NoSkeleton =>
        /\ FoldOf(skeleton.identity, skeleton.schema, Made)
        /\ Ordered(skeleton.schema, Made, {})
        /\ Known(skeleton.identity, skeleton.schema, skeleton.schema, Made, {})
        /\ Named(skeleton.schema, skeleton.names)
        /\ Addresses = {} => skeleton.names = <<>>

FoldInv ==
    Folding /\ undisturbed => \E g \in Seq(Reading) :
        /\ FoldOf(identity, g, cursor)
        /\ Ordered(g, cursor, Left)
        /\ Exact(g, cursor, Left)
        /\ VersionsNow(identity, g, cursor)

WalkInv ==
    Walking =>
        /\ Ordered(values, cursor, Left)
        /\ undisturbed => Exact(values, cursor, Left)

Miss ==
    /\ FoldOf(identity, values, cursor)
    /\ Len(values) = Len(descs) + IF phase = "describe" THEN 1 ELSE 0
    /\ phase = "describe" =>
        /\ values[Len(values)].metric = cursor
        /\ values[Len(values)].slot \in remaining
        /\ \A r \in remaining : values[Len(values)].slot <= r
    /\ SamePlaces(descs, values)
    /\ undisturbed => \A i \in 1..Len(descs) : descs[i] = values[i]
    /\ Known(identity, values, descs, cursor, ToDescribe)
    /\ phase # "walk" => Attested(identity, values, cursor, remaining)
    /\ Others(descs)
MissInv == Walking /\ needsSchema => Miss

HitInv ==
    Walking /\ ~needsSchema /\ undisturbed =>
        /\ skeleton # NoSkeleton
        /\ \E g \in Seq(Reading) :
            /\ Ordered(g, NumRegistered, {})
            /\ Exact(g, NumRegistered, {})
            /\ Describes(skeleton.schema, g, skeleton.names)

EmittedInv ==
    phase = "idle" /\ undisturbed =>
        /\ Describes(emitted.schema, emitted.values, skeleton.names)
        /\ Ordered(emitted.values, NumRegistered, {})
        /\ Exact(emitted.values, NumRegistered, {})

RegistryInv == RegistryTypeOK /\ \A a \in Addresses : a \in alive <=> entries[a] # Unregistered

-----------------------------------------------------------------------------
(* Orders and cuts. *)

\* The families of the group are walked before its plain metrics.
FamiliesFirst == \A f \in Families, p \in Plain : f < p

\* No slot of a plain metric has the number of a dynamic one's position.
DynamicsApart == Plain = {} \/ PlainSlots \subseteq Static \/ Addresses = {}

LEMMA WideConstants ==
    /\ NumStatic \in Nat /\ NumStatic > 0 /\ Static = 1..NumStatic
    /\ Families \subseteq Static /\ Plain = Static \ Families
    /\ PlainSlots \subseteq Nat \ {0}
    /\ \A p \in Nat : Folded(p) \in Nat
BY WideBuilderAssumption, RegistryAssumption DEF Static, Plain, Folded

LEMMA StaticIs ==
    ASSUME NEW p \in Nat \ {0}
    PROVE  p \in Static <=> p <= NumStatic
BY WideConstants

\* A set of naturals has a least element.
LEMMA LeastExists ==
    ASSUME NEW T, T \subseteq Nat, T # {}
    PROVE  \E m \in T : \A k \in T : m <= k
<1> DEFINE R == {p \in Nat \X Nat : p[1] < p[2]}
<1>1. IsWellFoundedOn(R, Nat)
  <2>1. IsWellFoundedOn(OpToRel(<, Nat), Nat)
    BY NatLessThanWellFounded
  <2>2. R \cap (Nat \X Nat) \subseteq OpToRel(<, Nat)
    BY DEF OpToRel
  <2> QED BY <2>1, <2>2, IsWellFoundedOnSubrelation
<1>2. PICK m \in T : \A k \in T : ~ (<<k, m>> \in R)
  BY <1>1, WFMin
<1>3. ASSUME NEW k \in T PROVE m <= k
  <2>1. ~(k < m)
    BY <1>2
  <2> QED BY <2>1
<1> QED BY <1>3

LEMMA GroupTypes ==
    ASSUME NEW g \in Seq(Reading)
    PROVE  /\ Len(g) \in Nat /\ DOMAIN g = 1..Len(g)
           /\ \A i \in 1..Len(g) :
                g[i] \in Reading /\ g[i].metric \in Nat \ {0} /\ g[i].slot \in Nat \ {0}
<1>1. Len(g) \in Nat /\ DOMAIN g = 1..Len(g)
  BY LenProperties
<1>2. ASSUME NEW i \in 1..Len(g) PROVE g[i] \in Reading
  BY <1>2, ElementOfSeq
<1>3. \A x \in Reading : x.metric \in Nat \ {0} /\ x.slot \in Nat \ {0}
  BY DEF Reading
<1> QED  BY <1>1, <1>2, <1>3

\* A group in order is cut at each metric.
LEMMA CutExists ==
    ASSUME NEW g \in Seq(Reading), NEW n, NEW rest, Ordered(g, n, rest), NEW q \in Nat
    PROVE  \E k \in Nat : Cut(g, q, k)
<1> DEFINE T == {i \in 1..Len(g) : g[i].metric >= q} \cup {Len(g) + 1}
<1>1. Len(g) \in Nat /\ \A i \in 1..Len(g) : g[i].metric \in Nat
  BY GroupTypes
<1>2. PICK m \in T : \A k \in T : m <= k
  <2>1. T \subseteq Nat /\ T # {}
    BY <1>1
  <2> HIDE DEF T
  <2> QED  BY <2>1, LeastExists
<1>3. m \in 1..Len(g) + 1
  BY <1>1, <1>2
<1>4. ASSUME NEW i \in 1..m - 1 PROVE g[i].metric < q
  <2>1. i \notin T /\ i \in 1..Len(g)
    BY <1>1, <1>2, <1>3
  <2> QED  BY <1>1, <2>1
<1>5. ASSUME NEW i \in m..Len(g) PROVE g[i].metric >= q
  <2>1. m \in 1..Len(g) /\ g[m].metric >= q
    BY <1>1, <1>2, <1>3
  <2>2. i = m \/ g[m].metric <= g[i].metric
    BY <1>1, <2>1 DEF Ordered
  <2> QED  BY <1>1, <2>1, <2>2
<1>6. Cut(g, q, m - 1)
  BY <1>1, <1>3, <1>4, <1>5 DEF Cut
<1> QED  BY <1>1, <1>3, <1>6

-----------------------------------------------------------------------------
(* A fold is read in one way, when families come first. *)

\* The slots of g's plain metrics are apart from the positions of dynamic ones.
SlotsApart(g) == \A i \in 1..Len(g) : g[i].metric \in Plain => g[i].slot \in Static
\* Each of g's readings of a family, cut at one place in both, is one of h's.
FamiliesWithin(g, h) ==
    \A q \in Families, k \in Nat : Cut(g, q, k) /\ Cut(h, q, k) =>
        \A j \in 1..Len(g) : g[j].metric = q =>
            \E l \in 1..Len(h) : h[l].metric = q /\ h[l].slot = g[j].slot
SameBefore(g, h, i) ==
    \A j \in 1..i - 1 : g[j].metric = h[j].metric /\ g[j].slot = h[j].slot

\* Where the next metric's header is.
LEMMA NextHeader ==
    ASSUME NEW i \in Nat, NEW p \in Nat
    PROVE  /\ (i - 1) + 2 * (p + 1) - 1 = i + 2 * p /\ (i - 1) + 2 * (p + 1) = i + 1 + 2 * p
           /\ i + 2 * (p + 1) - 1 = i + 1 + 2 * p /\ (p + 1) - 1 = p
OBVIOUS

\* Of two groups with one fold, neither goes on to a later metric.
LEMMA NotLater ==
    ASSUME FamiliesFirst, NEW n \in Nat, n >= NumStatic, NEW m \in Nat, m >= NumStatic, NEW id,
           NEW g \in Seq(Reading), NEW h \in Seq(Reading),
           FoldOf(id, g, n), FoldOf(id, h, m), Ordered(g, n, {}), Ordered(h, m, {}),
           SlotsApart(g) \/ m = NumStatic, FamiliesWithin(g, h),
           NEW i \in 1..Len(g), i \in 1..Len(h), SameBefore(g, h, i),
           NEW p, p = g[i].metric, NEW r, r = h[i].metric, p < r
    PROVE  FALSE
<1>0. Len(g) \in Nat /\ Len(h) \in Nat
  BY GroupTypes
<1>1. /\ \A j \in 1..Len(g) : g[j].metric \in Nat \ {0} /\ g[j].slot \in Nat \ {0}
      /\ \A j \in 1..Len(h) : h[j].metric \in Nat \ {0} /\ h[j].slot \in Nat \ {0}
  BY GroupTypes
<1>2. /\ Len(id) = Len(g) + 2 * NumStatic /\ Len(id) = Len(h) + 2 * NumStatic
      /\ NumStatic \in Nat
  <2>1. NumStatic \in Nat /\ Folded(n) = NumStatic /\ Folded(m) = NumStatic
    BY WideConstants DEF Folded
  <2> QED  BY <2>1 DEF FoldOf
<1>3. Len(g) = Len(h)
  BY <1>0, <1>2
<1>4. p \in Nat \ {0} /\ r \in Nat \ {0} /\ p < r /\ r <= m /\ NumStatic \in Nat
  BY <1>0, <1>1, WideConstants DEF Ordered
<1>5. \A j \in 1..Len(g) : (j < i => g[j].metric <= p) /\ (j > i => g[j].metric >= p)
  <2>1. ASSUME NEW j \in 1..Len(g), j < i PROVE g[j].metric <= p
    BY <1>0, <1>1, <2>1 DEF Ordered
  <2>2. ASSUME NEW j \in 1..Len(g), j > i PROVE g[j].metric >= p
    BY <1>0, <1>1, <2>2 DEF Ordered
  <2> QED  BY <2>1, <2>2
<1>6. \A j \in 1..Len(h) : j >= i => h[j].metric >= r
  <2> SUFFICES ASSUME NEW j \in 1..Len(h), j >= i PROVE h[j].metric >= r
    OBVIOUS
  <2>1. CASE j = i
    BY <1>0, <1>1, <2>1
  <2>2. CASE j # i
    <3>1. i < j
      BY <1>0, <2>2
    <3>2. h[i].metric <= h[j].metric
      BY <1>1, <3>1 DEF Ordered
    <3> QED  BY <3>2
  <2> QED  BY <2>1, <2>2
<1>7. \A j \in 1..Len(g) : g[j].metric \notin Static => id[j + 2 * NumStatic] = g[j].metric - 1
  BY DEF FoldOf
<1>8. \A j \in 1..Len(h) : h[j].metric \notin Static => id[j + 2 * NumStatic] = h[j].metric - 1
  BY DEF FoldOf
<1>13. p = g[i].metric /\ r = h[i].metric
  OBVIOUS
<1>14. (p \in Static <=> p <= NumStatic) /\ (r \in Static <=> r <= NumStatic)
  BY <1>4, StaticIs
<1>16. \A j \in 1..i - 1 : j \in 1..Len(g) /\ h[j].metric = g[j].metric
  BY <1>0 DEF SameBefore
<1>17. i \in Nat /\ p \in Nat
  BY <1>0, <1>4
<1>9. CASE p \notin Static
  <2>1. r \notin Static
    BY <1>4, <1>9, <1>14
  <2> QED  BY <1>0, <1>4, <1>7, <1>8, <1>9, <1>13, <2>1
<1>10. CASE p \in Families
  <2>1. PICK k \in Nat : Cut(g, p, k)
    BY <1>4, CutExists
  <2>2. k < i
    <3>1. k \in 0..Len(g) /\ \A j \in 1..k : g[j].metric < p
      BY <2>1 DEF Cut
    <3> QED  BY <1>0, <1>1, <1>13, <1>4, <3>1
  <2>3. Cut(h, p, k)
    <3>1. \A j \in 1..k : h[j].metric < p
      BY <1>0, <1>16, <2>1, <2>2 DEF Cut
    <3>2. ASSUME NEW j \in k + 1..Len(h) PROVE h[j].metric >= p
      <4>1. CASE j < i
        <5>1. j \in 1..i - 1 /\ j \in k + 1..Len(g)
          BY <1>0, <1>3, <2>1, <2>2, <4>1 DEF Cut
        <5> QED  BY <1>16, <2>1, <5>1 DEF Cut
      <4>2. CASE j >= i
        <5>1. h[j].metric >= r /\ h[j].metric \in Nat
          BY <1>0, <1>1, <1>13, <1>6, <4>2
        <5> QED  BY <1>4, <5>1
      <4> QED  BY <4>1, <4>2
    <3> QED  BY <1>0, <1>1, <1>13, <1>3, <2>1, <3>1, <3>2 DEF Cut
  <2>4. PICK j \in 1..Len(h) : h[j].metric = p /\ h[j].slot = g[i].slot
    BY <1>10, <1>13, <2>1, <2>3 DEF FamiliesWithin
  <2>5. j < i
    BY <1>0, <1>1, <1>13, <1>4, <1>6, <2>4
  <2>6. g[j].metric = p /\ g[j].slot = g[i].slot /\ j \in 1..Len(g)
    BY <1>0, <1>3, <2>4, <2>5 DEF SameBefore
  <2>7. \/ g[j].metric < g[i].metric
        \/ g[j].metric = g[i].metric /\ g[j].slot < g[i].slot
    BY <2>5, <2>6 DEF Ordered
  <2>8. g[i].slot \in Nat /\ g[i].metric = p
    BY <1>1, <1>13
  <2> QED  BY <1>4, <2>6, <2>7, <2>8
<1>11. CASE p \in Plain /\ p < NumStatic
  <2>1. p + 1 \in Static /\ p + 1 \in Plain /\ p \in Static
    <3>1. p + 1 \notin Families
      <4> SUFFICES ASSUME p + 1 \in Families PROVE FALSE
        OBVIOUS
      <4>1. p + 1 < p
        BY <1>11 DEF FamiliesFirst
      <4> QED  BY <1>4, <4>1
    <3>2. p + 1 \in Static
      BY <1>4, <1>11, StaticIs
    <3> QED  BY <1>11, <3>1, <3>2 DEF Plain
  <2>2. Cut(h, p + 1, i - 1)
    <3>1. \A j \in 1..i - 1 : h[j].metric < p + 1
      <4> SUFFICES ASSUME NEW j \in 1..i - 1 PROVE h[j].metric < p + 1
        OBVIOUS
      <4>1. j \in 1..Len(g) /\ j < i /\ g[j].metric \in Nat /\ h[j].metric = g[j].metric
        BY <1>0, <1>1, <1>16
      <4>2. g[j].metric <= p
        BY <1>5, <4>1
      <4> QED  BY <1>4, <4>1, <4>2
    <3>2. \A j \in i..Len(h) : h[j].metric >= p + 1
      BY <1>0, <1>1, <1>13, <1>4, <1>6
    <3> QED  BY <1>0, <1>1, <1>13, <3>1, <3>2 DEF Cut
  <2>3. p + 1 <= n /\ p + 1 <= m /\ i - 1 \in Nat
    BY <1>0, <1>1, <1>13, <1>4, <1>11
  <2>4. id[(i - 1) + 2 * (p + 1) - 1] = (p + 1) - 1 /\ id[(i - 1) + 2 * (p + 1)] = 0
    BY <2>1, <2>2, <2>3 DEF FoldOf
  <2>5. id[i + 2 * p] = p /\ id[i + 1 + 2 * p] = 0
    <3>1. (i - 1) + 2 * (p + 1) - 1 = i + 2 * p /\ (i - 1) + 2 * (p + 1) = i + 1 + 2 * p
          /\ (p + 1) - 1 = p
      BY <1>17, NextHeader
    <3> QED  BY <2>4, <3>1
  <2>6. id[i + 2 * p] = g[i].slot - 1
    BY <1>13, <2>1 DEF FoldOf
  <2>7. g[i].slot = p + 1
    BY <1>0, <1>1, <1>13, <1>4, <2>5, <2>6
  <2>8. CASE i < Len(g) /\ g[i + 1].metric = p
    <3>1. i + 1 \in 1..Len(g)
      BY <1>0, <1>1, <1>13, <2>8
    <3>2. id[i + 1 + 2 * p] = g[i + 1].slot - 1
      BY <2>1, <2>8, <3>1 DEF FoldOf
    <3>3. g[i + 1].slot > g[i].slot
      BY <1>0, <1>1, <1>13, <1>4, <2>8, <3>1 DEF Ordered
    <3>4. g[i + 1].slot - 1 = 0 /\ g[i + 1].slot \in Nat \ {0}
      BY <1>1, <2>5, <3>1, <3>2
    <3> QED  BY <1>4, <2>7, <3>3, <3>4
  <2>9. CASE ~(i < Len(g) /\ g[i + 1].metric = p)
    <3>1. Cut(g, p + 1, i)
      <4>1. \A j \in 1..i : g[j].metric < p + 1
        BY <1>0, <1>1, <1>13, <1>4, <1>5
      <4>2. ASSUME NEW j \in i + 1..Len(g) PROVE g[j].metric >= p + 1
        <5>1. i + 1 \in 1..Len(g) /\ g[i + 1].metric >= p /\ g[i + 1].metric # p
          <6>1. i + 1 \in 1..Len(g) /\ i + 1 > i
            BY <1>0
          <6> QED  BY <1>0, <1>5, <2>9, <6>1
        <5>2. j = i + 1 \/ g[j].metric >= g[i + 1].metric
          BY <1>0, <1>1, <1>13, <5>1 DEF Ordered
        <5>3. j \in 1..Len(g)
          BY <1>0, <1>13
        <5>4. g[j].metric \in Nat /\ g[i + 1].metric \in Nat
          BY <1>1, <5>1, <5>3
        <5>5. g[i + 1].metric >= p + 1
          BY <1>4, <5>1, <5>4
        <5> QED  BY <1>4, <5>2, <5>4, <5>5
      <4> QED  BY <1>0, <1>1, <1>13, <4>1, <4>2 DEF Cut
    <3>2. id[i + 2 * (p + 1) - 1] = (p + 1) - 1
      BY <1>0, <1>1, <1>13, <2>1, <2>3, <3>1 DEF FoldOf
    <3>3. i + 2 * (p + 1) - 1 = i + 1 + 2 * p
      BY <1>17, NextHeader
    <3>4. (p + 1) - 1 # 0
      BY <1>4
    <3> QED  BY <2>5, <3>2, <3>3, <3>4
  <2> QED  BY <2>8, <2>9
<1>12. CASE p \in Plain /\ p >= NumStatic
  <2>1. p = NumStatic /\ p \in Static /\ r \notin Static
    <3>1. p \in Static
      BY <1>12 DEF Plain
    <3> QED  BY <1>4, <1>12, <1>14, <3>1
  <2>2. id[i + 2 * NumStatic] = r - 1
    BY <1>8, <1>13, <2>1
  <2>3. id[i + 2 * p] = g[i].slot - 1
    BY <1>13, <2>1 DEF FoldOf
  <2>4. g[i].slot = r
    <3>1. g[i].slot - 1 = r - 1 /\ g[i].slot \in Nat
      BY <1>1, <2>1, <2>2, <2>3
    <3> QED  BY <1>4, <3>1
  <2>5. r > NumStatic /\ m # NumStatic
    BY <1>4, <2>1
  <2>6. g[i].slot \in Static
    BY <1>12, <1>13, <2>5 DEF SlotsApart
  <2> QED  BY <2>1, <2>4, <2>6
<1> QED
  <2>1. p \notin Static \/ p \in Families \/ p \in Plain
    BY DEF Plain
  <2> QED  BY <1>4, <1>9, <1>10, <1>11, <1>12, <2>1

LEMMA OneFoldOneGroup ==
    ASSUME FamiliesFirst, NEW n \in Nat, n >= NumStatic, NEW m \in Nat, m >= NumStatic, NEW id,
           NEW g \in Seq(Reading), NEW h \in Seq(Reading),
           FoldOf(id, g, n), FoldOf(id, h, m), Ordered(g, n, {}), Ordered(h, m, {}),
           SlotsApart(g) \/ m = NumStatic, SlotsApart(h) \/ n = NumStatic,
           FamiliesWithin(g, h), FamiliesWithin(h, g)
    PROVE  Len(g) = Len(h) /\ SamePlaces(g, h)
<1>1. /\ Len(g) \in Nat /\ Len(h) \in Nat
      /\ \A j \in 1..Len(g) : g[j].metric \in Nat \ {0} /\ g[j].slot \in Nat \ {0}
      /\ \A j \in 1..Len(h) : h[j].metric \in Nat \ {0} /\ h[j].slot \in Nat \ {0}
  BY GroupTypes
<1>2. Len(g) = Len(h)
  <2>1. NumStatic \in Nat /\ Folded(n) = NumStatic /\ Folded(m) = NumStatic
    BY WideConstants DEF Folded
  <2>2. /\ Len(id) = Len(g) + 2 * NumStatic /\ Len(id) = Len(h) + 2 * NumStatic
    BY <2>1 DEF FoldOf
  <2> QED  BY <1>1, <2>1, <2>2
<1> DEFINE T == {i \in 1..Len(g) : ~(g[i].metric = h[i].metric /\ g[i].slot = h[i].slot)}
<1>3. SUFFICES ASSUME T # {} PROVE FALSE
  BY <1>2 DEF SamePlaces
<1>4. PICK i \in T : \A k \in T : i <= k
  <2>1. T \subseteq Nat
    BY <1>1
  <2> HIDE DEF T
  <2> QED  BY <1>3, <2>1, LeastExists
<1>5. i \in 1..Len(g) /\ i \in 1..Len(h)
  BY <1>2
<1>6. SameBefore(g, h, i) /\ SameBefore(h, g, i)
  BY <1>1, <1>4 DEF SameBefore
<1>8. ~(g[i].metric < h[i].metric)
  BY <1>5, <1>6, NotLater
<1>9. ~(h[i].metric < g[i].metric)
  BY <1>5, <1>6, NotLater
<1>10. g[i].metric = h[i].metric
  BY <1>1, <1>5, <1>8, <1>9
<1>11. g[i].slot = h[i].slot
  <2>1. CASE g[i].metric \in Static
    <3>1. id[i + 2 * g[i].metric] = g[i].slot - 1 /\ id[i + 2 * h[i].metric] = h[i].slot - 1
      BY <1>5, <1>10, <2>1 DEF FoldOf
    <3>2. g[i].slot - 1 = h[i].slot - 1
      BY <1>10, <3>1
    <3>3. g[i].slot \in Nat /\ h[i].slot \in Nat
      BY <1>1, <1>5
    <3> QED  BY <3>2, <3>3
  <2>2. CASE g[i].metric \notin Static
    BY <1>5, <1>10, <2>2 DEF FoldOf
  <2> QED  BY <2>1, <2>2
<1> QED  BY <1>4, <1>10, <1>11

-----------------------------------------------------------------------------
(* A fold goes on by a reading, and by a metric. *)

LEMMA AppendFacts ==
    ASSUME NEW S, NEW q \in Seq(S), NEW x \in S
    PROVE  /\ Append(q, x) \in Seq(S)
           /\ Len(Append(q, x)) = Len(q) + 1
           /\ \A i \in 1..Len(q) : Append(q, x)[i] = q[i]
           /\ Append(q, x)[Len(q) + 1] = x
           /\ Len(q) \in Nat
BY AppendProperties, LenProperties

LEMMA FoldSlotGrows ==
    ASSUME NEW id \in Seq(Nat), NEW p \in Nat \ {0}, NEW s \in Nat \ {0}
    PROVE  /\ FoldSlot(id, p, s) \in Seq(Nat)
           /\ Len(FoldSlot(id, p, s)) = Len(id) + 1
           /\ \A i \in 1..Len(id) : FoldSlot(id, p, s)[i] = id[i]
           /\ p \in Static => FoldSlot(id, p, s)[Len(id) + 1] = s - 1
           /\ p \notin Static => FoldSlot(id, p, s)[Len(id) + 1] = p - 1
<1>1. s - 1 \in Nat /\ p - 1 \in Nat
  OBVIOUS
<1> QED  BY <1>1, AppendFacts DEF FoldSlot

LEMMA FoldMetricGrows ==
    ASSUME NEW id \in Seq(Nat), NEW p \in Nat \ {0}, VersionOf(p) \in Nat
    PROVE  /\ FoldMetric(id, p) \in Seq(Nat)
           /\ \A i \in 1..Len(id) : FoldMetric(id, p)[i] = id[i]
           /\ p \in Static =>
                /\ Len(FoldMetric(id, p)) = Len(id) + 2
                /\ FoldMetric(id, p)[Len(id) + 1] = p - 1
                /\ FoldMetric(id, p)[Len(id) + 2] = VersionOf(p)
           /\ p \notin Static => FoldMetric(id, p) = id
<1>1. CASE p \notin Static
  BY <1>1 DEF FoldMetric
<1>2. CASE p \in Static
  <2> DEFINE v == VersionOf(p)
  <2>1. p - 1 \in Nat /\ v \in Nat
    OBVIOUS
  <2> HIDE DEF v
  <2>2. <<p - 1, v>> \in Seq(Nat) /\ Len(<<p - 1, v>>) = 2
        /\ <<p - 1, v>>[1] = p - 1 /\ <<p - 1, v>>[2] = v
    BY <2>1
  <2>3. /\ id \o <<p - 1, v>> \in Seq(Nat)
        /\ Len(id \o <<p - 1, v>>) = Len(id) + 2
        /\ \A i \in 1..Len(id) + 2 :
             (id \o <<p - 1, v>>)[i] = IF i <= Len(id) THEN id[i] ELSE <<p - 1, v>>[i - Len(id)]
    BY <2>2, ConcatProperties
  <2>4. Len(id) \in Nat
    BY LenProperties
  <2>5. FoldMetric(id, p) = id \o <<p - 1, v>>
    BY <1>2 DEF FoldMetric, v
  <2>6. \A i \in 1..Len(id) : (id \o <<p - 1, v>>)[i] = id[i]
    BY <2>3, <2>4
  <2>7. (id \o <<p - 1, v>>)[Len(id) + 1] = p - 1 /\ (id \o <<p - 1, v>>)[Len(id) + 2] = v
    BY <2>2, <2>3, <2>4
  <2> QED  BY <1>2, <2>3, <2>5, <2>6, <2>7 DEF v
<1> QED  BY <1>1, <1>2

\* The reading x comes next: of metric p, in the least slot left.
ComesNext(g, x, p, rest) ==
    /\ x \in Reading /\ x.metric = p /\ (p \notin Static => x.slot = 1)
    /\ rest \subseteq Nat \ {0} /\ \A r \in rest : x.slot <= r
    /\ \A i \in 1..Len(g) : g[i].metric = p => g[i].slot < x.slot

LEMMA CutsKept ==
    ASSUME NEW g \in Seq(Reading), NEW x \in Reading, NEW q \in Nat, q <= x.metric, NEW k
    PROVE  Cut(Append(g, x), q, k) <=> Cut(g, q, k)
<1> DEFINE h == Append(g, x)
<1>1. Len(h) = Len(g) + 1 /\ Len(g) \in Nat /\ (\A i \in 1..Len(g) : h[i] = g[i])
      /\ h[Len(g) + 1] = x
  BY AppendFacts
<1>2. x.metric \in Nat
  BY DEF Reading
<1> HIDE DEF h
<1>3. ASSUME Cut(h, q, k) PROVE Cut(g, q, k)
  <2>1. k \in 0..Len(g) + 1 /\ (\A i \in 1..k : h[i].metric < q)
        /\ \A i \in k + 1..Len(g) + 1 : h[i].metric >= q
    BY <1>1, <1>3 DEF Cut
  <2>2. k # Len(g) + 1
    BY <1>1, <1>2, <2>1
  <2>3. k \in 0..Len(g)
    BY <1>1, <2>1, <2>2
  <2>4. \A i \in 1..k : g[i].metric < q
    BY <1>1, <2>1, <2>3
  <2>5. \A i \in k + 1..Len(g) : g[i].metric >= q
    BY <1>1, <2>1, <2>3
  <2> QED  BY <2>3, <2>4, <2>5 DEF Cut
<1>4. ASSUME Cut(g, q, k) PROVE Cut(h, q, k)
  <2>1. k \in 0..Len(g) /\ (\A i \in 1..k : g[i].metric < q)
        /\ \A i \in k + 1..Len(g) : g[i].metric >= q
    BY <1>4 DEF Cut
  <2>2. k \in 0..Len(h)
    BY <1>1, <2>1
  <2>3. \A i \in 1..k : h[i].metric < q
    BY <1>1, <2>1
  <2>4. ASSUME NEW i \in k + 1..Len(h) PROVE h[i].metric >= q
    <3>1. CASE i = Len(g) + 1
      BY <1>1, <1>2, <3>1
    <3>2. CASE i # Len(g) + 1
      <4>1. i \in k + 1..Len(g) /\ i \in 1..Len(g)
        BY <1>1, <2>1, <3>2
      <4> QED  BY <1>1, <2>1, <4>1
    <3> QED  BY <3>1, <3>2
  <2> QED  BY <2>2, <2>3, <2>4 DEF Cut
<1> QED  BY <1>3, <1>4 DEF h

LEMMA OrderedGrows ==
    ASSUME NEW g \in Seq(Reading), NEW p \in Nat \ {0}, NEW x, NEW rest,
           Ordered(g, p, {}), ComesNext(g, x, p, rest)
    PROVE  Ordered(Append(g, x), p, rest \ {x.slot})
<1> DEFINE h == Append(g, x)
<1>0. x \in Reading /\ x.slot \in Nat \ {0} /\ x.metric = p /\ rest \subseteq Nat \ {0}
  BY DEF ComesNext, Reading
<1>1. Len(h) = Len(g) + 1 /\ Len(g) \in Nat /\ (\A i \in 1..Len(g) : h[i] = g[i])
      /\ h[Len(g) + 1] = x
  BY <1>0, AppendFacts
<1>2. \A i \in 1..Len(g) : g[i].metric \in Nat \ {0} /\ g[i].slot \in Nat \ {0}
  BY GroupTypes
<1> HIDE DEF h
<1>3. ASSUME NEW i \in 1..Len(h), NEW j \in 1..Len(h), i < j
      PROVE  \/ h[i].metric < h[j].metric
             \/ h[i].metric = h[j].metric /\ h[i].slot < h[j].slot
  <2>1. i \in 1..Len(g) /\ h[i] = g[i]
    BY <1>1, <1>3
  <2>2. CASE j = Len(g) + 1
    <3>1. h[j].metric = p /\ h[j].slot = x.slot
      BY <1>0, <1>1, <2>2
    <3>2. g[i].metric <= p
      BY <2>1 DEF Ordered
    <3>3. g[i].metric = p => g[i].slot < x.slot
      BY <2>1 DEF ComesNext
    <3> QED  BY <1>2, <2>1, <3>1, <3>2, <3>3
  <2>3. CASE j # Len(g) + 1
    <3>1. j \in 1..Len(g) /\ h[j] = g[j]
      BY <1>1, <2>3
    <3> QED  BY <1>3, <2>1, <3>1 DEF Ordered
  <2> QED  BY <2>2, <2>3
<1>4. ASSUME NEW i \in 1..Len(h)
      PROVE  h[i].metric <= p /\ (h[i].metric = p => \A r \in rest \ {x.slot} : h[i].slot < r)
  <2>1. \A r \in rest \ {x.slot} : x.slot < r /\ r \in Nat
    BY <1>0 DEF ComesNext
  <2>2. CASE i = Len(g) + 1
    BY <1>0, <1>1, <2>1, <2>2
  <2>3. CASE i # Len(g) + 1
    <3>1. i \in 1..Len(g) /\ h[i] = g[i]
      BY <1>1, <2>3
    <3>2. g[i].metric <= p /\ (g[i].metric = p => g[i].slot < x.slot)
      BY <3>1 DEF Ordered, ComesNext
    <3> QED  BY <1>0, <1>2, <2>1, <3>1, <3>2
  <2> QED  BY <2>2, <2>3
<1> QED  BY <1>3, <1>4 DEF Ordered, h

LEMMA SlotWithin ==
    ASSUME NEW l \in Nat, NEW f \in Nat, NEW n, n = l + 2 * f,
           NEW i \in 1..l, NEW q \in Nat, q <= f
    PROVE  i + 2 * q \in 1..n
OBVIOUS

LEMMA HeaderWithin ==
    ASSUME NEW l \in Nat, NEW f \in Nat, NEW n, n = l + 2 * f,
           NEW k \in 0..l, NEW q \in Nat \ {0}, q <= f
    PROVE  k + 2 * q - 1 \in 1..n /\ k + 2 * q \in 1..n
OBVIOUS

LEMMA FoldOfGrows ==
    ASSUME NEW g \in Seq(Reading), NEW p \in Nat \ {0}, NEW x, NEW rest, NEW id \in Seq(Nat),
           Ordered(g, p, {}), ComesNext(g, x, p, rest), FoldOf(id, g, p)
    PROVE  FoldOf(FoldSlot(id, p, x.slot), Append(g, x), p)
<1> DEFINE h == Append(g, x)
           jd == FoldSlot(id, p, x.slot)
<1>0. x \in Reading /\ x.slot \in Nat \ {0} /\ x.metric = p
  BY DEF ComesNext, Reading
<1>1. Len(h) = Len(g) + 1 /\ Len(g) \in Nat /\ (\A i \in 1..Len(g) : h[i] = g[i])
      /\ h[Len(g) + 1] = x
  BY <1>0, AppendFacts
<1>2. \A i \in 1..Len(g) : g[i].metric \in Nat \ {0} /\ g[i].metric <= p
  BY GroupTypes DEF Ordered
<1>3. /\ Len(jd) = Len(id) + 1
      /\ \A i \in 1..Len(id) : jd[i] = id[i]
      /\ p \in Static => jd[Len(id) + 1] = x.slot - 1
      /\ p \notin Static => jd[Len(id) + 1] = p - 1
  <2> DEFINE t == x.slot
  <2>1. t \in Nat \ {0}
    BY <1>0
  <2> HIDE DEF t
  <2>2. /\ Len(FoldSlot(id, p, t)) = Len(id) + 1
        /\ \A i \in 1..Len(id) : FoldSlot(id, p, t)[i] = id[i]
        /\ p \in Static => FoldSlot(id, p, t)[Len(id) + 1] = t - 1
        /\ p \notin Static => FoldSlot(id, p, t)[Len(id) + 1] = p - 1
    BY <2>1, FoldSlotGrows
  <2> QED  BY <2>2 DEF t
<1>4. \A q \in Nat : \A k : q <= p => (Cut(h, q, k) <=> Cut(g, q, k))
  BY <1>0, CutsKept
<1>5. Len(id) = Len(g) + 2 * Folded(p) /\ Folded(p) \in Nat
  BY WideConstants DEF FoldOf
<1>6. /\ \A q \in Static : q \in Nat \ {0} /\ (q <= p => q <= Folded(p))
      /\ p \in Static => Folded(p) = p
      /\ p \notin Static => Folded(p) = NumStatic
      /\ NumStatic \in Nat
  <2>1. p \in Static <=> p <= NumStatic
    BY StaticIs
  <2>2. NumStatic \in Nat
    BY WideConstants
  <2>3. (p \in Static => Folded(p) = p) /\ (p \notin Static => Folded(p) = NumStatic)
    BY <2>1 DEF Folded
  <2>4. ASSUME NEW q \in Static PROVE q \in Nat \ {0} /\ (q <= p => q <= Folded(p))
    <3>1. q \in Nat \ {0} /\ q <= NumStatic
      BY WideConstants
    <3> QED  BY <2>3, <3>1
  <2> QED  BY <2>2, <2>3, <2>4
<1> HIDE DEF h, jd
<1>7. Len(jd) = Len(h) + 2 * Folded(p)
  BY <1>1, <1>3, <1>5
<1>8. ASSUME NEW i \in 1..Len(h)
      PROVE  IF h[i].metric \in Static
             THEN jd[i + 2 * h[i].metric] = h[i].slot - 1
             ELSE h[i].slot = 1 /\ jd[i + 2 * NumStatic] = h[i].metric - 1
  <2>1. CASE i = Len(g) + 1
    <3>1. h[i] = x
      BY <1>1, <2>1
    <3>2. i + 2 * Folded(p) = Len(id) + 1
      BY <1>1, <1>5, <2>1
    <3>3. h[i].metric = p /\ h[i].slot = x.slot
      BY <1>0, <3>1
    <3>4. CASE p \in Static
      <4>1. i + 2 * p = Len(id) + 1
        BY <1>6, <3>2, <3>4
      <4>2. jd[i + 2 * h[i].metric] = h[i].slot - 1
        BY <1>3, <3>3, <3>4, <4>1
      <4> QED  BY <3>3, <3>4, <4>2
    <3>5. CASE p \notin Static
      <4>1. i + 2 * NumStatic = Len(id) + 1
        BY <1>6, <3>2, <3>5
      <4>2. jd[i + 2 * NumStatic] = h[i].metric - 1
        BY <1>3, <3>3, <3>5, <4>1
      <4>3. h[i].slot = 1
        BY <3>3, <3>5 DEF ComesNext
      <4> QED  BY <3>3, <3>5, <4>2, <4>3
    <3> QED  BY <3>4, <3>5
  <2>2. CASE i # Len(g) + 1
    <3>1. i \in 1..Len(g) /\ h[i] = g[i]
      BY <1>1, <2>2
    <3>2. CASE g[i].metric \in Static
      <4>1. g[i].metric \in Nat /\ g[i].metric <= Folded(p)
        BY <1>2, <1>6, <3>1, <3>2
      <4>2. i + 2 * g[i].metric \in 1..Len(id)
        BY <1>1, <1>5, <3>1, <4>1, SlotWithin
      <4>3. id[i + 2 * g[i].metric] = g[i].slot - 1
        BY <3>1, <3>2 DEF FoldOf
      <4> QED  BY <1>3, <3>1, <3>2, <4>2, <4>3
    <3>3. CASE g[i].metric \notin Static
      <4>1. g[i].slot = 1 /\ id[i + 2 * NumStatic] = g[i].metric - 1
        BY <3>1, <3>3 DEF FoldOf
      <4>2. Folded(p) = NumStatic
        <5>1. ~(g[i].metric <= NumStatic)
          BY <1>2, <3>1, <3>3, StaticIs
        <5>2. p > NumStatic
          BY <1>2, <1>6, <3>1, <5>1
        <5> QED  BY <1>6, <5>2 DEF Folded
      <4>3. NumStatic \in Nat /\ NumStatic <= Folded(p)
        BY <1>6, <4>2
      <4>4. i + 2 * NumStatic \in 1..Len(id)
        BY <1>1, <1>5, <3>1, <4>3, SlotWithin
      <4> QED  BY <1>3, <3>1, <3>3, <4>1, <4>4
    <3> QED  BY <3>2, <3>3
  <2> QED  BY <2>1, <2>2
<1>9. ASSUME NEW q \in Static, NEW k \in Nat, q <= p, Cut(h, q, k)
      PROVE  jd[k + 2 * q - 1] = q - 1 /\ (q \in Plain => jd[k + 2 * q] = 0)
  <2>1. Cut(g, q, k) /\ q \in Nat \ {0} /\ q <= Folded(p)
    BY <1>4, <1>6, <1>9
  <2>2. k \in 0..Len(g)
    BY <2>1 DEF Cut
  <2>3. k + 2 * q - 1 \in 1..Len(id) /\ k + 2 * q \in 1..Len(id)
    BY <1>1, <1>5, <2>1, <2>2, HeaderWithin
  <2>4. id[k + 2 * q - 1] = q - 1 /\ (q \in Plain => id[k + 2 * q] = 0)
    BY <1>9, <2>1 DEF FoldOf
  <2> QED  BY <1>3, <2>3, <2>4
<1> QED  BY <1>7, <1>8, <1>9 DEF FoldOf, h, jd

LEMMA CutAtEnd ==
    ASSUME NEW g \in Seq(Reading), NEW p \in Nat, \A i \in 1..Len(g) : g[i].metric <= p,
           NEW k, Cut(g, p + 1, k)
    PROVE  k = Len(g)
<1>1. Len(g) \in Nat /\ \A i \in 1..Len(g) : g[i].metric \in Nat
  BY GroupTypes
<1>2. k \in 0..Len(g) /\ \A i \in k + 1..Len(g) : g[i].metric >= p + 1
  BY DEF Cut
<1>3. ~(k < Len(g))
  <2> SUFFICES ASSUME k < Len(g) PROVE FALSE
    OBVIOUS
  <2>1. k + 1 \in 1..Len(g) /\ k + 1 \in k + 1..Len(g)
    BY <1>1, <1>2
  <2> QED  BY <1>1, <1>2, <2>1
<1> QED  BY <1>1, <1>2, <1>3

LEMMA FoldOfNext ==
    ASSUME NEW g \in Seq(Reading), NEW p \in Nat, NEW id \in Seq(Nat),
           FoldOf(id, g, p), \A i \in 1..Len(g) : g[i].metric <= p,
           VersionOf(p + 1) \in Nat
    PROVE  /\ FoldOf(FoldMetric(id, p + 1), g, p + 1)
           /\ p + 1 \in Static =>
                FoldMetric(id, p + 1)[Len(g) + 2 * (p + 1)] = VersionOf(p + 1)
<1> DEFINE jd == FoldMetric(id, p + 1)
<1>0. p + 1 \in Nat \ {0}
  OBVIOUS
<1>1. /\ \A i \in 1..Len(id) : jd[i] = id[i]
      /\ p + 1 \in Static =>
           /\ Len(jd) = Len(id) + 2
           /\ jd[Len(id) + 1] = (p + 1) - 1
           /\ jd[Len(id) + 2] = VersionOf(p + 1)
      /\ p + 1 \notin Static => jd = id
  BY <1>0, FoldMetricGrows
<1>2. Len(id) = Len(g) + 2 * Folded(p) /\ Folded(p) \in Nat /\ Len(g) \in Nat
  BY WideConstants, GroupTypes DEF FoldOf
<1>3. \A i \in 1..Len(g) : g[i].metric \in Nat \ {0} /\ g[i].metric <= p
  BY GroupTypes
<1>4. NumStatic \in Nat /\ (p + 1 \in Static <=> p + 1 <= NumStatic)
  BY <1>0, StaticIs, WideConstants
<1>5. /\ p + 1 \in Static => Folded(p) = p /\ Folded(p + 1) = p + 1
      /\ p + 1 \notin Static => Folded(p) = NumStatic /\ Folded(p + 1) = NumStatic
  BY <1>4 DEF Folded
<1>6. \A q \in Static : q \in Nat \ {0} /\ q <= NumStatic
  BY WideConstants
<1>7. \A q \in Static : q <= p => q <= Folded(p)
  BY <1>4, <1>5, <1>6
<1> HIDE DEF jd
<1>8. Len(jd) = Len(g) + 2 * Folded(p + 1)
  BY <1>1, <1>2, <1>5
<1>9. ASSUME NEW i \in 1..Len(g)
      PROVE  IF g[i].metric \in Static
             THEN jd[i + 2 * g[i].metric] = g[i].slot - 1
             ELSE g[i].slot = 1 /\ jd[i + 2 * NumStatic] = g[i].metric - 1
  <2>1. IF g[i].metric \in Static
        THEN id[i + 2 * g[i].metric] = g[i].slot - 1
        ELSE g[i].slot = 1 /\ id[i + 2 * NumStatic] = g[i].metric - 1
    BY DEF FoldOf
  <2>2. CASE g[i].metric \in Static
    <3>1. g[i].metric \in Nat /\ g[i].metric <= Folded(p)
      BY <1>3, <1>7, <2>2
    <3>2. i + 2 * g[i].metric \in 1..Len(id)
      BY <1>1, <1>2, <3>1, SlotWithin
    <3> QED  BY <1>1, <2>1, <2>2, <3>2
  <2>3. CASE g[i].metric \notin Static
    <3>1. ~(g[i].metric <= NumStatic)
      BY <1>3, <2>3, StaticIs
    <3>2. p + 1 \notin Static
      BY <1>3, <1>4, <3>1
    <3> QED  BY <1>1, <2>1, <2>3, <3>2
  <2> QED  BY <2>2, <2>3
<1>10. ASSUME NEW q \in Static, NEW k \in Nat, q <= p + 1, Cut(g, q, k)
       PROVE  jd[k + 2 * q - 1] = q - 1 /\ (q \in Plain => jd[k + 2 * q] = 0)
  <2>1. q \in Nat \ {0}
    BY <1>6
  <2>2. CASE q <= p
    <3>1. k \in 0..Len(g) /\ q <= Folded(p)
      BY <1>7, <1>10, <2>2 DEF Cut
    <3>2. k + 2 * q - 1 \in 1..Len(id) /\ k + 2 * q \in 1..Len(id)
      BY <1>2, <2>1, <3>1, HeaderWithin
    <3>3. id[k + 2 * q - 1] = q - 1 /\ (q \in Plain => id[k + 2 * q] = 0)
      BY <1>10, <2>2 DEF FoldOf
    <3> QED  BY <1>1, <3>2, <3>3
  <2>3. CASE q = p + 1
    <3>1. k = Len(g)
      BY <1>3, <1>10, <2>3, CutAtEnd
    <3>2. k + 2 * q - 1 = Len(id) + 1 /\ k + 2 * q = Len(id) + 2
      BY <1>2, <1>5, <1>10, <2>3, <3>1
    <3>3. q \in Plain => VersionOf(q) = 0
      BY DEF VersionOf, Plain
    <3> QED  BY <1>1, <1>10, <2>3, <3>2, <3>3
  <2>4. q <= p \/ q = p + 1
    BY <1>10, <2>1
  <2> QED  BY <2>2, <2>3, <2>4
<1>11. p + 1 \in Static => jd[Len(g) + 2 * (p + 1)] = VersionOf(p + 1)
  <2> SUFFICES ASSUME p + 1 \in Static PROVE jd[Len(g) + 2 * (p + 1)] = VersionOf(p + 1)
    OBVIOUS
  <2>1. Len(g) + 2 * (p + 1) = Len(id) + 2
    BY <1>2, <1>5
  <2> QED  BY <1>1, <2>1
<1>12. FoldOf(jd, g, p + 1)
  BY <1>8, <1>9, <1>10 DEF FoldOf
<1> QED  BY <1>11, <1>12 DEF jd

LEMMA FoldOfNothing == FoldOf(<<>>, <<>>, 0)
<1>1. Len(<<>>) = 0 /\ Folded(0) = 0
  BY WideConstants DEF Folded
<1>2. \A q \in Static : ~(q <= 0)
  BY WideConstants
<1> QED  BY <1>1, <1>2 DEF FoldOf

LEMMA OrderedNext ==
    ASSUME NEW g \in Seq(Reading), NEW p \in Nat, NEW rest, Ordered(g, p, rest), NEW r
    PROVE  Ordered(g, p + 1, r)
<1>1. \A i \in 1..Len(g) : g[i].metric \in Nat
  BY GroupTypes
<1> QED  BY <1>1 DEF Ordered

LEMMA OrderedNothing ==
    ASSUME NEW p, NEW r
    PROVE  Ordered(<<>>, p, r)
BY DEF Ordered

-----------------------------------------------------------------------------
(* What is read. *)

\* A finite set of naturals has an n-th element.
LEMMA RankExists ==
    ASSUME NEW T, T \subseteq Nat, IsFiniteSet(T), NEW n \in 1..Cardinality(T)
    PROVE  \E a \in T : Cardinality({b \in T : b <= a}) = n
<1> DEFINE Upto(a) == {b \in T : b <= a}
           M == {m \in 1..Cardinality(T) : ~ \E a \in T : Cardinality(Upto(a)) = m}
<1>0. Cardinality(T) \in Nat
  BY FS_CardinalityType
<1>1. SUFFICES ASSUME M # {} PROVE FALSE
  BY <1>0
<1>2. PICK m \in M : \A k \in M : m <= k
  <2>1. M \subseteq Nat
    BY <1>0
  <2> HIDE DEF M
  <2> QED  BY <1>1, <2>1, LeastExists
<1>3. m \in 1..Cardinality(T) /\ m \in Nat
  BY <1>0
<1>4. CASE m = 1
  <2>1. T # {}
    BY <1>0, <1>3, FS_EmptySet
  <2>2. PICK a \in T : \A k \in T : a <= k
    BY <2>1, LeastExists
  <2>3. Upto(a) = {a}
    <3>1. ASSUME NEW b \in Upto(a) PROVE b = a
      <4>1. b \in Nat /\ a \in Nat /\ b <= a /\ a <= b
        BY <2>2
      <4> QED  BY <4>1
    <3>2. a \in Upto(a)
      OBVIOUS
    <3> QED  BY <3>1, <3>2
  <2>4. Cardinality(Upto(a)) = 1
    BY <2>3, FS_Singleton
  <2> QED  BY <1>2, <1>4, <2>4
<1>5. CASE m # 1
  <2>1. m - 1 \in 1..Cardinality(T) /\ m - 1 \notin M
    BY <1>0, <1>2, <1>3, <1>5
  <2>2. PICK a \in T : Cardinality(Upto(a)) = m - 1
    BY <2>1
  <2> DEFINE R == T \ Upto(a)
  <2>3. R # {}
    <3>1. Upto(a) # T
      <4> HIDE DEF Upto
      <4>1. m - 1 # Cardinality(T)
        BY <1>0, <1>3
      <4> QED  BY <2>2, <4>1
    <3> QED  BY <3>1
  <2>4. PICK c \in R : \A k \in R : c <= k
    <3>1. R \subseteq Nat
      OBVIOUS
    <3> HIDE DEF R
    <3> QED  BY <2>3, <3>1, LeastExists
  <2>5. Upto(c) = Upto(a) \cup {c}
    <3>1. c \in T /\ c > a /\ c \in Nat /\ a \in Nat
      BY <2>4
    <3>2. ASSUME NEW b \in Upto(c) PROVE b \in Upto(a) \cup {c}
      <4>1. b \in T /\ b \in Nat /\ b <= c
        OBVIOUS
      <4>2. CASE b <= a
        BY <4>1, <4>2
      <4>3. CASE ~(b <= a)
        BY <2>4, <3>1, <4>1, <4>3
      <4> QED  BY <4>2, <4>3
    <3>3. ASSUME NEW b \in Upto(a) \cup {c} PROVE b \in Upto(c)
      BY <3>1
    <3> QED  BY <3>2, <3>3
  <2>6. IsFiniteSet(Upto(a)) /\ c \notin Upto(a)
    <3>1. Upto(a) \in SUBSET T
      OBVIOUS
    <3> QED  BY <2>4, <3>1, FS_Subset
  <2>7. Cardinality(Upto(c)) = m
    <3> HIDE DEF Upto
    <3>1. Cardinality(Upto(a) \cup {c}) = Cardinality(Upto(a)) + 1
      BY <2>6, FS_AddElement
    <3> QED  BY <1>3, <2>2, <2>5, <3>1
  <2> QED  BY <1>2, <2>4, <2>7
<1> QED  BY <1>4, <1>5

World == FamilyTypeOK /\ RegistryTypeOK

LEMMA RegistryTypes ==
    ASSUME RegistryTypeOK
    PROVE  /\ NumRegistered \in Nat /\ NumRegistered >= NumStatic
           /\ \A p \in NumStatic + 1..NumRegistered : NameAt(p) \in Nat
<1>1. Registered \subseteq Nat /\ IsFiniteSet(Registered) /\ Registered \subseteq Addresses
  <2>1. Registered \in SUBSET Addresses
    BY DEF Registered
  <2> QED  BY <2>1, RegistryAssumption, FS_Subset
<1>2. Cardinality(Registered) \in Nat
  BY <1>1, FS_CardinalityType
<1>3. NumStatic \in Nat
  BY RegistryAssumption
<1>4. ASSUME NEW p \in NumStatic + 1..NumRegistered PROVE NameAt(p) \in Nat
  <2> DEFINE n == p - NumStatic
  <2>1. n \in 1..Cardinality(Registered)
    BY <1>2, <1>3 DEF NumRegistered
  <2> HIDE DEF n
  <2>2. \E a \in Registered : Cardinality({b \in Registered : b <= a}) = n
    BY <1>1, <2>1, RankExists
  <2>3. ListedAt(n) \in Registered
    BY <2>2 DEF ListedAt
  <2>4. entries[ListedAt(n)] \in Nat
    <3>1. \A a \in Addresses : entries[a] \in 0..MaxNames
      BY DEF RegistryTypeOK
    <3>2. entries[ListedAt(n)] \in 0..MaxNames
      BY <1>1, <2>3, <3>1
    <3> QED  BY <3>2, RegistryAssumption
  <2> QED  BY <2>4 DEF NameAt, n
<1> QED  BY <1>2, <1>3, <1>4 DEF NumRegistered

LEMMA FamilyTypes ==
    ASSUME FamilyTypeOK, NEW q \in Families
    PROVE  /\ tableVersion[q] \in Nat
           /\ Taken(q) \subseteq Nat \ {0}
           /\ \A s : MemberIn(q, s) \in Nat
<1>1. table[q] \in Seq(Nat) /\ tableVersion[q] \in Nat
  BY DEF FamilyTypeOK
<1>2. Len(table[q]) \in Nat /\ DOMAIN table[q] = 1..Len(table[q])
      /\ \A s \in DOMAIN table[q] : table[q][s] \in Nat
  BY <1>1, LenProperties, ElementOfSeq
<1> QED  BY <1>1, <1>2 DEF Taken, MemberIn, Vacant

LEMMA ReadTypes ==
    ASSUME World, NEW p \in 1..NumRegistered
    PROVE  /\ Walked(p) \subseteq Nat \ {0}
           /\ p \notin Static => Walked(p) = {1}
           /\ VersionOf(p) \in Nat
           /\ \A s \in Nat \ {0} :
                /\ Reads(p, s) \in Reading /\ Reads(p, s).metric = p /\ Reads(p, s).slot = s
                /\ p \in Plain => Reads(p, s).who = Vacant
<1>0. NumRegistered \in Nat /\ NumStatic \in Nat /\ p \in Nat \ {0}
  BY RegistryTypes, WideConstants DEF World
<1>1. CASE p \in Families
  <2>1. p \notin Plain /\ p \in Static
    BY <1>1, WideConstants DEF Plain
  <2>2. Walked(p) = Taken(p) /\ VersionOf(p) = tableVersion[p]
    BY <1>1, <2>1 DEF Walked, VersionOf
  <2>3. \A s : Reads(p, s) = [metric |-> p, slot |-> s, who |-> MemberIn(p, s)]
    BY <1>1, <2>1 DEF Reads
  <2> QED  BY <1>0, <1>1, <2>1, <2>2, <2>3, FamilyTypes DEF World, Reading
<1>2. CASE p \in Plain
  <2>1. p \notin Families /\ p \in Static
    BY <1>2 DEF Plain
  <2>2. Walked(p) = PlainSlots /\ VersionOf(p) = 0
    BY <1>2, <2>1 DEF Walked, VersionOf
  <2>3. \A s : Reads(p, s) = [metric |-> p, slot |-> s, who |-> Vacant]
    BY <1>2, <2>1 DEF Reads
  <2>4. PlainSlots \subseteq Nat \ {0}
    BY WideConstants
  <2>5. \A s \in Nat \ {0} :
          /\ Reads(p, s) \in Reading /\ Reads(p, s).metric = p /\ Reads(p, s).slot = s
          /\ Reads(p, s).who = Vacant
    BY <1>0, <2>3 DEF Reading, Vacant
  <2> QED  BY <2>1, <2>2, <2>4, <2>5
<1>3. CASE p \notin Static
  <2>1. p \notin Families /\ p \notin Plain
    BY <1>3, WideConstants DEF Plain
  <2>2. Walked(p) = {1} /\ VersionOf(p) = 0
    BY <2>1 DEF Walked, VersionOf
  <2>3. \A s : Reads(p, s) = [metric |-> p, slot |-> s, who |-> NameAt(p)]
    BY <2>1 DEF Reads
  <2>4. NameAt(p) \in Nat
    <3>1. p \in NumStatic + 1..NumRegistered
      BY <1>0, <1>3, StaticIs
    <3> QED  BY <3>1, RegistryTypes DEF World
  <2> QED  BY <1>0, <1>3, <2>1, <2>2, <2>3, <2>4 DEF Reading
<1> QED  BY <1>1, <1>2, <1>3 DEF Plain

\* The group's readings, each of a member.
LEMMA GroupReadings ==
    ASSUME World
    PROVE  /\ GroupNow \subseteq Reading
           /\ \A x \in GroupNow :
                /\ x.metric \in 1..NumRegistered /\ x.slot \in Walked(x.metric)
                /\ IsMember(x.metric, x.slot) /\ x = Reads(x.metric, x.slot)
           /\ \A p \in 1..NumRegistered : \A s \in Walked(p) :
                IsMember(p, s) => Reads(p, s) \in GroupNow
<1>1. \A x : x \in GroupNow <=>
         \E p \in 1..NumRegistered : \E s \in Walked(p) : IsMember(p, s) /\ x = Reads(p, s)
  BY DEF GroupNow
<1>2. ASSUME NEW x \in GroupNow
      PROVE  /\ x \in Reading
             /\ x.metric \in 1..NumRegistered /\ x.slot \in Walked(x.metric)
             /\ IsMember(x.metric, x.slot) /\ x = Reads(x.metric, x.slot)
  <2>1. PICK p \in 1..NumRegistered : \E s \in Walked(p) : IsMember(p, s) /\ x = Reads(p, s)
    BY <1>1
  <2>2. PICK s \in Walked(p) : IsMember(p, s) /\ x = Reads(p, s)
    BY <2>1
  <2>3. Reads(p, s) \in Reading /\ Reads(p, s).metric = p /\ Reads(p, s).slot = s
    BY ReadTypes
  <2>4. x \in Reading /\ x.metric = p /\ x.slot = s
    BY <2>2, <2>3
  <2> QED  BY <2>2, <2>4
<1> QED  BY <1>1, <1>2

LEMMA DynamicReadings ==
    ASSUME World
    PROVE  \A x \in DynamicNow :
             /\ x \in Reading /\ x.metric \in NumStatic + 1..NumRegistered
             /\ x.metric \notin Static /\ x.slot = 1 /\ x = Reads(x.metric, 1)
<1>0. NumRegistered \in Nat /\ NumStatic \in Nat
  BY RegistryTypes, WideConstants DEF World
<1>1. ASSUME NEW x \in DynamicNow
      PROVE  /\ x \in Reading /\ x.metric \in NumStatic + 1..NumRegistered
             /\ x.metric \notin Static /\ x.slot = 1 /\ x = Reads(x.metric, 1)
  <2>1. PICK p \in NumStatic + 1..NumRegistered : x = Reads(p, 1)
    BY DEF DynamicNow
  <2>2. p \in 1..NumRegistered /\ 1 \in Nat \ {0} /\ p \notin Static
    BY <1>0, WideConstants
  <2>3. x \in Reading /\ x.metric = p /\ x.slot = 1
    BY <2>1, <2>2, ReadTypes
  <2> QED  BY <2>1, <2>2, <2>3
<1> QED  BY <1>1

-----------------------------------------------------------------------------
(* What a step does to what is read. *)

LEMMA RegistryStands ==
    ASSUME UNCHANGED registryVars
    PROVE  NumRegistered' = NumRegistered /\ \A p : NameAt(p)' = NameAt(p)
<1>1. entries' = entries
  BY DEF registryVars
<1>2. Registered' = Registered
  BY <1>1 DEF Registered
<1>3. \A n : ListedAt(n)' = ListedAt(n)
  BY <1>2 DEF ListedAt
<1> QED  BY <1>1, <1>2, <1>3 DEF NumRegistered, NameAt

\* A family whose table is as it was reads as it did.
LEMMA FamilyStands ==
    ASSUME NEW q \in Families, table'[q] = table[q]
    PROVE  /\ Walked(q)' = Walked(q) /\ Taken(q)' = Taken(q)
           /\ \A s : Reads(q, s)' = Reads(q, s)
<1>1. Taken(q)' = Taken(q) /\ \A s : MemberIn(q, s)' = MemberIn(q, s)
  BY DEF Taken, MemberIn
<1> QED  BY <1>1 DEF Walked, Reads

LEMMA DynamicStands ==
    ASSUME UNCHANGED registryVars
    PROVE  DynamicNow' = DynamicNow
<1>1. NumRegistered' = NumRegistered /\ \A p : NameAt(p)' = NameAt(p)
  BY RegistryStands
<1>2. \A p \in NumStatic + 1..NumRegistered : p \notin Families /\ p \notin Plain
  BY WideConstants
<1>3. ASSUME NEW p \in NumStatic + 1..NumRegistered PROVE Reads(p, 1)' = Reads(p, 1)
  BY <1>1, <1>2 DEF Reads
<1> QED  BY <1>1, <1>3 DEF DynamicNow

LEMMA WorldStands ==
    ASSUME UNCHANGED world
    PROVE  /\ GroupNow' = GroupNow /\ DynamicNow' = DynamicNow
           /\ NumRegistered' = NumRegistered /\ tableVersion' = tableVersion
           /\ \A p : Walked(p)' = Walked(p) /\ VersionOf(p)' = VersionOf(p)
           /\ \A p, s : Reads(p, s)' = Reads(p, s) /\ (IsMember(p, s)' <=> IsMember(p, s))
           /\ World => World'
<1>1. /\ table' = table /\ tableVersion' = tableVersion /\ nonzero' = nonzero
      /\ UNCHANGED registryVars /\ UNCHANGED familyVars
  BY DEF world, familyVars
<1>2. NumRegistered' = NumRegistered /\ (\A p : NameAt(p)' = NameAt(p)) /\ DynamicNow' = DynamicNow
  BY <1>1, RegistryStands, DynamicStands
<1>3. \A p : Taken(p)' = Taken(p) /\ \A s : MemberIn(p, s)' = MemberIn(p, s)
  BY <1>1 DEF Taken, MemberIn
<1>4. \A p : Walked(p)' = Walked(p)
  BY <1>3 DEF Walked
<1>5. \A p : VersionOf(p)' = VersionOf(p)
  BY <1>1 DEF VersionOf
<1>6. \A p, s : Reads(p, s)' = Reads(p, s)
  BY <1>2, <1>3 DEF Reads
<1>7. \A p, s : IsMember(p, s)' <=> IsMember(p, s)
  BY <1>1 DEF IsMember
<1>8. GroupNow' = GroupNow
  BY <1>2, <1>4, <1>6, <1>7 DEF GroupNow
<1>9. World => World'
  BY <1>1 DEF World, FamilyTypeOK, RegistryTypeOK, familyVars, registryVars
<1> QED  BY <1>1, <1>2, <1>4, <1>5, <1>6, <1>7, <1>8, <1>9

LEMMA FamilyMoves ==
    ASSUME FamilyTypeOK, FamilyNext, NEW q \in Families
    PROVE  /\ tableVersion'[q] >= tableVersion[q]
           /\ tableVersion'[q] = tableVersion[q] => table'[q] = table[q]
<1>0. tableVersion[q] \in Nat /\ q \in DOMAIN tableVersion /\ q \in DOMAIN table
      /\ DOMAIN tableVersion = Families /\ DOMAIN table = Families
  BY DEF FamilyTypeOK
<1>1. ASSUME NEW f \in Families, CreateMember(f)
      PROVE  /\ tableVersion'[q] >= tableVersion[q]
             /\ tableVersion'[q] = tableVersion[q] => table'[q] = table[q]
  <2>1. tableVersion' = [tableVersion EXCEPT ![f] = @ + 1]
    BY <1>1 DEF CreateMember, CreateReusing, CreateGrowing, Insert
  <2>2. q # f => table'[q] = table[q]
    BY <1>0, <1>1 DEF CreateMember, CreateReusing, CreateGrowing
  <2> QED  BY <1>0, <2>1, <2>2
<1>2. ASSUME NEW h \in handles, DropMember(h)
      PROVE  /\ tableVersion'[q] >= tableVersion[q]
             /\ tableVersion'[q] = tableVersion[q] => table'[q] = table[q]
  <2>1. h.family \in Families
    BY DEF FamilyTypeOK, Handle
  <2>2. CASE table[h.family][h.slot] # Vacant
    <3>1. tableVersion' = [tableVersion EXCEPT ![h.family] = @ + 1]
      BY <1>2, <2>2 DEF DropMember
    <3>2. q # h.family => table'[q] = table[q]
      BY <1>0, <1>2, <2>2 DEF DropMember
    <3> QED  BY <1>0, <2>1, <3>1, <3>2
  <2>3. CASE ~(table[h.family][h.slot] # Vacant)
    BY <1>0, <1>2, <2>3 DEF DropMember
  <2> QED  BY <2>2, <2>3
<1> QED  BY <1>1, <1>2 DEF FamilyNext

LEMMA ChurnMoves ==
    ASSUME World, Churn
    PROVE  /\ DynamicNow' = DynamicNow /\ NumRegistered' = NumRegistered
           /\ \A q \in Families :
                /\ tableVersion'[q] >= tableVersion[q]
                /\ tableVersion'[q] = tableVersion[q] =>
                     \A x : x.metric = q => (x \in GroupNow' <=> x \in GroupNow)
<1>1. UNCHANGED registryVars /\ (FamilyNext \/ UNCHANGED familyVars)
  BY DEF Churn, SetPlain
<1>2. DynamicNow' = DynamicNow /\ NumRegistered' = NumRegistered
  BY <1>1, RegistryStands, DynamicStands
<1>3. ASSUME NEW q \in Families
      PROVE  /\ tableVersion'[q] >= tableVersion[q]
             /\ tableVersion'[q] = tableVersion[q] => table'[q] = table[q]
  <2>1. CASE FamilyNext
    BY <2>1, FamilyMoves DEF World
  <2>2. CASE UNCHANGED familyVars
    <3>1. tableVersion[q] \in Nat
      BY FamilyTypes DEF World
    <3> QED  BY <2>2, <3>1 DEF familyVars
  <2> QED  BY <1>1, <2>1, <2>2
<1>4. \A p, s : Reads(p, s).metric = p
  BY DEF Reads
<1>5. \A p, s : Reads(p, s)'.metric = p
  BY DEF Reads
<1>6. ASSUME NEW q \in Families, table'[q] = table[q], NEW x, x.metric = q
      PROVE  x \in GroupNow' <=> x \in GroupNow
  <2>1. Walked(q)' = Walked(q) /\ \A s : Reads(q, s)' = Reads(q, s)
    BY <1>6, FamilyStands
  <2>2. \A s : IsMember(q, s) /\ IsMember(q, s)'
    BY DEF IsMember, Plain
  <2>3. x \in GroupNow <=> q \in 1..NumRegistered /\ \E s \in Walked(q) : x = Reads(q, s)
    BY <1>4, <1>6, <2>2 DEF GroupNow
  <2>4. x \in GroupNow' <=> q \in 1..NumRegistered' /\ \E s \in Walked(q)' : x = Reads(q, s)'
    BY <1>5, <1>6, <2>2 DEF GroupNow
  <2> QED  BY <1>2, <2>1, <2>3, <2>4
<1> QED  BY <1>2, <1>3, <1>6

-----------------------------------------------------------------------------
(* A group's readings as a pass goes on. *)

LEMMA ExactGrows ==
    ASSUME World, NEW g \in Seq(Reading), NEW p \in 1..NumRegistered, NEW s \in Walked(p),
           NEW rest, Exact(g, p, rest)
    PROVE  /\ IsMember(p, s) => Exact(Append(g, Reads(p, s)), p, rest \ {s})
           /\ ~IsMember(p, s) => Exact(g, p, rest \ {s})
<1>0. s \in Nat \ {0} /\ Reads(p, s) \in Reading
  BY ReadTypes
<1>1. ASSUME IsMember(p, s) PROVE Exact(Append(g, Reads(p, s)), p, rest \ {s})
  <2> DEFINE y == Reads(p, s)
             h == Append(g, y)
  <2>1. y \in GroupNow
    BY <1>1, GroupReadings
  <2>2. y \in Reading
    BY <1>0
  <2> HIDE DEF y
  <2>3. Len(h) = Len(g) + 1 /\ Len(g) \in Nat /\ (\A i \in 1..Len(g) : h[i] = g[i])
        /\ h[Len(g) + 1] = y
    BY <2>2, AppendFacts
  <2> HIDE DEF h
  <2>4. ASSUME NEW i \in 1..Len(h) PROVE h[i] \in GroupNow
    <3>1. i \in 1..Len(g) \/ i = Len(g) + 1
      BY <2>3
    <3> QED  BY <2>1, <2>3, <3>1 DEF Exact
  <2>5. ASSUME NEW x \in GroupNow, x.metric <= p, ~(x.metric = p /\ x.slot \in rest \ {s})
        PROVE  \E i \in 1..Len(h) : h[i] = x
    <3>1. CASE x.metric = p /\ x.slot = s
      <4>1. x = y
        BY <3>1, GroupReadings DEF y
      <4> QED  BY <2>3, <4>1
    <3>2. CASE ~(x.metric = p /\ x.slot = s)
      <4>1. PICK i \in 1..Len(g) : g[i] = x
        BY <2>5, <3>2 DEF Exact
      <4> QED  BY <2>3, <4>1
    <3> QED  BY <3>1, <3>2
  <2>6. Exact(h, p, rest \ {s})
    BY <2>4, <2>5 DEF Exact
  <2> QED  BY <2>6 DEF h, y
<1>2. ASSUME ~IsMember(p, s) PROVE Exact(g, p, rest \ {s})
  <2>1. ASSUME NEW x \in GroupNow PROVE ~(x.metric = p /\ x.slot = s)
    BY <1>2, GroupReadings
  <2> QED  BY <2>1 DEF Exact
<1> QED  BY <1>1, <1>2

LEMMA ExactListed ==
    ASSUME World, NEW g, NEW p, Exact(g, p, AllSlots)
    PROVE  Exact(g, p, Walked(p))
<1>1. \A x \in GroupNow : x.slot \in Walked(x.metric)
  BY GroupReadings
<1> QED  BY <1>1 DEF Exact

LEMMA ExactNext ==
    ASSUME World, NEW g, NEW p \in Nat, Exact(g, p, {})
    PROVE  Exact(g, p + 1, AllSlots)
<1>1. \A x \in GroupNow : x.metric \in Nat /\ x.slot \in AllSlots
  BY GroupReadings DEF Reading, AllSlots
<1>2. ASSUME NEW x \in GroupNow, x.metric <= p + 1, ~(x.metric = p + 1 /\ x.slot \in AllSlots)
      PROVE  x.metric <= p
  BY <1>1, <1>2
<1> QED  BY <1>2 DEF Exact

LEMMA ExactNothing ==
    ASSUME World
    PROVE  Exact(<<>>, 0, {})
<1>1. \A x \in GroupNow : x.metric \in Nat \ {0}
  BY GroupReadings DEF Reading
<1> QED  BY <1>1 DEF Exact

LEMMA OrderedWithin ==
    ASSUME NEW g, NEW p, NEW rest, Ordered(g, p, rest), NEW r, r \subseteq rest
    PROVE  Ordered(g, p, r)
BY DEF Ordered

LEMMA HeaderIn ==
    ASSUME NEW g \in Seq(Reading), NEW id, NEW p \in Nat, FoldOf(id, g, p),
           NEW q \in Static, q <= p, NEW k, Cut(g, q, k)
    PROVE  k + 2 * q \in 1..Len(id)
<1>1. Len(g) \in Nat /\ Folded(p) \in Nat /\ Len(id) = Len(g) + 2 * Folded(p)
  BY GroupTypes, WideConstants DEF FoldOf
<1>2. q \in Nat \ {0} /\ q <= NumStatic /\ NumStatic \in Nat
  BY WideConstants
<1>3. q <= Folded(p)
  BY <1>2 DEF Folded
<1>4. k \in 0..Len(g)
  BY DEF Cut
<1> QED  BY <1>1, <1>2, <1>3, <1>4, HeaderWithin

LEMMA VersionsGrow ==
    ASSUME NEW g \in Seq(Reading), NEW p \in Nat \ {0}, NEW id, FoldOf(id, g, p),
           NEW jd, \A i \in 1..Len(id) : jd[i] = id[i],
           NEW x \in Reading, x.metric = p, VersionsNow(id, g, p)
    PROVE  VersionsNow(jd, Append(g, x), p)
<1> SUFFICES ASSUME NEW q \in Families, NEW k \in Nat, q <= p, Cut(Append(g, x), q, k)
             PROVE  jd[k + 2 * q] = tableVersion[q]
  BY DEF VersionsNow
<1>1. q \in Static /\ q \in Nat
  BY WideConstants
<1>2. Cut(g, q, k)
  BY <1>1, CutsKept
<1>3. k + 2 * q \in 1..Len(id)
  BY <1>1, <1>2, HeaderIn
<1> QED  BY <1>2, <1>3 DEF VersionsNow

LEMMA VersionsNext ==
    ASSUME NEW g \in Seq(Reading), NEW p \in Nat, NEW id \in Seq(Nat), FoldOf(id, g, p),
           \A i \in 1..Len(g) : g[i].metric <= p, VersionOf(p + 1) \in Nat,
           VersionsNow(id, g, p)
    PROVE  VersionsNow(FoldMetric(id, p + 1), g, p + 1)
<1> DEFINE jd == FoldMetric(id, p + 1)
<1>1. \A i \in 1..Len(id) : jd[i] = id[i]
  BY FoldMetricGrows
<1>2. p + 1 \in Static => jd[Len(g) + 2 * (p + 1)] = VersionOf(p + 1)
  BY FoldOfNext
<1> HIDE DEF jd
<1>3. ASSUME NEW q \in Families, NEW k \in Nat, q <= p + 1, Cut(g, q, k)
      PROVE  jd[k + 2 * q] = tableVersion[q]
  <2>1. q \in Static /\ q \in Nat
    BY WideConstants
  <2>2. CASE q = p + 1
    <3>1. k = Len(g)
      BY <1>3, <2>2, CutAtEnd
    <3>2. VersionOf(q) = tableVersion[q]
      BY DEF VersionOf
    <3> QED  BY <1>2, <2>1, <2>2, <3>1, <3>2
  <2>3. CASE q # p + 1
    <3>1. q <= p
      BY <1>3, <2>1, <2>3
    <3>2. k + 2 * q \in 1..Len(id)
      BY <1>3, <2>1, <3>1, HeaderIn
    <3> QED  BY <1>1, <1>3, <3>1, <3>2 DEF VersionsNow
  <2> QED  BY <2>2, <2>3
<1> QED  BY <1>3 DEF VersionsNow, jd

LEMMA VersionsNothing == VersionsNow(<<>>, <<>>, 0)
<1>1. \A q \in Families : ~(q <= 0)
  BY WideConstants
<1> QED  BY <1>1 DEF VersionsNow

\* A value is read: the headers stay where they were.
LEMMA KnownReads ==
    ASSUME NEW g \in Seq(Reading), NEW p \in Nat \ {0}, NEW id, FoldOf(id, g, p),
           NEW jd, \A i \in 1..Len(id) : jd[i] = id[i],
           NEW x \in Reading, x.metric = p, NEW d, NEW rest, Known(id, g, d, p, rest)
    PROVE  Known(jd, Append(g, x), d, p, rest)
<1> SUFFICES ASSUME NEW q \in Families, NEW k \in Nat, q <= p, Cut(Append(g, x), q, k)
             PROVE  /\ jd[k + 2 * q] <= tableVersion[q]
                    /\ jd[k + 2 * q] = tableVersion[q] => Current(d, q, p, rest)
  BY DEF Known
<1>1. q \in Static /\ q \in Nat
  BY WideConstants
<1>2. Cut(g, q, k)
  BY <1>1, CutsKept
<1>3. k + 2 * q \in 1..Len(id)
  BY <1>1, <1>2, HeaderIn
<1>4. jd[k + 2 * q] = id[k + 2 * q]
  BY <1>3
<1> QED  BY <1>2, <1>4 DEF Known

\* A value is described.
LEMMA KnownDescribes ==
    ASSUME World, NEW g, NEW id, NEW d \in Seq(Reading), NEW p \in Nat \ {0}, NEW rest,
           NEW x \in Reading, x.metric = p, Known(id, g, d, p, rest),
           p \in Families => \A k \in Nat :
               Cut(g, p, k) /\ id[k + 2 * p] = tableVersion[p] => x \in GroupNow,
           \A y \in GroupNow : y.metric = p /\ y.slot = x.slot => y = x
    PROVE  Known(id, g, Append(d, x), p, rest \ {x.slot})
<1> DEFINE e == Append(d, x)
<1>1. Len(e) = Len(d) + 1 /\ Len(d) \in Nat /\ (\A i \in 1..Len(d) : e[i] = d[i])
      /\ e[Len(d) + 1] = x
  BY AppendFacts
<1> HIDE DEF e
<1>2. ASSUME NEW q \in Families, NEW k \in Nat, q <= p, Cut(g, q, k),
             id[k + 2 * q] = tableVersion[q]
      PROVE  Current(e, q, p, rest \ {x.slot})
  <2>1. Current(d, q, p, rest)
    BY <1>2 DEF Known
  <2>2. q = p => x \in GroupNow
    BY <1>2
  <2>3. ASSUME NEW i \in 1..Len(e), e[i].metric = q PROVE e[i] \in GroupNow
    <3>1. i \in 1..Len(d) \/ i = Len(d) + 1
      BY <1>1
    <3> QED  BY <1>1, <2>1, <2>2, <2>3, <3>1 DEF Current
  <2>4. ASSUME NEW y \in GroupNow, y.metric = q, ~(q = p /\ y.slot \in rest \ {x.slot})
        PROVE  \E i \in 1..Len(e) : e[i] = y
    <3>1. CASE q = p /\ y.slot = x.slot
      <4>1. y = x
        BY <2>4, <3>1
      <4> QED  BY <1>1, <4>1
    <3>2. CASE ~(q = p /\ y.slot = x.slot)
      <4>1. PICK i \in 1..Len(d) : d[i] = y
        BY <2>1, <2>4, <3>2 DEF Current
      <4> QED  BY <1>1, <4>1
    <3> QED  BY <3>1, <3>2
  <2> QED  BY <2>3, <2>4 DEF Current
<1> QED  BY <1>2 DEF Known, e

\* The slots left of a metric that is no family.
LEMMA KnownElsewhere ==
    ASSUME NEW g, NEW id, NEW d, NEW p, p \notin Families, NEW rest, Known(id, g, d, p, rest),
           NEW r
    PROVE  Known(id, g, d, p, r)
BY DEF Known, Current

LEMMA KnownListed ==
    ASSUME World, NEW g, NEW id, NEW d, NEW p, Known(id, g, d, p, AllSlots)
    PROVE  Known(id, g, d, p, Walked(p))
<1>1. \A x \in GroupNow : x.slot \in Walked(x.metric)
  BY GroupReadings
<1>2. \A q : Current(d, q, p, AllSlots) => Current(d, q, p, Walked(p))
  BY <1>1 DEF Current
<1> QED  BY <1>2 DEF Known

LEMMA KnownNext ==
    ASSUME World, NEW g \in Seq(Reading), NEW p \in Nat, NEW id \in Seq(Nat), FoldOf(id, g, p),
           \A i \in 1..Len(g) : g[i].metric <= p,
           NEW d \in Seq(Reading), \A i \in 1..Len(d) : d[i].metric <= p,
           VersionOf(p + 1) \in Nat, Known(id, g, d, p, {})
    PROVE  Known(FoldMetric(id, p + 1), g, d, p + 1, AllSlots)
<1> DEFINE jd == FoldMetric(id, p + 1)
<1>1. \A i \in 1..Len(id) : jd[i] = id[i]
  BY FoldMetricGrows
<1>2. p + 1 \in Static => jd[Len(g) + 2 * (p + 1)] = VersionOf(p + 1)
  BY FoldOfNext
<1> HIDE DEF jd
<1>3. ASSUME NEW q \in Families, NEW k \in Nat, q <= p + 1, Cut(g, q, k)
      PROVE  /\ jd[k + 2 * q] <= tableVersion[q]
             /\ jd[k + 2 * q] = tableVersion[q] => Current(d, q, p + 1, AllSlots)
  <2>1. q \in Static /\ q \in Nat
    BY WideConstants
  <2>2. CASE q = p + 1
    <3>1. k = Len(g)
      BY <1>3, <2>2, CutAtEnd
    <3>2. VersionOf(q) = tableVersion[q] /\ tableVersion[q] \in Nat
      BY FamilyTypes DEF VersionOf, World
    <3>3. jd[k + 2 * q] <= tableVersion[q]
      BY <1>2, <2>1, <2>2, <3>1, <3>2
    <3>4. \A i \in 1..Len(d) : d[i].metric # q
      <4>1. \A i \in 1..Len(d) : d[i].metric \in Nat /\ d[i].metric <= p
        BY GroupTypes
      <4> QED  BY <2>2, <4>1
    <3>5. \A x \in GroupNow : x.slot \in AllSlots
      BY GroupReadings DEF Reading, AllSlots
    <3>6. Current(d, q, p + 1, AllSlots)
      BY <2>2, <3>4, <3>5 DEF Current
    <3> QED  BY <3>3, <3>6
  <2>3. CASE q # p + 1
    <3>1. q <= p
      BY <1>3, <2>1, <2>3
    <3>2. k + 2 * q \in 1..Len(id)
      BY <1>3, <2>1, <3>1, HeaderIn
    <3>3. jd[k + 2 * q] = id[k + 2 * q]
      BY <1>1, <3>2
    <3>4. Current(d, q, p, {}) => Current(d, q, p + 1, AllSlots)
      BY <2>3 DEF Current
    <3> QED  BY <1>3, <3>1, <3>3, <3>4 DEF Known
  <2> QED  BY <2>2, <2>3
<1> QED  BY <1>3 DEF Known, jd

LEMMA KnownNothing == Known(<<>>, <<>>, <<>>, 0, {})
<1>1. \A q \in Families : ~(q <= 0)
  BY WideConstants
<1> QED  BY <1>1 DEF Known

LEMMA OthersDescribe ==
    ASSUME World, NEW d \in Seq(Reading), NEW p \in 1..NumRegistered, NEW s \in Nat \ {0},
           p \notin Static => s = 1, p \in Plain => s \in PlainSlots, Others(d)
    PROVE  Others(Append(d, Reads(p, s)))
<1> DEFINE x == Reads(p, s)
           e == Append(d, x)
<1>1. x \in Reading /\ x.metric = p /\ x.slot = s /\ (p \in Plain => x.who = Vacant)
  BY ReadTypes
<1>2. p \notin Static => x \in DynamicNow
  <2> SUFFICES ASSUME p \notin Static PROVE Reads(p, 1) \in DynamicNow
    OBVIOUS
  <2>1. p \in NumStatic + 1..NumRegistered
    BY StaticIs, RegistryTypes, WideConstants DEF World
  <2> QED  BY <2>1 DEF DynamicNow
<1> HIDE DEF x
<1>3. Len(e) = Len(d) + 1 /\ Len(d) \in Nat /\ (\A i \in 1..Len(d) : e[i] = d[i])
      /\ e[Len(d) + 1] = x
  BY <1>1, AppendFacts
<1> HIDE DEF e
<1>4. ASSUME NEW i \in 1..Len(e)
      PROVE  /\ e[i].metric \in Plain => e[i].who = Vacant /\ e[i].slot \in PlainSlots
             /\ e[i].metric \notin Static => e[i] \in DynamicNow
  <2>1. i \in 1..Len(d) \/ i = Len(d) + 1
    BY <1>3
  <2> QED  BY <1>1, <1>2, <1>3, <2>1 DEF Others
<1> QED  BY <1>4 DEF Others, e, x

LEMMA OthersNothing == Others(<<>>)
BY DEF Others

\* The dynamic metrics' names now, at their places.
LEMMA NamesAreNow ==
    ASSUME World
    PROVE  /\ NamesNow \in Seq(Nat) /\ NumRegistered = NumStatic + Len(NamesNow)
           /\ Addresses = {} => NamesNow = <<>>
           /\ \A x \in DynamicNow :
                /\ x.metric - NumStatic \in 1..Len(NamesNow)
                /\ x.who = NamesNow[x.metric - NumStatic]
<1> DEFINE n == NumRegistered - NumStatic
<1>1. NumRegistered \in Nat /\ NumStatic \in Nat /\ n \in Nat
      /\ \A p \in NumStatic + 1..NumRegistered : NameAt(p) \in Nat
  BY RegistryTypes, WideConstants DEF World
<1>2. \A k \in 1..n : NumStatic + k \in NumStatic + 1..NumRegistered
  BY <1>1
<1>3. NamesNow = [k \in 1..n |-> NameAt(NumStatic + k)]
  BY DEF NamesNow
<1> HIDE DEF n
<1>4. NamesNow \in Seq(Nat) /\ Len(NamesNow) = n
  BY <1>1, <1>2, <1>3
<1>5. ASSUME Addresses = {} PROVE NamesNow = <<>>
  <2>1. Registered = {}
    BY <1>5 DEF Registered
  <2>2. n = 0
    BY <1>1, <2>1, FS_EmptySet DEF NumRegistered, n
  <2> QED  BY <1>4, <2>2, EmptySeq
<1>6. ASSUME NEW x \in DynamicNow
      PROVE  /\ x.metric - NumStatic \in 1..Len(NamesNow)
             /\ x.who = NamesNow[x.metric - NumStatic]
  <2> DEFINE p == x.metric
  <2>1. p \in NumStatic + 1..NumRegistered /\ p \notin Static /\ x = Reads(p, 1)
    BY DynamicReadings
  <2>2. p - NumStatic \in 1..n /\ NumStatic + (p - NumStatic) = p
    BY <1>1, <2>1 DEF n
  <2>3. x.who = NameAt(p)
    BY <2>1, WideConstants DEF Reads, Plain
  <2> QED  BY <1>3, <1>4, <2>2, <2>3
<1> QED  BY <1>1, <1>4, <1>5, <1>6 DEF n

\* What is described as it stands is so under the names of now.
LEMMA OthersNamed ==
    ASSUME World, NEW d, Others(d)
    PROVE  Named(d, NamesNow)
BY NamesAreNow DEF Others, Named

-----------------------------------------------------------------------------
(* Two groups of the same readings. *)

\* In order, a group that has every reading has them in one way.
Within(g, h) == \A l \in 1..Len(g) : \E j \in 1..Len(h) : h[j] = g[l]

LEMMA SameNext ==
    ASSUME NEW g \in Seq(Reading), NEW h \in Seq(Reading), NEW n,
           Ordered(g, n, {}), Ordered(h, n, {}),
           Within(g, h), Within(h, g),
           NEW i \in 1..Len(g), \A j \in 1..i - 1 : j \in 1..Len(h) /\ g[j] = h[j]
    PROVE  i \in 1..Len(h) /\ g[i] = h[i]
<1>1. /\ Len(g) \in Nat /\ Len(h) \in Nat
      /\ \A j \in 1..Len(g) : g[j].metric \in Nat /\ g[j].slot \in Nat
      /\ \A j \in 1..Len(h) : h[j].metric \in Nat /\ h[j].slot \in Nat
  BY GroupTypes
<1>2. PICK j \in 1..Len(h) : h[j] = g[i]
  BY DEF Within
<1>3. ~(j < i)
  <2> SUFFICES ASSUME j < i PROVE FALSE
    OBVIOUS
  <2>1. j \in 1..Len(g) /\ g[j] = g[i]
    BY <1>1, <1>2
  <2> QED  BY <1>1, <2>1 DEF Ordered
<1>4. i \in 1..Len(h)
  BY <1>1, <1>3
<1>5. ASSUME j # i PROVE FALSE
  <2>1. i < j
    BY <1>1, <1>3, <1>5
  <2>2. PICK l \in 1..Len(g) : g[l] = h[i]
    BY <1>4 DEF Within
  <2>3. \/ h[i].metric < h[j].metric
        \/ h[i].metric = h[j].metric /\ h[i].slot < h[j].slot
    BY <1>4, <2>1 DEF Ordered
  <2>4. CASE l < i
    <3>1. h[l] = h[i] /\ l \in 1..Len(h)
      BY <1>1, <2>2, <2>4
    <3> QED  BY <1>1, <1>4, <2>4, <3>1 DEF Ordered
  <2>5. CASE l = i
    BY <1>1, <1>2, <1>4, <2>2, <2>3, <2>5
  <2>6. CASE l > i
    <3>1. \/ g[i].metric < g[l].metric
          \/ g[i].metric = g[l].metric /\ g[i].slot < g[l].slot
      BY <2>6 DEF Ordered
    <3> QED  BY <1>1, <1>2, <1>4, <2>2, <2>3, <3>1
  <2> QED  BY <1>1, <2>4, <2>5, <2>6
<1> QED  BY <1>2, <1>4, <1>5

LEMMA ExactUnique ==
    ASSUME World, NEW g \in Seq(Reading), NEW h \in Seq(Reading),
           Ordered(g, NumRegistered, {}), Ordered(h, NumRegistered, {}),
           Exact(g, NumRegistered, {}), Exact(h, NumRegistered, {})
    PROVE  g = h
<1>1. Len(g) \in Nat /\ Len(h) \in Nat
  BY GroupTypes
<1>2. \A x \in GroupNow : x.metric <= NumRegistered
  BY GroupReadings, RegistryTypes DEF World
<1>3. Within(g, h) /\ Within(h, g)
  BY <1>2 DEF Exact, Within
<1> DEFINE Both == {i \in Nat : i \in 1..Len(g) /\ i \in 1..Len(h) /\ g[i] = h[i]}
           T == {i \in Nat \ {0} : (i \in 1..Len(g) \/ i \in 1..Len(h)) /\ i \notin Both}
<1>4. T = {}
  <2> SUFFICES ASSUME T # {} PROVE FALSE
    OBVIOUS
  <2>1. PICK i \in T : \A k \in T : i <= k
    <3>1. T \subseteq Nat
      OBVIOUS
    <3> HIDE DEF T
    <3> QED  BY <3>1, LeastExists
  <2>2. \A j \in 1..i - 1 : j \in 1..Len(g) /\ j \in 1..Len(h) /\ g[j] = h[j]
    <3> SUFFICES ASSUME NEW j \in 1..i - 1
                 PROVE j \in 1..Len(g) /\ j \in 1..Len(h) /\ g[j] = h[j]
      OBVIOUS
    <3>1. j \notin T
      BY <1>1, <2>1
    <3>2. j \in Nat \ {0} /\ (j \in 1..Len(g) \/ j \in 1..Len(h))
      BY <1>1
    <3> QED  BY <3>1, <3>2
  <2>3. CASE i \in 1..Len(g)
    BY <1>3, <2>2, <2>3, SameNext
  <2>4. CASE i \in 1..Len(h)
    <3>1. i \in 1..Len(g) /\ h[i] = g[i]
      BY <1>3, <2>2, <2>4, SameNext
    <3> QED  BY <2>4, <3>1
  <2> QED  BY <2>3, <2>4
<1>5. Len(g) = Len(h)
  <2>1. ~(Len(g) < Len(h))
    <3> SUFFICES ASSUME Len(g) < Len(h) PROVE FALSE
      OBVIOUS
    <3>1. Len(h) \in 1..Len(h) /\ Len(h) \notin 1..Len(g) /\ Len(h) \in Nat \ {0}
      BY <1>1
    <3> QED  BY <1>4, <3>1
  <2>2. ~(Len(h) < Len(g))
    <3> SUFFICES ASSUME Len(h) < Len(g) PROVE FALSE
      OBVIOUS
    <3>1. Len(g) \in 1..Len(g) /\ Len(g) \notin 1..Len(h) /\ Len(g) \in Nat \ {0}
      BY <1>1
    <3> QED  BY <1>4, <3>1
  <2> QED  BY <1>1, <2>1, <2>2
<1>6. \A i \in 1..Len(g) : g[i] = h[i]
  <2> SUFFICES ASSUME NEW i \in 1..Len(g) PROVE g[i] = h[i]
    OBVIOUS
  <2>1. i \notin T /\ i \in Nat \ {0}
    BY <1>1, <1>4
  <2> QED  BY <2>1
<1> QED  BY <1>5, <1>6, SeqEqual

LEMMA PlacesCut ==
    ASSUME NEW g, NEW h, Len(g) = Len(h), SamePlaces(g, h), NEW q, NEW k, Len(g) \in Nat
    PROVE  Cut(g, q, k) <=> Cut(h, q, k)
<1>1. \A i \in 1..Len(g) : g[i].metric = h[i].metric
  BY DEF SamePlaces
<1>2. k \in 0..Len(g) => (\A i \in 1..k : i \in 1..Len(g)) /\ \A i \in k + 1..Len(g) : i \in 1..Len(g)
  OBVIOUS
<1> QED  BY <1>1, <1>2 DEF Cut

LEMMA PlacesFold ==
    ASSUME NEW g, NEW h, Len(g) = Len(h), SamePlaces(g, h), Len(g) \in Nat, NEW id, NEW p
    PROVE  FoldOf(id, g, p) <=> FoldOf(id, h, p)
<1>1. \A q, k : Cut(g, q, k) <=> Cut(h, q, k)
  BY PlacesCut
<1>2. \A i \in 1..Len(g) : g[i].metric = h[i].metric /\ g[i].slot = h[i].slot
  BY DEF SamePlaces
<1>3. ASSUME FoldOf(id, g, p) PROVE FoldOf(id, h, p)
  BY <1>1, <1>2, <1>3 DEF FoldOf
<1>4. ASSUME FoldOf(id, h, p) PROVE FoldOf(id, g, p)
  BY <1>1, <1>2, <1>4 DEF FoldOf
<1> QED  BY <1>3, <1>4

LEMMA PlacesOrdered ==
    ASSUME NEW g, NEW h, Len(g) = Len(h), SamePlaces(g, h), NEW p, NEW rest, Ordered(h, p, rest)
    PROVE  Ordered(g, p, rest)
BY DEF Ordered, SamePlaces

LEMMA PlacesKnown ==
    ASSUME NEW g, NEW h, Len(g) = Len(h), SamePlaces(g, h), Len(g) \in Nat,
           NEW id, NEW d, NEW p, NEW rest, Known(id, h, d, p, rest)
    PROVE  Known(id, g, d, p, rest)
<1>1. \A q, k : Cut(g, q, k) <=> Cut(h, q, k)
  BY PlacesCut
<1> QED  BY <1>1 DEF Known

\* A family's slots, in a group that has what is there.
LEMMA SameWithin ==
    ASSUME NEW g, NEW h, NEW n,
           \A q \in Families, k \in Nat : Cut(g, q, k) /\ Cut(h, q, k) =>
               Current(g, q, n, {}) /\ Current(h, q, n, {})
    PROVE  FamiliesWithin(g, h)
BY DEF Current, FamiliesWithin

-----------------------------------------------------------------------------
(* The cached schema. *)

LEMMA ReadingIs ==
    ASSUME NEW x \in Reading, NEW y \in Reading,
           x.metric = y.metric, x.slot = y.slot, x.who = y.who
    PROVE  x = y
BY DEF Reading

\* The plain slots of what is read now.
LEMMA PlainReadings ==
    ASSUME World, NEW x \in GroupNow, x.metric \in Plain
    PROVE  x.slot \in PlainSlots /\ x.who = Vacant
<1>1. x.metric \in 1..NumRegistered /\ x.slot \in Walked(x.metric) /\ x = Reads(x.metric, x.slot)
  BY GroupReadings
<1>2. Walked(x.metric) = PlainSlots
  BY DEF Walked, Plain
<1>3. x.slot \in Nat \ {0}
  BY <1>1, <1>2, WideConstants
<1> QED  BY <1>1, <1>2, <1>3, ReadTypes

\* A schema that folds to what is there now, with its families as they were
\* when it was described if their versions are, describes what is there now.
LEMMA SchemaIsNow ==
    ASSUME FamiliesFirst, DynamicsApart, World, NEW n, n = NumRegistered, NEW id,
           NEW g \in Seq(Reading), NEW h \in Seq(Reading), NEW then \in Seq(Nat),
           NEW m, m = NumStatic + Len(then), Addresses = {} => then = <<>>,
           FoldOf(id, g, n), Ordered(g, n, {}), Exact(g, n, {}), VersionsNow(id, g, n),
           FoldOf(id, h, m), Ordered(h, m, {}), Known(id, h, h, m, {}), Named(h, then)
    PROVE  Describes(h, g, then)
<1>0. /\ n \in Nat /\ n >= NumStatic /\ NumStatic \in Nat
      /\ Len(then) \in Nat /\ m \in Nat /\ m >= NumStatic
  <2>1. n \in Nat /\ n >= NumStatic /\ NumStatic \in Nat /\ Len(then) \in Nat
    BY RegistryTypes, WideConstants, LenProperties DEF World
  <2> QED  BY <2>1
<1>1. \A q \in Families : q \in Static /\ q \in Nat /\ q <= n /\ q <= m
  <2>1. \A q \in Families : q \in 1..NumStatic /\ q \in Static
    BY WideConstants
  <2> QED  BY <1>0, <2>1
<1>2. \A x \in GroupNow : x \in Reading /\ x.metric \in Nat /\ x.metric <= n
        /\ x = Reads(x.metric, x.slot)
  BY <1>0, GroupReadings DEF Reading
<1>3. ASSUME NEW q \in Families, NEW k \in Nat, Cut(g, q, k), Cut(h, q, k)
      PROVE  Current(g, q, n, {}) /\ Current(h, q, n, {})
  <2>1. id[k + 2 * q] = tableVersion[q]
    BY <1>1, <1>3 DEF VersionsNow
  <2>2. Current(h, q, m, {})
    BY <1>1, <1>3, <2>1 DEF Known
  <2>3. Current(g, q, n, {})
    BY <1>2 DEF Exact, Current
  <2> QED  BY <2>2, <2>3 DEF Current
<1>4. FamiliesWithin(g, h)
  BY <1>3, SameWithin
<1>5. FamiliesWithin(h, g)
  BY <1>3, SameWithin
<1>6. (SlotsApart(g) /\ SlotsApart(h)) \/ (n = NumStatic /\ m = NumStatic)
  <2>1. CASE Plain = {}
    BY <2>1 DEF SlotsApart
  <2>2. CASE PlainSlots \subseteq Static
    <3>1. SlotsApart(g)
      BY <2>2, PlainReadings DEF SlotsApart, Exact
    <3>2. SlotsApart(h)
      BY <2>2 DEF SlotsApart, Named
    <3> QED  BY <3>1, <3>2
  <2>3. CASE Addresses = {}
    <3>1. Len(then) = 0 /\ Len(NamesNow) = 0
      BY <2>3, NamesAreNow, EmptySeq
    <3> QED  BY <1>0, <3>1, NamesAreNow
  <2> QED  BY <2>1, <2>2, <2>3 DEF DynamicsApart
<1>7. Len(g) = Len(h) /\ SamePlaces(g, h)
  BY <1>0, <1>4, <1>5, <1>6, OneFoldOneGroup
<1>8. /\ Len(g) \in Nat
      /\ \A i \in 1..Len(g) : g[i] \in Reading /\ h[i] \in Reading
           /\ g[i].metric = h[i].metric /\ g[i].slot = h[i].slot
  BY <1>7, GroupTypes DEF SamePlaces
<1>9. ASSUME NEW i \in 1..Len(g) PROVE h[i] = DescribedAs(g[i], then)
  <2>1. /\ g[i] \in GroupNow /\ g[i] \in Reading /\ h[i] \in Reading
        /\ g[i].metric = h[i].metric /\ g[i].slot = h[i].slot /\ i \in 1..Len(h)
    BY <1>7, <1>8 DEF Exact
  <2>2. CASE h[i].metric \in Families
    <3> DEFINE q == h[i].metric
    <3>1. PICK k \in Nat : Cut(g, q, k)
      BY <1>1, <2>2, CutExists
    <3>2. Cut(h, q, k)
      BY <1>7, <1>8, <3>1, PlacesCut
    <3>3. h[i] \in GroupNow
      BY <1>3, <2>1, <2>2, <3>1, <3>2 DEF Current
    <3>4. h[i] = g[i]
      BY <1>2, <2>1, <3>3
    <3> QED  BY <1>1, <2>1, <2>2, <3>4 DEF DescribedAs
  <2>3. CASE h[i].metric \in Plain
    <3>1. h[i].who = Vacant /\ g[i].who = Vacant
      BY <2>1, <2>3, PlainReadings DEF Named
    <3>2. h[i] = g[i]
      BY <2>1, <3>1, ReadingIs
    <3> QED  BY <2>1, <2>3, <3>2 DEF DescribedAs, Plain
  <2>4. CASE h[i].metric \notin Static
    <3> DEFINE w == then[h[i].metric - NumStatic]
    <3>1. h[i].who = w
      BY <2>1, <2>4 DEF Named
    <3>2. DescribedAs(g[i], then) = [g[i] EXCEPT !.who = w]
      BY <2>1, <2>4 DEF DescribedAs
    <3> HIDE DEF w
    <3> QED  BY <2>1, <3>1, <3>2 DEF Reading
  <2> QED  BY <2>2, <2>3, <2>4 DEF Plain
<1> QED  BY <1>7, <1>9 DEF Describes

-----------------------------------------------------------------------------
(* The steps. *)

WideInv ==
    /\ WBTypeOK /\ FamilyInv /\ RegistryInv /\ PassInv /\ SkeletonInv
    /\ FoldInv /\ WalkInv /\ MissInv /\ HitInv /\ EmittedInv

LEMMA WideTypes ==
    ASSUME WBTypeOK
    PROVE  /\ World
           /\ cursor \in Nat \ {0} /\ identity \in Seq(Nat) /\ remaining \subseteq Nat \ {0}
           /\ descs \in Seq(Reading) /\ values \in Seq(Reading)
           /\ skeleton.identity \in Seq(Nat) /\ skeleton.schema \in Seq(Reading)
           /\ skeleton.names \in Seq(Nat)
           /\ emitted.schema \in Seq(Reading) /\ emitted.values \in Seq(Reading)
BY DEF WBTypeOK, World

\* What a step that leaves the world leaves of the readings.
LEMMA ReadingsStand ==
    ASSUME UNCHANGED world
    PROVE  /\ \A g, p, r : Exact(g, p, r) => Exact(g, p, r)'
           /\ \A i, g, p : VersionsNow(i, g, p) => VersionsNow(i, g, p)'
           /\ \A i, g, d, p, r : Known(i, g, d, p, r) => Known(i, g, d, p, r)'
           /\ \A d : Others(d) => Others(d)'
<1>1. UNCHANGED <<GroupNow, DynamicNow, tableVersion>>
  BY WorldStands
<1>2. ASSUME NEW g, NEW p, NEW r, Exact(g, p, r) PROVE Exact(g, p, r)'
  BY <1>1, <1>2 DEF Exact
<1>3. ASSUME NEW i, NEW g, NEW p, VersionsNow(i, g, p) PROVE VersionsNow(i, g, p)'
  BY <1>1, <1>3 DEF VersionsNow
<1>4. ASSUME NEW d, NEW q, NEW p, NEW r, Current(d, q, p, r) PROVE Current(d, q, p, r)'
  BY <1>1, <1>4 DEF Current
<1>5. ASSUME NEW i, NEW g, NEW d, NEW p, NEW r, Known(i, g, d, p, r) PROVE Known(i, g, d, p, r)'
  BY <1>1, <1>4, <1>5 DEF Known
<1>6. ASSUME NEW d, Others(d) PROVE Others(d)'
  BY <1>1, <1>6 DEF Others
<1> QED  BY <1>2, <1>3, <1>5, <1>6

\* A build's step leaves the world, and all but the last the cached schema.
LEMMA BuildFrame ==
    ASSUME WideInv, UNCHANGED world
    PROVE  /\ FamilyInv' /\ RegistryInv' /\ World'
           /\ FamilyTypeOK' /\ RegistryTypeOK' /\ (nonzero \in [Plain -> SUBSET PlainSlots])'
           /\ UNCHANGED <<GroupNow, DynamicNow, NumRegistered, tableVersion>>
           /\ UNCHANGED skeleton => SkeletonInv'
<1>1. UNCHANGED familyVars /\ UNCHANGED registryVars /\ UNCHANGED nonzero
  BY DEF world
<1>2. FamilyInv'
  BY <1>1, FamilyInvStep DEF WideInv
<1>3. RegistryInv'
  BY <1>1 DEF WideInv, RegistryInv, RegistryTypeOK, registryVars
<1>4. UNCHANGED <<GroupNow, DynamicNow, NumRegistered, tableVersion>> /\ World'
  BY WorldStands, WideTypes DEF WideInv
<1>5. ASSUME UNCHANGED skeleton PROVE SkeletonInv'
  <2>1. SkeletonInv
    BY DEF WideInv
  <2> QED  BY <1>1, <1>5, <2>1, ReadingsStand DEF SkeletonInv, Named, Made, NoSkeleton
<1>6. FamilyTypeOK' /\ RegistryTypeOK'
  BY <1>4 DEF World
<1>7. (nonzero \in [Plain -> SUBSET PlainSlots])'
  BY <1>1 DEF WideInv, WBTypeOK
<1> QED  BY <1>1, <1>2, <1>3, <1>4, <1>5, <1>6, <1>7

LEMMA BuildTypes ==
    ASSUME WideInv, WideBuild
    PROVE  UNCHANGED world /\ WBTypeOK'
<1>1. UNCHANGED world
  BY DEF WideBuild, FoldStart, FoldList, FoldMember, FoldNextMetric, Decide, WalkList, WalkValue,
     WalkDescribe, WalkNextMetric, Emit
<1> SUFFICES WBTypeOK'
  BY <1>1
<1>2. WBTypeOK /\ PassInv /\ World
  BY WideTypes DEF WideInv
<1>3. FamilyTypeOK' /\ RegistryTypeOK' /\ (nonzero \in [Plain -> SUBSET PlainSlots])'
  BY <1>1, BuildFrame
<1>4. /\ cursor \in Nat \ {0} /\ identity \in Seq(Nat) /\ remaining \subseteq Nat \ {0}
      /\ descs \in Seq(Reading) /\ values \in Seq(Reading)
      /\ skeleton \in [identity : Seq(Nat), schema : Seq(Reading), names : Seq(Nat)]
      /\ emitted \in [schema : Seq(Reading), values : Seq(Reading)]
      /\ wideBuilds \in 0..MaxWideBuilds /\ undisturbed \in BOOLEAN
      /\ needsSchema \in BOOLEAN
  BY <1>2 DEF WBTypeOK
<1>5. NumRegistered \in Nat /\ NumRegistered >= NumStatic /\ NumStatic \in Nat /\ NumStatic > 0
  BY <1>2, RegistryTypes, WideConstants DEF World
<1>6. phase # "idle" => cursor \in 1..NumRegistered
  BY <1>2 DEF PassInv
<1>7. \A p \in 1..NumRegistered, i \in Seq(Nat) : FoldMetric(i, p) \in Seq(Nat)
  <2> SUFFICES ASSUME NEW p \in 1..NumRegistered, NEW i \in Seq(Nat)
               PROVE  FoldMetric(i, p) \in Seq(Nat)
    OBVIOUS
  <2>1. VersionOf(p) \in Nat /\ p \in Nat \ {0}
    BY <1>2, <1>5, ReadTypes
  <2> QED  BY <2>1, FoldMetricGrows
<1>8. \A p \in 1..NumRegistered, i \in Seq(Nat), s \in Nat \ {0} : FoldSlot(i, p, s) \in Seq(Nat)
  <2> SUFFICES ASSUME NEW p \in 1..NumRegistered, NEW i \in Seq(Nat), NEW s \in Nat \ {0}
               PROVE  FoldSlot(i, p, s) \in Seq(Nat)
    OBVIOUS
  <2>1. p \in Nat \ {0}
    BY <1>5
  <2> QED  BY <2>1, FoldSlotGrows
<1>9. <<>> \in Seq(Nat) /\ <<>> \in Seq(Reading)
  BY EmptySeq
<1>10. \A p \in 1..NumRegistered, s \in Nat \ {0}, q \in Seq(Reading) :
          Append(q, Reads(p, s)) \in Seq(Reading)
  <2> SUFFICES ASSUME NEW p \in 1..NumRegistered, NEW s \in Nat \ {0}, NEW q \in Seq(Reading)
               PROVE  Append(q, Reads(p, s)) \in Seq(Reading)
    OBVIOUS
  <2>1. Reads(p, s) \in Reading
    BY <1>2, ReadTypes
  <2> QED  BY <2>1, AppendFacts
<1>11. \A p \in 1..NumRegistered : Walked(p) \subseteq Nat \ {0}
  BY <1>2, ReadTypes
<1>12. 1 \in 1..NumRegistered
  BY <1>5
<1>13. CASE FoldStart
  <2>1. /\ phase' = "fold" /\ cursor' = 1 /\ descs' = <<>> /\ values' = <<>>
        /\ emitted' = [schema |-> <<>>, values |-> <<>>]
        /\ undisturbed' = TRUE /\ UNCHANGED <<skeleton, remaining, needsSchema>>
    BY <1>13 DEF FoldStart, NoGroup
  <2>2. wideBuilds' \in 0..MaxWideBuilds
    BY <1>4, <1>13, WideBuilderAssumption DEF FoldStart
  <2>3. identity' \in Seq(Nat)
    BY <1>7, <1>9, <1>12, <1>13 DEF FoldStart
  <2>4. emitted' \in [schema : Seq(Reading), values : Seq(Reading)]
    BY <1>9, <2>1
  <2> QED  BY <1>3, <1>4, <1>9, <2>1, <2>2, <2>3, <2>4 DEF WBTypeOK
<1>14. CASE FoldList \/ WalkList
  BY <1>3, <1>4, <1>6, <1>11, <1>14 DEF FoldList, WalkList, WBTypeOK
<1>15. CASE FoldNextMetric \/ WalkNextMetric
  <2>1. cursor' \in 1..NumRegistered /\ cursor' = cursor + 1
    <3>1. cursor < NumRegistered /\ cursor' = cursor + 1
      BY <1>15 DEF FoldNextMetric, WalkNextMetric
    <3> QED  BY <1>4, <1>5, <3>1
  <2>2. identity' \in Seq(Nat)
    BY <1>4, <1>7, <1>15, <2>1 DEF FoldNextMetric, WalkNextMetric
  <2>3. /\ phase' \in {"fold", "walk"} /\ cursor' \in Nat \ {0}
        /\ UNCHANGED <<skeleton, remaining, needsSchema, descs, values, emitted, wideBuilds,
                       undisturbed>>
    <3>1. cursor' \in Nat \ {0}
      BY <1>4, <2>1
    <3> QED  BY <1>15, <3>1 DEF FoldNextMetric, WalkNextMetric
  <2> QED  BY <1>3, <1>4, <2>2, <2>3 DEF WBTypeOK
<1>16. CASE Decide
  <2>1. /\ phase' = "walk" /\ cursor' = 1 /\ needsSchema' \in BOOLEAN
        /\ UNCHANGED <<skeleton, remaining, descs, values, emitted, wideBuilds, undisturbed>>
    BY <1>16 DEF Decide
  <2>2. identity' = FoldMetric(<<>>, 1) \/ identity' = <<>>
    BY <1>16 DEF Decide
  <2>3. identity' \in Seq(Nat)
    BY <1>7, <1>9, <1>12, <2>2
  <2> QED  BY <1>3, <1>4, <2>1, <2>3 DEF WBTypeOK
<1>17. CASE Emit
  <2>1. skeleton' \in [identity : Seq(Nat), schema : Seq(Reading), names : Seq(Nat)]
    <3>1. \/ skeleton' = skeleton
          \/ skeleton' = [identity |-> identity, schema |-> descs, names |-> NamesNow]
          \/ skeleton' = [identity |-> <<>>, schema |-> <<>>, names |-> <<>>]
      BY <1>17 DEF Emit, NoSkeleton
    <3>2. [identity |-> <<>>, schema |-> <<>>, names |-> <<>>]
            \in [identity : Seq(Nat), schema : Seq(Reading), names : Seq(Nat)]
      BY <1>9
    <3>4. NamesNow \in Seq(Nat)
      BY <1>2, NamesAreNow
    <3>3. [identity |-> identity, schema |-> descs, names |-> NamesNow]
            \in [identity : Seq(Nat), schema : Seq(Reading), names : Seq(Nat)]
      BY <1>4, <3>4
    <3> QED  BY <1>4, <3>1, <3>2, <3>3
  <2>2. emitted' \in [schema : Seq(Reading), values : Seq(Reading)]
    <3>1. \/ emitted' = emitted
          \/ emitted' = [schema |-> descs, values |-> values]
          \/ emitted' = [schema |-> skeleton.schema, values |-> values]
      BY <1>17 DEF Emit
    <3> QED  BY <1>4, <3>1
  <2>3. phase' = "idle" /\ UNCHANGED <<cursor, identity, remaining, needsSchema, descs, values,
                                       wideBuilds, undisturbed>>
    BY <1>17 DEF Emit
  <2> QED  BY <1>3, <1>4, <2>1, <2>2, <2>3 DEF WBTypeOK
<1>18. ASSUME NEW s \in remaining, FoldMember(s) PROVE WBTypeOK'
  BY <1>3, <1>4, <1>6, <1>8, <1>18 DEF FoldMember, WBTypeOK
<1>19. ASSUME NEW s \in remaining, WalkValue(s) PROVE WBTypeOK'
  <2>1. /\ identity' = identity \/ identity' = FoldSlot(identity, cursor, s)
        /\ values' = values \/ values' = Append(values, Reads(cursor, s))
        /\ remaining' = remaining \/ remaining' = remaining \ {s}
        /\ phase' = "walk_members" \/ phase' = "describe"
        /\ UNCHANGED <<skeleton, cursor, needsSchema, descs, emitted, wideBuilds, undisturbed>>
    BY <1>19 DEF WalkValue
  <2>2. cursor \in 1..NumRegistered /\ s \in Nat \ {0}
    BY <1>4, <1>6, <1>19 DEF WalkValue
  <2>3. identity' \in Seq(Nat)
    <3>1. FoldSlot(identity, cursor, s) \in Seq(Nat)
      BY <1>4, <1>8, <2>2
    <3> QED  BY <1>4, <2>1, <3>1
  <2>4. values' \in Seq(Reading)
    <3>1. Append(values, Reads(cursor, s)) \in Seq(Reading)
      BY <1>4, <1>10, <2>2
    <3> QED  BY <1>4, <2>1, <3>1
  <2>5. remaining' \subseteq Nat \ {0}
    BY <1>4, <2>1
  <2> QED  BY <1>3, <1>4, <2>1, <2>3, <2>4, <2>5 DEF WBTypeOK
<1>20. ASSUME NEW s \in remaining, WalkDescribe(s) PROVE WBTypeOK'
  BY <1>3, <1>4, <1>6, <1>10, <1>20 DEF WalkDescribe, WBTypeOK
<1> QED  BY <1>1, <1>13, <1>14, <1>15, <1>16, <1>17, <1>18, <1>19, <1>20 DEF WideBuild

LEMMA BuildPass ==
    ASSUME WideInv, WideBuild
    PROVE  PassInv'
<1>1. UNCHANGED world /\ WBTypeOK' /\ WBTypeOK /\ PassInv /\ World
  BY BuildTypes, WideTypes DEF WideInv
<1>2. NumRegistered' = NumRegistered /\ (\A p : Walked(p)' = Walked(p))
  BY <1>1, WorldStands
<1>3. NumRegistered \in Nat /\ NumRegistered >= NumStatic /\ NumStatic \in Nat /\ NumStatic > 0
  BY <1>1, RegistryTypes, WideConstants DEF World
<1>4. cursor \in Nat \ {0}
  BY <1>1 DEF WBTypeOK
<1>5. ASSUME NEW p \in 1..NumRegistered, p \notin Static PROVE Walked(p) = {1}
  BY <1>1, <1>5, ReadTypes
<1> DEFINE Members == {"fold_members", "walk_members", "describe"}
<1>6. ASSUME phase' \in Members /\ cursor' \notin Static PROVE remaining' \subseteq {1}
  <2>1. CASE FoldList \/ WalkList
    BY <1>1, <1>5, <1>6, <2>1 DEF FoldList, WalkList, PassInv
  <2>2. CASE FoldStart \/ FoldNextMetric \/ Decide \/ WalkNextMetric \/ Emit
    BY <1>6, <2>2 DEF FoldStart, FoldNextMetric, Decide, WalkNextMetric, Emit
  <2>3. CASE \E s \in remaining : FoldMember(s) \/ WalkValue(s) \/ WalkDescribe(s)
    BY <1>1, <1>6, <2>3 DEF FoldMember, WalkValue, WalkDescribe, PassInv
  <2> QED  BY <2>1, <2>2, <2>3 DEF WideBuild
<1>7. ASSUME phase' \in Members /\ undisturbed' PROVE remaining' \subseteq Walked(cursor)'
  <2>1. CASE FoldList \/ WalkList
    BY <1>2, <2>1 DEF FoldList, WalkList
  <2>2. CASE FoldStart \/ FoldNextMetric \/ Decide \/ WalkNextMetric \/ Emit
    BY <1>7, <2>2 DEF FoldStart, FoldNextMetric, Decide, WalkNextMetric, Emit
  <2>3. CASE \E s \in remaining : FoldMember(s) \/ WalkValue(s) \/ WalkDescribe(s)
    <3>1. cursor' = cursor /\ undisturbed' = undisturbed /\ phase \in Members
          /\ remaining' \subseteq remaining
      BY <2>3 DEF FoldMember, WalkValue, WalkDescribe
    <3>2. remaining \subseteq Walked(cursor)
      BY <1>1, <1>7, <3>1 DEF PassInv
    <3> QED  BY <1>2, <3>1, <3>2
  <2> QED  BY <2>1, <2>2, <2>3 DEF WideBuild
<1>8. ASSUME phase' # "idle" PROVE cursor' \in 1..NumRegistered'
  <2>1. CASE FoldStart
    BY <1>2, <1>3, <1>4, <2>1 DEF FoldStart
  <2>2. CASE FoldNextMetric \/ WalkNextMetric
    BY <1>2, <1>3, <1>4, <2>2 DEF FoldNextMetric, WalkNextMetric
  <2>3. CASE Decide
    BY <1>2, <1>3, <2>3 DEF Decide
  <2>4. CASE FoldList \/ WalkList \/ Emit
    BY <1>1, <1>2, <1>8, <2>4 DEF FoldList, WalkList, Emit, PassInv
  <2>5. CASE \E s \in remaining : FoldMember(s) \/ WalkValue(s) \/ WalkDescribe(s)
    BY <1>1, <1>2, <2>5 DEF FoldMember, WalkValue, WalkDescribe, PassInv
  <2> QED  BY <2>1, <2>2, <2>3, <2>4, <2>5 DEF WideBuild
<1>9. ASSUME phase' \in Members /\ cursor' \in Plain PROVE remaining' \subseteq PlainSlots
  <2>1. CASE FoldList \/ WalkList
    <3>1. Walked(cursor) = PlainSlots
      BY <1>9, <2>1 DEF FoldList, WalkList, Walked, Plain
    <3> QED  BY <2>1, <3>1 DEF FoldList, WalkList
  <2>2. CASE FoldStart \/ FoldNextMetric \/ Decide \/ WalkNextMetric \/ Emit
    BY <1>9, <2>2 DEF FoldStart, FoldNextMetric, Decide, WalkNextMetric, Emit
  <2>3. CASE \E s \in remaining : FoldMember(s) \/ WalkValue(s) \/ WalkDescribe(s)
    BY <1>1, <1>9, <2>3 DEF FoldMember, WalkValue, WalkDescribe, PassInv
  <2> QED  BY <2>1, <2>2, <2>3 DEF WideBuild
<1>10. ASSUME phase' \in {"fold", "fold_members"} PROVE values' = <<>> /\ descs' = <<>>
  <2>1. CASE FoldStart
    BY <2>1 DEF FoldStart
  <2>2. CASE FoldList \/ FoldNextMetric
    BY <1>1, <2>2 DEF FoldList, FoldNextMetric, PassInv, Folding
  <2>3. CASE Decide \/ WalkList \/ WalkNextMetric \/ Emit
    BY <1>10, <2>3 DEF Decide, WalkList, WalkNextMetric, Emit
  <2>4. CASE \E s \in remaining : FoldMember(s)
    BY <1>1, <2>4 DEF FoldMember, PassInv, Folding
  <2>5. CASE \E s \in remaining : WalkValue(s) \/ WalkDescribe(s)
    BY <1>10, <2>5 DEF WalkValue, WalkDescribe
  <2> QED  BY <2>1, <2>2, <2>3, <2>4, <2>5 DEF WideBuild
<1>11. ASSUME phase' # "idle" PROVE emitted' = NoGroup
  <2>1. CASE FoldStart
    BY <2>1 DEF FoldStart
  <2>2. CASE FoldList \/ WalkList \/ FoldNextMetric \/ WalkNextMetric \/ Decide
    BY <1>1, <2>2 DEF FoldList, WalkList, FoldNextMetric, WalkNextMetric, Decide, PassInv
  <2>3. CASE \E s \in remaining : FoldMember(s) \/ WalkValue(s) \/ WalkDescribe(s)
    BY <1>1, <2>3 DEF FoldMember, WalkValue, WalkDescribe, PassInv
  <2>4. CASE Emit
    BY <1>11, <2>4 DEF Emit
  <2> QED  BY <2>1, <2>2, <2>3, <2>4 DEF WideBuild
<1>12. NoGroup' = NoGroup
  BY DEF NoGroup
<1> QED  BY <1>6, <1>7, <1>8, <1>9, <1>10, <1>11, <1>12 DEF PassInv, Folding

LEMMA LeftIs ==
    /\ phase \in {"fold", "walk"} => Left = AllSlots
    /\ phase \in {"fold_members", "walk_members"} => Left = remaining
    /\ phase' \in {"fold", "walk"} => Left' = AllSlots
    /\ phase' \in {"fold_members", "walk_members"} => Left' = remaining'
BY DEF Left, AllSlots

\* The group that was folded, and what is left of the metric.
LEMMA FoldBuilds ==
    ASSUME WideInv, WideBuild
    PROVE  FoldInv'
<1>0. (undisturbed \in BOOLEAN)'
  BY BuildTypes DEF WBTypeOK
<1> SUFFICES ASSUME Folding', undisturbed' = TRUE PROVE FoldInv'
  BY <1>0 DEF FoldInv
<1>1. UNCHANGED world /\ WBTypeOK /\ PassInv /\ World /\ FoldInv
  BY BuildTypes, WideTypes DEF WideInv
<1>2. /\ \A g, p, r : Exact(g, p, r) => Exact(g, p, r)'
      /\ \A i, g, p : VersionsNow(i, g, p) => VersionsNow(i, g, p)'
      /\ \A p : Walked(p)' = Walked(p)
      /\ AllSlots' = AllSlots
  BY <1>1, ReadingsStand, WorldStands DEF AllSlots
<1>3. NumRegistered \in Nat /\ NumRegistered >= NumStatic /\ NumStatic \in Nat /\ NumStatic > 0
  BY <1>1, RegistryTypes, WideConstants DEF World
<1>4. identity \in Seq(Nat) /\ remaining \subseteq Nat \ {0}
  BY <1>1, WideTypes
<1>5. CASE FoldStart
  <2>1. identity' = FoldMetric(<<>>, 1) /\ cursor' = 1 /\ phase' = "fold"
    BY <1>5 DEF FoldStart
  <2>2. Left' = AllSlots
    BY <1>2, <2>1 DEF Left
  <2>3. VersionOf(1) \in Nat
    <3>1. 1 \in 1..NumRegistered
      BY <1>3
    <3> QED  BY <1>1, <3>1, ReadTypes
  <2>4. <<>> \in Seq(Reading) /\ <<>> \in Seq(Nat) /\ 0 + 1 = 1 /\ \A i \in 1..Len(<<>>) : FALSE
    <3>1. <<>> \in Seq(Reading) /\ <<>> \in Seq(Nat)
      BY EmptySeq
    <3>2. 0 + 1 = 1 /\ \A i \in 1..Len(<<>>) : FALSE
      OBVIOUS
    <3> QED  BY <3>1, <3>2
  <2>5. FoldOf(FoldMetric(<<>>, 0 + 1), <<>>, 0 + 1)
    BY <2>3, <2>4, FoldOfNothing, FoldOfNext
  <2>6. VersionsNow(FoldMetric(<<>>, 0 + 1), <<>>, 0 + 1)
    BY <2>3, <2>4, FoldOfNothing, VersionsNothing, VersionsNext
  <2>7. Exact(<<>>, 0 + 1, AllSlots)
    BY <1>1, ExactNothing, ExactNext
  <2>8. Ordered(<<>>, 1, AllSlots)
    BY OrderedNothing
  <2>9. Exact(<<>>, 1, AllSlots)' /\ VersionsNow(FoldMetric(<<>>, 1), <<>>, 1)
        /\ FoldOf(FoldMetric(<<>>, 1), <<>>, 1)
    BY <1>2, <2>4, <2>5, <2>6, <2>7
  <2> DEFINE w == FoldMetric(<<>>, 1)
  <2>10. VersionsNow(identity, <<>>, 1)'
    BY <1>1, <2>1, <2>9, WorldStands DEF VersionsNow
  <2> QED  BY <2>1, <2>2, <2>4, <2>8, <2>9, <2>10 DEF FoldInv
<1>6. CASE FoldList
  <2>1. /\ phase = "fold" /\ phase' = "fold_members" /\ remaining' = Walked(cursor)
        /\ cursor' = cursor /\ identity' = identity /\ undisturbed = TRUE
    BY <1>6 DEF FoldList
  <2>2. Left = AllSlots /\ Left' = Walked(cursor) /\ cursor \in 1..NumRegistered
    BY <1>1, <2>1 DEF Left, PassInv
  <2>3. PICK g \in Seq(Reading) :
          /\ FoldOf(identity, g, cursor) /\ Ordered(g, cursor, AllSlots)
          /\ Exact(g, cursor, AllSlots) /\ VersionsNow(identity, g, cursor)
    BY <1>1, <2>1, <2>2 DEF FoldInv, Folding
  <2>4. Exact(g, cursor, Walked(cursor))
    BY <1>1, <2>3, ExactListed
  <2>5. Ordered(g, cursor, Walked(cursor))
    <3>1. Walked(cursor) \subseteq AllSlots
      BY <1>1, <2>2, ReadTypes DEF AllSlots
    <3> QED  BY <2>3, <3>1, OrderedWithin
  <2> QED  BY <1>2, <2>1, <2>2, <2>3, <2>4, <2>5 DEF FoldInv
<1>7. ASSUME NEW s \in remaining, FoldMember(s) PROVE FoldInv'
  <2>1. /\ phase = "fold_members" /\ phase' = "fold_members" /\ remaining' = remaining \ {s}
        /\ cursor' = cursor /\ undisturbed = TRUE /\ \A r \in remaining : s <= r
        /\ identity' = IF IsMember(cursor, s) THEN FoldSlot(identity, cursor, s) ELSE identity
    BY <1>7 DEF FoldMember, IsNext
  <2>2. /\ Left = remaining /\ Left' = remaining \ {s} /\ cursor \in 1..NumRegistered
        /\ cursor \in Nat \ {0} /\ remaining \subseteq Walked(cursor)
        /\ cursor \notin Static => s = 1
    <3>1. Left = remaining /\ Left' = remaining \ {s}
      BY <2>1, LeftIs
    <3>2. cursor \in 1..NumRegistered /\ remaining \subseteq Walked(cursor)
          /\ (cursor \notin Static => s = 1)
      BY <1>1, <1>7, <2>1 DEF PassInv
    <3> QED  BY <1>3, <3>1, <3>2
  <2>3. PICK g \in Seq(Reading) :
          /\ FoldOf(identity, g, cursor) /\ Ordered(g, cursor, remaining)
          /\ Exact(g, cursor, remaining) /\ VersionsNow(identity, g, cursor)
    BY <1>1, <2>1, <2>2 DEF FoldInv, Folding
  <2>4. CASE ~IsMember(cursor, s)
    <3>1. Exact(g, cursor, remaining \ {s})
      BY <1>1, <2>2, <2>3, <2>4, ExactGrows
    <3>2. Ordered(g, cursor, remaining \ {s})
      BY <2>3, OrderedWithin
    <3>3. identity' = identity
      BY <2>1, <2>4
    <3> QED  BY <1>2, <2>1, <2>2, <2>3, <3>1, <3>2, <3>3 DEF FoldInv
  <2>5. CASE IsMember(cursor, s)
    <3> DEFINE x == Reads(cursor, s)
               h == Append(g, x)
               j == FoldSlot(identity, cursor, s)
    <3>1. Exact(h, cursor, remaining \ {s})
      BY <1>1, <2>2, <2>3, <2>5, ExactGrows
    <3>2. s \in Nat \ {0} /\ x \in Reading /\ x.metric = cursor /\ x.slot = s
      BY <1>1, <1>4, <2>2, ReadTypes
    <3> HIDE DEF x
    <3>3. ComesNext(g, x, cursor, remaining) /\ Ordered(g, cursor, {})
      BY <1>4, <2>1, <2>2, <2>3, <3>2 DEF ComesNext, Ordered
    <3>4. Ordered(h, cursor, remaining \ {s})
      BY <2>2, <3>2, <3>3, OrderedGrows
    <3>5. FoldOf(j, h, cursor)
      BY <1>4, <2>2, <2>3, <3>2, <3>3, FoldOfGrows
    <3>6. h \in Seq(Reading)
      BY <3>2, AppendFacts
    <3>7. \A i \in 1..Len(identity) : j[i] = identity[i]
      BY <1>4, <2>2, <3>2, FoldSlotGrows
    <3> HIDE DEF j
    <3>8. VersionsNow(j, h, cursor)
      BY <2>2, <2>3, <3>2, <3>7, VersionsGrow
    <3>9. identity' = j
      BY <2>1, <2>5 DEF j
    <3> HIDE DEF h
    <3> QED  BY <1>2, <2>1, <2>2, <3>1, <3>4, <3>5, <3>6, <3>8, <3>9 DEF FoldInv
  <2> QED  BY <2>4, <2>5
<1>8. CASE FoldNextMetric
  <2>1. /\ phase = "fold_members" /\ phase' = "fold" /\ remaining = {}
        /\ cursor' = cursor + 1 /\ cursor < NumRegistered /\ undisturbed = TRUE
        /\ identity' = FoldMetric(identity, cursor + 1)
    BY <1>8 DEF FoldNextMetric
  <2>2. Left = {} /\ Left' = AllSlots /\ cursor \in Nat /\ cursor + 1 \in 1..NumRegistered
    <3>1. Left = {} /\ Left' = AllSlots
      BY <2>1, LeftIs
    <3>2. cursor \in 1..NumRegistered
      BY <1>1, <2>1 DEF PassInv
    <3>3. cursor < NumRegistered
      BY <2>1
    <3> QED  BY <1>3, <3>1, <3>2, <3>3
  <2>3. PICK g \in Seq(Reading) :
          /\ FoldOf(identity, g, cursor) /\ Ordered(g, cursor, {})
          /\ Exact(g, cursor, {}) /\ VersionsNow(identity, g, cursor)
    BY <1>1, <2>1, <2>2 DEF FoldInv, Folding
  <2>4. (\A i \in 1..Len(g) : g[i].metric <= cursor) /\ VersionOf(cursor + 1) \in Nat
    BY <1>1, <2>2, <2>3, ReadTypes DEF Ordered
  <2> DEFINE n == cursor + 1
             j == FoldMetric(identity, n)
  <2>5. FoldOf(j, g, n)
    BY <1>4, <2>2, <2>3, <2>4, FoldOfNext
  <2>6. VersionsNow(j, g, n)
    BY <1>4, <2>2, <2>3, <2>4, VersionsNext
  <2>7. Exact(g, n, AllSlots)
    BY <1>1, <2>2, <2>3, ExactNext
  <2>8. Ordered(g, n, AllSlots)
    BY <2>2, <2>3, OrderedNext
  <2>9. cursor' = n /\ identity' = j
    BY <2>1
  <2> HIDE DEF n, j
  <2> QED  BY <1>2, <2>2, <2>3, <2>5, <2>6, <2>7, <2>8, <2>9 DEF FoldInv
<1>9. CASE Decide \/ WalkList \/ WalkNextMetric \/ Emit
  BY <1>9 DEF Decide, WalkList, WalkNextMetric, Emit, Folding
<1>10. ASSUME NEW s \in remaining, WalkValue(s) \/ WalkDescribe(s) PROVE FoldInv'
  BY <1>10 DEF WalkValue, WalkDescribe, Folding
<1> QED  BY <1>5, <1>6, <1>7, <1>8, <1>9, <1>10 DEF WideBuild

LEMMA LeftNext ==
    ASSUME remaining \subseteq Nat \ {0}, NEW s, IsNext(s)
    PROVE  {r \in remaining : \E x \in remaining : x < r} = remaining \ {s}
<1>1. s \in remaining /\ \A r \in remaining : s <= r
  BY DEF IsNext
<1>2. ASSUME NEW r \in remaining PROVE (\E x \in remaining : x < r) <=> r # s
  BY <1>1
<1> QED  BY <1>2

\* What is left after a value is read, and after it is described.
LEMMA ValueLeaves ==
    ASSUME remaining \subseteq Nat \ {0}, NEW s, WalkValue(s)
    PROVE  Left = remaining /\ Left' = remaining \ {s}
<1>1. phase = "walk_members" /\ IsNext(s)
  BY DEF WalkValue
<1>2. Left = remaining
  BY <1>1, LeftIs
<1>3. {r \in remaining : \E x \in remaining : x < r} = remaining \ {s}
  BY <1>1, LeftNext
<1>4. (phase' = "describe" /\ remaining' = remaining)
      \/ (phase' = "walk_members" /\ remaining' = remaining \ {s})
  BY <1>1 DEF WalkValue
<1>5. ASSUME phase' = "describe", remaining' = remaining PROVE Left' = remaining \ {s}
  BY <1>3, <1>5 DEF Left
<1>6. ASSUME phase' = "walk_members", remaining' = remaining \ {s} PROVE Left' = remaining \ {s}
  BY <1>6, LeftIs
<1> QED  BY <1>2, <1>4, <1>5, <1>6

LEMMA DescribeLeaves ==
    ASSUME remaining \subseteq Nat \ {0}, NEW s, WalkDescribe(s)
    PROVE  Left = remaining \ {s} /\ Left' = remaining \ {s}
<1>1. phase = "describe" /\ IsNext(s) /\ phase' = "walk_members" /\ remaining' = remaining \ {s}
  BY DEF WalkDescribe
<1>2. {r \in remaining : \E x \in remaining : x < r} = remaining \ {s}
  BY <1>1, LeftNext
<1> QED  BY <1>1, <1>2, LeftIs DEF Left

\* Where a pass is when it goes on.
LEMMA PassFacts ==
    ASSUME WideInv, phase # "idle"
    PROVE  /\ cursor \in 1..NumRegistered /\ cursor \in Nat \ {0}
           /\ NumRegistered \in Nat /\ NumRegistered >= NumStatic
           /\ World /\ Walked(cursor) \subseteq AllSlots
<1>1. PassInv /\ World
  BY WideTypes DEF WideInv
<1>2. NumRegistered \in Nat /\ NumRegistered >= NumStatic
  BY <1>1, RegistryTypes DEF World
<1>3. cursor \in 1..NumRegistered
  BY <1>1 DEF PassInv
<1>4. Walked(cursor) \subseteq AllSlots
  BY <1>1, <1>3, ReadTypes DEF AllSlots
<1> QED  BY <1>1, <1>2, <1>3, <1>4

LEMMA NextComes ==
    ASSUME WideInv, NEW s \in remaining, IsNext(s), phase \in {"walk_members", "describe"},
           NEW g, Ordered(g, cursor, remaining)
    PROVE  /\ s \in Nat \ {0} /\ (cursor \notin Static => s = 1)
           /\ Reads(cursor, s) \in Reading
           /\ Reads(cursor, s).metric = cursor /\ Reads(cursor, s).slot = s
           /\ (cursor \in Plain => Reads(cursor, s).who = Vacant)
           /\ ComesNext(g, Reads(cursor, s), cursor, remaining)
           /\ Ordered(g, cursor, {})
<1>1. PassInv /\ remaining \subseteq Nat \ {0}
  BY WideTypes DEF WideInv
<1>2. World /\ cursor \in 1..NumRegistered
  BY PassFacts
<1>3. s \in Nat \ {0} /\ (cursor \notin Static => s = 1)
  BY <1>1 DEF PassInv
<1> DEFINE x == Reads(cursor, s)
<1>4. x \in Reading /\ x.metric = cursor /\ x.slot = s /\ (cursor \in Plain => x.who = Vacant)
  BY <1>2, <1>3, ReadTypes
<1> HIDE DEF x
<1>5. ComesNext(g, x, cursor, remaining) /\ Ordered(g, cursor, {})
  BY <1>1, <1>3, <1>4 DEF ComesNext, Ordered, IsNext
<1> QED  BY <1>3, <1>4, <1>5 DEF x

LEMMA WalkBuilds ==
    ASSUME WideInv, WideBuild
    PROVE  WalkInv'
<1>0. (undisturbed \in BOOLEAN)' /\ undisturbed \in BOOLEAN
  BY BuildTypes DEF WideInv, WBTypeOK
<1>1. UNCHANGED world /\ World /\ WalkInv /\ PassInv
      /\ values \in Seq(Reading) /\ remaining \subseteq Nat \ {0}
  BY BuildTypes, WideTypes DEF WideInv
<1>2. (\A g, p, r : Exact(g, p, r) => Exact(g, p, r)') /\ AllSlots' = AllSlots
  BY <1>1, ReadingsStand DEF AllSlots
<1> DEFINE Goal == Ordered(values', cursor', Left')
                   /\ (undisturbed' = TRUE => Exact(values, cursor, Left)')
<1> SUFFICES ASSUME Walking' PROVE Goal
  BY <1>0 DEF WalkInv
<1> DEFINE Before == /\ Ordered(values, cursor, Left)
                     /\ undisturbed = TRUE => Exact(values, cursor, Left)
<1>3. Walking => Before
  BY <1>1 DEF WalkInv
<1>4. CASE Decide
  <2>1. phase = "fold_members" /\ phase' = "walk" /\ cursor' = 1 /\ values' = values
    BY <1>4 DEF Decide
  <2>2. values' = <<>> /\ Left' = AllSlots
    BY <1>1, <1>2, <2>1, LeftIs DEF PassInv, Folding
  <2>3. Exact(<<>>, 0 + 1, AllSlots) /\ 0 + 1 = 1
    BY <1>1, ExactNothing, ExactNext
  <2>4. Ordered(<<>>, 1, AllSlots)
    BY OrderedNothing
  <2> QED  BY <1>2, <2>1, <2>2, <2>3, <2>4
<1>5. CASE WalkList
  <2>1. phase = "walk" /\ phase' = "walk_members" /\ remaining' = Walked(cursor)
        /\ UNCHANGED <<values, cursor, undisturbed>>
    BY <1>5 DEF WalkList
  <2>2. Left = AllSlots /\ Left' = Walked(cursor) /\ Walking
    BY <2>1, LeftIs DEF Walking
  <2>3. Walked(cursor) \subseteq AllSlots
    BY <2>1, PassFacts
  <2>4. Ordered(values, cursor, Walked(cursor))
    BY <1>3, <2>2, <2>3, OrderedWithin
  <2>5. undisturbed = TRUE => Exact(values, cursor, Walked(cursor))
    BY <1>1, <1>3, <2>2, ExactListed
  <2> QED  BY <1>2, <2>1, <2>2, <2>4, <2>5
<1>6. ASSUME NEW s \in remaining, WalkValue(s) PROVE Goal
  <2>1. /\ phase = "walk_members" /\ IsNext(s) /\ UNCHANGED <<cursor, undisturbed>>
        /\ values' = IF IsMember(cursor, s) THEN Append(values, Reads(cursor, s)) ELSE values
    BY <1>6 DEF WalkValue
  <2>2. Left = remaining /\ Left' = remaining \ {s} /\ Before
    BY <1>1, <1>3, <1>6, <2>1, ValueLeaves DEF Walking
  <2>3. cursor \in 1..NumRegistered /\ cursor \in Nat \ {0}
    BY <2>1, PassFacts
  <2>4. /\ Reads(cursor, s) \in Reading /\ Reads(cursor, s).slot = s
        /\ ComesNext(values, Reads(cursor, s), cursor, remaining)
        /\ Ordered(values, cursor, {})
    BY <2>1, <2>2, NextComes
  <2>5. undisturbed = TRUE => s \in Walked(cursor)
    BY <1>1, <2>1 DEF PassInv
  <2>6. CASE IsMember(cursor, s)
    <3> DEFINE x == Reads(cursor, s)
               h == Append(values, x)
    <3>1. Ordered(h, cursor, remaining \ {x.slot})
      BY <1>1, <2>3, <2>4, OrderedGrows
    <3>2. undisturbed = TRUE => Exact(h, cursor, remaining \ {s})
      BY <1>1, <2>2, <2>3, <2>5, <2>6, ExactGrows
    <3>3. x.slot = s /\ values' = h
      BY <2>1, <2>4, <2>6
    <3> HIDE DEF h, x
    <3> QED  BY <1>2, <2>1, <2>2, <3>1, <3>2, <3>3
  <2>7. CASE ~IsMember(cursor, s)
    <3>1. Ordered(values, cursor, remaining \ {s})
      BY <2>2, OrderedWithin
    <3>2. undisturbed = TRUE => Exact(values, cursor, remaining \ {s})
      BY <1>1, <2>2, <2>3, <2>5, <2>7, ExactGrows
    <3> QED  BY <1>2, <2>1, <2>2, <2>7, <3>1, <3>2
  <2> QED  BY <2>6, <2>7
<1>7. ASSUME NEW s \in remaining, WalkDescribe(s) PROVE Goal
  <2>1. phase = "describe" /\ UNCHANGED <<cursor, values, undisturbed>>
    BY <1>7 DEF WalkDescribe
  <2>2. Left' = Left /\ Before
    BY <1>1, <1>3, <1>7, <2>1, DescribeLeaves DEF Walking
  <2> QED  BY <1>2, <2>1, <2>2
<1>8. CASE WalkNextMetric
  <2>1. /\ phase = "walk_members" /\ phase' = "walk" /\ remaining = {} /\ cursor' = cursor + 1
        /\ UNCHANGED <<values, undisturbed>>
    BY <1>8 DEF WalkNextMetric
  <2>2. Left = {} /\ Left' = AllSlots /\ Before
    BY <1>2, <1>3, <2>1, LeftIs DEF Walking
  <2>3. cursor \in Nat
    BY <2>1, PassFacts
  <2> DEFINE n == cursor + 1
  <2>4. Ordered(values, n, AllSlots)
    BY <1>1, <2>2, <2>3, OrderedNext
  <2>5. undisturbed = TRUE => Exact(values, n, AllSlots)
    BY <1>1, <2>2, <2>3, ExactNext
  <2>6. cursor' = n
    BY <2>1
  <2> HIDE DEF n
  <2> QED  BY <1>2, <2>1, <2>2, <2>4, <2>5, <2>6
<1>9. CASE FoldStart \/ FoldList \/ FoldNextMetric \/ Emit
  BY <1>9 DEF FoldStart, FoldList, FoldNextMetric, Emit, Walking
<1>10. ASSUME NEW s \in remaining, FoldMember(s) PROVE Goal
  BY <1>10 DEF FoldMember, Walking
<1> QED  BY <1>4, <1>5, <1>6, <1>7, <1>8, <1>9, <1>10 DEF WideBuild

LEMMA ToDescribeIs ==
    /\ phase = "walk" => ToDescribe = AllSlots
    /\ phase # "walk" => ToDescribe = remaining
    /\ phase' = "walk" => ToDescribe' = AllSlots
    /\ phase' # "walk" => ToDescribe' = remaining'
BY DEF ToDescribe, AllSlots

LEMMA AttestedStands ==
    ASSUME UNCHANGED world
    PROVE  \A i, g, p, r : Attested(i, g, p, r) => Attested(i, g, p, r)'
BY WorldStands DEF Attested

LEMMA AttestedReads ==
    ASSUME NEW g \in Seq(Reading), NEW p \in Nat \ {0}, NEW id, FoldOf(id, g, p),
           NEW jd, \A i \in 1..Len(id) : jd[i] = id[i],
           NEW x \in Reading, x.metric = p, NEW rest, Attested(id, g, p, rest)
    PROVE  Attested(jd, Append(g, x), p, rest)
<1> SUFFICES ASSUME p \in Families, NEW k \in Nat, Cut(Append(g, x), p, k),
                    jd[k + 2 * p] = tableVersion[p], NEW r \in rest
             PROVE  \E y \in GroupNow : y.metric = p /\ y.slot = r
  BY DEF Attested
<1>1. p \in Static
  BY WideConstants
<1>2. Cut(g, p, k)
  BY CutsKept
<1>3. k + 2 * p \in 1..Len(id)
  BY <1>1, <1>2, HeaderIn
<1> QED  BY <1>2, <1>3 DEF Attested

LEMMA AttestedListed ==
    ASSUME World, NEW p \in 1..NumRegistered, NEW id, NEW g
    PROVE  Attested(id, g, p, Walked(p))
<1> SUFFICES ASSUME p \in Families, NEW r \in Walked(p)
             PROVE  \E y \in GroupNow : y.metric = p /\ y.slot = r
  BY DEF Attested
<1>1. IsMember(p, r)
  BY DEF IsMember, Plain
<1>2. Reads(p, r) \in GroupNow
  BY <1>1, GroupReadings
<1>3. Reads(p, r).metric = p /\ Reads(p, r).slot = r
  BY DEF Reads
<1> QED  BY <1>2, <1>3

LEMMA PlacesGrow ==
    ASSUME NEW d \in Seq(Reading), NEW g \in Seq(Reading), NEW x \in Reading,
           Len(g) = Len(d) + 1, SamePlaces(d, g),
           g[Len(g)].metric = x.metric, g[Len(g)].slot = x.slot
    PROVE  Len(g) = Len(Append(d, x)) /\ SamePlaces(Append(d, x), g)
<1> DEFINE e == Append(d, x)
<1>1. Len(e) = Len(d) + 1 /\ Len(d) \in Nat /\ (\A i \in 1..Len(d) : e[i] = d[i])
      /\ e[Len(d) + 1] = x
  BY AppendFacts
<1> HIDE DEF e
<1>2. ASSUME NEW i \in 1..Len(e) PROVE e[i].metric = g[i].metric /\ e[i].slot = g[i].slot
  <2>1. i \in 1..Len(d) \/ i = Len(d) + 1
    BY <1>1
  <2> QED  BY <1>1, <2>1 DEF SamePlaces
<1>3. Len(g) = Len(e) /\ SamePlaces(e, g)
  BY <1>1, <1>2 DEF SamePlaces
<1> QED  BY <1>3 DEF e

LEMMA PlacesRead ==
    ASSUME NEW d \in Seq(Reading), NEW g \in Seq(Reading), NEW x \in Reading,
           Len(g) = Len(d), SamePlaces(d, g)
    PROVE  /\ SamePlaces(d, Append(g, x)) /\ Len(Append(g, x)) = Len(d) + 1
           /\ Append(g, x)[Len(d) + 1] = x
           /\ \A i \in 1..Len(d) : Append(g, x)[i] = g[i]
<1> DEFINE e == Append(g, x)
<1>1. Len(e) = Len(g) + 1 /\ Len(g) \in Nat /\ (\A i \in 1..Len(g) : e[i] = g[i])
      /\ e[Len(g) + 1] = x
  BY AppendFacts
<1> HIDE DEF e
<1>2. SamePlaces(d, e) /\ Len(e) = Len(d) + 1 /\ e[Len(d) + 1] = x
      /\ \A i \in 1..Len(d) : e[i] = g[i]
  BY <1>1 DEF SamePlaces
<1> QED  BY <1>2 DEF e

\* The parts of Miss, as a step leaves them.
LEMMA MissFrom ==
    ASSUME (undisturbed \in BOOLEAN)',
           FoldOf(identity', values', cursor'),
           Len(values') = Len(descs') + IF phase' = "describe" THEN 1 ELSE 0,
           phase' = "describe" =>
                /\ values'[Len(values')].metric = cursor'
                /\ values'[Len(values')].slot \in remaining'
                /\ \A r \in remaining' : values'[Len(values')].slot <= r,
           SamePlaces(descs', values'),
           undisturbed' = TRUE => \A i \in 1..Len(descs') : descs'[i] = values'[i],
           Known(identity, values, descs, cursor, ToDescribe)',
           phase' # "walk" => Attested(identity, values, cursor, remaining)',
           Others(descs)'
    PROVE  Miss'
BY DEF Miss

LEMMA MissDecides ==
    ASSUME WideInv, Decide, needsSchema', WideBuild
    PROVE  Miss'
<1>1. UNCHANGED world /\ World /\ PassInv /\ (undisturbed \in BOOLEAN)'
  BY BuildTypes, WideTypes DEF WideInv, WBTypeOK
<1>2. /\ phase = "fold_members" /\ phase' = "walk" /\ cursor' = 1
      /\ identity' = FoldMetric(<<>>, 1) /\ values' = values /\ descs' = descs
  BY DEF Decide
<1>3. values' = <<>> /\ descs' = <<>> /\ ToDescribe' = AllSlots
  BY <1>1, <1>2, ToDescribeIs DEF PassInv, Folding
<1>4. VersionOf(1) \in Nat
  <2>1. NumRegistered \in Nat /\ NumRegistered >= NumStatic /\ NumStatic \in Nat /\ NumStatic > 0
    BY <1>1, RegistryTypes, WideConstants DEF World
  <2>2. 1 \in 1..NumRegistered
    BY <2>1
  <2> QED  BY <1>1, <2>2, ReadTypes
<1>5. <<>> \in Seq(Reading) /\ <<>> \in Seq(Nat)
  BY EmptySeq
<1>6. 0 + 1 = 1 /\ (\A i \in 1..Len(<<>>) : FALSE) /\ Len(<<>>) = 0 /\ 0 \in Nat
  OBVIOUS
<1>7. FoldOf(FoldMetric(<<>>, 0 + 1), <<>>, 0 + 1)
  BY <1>4, <1>5, <1>6, FoldOfNothing, FoldOfNext
<1>8. Known(FoldMetric(<<>>, 0 + 1), <<>>, <<>>, 0 + 1, AllSlots)
  BY <1>1, <1>4, <1>5, <1>6, FoldOfNothing, KnownNothing, KnownNext
<1>9. Others(<<>>)
  BY OthersNothing
<1>10. /\ \A i, g, d, p, r : Known(i, g, d, p, r) => Known(i, g, d, p, r)'
       /\ \A d : Others(d) => Others(d)'
  BY <1>1, ReadingsStand
<1> DEFINE j == FoldMetric(<<>>, 1)
<1>11. FoldOf(j, <<>>, 1) /\ Known(j, <<>>, <<>>, 1, AllSlots) /\ Others(<<>>)
  BY <1>6, <1>7, <1>8, <1>9
<1>12. identity' = j
  BY <1>2
<1> HIDE DEF j
<1>13. Known(identity, values, descs, cursor, ToDescribe)'
  BY <1>2, <1>3, <1>10, <1>11, <1>12
<1>14. Others(descs)'
  BY <1>2, <1>3, <1>10, <1>11
<1>15. FoldOf(identity', values', cursor')
  BY <1>2, <1>3, <1>11, <1>12
<1>16. SamePlaces(descs', values')
  <2>1. SamePlaces(<<>>, <<>>)
    BY <1>6 DEF SamePlaces
  <2> QED  BY <1>3, <2>1
<1>17. Len(values') = Len(descs') + 0
  BY <1>3
<1>18. undisturbed' = TRUE => \A i \in 1..Len(descs') : descs'[i] = values'[i]
  BY <1>3
<1>19. phase' # "describe"
  BY <1>2
<1> QED  BY <1>1, <1>2, <1>13, <1>14, <1>15, <1>16, <1>17, <1>18, <1>19, MissFrom

LEMMA MissLists ==
    ASSUME WideInv, WalkList, WideBuild, Miss
    PROVE  Miss'
<1>1. UNCHANGED world /\ World /\ (undisturbed \in BOOLEAN)' /\ (undisturbed \in BOOLEAN)
  BY BuildTypes, WideTypes DEF WideInv, WBTypeOK
<1>2. /\ phase = "walk" /\ phase' = "walk_members" /\ remaining' = Walked(cursor)
      /\ UNCHANGED <<cursor, identity, values, descs, undisturbed>>
  BY DEF WalkList
<1>3. ToDescribe = AllSlots /\ ToDescribe' = Walked(cursor) /\ cursor \in 1..NumRegistered
  BY <1>2, ToDescribeIs, PassFacts
<1>4. /\ \A i, g, d, p, r : Known(i, g, d, p, r) => Known(i, g, d, p, r)'
      /\ \A d : Others(d) => Others(d)'
      /\ \A i, g, p, r : Attested(i, g, p, r) => Attested(i, g, p, r)'
  BY <1>1, ReadingsStand, AttestedStands
<1>5. Known(identity, values, descs, cursor, Walked(cursor))
  BY <1>1, <1>3, KnownListed DEF Miss
<1>6. Others(descs)
  BY DEF Miss
<1>7. Attested(identity, values, cursor, Walked(cursor))
  BY <1>1, <1>3, AttestedListed
<1>8. FoldOf(identity', values', cursor') /\ SamePlaces(descs', values')
  BY <1>2 DEF Miss
<1>9. Len(values') = Len(descs') + 0 /\ phase' # "describe"
  BY <1>2 DEF Miss
<1>10. undisturbed' = TRUE => \A i \in 1..Len(descs') : descs'[i] = values'[i]
  BY <1>1, <1>2 DEF Miss
<1>11. Known(identity, values, descs, cursor, ToDescribe)' /\ Others(descs)'
       /\ Attested(identity, values, cursor, remaining)'
  BY <1>2, <1>3, <1>4, <1>5, <1>6, <1>7
<1> QED  BY <1>1, <1>8, <1>9, <1>10, <1>11, MissFrom

\* What both kinds of build find when they come to a member on a miss.
LEMMA MissReads ==
    ASSUME WideInv, NEW s \in remaining, WalkValue(s), needsSchema = TRUE, WideBuild, Miss
    PROVE  Miss'
<1>1. UNCHANGED world /\ World /\ (undisturbed \in BOOLEAN)' /\ (undisturbed \in BOOLEAN)
  BY BuildTypes, WideTypes DEF WideInv, WBTypeOK
<1>2. /\ phase = "walk_members" /\ IsNext(s)
      /\ UNCHANGED <<cursor, descs, undisturbed>>
      /\ IsMember(cursor, s) => /\ values' = Append(values, Reads(cursor, s))
                                /\ identity' = FoldSlot(identity, cursor, s)
                                /\ phase' = "describe" /\ remaining' = remaining
      /\ ~IsMember(cursor, s) => /\ UNCHANGED <<values, identity, phase>>
                                 /\ remaining' = remaining \ {s}
  BY DEF WalkValue
<1>3. /\ values \in Seq(Reading) /\ descs \in Seq(Reading) /\ identity \in Seq(Nat)
      /\ cursor \in 1..NumRegistered /\ cursor \in Nat \ {0}
  BY <1>2, PassFacts, WideTypes DEF WideInv
<1>4. ToDescribe = remaining /\ ToDescribe' = remaining' /\ Left = remaining
  BY <1>2, ToDescribeIs, LeftIs
<1>5. /\ FoldOf(identity, values, cursor) /\ Len(values) = Len(descs)
      /\ SamePlaces(descs, values)
      /\ undisturbed = TRUE => \A i \in 1..Len(descs) : descs[i] = values[i]
      /\ Known(identity, values, descs, cursor, remaining)
      /\ Attested(identity, values, cursor, remaining)
      /\ Others(descs)
  <2>1. Len(values) = Len(descs) + 0 /\ Len(descs) \in Nat
    BY <1>2, <1>3, LenProperties DEF Miss
  <2> QED  BY <1>2, <1>4, <2>1 DEF Miss
<1>6. /\ \A i, g, d, p, r : Known(i, g, d, p, r) => Known(i, g, d, p, r)'
      /\ \A d : Others(d) => Others(d)'
      /\ \A i, g, p, r : Attested(i, g, p, r) => Attested(i, g, p, r)'
  BY <1>1, ReadingsStand, AttestedStands
<1>7. Len(descs) \in Nat
  BY <1>3, LenProperties
<1>8. CASE IsMember(cursor, s)
  <2> DEFINE x == Reads(cursor, s)
             h == Append(values, x)
             j == FoldSlot(identity, cursor, s)
  <2>1. Ordered(values, cursor, remaining)
    BY <1>2, <1>4 DEF WideInv, WalkInv, Walking
  <2>2. /\ s \in Nat \ {0} /\ x \in Reading /\ x.metric = cursor /\ x.slot = s
        /\ ComesNext(values, x, cursor, remaining) /\ Ordered(values, cursor, {})
    BY <1>2, <2>1, NextComes
  <2> HIDE DEF x
  <2>3. FoldOf(j, h, cursor)
    BY <1>3, <1>5, <2>2, FoldOfGrows
  <2>4. \A i \in 1..Len(identity) : j[i] = identity[i]
    BY <1>3, <2>2, FoldSlotGrows
  <2>5. values' = h /\ identity' = j /\ phase' = "describe" /\ remaining' = remaining
    BY <1>2, <1>8 DEF x
  <2> HIDE DEF j
  <2>6. /\ SamePlaces(descs, h) /\ Len(h) = Len(descs) + 1 /\ h[Len(descs) + 1] = x
        /\ \A i \in 1..Len(descs) : h[i] = values[i]
    BY <1>3, <1>5, <2>2, PlacesRead
  <2>7. Known(j, h, descs, cursor, remaining)
    BY <1>3, <1>5, <2>2, <2>4, KnownReads
  <2>8. Attested(j, h, cursor, remaining)
    BY <1>3, <1>5, <2>2, <2>4, AttestedReads
  <2> HIDE DEF h
  <2>9. /\ h[Len(h)].metric = cursor /\ h[Len(h)].slot \in remaining
        /\ \A r \in remaining : h[Len(h)].slot <= r
    BY <1>2, <2>2, <2>6 DEF IsNext
  <2>10. undisturbed' = TRUE => \A i \in 1..Len(descs) : descs[i] = h[i]
    BY <1>2, <1>5, <2>6
  <2>11. FoldOf(identity', values', cursor') /\ SamePlaces(descs', values')
         /\ Len(values') = Len(descs') + 1
    BY <1>2, <2>3, <2>5, <2>6
  <2>12. /\ values'[Len(values')].metric = cursor'
         /\ values'[Len(values')].slot \in remaining'
         /\ \A r \in remaining' : values'[Len(values')].slot <= r
    BY <1>2, <2>5, <2>9
  <2>13. undisturbed' = TRUE => \A i \in 1..Len(descs') : descs'[i] = values'[i]
    BY <1>2, <2>5, <2>10
  <2>14. Known(identity, values, descs, cursor, ToDescribe)'
    BY <1>2, <1>4, <1>6, <2>5, <2>7
  <2>15. Attested(identity, values, cursor, remaining)' /\ Others(descs)'
    BY <1>2, <1>4, <1>5, <1>6, <2>5, <2>8
  <2>16. phase' = "describe"
    BY <2>5
  <2> QED  BY <1>1, <2>11, <2>12, <2>13, <2>14, <2>15, <2>16, MissFrom
<1>9. CASE ~IsMember(cursor, s)
  <2>1. cursor \in Plain
    BY <1>9 DEF IsMember
  <2>2. cursor \in Static /\ cursor \notin Families
    BY <2>1 DEF Plain
  <2>3. UNCHANGED <<values, identity, phase>> /\ remaining' = remaining \ {s}
    BY <1>2, <1>9
  <2>4. Known(identity, values, descs, cursor, remaining \ {s})
    BY <1>5, <2>2, KnownElsewhere
  <2>5. Others(descs)
    BY <1>5
  <2>6. Attested(identity, values, cursor, remaining \ {s})
    BY <2>2 DEF Attested
  <2>7. FoldOf(identity', values', cursor') /\ SamePlaces(descs', values')
        /\ Len(values') = Len(descs') + 0 /\ phase' # "describe"
    BY <1>2, <1>5, <1>7, <2>3
  <2>8. undisturbed' = TRUE => \A i \in 1..Len(descs') : descs'[i] = values'[i]
    BY <1>2, <1>5, <2>3
  <2>9. /\ Known(identity, values, descs, cursor, ToDescribe)'
        /\ Others(descs)'
        /\ Attested(identity, values, cursor, remaining)'
    BY <1>2, <1>4, <1>6, <2>3, <2>4, <2>5, <2>6
  <2> QED  BY <1>1, <2>7, <2>8, <2>9, MissFrom
<1> QED  BY <1>8, <1>9

LEMMA NamedReading ==
    ASSUME World, NEW y \in GroupNow
    PROVE  y = Reads(y.metric, y.slot)
BY GroupReadings

LEMMA MissDescribes ==
    ASSUME WideInv, NEW s \in remaining, WalkDescribe(s), WideBuild, Miss
    PROVE  Miss'
<1>1. UNCHANGED world /\ World /\ (undisturbed \in BOOLEAN)' /\ (undisturbed \in BOOLEAN)
  BY BuildTypes, WideTypes DEF WideInv, WBTypeOK
<1> DEFINE x == Reads(cursor, s)
           e == Append(descs, x)
           n == Len(values)
<1>2. /\ phase = "describe" /\ IsNext(s) /\ phase' = "walk_members"
      /\ UNCHANGED <<cursor, identity, values, undisturbed>>
      /\ descs' = e /\ remaining' = remaining \ {s}
  BY DEF WalkDescribe
<1>3. /\ values \in Seq(Reading) /\ descs \in Seq(Reading) /\ identity \in Seq(Nat)
      /\ remaining \subseteq Nat \ {0}
      /\ cursor \in 1..NumRegistered /\ cursor \in Nat \ {0}
  BY <1>2, PassFacts, WideTypes DEF WideInv
<1>4. ToDescribe = remaining /\ ToDescribe' = remaining \ {s}
  BY <1>2, ToDescribeIs
<1>5. /\ FoldOf(identity, values, cursor) /\ n = Len(descs) + 1
      /\ values[n].metric = cursor /\ values[n].slot \in remaining
      /\ \A r \in remaining : values[n].slot <= r
      /\ SamePlaces(descs, values)
      /\ undisturbed = TRUE => \A i \in 1..Len(descs) : descs[i] = values[i]
      /\ Known(identity, values, descs, cursor, remaining)
      /\ Attested(identity, values, cursor, remaining)
      /\ Others(descs)
  BY <1>2, <1>4 DEF Miss
<1>6. values[n].slot = s
  <2>1. s \in remaining /\ s <= values[n].slot /\ values[n].slot <= s
    BY <1>2, <1>5 DEF IsNext
  <2> QED  BY <1>3, <1>5, <2>1
<1>7. x \in Reading /\ x.metric = cursor /\ x.slot = s /\ s \in Nat \ {0}
      /\ (cursor \notin Static => s = 1) /\ (cursor \in Plain => s \in PlainSlots)
  <2>1. PassInv
    BY DEF WideInv
  <2>2. s \in Nat \ {0} /\ (cursor \notin Static => s = 1) /\ (cursor \in Plain => s \in PlainSlots)
    BY <1>2, <1>3, <2>1 DEF PassInv
  <2> QED  BY <1>1, <1>3, <2>2, ReadTypes
<1>8. Others(e)
  BY <1>1, <1>3, <1>5, <1>7, OthersDescribe
<1>9. \A y \in GroupNow : y.metric = cursor /\ y.slot = s => y = x
  BY <1>1, NamedReading
<1> HIDE DEF x
<1>10. ASSUME cursor \in Families, NEW k \in Nat, Cut(values, cursor, k),
              identity[k + 2 * cursor] = tableVersion[cursor]
       PROVE  x \in GroupNow
  <2>1. PICK y \in GroupNow : y.metric = cursor /\ y.slot = s
    BY <1>5, <1>10 DEF Attested
  <2> QED  BY <1>9, <2>1
<1>11. Known(identity, values, e, cursor, remaining \ {s})
  <2>1. Known(identity, values, e, cursor, remaining \ {x.slot})
    BY <1>1, <1>3, <1>5, <1>7, <1>9, <1>10, KnownDescribes
  <2> QED  BY <1>7, <2>1
<1>12. Attested(identity, values, cursor, remaining \ {s})
  BY <1>5 DEF Attested
<1>13. n = Len(e) /\ SamePlaces(e, values)
  BY <1>3, <1>5, <1>6, <1>7, PlacesGrow
<1>14. ASSUME undisturbed = TRUE PROVE \A i \in 1..n : e[i] = values[i]
  <2>1. /\ Len(descs) \in Nat /\ e[Len(descs) + 1] = x
        /\ \A i \in 1..Len(descs) : e[i] = descs[i]
    BY <1>3, <1>7, AppendFacts
  <2>2. Exact(values, cursor, Left)
    BY <1>2, <1>14 DEF WideInv, WalkInv, Walking
  <2>3. n \in 1..Len(values)
    BY <1>5, <2>1
  <2>4. values[n] \in GroupNow
    BY <2>2, <2>3 DEF Exact
  <2>5. values[n] = x
    BY <1>5, <1>6, <1>9, <2>4
  <2> HIDE DEF n, e
  <2>6. ASSUME NEW i \in 1..n PROVE e[i] = values[i]
    <3>1. i \in 1..Len(descs) \/ i = Len(descs) + 1
      BY <1>5, <2>1
    <3> QED  BY <1>5, <1>14, <2>1, <2>5, <3>1
  <2> QED  BY <2>6
<1>15. /\ \A i, g, d, p, r : Known(i, g, d, p, r) => Known(i, g, d, p, r)'
       /\ \A d : Others(d) => Others(d)'
       /\ \A i, g, p, r : Attested(i, g, p, r) => Attested(i, g, p, r)'
  BY <1>1, ReadingsStand, AttestedStands
<1> HIDE DEF e, n
<1>16. FoldOf(identity', values', cursor') /\ SamePlaces(descs', values')
  BY <1>2, <1>5, <1>13
<1>17. Len(values') = Len(descs') + 0 /\ phase' # "describe"
  <2>1. Len(descs) \in Nat
    BY <1>3, LenProperties
  <2> QED  BY <1>2, <1>5, <1>13, <2>1 DEF n
<1>18. undisturbed' = TRUE => \A i \in 1..Len(descs') : descs'[i] = values'[i]
  BY <1>2, <1>13, <1>14
<1>19. /\ Known(identity, values, descs, cursor, ToDescribe)'
       /\ Others(descs)'
       /\ Attested(identity, values, cursor, remaining)'
  BY <1>2, <1>4, <1>8, <1>11, <1>12, <1>15
<1> QED  BY <1>1, <1>16, <1>17, <1>18, <1>19, MissFrom

LEMMA MissNext ==
    ASSUME WideInv, WalkNextMetric, needsSchema = TRUE, WideBuild, Miss
    PROVE  Miss'
<1>1. UNCHANGED world /\ World /\ (undisturbed \in BOOLEAN)' /\ (undisturbed \in BOOLEAN)
  BY BuildTypes, WideTypes DEF WideInv, WBTypeOK
<1> DEFINE n == cursor + 1
           j == FoldMetric(identity, n)
<1>2. /\ phase = "walk_members" /\ phase' = "walk" /\ remaining = {} /\ cursor < NumRegistered
      /\ cursor' = n /\ identity' = j
      /\ UNCHANGED <<values, descs, undisturbed>>
  BY DEF WalkNextMetric
<1>3. /\ values \in Seq(Reading) /\ descs \in Seq(Reading) /\ identity \in Seq(Nat)
      /\ cursor \in 1..NumRegistered /\ cursor \in Nat /\ n \in 1..NumRegistered
      /\ NumRegistered \in Nat
  <2>1. /\ values \in Seq(Reading) /\ descs \in Seq(Reading) /\ identity \in Seq(Nat)
        /\ cursor \in 1..NumRegistered /\ cursor \in Nat /\ NumRegistered \in Nat
    BY <1>2, PassFacts, WideTypes DEF WideInv
  <2>2. n \in 1..NumRegistered
    BY <1>2, <2>1
  <2> QED  BY <2>1, <2>2
<1>4. ToDescribe = {} /\ ToDescribe' = AllSlots /\ Left = {}
  BY <1>2, ToDescribeIs, LeftIs
<1>5. Len(descs) \in Nat /\ Len(values) = Len(descs)
  BY <1>2, <1>3, LenProperties DEF Miss
<1>6. /\ FoldOf(identity, values, cursor) /\ SamePlaces(descs, values)
      /\ undisturbed = TRUE => \A i \in 1..Len(descs) : descs[i] = values[i]
      /\ Known(identity, values, descs, cursor, {}) /\ Others(descs)
  BY <1>4 DEF Miss
<1>7. \A i \in 1..Len(values) : values[i].metric <= cursor
  <2>1. Ordered(values, cursor, Left)
    BY <1>2 DEF WideInv, WalkInv, Walking
  <2> QED  BY <2>1 DEF Ordered
<1>8. \A i \in 1..Len(descs) : descs[i].metric <= cursor
  BY <1>5, <1>6, <1>7 DEF SamePlaces
<1>9. VersionOf(n) \in Nat
  BY <1>1, <1>3, ReadTypes
<1>10. FoldOf(j, values, n)
  BY <1>3, <1>6, <1>7, <1>9, FoldOfNext
<1>11. Known(j, values, descs, n, AllSlots)
  BY <1>1, <1>3, <1>6, <1>7, <1>8, <1>9, KnownNext
<1>12. Others(descs)
  BY <1>6
<1>13. /\ \A i, g, d, p, r : Known(i, g, d, p, r) => Known(i, g, d, p, r)'
       /\ \A d : Others(d) => Others(d)'
  BY <1>1, ReadingsStand
<1> HIDE DEF n, j
<1>14. FoldOf(identity', values', cursor') /\ SamePlaces(descs', values')
       /\ Len(values') = Len(descs') + 0 /\ phase' = "walk"
  BY <1>2, <1>5, <1>6, <1>10
<1>15. undisturbed' = TRUE => \A i \in 1..Len(descs') : descs'[i] = values'[i]
  BY <1>2, <1>6
<1>16. Known(identity, values, descs, cursor, ToDescribe)' /\ Others(descs)'
  BY <1>2, <1>4, <1>11, <1>12, <1>13
<1> QED  BY <1>1, <1>14, <1>15, <1>16, MissFrom

LEMMA MissBuilds ==
    ASSUME WideInv, WideBuild
    PROVE  MissInv'
<1> SUFFICES ASSUME Walking', needsSchema' PROVE Miss'
  BY DEF MissInv
<1>1. needsSchema \in BOOLEAN /\ needsSchema' \in BOOLEAN
  BY BuildTypes DEF WideInv, WBTypeOK
<1>2. Walking /\ needsSchema = TRUE => Miss
  BY <1>1 DEF WideInv, MissInv
<1>3. CASE Decide
  BY <1>3, MissDecides
<1>4. CASE WalkList
  <2>1. Walking /\ needsSchema = TRUE
    BY <1>1, <1>4 DEF WalkList, Walking
  <2> QED  BY <1>2, <1>4, <2>1, MissLists
<1>5. ASSUME NEW s \in remaining, WalkValue(s) PROVE Miss'
  <2>1. Walking /\ needsSchema = TRUE
    BY <1>1, <1>5 DEF WalkValue, Walking
  <2> QED  BY <1>2, <1>5, <2>1, MissReads
<1>6. ASSUME NEW s \in remaining, WalkDescribe(s) PROVE Miss'
  <2>1. Walking /\ needsSchema = TRUE
    BY <1>1, <1>6 DEF WalkDescribe, Walking
  <2> QED  BY <1>2, <1>6, <2>1, MissDescribes
<1>7. CASE WalkNextMetric
  <2>1. Walking /\ needsSchema = TRUE
    BY <1>1, <1>7 DEF WalkNextMetric, Walking
  <2> QED  BY <1>2, <1>7, <2>1, MissNext
<1>8. CASE FoldStart \/ FoldList \/ FoldNextMetric \/ Emit
  BY <1>8 DEF FoldStart, FoldList, FoldNextMetric, Emit, Walking
<1>9. ASSUME NEW s \in remaining, FoldMember(s) PROVE Miss'
  BY <1>9 DEF FoldMember, Walking
<1> QED  BY <1>3, <1>4, <1>5, <1>6, <1>7, <1>8, <1>9 DEF WideBuild

LEMMA HitDecides ==
    ASSUME FamiliesFirst, DynamicsApart, WideInv, Decide, WideBuild, needsSchema' = FALSE,
           undisturbed = TRUE
    PROVE  /\ skeleton # NoSkeleton
           /\ \E g \in Seq(Reading) :
                /\ Ordered(g, NumRegistered, {})
                /\ Exact(g, NumRegistered, {})
                /\ Describes(skeleton.schema, g, skeleton.names)
<1>1. /\ World /\ identity \in Seq(Nat) /\ skeleton.schema \in Seq(Reading)
      /\ skeleton.names \in Seq(Nat)
  BY WideTypes DEF WideInv
<1>2. /\ phase = "fold_members" /\ remaining = {} /\ cursor = NumRegistered
      /\ skeleton # NoSkeleton /\ skeleton.identity = identity
  BY DEF Decide
<1>3. Left = {} /\ Folding
  BY <1>2, LeftIs DEF Folding
<1>4. PICK g \in Seq(Reading) :
        /\ FoldOf(identity, g, NumRegistered) /\ Ordered(g, NumRegistered, {})
        /\ Exact(g, NumRegistered, {}) /\ VersionsNow(identity, g, NumRegistered)
  BY <1>2, <1>3 DEF WideInv, FoldInv
<1>5. /\ FoldOf(identity, skeleton.schema, Made)
      /\ Ordered(skeleton.schema, Made, {})
      /\ Known(identity, skeleton.schema, skeleton.schema, Made, {})
      /\ Named(skeleton.schema, skeleton.names)
      /\ Addresses = {} => skeleton.names = <<>>
  BY <1>2 DEF WideInv, SkeletonInv
<1>6. Describes(skeleton.schema, g, skeleton.names)
  <2>1. Made = NumStatic + Len(skeleton.names)
    BY DEF Made
  <2> QED  BY <1>1, <1>4, <1>5, <2>1, SchemaIsNow
<1> QED  BY <1>2, <1>4, <1>6

LEMMA HitBuilds ==
    ASSUME FamiliesFirst, DynamicsApart, WideInv, WideBuild
    PROVE  HitInv'
<1>1. UNCHANGED world
  BY BuildTypes
<1>2. UNCHANGED NumRegistered /\ \A g, p, r : Exact(g, p, r) => Exact(g, p, r)'
  BY <1>1, BuildFrame, ReadingsStand
<1>3. /\ needsSchema \in BOOLEAN /\ needsSchema' \in BOOLEAN /\ undisturbed \in BOOLEAN
      /\ undisturbed' \in BOOLEAN
  BY BuildTypes DEF WideInv, WBTypeOK
<1> SUFFICES ASSUME Walking', needsSchema' = FALSE, undisturbed' = TRUE
             PROVE  HitInv'
  BY <1>3 DEF HitInv
<1>4. ASSUME UNCHANGED skeleton, skeleton # NoSkeleton, NEW g \in Seq(Reading),
             Ordered(g, NumRegistered, {}), Exact(g, NumRegistered, {}),
             Describes(skeleton.schema, g, skeleton.names)
      PROVE  HitInv'
  BY <1>2, <1>4 DEF HitInv, NoSkeleton
<1>5. ASSUME UNCHANGED <<skeleton, needsSchema, undisturbed>>, Walking PROVE HitInv'
  <2>1. HitInv /\ Walking /\ ~needsSchema /\ undisturbed
    BY <1>5 DEF WideInv
  <2>2. /\ skeleton # NoSkeleton
        /\ \E g \in Seq(Reading) :
             /\ Ordered(g, NumRegistered, {}) /\ Exact(g, NumRegistered, {})
             /\ Describes(skeleton.schema, g, skeleton.names)
    BY <2>1 DEF HitInv
  <2> QED  BY <1>4, <1>5, <2>2
<1>6. CASE Decide
  <2>1. UNCHANGED <<skeleton, undisturbed>>
    BY <1>6 DEF Decide
  <2> QED  BY <1>4, <1>6, <2>1, HitDecides
<1>7. CASE WalkList \/ WalkNextMetric
  BY <1>5, <1>7 DEF WalkList, WalkNextMetric, Walking
<1>8. ASSUME NEW s \in remaining, WalkValue(s) \/ WalkDescribe(s) PROVE HitInv'
  BY <1>5, <1>8 DEF WalkValue, WalkDescribe, Walking
<1>9. CASE FoldStart \/ FoldList \/ FoldNextMetric \/ Emit
  BY <1>9 DEF FoldStart, FoldList, FoldNextMetric, Emit, Walking
<1>10. ASSUME NEW s \in remaining, FoldMember(s) PROVE HitInv'
  BY <1>10 DEF FoldMember, Walking
<1> QED  BY <1>6, <1>7, <1>8, <1>9, <1>10 DEF WideBuild

\* What a build has read when it ends.
LEMMA AtEnd ==
    ASSUME WideInv, Emit
    PROVE  /\ World /\ phase = "walk_members" /\ Walking
           /\ Ordered(values, NumRegistered, {})
           /\ undisturbed = TRUE => Exact(values, NumRegistered, {})
           /\ values \in Seq(Reading) /\ descs \in Seq(Reading) /\ identity \in Seq(Nat)
           /\ needsSchema = TRUE =>
                /\ Len(descs) = Len(values) /\ Len(descs) \in Nat
                /\ SamePlaces(descs, values)
                /\ undisturbed = TRUE => descs = values
                /\ FoldOf(identity, values, NumRegistered)
                /\ Known(identity, values, descs, NumRegistered, {})
                /\ Others(descs)
<1>1. phase = "walk_members" /\ Walking /\ remaining = {} /\ cursor = NumRegistered
  BY DEF Emit, Walking
<1>2. /\ World /\ values \in Seq(Reading) /\ descs \in Seq(Reading) /\ identity \in Seq(Nat)
      /\ needsSchema \in BOOLEAN /\ undisturbed \in BOOLEAN
  BY WideTypes DEF WideInv, WBTypeOK
<1>3. Left = {} /\ ToDescribe = {}
  BY <1>1, LeftIs, ToDescribeIs
<1>4. /\ Ordered(values, NumRegistered, {})
      /\ undisturbed = TRUE => Exact(values, NumRegistered, {})
  BY <1>1, <1>3 DEF WideInv, WalkInv
<1>5. ASSUME needsSchema = TRUE PROVE Miss
  BY <1>1, <1>5 DEF WideInv, MissInv
<1>6. Len(descs) \in Nat
  BY <1>2, LenProperties
<1>7. ASSUME needsSchema = TRUE
      PROVE  /\ Len(descs) = Len(values)
             /\ SamePlaces(descs, values)
             /\ undisturbed = TRUE => \A i \in 1..Len(descs) : descs[i] = values[i]
             /\ FoldOf(identity, values, NumRegistered)
             /\ Known(identity, values, descs, NumRegistered, {})
             /\ Others(descs)
  BY <1>1, <1>3, <1>5, <1>6, <1>7 DEF Miss
<1>8. ASSUME needsSchema = TRUE, undisturbed = TRUE PROVE descs = values
  BY <1>2, <1>7, <1>8, SeqEqual
<1> QED  BY <1>1, <1>2, <1>4, <1>6, <1>7, <1>8

LEMMA SkeletonBuilds ==
    ASSUME WideInv, WideBuild
    PROVE  SkeletonInv'
<1>1. UNCHANGED world
  BY BuildTypes
<1>2. UNCHANGED skeleton => SkeletonInv'
  BY <1>1, BuildFrame
<1>3. \A i, g, d, p, r : Known(i, g, d, p, r) => Known(i, g, d, p, r)'
  BY <1>1, ReadingsStand
<1>4. ASSUME Emit, skeleton' # skeleton PROVE SkeletonInv'
  <2>1. \/ skeleton' = NoSkeleton
        \/ /\ needsSchema = TRUE
           /\ skeleton' = [identity |-> identity, schema |-> descs, names |-> NamesNow]
    BY <1>4 DEF Emit, WideInv, WBTypeOK
  <2>2. ASSUME needsSchema = TRUE,
               skeleton' = [identity |-> identity, schema |-> descs, names |-> NamesNow]
        PROVE SkeletonInv'
    <3>1. skeleton'.identity = identity /\ skeleton'.schema = descs /\ skeleton'.names = NamesNow
      BY <2>2
    <3>2. /\ World /\ FoldOf(identity, descs, NumRegistered)
          /\ Ordered(descs, NumRegistered, {})
          /\ Known(identity, descs, descs, NumRegistered, {})
          /\ Others(descs)
      BY <1>4, <2>2, AtEnd, PlacesFold, PlacesOrdered, PlacesKnown
    <3>3. Named(descs, NamesNow) /\ (Addresses = {} => NamesNow = <<>>)
          /\ NumRegistered = NumStatic + Len(NamesNow)
      BY <3>2, OthersNamed, NamesAreNow
    <3>4. Made' = NumRegistered
      BY <3>1, <3>3 DEF Made
    <3>5. Named(skeleton.schema, skeleton.names)'
      BY <3>1, <3>3 DEF Named
    <3> QED  BY <1>3, <3>1, <3>2, <3>3, <3>4, <3>5 DEF SkeletonInv
  <2> QED  BY <2>1, <2>2 DEF SkeletonInv, NoSkeleton
<1>5. ASSUME ~Emit PROVE UNCHANGED skeleton
  BY <1>5 DEF WideBuild, FoldStart, FoldList, FoldNextMetric, FoldMember, Decide, WalkList,
              WalkNextMetric, WalkValue, WalkDescribe
<1> QED  BY <1>2, <1>4, <1>5

LEMMA DescribedNow ==
    ASSUME World, NEW g \in Seq(Reading), Exact(g, NumRegistered, {})
    PROVE  Describes(g, g, NamesNow)
<1>1. Len(g) \in Nat /\ NumStatic \in Nat /\ NumRegistered \in Nat
  BY GroupTypes, RegistryTypes, WideConstants DEF World
<1> SUFFICES ASSUME NEW i \in 1..Len(g) PROVE g[i] = DescribedAs(g[i], NamesNow)
  BY DEF Describes
<1> DEFINE x == g[i]
<1>2. /\ x \in GroupNow /\ x \in Reading /\ x.metric \in 1..NumRegistered
      /\ x.slot \in Walked(x.metric) /\ x = Reads(x.metric, x.slot)
  BY GroupReadings DEF Exact
<1> HIDE DEF x
<1>3. CASE x.metric \in Static
  BY <1>3 DEF DescribedAs, x
<1>4. CASE x.metric \notin Static
  <2>1. x.slot = 1 /\ x.metric \in NumStatic + 1..NumRegistered
    BY <1>1, <1>2, <1>4, ReadTypes, StaticIs
  <2>2. x \in DynamicNow
    BY <1>2, <2>1 DEF DynamicNow
  <2> DEFINE w == NamesNow[x.metric - NumStatic]
  <2>3. x.who = w
    BY <2>2, NamesAreNow
  <2>4. DescribedAs(x, NamesNow) = [x EXCEPT !.who = w]
    BY <1>4 DEF DescribedAs
  <2> HIDE DEF w
  <2>5. [x EXCEPT !.who = w] = x
    BY <1>2, <2>3 DEF Reading
  <2> QED  BY <2>4, <2>5 DEF x
<1> QED  BY <1>3, <1>4

LEMMA EmittedBuilds ==
    ASSUME WideInv, WideBuild
    PROVE  EmittedInv'
<1>1. UNCHANGED world
  BY BuildTypes
<1>2. UNCHANGED NumRegistered /\ \A g, p, r : Exact(g, p, r) => Exact(g, p, r)'
  BY <1>1, BuildFrame, ReadingsStand
<1>3. /\ needsSchema \in BOOLEAN /\ undisturbed \in BOOLEAN /\ undisturbed' \in BOOLEAN
  BY BuildTypes DEF WideInv, WBTypeOK
<1>4. ASSUME ~Emit PROVE EmittedInv'
  BY <1>4 DEF WideBuild, FoldStart, FoldList, FoldNextMetric, FoldMember, Decide, WalkList,
              WalkNextMetric, WalkValue, WalkDescribe, EmittedInv
<1>5. ASSUME Emit, undisturbed = TRUE
      PROVE  /\ Describes(emitted'.schema, values, skeleton'.names) /\ emitted'.values = values
             /\ Ordered(values, NumRegistered, {}) /\ Exact(values, NumRegistered, {})
  <2>1. /\ Ordered(values, NumRegistered, {}) /\ Exact(values, NumRegistered, {})
        /\ needsSchema = TRUE => descs = values
        /\ values \in Seq(Reading) /\ World /\ Walking /\ phase # "idle"
    BY <1>5, AtEnd
  <2>2. CASE values = <<>>
    <3>1. emitted' = emitted /\ emitted = NoGroup
      BY <1>5, <2>1, <2>2 DEF Emit, WideInv, PassInv
    <3>2. emitted'.schema = <<>> /\ emitted'.values = <<>> /\ Len(<<>>) = 0
      BY <3>1 DEF NoGroup
    <3>3. Describes(emitted'.schema, values, skeleton'.names)
      BY <2>2, <3>2 DEF Describes
    <3> QED  BY <2>1, <2>2, <3>2, <3>3
  <2>3. CASE values # <<>> /\ needsSchema = TRUE
    <3>1. emitted' = [schema |-> descs, values |-> values]
          /\ skeleton' = [identity |-> identity, schema |-> descs, names |-> NamesNow]
      BY <1>5, <2>3 DEF Emit
    <3>2. emitted'.schema = values /\ emitted'.values = values /\ skeleton'.names = NamesNow
      BY <2>1, <2>3, <3>1
    <3>3. Describes(values, values, NamesNow)
      BY <2>1, DescribedNow
    <3> QED  BY <2>1, <3>2, <3>3
  <2>4. CASE values # <<>> /\ needsSchema = FALSE
    <3>1. PICK g \in Seq(Reading) :
            /\ Ordered(g, NumRegistered, {}) /\ Exact(g, NumRegistered, {})
            /\ Describes(skeleton.schema, g, skeleton.names)
      BY <1>5, <2>1, <2>4 DEF WideInv, HitInv
    <3>2. g = values
      BY <2>1, <3>1, ExactUnique
    <3>3. Describes(skeleton.schema, values, skeleton.names)
      BY <3>1, <3>2
    <3>4. Len(skeleton.schema) = Len(values)
      BY <3>3 DEF Describes
    <3>5. emitted' = [schema |-> skeleton.schema, values |-> values] /\ skeleton' = skeleton
      BY <1>5, <2>4, <3>4 DEF Emit
    <3>6. emitted'.schema = skeleton.schema /\ emitted'.values = values
          /\ skeleton'.names = skeleton.names
      BY <3>5
    <3> QED  BY <2>1, <3>3, <3>6
  <2> QED  BY <1>3, <2>2, <2>3, <2>4
<1>6. ASSUME Emit PROVE EmittedInv'
  <2>1. undisturbed' = undisturbed
    BY <1>6 DEF Emit
  <2> SUFFICES ASSUME undisturbed = TRUE PROVE EmittedInv'
    BY <1>3, <2>1 DEF EmittedInv
  <2>2. /\ Describes(emitted'.schema, emitted'.values, skeleton'.names)
        /\ Ordered(emitted'.values, NumRegistered', {})
        /\ Exact(emitted.values, NumRegistered, {})'
    BY <1>2, <1>5, <1>6
  <2> QED  BY <2>2 DEF EmittedInv
<1> QED  BY <1>4, <1>6

LEMMA WideBuilds ==
    ASSUME FamiliesFirst, DynamicsApart, WideInv, WideBuild
    PROVE  WideInv'
<1>1. UNCHANGED world /\ WBTypeOK'
  BY BuildTypes
<1>2. FamilyInv' /\ RegistryInv'
  BY <1>1, BuildFrame
<1> QED  BY <1>1, <1>2, BuildPass, SkeletonBuilds, FoldBuilds, WalkBuilds, MissBuilds, HitBuilds,
            EmittedBuilds DEF WideInv

-----------------------------------------------------------------------------
(* The producer's steps. *)

LEMMA KnownMoves ==
    ASSUME World, World', Churn, NEW id \in Seq(Nat), NEW g \in Seq(Reading), NEW d,
           NEW p \in Nat, FoldOf(id, g, p), NEW rest, Known(id, g, d, p, rest)
    PROVE  Known(id, g, d, p, rest)'
<1> SUFFICES ASSUME NEW q \in Families, NEW k \in Nat, q <= p, Cut(g, q, k)
             PROVE  /\ id[k + 2 * q] <= tableVersion'[q]
                    /\ id[k + 2 * q] = tableVersion'[q] => Current(d, q, p, rest)'
  BY DEF Known
<1> DEFINE v == id[k + 2 * q]
<1>1. /\ v <= tableVersion[q]
      /\ v = tableVersion[q] => Current(d, q, p, rest)
  BY DEF Known
<1>2. /\ tableVersion'[q] >= tableVersion[q]
      /\ tableVersion'[q] = tableVersion[q] =>
           \A x : x.metric = q => (x \in GroupNow' <=> x \in GroupNow)
  BY ChurnMoves
<1>3. tableVersion[q] \in Nat /\ tableVersion'[q] \in Nat
  BY FamilyTypes DEF World, FamilyTypeOK
<1>4. v \in Nat
  <2>1. q \in Static
    BY WideConstants
  <2>2. k + 2 * q \in 1..Len(id)
    BY <2>1, HeaderIn
  <2> QED  BY <2>2, ElementOfSeq
<1> HIDE DEF v
<1>6. v <= tableVersion'[q]
  BY <1>1, <1>2, <1>3, <1>4
<1>5. ASSUME v = tableVersion'[q] PROVE Current(d, q, p, rest)'
  <2>1. tableVersion'[q] = tableVersion[q]
    BY <1>1, <1>2, <1>3, <1>4, <1>5
  <2> QED  BY <1>1, <1>2, <1>5, <2>1 DEF Current
<1> QED  BY <1>5, <1>6 DEF v

LEMMA AttestedMoves ==
    ASSUME World, World', Churn, NEW id \in Seq(Nat), NEW g \in Seq(Reading), NEW d,
           NEW p \in Nat, FoldOf(id, g, p), NEW rest, Known(id, g, d, p, rest),
           Attested(id, g, p, rest)
    PROVE  Attested(id, g, p, rest)'
<1> SUFFICES ASSUME p \in Families, NEW k \in Nat, Cut(g, p, k),
                    id[k + 2 * p] = tableVersion'[p], NEW r \in rest
             PROVE  \E x \in GroupNow' : x.metric = p /\ x.slot = r
  BY DEF Attested
<1>1. id[k + 2 * p] <= tableVersion[p]
  BY DEF Known
<1>2. /\ tableVersion'[p] >= tableVersion[p]
      /\ tableVersion'[p] = tableVersion[p] =>
           \A x : x.metric = p => (x \in GroupNow' <=> x \in GroupNow)
  BY ChurnMoves
<1>3. tableVersion[p] \in Nat /\ tableVersion'[p] \in Nat
  BY FamilyTypes DEF World, FamilyTypeOK
<1>4. tableVersion'[p] = tableVersion[p]
  BY <1>1, <1>2, <1>3
<1>5. PICK x \in GroupNow : x.metric = p /\ x.slot = r
  BY <1>4 DEF Attested
<1> QED  BY <1>2, <1>4, <1>5

LEMMA OthersMoves ==
    ASSUME World, Churn, NEW d, Others(d)
    PROVE  Others(d)'
<1>1. DynamicNow' = DynamicNow
  BY ChurnMoves
<1> QED  BY <1>1 DEF Others

LEMMA MadeIs ==
    ASSUME WBTypeOK
    PROVE  Made \in Nat /\ Made >= NumStatic
<1>1. Len(skeleton.names) \in Nat /\ NumStatic \in Nat
  BY WideTypes, LenProperties, WideConstants
<1> QED  BY <1>1 DEF Made

LEMMA ChurnKeeps ==
    ASSUME WideInv, Churn
    PROVE  WideInv'
<1>1. /\ UNCHANGED registryVars /\ UNCHANGED pass
      /\ UNCHANGED <<skeleton, emitted, wideBuilds>>
      /\ undisturbed' = FALSE
      /\ \/ FamilyNext /\ UNCHANGED nonzero
         \/ \E m \in Plain, s \in PlainSlots : SetPlain(m, s)
  BY DEF Churn
<1>2. FamilyInv'
  BY <1>1, FamilyInvStep DEF WideInv, SetPlain
<1>3. RegistryInv'
  BY <1>1 DEF WideInv, RegistryInv, RegistryTypeOK, registryVars
<1>4. World /\ World'
  BY <1>2, <1>3, WideTypes DEF World, WideInv, FamilyInv, RegistryInv
<1>5. NumRegistered' = NumRegistered
  BY <1>1, RegistryStands
<1>6. NumRegistered \in Nat
  BY <1>4, RegistryTypes DEF World
<1>7. UNCHANGED <<phase, cursor, identity, remaining, needsSchema, descs, values>>
  BY <1>1 DEF pass
<1>8. WBTypeOK'
  <2>1. nonzero' \in [Plain -> SUBSET PlainSlots]
    <3>1. nonzero \in [Plain -> SUBSET PlainSlots]
      BY DEF WideInv, WBTypeOK
    <3>2. ASSUME NEW m \in Plain, NEW s \in PlainSlots, SetPlain(m, s)
          PROVE  nonzero' \in [Plain -> SUBSET PlainSlots]
      BY <3>1, <3>2 DEF SetPlain
    <3> QED  BY <1>1, <3>1, <3>2
  <2> QED  BY <1>1, <1>4, <1>7, <2>1 DEF WideInv, WBTypeOK, World
<1>9. PassInv'
  BY <1>1, <1>5, <1>7 DEF WideInv, PassInv, Folding
<1>10. SkeletonInv'
  <2>1. skeleton.identity \in Seq(Nat) /\ skeleton.schema \in Seq(Reading)
    BY WideTypes DEF WideInv
  <2>2. SkeletonInv
    BY DEF WideInv
  <2>3. Made \in Nat /\ Made' = Made
    BY <1>1, MadeIs DEF WideInv, Made
  <2>4. skeleton # NoSkeleton =>
          Known(skeleton.identity, skeleton.schema, skeleton.schema, Made, {})'
    BY <1>1, <1>4, <2>1, <2>2, <2>3, KnownMoves DEF SkeletonInv
  <2> QED  BY <1>1, <2>2, <2>3, <2>4 DEF SkeletonInv, NoSkeleton
<1>11. Left' = Left /\ ToDescribe' = ToDescribe /\ (Walking' <=> Walking)
  BY <1>7 DEF Left, ToDescribe, AllSlots, Walking
<1>12. FoldInv' /\ HitInv' /\ EmittedInv'
  BY <1>1 DEF FoldInv, HitInv, EmittedInv
<1>13. WalkInv'
  BY <1>1, <1>7, <1>11 DEF WideInv, WalkInv
<1>14. MissInv'
  <2> SUFFICES ASSUME Walking, needsSchema PROVE Miss'
    BY <1>7, <1>11 DEF MissInv
  <2>1. Miss
    BY DEF WideInv, MissInv
  <2>2. identity \in Seq(Nat) /\ values \in Seq(Reading) /\ cursor \in Nat
    BY WideTypes DEF WideInv
  <2>3. Known(identity, values, descs, cursor, ToDescribe)'
    BY <1>4, <1>7, <1>11, <2>1, <2>2, KnownMoves DEF Miss
  <2>4. Others(descs)'
    BY <1>4, <1>7, <1>11, <2>1, OthersMoves DEF Miss
  <2>5. ASSUME phase # "walk" PROVE Attested(identity, values, cursor, remaining)'
    <3>1. ToDescribe = remaining
      BY <2>5, ToDescribeIs
    <3> QED  BY <1>4, <1>7, <2>1, <2>2, <2>5, <3>1, AttestedMoves DEF Miss
  <2> QED  BY <1>1, <1>7, <2>1, <2>3, <2>4, <2>5 DEF Miss
<1> QED  BY <1>2, <1>3, <1>8, <1>9, <1>10, <1>12, <1>13, <1>14 DEF WideInv

LEMMA RegistryInvStep ==
    ASSUME RegistryInv, RegistryNext
    PROVE  RegistryInv'
<1> USE RegistryAssumption
<1>1. /\ alive \subseteq Addresses /\ entries \in [Addresses -> 0..MaxNames] /\ names \in 0..MaxNames
      /\ \A a \in Addresses : a \in alive <=> entries[a] # 0
  BY DEF RegistryInv, RegistryTypeOK, Unregistered
<1>2. PICK a \in Addresses : BuildDynamic(a) \/ RegisterAgain(a) \/ DropDynamic(a)
  BY DEF RegistryNext
<1>3. ASSUME Register(a), alive' = alive \cup {a} PROVE RegistryInv'
  <2>1. names' = names + 1 /\ names' \in 0..MaxNames /\ names' # 0
    BY <1>1, <1>3 DEF Register
  <2>2. entries' = [entries EXCEPT ![a] = names']
    BY <1>3 DEF Register
  <2>3. entries' \in [Addresses -> 0..MaxNames]
    BY <1>1, <2>1, <2>2
  <2>4. ASSUME NEW b \in Addresses PROVE b \in alive' <=> entries'[b] # 0
    BY <1>1, <1>3, <2>1, <2>2
  <2> QED  BY <1>1, <1>3, <2>1, <2>3, <2>4 DEF RegistryInv, RegistryTypeOK, Unregistered
<1>4. CASE BuildDynamic(a) \/ RegisterAgain(a)
  <2>1. Register(a) /\ alive' = alive \cup {a}
    BY <1>4 DEF BuildDynamic, RegisterAgain
  <2> QED  BY <1>3, <2>1
<1>5. CASE DropDynamic(a)
  <2>1. alive' = alive \ {a} /\ names' = names /\ entries' = [entries EXCEPT ![a] = 0]
    BY <1>5 DEF DropDynamic, Removed, Unregistered
  <2>2. entries' \in [Addresses -> 0..MaxNames]
    BY <1>1, <2>1
  <2>3. ASSUME NEW b \in Addresses PROVE b \in alive' <=> entries'[b] # 0
    BY <1>1, <2>1
  <2> QED  BY <1>1, <2>1, <2>2, <2>3 DEF RegistryInv, RegistryTypeOK, Unregistered
<1> QED  BY <1>2, <1>4, <1>5

\* The registry's steps leave what the static metrics read.
LEMMA StaticStands ==
    ASSUME World, World', UNCHANGED familyVars, UNCHANGED nonzero
    PROVE  \A x : x.metric \in Static => (x \in GroupNow' <=> x \in GroupNow)
<1>1. /\ NumRegistered \in Nat /\ NumRegistered >= NumStatic /\ NumStatic \in Nat
      /\ NumRegistered' \in Nat /\ NumRegistered' >= NumStatic
  <2>1. NumRegistered \in Nat /\ NumRegistered >= NumStatic /\ NumStatic \in Nat
    BY RegistryTypes, WideConstants DEF World
  <2>2. Registered' \subseteq Addresses
    BY DEF Registered
  <2>3. Cardinality(Registered') \in Nat
    BY <2>2, RegistryAssumption, FS_Subset, FS_CardinalityType
  <2>4. NumRegistered' = NumStatic + Cardinality(Registered')
    BY DEF NumRegistered
  <2> QED  BY <2>1, <2>3, <2>4
<1>2. \A p \in Static : p \in 1..NumRegistered /\ p \in 1..NumRegistered'
                        /\ (p \in Families \/ p \in Plain)
  BY <1>1, WideConstants
<1>3. \A p : Taken(p)' = Taken(p) /\ \A s : MemberIn(p, s)' = MemberIn(p, s)
  BY DEF Taken, MemberIn, familyVars
<1>4. \A p : Walked(p)' = Walked(p)
  BY <1>3 DEF Walked
<1>5. \A p \in Static : \A s : Reads(p, s)' = Reads(p, s)
  BY <1>2, <1>3 DEF Reads
<1>6. \A p, s : IsMember(p, s)' <=> IsMember(p, s)
  BY DEF IsMember
<1>7. ASSUME NEW x, x.metric \in Static, x \in GroupNow PROVE x \in GroupNow'
  <2> DEFINE p == x.metric
             s == x.slot
  <2>1. s \in Walked(p) /\ IsMember(p, s) /\ x = Reads(p, s) /\ p \in Static
    BY <1>7, GroupReadings
  <2>2. s \in Walked(p)' /\ IsMember(p, s)' /\ x = Reads(p, s)' /\ p \in 1..NumRegistered'
    BY <1>2, <1>4, <1>5, <1>6, <2>1
  <2> HIDE DEF p, s
  <2> QED  BY <2>2 DEF GroupNow
<1>8. ASSUME NEW x, x.metric \in Static, x \in GroupNow' PROVE x \in GroupNow
  <2>1. PICK p \in 1..NumRegistered' : \E s \in Walked(p)' : IsMember(p, s)' /\ x = Reads(p, s)'
    BY <1>8 DEF GroupNow
  <2>2. PICK s \in Walked(p)' : IsMember(p, s)' /\ x = Reads(p, s)'
    BY <2>1
  <2>3. x.metric = p
    BY <2>2 DEF Reads
  <2>4. p \in 1..NumRegistered /\ s \in Walked(p) /\ IsMember(p, s) /\ x = Reads(p, s)
    BY <1>2, <1>4, <1>5, <1>6, <1>8, <2>2, <2>3
  <2> QED  BY <2>4 DEF GroupNow
<1> QED  BY <1>7, <1>8

LEMMA KnownStands ==
    ASSUME World, World', UNCHANGED familyVars, UNCHANGED nonzero,
           NEW id, NEW g, NEW d, NEW p, NEW rest, Known(id, g, d, p, rest)
    PROVE  Known(id, g, d, p, rest)'
<1>1. tableVersion' = tableVersion
  BY DEF familyVars
<1>2. \A x : x.metric \in Families => (x \in GroupNow' <=> x \in GroupNow)
  BY StaticStands, WideConstants
<1>3. ASSUME NEW q \in Families, Current(d, q, p, rest) PROVE Current(d, q, p, rest)'
  BY <1>2, <1>3 DEF Current
<1> QED  BY <1>1, <1>3 DEF Known

LEMMA ReshapeKeeps ==
    ASSUME WideInv, Reshape
    PROVE  WideInv'
<1>1. /\ phase = "idle" /\ RegistryNext /\ undisturbed' = FALSE
      /\ UNCHANGED familyVars /\ UNCHANGED wideVars
  BY DEF Reshape
<1>2. UNCHANGED <<nonzero, skeleton, emitted, wideBuilds>> /\ UNCHANGED pass
  BY <1>1 DEF wideVars
<1>3. UNCHANGED <<phase, cursor, identity, remaining, needsSchema, descs, values>>
  BY <1>2 DEF pass
<1>4. FamilyInv'
  BY <1>1, FamilyInvStep DEF WideInv
<1>5. RegistryInv'
  BY <1>1, RegistryInvStep DEF WideInv
<1>6. WBTypeOK'
  <2>1. FamilyTypeOK' /\ RegistryTypeOK'
    BY <1>4, <1>5 DEF FamilyInv, RegistryInv
  <2>3. undisturbed' \in BOOLEAN
    BY <1>1
  <2> QED  BY <1>2, <1>3, <2>1, <2>3 DEF WideInv, WBTypeOK
<1>7. PassInv'
  BY <1>1, <1>2, <1>3 DEF WideInv, PassInv, Folding
<1>8. SkeletonInv'
  <2>1. World /\ World'
    BY <1>4, <1>5, WideTypes DEF World, WideInv, FamilyInv, RegistryInv
  <2>2. SkeletonInv
    BY DEF WideInv
  <2>3. Made' = Made
    BY <1>2 DEF Made
  <2>4. skeleton # NoSkeleton =>
          Known(skeleton.identity, skeleton.schema, skeleton.schema, Made, {})'
    BY <1>1, <1>2, <2>1, <2>2, <2>3, KnownStands DEF SkeletonInv
  <2> QED  BY <1>2, <2>2, <2>3, <2>4 DEF SkeletonInv, NoSkeleton
<1>9. phase' = "idle"
  BY <1>1, <1>3
<1>10. FoldInv' /\ WalkInv' /\ MissInv' /\ HitInv'
  BY <1>9 DEF FoldInv, Folding, WalkInv, MissInv, HitInv, Walking
<1>11. EmittedInv'
  BY <1>1 DEF EmittedInv
<1> QED  BY <1>4, <1>5, <1>6, <1>7, <1>8, <1>10, <1>11 DEF WideInv

LEMMA StutterKeeps ==
    ASSUME WideInv, UNCHANGED wbvars
    PROVE  WideInv'
<1>1. UNCHANGED world
  BY DEF wbvars, wideVars, world
<1>2. UNCHANGED <<nonzero, skeleton, emitted, wideBuilds, undisturbed>> /\ UNCHANGED pass
  BY DEF wbvars, wideVars
<1>3. UNCHANGED <<phase, cursor, identity, remaining, needsSchema, descs, values>>
  BY <1>2 DEF pass
<1>4. /\ FamilyInv' /\ RegistryInv' /\ FamilyTypeOK' /\ RegistryTypeOK' /\ SkeletonInv'
      /\ UNCHANGED <<NumRegistered, tableVersion>>
  BY <1>1, <1>2, BuildFrame
<1>5. /\ \A g, p, r : Exact(g, p, r) => Exact(g, p, r)'
      /\ \A i, g, p : VersionsNow(i, g, p) => VersionsNow(i, g, p)'
      /\ \A i, g, d, p, r : Known(i, g, d, p, r) => Known(i, g, d, p, r)'
      /\ \A d : Others(d) => Others(d)'
      /\ \A i, g, p, r : Attested(i, g, p, r) => Attested(i, g, p, r)'
      /\ \A p : Walked(p)' = Walked(p)
  BY <1>1, ReadingsStand, AttestedStands, WorldStands
<1>6. /\ Left' = Left /\ ToDescribe' = ToDescribe
      /\ (Walking' <=> Walking) /\ (Folding' <=> Folding)
  BY <1>3 DEF Left, ToDescribe, AllSlots, Walking, Folding
<1>7. WBTypeOK'
  BY <1>2, <1>3, <1>4 DEF WideInv, WBTypeOK
<1>8. PassInv'
  BY <1>2, <1>3, <1>4, <1>5, <1>6 DEF WideInv, PassInv
<1>9. FoldInv'
  BY <1>2, <1>3, <1>5, <1>6 DEF WideInv, FoldInv
<1>10. WalkInv'
  BY <1>2, <1>3, <1>5, <1>6 DEF WideInv, WalkInv
<1>11. MissInv'
  <2>1. Miss => Miss'
    BY <1>2, <1>3, <1>5, <1>6 DEF Miss
  <2> QED  BY <1>3, <1>6, <2>1 DEF WideInv, MissInv
<1>12. HitInv' /\ EmittedInv'
  BY <1>2, <1>3, <1>4, <1>5, <1>6 DEF WideInv, HitInv, EmittedInv, NoSkeleton
<1> QED  BY <1>4, <1>7, <1>8, <1>9, <1>10, <1>11, <1>12 DEF WideInv

LEMMA WideInvInit ==
    ASSUME WBInit
    PROVE  WideInv
<1>1. FamilyInv
  BY FamilyInvInit DEF WBInit
<1>2. RegistryInv
  BY RegistryAssumption DEF WBInit, RegistryInit, RegistryInv, RegistryTypeOK, Unregistered
<1>3. <<>> \in Seq(Nat) /\ <<>> \in Seq(Reading)
  BY EmptySeq
<1>4. WBTypeOK
  <2>1. FamilyTypeOK /\ RegistryTypeOK
    BY <1>1, <1>2 DEF FamilyInv, RegistryInv
  <2>2. skeleton \in [identity : Seq(Nat), schema : Seq(Reading), names : Seq(Nat)]
        /\ emitted \in [schema : Seq(Reading), values : Seq(Reading)]
    BY <1>3 DEF WBInit, NoSkeleton, NoGroup
  <2>3. 0 \in 0..MaxWideBuilds /\ 1 \in Nat \ {0} /\ FALSE \in BOOLEAN
    BY WideBuilderAssumption
  <2>4. nonzero \in [Plain -> SUBSET PlainSlots]
    BY DEF WBInit
  <2> QED  BY <1>3, <2>1, <2>2, <2>3, <2>4 DEF WBInit, WBTypeOK
<1>5. PassInv /\ SkeletonInv /\ FoldInv /\ WalkInv /\ MissInv /\ HitInv /\ EmittedInv
  BY DEF WBInit, PassInv, SkeletonInv, FoldInv, WalkInv, MissInv, HitInv, EmittedInv, Folding, Walking
<1> QED  BY <1>1, <1>2, <1>4, <1>5 DEF WideInv

LEMMA WideInvExact ==
    ASSUME WideInv
    PROVE  QuietBuildExact
<1> SUFFICES ASSUME phase = "idle", undisturbed
             PROVE  /\ emitted.schema = [i \in DOMAIN emitted.values |->
                                            DescribedAs(emitted.values[i], skeleton.names)]
                    /\ InWalkOrder(emitted.values)
                    /\ {emitted.values[i] : i \in DOMAIN emitted.values} = GroupNow
                    /\ Registered = alive
  BY DEF QuietBuildExact
<1> DEFINE g == emitted.values
<1>1. g \in Seq(Reading) /\ World
  BY WideTypes DEF WideInv
<1>2. DOMAIN g = 1..Len(g)
  BY <1>1, LenProperties
<1>3. /\ Describes(emitted.schema, g, skeleton.names)
      /\ Ordered(g, NumRegistered, {}) /\ Exact(g, NumRegistered, {})
  BY DEF WideInv, EmittedInv
<1>4. GroupNow \subseteq Reading /\ \A x \in GroupNow : x.metric \in 1..NumRegistered
  BY <1>1, GroupReadings
<1>5. NumRegistered \in Nat
  BY <1>1, RegistryTypes DEF World
<1> HIDE DEF g
<1>6. InWalkOrder(g)
  BY <1>2, <1>3 DEF Ordered, InWalkOrder
<1>7. {g[i] : i \in DOMAIN g} = GroupNow
  <2>1. \A i \in 1..Len(g) : g[i] \in GroupNow
    BY <1>3 DEF Exact
  <2>2. ASSUME NEW x \in GroupNow PROVE \E i \in 1..Len(g) : g[i] = x
    <3>1. x.metric <= NumRegistered
      BY <1>4, <1>5
    <3> QED  BY <1>3, <3>1 DEF Exact
  <2> QED  BY <1>2, <2>1, <2>2
<1>8. Registered = alive
  BY DEF WideInv, RegistryInv, RegistryTypeOK, Registered
<1>9. emitted.schema = [i \in DOMAIN g |-> DescribedAs(g[i], skeleton.names)]
  <2> DEFINE h == emitted.schema
  <2>1. h \in Seq(Reading) /\ Len(g) \in Nat
    BY <1>1, WideTypes, LenProperties DEF WideInv
  <2>2. h = [i \in 1..Len(h) |-> h[i]]
    BY <2>1
  <2>3. Len(h) = Len(g) /\ \A i \in 1..Len(g) : h[i] = DescribedAs(g[i], skeleton.names)
    BY <1>3 DEF Describes
  <2> HIDE DEF h
  <2>4. h = [i \in DOMAIN g |-> DescribedAs(g[i], skeleton.names)]
    BY <1>2, <2>2, <2>3
  <2> QED  BY <2>4 DEF h
<1> QED  BY <1>6, <1>7, <1>8, <1>9 DEF g

\* A build that no step of the producer overlaps emits the group as it stands:
\* every member's value once and in order, of every dynamic metric alive and
\* of none dropped, with a schema that was cached or not, whatever the builds
\* before it overlapped and whatever came and went since.  A member of a
\* family or a plain metric is under its own labels, a dynamic metric under
\* the name its position had when the cached schema was made.  So for any
\* number of families, plain and dynamic metrics, slots and builds, where the
\* families of a group are walked before its plain metrics and no slot of a
\* plain metric has the number of a dynamic one's position (build_wide,
\* fold_group_identities).
THEOREM QuietBuildsAreExact ==
    ASSUME FamiliesFirst, DynamicsApart
    PROVE  WBSpec => []QuietBuildExact
<1>1. WBInit => WideInv
  BY WideInvInit
<1>2. WideInv /\ [WBNext]_wbvars => WideInv'
  BY ChurnKeeps, ReshapeKeeps, WideBuilds, StutterKeeps DEF WBNext
<1>3. WideInv => QuietBuildExact
  BY WideInvExact
<1> QED  BY <1>1, <1>2, <1>3, PTL DEF WBSpec
=============================================================================
