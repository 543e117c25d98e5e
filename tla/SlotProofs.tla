----------------------------- MODULE SlotProofs -----------------------------
(***************************************************************************)
(* Theorems about who owns a slot: SlotIdentity and LongBuilder.           *)
(***************************************************************************)
EXTENDS LongBuilder, FiniteSetTheorems, TLAPS

(***************************************************************************)
(* Theorems about SlotIdentity, for any threads, groups, slots and labels: *)
(* groups agree on a slot whose calls did not overlap, and no uid returns  *)
(* to a group that gave it up, whatever overlapped.                        *)
(*                                                                         *)
(* The invariant says of a call on its way through the groups what it has  *)
(* done and what is its own.  Of a slot without an overlap: one call       *)
(* writes it, with what `live` holds, and the groups behind it have it.    *)
(* Of a minted uid: one slot of a group holds it at most, and the groups   *)
(* before its call do not hold it and never did.                           *)
(***************************************************************************)

\* The first group a call has still to write.
NextGroup(t) == IF op[t] = "bump" THEN at[t] + 1 ELSE at[t]

OneWriter ==
    \A s \in Slots \ raced, t, u \in Threads :
        Writing(t) /\ Writing(u) /\ slot[t] = s /\ slot[u] = s => t = u

WrittenSoFar ==
    \A t \in Threads :
        Writing(t) /\ slot[t] \notin raced =>
            /\ put[t] = live[slot[t]]
            /\ \A g \in Groups : g < NextGroup(t) => meta[g][slot[t]] = live[slot[t]]

AgreeInv == TypeOK /\ GroupsAgree /\ OneWriter /\ WrittenSoFar

UidsBelow ==
    /\ \A t \in Threads : put[t].uid <= generation
    /\ \A s \in Slots : live[s].uid <= generation
    /\ \A g \in Groups, s \in Slots : meta[g][s].uid <= generation
    /\ \A g \in Groups : \A u \in past[g] : u <= generation

OneSlotEach ==
    \A g \in Groups, r, s \in Slots :
        meta[g][r].uid = meta[g][s].uid /\ meta[g][r].uid # 0 => r = s

OneCallEach ==
    \A t, u \in Threads :
        Writing(t) /\ Writing(u) /\ put[t].uid = put[u].uid /\ put[t].uid # 0 => t = u

UidsAhead ==
    \A t \in Threads : Writing(t) /\ put[t].uid # 0 =>
        \A g \in Groups : g >= NextGroup(t) =>
            /\ put[t].uid \notin past[g]
            /\ \A s \in Slots : meta[g][s].uid # put[t].uid

UidInv == TypeOK /\ UidNeverReturns /\ UidsBelow /\ OneSlotEach /\ OneCallEach /\ UidsAhead

-----------------------------------------------------------------------------
LEMMA BeginTypes ==
    ASSUME TypeOK, NEW t \in Threads, NEW s \in Slots, NEW o \in Occupant \cup {Nobody},
           Begin(t, s, o)
    PROVE  /\ op' \in [Threads -> Ops] /\ slot' \in [Threads -> Slots]
           /\ put' \in [Threads -> Occupant \cup {Nobody}] /\ at' \in [Threads -> Groups]
           /\ raced' \subseteq Slots
<1>1. 1 \in Groups
  BY SlotIdentityAssumption DEF Groups
<1> QED BY <1>1 DEF TypeOK, Begin, Ops

LEMMA AdvanceTypes ==
    ASSUME TypeOK, NEW t \in Threads, Advance(t)
    PROVE  op' \in [Threads -> Ops] /\ at' \in [Threads -> Groups]
<1>1. at[t] \in Groups /\ 1 \in Groups /\ (~Done(t) => at[t] + 1 \in Groups)
  BY SlotIdentityAssumption DEF TypeOK, Groups, Done
<1> QED BY <1>1 DEF TypeOK, Advance, Ops

LEMMA TypesKept == TypeOK /\ [Next]_vars => TypeOK'
<1> SUFFICES ASSUME TypeOK, [Next]_vars PROVE TypeOK'
  OBVIOUS
<1>1. ASSUME NEW t \in Threads, NEW s \in Slots, NEW l \in Labels, Assign(t, s, l)
      PROVE  TypeOK'
  <2>1. generation' \in 0..MaxUid /\ generation' \in Uids
    BY <1>1, SlotIdentityAssumption DEF Assign, TypeOK, Uids
  <2> DEFINE o == [labels |-> l, uid |-> generation']
  <2>2. o \in Occupant
    BY <2>1 DEF Occupant
  <2>3. live' = [live EXCEPT ![s] = o]
    BY <1>1 DEF Assign
  <2>4. live'[s] = o
    BY <2>3 DEF TypeOK
  <2> HIDE DEF o
  <2>5. Begin(t, s, o) /\ UNCHANGED <<store, gone>>
    BY <1>1, <2>4 DEF Assign
  <2>6. /\ op' \in [Threads -> Ops] /\ slot' \in [Threads -> Slots]
        /\ put' \in [Threads -> Occupant \cup {Nobody}] /\ at' \in [Threads -> Groups]
        /\ raced' \subseteq Slots
    BY <2>2, <2>5, BeginTypes
  <2>7. live' \in [Slots -> Occupant \cup {Nobody}]
    BY <2>2, <2>3 DEF TypeOK
  <2> QED BY <2>1, <2>5, <2>6, <2>7 DEF TypeOK, store
<1>2. ASSUME NEW t \in Threads, NEW s \in Slots, Release(t, s) \/ RetainRelease(t, s)
      PROVE  TypeOK'
  <2>1. /\ Begin(t, s, Nobody) /\ UNCHANGED <<generation, store>>
        /\ live' = [live EXCEPT ![s] = Nobody]
        /\ gone' = gone \/ gone' = [gone EXCEPT ![t] = gone[t] \ {s}]
    BY <1>2 DEF Release, RetainRelease
  <2>2. /\ op' \in [Threads -> Ops] /\ slot' \in [Threads -> Slots]
        /\ put' \in [Threads -> Occupant \cup {Nobody}] /\ at' \in [Threads -> Groups]
        /\ raced' \subseteq Slots
    BY <2>1, BeginTypes
  <2>3. live' \in [Slots -> Occupant \cup {Nobody}] /\ gone' \in [Threads -> SUBSET Slots]
    BY <2>1 DEF TypeOK
  <2> QED BY <2>1, <2>2, <2>3 DEF TypeOK, store
<1>3. ASSUME NEW t \in Threads, NEW rejected \in SUBSET Slots, Judge(t, rejected)
      PROVE  TypeOK'
  BY <1>3 DEF TypeOK, Judge, store, Ops
<1>4. ASSUME NEW t \in Threads, RetainDone(t) PROVE TypeOK'
  BY <1>4 DEF TypeOK, RetainDone, store, Ops
<1>5. ASSUME NEW t \in Threads, Store(t) PROVE TypeOK'
  <2> DEFINE g == at[t]
  <2>1. g \in Groups /\ slot[t] \in Slots /\ put[t] \in Occupant \cup {Nobody}
    BY DEF TypeOK
  <2>2. /\ meta' = [meta EXCEPT ![g][slot[t]] = put[t]]
        /\ past' = [past EXCEPT ![g] = past[g] \cup ({meta[g][slot[t]].uid} \ {0})]
        /\ locked' = [locked EXCEPT ![g] = TRUE]
        /\ op' = [op EXCEPT ![t] = "bump"]
        /\ UNCHANGED <<live, generation, version, slot, put, at, gone, raced>>
    BY <1>5 DEF Store
  <2>3. meta[g][slot[t]] \in Occupant \cup {Nobody}
    BY <2>1 DEF TypeOK
  <2>4. {meta[g][slot[t]].uid} \ {0} \subseteq Uids
    BY <2>3 DEF Occupant, Nobody
  <2> HIDE DEF g
  <2>5. meta' \in [Groups -> [Slots -> Occupant \cup {Nobody}]]
    BY <2>1, <2>2 DEF TypeOK
  <2>6. past' \in [Groups -> SUBSET Uids]
    BY <2>1, <2>2, <2>4 DEF TypeOK
  <2> QED BY <2>2, <2>5, <2>6 DEF TypeOK, Ops
<1>6. ASSUME NEW t \in Threads, Bump(t) PROVE TypeOK'
  <2>1. op' \in [Threads -> Ops] /\ at' \in [Threads -> Groups]
    BY <1>6, AdvanceTypes DEF Bump
  <2>2. version' \in [Groups -> Nat] /\ locked' \in [Groups -> BOOLEAN]
    BY <1>6 DEF TypeOK, Bump
  <2> QED BY <1>6, <2>1, <2>2 DEF TypeOK, Bump
<1>7. ASSUME NEW t \in Threads, StoreNothing(t) PROVE TypeOK'
  <2>1. op' \in [Threads -> Ops] /\ at' \in [Threads -> Groups]
    BY <1>7, AdvanceTypes DEF StoreNothing
  <2> QED BY <1>7, <2>1 DEF TypeOK, StoreNothing, store
<1>8. CASE UNCHANGED vars
  BY <1>8 DEF vars, store, calls, TypeOK
<1> QED BY <1>1, <1>2, <1>3, <1>4, <1>5, <1>6, <1>7, <1>8 DEF Next, Step

LEMMA TypesInit == Init => TypeOK
<1> SUFFICES ASSUME Init PROVE TypeOK
  OBVIOUS
<1>1. 1 \in Groups /\ 1 \in Slots /\ 0 \in 0..MaxUid
  BY SlotIdentityAssumption DEF Groups, Slots
<1> QED BY <1>1 DEF Init, TypeOK, Ops

\* Every variable keeps its type.
THEOREM SlotIdentityTypes == Spec => []TypeOK
<1> QED BY TypesInit, TypesKept, PTL DEF Spec

-----------------------------------------------------------------------------
\* What a call does to its slot when it lets go of the mutex.
LEMMA BeginEffect ==
    ASSUME TypeOK, NEW t \in Threads, NEW s \in Slots, NEW o \in Occupant \cup {Nobody},
           Begin(t, s, o), ~Writing(t)
    PROVE  /\ \A u \in Threads : Writing(u)' <=> Writing(u) \/ u = t
           /\ \A u \in Threads : u # t =>
                 op'[u] = op[u] /\ slot'[u] = slot[u] /\ put'[u] = put[u] /\ at'[u] = at[u]
           /\ op'[t] = "write" /\ slot'[t] = s /\ put'[t] = o /\ at'[t] = 1
           /\ \A r \in Slots : r # s => (r \in raced' <=> r \in raced)
           /\ s \notin raced' => \A u \in Threads : ~(Writing(u) /\ slot[u] = s)
<1>1. /\ \A u \in Threads : u # t =>
            op'[u] = op[u] /\ slot'[u] = slot[u] /\ put'[u] = put[u] /\ at'[u] = at[u]
      /\ op'[t] = "write" /\ slot'[t] = s /\ put'[t] = o /\ at'[t] = 1
  BY DEF TypeOK, Begin
<1>2. \A u \in Threads : Writing(u)' <=> Writing(u) \/ u = t
  BY <1>1 DEF Writing
<1>3. /\ \A r \in Slots : r # s => (r \in raced' <=> r \in raced)
      /\ s \notin raced' => \A u \in Threads : ~(Writing(u) /\ slot[u] = s)
  BY DEF Begin, Settled
<1> QED BY <1>1, <1>2, <1>3

LEMMA AgreeBegin ==
    ASSUME AgreeInv, TypeOK', NEW t \in Threads, NEW s \in Slots,
           NEW o \in Occupant \cup {Nobody},
           Begin(t, s, o), ~Writing(t), live' = [live EXCEPT ![s] = o], UNCHANGED store
    PROVE  AgreeInv'
<1>1. /\ \A u \in Threads : Writing(u)' <=> Writing(u) \/ u = t
      /\ \A u \in Threads : u # t =>
            op'[u] = op[u] /\ slot'[u] = slot[u] /\ put'[u] = put[u] /\ at'[u] = at[u]
      /\ op'[t] = "write" /\ slot'[t] = s /\ put'[t] = o /\ at'[t] = 1
      /\ \A r \in Slots : r # s => (r \in raced' <=> r \in raced)
      /\ s \notin raced' => \A u \in Threads : ~(Writing(u) /\ slot[u] = s)
  BY BeginEffect DEF AgreeInv
<1>2. live'[s] = o /\ (\A r \in Slots : r # s => live'[r] = live[r]) /\ meta' = meta
  BY DEF AgreeInv, TypeOK, store
<1>3. \A u \in Threads : slot[u] \in Slots /\ slot'[u] \in Slots
  BY DEF AgreeInv, TypeOK
<1>4. \A g \in Groups : g >= 1
  BY DEF Groups
<1>5. GroupsAgree'
  <2> SUFFICES ASSUME NEW r \in Slots, r \notin raced', Settled(r)' PROVE AgreeOn(r)'
    BY DEF GroupsAgree
  <2>1. r # s /\ r \notin raced /\ Settled(r)
    BY <1>1 DEF Settled
  <2> QED BY <1>2, <2>1 DEF AgreeInv, GroupsAgree, AgreeOn
<1>6. OneWriter'
  <2> SUFFICES ASSUME NEW r \in Slots, r \notin raced', NEW u \in Threads, NEW v \in Threads,
                      Writing(u)', Writing(v)', slot'[u] = r, slot'[v] = r
               PROVE  u = v
    BY DEF OneWriter
  <2>1. CASE r = s
    BY <1>1, <2>1
  <2>2. CASE r # s
    <3>1. u # t /\ v # t /\ r \notin raced
      BY <1>1, <2>2
    <3> QED BY <1>1, <3>1 DEF AgreeInv, OneWriter
  <2> QED BY <2>1, <2>2
<1>7. WrittenSoFar'
  <2> SUFFICES ASSUME NEW u \in Threads, Writing(u)', slot'[u] \notin raced'
               PROVE  /\ put'[u] = live'[slot'[u]]
                      /\ \A g \in Groups : g < NextGroup(u)' =>
                            meta'[g][slot'[u]] = live'[slot'[u]]
    BY DEF WrittenSoFar
  <2>1. CASE u = t
    BY <1>1, <1>2, <2>1, SlotIdentityAssumption DEF NextGroup, Groups
  <2>2. CASE u # t
    <3>1. Writing(u) /\ slot'[u] = slot[u] /\ NextGroup(u)' = NextGroup(u)
      BY <1>1, <2>2 DEF NextGroup
    <3>2. slot[u] # s /\ slot[u] \notin raced
      BY <1>1, <1>3, <2>2, <3>1
    <3>3. /\ put[u] = live[slot[u]]
          /\ \A g \in Groups : g < NextGroup(u) => meta[g][slot[u]] = live[slot[u]]
      BY <3>1, <3>2 DEF AgreeInv, WrittenSoFar
    <3> QED BY <1>1, <1>2, <1>3, <2>2, <3>1, <3>2, <3>3
  <2> QED BY <2>1, <2>2
<1> QED BY <1>5, <1>6, <1>7 DEF AgreeInv

\* Between the mutex and the groups nothing of a call changes.
LEMMA AgreeQuiet ==
    ASSUME AgreeInv, TypeOK', UNCHANGED <<live, meta, slot, put, at, raced>>,
           \A u \in Threads : op'[u] = op[u] \/ (~Writing(u) /\ ~Writing(u)')
    PROVE  AgreeInv'
<1>1. \A u \in Threads : (Writing(u)' <=> Writing(u)) /\ (Writing(u) => op'[u] = op[u])
  BY DEF Writing
<1>2. GroupsAgree'
  BY <1>1 DEF AgreeInv, GroupsAgree, Settled, AgreeOn
<1>3. OneWriter'
  BY <1>1 DEF AgreeInv, OneWriter
<1>4. WrittenSoFar'
  <2>1. \A u \in Threads : Writing(u) => NextGroup(u)' = NextGroup(u)
    BY <1>1 DEF NextGroup
  <2> QED BY <1>1, <2>1 DEF AgreeInv, WrittenSoFar
<1> QED BY <1>2, <1>3, <1>4 DEF AgreeInv

LEMMA AgreeStore ==
    ASSUME AgreeInv, TypeOK', NEW t \in Threads, Store(t)
    PROVE  AgreeInv'
<1> DEFINE h == at[t]
           s == slot[t]
<1>1. h \in Groups /\ s \in Slots /\ op[t] = "write"
  BY DEF AgreeInv, TypeOK, Store
<1>2. /\ meta' = [meta EXCEPT ![h][s] = put[t]]
      /\ op' = [op EXCEPT ![t] = "bump"]
      /\ UNCHANGED <<live, slot, put, at, raced>>
  BY DEF Store
<1>3. /\ meta'[h][s] = put[t]
      /\ \A g \in Groups, r \in Slots : g # h \/ r # s => meta'[g][r] = meta[g][r]
  <2> HIDE DEF h, s
  <2> QED BY <1>1, <1>2 DEF AgreeInv, TypeOK
<1>4. op'[t] = "bump" /\ \A u \in Threads : u # t => op'[u] = op[u]
  BY <1>2 DEF AgreeInv, TypeOK
<1>5. \A u \in Threads : Writing(u)' <=> Writing(u)
  BY <1>1, <1>4 DEF Writing
<1>6. \A u \in Threads : slot[u] \in Slots
  BY DEF AgreeInv, TypeOK
<1>7. GroupsAgree'
  <2> SUFFICES ASSUME NEW r \in Slots, r \notin raced', Settled(r)' PROVE AgreeOn(r)'
    BY DEF GroupsAgree
  <2>1. r # s /\ r \notin raced /\ Settled(r)
    BY <1>1, <1>2, <1>5 DEF Settled, Writing
  <2> QED BY <1>2, <1>3, <2>1 DEF AgreeInv, GroupsAgree, AgreeOn
<1>8. OneWriter'
  BY <1>2, <1>5 DEF AgreeInv, OneWriter
<1>9. WrittenSoFar'
  <2> SUFFICES ASSUME NEW u \in Threads, Writing(u), slot[u] \notin raced,
                      NEW g \in Groups, g < NextGroup(u)'
               PROVE  put[u] = live[slot[u]] /\ meta'[g][slot[u]] = live[slot[u]]
    <3>1. \A u \in Threads : Writing(u) /\ slot[u] \notin raced => put[u] = live[slot[u]]
      BY DEF AgreeInv, WrittenSoFar
    <3> QED BY <1>2, <1>5, <3>1 DEF WrittenSoFar
  <2>1. /\ put[u] = live[slot[u]]
        /\ g < NextGroup(u) => meta[g][slot[u]] = live[slot[u]]
    BY DEF AgreeInv, WrittenSoFar
  <2>2. CASE u = t
    <3>1. NextGroup(u)' = h + 1 /\ NextGroup(u) = h
      BY <1>1, <1>2, <1>4, <2>2 DEF NextGroup
    <3>2. g = h \/ g < h
      BY <1>1, <3>1 DEF Groups
    <3> QED BY <1>1, <1>3, <2>1, <2>2, <3>1, <3>2
  <2>3. CASE u # t
    <3>1. NextGroup(u)' = NextGroup(u)
      BY <1>2, <1>4, <2>3 DEF NextGroup
    <3>2. slot[u] # s
      BY <1>1, <1>6, <2>3 DEF AgreeInv, OneWriter, Writing
    <3> QED BY <1>3, <1>6, <2>1, <3>1, <3>2
  <2> QED BY <2>2, <2>3
<1> QED BY <1>7, <1>8, <1>9 DEF AgreeInv

\* A call past the group at[t], which holds what the call puts.
LEMMA AgreeAdvance ==
    ASSUME AgreeInv, TypeOK', NEW t \in Threads, Writing(t), Advance(t),
           slot[t] \notin raced => meta[at[t]][slot[t]] = live[slot[t]],
           UNCHANGED <<live, meta, slot, put, raced>>
    PROVE  AgreeInv'
<1> DEFINE h == at[t]
<1>1. h \in Groups /\ \A u \in Threads : slot[u] \in Slots
  BY DEF AgreeInv, TypeOK
<1>2. /\ \A u \in Threads : u # t => op'[u] = op[u] /\ at'[u] = at[u]
      /\ at'[t] = IF Done(t) THEN 1 ELSE h + 1
      /\ op'[t] = IF ~Done(t) THEN "write" ELSE IF gone[t] # {} THEN "retain" ELSE "idle"
  BY DEF AgreeInv, TypeOK, Advance
<1>3. \A u \in Threads : u # t => (Writing(u)' <=> Writing(u))
  BY <1>2 DEF Writing
<1>4. Writing(t)' <=> ~Done(t)
  BY <1>2 DEF Writing
<1>5. slot[t] \notin raced =>
        \A g \in Groups : g <= h => meta[g][slot[t]] = live[slot[t]]
  <2> SUFFICES ASSUME slot[t] \notin raced, NEW g \in Groups, g <= h
               PROVE  meta[g][slot[t]] = live[slot[t]]
    OBVIOUS
  <2>1. CASE g = h
    BY <2>1
  <2>2. CASE g # h
    <3>1. g < NextGroup(t)
      BY <1>1, <2>2 DEF NextGroup, Groups
    <3> QED BY <3>1 DEF AgreeInv, WrittenSoFar
  <2> QED BY <2>1, <2>2
<1>6. GroupsAgree'
  <2> SUFFICES ASSUME NEW r \in Slots, r \notin raced', Settled(r)' PROVE AgreeOn(r)'
    BY DEF GroupsAgree
  <2>1. CASE slot[t] = r
    <3>1. Done(t)
      BY <1>4, <2>1 DEF Settled
    <3>2. \A g \in Groups : g <= h
      BY <3>1 DEF Done, Groups
    <3> QED BY <1>5, <2>1, <3>2 DEF AgreeOn
  <2>2. CASE slot[t] # r
    <3>1. Settled(r)
      BY <1>3, <2>2 DEF Settled
    <3> QED BY <3>1 DEF AgreeInv, GroupsAgree, AgreeOn
  <2> QED BY <2>1, <2>2
<1>7. OneWriter'
  BY <1>3 DEF AgreeInv, OneWriter
<1>8. WrittenSoFar'
  <2> SUFFICES ASSUME NEW u \in Threads, Writing(u)', slot[u] \notin raced
               PROVE  /\ put[u] = live[slot[u]]
                      /\ \A g \in Groups : g < NextGroup(u)' => meta[g][slot[u]] = live[slot[u]]
    BY DEF WrittenSoFar
  <2>1. CASE u = t
    <3>1. NextGroup(u)' = h + 1
      BY <1>2, <1>4, <2>1 DEF NextGroup
    <3>2. \A g \in Groups : g < h + 1 => g <= h
      BY <1>1 DEF Groups
    <3>3. put[t] = live[slot[t]]
      BY <2>1 DEF AgreeInv, WrittenSoFar
    <3> QED BY <1>5, <2>1, <3>1, <3>2, <3>3
  <2>2. CASE u # t
    <3>1. NextGroup(u)' = NextGroup(u) /\ Writing(u)
      BY <1>2, <1>3, <2>2 DEF NextGroup
    <3> QED BY <3>1 DEF AgreeInv, WrittenSoFar
  <2> QED BY <2>1, <2>2
<1> QED BY <1>6, <1>7, <1>8 DEF AgreeInv

LEMMA AgreeNext == AgreeInv /\ [Next]_vars => AgreeInv'
<1> SUFFICES ASSUME AgreeInv, [Next]_vars PROVE AgreeInv'
  OBVIOUS
<1>1. TypeOK'
  BY TypesKept DEF AgreeInv
<1>2. ASSUME NEW t \in Threads, NEW s \in Slots, NEW l \in Labels, Assign(t, s, l)
      PROVE  AgreeInv'
  <2> DEFINE o == [labels |-> l, uid |-> generation']
  <2>1. live' = [live EXCEPT ![s] = o]
    BY <1>2 DEF Assign
  <2>2. live'[s] = o
    BY <2>1 DEF AgreeInv, TypeOK
  <2> HIDE DEF o
  <2>3. Begin(t, s, o) /\ UNCHANGED store /\ ~Writing(t)
    BY <1>2, <2>2 DEF Assign, Writing
  <2>4. o \in Occupant \cup {Nobody}
    BY <1>1, <2>2 DEF TypeOK
  <2> QED BY <1>1, <2>1, <2>3, <2>4, AgreeBegin
<1>3. ASSUME NEW t \in Threads, NEW s \in Slots, Release(t, s) \/ RetainRelease(t, s)
      PROVE  AgreeInv'
  <2>1. /\ Begin(t, s, Nobody) /\ UNCHANGED store /\ ~Writing(t)
        /\ live' = [live EXCEPT ![s] = Nobody]
    BY <1>3 DEF Release, RetainRelease, Writing
  <2>2. Nobody \in Occupant \cup {Nobody}
    OBVIOUS
  <2> QED BY <1>1, <2>1, <2>2, AgreeBegin
<1>4. ASSUME NEW t \in Threads, NEW rejected \in SUBSET Slots, Judge(t, rejected)
      PROVE  AgreeInv'
  <2>1. \A u \in Threads : op'[u] = op[u] \/ (~Writing(u) /\ ~Writing(u)')
    BY <1>4 DEF Judge, Writing, AgreeInv, TypeOK
  <2> QED BY <1>1, <1>4, <2>1, AgreeQuiet DEF Judge, store
<1>5. ASSUME NEW t \in Threads, RetainDone(t) PROVE AgreeInv'
  <2>1. \A u \in Threads : op'[u] = op[u] \/ (~Writing(u) /\ ~Writing(u)')
    BY <1>5 DEF RetainDone, Writing, AgreeInv, TypeOK
  <2> QED BY <1>1, <1>5, <2>1, AgreeQuiet DEF RetainDone, store
<1>6. ASSUME NEW t \in Threads, Store(t) PROVE AgreeInv'
  BY <1>1, <1>6, AgreeStore
<1>7. ASSUME NEW t \in Threads, Bump(t) PROVE AgreeInv'
  <2>1. /\ Writing(t) /\ Advance(t) /\ UNCHANGED <<live, meta, slot, put, raced>>
        /\ NextGroup(t) = at[t] + 1
    BY <1>7 DEF Bump, Writing, NextGroup
  <2>2. at[t] \in Groups /\ at[t] < at[t] + 1
    BY DEF AgreeInv, TypeOK, Groups
  <2>3. slot[t] \notin raced => meta[at[t]][slot[t]] = live[slot[t]]
    BY <2>1, <2>2 DEF AgreeInv, WrittenSoFar
  <2> QED BY <1>1, <2>1, <2>3, AgreeAdvance
<1>8. ASSUME NEW t \in Threads, StoreNothing(t) PROVE AgreeInv'
  <2>1. /\ Writing(t) /\ Advance(t) /\ UNCHANGED <<live, meta, slot, put, raced>>
        /\ put[t] = Nobody /\ meta[at[t]][slot[t]] = Nobody
    BY <1>8 DEF StoreNothing, Mutates, Writing, store
  <2>2. slot[t] \notin raced => meta[at[t]][slot[t]] = live[slot[t]]
    BY <2>1 DEF AgreeInv, WrittenSoFar
  <2> QED BY <1>1, <2>1, <2>2, AgreeAdvance
<1>9. CASE UNCHANGED vars
  BY <1>1, <1>9, AgreeQuiet DEF vars, store, calls
<1> QED BY <1>2, <1>3, <1>4, <1>5, <1>6, <1>7, <1>8, <1>9 DEF Next, Step

LEMMA AgreeStart == Init => AgreeInv
<1> SUFFICES ASSUME Init PROVE AgreeInv
  OBVIOUS
<1>1. TypeOK
  BY TypesInit
<1>2. \A t \in Threads : ~Writing(t)
  BY DEF Init, Writing
<1> QED BY <1>1, <1>2 DEF Init, AgreeInv, GroupsAgree, AgreeOn, OneWriter, WrittenSoFar

\* Once the calls about a slot are over, and the last two did not overlap, all
\* of its groups hold the occupant that `live` holds: for any number of groups,
\* and whatever calls run meanwhile about other slots.
THEOREM GroupsAgreeUnlessRaced == Spec => []GroupsAgree
<1>1. AgreeInv => GroupsAgree
  BY DEF AgreeInv
<1> QED BY <1>1, AgreeStart, AgreeNext, PTL DEF Spec

-----------------------------------------------------------------------------
\* Every uid is a number.
LEMMA UidTypes ==
    ASSUME TypeOK
    PROVE  /\ \A u \in Threads : put[u].uid \in Nat
           /\ \A r \in Slots : live[r].uid \in Nat
           /\ \A g \in Groups, r \in Slots : meta[g][r].uid \in Nat
           /\ \A g \in Groups : \A u \in past[g] : u \in Nat
<1>1. Uids \subseteq Nat
  BY SlotIdentityAssumption DEF Uids
<1>2. \A o \in Occupant \cup {Nobody} : o.uid \in Nat
  <2>1. Nobody.uid = 0 /\ 0 \in Nat
    BY DEF Nobody
  <2>2. ASSUME NEW o \in Occupant PROVE o.uid \in Nat
    BY <1>1 DEF Occupant
  <2> QED BY <2>1, <2>2
<1>3. /\ \A u \in Threads : put[u] \in Occupant \cup {Nobody}
      /\ \A r \in Slots : live[r] \in Occupant \cup {Nobody}
      /\ \A g \in Groups, r \in Slots : meta[g][r] \in Occupant \cup {Nobody}
      /\ \A g \in Groups : past[g] \subseteq Uids
  BY DEF TypeOK
<1> QED BY <1>1, <1>2, <1>3

LEMMA UidBegin ==
    ASSUME UidInv, TypeOK', NEW t \in Threads, NEW s \in Slots,
           NEW o \in Occupant \cup {Nobody},
           Begin(t, s, o), ~Writing(t), live' = [live EXCEPT ![s] = o], UNCHANGED store,
           \/ o = Nobody /\ generation' = generation
           \/ o.uid = generation + 1 /\ generation' = generation + 1
    PROVE  UidInv'
<1>1. /\ \A u \in Threads : Writing(u)' <=> Writing(u) \/ u = t
      /\ \A u \in Threads : u # t =>
            op'[u] = op[u] /\ slot'[u] = slot[u] /\ put'[u] = put[u] /\ at'[u] = at[u]
      /\ op'[t] = "write" /\ slot'[t] = s /\ put'[t] = o /\ at'[t] = 1
  BY BeginEffect DEF UidInv
<1>2. /\ live'[s] = o /\ (\A r \in Slots : r # s => live'[r] = live[r])
      /\ meta' = meta /\ past' = past
  BY DEF UidInv, TypeOK, store
<1>3. generation \in Nat /\ generation' \in Nat /\ generation <= generation'
  BY SlotIdentityAssumption DEF UidInv, TypeOK
<1>4. o.uid = 0 \/ (o.uid = generation + 1 /\ generation' = generation + 1)
  BY DEF Nobody
<1>5. /\ \A u \in Threads : put[u].uid \in Nat
      /\ \A r \in Slots : live[r].uid \in Nat
      /\ \A g \in Groups, r \in Slots : meta[g][r].uid \in Nat
      /\ \A g \in Groups : \A u \in past[g] : u \in Nat
  BY UidTypes DEF UidInv
<1>6. o.uid <= generation'
  BY <1>3, <1>4
<1>7. UidsBelow'
  <2>1. \A u \in Threads : put'[u].uid <= generation'
    BY <1>1, <1>3, <1>5, <1>6 DEF UidInv, UidsBelow
  <2>2. \A r \in Slots : live'[r].uid <= generation'
    BY <1>2, <1>3, <1>5, <1>6 DEF UidInv, UidsBelow
  <2>3. /\ \A g \in Groups, r \in Slots : meta[g][r].uid <= generation'
        /\ \A g \in Groups : \A u \in past[g] : u <= generation'
    BY <1>3, <1>5 DEF UidInv, UidsBelow
  <2> QED BY <1>2, <2>1, <2>2, <2>3 DEF UidsBelow
<1>8. UidNeverReturns' /\ OneSlotEach'
  BY <1>2 DEF UidInv, UidNeverReturns, OneSlotEach
<1>9. OneCallEach'
  <2>1. ASSUME NEW u \in Threads, u # t, o.uid # 0 PROVE put[u].uid # o.uid
    <3>1. put[u].uid <= generation /\ put[u].uid \in Nat
      BY <1>5 DEF UidInv, UidsBelow
    <3> QED BY <1>3, <1>4, <2>1, <3>1
  <2> QED BY <1>1, <2>1 DEF UidInv, OneCallEach
<1>10. UidsAhead'
  <2> SUFFICES ASSUME NEW u \in Threads, Writing(u)', put'[u].uid # 0,
                      NEW g \in Groups, g >= NextGroup(u)'
               PROVE  put'[u].uid \notin past[g] /\ \A r \in Slots : meta[g][r].uid # put'[u].uid
    BY <1>2 DEF UidsAhead
  <2>1. CASE u = t
    <3>1. put'[u].uid = generation + 1
      BY <1>1, <1>4, <2>1
    <3>2. /\ \A r \in Slots : meta[g][r].uid <= generation
          /\ \A v \in past[g] : v <= generation
      BY DEF UidInv, UidsBelow
    <3> QED BY <1>3, <1>5, <3>1, <3>2
  <2>2. CASE u # t
    <3>1. Writing(u) /\ put'[u] = put[u] /\ NextGroup(u)' = NextGroup(u)
      BY <1>1, <2>2 DEF NextGroup
    <3> QED BY <3>1 DEF UidInv, UidsAhead
  <2> QED BY <2>1, <2>2
<1> QED BY <1>7, <1>8, <1>9, <1>10 DEF UidInv

\* A step that leaves the groups alone and begins no call.
LEMMA UidQuiet ==
    ASSUME UidInv, TypeOK', UNCHANGED <<live, generation, meta, past, put>>,
           \A u \in Threads :
              Writing(u)' => Writing(u) /\ \A g \in Groups : g >= NextGroup(u)' => g >= NextGroup(u)
    PROVE  UidInv'
<1>1. UidNeverReturns' /\ OneSlotEach' /\ UidsBelow'
  BY DEF UidInv, UidNeverReturns, OneSlotEach, UidsBelow
<1>2. OneCallEach'
  BY DEF UidInv, OneCallEach
<1>3. UidsAhead'
  BY DEF UidInv, UidsAhead
<1> QED BY <1>1, <1>2, <1>3 DEF UidInv

LEMMA UidAdvance ==
    ASSUME UidInv, TypeOK', NEW t \in Threads, Writing(t), Advance(t),
           op[t] = "bump" \/ put[t].uid = 0,
           UNCHANGED <<live, generation, meta, past, put>>
    PROVE  UidInv'
<1>1. at[t] \in Groups
  BY DEF UidInv, TypeOK
<1>2. /\ \A u \in Threads : u # t => op'[u] = op[u] /\ at'[u] = at[u]
      /\ at'[t] = IF Done(t) THEN 1 ELSE at[t] + 1
      /\ op'[t] = IF ~Done(t) THEN "write" ELSE IF gone[t] # {} THEN "retain" ELSE "idle"
  BY DEF UidInv, TypeOK, Advance
<1>3. ASSUME NEW u \in Threads, Writing(u)'
      PROVE  Writing(u) /\ \A g \in Groups : g >= NextGroup(u)' => g >= NextGroup(u)
  <2>1. CASE u # t
    BY <1>2, <1>3, <2>1 DEF Writing, NextGroup
  <2>2. CASE u = t
    <3>1. NextGroup(u)' = at[t] + 1
      BY <1>2, <1>3, <2>2 DEF Writing, NextGroup
    <3>2. NextGroup(u) \in {at[t], at[t] + 1}
      BY <2>2 DEF NextGroup
    <3> QED BY <1>1, <2>2, <3>1, <3>2 DEF Groups
  <2> QED BY <2>1, <2>2
<1> QED BY <1>3, UidQuiet

LEMMA UidStore ==
    ASSUME UidInv, TypeOK', NEW t \in Threads, Store(t)
    PROVE  UidInv'
<1> DEFINE h == at[t]
           s == slot[t]
           x == put[t].uid
           y == meta[h][s].uid
<1>1. h \in Groups /\ s \in Slots /\ op[t] = "write" /\ Writing(t)
  BY DEF UidInv, TypeOK, Store, Writing
<1>2. /\ meta' = [meta EXCEPT ![h][s] = put[t]]
      /\ past' = [past EXCEPT ![h] = past[h] \cup ({y} \ {0})]
      /\ op' = [op EXCEPT ![t] = "bump"]
      /\ UNCHANGED <<live, generation, slot, put, at>>
  BY DEF Store
<1>3. x \in Nat /\ y \in Nat /\ generation \in Nat
  <2>1. put[t] \in Occupant \cup {Nobody} /\ meta[h][s] \in Occupant \cup {Nobody}
    BY <1>1 DEF UidInv, TypeOK
  <2> QED BY <2>1, SlotIdentityAssumption DEF Occupant, Nobody, Uids, UidInv, TypeOK
<1>4. x <= generation /\ y <= generation
  BY <1>1 DEF UidInv, UidsBelow
<1>5. x # 0 => /\ x \notin past[h] /\ \A r \in Slots : meta[h][r].uid # x
               /\ \A g \in Groups : g >= h + 1 =>
                     x \notin past[g] /\ \A r \in Slots : meta[g][r].uid # x
  <2>1. NextGroup(t) = h /\ h >= h /\ \A g \in Groups : g >= h + 1 => g >= h
    BY <1>1 DEF NextGroup, Groups
  <2> QED BY <1>1, <2>1 DEF UidInv, UidsAhead
<1>6. 0 \notin past[h]
  BY <1>1 DEF UidInv, TypeOK, Uids
<1> HIDE DEF h, s, y
<1>7. /\ meta'[h][s] = put[t]
      /\ \A g \in Groups, r \in Slots : g # h \/ r # s => meta'[g][r] = meta[g][r]
  BY <1>1, <1>2 DEF UidInv, TypeOK
<1>8. /\ past'[h] = past[h] \cup ({y} \ {0})
      /\ \A g \in Groups : g # h => past'[g] = past[g]
  BY <1>1, <1>2 DEF UidInv, TypeOK
<1>9. op'[t] = "bump" /\ \A u \in Threads : u # t => op'[u] = op[u]
  BY <1>2 DEF UidInv, TypeOK
<1>10. y = meta[h][s].uid
  BY DEF y
<1>11. \A u \in Threads : Writing(u)' <=> Writing(u)
  BY <1>1, <1>9 DEF Writing
<1>12. UidsBelow'
  <2>1. \A g \in Groups, r \in Slots : meta'[g][r].uid <= generation
    BY <1>4, <1>7 DEF UidInv, UidsBelow
  <2>2. \A g \in Groups : \A u \in past'[g] : u <= generation
    BY <1>4, <1>8 DEF UidInv, UidsBelow
  <2> QED BY <1>2, <2>1, <2>2 DEF UidInv, UidsBelow
<1>13. UidNeverReturns'
  <2> SUFFICES ASSUME NEW g \in Groups, NEW r \in Slots PROVE meta'[g][r].uid \notin past'[g]
    BY DEF UidNeverReturns
  <2>1. meta[g][r].uid \notin past[g]
    BY DEF UidInv, UidNeverReturns
  <2>2. CASE g # h
    BY <1>7, <1>8, <2>1, <2>2
  <2>3. CASE g = h /\ r # s
    <3>1. meta[h][r].uid = y => y = 0
      BY <1>1, <1>10, <2>3 DEF UidInv, OneSlotEach
    <3> QED BY <1>7, <1>8, <2>1, <2>3, <3>1
  <2>4. CASE g = h /\ r = s
    <3>1. meta'[g][r].uid = x
      BY <1>7, <2>4
    <3>2. x # 0 => x # y
      BY <1>1, <1>5, <1>10
    <3> HIDE DEF x
    <3> QED BY <1>5, <1>6, <1>8, <2>4, <3>1, <3>2
  <2> QED BY <2>2, <2>3, <2>4
<1>14. OneSlotEach'
  <2> SUFFICES ASSUME NEW g \in Groups, NEW p \in Slots, NEW r \in Slots,
                      meta'[g][p].uid = meta'[g][r].uid, meta'[g][p].uid # 0
               PROVE  p = r
    BY DEF OneSlotEach
  <2>1. CASE g # h
    BY <1>7, <2>1 DEF UidInv, OneSlotEach
  <2>2. CASE g = h
    BY <1>1, <1>5, <1>7, <2>2 DEF UidInv, OneSlotEach
  <2> QED BY <2>1, <2>2
<1>15. OneCallEach'
  BY <1>2, <1>11 DEF UidInv, OneCallEach
<1>16. UidsAhead'
  <2> SUFFICES ASSUME NEW u \in Threads, Writing(u), put[u].uid # 0,
                      NEW g \in Groups, g >= NextGroup(u)'
               PROVE  put[u].uid \notin past'[g] /\ \A r \in Slots : meta'[g][r].uid # put[u].uid
    BY <1>2, <1>11 DEF UidsAhead
  <2>1. CASE u = t
    <3>1. g >= h + 1
      BY <1>2, <1>9, <2>1 DEF NextGroup, h
    <3>2. g # h
      BY <1>1, <3>1 DEF Groups
    <3> QED BY <1>5, <1>7, <1>8, <2>1, <3>1, <3>2
  <2>2. CASE u # t
    <3>1. NextGroup(u)' = NextGroup(u)
      BY <1>2, <1>9, <2>2 DEF NextGroup
    <3>2. put[u].uid \notin past[g] /\ \A r \in Slots : meta[g][r].uid # put[u].uid
      BY <3>1 DEF UidInv, UidsAhead
    <3>3. put[u].uid # put[t].uid
      BY <1>1, <2>2 DEF UidInv, OneCallEach
    <3> QED BY <1>1, <1>7, <1>8, <1>10, <3>2, <3>3
  <2> QED BY <2>1, <2>2
<1> QED BY <1>12, <1>13, <1>14, <1>15, <1>16 DEF UidInv

LEMMA UidNext == UidInv /\ [Next]_vars => UidInv'
<1> SUFFICES ASSUME UidInv, [Next]_vars PROVE UidInv'
  OBVIOUS
<1>1. TypeOK'
  BY TypesKept DEF UidInv
<1>2. ASSUME NEW t \in Threads, NEW s \in Slots, NEW l \in Labels, Assign(t, s, l)
      PROVE  UidInv'
  <2> DEFINE o == [labels |-> l, uid |-> generation']
  <2>1. live' = [live EXCEPT ![s] = o] /\ o.uid = generation' /\ generation' = generation + 1
    BY <1>2 DEF Assign
  <2>2. live'[s] = o
    BY <2>1 DEF UidInv, TypeOK
  <2> HIDE DEF o
  <2>3. Begin(t, s, o) /\ UNCHANGED store /\ ~Writing(t)
    BY <1>2, <2>2 DEF Assign, Writing
  <2>4. o \in Occupant \cup {Nobody}
    BY <1>1, <2>2 DEF TypeOK
  <2> QED BY <1>1, <2>1, <2>3, <2>4, UidBegin
<1>3. ASSUME NEW t \in Threads, NEW s \in Slots, Release(t, s) \/ RetainRelease(t, s)
      PROVE  UidInv'
  <2>1. /\ Begin(t, s, Nobody) /\ UNCHANGED store /\ ~Writing(t)
        /\ live' = [live EXCEPT ![s] = Nobody] /\ generation' = generation
    BY <1>3 DEF Release, RetainRelease, Writing
  <2>2. Nobody \in Occupant \cup {Nobody}
    OBVIOUS
  <2> QED BY <1>1, <2>1, <2>2, UidBegin
<1>4. ASSUME NEW t \in Threads, NEW rejected \in SUBSET Slots, Judge(t, rejected)
      PROVE  UidInv'
  <2>1. \A u \in Threads : Writing(u)' => Writing(u) /\ NextGroup(u)' = NextGroup(u)
    BY <1>4 DEF Judge, Writing, NextGroup, UidInv, TypeOK
  <2> QED BY <1>1, <1>4, <2>1, UidQuiet DEF Judge, store
<1>5. ASSUME NEW t \in Threads, RetainDone(t) PROVE UidInv'
  <2>1. \A u \in Threads : Writing(u)' => Writing(u) /\ NextGroup(u)' = NextGroup(u)
    BY <1>5 DEF RetainDone, Writing, NextGroup, UidInv, TypeOK
  <2> QED BY <1>1, <1>5, <2>1, UidQuiet DEF RetainDone, store
<1>6. ASSUME NEW t \in Threads, Store(t) PROVE UidInv'
  BY <1>1, <1>6, UidStore
<1>7. ASSUME NEW t \in Threads, Bump(t) PROVE UidInv'
  BY <1>1, <1>7, UidAdvance DEF Bump, Writing
<1>8. ASSUME NEW t \in Threads, StoreNothing(t) PROVE UidInv'
  <2>1. put[t].uid = 0
    BY <1>8 DEF StoreNothing, Mutates, Nobody
  <2> QED BY <1>1, <1>8, <2>1, UidAdvance DEF StoreNothing, Writing, store
<1>9. CASE UNCHANGED vars
  <2>1. \A u \in Threads : Writing(u)' => Writing(u) /\ NextGroup(u)' = NextGroup(u)
    BY <1>9 DEF Writing, NextGroup, vars, calls
  <2> QED BY <1>1, <1>9, <2>1, UidQuiet DEF vars, store, calls
<1> QED BY <1>2, <1>3, <1>4, <1>5, <1>6, <1>7, <1>8, <1>9 DEF Next, Step

LEMMA UidStart == Init => UidInv
<1> SUFFICES ASSUME Init PROVE UidInv
  OBVIOUS
<1>1. TypeOK /\ \A t \in Threads : ~Writing(t)
  BY TypesInit DEF Init, Writing
<1>2. UidNeverReturns /\ UidsBelow
  BY DEF Init, UidNeverReturns, UidsBelow, Nobody
<1>3. OneSlotEach /\ OneCallEach /\ UidsAhead
  BY <1>1 DEF Init, OneSlotEach, OneCallEach, UidsAhead, Nobody
<1> QED BY <1>1, <1>2, <1>3 DEF UidInv

\* No group ever holds a uid again that it gave up, however the calls of any
\* number of threads overlap.
THEOREM NoUidReturns == Spec => []UidNeverReturns
<1>1. UidInv => UidNeverReturns
  BY DEF UidInv
<1> QED BY <1>1, UidStart, UidNext, PTL DEF Spec

-----------------------------------------------------------------------------
(***************************************************************************)
(* Theorems about LongBuilder, for any metrics, slots, producers' calls    *)
(* and number of builds.                                                   *)
(*                                                                         *)
(* KeysInv: whatever the builder keeps of a slot was served under its key, *)
(* and keys not yet given are above those that were.                       *)
(***************************************************************************)

LEMMA BuilderTypesInit == LBInit => LBTypeOK
<1> SUFFICES ASSUME LBInit PROVE LBTypeOK
  OBVIOUS
<1>1. TypeOK
  BY TypesInit DEF LBInit
<1>2. 1 \in Metrics /\ 0 \in 0..MaxBuilds
  BY SlotIdentityAssumption, LongBuilderAssumption DEF Metrics, Groups
<1> QED BY <1>1, <1>2 DEF LBInit, LBTypeOK

LEMMA ReadVersionTypes ==
    ASSUME LBTypeOK, NEW m \in Metrics, ReadVersion(m)
    PROVE  unchanged' \in BOOLEAN /\ readVersions' \in [Metrics -> Nat \cup {NoVersion}]
<1>1. version[m] \in Nat
  BY DEF LBTypeOK, TypeOK, Metrics
<1>2. unchanged' \in BOOLEAN
  BY DEF ReadVersion
<1> QED BY <1>1, <1>2 DEF LBTypeOK, ReadVersion

\* A slot is served what the builder kept of it, or what the metadata says
\* under the key it kept or a new one.
LEMMA ServedTypes ==
    ASSUME LBTypeOK, NEW s \in Slots, NEW o \in Occupant \cup {Nobody}
    PROVE  /\ SlotOccupantOf(o, slots[s]) \in SlotOccupant
           /\ \/ SlotOccupantOf(o, slots[s]) = slots[s] /\ slots[s] # NoOccupant
              \/ SlotOccupantOf(o, slots[s]).key = nextKey
           /\ SlotOccupantOf(o, slots[s]).occ = o
           /\ slots[s] # NoOccupant => slots[s] \in SlotOccupant
<1>1. slots[s] \in SlotOccupant \cup {NoOccupant} /\ nextKey \in Nat
  BY DEF LBTypeOK
<1>2. [key |-> nextKey, occ |-> o] \in SlotOccupant
  BY <1>1 DEF SlotOccupant
<1> QED BY <1>1, <1>2 DEF SlotOccupantOf

LEMMA ServeTypes ==
    ASSUME LBTypeOK, NEW s \in Slots, NEW o \in SlotOccupant, Serve(s, o)
    PROVE  /\ slots' \in [Slots -> SlotOccupant \cup {NoOccupant}]
           /\ position' \in [Slots -> SlotOccupant \cup {NoOccupant}]
           /\ nextKey' \in Nat
           /\ named' \subseteq [key : Nat, slot : Slots, occ : Occupant \cup {Nobody}]
           /\ slots' = [slots EXCEPT ![s] = o] /\ position' = [position EXCEPT ![s] = o]
<1>1. o.key \in Nat /\ o.occ \in Occupant \cup {Nobody}
  BY DEF SlotOccupant
<1>2. [key |-> o.key, slot |-> s, occ |-> o.occ]
         \in [key : Nat, slot : Slots, occ : Occupant \cup {Nobody}]
  BY <1>1
<1>3. nextKey' \in Nat
  BY DEF Serve, LBTypeOK
<1>4. named' \subseteq [key : Nat, slot : Slots, occ : Occupant \cup {Nobody}]
  BY <1>2 DEF Serve, LBTypeOK
<1> QED BY <1>3, <1>4 DEF Serve, LBTypeOK

LEMMA MetadataTypes ==
    ASSUME LBTypeOK
    PROVE  /\ metric \in Metrics /\ metric \in Groups
           /\ \A m \in Metrics, s \in Slots : meta[m][s] \in Occupant \cup {Nobody}
           /\ \A m \in Metrics : version[m] \in Nat /\ versions[m] \in Int
                                 /\ readVersions[m] \in Int /\ locked[m] \in BOOLEAN
  BY DEF LBTypeOK, TypeOK, Metrics, NoVersion

\* The ways a member is walked.
LEMMA WalkCases ==
    ASSUME LBTypeOK, NEW s \in Slots, Walk(s)
    PROVE  /\ stage = "walk" /\ s \in members /\ members' = members \ {s}
           /\ UNCHANGED <<vars, membership, versions, stage, metric, unchanged, readVersions,
                          builds, quiet>>
           /\ \/ UNCHANGED <<slots, position, nextKey, named>>
                 /\ (membership[metric] = "Present" \/ position[s] # NoOccupant)
              \/ /\ position[s] = NoOccupant /\ unchanged
                 /\ slots[s] \in SlotOccupant /\ Serve(s, slots[s])
              \/ /\ position[s] = NoOccupant /\ ~locked[metric]
                 /\ SlotOccupantOf(meta[metric][s], slots[s]) \in SlotOccupant
                 /\ Serve(s, SlotOccupantOf(meta[metric][s], slots[s]))
<1>1. meta[metric][s] \in Occupant \cup {Nobody}
  BY MetadataTypes
<1>2. /\ SlotOccupantOf(meta[metric][s], slots[s]) \in SlotOccupant
      /\ slots[s] # NoOccupant => slots[s] \in SlotOccupant
  BY <1>1, ServedTypes
<1> QED BY <1>2 DEF Walk

LEMMA BuilderTypesStep == LBTypeOK /\ [LBNext]_allVars => LBTypeOK'
<1> SUFFICES ASSUME LBTypeOK, [LBNext]_allVars PROVE LBTypeOK'
  OBVIOUS
<1>1. CASE BuildStart
  <2>1. 1 \in Metrics /\ builds' \in 0..MaxBuilds
    BY <1>1, SlotIdentityAssumption, LongBuilderAssumption
       DEF Metrics, Groups, BuildStart, LBTypeOK
  <2>2. TypeOK' /\ quiet' \in BOOLEAN
    BY <1>1 DEF BuildStart, LBTypeOK, TypeOK, vars, store, calls, Idle
  <2>3. unchanged' \in BOOLEAN /\ readVersions' \in [Metrics -> Nat \cup {NoVersion}]
    BY <1>1, <2>1, ReadVersionTypes DEF BuildStart
  <2> QED BY <1>1, <2>1, <2>2, <2>3 DEF BuildStart, LBTypeOK, state
<1>2. CASE ReadMembers
  <2>1. members' \subseteq Slots
    BY <1>2 DEF ReadMembers, Listed, ListedBy
  <2>2. TypeOK'
    BY <1>2 DEF ReadMembers, LBTypeOK, TypeOK, vars, store, calls
  <2> QED BY <1>2, <2>1, <2>2 DEF ReadMembers, LBTypeOK, state
<1>3. ASSUME NEW s \in Slots, Walk(s) PROVE LBTypeOK'
  <2>1. TypeOK'
    BY <1>3 DEF Walk, LBTypeOK, TypeOK, vars, store, calls
  <2>2. /\ slots' \in [Slots -> SlotOccupant \cup {NoOccupant}]
        /\ position' \in [Slots -> SlotOccupant \cup {NoOccupant}]
        /\ nextKey' \in Nat
        /\ named' \subseteq [key : Nat, slot : Slots, occ : Occupant \cup {Nobody}]
    <3>1. CASE UNCHANGED <<slots, position, nextKey, named>>
      BY <3>1 DEF LBTypeOK
    <3>2. ASSUME NEW o \in SlotOccupant, Serve(s, o)
          PROVE  /\ slots' \in [Slots -> SlotOccupant \cup {NoOccupant}]
                 /\ position' \in [Slots -> SlotOccupant \cup {NoOccupant}]
                 /\ nextKey' \in Nat
                 /\ named' \subseteq [key : Nat, slot : Slots, occ : Occupant \cup {Nobody}]
      BY <3>2, ServeTypes
    <3> QED BY <1>3, <3>1, <3>2, WalkCases
  <2>3. members' \subseteq Slots
    BY <1>3 DEF Walk, LBTypeOK
  <2> QED BY <1>3, <2>1, <2>2, <2>3 DEF Walk, LBTypeOK
<1>4. CASE NextMetric
  <2>1. metric + 1 \in Metrics
    BY <1>4, SlotIdentityAssumption DEF NextMetric, LBTypeOK, Metrics, Groups
  <2>2. unchanged' \in BOOLEAN /\ readVersions' \in [Metrics -> Nat \cup {NoVersion}]
    BY <1>4, <2>1, ReadVersionTypes DEF NextMetric
  <2>3. TypeOK'
    BY <1>4 DEF NextMetric, LBTypeOK, TypeOK, vars, store, calls
  <2> QED BY <1>4, <2>1, <2>2, <2>3 DEF NextMetric, LBTypeOK, state
<1>5. CASE BuildDone
  <2>1. TypeOK'
    BY <1>5 DEF BuildDone, LBTypeOK, TypeOK, vars, store, calls
  <2> QED BY <1>5, <2>1 DEF BuildDone, LBTypeOK, KeptVersions, Retained
<1>6. CASE Produce
  <2>1. TypeOK'
    BY <1>6, TypesKept DEF Produce, LBTypeOK
  <2> QED BY <1>6, <2>1 DEF Produce, LBTypeOK, builderVars, state, acc
<1>7. CASE UNCHANGED allVars
  <2>1. TypeOK'
    BY <1>7, TypesKept DEF allVars, LBTypeOK
  <2> QED BY <1>7, <2>1 DEF allVars, LBTypeOK, builderVars, state, acc
<1> QED BY <1>1, <1>2, <1>3, <1>4, <1>5, <1>6, <1>7 DEF LBNext, Build

Served(s, o) == [key |-> o.key, slot |-> s, occ |-> o.occ]
KeysInv ==
    /\ KeyNamesOneOccupant
    /\ \A x \in named : x.key < nextKey
    /\ \A s \in Slots : slots[s] # NoOccupant => Served(s, slots[s]) \in named
    /\ \A s \in Slots : position[s] # NoOccupant => Served(s, position[s]) \in named

LEMMA KeysServed ==
    ASSUME LBTypeOK, KeysInv, NEW s \in Slots, NEW o \in SlotOccupant, Serve(s, o),
           Served(s, o) \in named \/ o.key = nextKey
    PROVE  KeysInv'
<1>1. /\ slots' = [slots EXCEPT ![s] = o] /\ position' = [position EXCEPT ![s] = o]
      /\ named' = named \cup {Served(s, o)}
      /\ nextKey' = IF o.key = nextKey THEN nextKey + 1 ELSE nextKey
      /\ slots \in [Slots -> SlotOccupant \cup {NoOccupant}]
      /\ position \in [Slots -> SlotOccupant \cup {NoOccupant}]
      /\ nextKey \in Nat /\ \A x \in named : x.key \in Nat
  BY DEF Serve, LBTypeOK, Served
<1>2. Served(s, o).key = o.key /\ o.key \in Nat
  BY DEF Served, SlotOccupant
<1>3. \A x \in named : x.key < nextKey
  BY DEF KeysInv
<1> DEFINE n == Served(s, o)
<1>n. n = Served(s, o)
  OBVIOUS
<1> HIDE DEF n
<1>4. CASE n \in named
  <2>1. named' = named /\ nextKey' = nextKey
    BY <1>1, <1>2, <1>3, <1>4, <1>n
  <2>2. \A r \in Slots : /\ slots'[r] # NoOccupant => Served(r, slots'[r]) \in named
                         /\ position'[r] # NoOccupant => Served(r, position'[r]) \in named
    BY <1>1, <1>4, <1>n DEF KeysInv
  <2> QED BY <2>1, <2>2 DEF KeysInv, KeyNamesOneOccupant, Served
<1>5. CASE o.key = nextKey
  <2>1. nextKey' = nextKey + 1 /\ named' = named \cup {n} /\ n.key = nextKey
    BY <1>1, <1>2, <1>5, <1>n
  <2>2. \A x \in named' : x.key < nextKey'
    BY <1>1, <1>3, <2>1
  <2>3. \A x, y \in named' : x.key = y.key => x = y
    <3> SUFFICES ASSUME NEW x \in named', NEW y \in named', x.key = y.key PROVE x = y
      OBVIOUS
    <3>1. x \in named => x.key # nextKey
      BY <1>1, <1>3
    <3>2. y \in named => y.key # nextKey
      BY <1>1, <1>3
    <3> QED BY <2>1, <3>1, <3>2 DEF KeysInv, KeyNamesOneOccupant
  <2>4. \A r \in Slots : /\ slots'[r] # NoOccupant => Served(r, slots'[r]) \in named'
                         /\ position'[r] # NoOccupant => Served(r, position'[r]) \in named'
    BY <1>1, <2>1, <1>n DEF KeysInv
  <2> QED BY <2>2, <2>3, <2>4 DEF KeysInv, KeyNamesOneOccupant, Served
<1> QED BY <1>4, <1>5, <1>n

LEMMA KeysStep == LBTypeOK /\ KeysInv /\ [LBNext]_allVars => KeysInv'
<1> SUFFICES ASSUME LBTypeOK, KeysInv, [LBNext]_allVars PROVE KeysInv'
  OBVIOUS
<1>1. CASE UNCHANGED <<slots, position, nextKey, named>>
  BY <1>1 DEF KeysInv, KeyNamesOneOccupant, Served
<1>2. CASE UNCHANGED <<slots, nextKey, named>> /\ \A s \in Slots : position'[s] = NoOccupant
  BY <1>2 DEF KeysInv, KeyNamesOneOccupant, Served
<1>3. CASE UNCHANGED <<position, nextKey, named>> /\ slots' \in {slots, position}
  BY <1>3 DEF KeysInv, KeyNamesOneOccupant, Served
<1>4. ASSUME NEW s \in Slots, Walk(s) PROVE KeysInv'
  <2>1. meta[metric][s] \in Occupant \cup {Nobody}
    BY MetadataTypes
  <2> DEFINE o == SlotOccupantOf(meta[metric][s], slots[s])
  <2>2. (o = slots[s] /\ slots[s] # NoOccupant) \/ o.key = nextKey
    BY <2>1, ServedTypes
  <2>3. slots[s] # NoOccupant => Served(s, slots[s]) \in named
    BY DEF KeysInv
  <2>4. slots[s] \in SlotOccupant => slots[s] # NoOccupant
    BY DEF SlotOccupant, NoOccupant
  <2>5. CASE slots[s] \in SlotOccupant /\ Serve(s, slots[s])
    BY <2>3, <2>4, <2>5, KeysServed
  <2>6. CASE o \in SlotOccupant /\ Serve(s, o)
    <3> HIDE DEF o
    <3> QED BY <2>2, <2>3, <2>6, KeysServed
  <2> QED BY <1>1, <1>4, <2>5, <2>6, WalkCases
<1>5. CASE BuildStart \/ ReadMembers \/ NextMetric \/ BuildDone
  BY <1>1, <1>2, <1>3, <1>5 DEF BuildStart, ReadMembers, NextMetric, BuildDone, Retained, state
<1>6. CASE Produce \/ UNCHANGED allVars
  BY <1>1, <1>6 DEF Produce, allVars, builderVars, state, acc
<1> QED BY <1>4, <1>5, <1>6 DEF LBNext, Build

\* A key that the long form serves names one occupant of one slot for the
\* life of the builder, however its builds and the producer's calls
\* interleave, and whatever the memberships are (the doc of LongMember.key).
THEOREM KeysNameOneOccupant == LBSpec => []KeyNamesOneOccupant
<1>1. LBInit => LBTypeOK /\ KeysInv
  <2>1. LBInit => KeysInv
    BY DEF LBInit, KeysInv, KeyNamesOneOccupant
  <2> QED BY <2>1, BuilderTypesInit
<1>2. LBTypeOK /\ KeysInv /\ [LBNext]_allVars => (LBTypeOK /\ KeysInv)'
  BY BuilderTypesStep, KeysStep
<1>3. KeysInv => KeyNamesOneOccupant
  BY DEF KeysInv
<1> QED BY <1>1, <1>2, <1>3, PTL DEF LBSpec

-----------------------------------------------------------------------------
(***************************************************************************)
(* What a build serves, where the metrics are all walked alike and none    *)
(* under Present.  The first metric decides: whoever else serves a slot    *)
(* does so because the first did not list it.  So of what is kept of a     *)
(* slot it matters only what the first metric says of it now, if it has    *)
(* not been written since the build that served it read its version.       *)
(***************************************************************************)

Unmoved(v) == v = version[1] /\ ~locked[1]

\* What a build with this version of the first metric kept of a slot.
Right(o, v, s) ==
    Unmoved(v) /\ o # NoOccupant =>
        o.occ = meta[1][s] \/ (membership[1] = "Slots" /\ meta[1][s] = Nobody)

Alike == \E w \in {"All", "Slots"} : \A m \in Metrics : membership[m] = w
Passed(s) == metric > 1 \/ (stage = "walk" /\ s \notin members)

VersionsBehind ==
    \A m \in Metrics : versions[m] <= version[m] /\ readVersions[m] <= version[m]
LocksHeld == \A g \in Groups : locked[g] => \E t \in Threads : op[t] = "bump" /\ at[t] = g

Kept ==
    \A s \in Slots :
        /\ stage = "idle" \/ position[s] = NoOccupant => Right(slots[s], versions[1], s)
        /\ stage # "idle" =>
              /\ Right(position[s], readVersions[1], s)
              /\ position[s] # NoOccupant => slots[s] = position[s]
              /\ position[s] = NoOccupant /\ Passed(s) =>
                    membership[1] = "Slots" /\ (Unmoved(readVersions[1]) => meta[1][s] = Nobody)

Undisturbed ==
    /\ stage # "idle" /\ metric = 1 /\ unchanged => versions[1] = readVersions[1]
    /\ quiet =>
        /\ Idle
        /\ stage # "idle" => readVersions[1] = version[1]
        /\ stage = "walk" /\ membership[1] = "Slots" =>
              \A s \in members : meta[metric][s] # Nobody
        /\ \A s \in Slots \ raced : position[s] # NoOccupant => position[s].occ = live[s]

BuilderInv ==
    LBTypeOK /\ AgreeInv /\ Alike /\ VersionsBehind /\ LocksHeld /\ Kept /\ Undisturbed

\* A producer's step: a group's metadata is locked when it is written, and
\* is another version once it is not.
LEMMA GroupsMove ==
    ASSUME TypeOK, [Next]_vars
    PROVE  \A g \in Groups :
              /\ version'[g] >= version[g]
              /\ \/ meta'[g] = meta[g] /\ version'[g] = version[g] /\ locked'[g] = locked[g]
                 \/ locked'[g]
                 \/ version'[g] > version[g]
<1> DEFINE Moves(g) ==
              /\ version'[g] >= version[g]
              /\ \/ meta'[g] = meta[g] /\ version'[g] = version[g] /\ locked'[g] = locked[g]
                 \/ locked'[g]
                 \/ version'[g] > version[g]
<1>1. ASSUME UNCHANGED store, NEW g \in Groups PROVE Moves(g)
  BY <1>1 DEF TypeOK, store
<1>2. ASSUME NEW t \in Threads, Store(t), NEW g \in Groups PROVE Moves(g)
  <2>1. /\ meta' = [meta EXCEPT ![at[t]][slot[t]] = put[t]]
        /\ locked' = [locked EXCEPT ![at[t]] = TRUE] /\ version' = version
        /\ version'[g] >= version[g]
    BY <1>2 DEF Store, TypeOK
  <2>2. CASE g = at[t]
    <3>1. locked'[g]
      BY <2>1, <2>2 DEF TypeOK
    <3> QED BY <2>1, <3>1, Zenon
  <2>3. CASE g # at[t]
    <3>1. locked'[g] = locked[g] /\ meta'[g] = meta[g]
      BY <2>1, <2>3 DEF TypeOK
    <3> QED BY <2>1, <3>1, Zenon
  <2> QED BY <2>2, <2>3
<1>3. ASSUME NEW t \in Threads, Bump(t), NEW g \in Groups PROVE Moves(g)
  <2>1. /\ version' = [version EXCEPT ![at[t]] = version[at[t]] + 1]
        /\ locked' = [locked EXCEPT ![at[t]] = FALSE] /\ meta' = meta
        /\ version[g] \in Nat
    BY <1>3 DEF Bump, TypeOK
  <2>2. CASE g = at[t]
    <3>1. version'[g] = version[g] + 1
      BY <2>1, <2>2 DEF TypeOK
    <3>2. version'[g] > version[g] /\ version'[g] >= version[g]
      BY <2>1, <3>1
    <3> QED BY <3>2, Zenon
  <2>3. CASE g # at[t]
    <3>1. locked'[g] = locked[g] /\ version'[g] = version[g] /\ meta'[g] = meta[g]
      BY <2>1, <2>3 DEF TypeOK
    <3>2. version'[g] >= version[g]
      BY <2>1, <3>1
    <3> QED BY <3>1, <3>2, Zenon
  <2> QED BY <2>2, <2>3
<1>4. UNCHANGED vars => UNCHANGED store
  BY DEF vars
<1>5. ASSUME NEW t \in Threads,
             \/ \E s \in Slots : \/ \E l \in Labels : Assign(t, s, l)
                                 \/ Release(t, s) \/ RetainRelease(t, s)
             \/ \E rejected \in SUBSET Slots : Judge(t, rejected)
             \/ RetainDone(t) \/ StoreNothing(t)
      PROVE  UNCHANGED store
  BY <1>5 DEF Assign, Release, RetainRelease, Judge, RetainDone, StoreNothing
<1> HIDE DEF Moves
<1>6. \A g \in Groups : Moves(g)
  BY <1>1, <1>2, <1>3, <1>4, <1>5 DEF Next, Step
<1> QED BY <1>6 DEF Moves

LEMMA LocksHeldStep ==
    ASSUME TypeOK, LocksHeld, [Next]_vars
    PROVE  LocksHeld'
<1>1. CASE UNCHANGED <<locked, op, at>>
  BY <1>1 DEF LocksHeld
<1>2. ASSUME NEW t \in Threads, op[t] # "bump", UNCHANGED locked,
             \A u \in Threads : u # t => op'[u] = op[u] /\ at'[u] = at[u]
      PROVE  LocksHeld'
  <2> SUFFICES ASSUME NEW g \in Groups, locked[g]
               PROVE  \E u \in Threads : op'[u] = "bump" /\ at'[u] = g
    BY <1>2 DEF LocksHeld
  <2>1. PICK u \in Threads : op[u] = "bump" /\ at[u] = g
    BY DEF LocksHeld
  <2> QED BY <1>2, <2>1
<1>3. ASSUME NEW t \in Threads, NEW s, NEW o, Begin(t, s, o), op[t] # "bump", UNCHANGED locked
      PROVE  LocksHeld'
  BY <1>2, <1>3 DEF Begin, TypeOK
<1>4. ASSUME NEW t \in Threads, NEW s \in Slots,
             (\E l \in Labels : Assign(t, s, l)) \/ Release(t, s) \/ RetainRelease(t, s)
      PROVE  LocksHeld'
  BY <1>3, <1>4 DEF Assign, Release, RetainRelease, store
<1>5. ASSUME NEW t \in Threads,
             (\E rejected \in SUBSET Slots : Judge(t, rejected)) \/ RetainDone(t)
      PROVE  LocksHeld'
  BY <1>2, <1>5 DEF Judge, RetainDone, store, TypeOK
<1>6. ASSUME NEW t \in Threads, StoreNothing(t) PROVE LocksHeld'
  BY <1>2, <1>6 DEF StoreNothing, Advance, store, TypeOK
<1>7. ASSUME NEW t \in Threads, Store(t) PROVE LocksHeld'
  <2>1. /\ locked' = [locked EXCEPT ![at[t]] = TRUE] /\ op' = [op EXCEPT ![t] = "bump"]
        /\ at' = at /\ op[t] = "write"
    BY <1>7 DEF Store
  <2> SUFFICES ASSUME NEW g \in Groups, locked'[g]
               PROVE  \E u \in Threads : op'[u] = "bump" /\ at'[u] = g
    BY DEF LocksHeld
  <2>2. CASE g = at[t]
    BY <2>1, <2>2 DEF TypeOK
  <2>3. CASE g # at[t]
    <3>1. locked[g]
      BY <2>1, <2>3 DEF TypeOK
    <3>2. PICK u \in Threads : op[u] = "bump" /\ at[u] = g
      BY <3>1 DEF LocksHeld
    <3> QED BY <2>1, <3>2 DEF TypeOK
  <2> QED BY <2>2, <2>3
<1>8. ASSUME NEW t \in Threads, Bump(t) PROVE LocksHeld'
  <2>1. /\ locked' = [locked EXCEPT ![at[t]] = FALSE]
        /\ \A u \in Threads : u # t => op'[u] = op[u] /\ at'[u] = at[u]
    BY <1>8 DEF Bump, Advance, TypeOK
  <2> SUFFICES ASSUME NEW g \in Groups, locked'[g]
               PROVE  \E u \in Threads : op'[u] = "bump" /\ at'[u] = g
    BY DEF LocksHeld
  <2>2. g # at[t] /\ locked[g]
    BY <2>1 DEF TypeOK
  <2>3. PICK u \in Threads : op[u] = "bump" /\ at[u] = g
    BY <2>2 DEF LocksHeld
  <2> QED BY <2>1, <2>2, <2>3
<1>9. CASE UNCHANGED vars
  BY <1>1, <1>9 DEF vars, store, calls
<1> QED BY <1>4, <1>5, <1>6, <1>7, <1>8, <1>9 DEF Next, Step

LEMMA OneIsAMetric == 1 \in Metrics /\ 1 \in Groups
  BY SlotIdentityAssumption DEF Metrics, Groups

\* What a build read of the first metric stands until the producer writes it.
LEMMA StaysUnmoved ==
    ASSUME TypeOK, [Next]_vars, NEW v \in Int, v <= version[1], Unmoved(v)'
    PROVE  Unmoved(v) /\ meta'[1] = meta[1]
<1>1. /\ version'[1] >= version[1]
      /\ \/ meta'[1] = meta[1] /\ version'[1] = version[1] /\ locked'[1] = locked[1]
         \/ locked'[1]
         \/ version'[1] > version[1]
  BY GroupsMove, OneIsAMetric
<1>2. version[1] \in Nat /\ v = version'[1] /\ ~locked'[1]
  BY OneIsAMetric DEF TypeOK, Unmoved
<1> QED BY <1>1, <1>2 DEF Unmoved

LEMMA BuilderProduces ==
    ASSUME BuilderInv, Produce
    PROVE  VersionsBehind' /\ LocksHeld' /\ Kept' /\ Undisturbed'
<1>1. /\ [Next]_vars /\ quiet' = FALSE /\ LBTypeOK /\ TypeOK
      /\ UNCHANGED <<membership, versions, slots, stage, metric, unchanged, readVersions,
                     members, position>>
  BY DEF Produce, BuilderInv, LBTypeOK, builderVars, state, acc
<1>2. LocksHeld'
  BY <1>1, LocksHeldStep DEF BuilderInv
<1>3. VersionsBehind'
  <2> SUFFICES ASSUME NEW m \in Metrics
               PROVE  versions[m] <= version'[m] /\ readVersions[m] <= version'[m]
    BY <1>1 DEF VersionsBehind
  <2>1. version'[m] >= version[m]
    BY <1>1, GroupsMove DEF Metrics
  <2>2. versions[m] <= version[m] /\ readVersions[m] <= version[m]
    BY DEF BuilderInv, VersionsBehind
  <2>3. TypeOK'
    BY <1>1, TypesKept
  <2>4. version[m] \in Nat /\ versions[m] \in Int /\ readVersions[m] \in Int /\ version'[m] \in Nat
    BY <1>1, <2>3, MetadataTypes DEF TypeOK, Metrics
  <2> QED BY <2>1, <2>2, <2>4
<1>4. \A v \in {versions[1], readVersions[1]} :
         Unmoved(v)' => Unmoved(v) /\ meta'[1] = meta[1]
  <2>1. versions[1] \in Int /\ readVersions[1] \in Int
        /\ versions[1] <= version[1] /\ readVersions[1] <= version[1]
    BY <1>1, MetadataTypes, OneIsAMetric DEF BuilderInv, VersionsBehind
  <2> QED BY <1>1, <2>1, StaysUnmoved
<1>5. Kept'
  <2> SUFFICES ASSUME NEW s \in Slots
               PROVE  (/\ stage = "idle" \/ position[s] = NoOccupant => Right(slots[s], versions[1], s)
                       /\ stage # "idle" =>
                             /\ Right(position[s], readVersions[1], s)
                             /\ position[s] # NoOccupant => slots[s] = position[s]
                             /\ position[s] = NoOccupant /\ Passed(s) =>
                                   /\ membership[1] = "Slots"
                                   /\ Unmoved(readVersions[1]) => meta[1][s] = Nobody)'
    BY DEF Kept
  <2>1. /\ stage = "idle" \/ position[s] = NoOccupant => Right(slots[s], versions[1], s)
        /\ stage # "idle" =>
              /\ Right(position[s], readVersions[1], s)
              /\ position[s] # NoOccupant => slots[s] = position[s]
              /\ position[s] = NoOccupant /\ Passed(s) =>
                    /\ membership[1] = "Slots"
                    /\ Unmoved(readVersions[1]) => meta[1][s] = Nobody
    BY DEF BuilderInv, Kept
  <2>2. Passed(s)' <=> Passed(s)
    BY <1>1 DEF Passed
  <2>3. Unmoved(readVersions[1])' => Unmoved(readVersions[1]) /\ meta'[1] = meta[1]
    BY <1>1, <1>4 DEF Unmoved
  <2>4. (stage = "idle" \/ position[s] = NoOccupant => Right(slots[s], versions[1], s))'
    <3>1. Unmoved(versions[1])' => Unmoved(versions[1]) /\ meta'[1] = meta[1]
      BY <1>1, <1>4 DEF Unmoved
    <3> QED BY <1>1, <2>1, <3>1 DEF Right
  <2>5. (stage # "idle" => Right(position[s], readVersions[1], s))'
    BY <1>1, <2>1, <2>3 DEF Right
  <2> QED BY <1>1, <2>1, <2>2, <2>3, <2>4, <2>5
<1>6. Undisturbed'
  BY <1>1 DEF BuilderInv, Undisturbed
<1> QED BY <1>2, <1>3, <1>5, <1>6

\* While no call of the producer runs, nothing is locked, and the metrics
\* agree with `live`.
LEMMA QuietMetadata ==
    ASSUME BuilderInv, quiet
    PROVE  /\ \A g \in Groups : ~locked[g]
           /\ \A s \in Slots \ raced, m \in Metrics : meta[m][s] = live[s]
           /\ stage # "idle" => Unmoved(readVersions[1])
<1>1. Idle
  BY DEF BuilderInv, Undisturbed
<1>2. \A g \in Groups : ~locked[g]
  BY <1>1 DEF BuilderInv, LocksHeld, Idle
<1>3. \A s \in Slots : Settled(s)
  BY <1>1 DEF Idle, Settled, Writing
<1>4. \A s \in Slots \ raced, m \in Metrics : meta[m][s] = live[s]
  BY <1>3 DEF BuilderInv, AgreeInv, GroupsAgree, AgreeOn, Metrics
<1>5. stage # "idle" => Unmoved(readVersions[1])
  BY <1>2, OneIsAMetric DEF BuilderInv, Undisturbed, Unmoved
<1> QED BY <1>2, <1>4, <1>5

LEMMA AlikeIs ==
    ASSUME Alike
    PROVE  /\ \A m \in Metrics : membership[m] = membership[1]
           /\ membership[1] \in {"All", "Slots"}
  BY OneIsAMetric DEF Alike

LEMMA BuilderStarts ==
    ASSUME BuilderInv, BuildStart
    PROVE  VersionsBehind' /\ Kept' /\ Undisturbed'
<1>1. /\ UNCHANGED <<vars, membership, slots, versions>> /\ stage = "idle"
      /\ stage' = "members" /\ metric' = 1 /\ quiet' = Idle
      /\ \A s \in Slots : position'[s] = NoOccupant
      /\ unchanged' = (versions[1] = version[1])
      /\ readVersions' = [readVersions EXCEPT ![1] = version[1]]
      /\ readVersions \in [Metrics -> Nat \cup {NoVersion}]
  BY DEF BuildStart, ReadVersion, state, BuilderInv, LBTypeOK
<1>2. /\ UNCHANGED <<live, version, locked, meta, op, raced>>
  BY <1>1 DEF vars, store, calls
<1>3. readVersions'[1] = version[1] /\ version[1] \in Nat
      /\ \A m \in Metrics : m # 1 => readVersions'[m] = readVersions[m]
  BY <1>1, OneIsAMetric, MetadataTypes DEF BuilderInv
<1>4. VersionsBehind'
  <2> SUFFICES ASSUME NEW m \in Metrics
               PROVE  versions[m] <= version[m] /\ readVersions'[m] <= version[m]
    BY <1>1, <1>2 DEF VersionsBehind
  <2>1. versions[m] <= version[m] /\ readVersions[m] <= version[m]
    BY DEF BuilderInv, VersionsBehind
  <2> QED BY <1>3, <2>1
<1>5. Kept'
  <2>1. \A s \in Slots : Right(slots[s], versions[1], s)
    BY <1>1 DEF BuilderInv, Kept
  <2>2. \A s \in Slots : (Right(slots[s], versions[1], s))'
    BY <1>1, <1>2, <2>1 DEF Right, Unmoved
  <2>3. \A s \in Slots : ~Passed(s)' /\ Right(position[s], readVersions[1], s)'
    BY <1>1 DEF Passed, Right
  <2> QED BY <1>1, <2>2, <2>3 DEF Kept
<1>6. Undisturbed'
  <2>1. Idle' <=> Idle
    BY <1>2 DEF Idle
  <2> QED BY <1>1, <1>2, <1>3, <2>1 DEF Undisturbed
<1> QED BY <1>4, <1>5, <1>6

LEMMA BuilderReadsMembers ==
    ASSUME BuilderInv, ReadMembers
    PROVE  VersionsBehind' /\ Kept' /\ Undisturbed'
<1>1. /\ UNCHANGED <<vars, membership, slots, versions, metric, unchanged, readVersions,
                     position, quiet>>
      /\ stage = "members" /\ stage' = "walk" /\ members' = Listed
  BY DEF ReadMembers, state
<1>2. UNCHANGED <<live, version, locked, meta, op, raced>>
  BY <1>1 DEF vars, store, calls
<1>3. VersionsBehind'
  BY <1>1, <1>2 DEF BuilderInv, VersionsBehind
<1>4. /\ metric \in Metrics /\ membership[metric] = membership[1]
      /\ membership[1] # "Slots" => members' = Slots
      /\ membership[1] = "Slots" => members' = {s \in Slots : meta[metric][s] # Nobody}
  BY <1>1, AlikeIs, MetadataTypes DEF BuilderInv, Listed, ListedBy
<1>5. Kept'
  <2>1. \A s \in Slots :
           /\ position[s] = NoOccupant => Right(slots[s], versions[1], s)
           /\ Right(position[s], readVersions[1], s)
           /\ position[s] # NoOccupant => slots[s] = position[s]
           /\ position[s] = NoOccupant /\ metric > 1 =>
                 membership[1] = "Slots" /\ (Unmoved(readVersions[1]) => meta[1][s] = Nobody)
    BY <1>1 DEF BuilderInv, Kept, Passed
  <2>2. \A s \in Slots : Passed(s)' =>
           metric > 1 \/ (membership[1] = "Slots" /\ meta[1][s] = Nobody)
    <3> SUFFICES ASSUME NEW s \in Slots, Passed(s)', ~(metric > 1)
                 PROVE  membership[1] = "Slots" /\ meta[1][s] = Nobody
      OBVIOUS
    <3>1. s \notin members' /\ metric = 1
      BY <1>1, MetadataTypes DEF Passed, BuilderInv, Metrics, Groups
    <3> QED BY <1>4, <3>1
  <2> QED BY <1>1, <1>2, <2>1, <2>2 DEF Kept, Right, Unmoved
<1>6. Undisturbed'
  <2>1. Idle' <=> Idle
    BY <1>2 DEF Idle
  <2> QED BY <1>1, <1>2, <1>4, <2>1 DEF BuilderInv, Undisturbed
<1> QED BY <1>3, <1>5, <1>6

LEMMA BuilderGoesOn ==
    ASSUME BuilderInv, NextMetric
    PROVE  VersionsBehind' /\ Kept' /\ Undisturbed'
<1>1. /\ UNCHANGED <<vars, membership, slots, versions, position, quiet, members>>
      /\ stage = "walk" /\ stage' = "members" /\ members = {} /\ metric' = metric + 1
      /\ metric \in Nat \ {0} /\ metric + 1 \in Metrics
      /\ readVersions' = [readVersions EXCEPT ![metric + 1] = version[metric + 1]]
      /\ readVersions \in [Metrics -> Nat \cup {NoVersion}]
  BY SlotIdentityAssumption, MetadataTypes
     DEF NextMetric, ReadVersion, state, BuilderInv, LBTypeOK, Metrics, Groups
<1>2. UNCHANGED <<live, version, locked, meta, op, raced>>
  BY <1>1 DEF vars, store, calls
<1>3. /\ readVersions'[1] = readVersions[1] /\ metric' # 1
      /\ \A m \in Metrics : readVersions'[m] \in {readVersions[m], version[m]}
  BY <1>1, OneIsAMetric
<1>4. VersionsBehind'
  <2> SUFFICES ASSUME NEW m \in Metrics
               PROVE  versions[m] <= version[m] /\ readVersions'[m] <= version[m]
    BY <1>1, <1>2 DEF VersionsBehind
  <2>1. versions[m] <= version[m] /\ readVersions[m] <= version[m]
    BY DEF BuilderInv, VersionsBehind
  <2>2. version[m] \in Nat
    BY MetadataTypes DEF BuilderInv
  <2> QED BY <1>3, <2>1, <2>2
<1>5. Kept'
  <2>1. \A s \in Slots : Passed(s)
    BY <1>1 DEF Passed
  <2>2. \A s \in Slots :
           /\ position[s] = NoOccupant => Right(slots[s], versions[1], s)
           /\ Right(position[s], readVersions[1], s)
           /\ position[s] # NoOccupant => slots[s] = position[s]
           /\ position[s] = NoOccupant =>
                 membership[1] = "Slots" /\ (Unmoved(readVersions[1]) => meta[1][s] = Nobody)
    BY <1>1, <2>1 DEF BuilderInv, Kept
  <2> QED BY <1>1, <1>2, <1>3, <2>2 DEF Kept, Right, Unmoved
<1>6. Undisturbed'
  <2>1. Idle' <=> Idle
    BY <1>2 DEF Idle
  <2> QED BY <1>1, <1>2, <1>3, <2>1 DEF BuilderInv, Undisturbed
<1> QED BY <1>4, <1>5, <1>6

LEMMA BuilderEnds ==
    ASSUME BuilderInv, BuildDone
    PROVE  VersionsBehind' /\ Kept' /\ Undisturbed'
<1>1. /\ UNCHANGED <<vars, membership, readVersions, position, quiet, members>>
      /\ stage = "walk" /\ stage' = "idle" /\ members = {}
      /\ versions' = readVersions /\ slots' = Retained
  BY DEF BuildDone, KeptVersions
<1>2. UNCHANGED <<live, version, locked, meta, op, raced>>
  BY <1>1 DEF vars, store, calls
<1>3. VersionsBehind'
  BY <1>1, <1>2 DEF BuilderInv, VersionsBehind
<1>4. Retained = IF membership[1] = "Slots" THEN position ELSE slots
  BY AlikeIs, OneIsAMetric DEF BuilderInv, Retained
<1>5. Kept'
  <2> SUFFICES ASSUME NEW s \in Slots PROVE Right(slots'[s], readVersions[1], s)
    BY <1>1, <1>2 DEF Kept, Right, Unmoved
  <2>1. /\ Right(position[s], readVersions[1], s)
        /\ position[s] # NoOccupant => slots[s] = position[s]
        /\ position[s] = NoOccupant => membership[1] = "Slots"
    BY <1>1 DEF BuilderInv, Kept, Passed
  <2>2. slots'[s] = position[s]
    BY <1>1, <1>4, <2>1
  <2> QED BY <2>1, <2>2
<1>6. Undisturbed'
  <2>1. Idle' <=> Idle
    BY <1>2 DEF Idle
  <2> QED BY <1>1, <1>2, <2>1 DEF BuilderInv, Undisturbed
<1> QED BY <1>3, <1>5, <1>6

\* What a walk serves is right, and is the slot's occupant in a build that is
\* not disturbed.
LEMMA ServedRight ==
    ASSUME BuilderInv, NEW s \in Slots, s \in members, stage = "walk",
           position[s] = NoOccupant, NEW o \in SlotOccupant,
           \/ o = slots[s] /\ unchanged
           \/ o.occ = meta[metric][s]
    PROVE  /\ Right(o, readVersions[1], s)
           /\ quiet /\ s \notin raced => o.occ = live[s]
<1>1. metric \in Metrics /\ metric \in Nat /\ metric >= 1
  BY MetadataTypes DEF BuilderInv, Metrics, Groups
<1>2. Right(o, readVersions[1], s)
  <2>1. CASE metric = 1
    <3>1. CASE o = slots[s] /\ unchanged
      BY <2>1, <3>1 DEF BuilderInv, Kept, Undisturbed
    <3>2. CASE o.occ = meta[metric][s]
      BY <2>1, <3>2 DEF Right
    <3> QED BY <3>1, <3>2
  <2>2. CASE metric # 1
    <3>1. Passed(s)
      BY <1>1, <2>2 DEF Passed
    <3>2. membership[1] = "Slots" /\ (Unmoved(readVersions[1]) => meta[1][s] = Nobody)
      BY <3>1 DEF BuilderInv, Kept
    <3> QED BY <3>2 DEF Right
  <2> QED BY <2>1, <2>2
<1>3. ASSUME quiet, s \notin raced PROVE o.occ = live[s]
  <2>1. Unmoved(readVersions[1]) /\ meta[metric][s] = live[s] /\ meta[1][s] = live[s]
    BY <1>1, <1>3, QuietMetadata, OneIsAMetric
  <2>2. o # NoOccupant
    BY DEF SlotOccupant, NoOccupant
  <2>3. o.occ = meta[1][s] \/ (membership[1] = "Slots" /\ meta[1][s] = Nobody)
    BY <1>2, <2>1, <2>2 DEF Right
  <2>4. membership[1] = "Slots" => meta[metric][s] # Nobody
    BY <1>3 DEF BuilderInv, Undisturbed
  <2> QED BY <2>1, <2>3, <2>4
<1> QED BY <1>2, <1>3

LEMMA BuilderWalks ==
    ASSUME BuilderInv, NEW s \in Slots, Walk(s)
    PROVE  VersionsBehind' /\ Kept' /\ Undisturbed'
<1>1. /\ LBTypeOK /\ stage = "walk" /\ s \in members /\ members' = members \ {s}
      /\ UNCHANGED <<vars, membership, versions, stage, metric, unchanged, readVersions, quiet>>
  BY WalkCases DEF BuilderInv
<1>2. UNCHANGED <<live, version, locked, meta, op, raced>>
  BY <1>1 DEF vars, store, calls
<1>3. VersionsBehind'
  BY <1>1, <1>2 DEF BuilderInv, VersionsBehind
<1>4. membership[metric] # "Present"
  BY <1>1, AlikeIs, MetadataTypes DEF BuilderInv
<1>5. \A r \in Slots : r # s => (Passed(r)' <=> Passed(r))
  BY <1>1 DEF Passed
<1>6. (Idle' <=> Idle) /\ \A o, r : Right(o, versions[1], r)' <=> Right(o, versions[1], r)
  BY <1>1, <1>2 DEF Idle, Right, Unmoved
<1>7. \A o, r : Right(o, readVersions[1], r)' <=> Right(o, readVersions[1], r)
  BY <1>1, <1>2 DEF Right, Unmoved
<1>8. (Unmoved(readVersions[1]))' <=> Unmoved(readVersions[1])
  BY <1>1, <1>2 DEF Unmoved
<1>9. \A r \in Slots :
         /\ position[r] = NoOccupant => Right(slots[r], versions[1], r)
         /\ Right(position[r], readVersions[1], r)
         /\ position[r] # NoOccupant => slots[r] = position[r]
         /\ position[r] = NoOccupant /\ Passed(r) =>
               membership[1] = "Slots" /\ (Unmoved(readVersions[1]) => meta[1][r] = Nobody)
  BY <1>1 DEF BuilderInv, Kept
<1>10. CASE UNCHANGED <<slots, position>> /\ position[s] # NoOccupant
  <2>1. Kept'
    <3>1. \A r \in Slots : position[r] = NoOccupant => (Passed(r)' <=> Passed(r))
      BY <1>5, <1>10
    <3> QED BY <1>1, <1>2, <1>8, <1>9, <1>10, <3>1 DEF Kept, Right, Unmoved
  <2>2. Undisturbed'
    BY <1>1, <1>2, <1>6, <1>10 DEF BuilderInv, Undisturbed
  <2> QED BY <1>3, <2>1, <2>2
<1>11. ASSUME NEW o \in SlotOccupant, Serve(s, o), position[s] = NoOccupant,
              (o = slots[s] /\ unchanged) \/ o.occ = meta[metric][s]
       PROVE  Kept' /\ Undisturbed'
  <2>1. /\ slots' = [slots EXCEPT ![s] = o] /\ position' = [position EXCEPT ![s] = o]
        /\ slots \in [Slots -> SlotOccupant \cup {NoOccupant}]
        /\ position \in [Slots -> SlotOccupant \cup {NoOccupant}]
    BY <1>1, <1>11, ServeTypes DEF LBTypeOK
  <2>2. slots'[s] = o /\ position'[s] = o
        /\ \A r \in Slots : r # s => slots'[r] = slots[r] /\ position'[r] = position[r]
    BY <2>1
  <2>3. o # NoOccupant
    BY DEF SlotOccupant, NoOccupant
  <2>4. Right(o, readVersions[1], s) /\ (quiet /\ s \notin raced => o.occ = live[s])
    BY <1>1, <1>11, ServedRight
  <2>5. Kept'
    <3> SUFFICES ASSUME NEW r \in Slots
                 PROVE  /\ position'[r] = NoOccupant => Right(slots'[r], versions[1], r)
                        /\ Right(position'[r], readVersions[1], r)
                        /\ position'[r] # NoOccupant => slots'[r] = position'[r]
                        /\ position'[r] = NoOccupant /\ Passed(r)' =>
                              /\ membership[1] = "Slots"
                              /\ Unmoved(readVersions[1]) => meta[1][r] = Nobody
      BY <1>1, <1>2, <1>8 DEF Kept, Right, Unmoved
    <3>1. CASE r = s
      BY <2>2, <2>3, <2>4, <3>1
    <3>2. CASE r # s
      BY <1>5, <1>9, <2>2, <3>2
    <3> QED BY <3>1, <3>2
  <2>6. Undisturbed'
    <3>1. quiet => \A r \in Slots \ raced : position'[r] # NoOccupant => position'[r].occ = live[r]
      BY <2>2, <2>4 DEF BuilderInv, Undisturbed
    <3> QED BY <1>1, <1>2, <1>6, <3>1 DEF BuilderInv, Undisturbed
  <2> QED BY <2>5, <2>6
<1>12. SlotOccupantOf(meta[metric][s], slots[s]).occ = meta[metric][s]
  BY <1>1, MetadataTypes, ServedTypes
<1> QED BY <1>1, <1>3, <1>4, <1>10, <1>11, <1>12, WalkCases

LEMMA BuilderStep == BuilderInv /\ [LBNext]_allVars => BuilderInv'
<1> SUFFICES ASSUME BuilderInv, [LBNext]_allVars PROVE BuilderInv'
  OBVIOUS
<1>1. LBTypeOK'
  BY BuilderTypesStep DEF BuilderInv
<1>2. [Next]_vars /\ membership' = membership
  BY DEF LBNext, Build, BuildStart, ReadMembers, Walk, NextMetric, BuildDone, Produce, allVars
<1>3. AgreeInv' /\ Alike'
  BY <1>2, AgreeNext DEF BuilderInv, Alike
<1>4. LocksHeld'
  BY <1>2, LocksHeldStep DEF BuilderInv, AgreeInv
<1>5. CASE UNCHANGED allVars
  <2>1. UNCHANGED <<versions, slots, stage, metric, unchanged, readVersions, members, position,
                    quiet, membership, live, version, locked, meta, op, raced>>
    BY <1>5 DEF allVars, builderVars, state, acc, vars, store, calls
  <2>2. VersionsBehind'
    BY <2>1 DEF BuilderInv, VersionsBehind
  <2>3. Kept'
    BY <2>1 DEF BuilderInv, Kept, Right, Unmoved, Passed
  <2>4. Undisturbed'
    BY <2>1 DEF BuilderInv, Undisturbed, Idle
  <2> QED BY <1>1, <1>3, <1>4, <2>2, <2>3, <2>4 DEF BuilderInv
<1>6. LBNext => VersionsBehind' /\ Kept' /\ Undisturbed'
  BY BuilderStarts, BuilderReadsMembers, BuilderWalks, BuilderGoesOn, BuilderEnds,
     BuilderProduces DEF LBNext, Build
<1> QED BY <1>1, <1>3, <1>4, <1>5, <1>6 DEF BuilderInv

LEMMA BuilderInit ==
    ASSUME ~Mixed, "Present" \notin Memberships
    PROVE  LBInit => BuilderInv
<1> SUFFICES ASSUME LBInit PROVE BuilderInv
  OBVIOUS
<1>1. LBTypeOK /\ AgreeInv
  BY BuilderTypesInit, AgreeStart DEF LBInit
<1>2. Alike
  <2>1. /\ \A m, n \in Metrics : membership[m] = membership[n]
        /\ membership[1] \in {"All", "Slots"}
    BY OneIsAMetric, LongBuilderAssumption DEF LBInit
  <2> QED BY <2>1, OneIsAMetric DEF Alike
<1>3. /\ \A m \in Metrics : versions[m] = NoVersion /\ readVersions[m] = NoVersion
                            /\ version[m] = 0
      /\ \A s \in Slots : slots[s] = NoOccupant /\ position[s] = NoOccupant
      /\ \A g \in Groups : locked[g] = FALSE
      /\ stage = "idle" /\ quiet = FALSE
  BY DEF LBInit, Init, Metrics
<1>4. VersionsBehind
  BY <1>3 DEF VersionsBehind, NoVersion
<1>5. LocksHeld /\ Kept /\ Undisturbed
  BY <1>3 DEF LocksHeld, Kept, Right, Undisturbed
<1> QED BY <1>1, <1>2, <1>4, <1>5 DEF BuilderInv

\* A build of the long form that no call of the producer overlaps serves every
\* slot's occupant, whatever the builds before it overlapped, for any number
\* of metrics and slots, where the metrics of a group are all walked by their
\* slots or all by their metadata (build_long, LongAcc::occupant).
THEOREM QuietBuildsServeTheOccupant ==
    ASSUME ~Mixed, "Present" \notin Memberships
    PROVE  LBSpec => []ServesTheOccupant
<1>1. LBInit => BuilderInv
  BY BuilderInit
<1>2. BuilderInv => ServesTheOccupant
  BY DEF BuilderInv, Undisturbed, ServesTheOccupant
<1> QED BY <1>1, <1>2, BuilderStep, PTL DEF LBSpec

=============================================================================
