------------------------- MODULE MetricValuesProofs -------------------------
(***************************************************************************)
(* Theorems about the three ways a metric's value is shared by threads:    *)
(* ShardPool, GroupEntry and WindowedValues.                               *)
(***************************************************************************)
EXTENDS ShardPool, GroupEntry, WindowedValues, SequenceTheorems, FiniteSetTheorems,
        WellFoundedInduction, TLAPS

(***************************************************************************)
(* Induction over an initial segment of the naturals, for a set instead of *)
(* a predicate: what a recursive function computes is proved with it.      *)
(***************************************************************************)
\* A set of naturals has a least element.
LEMMA LeastExists ==
    ASSUME NEW T, T \subseteq Nat, T # {}
    PROVE  \E m \in T : \A k \in T : m <= k
<1> DEFINE R == {p \in Nat \X Nat : p[1] < p[2]}
<1>1. IsWellFoundedOn(R, Nat)
  <2>1. IsWellFoundedOn(OpToRel(<, Nat), Nat)
    BY NatLessThanWellFounded
  <2>2. R \cap (Nat \X Nat) \subseteq OpToRel(<, Nat)
    BY DEF OpToRel
  <2> QED BY <2>1, <2>2, IsWellFoundedOnSubrelation
<1>2. PICK m \in T : \A k \in T : ~ (<<k, m>> \in R)
  BY <1>1, WFMin
<1>3. ASSUME NEW k \in T PROVE m <= k
  <2>1. ~(k < m)
    BY <1>2
  <2> QED BY <2>1
<1> QED BY <1>3

\* A set that has 0, and the next of each it has, has all up to n.
LEMMA UpTo ==
    ASSUME NEW n \in Nat, NEW S, 0 \in S,
           \A i \in Nat : i < n /\ i \in S => i + 1 \in S
    PROVE  \A i \in 0..n : i \in S
<1> DEFINE T == {i \in 0..n : i \notin S}
<1> SUFFICES ASSUME T # {} PROVE FALSE
  OBVIOUS
<1>1. PICK m \in T : \A k \in T : m <= k
  <2>1. T \subseteq Nat
    OBVIOUS
  <2> HIDE DEF T
  <2> QED BY <2>1, LeastExists
<1>2. m # 0 /\ m \in 0..n /\ m - 1 \in Nat /\ m - 1 < n
  BY <1>1
<1>3. m - 1 \notin T
  BY <1>1, <1>2
<1>4. m - 1 \in S
  BY <1>2, <1>3
<1>5. (m - 1) + 1 \in S
  BY <1>2, <1>4
<1> QED BY <1>1, <1>2, <1>5

-----------------------------------------------------------------------------
(***************************************************************************)
(* Theorems about ShardPool, for any set of threads and any number of      *)
(* shards: leases are exclusive, no shard leaks, the shards in use are as  *)
(* many as threads ever held one at once, and a read is bounded by what    *)
(* was added before it and during it.                                      *)
(*                                                                         *)
(* The one fact the two properties need beside each other: a thread with   *)
(* no shard id has never touched its lease, so the lease it is given can   *)
(* always be stored.                                                       *)
(***************************************************************************)

NoIdNoLease == \A t \in Threads : id[t] = NoId => lease[t] = Uninit

IInv == PoolTypes /\ LeasesExclusive /\ NoShardLeaks /\ NoIdNoLease

\* Shard s is in the pool, in sequence q.
In(s, q) == \E i \in 1..Len(q) : q[i] = s

\* Taking the last free shard.
LEMMA PopProperties ==
    ASSUME NEW q \in Seq(Shards), q # <<>>
    PROVE  LET r == SubSeq(q, 1, Len(q) - 1)
           IN  /\ r \in Seq(Shards) /\ Len(r) = Len(q) - 1
               /\ \A i \in 1..Len(r) : r[i] = q[i]
               /\ Len(q) \in 1..Len(q) /\ q[Len(q)] \in Shards
               /\ \A s : In(s, q) <=> In(s, r) \/ s = q[Len(q)]
<1> DEFINE r == SubSeq(q, 1, Len(q) - 1)
<1>1. Len(q) \in Nat /\ Len(q) > 0
  BY EmptySeq
<1>2. Len(q) \in 1..Len(q) /\ \A i \in 1..Len(q) : q[i] \in Shards
  BY <1>1, ElementOfSeq
<1>3. \A i \in 1..(Len(q) - 1) : q[i] \in Shards
  BY <1>1, <1>2
<1>4. /\ r \in Seq(Shards) /\ Len(r) = Len(q) - 1
      /\ \A i \in 1..Len(r) : r[i] = q[i]
  <2>1. 1 \in Int /\ Len(q) - 1 \in Int
    BY <1>1
  <2>2. /\ r \in Seq(Shards)
        /\ Len(r) = IF 1 <= Len(q) - 1 THEN (Len(q) - 1) - 1 + 1 ELSE 0
        /\ \A i \in 1..((Len(q) - 1) - 1 + 1) : r[i] = q[1 + i - 1]
    BY <1>3, <2>1, SubSeqProperties
  <2> HIDE DEF r
  <2>3. Len(r) = Len(q) - 1
    <3> DEFINE n == Len(q)
    <3>1. Len(r) = IF 1 <= n - 1 THEN (n - 1) - 1 + 1 ELSE 0
      BY <2>2
    <3>2. n \in Nat /\ n > 0
      BY <1>1
    <3> HIDE DEF n
    <3>3. Len(r) = n - 1
      BY <3>1, <3>2
    <3> QED BY <3>3 DEF n
  <2>4. ASSUME NEW i \in 1..Len(r) PROVE r[i] = q[i]
    <3>1. i \in 1..((Len(q) - 1) - 1 + 1) /\ 1 + i - 1 = i
      BY <1>1, <2>3
    <3>2. r[i] = q[1 + i - 1]
      BY <2>2, <3>1
    <3> QED BY <3>1, <3>2
  <2> QED BY <2>2, <2>3, <2>4
<1> HIDE DEF r
<1>5. ASSUME NEW s PROVE In(s, q) <=> In(s, r) \/ s = q[Len(q)]
  <2>1. ASSUME NEW i \in 1..Len(q), q[i] = s, s # q[Len(q)] PROVE In(s, r)
    <3>1. i \in 1..Len(r)
      BY <1>1, <1>4, <2>1
    <3> QED BY <1>4, <2>1, <3>1 DEF In
  <2>2. ASSUME NEW i \in 1..Len(r), r[i] = s PROVE In(s, q)
    <3>1. i \in 1..Len(q)
      BY <1>1, <1>4
    <3> QED BY <1>4, <2>2, <3>1 DEF In
  <2>3. In(q[Len(q)], q)
    BY <1>2 DEF In
  <2> QED BY <2>1, <2>2, <2>3 DEF In
<1> QED BY <1>2, <1>4, <1>5 DEF r

\* Returning a shard.
LEMMA PushProperties ==
    ASSUME NEW q \in Seq(Shards), NEW x \in Shards
    PROVE  LET r == Append(q, x)
           IN  /\ r \in Seq(Shards) /\ Len(r) = Len(q) + 1 /\ Len(q) \in Nat
               /\ r[Len(q) + 1] = x
               /\ \A i \in 1..Len(q) : r[i] = q[i]
               /\ \A s : In(s, r) <=> In(s, q) \/ s = x
<1> DEFINE r == Append(q, x)
<1>1. /\ r \in Seq(Shards) /\ Len(r) = Len(q) + 1 /\ Len(q) \in Nat
      /\ r[Len(q) + 1] = x
      /\ \A i \in 1..Len(q) : r[i] = q[i]
  BY AppendProperties, LenProperties
<1> HIDE DEF r
<1>2. ASSUME NEW s PROVE In(s, r) <=> In(s, q) \/ s = x
  <2>1. ASSUME NEW i \in 1..Len(r), r[i] = s PROVE In(s, q) \/ s = x
    <3>1. CASE i = Len(q) + 1
      BY <1>1, <2>1, <3>1
    <3>2. CASE i # Len(q) + 1
      <4>1. i \in 1..Len(q)
        BY <1>1, <3>2
      <4> QED BY <1>1, <2>1, <4>1 DEF In
    <3> QED BY <3>1, <3>2
  <2>2. ASSUME NEW i \in 1..Len(q), q[i] = s PROVE In(s, r)
    <3>1. i \in 1..Len(r)
      BY <1>1
    <3> QED BY <1>1, <2>2, <3>1 DEF In
  <2>3. In(x, r)
    <3>1. Len(q) + 1 \in 1..Len(r)
      BY <1>1
    <3> QED BY <1>1, <3>1 DEF In
  <2> QED BY <2>1, <2>2, <2>3 DEF In
<1> QED BY <1>1, <1>2 DEF r

-----------------------------------------------------------------------------
LEMMA IndInit == Init => IInv
<1> SUFFICES ASSUME Init PROVE IInv
  OBVIOUS
<1>1. PoolTypes
  BY ShardPoolAssumption, EmptySeq DEF Init, PoolTypes, Stages, Uninit, NoId
<1>2. LeasesExclusive /\ NoIdNoLease
  BY ShardPoolAssumption, EmptySeq DEF Init, LeasesExclusive, NoIdNoLease, Shards, Uninit
<1>3. NoShardLeaks
  BY ShardPoolAssumption, EmptySeq DEF Init, NoShardLeaks, Shards, Uninit
<1> QED BY <1>1, <1>2, <1>3 DEF IInv

\* A shard of the pool, or a new one, given to a thread without an id.
LEMMA IndTakeFree ==
    ASSUME IInv, NEW t \in Threads, id[t] = NoId, TakeFree(t), UNCHANGED stage
    PROVE  IInv'
<1> DEFINE x == free[Len(free)]
<1>1. /\ free' \in Seq(Shards) /\ Len(free') = Len(free) - 1
      /\ \A i \in 1..Len(free') : free'[i] = free[i]
      /\ Len(free) \in 1..Len(free) /\ x \in Shards
      /\ \A s : In(s, free) <=> In(s, free') \/ s = x
  BY PopProperties DEF TakeFree, IInv, PoolTypes
<1>2. /\ id' = [id EXCEPT ![t] = x] /\ lease' = [lease EXCEPT ![t] = x]
      /\ lease[t] = Uninit /\ UNCHANGED <<fresh, overflow>>
  BY ShardPoolAssumption DEF TakeFree, Leased, IInv, NoIdNoLease, Uninit, Destroyed
<1>3. Len(free) \in Nat /\ x # NoId /\ Uninit \notin Shards
  BY <1>1, LenProperties, ShardPoolAssumption DEF IInv, PoolTypes, Shards, NoId, Uninit
<1> HIDE DEF x
<1>4. PoolTypes'
  BY <1>1, <1>2 DEF IInv, PoolTypes
<1>5. \A u \in Threads : lease'[u] = IF u = t THEN x ELSE lease[u]
  BY <1>2 DEF IInv, PoolTypes
<1>6. LeasesExclusive'
  <2>1. \A i \in 1..Len(free') : i \in 1..Len(free) /\ i # Len(free)
    BY <1>1, <1>3
  <2>2. \A u \in Threads : lease[u] # x
    BY <1>1 DEF IInv, LeasesExclusive, x
  <2>3. \A i \in 1..Len(free') : free'[i] # x
    BY <1>1, <2>1 DEF IInv, LeasesExclusive, x
  <2>4. \A u, w \in Threads : u # w /\ lease'[u] \in Shards => lease'[u] # lease'[w]
    BY <1>5, <2>2 DEF IInv, LeasesExclusive
  <2>5. \A u \in Threads, i \in 1..Len(free') : free'[i] # lease'[u]
    BY <1>1, <1>5, <2>1, <2>3 DEF IInv, LeasesExclusive
  <2>6. \A i, j \in 1..Len(free') : i # j => free'[i] # free'[j]
    BY <1>1, <2>1 DEF IInv, LeasesExclusive
  <2> QED BY <2>4, <2>5, <2>6 DEF LeasesExclusive
<1>7. NoShardLeaks'
  <2>1. \A s \in Shards : (\E u \in Threads : lease'[u] = s) <=>
                             (\E u \in Threads : lease[u] = s) \/ s = x
    BY <1>2, <1>3, <1>5
  <2> QED BY <1>1, <1>2, <2>1 DEF IInv, NoShardLeaks, In
<1>8. NoIdNoLease'
  BY <1>2, <1>3 DEF IInv, NoIdNoLease, PoolTypes
<1> QED BY <1>4, <1>6, <1>7, <1>8 DEF IInv

LEMMA IndTakeFresh ==
    ASSUME IInv, NEW t \in Threads, id[t] = NoId, TakeFresh(t), UNCHANGED stage
    PROVE  IInv'
<1> DEFINE x == NumShards - fresh'
<1>1. /\ fresh' = fresh + 1 /\ fresh \in Nat /\ fresh < NumShards /\ NumShards \in Nat
      /\ x \in Shards /\ x # NoId /\ Uninit \notin Shards
      /\ free' = free /\ overflow' = overflow
  BY ShardPoolAssumption DEF TakeFresh, IInv, PoolTypes, Shards, NoId, Uninit
<1>2. /\ id' = [id EXCEPT ![t] = x] /\ lease' = [lease EXCEPT ![t] = x]
      /\ lease[t] = Uninit
  BY ShardPoolAssumption DEF TakeFresh, Leased, IInv, NoIdNoLease, Uninit, Destroyed
<1>3. x = NumShards - (fresh + 1)
  BY <1>1
<1> HIDE DEF x
<1>4. PoolTypes'
  BY <1>1, <1>2 DEF IInv, PoolTypes
<1>5. \A u \in Threads : lease'[u] = IF u = t THEN x ELSE lease[u]
  BY <1>2 DEF IInv, PoolTypes
<1>6. /\ \A u \in Threads : lease[u] # x
      /\ \A i \in 1..Len(free) : free[i] # x
  <2>1. ~(x >= NumShards - fresh)
    BY <1>1, <1>3
  <2> QED BY <1>1, <2>1 DEF IInv, NoShardLeaks
<1>7. LeasesExclusive'
  BY <1>1, <1>5, <1>6 DEF IInv, LeasesExclusive
<1>8. NoShardLeaks'
  <2>1. \A s \in Shards : (\E u \in Threads : lease'[u] = s) <=>
                             (\E u \in Threads : lease[u] = s) \/ s = x
    BY <1>2, <1>1, <1>5
  <2>2. \A s \in Shards : s >= NumShards - fresh' <=> s >= NumShards - fresh \/ s = x
    BY <1>1, <1>3 DEF Shards
  <2> QED BY <1>1, <2>1, <2>2 DEF IInv, NoShardLeaks
<1>9. NoIdNoLease'
  BY <1>1, <1>2 DEF IInv, NoIdNoLease, PoolTypes
<1> QED BY <1>4, <1>7, <1>8, <1>9 DEF IInv


LEMMA ModRange ==
    ASSUME NEW a \in Nat, NEW b \in Nat \ {0} PROVE a % b \in 0..(b - 1)
BY Z3

LEMMA IndTakeOverflow ==
    ASSUME IInv, NEW t \in Threads, TakeOverflow(t), UNCHANGED stage
    PROVE  IInv'
<1> DEFINE x == NumShards - 1 - (overflow' % NumShards)
<1>1. overflow' \in Nat /\ x \in Shards /\ x # NoId
  <2>1. overflow' \in Nat /\ NumShards \in Nat \ {0}
    BY ShardPoolAssumption DEF TakeOverflow, IInv, PoolTypes
  <2>2. overflow' % NumShards \in 0..(NumShards - 1)
    BY <2>1, ModRange
  <2> QED BY <2>1, <2>2 DEF Shards, NoId
<1>2. id' = [id EXCEPT ![t] = x] /\ UNCHANGED <<lease, free, fresh>>
  BY DEF TakeOverflow
<1> HIDE DEF x
<1>3. PoolTypes'
  BY <1>1, <1>2 DEF IInv, PoolTypes
<1>4. NoIdNoLease'
  BY <1>1, <1>2 DEF IInv, PoolTypes, NoIdNoLease
<1> QED BY <1>2, <1>3, <1>4 DEF IInv, LeasesExclusive, NoShardLeaks

\* A thread gives up its lease, for a lease value outside the shards.
LEMMA IndGive ==
    ASSUME IInv, NEW t \in Threads, NEW l \in {NoLease, Destroyed}, Give(t),
           lease' = [lease EXCEPT ![t] = l],
           id' \in [Threads -> Shards \cup {NoId}], id'[t] # NoId,
           \A u \in Threads : u # t => id'[u] = id[u],
           UNCHANGED <<stage, fresh, overflow>>
    PROVE  IInv'
<1>1. l \notin Shards
  BY ShardPoolAssumption DEF Shards, NoLease, Destroyed
<1>2. \A u \in Threads : lease'[u] = IF u = t THEN l ELSE lease[u]
  BY DEF IInv, PoolTypes
<1>3. NoIdNoLease'
  BY <1>2 DEF IInv, NoIdNoLease
<1>4. CASE lease[t] \in Shards
  <2> DEFINE x == lease[t]
  <2>1. /\ free' \in Seq(Shards) /\ Len(free') = Len(free) + 1 /\ Len(free) \in Nat
        /\ free'[Len(free) + 1] = x
        /\ \A i \in 1..Len(free) : free'[i] = free[i]
        /\ \A s : In(s, free') <=> In(s, free) \/ s = x
    BY <1>4, PushProperties DEF Give, IInv, PoolTypes
  <2>2. PoolTypes'
    BY <2>1 DEF IInv, PoolTypes
  <2>3. \A i \in 1..Len(free') : i \in 1..Len(free) \/ i = Len(free) + 1
    BY <2>1
  <2>4. /\ \A u \in Threads : u # t => lease[u] # x
        /\ \A i \in 1..Len(free) : free[i] # x
    BY <1>4 DEF IInv, LeasesExclusive
  <2>5. x \in Shards /\ \A i \in 1..Len(free') : free'[i] \in Shards
    BY <1>4, <2>1, ElementOfSeq
  <2> HIDE DEF x
  <2>6. \A u, v \in Threads : u # v /\ lease'[u] \in Shards => lease'[u] # lease'[v]
    BY <1>1, <1>2 DEF IInv, LeasesExclusive
  <2>7. \A u \in Threads, i \in 1..Len(free') : free'[i] # lease'[u]
    BY <1>1, <1>2, <2>1, <2>3, <2>4, <2>5 DEF IInv, LeasesExclusive
  <2>8. \A i, j \in 1..Len(free') : i # j => free'[i] # free'[j]
    BY <2>1, <2>3, <2>4 DEF IInv, LeasesExclusive
  <2>9. NoShardLeaks'
    <3>1. \A s \in Shards : (\E u \in Threads : lease[u] = s) <=>
                               (\E u \in Threads : lease'[u] = s) \/ s = x
      BY <1>1, <1>2, <2>4 DEF x
    <3> QED BY <2>1, <3>1 DEF IInv, NoShardLeaks, In
  <2> QED BY <1>3, <2>2, <2>6, <2>7, <2>8, <2>9 DEF IInv, LeasesExclusive
<1>5. CASE lease[t] \notin Shards
  <2>1. free' = free
    BY <1>5 DEF Give
  <2>2. PoolTypes'
    BY <2>1 DEF IInv, PoolTypes
  <2>3. \A i \in 1..Len(free) : free[i] \in Shards
    BY ElementOfSeq DEF IInv, PoolTypes
  <2>4. LeasesExclusive'
    BY <1>1, <1>2, <2>1, <2>3 DEF IInv, LeasesExclusive
  <2>5. NoShardLeaks'
    <3>1. \A s \in Shards : (\E u \in Threads : lease'[u] = s) <=>
                               (\E u \in Threads : lease[u] = s)
      BY <1>1, <1>2, <1>5
    <3> QED BY <2>1, <3>1 DEF IInv, NoShardLeaks
  <2> QED BY <1>3, <2>2, <2>4, <2>5 DEF IInv
<1> QED BY <1>4, <1>5

\* Every step keeps the invariant.
LEMMA IndStep == IInv /\ [Next]_vars => IInv'
<1> SUFFICES ASSUME IInv, [Next]_vars PROVE IInv'
  OBVIOUS
<1>1. ASSUME UNCHANGED <<id, lease, pool>>, stage' \in [Threads -> Stages] PROVE IInv'
  BY <1>1 DEF IInv, PoolTypes, LeasesExclusive, NoShardLeaks, NoIdNoLease, pool
<1>2. ASSUME NEW t \in Threads, Start(t) \/ Exit(t) \/ Die(t) PROVE IInv'
  <2>1. stage' \in [Threads -> Stages]
    BY <1>2 DEF Start, Exit, Die, IInv, PoolTypes, Stages
  <2> QED BY <1>1, <1>2, <2>1 DEF Start, Exit, Die
<1>3. ASSUME NEW t \in Threads, Add(t) PROVE IInv'
  BY <1>1, <1>3 DEF Add, IInv, PoolTypes
<1>4. ASSUME NEW t \in Threads, Assign(t) PROVE IInv'
  BY <1>4, IndTakeFree, IndTakeFresh, IndTakeOverflow DEF Assign, Take
<1>5. ASSUME NEW t \in Threads, NEW i \in Shards, SetShard(t, i) PROVE IInv'
  <2>1. /\ id' \in [Threads -> Shards \cup {NoId}] /\ id'[t] # NoId
        /\ \A u \in Threads : u # t => id'[u] = id[u]
    BY <1>5, ShardPoolAssumption DEF SetShard, IInv, PoolTypes, Shards, NoId
  <2>2. PICK l \in {NoLease, Destroyed} : lease' = [lease EXCEPT ![t] = l]
    BY <1>5 DEF SetShard
  <2> QED BY <1>5, <2>1, <2>2, IndGive DEF SetShard
<1>6. ASSUME NEW t \in Threads, DropLease(t) PROVE IInv'
  <2>1. id[t] # NoId
    BY <1>6 DEF DropLease, IInv, NoIdNoLease
  <2> QED BY <1>6, <2>1, IndGive DEF DropLease, IInv, PoolTypes
<1>7. CASE ReadStart \/ ReadShard
  BY <1>1, <1>7 DEF ReadStart, ReadShard, IInv, PoolTypes
<1>8. CASE UNCHANGED vars
  BY <1>1, <1>8 DEF vars, pool, IInv, PoolTypes
<1> QED BY <1>2, <1>3, <1>4, <1>5, <1>6, <1>7, <1>8 DEF Next

\* However threads start, write, set their shard and exit, no two lease one
\* shard and no leased shard is in the pool.
THEOREM LeasesAreExclusive == Spec => []LeasesExclusive
<1>1. IInv => LeasesExclusive
  BY DEF IInv
<1> QED BY IndInit, IndStep, <1>1, PTL DEF Spec

\* A shard handed out once is always leased or back in the pool: the branch
\* of assign_thread_shard that cannot store a lease is never taken.
THEOREM NoShardEverLeaks == Spec => []NoShardLeaks
<1>1. IInv => NoShardLeaks
  BY DEF IInv
<1> QED BY IndInit, IndStep, <1>1, PTL DEF Spec

-----------------------------------------------------------------------------
(* The shards in use.                                                      *)

\* The shards handed out are those leased and those in the pool.
AllAccountedFor == Cardinality(Holders) + Len(free) = fresh
UseInv == AllAccountedFor /\ InUseFollowsPeak

LEMMA HoldersFinite == IsFiniteSet(Holders) /\ Cardinality(Holders) \in Nat
BY ShardPoolAssumption, FS_Subset, FS_CardinalityType DEF Holders

LEMMA HoldersFiniteNext == IsFiniteSet(Holders') /\ Cardinality(Holders') \in Nat
BY ShardPoolAssumption, FS_Subset, FS_CardinalityType DEF Holders

LEMMA UseInit == Init => UseInv
<1> SUFFICES ASSUME Init PROVE UseInv
  OBVIOUS
<1>1. Holders = {}
  BY ShardPoolAssumption DEF Init, Holders, Shards, Uninit
<1>2. Cardinality(Holders) = 0
  BY <1>1, FS_EmptySet
<1>3. Len(free) = 0
  BY EmptySeq DEF Init
<1> QED BY <1>2, <1>3 DEF Init, UseInv, AllAccountedFor, InUseFollowsPeak

\* A thread that leases a shard is one holder more.
LEMMA OneMore ==
    ASSUME IInv, NEW t \in Threads, NEW s \in Shards, lease[t] = Uninit,
           lease' = [lease EXCEPT ![t] = s]
    PROVE  Cardinality(Holders') = Cardinality(Holders) + 1
<1>1. t \notin Holders
  BY ShardPoolAssumption DEF Holders, Shards, Uninit
<1>2. Holders' = Holders \cup {t}
  BY DEF Holders, IInv, PoolTypes
<1> QED BY <1>1, <1>2, HoldersFinite, FS_AddElement

\* A thread that gives its shard back is one holder less, and the pool one
\* shard larger.
LEMMA OneLess ==
    ASSUME IInv, UseInv, NEW t \in Threads, NEW l \in {NoLease, Destroyed}, Give(t),
           lease' = [lease EXCEPT ![t] = l], UNCHANGED <<fresh, peak>>
    PROVE  UseInv'
<1>1. l \notin Shards
  BY ShardPoolAssumption DEF Shards, NoLease, Destroyed
<1>2. CASE lease[t] \in Shards
  <2>1. Holders' = Holders \ {t} /\ t \in Holders
    BY <1>1, <1>2 DEF Holders, IInv, PoolTypes
  <2>2. Cardinality(Holders') = Cardinality(Holders) - 1
    BY <2>1, HoldersFinite, FS_RemoveElement
  <2>3. Len(free') = Len(free) + 1 /\ Len(free) \in Nat
    BY <1>2, PushProperties DEF Give, IInv, PoolTypes
  <2> QED BY <2>2, <2>3, HoldersFinite DEF UseInv, AllAccountedFor, InUseFollowsPeak
<1>3. CASE lease[t] \notin Shards
  <2>1. Holders' = Holders
    BY <1>1, <1>3 DEF Holders, IInv, PoolTypes
  <2> QED BY <1>3, <2>1 DEF Give, UseInv, AllAccountedFor, InUseFollowsPeak
<1> QED BY <1>2, <1>3

\* A lease from the pool is within the peak; one of a new shard, which is
\* taken only when the pool is empty, is the peak.
LEMMA UseAssign ==
    ASSUME IInv, UseInv, NEW t \in Threads, Assign(t)
    PROVE  UseInv'
<1> DEFINE n == Cardinality(Holders)
           m == Cardinality(Holders')
<1>1. n \in Nat /\ m \in Nat /\ fresh \in Nat /\ peak = fresh /\ n + Len(free) = fresh
  BY HoldersFinite, HoldersFiniteNext
     DEF IInv, PoolTypes, UseInv, AllAccountedFor, InUseFollowsPeak
<1>2. peak' = IF m > peak THEN m ELSE peak
  BY DEF Assign
<1>3. lease[t] = Uninit /\ Uninit # Destroyed
  BY ShardPoolAssumption DEF Assign, IInv, NoIdNoLease, Uninit, Destroyed
<1>4. CASE TakeFree(t)
  <2>1. free[Len(free)] \in Shards /\ Len(free') = Len(free) - 1 /\ Len(free) \in 1..Len(free)
    BY <1>4, PopProperties DEF TakeFree, IInv, PoolTypes
  <2>2. m = n + 1 /\ fresh' = fresh
    BY <1>3, <1>4, <2>1, OneMore DEF TakeFree, Leased
  <2>3. Len(free) \in Nat /\ Len(free) >= 1
    BY <2>1, LenProperties DEF IInv, PoolTypes
  <2> HIDE DEF n, m
  <2>4. m + Len(free') = fresh' /\ peak' = fresh'
    BY <1>1, <1>2, <2>1, <2>2, <2>3
  <2> QED BY <2>4 DEF UseInv, AllAccountedFor, InUseFollowsPeak, m
<1>5. CASE TakeFresh(t)
  <2>1. Len(free) = 0 /\ free' = free /\ fresh' = fresh + 1 /\ NumShards - fresh' \in Shards
    BY <1>1, <1>5, EmptySeq, ShardPoolAssumption DEF TakeFresh, Shards
  <2>2. m = n + 1
    BY <1>3, <1>5, <2>1, OneMore DEF TakeFresh, Leased
  <2> HIDE DEF n, m
  <2>3. m + Len(free') = fresh' /\ peak' = fresh'
    BY <1>1, <1>2, <2>1, <2>2
  <2> QED BY <2>3 DEF UseInv, AllAccountedFor, InUseFollowsPeak, m
<1>6. CASE TakeOverflow(t)
  <2>1. m = n /\ fresh' = fresh /\ Len(free') = Len(free)
    BY <1>6 DEF TakeOverflow, Holders
  <2>2. Len(free) \in Nat
    BY LenProperties DEF IInv, PoolTypes
  <2> HIDE DEF n, m
  <2>3. m + Len(free') = fresh' /\ peak' = fresh'
    BY <1>1, <1>2, <2>1, <2>2
  <2> QED BY <2>3 DEF UseInv, AllAccountedFor, InUseFollowsPeak, m
<1> QED BY <1>4, <1>5, <1>6 DEF Assign, Take

LEMMA UseStep == IInv /\ UseInv /\ [Next]_vars => UseInv'
<1> SUFFICES ASSUME IInv, UseInv, [Next]_vars PROVE UseInv'
  OBVIOUS
<1>1. ASSUME UNCHANGED <<lease, free, fresh, peak>> PROVE UseInv'
  BY <1>1 DEF UseInv, AllAccountedFor, InUseFollowsPeak, Holders
<1>2. ASSUME NEW t \in Threads, Start(t) \/ Add(t) \/ Exit(t) \/ Die(t) PROVE UseInv'
  BY <1>1, <1>2 DEF Start, Add, Exit, Die, pool
<1>3. ASSUME NEW t \in Threads, Assign(t) PROVE UseInv'
  BY <1>3, UseAssign
<1>4. ASSUME NEW t \in Threads, NEW i \in Shards, SetShard(t, i) PROVE UseInv'
  <2>1. PICK l \in {NoLease, Destroyed} : lease' = [lease EXCEPT ![t] = l]
    BY <1>4 DEF SetShard
  <2> QED BY <1>4, <2>1, OneLess DEF SetShard
<1>5. ASSUME NEW t \in Threads, DropLease(t) PROVE UseInv'
  BY <1>5, OneLess DEF DropLease
<1>6. CASE ReadStart \/ ReadShard
  BY <1>1, <1>6 DEF ReadStart, ReadShard, pool
<1>7. CASE UNCHANGED vars
  BY <1>1, <1>7 DEF vars
<1> QED BY <1>2, <1>3, <1>4, <1>5, <1>6, <1>7 DEF Next

\* However many threads come and go, no more shards are ever in use than
\* threads held one at once.
THEOREM ShardsFollowThePeak == Spec => []InUseFollowsPeak
<1>1. UseInv => InUseFollowsPeak
  BY DEF UseInv
<1> QED BY IndInit, IndStep, UseInit, UseStep, <1>1, PTL DEF Spec

-----------------------------------------------------------------------------
\* The sums of a slot's counts c, shard after shard: what total is of counts.
IsSums(f, c, n) ==
    /\ f \in [0..n -> Nat] /\ f[0] = 0
    /\ \A s \in 1..n : f[s] = f[s - 1] + c[s - 1]

LEMMA SumsExist ==
    ASSUME NEW c \in [Shards -> Nat]
    PROVE  \E f : IsSums(f, c, NumShards)
<1> DEFINE S == {n \in 0..NumShards : \E f : IsSums(f, c, n)}
<1>0. NumShards \in Nat
  BY ShardPoolAssumption
<1>1. 0 \in S
  <2>1. IsSums([s \in 0..0 |-> 0], c, 0)
    BY DEF IsSums
  <2> QED BY <1>0, <2>1
<1>2. ASSUME NEW n \in Nat, n < NumShards, n \in S PROVE n + 1 \in S
  <2>1. PICK f : IsSums(f, c, n)
    BY <1>2
  <2> DEFINE g == [s \in 0..(n + 1) |-> IF s = n + 1 THEN f[n] + c[n] ELSE f[s]]
  <2>2. c[n] \in Nat /\ f[n] \in Nat
    BY <1>0, <1>2, <2>1 DEF IsSums, Shards
  <2>3. g \in [0..(n + 1) -> Nat] /\ g[0] = 0
    BY <1>2, <2>1, <2>2 DEF IsSums
  <2>4. ASSUME NEW s \in 1..(n + 1) PROVE g[s] = g[s - 1] + c[s - 1]
    <3>1. CASE s = n + 1
      BY <1>2, <3>1
    <3>2. CASE s # n + 1
      <4>1. s \in 1..n /\ s - 1 \in 0..n /\ s - 1 # n + 1
        BY <1>2, <3>2
      <4> QED BY <2>1, <4>1 DEF IsSums
    <3> QED BY <3>1, <3>2
  <2>5. IsSums(g, c, n + 1)
    BY <2>3, <2>4 DEF IsSums
  <2> QED BY <1>0, <1>2, <2>5
<1>3. \A n \in 0..NumShards : n \in S
  <2> HIDE DEF S
  <2> QED BY <1>0, <1>1, <1>2, UpTo
<1> QED BY <1>0, <1>3

LEMMA SumsAreOne ==
    ASSUME NEW c, NEW f, NEW g, IsSums(f, c, NumShards), IsSums(g, c, NumShards)
    PROVE  \A s \in 0..NumShards : f[s] = g[s]
<1> DEFINE S == {n \in 0..NumShards : f[n] = g[n]}
<1>0. NumShards \in Nat
  BY ShardPoolAssumption
<1>1. 0 \in S
  BY <1>0 DEF IsSums
<1>2. ASSUME NEW n \in Nat, n < NumShards, n \in S PROVE n + 1 \in S
  <2>1. n + 1 \in 1..NumShards /\ (n + 1) - 1 = n /\ n + 1 \in 0..NumShards
    BY <1>0, <1>2
  <2> QED BY <1>2, <2>1 DEF IsSums
<1>3. \A n \in 0..NumShards : n \in S
  <2> HIDE DEF S
  <2> QED BY <1>0, <1>1, <1>2, UpTo
<1> QED BY <1>3

Sums(c) ==
    CHOOSE g : g = [s \in 0..NumShards |-> IF s = 0 THEN 0 ELSE g[s - 1] + c[s - 1]]

LEMMA SumsAreSums ==
    ASSUME NEW c \in [Shards -> Nat]
    PROVE  IsSums(Sums(c), c, NumShards)
<1>0. NumShards \in Nat
  BY ShardPoolAssumption
<1>1. PICK f : IsSums(f, c, NumShards)
  BY SumsExist
<1> DEFINE Body(g) == [s \in 0..NumShards |-> IF s = 0 THEN 0 ELSE g[s - 1] + c[s - 1]]
<1>2. f = Body(f)
  <2>1. \A s \in 0..NumShards : s # 0 => s \in 1..NumShards
    BY <1>0
  <2> QED BY <1>1, <2>1 DEF IsSums
<1>3. Sums(c) = CHOOSE g : g = Body(g)
  BY DEF Sums
<1> HIDE DEF Body
<1>4. Sums(c) = Body(Sums(c))
  BY <1>2, <1>3
<1>5. /\ Sums(c) = [s \in 0..NumShards |-> Sums(c)[s]]
      /\ \A s \in 0..NumShards :
            Sums(c)[s] = IF s = 0 THEN 0 ELSE Sums(c)[s - 1] + c[s - 1]
  BY <1>4 DEF Body
<1> DEFINE S == {n \in 0..NumShards : Sums(c)[n] = f[n]}
<1>6. 0 \in S
  <2>1. 0 \in 0..NumShards /\ f[0] = 0
    BY <1>0, <1>1 DEF IsSums
  <2>2. Sums(c)[0] = 0
    BY <1>5, <2>1
  <2> QED BY <2>1, <2>2
<1>7. ASSUME NEW n \in Nat, n < NumShards, n \in S PROVE n + 1 \in S
  <2>1. /\ n + 1 \in 1..NumShards /\ (n + 1) - 1 = n /\ n + 1 \in 0..NumShards
        /\ n + 1 # 0
    BY <1>0, <1>7
  <2>2. Sums(c)[n + 1] = Sums(c)[n] + c[n]
    BY <1>5, <2>1
  <2>3. f[n + 1] = f[n] + c[n]
    BY <1>1, <2>1 DEF IsSums
  <2> QED BY <1>7, <2>1, <2>2, <2>3
<1>8. \A n \in 0..NumShards : n \in S
  <2> HIDE DEF S
  <2> QED BY <1>0, <1>6, <1>7, UpTo
<1>9. Sums(c) = f
  BY <1>1, <1>5, <1>8 DEF IsSums
<1> QED BY <1>1, <1>9

LEMMA TotalIsSums ==
    /\ total = Sums(counts) /\ total' = Sums(counts')
    /\ Total = total[NumShards] /\ Total' = total'[NumShards]
  BY DEF total, Sums, Total

-----------------------------------------------------------------------------
Raised(f, g, k) == \A s \in 0..NumShards : g[s] = IF s > k THEN f[s] + 1 ELSE f[s]

\* One more in shard k is one more in every sum that includes it.
LEMMA SumsAfterAdd ==
    ASSUME NEW c \in [Shards -> Nat], NEW k \in Shards, NEW f, IsSums(f, c, NumShards),
           NEW d \in [Shards -> Nat],
           \A s \in Shards : d[s] = IF s = k THEN c[s] + 1 ELSE c[s],
           NEW g, IsSums(g, d, NumShards)
    PROVE  Raised(f, g, k)
<1> DEFINE h == [s \in 0..NumShards |-> IF s > k THEN f[s] + 1 ELSE f[s]]
<1>0. NumShards \in Nat /\ k \in Nat /\ k < NumShards
  BY ShardPoolAssumption DEF Shards
<1>1. h \in [0..NumShards -> Nat] /\ h[0] = 0
  BY <1>0 DEF IsSums
<1>2. ASSUME NEW s \in 1..NumShards PROVE h[s] = h[s - 1] + d[s - 1]
  <2>1. /\ s - 1 \in Shards /\ s - 1 \in 0..NumShards /\ s \in 0..NumShards
        /\ f[s] = f[s - 1] + c[s - 1]
    BY <1>0 DEF IsSums, Shards
  <2>2. f[s - 1] \in Nat /\ c[s - 1] \in Nat
    BY <2>1 DEF IsSums
  <2>3. d[s - 1] = IF s - 1 = k THEN c[s - 1] + 1 ELSE c[s - 1]
    BY <2>1
  <2> QED BY <1>0, <2>1, <2>2, <2>3
<1>3. IsSums(h, d, NumShards)
  BY <1>1, <1>2 DEF IsSums
<1>4. \A s \in 0..NumShards : g[s] = h[s]
  <2> HIDE DEF h
  <2> QED BY <1>3, SumsAreOne
<1> QED BY <1>4 DEF Raised

\* A read that has come to shard `at` has what those before it held when it
\* loaded them: no more than they hold now, and no less than what the total
\* it began with leaves for the others.
ReadSoFar ==
    /\ sum <= total[at]
    /\ at < NumShards => floor + total[at] <= sum + Total

ReadTypes ==
    /\ counts \in [Shards -> Nat]
    /\ at \in 0..NumShards /\ sum \in Nat /\ floor \in Nat

ReadInv == ReadTypes /\ ReadSoFar

LEMMA ReadStarts == Init => ReadInv
<1> SUFFICES ASSUME Init PROVE ReadInv
  OBVIOUS
<1>1. NumShards \in Nat
  BY ShardPoolAssumption
<1>2. ReadTypes
  BY <1>1 DEF Init, ReadTypes
<1>3. IsSums(total, counts, NumShards)
  BY <1>2, TotalIsSums, SumsAreSums DEF ReadTypes
<1>4. sum <= total[at]
  <2>1. total[NumShards] \in Nat
    BY <1>1, <1>3 DEF IsSums
  <2> QED BY <2>1 DEF Init
<1>5. ~(at < NumShards)
  BY <1>1 DEF Init
<1> QED BY <1>2, <1>4, <1>5 DEF ReadInv, ReadSoFar

LEMMA TotalsAre ==
    ASSUME NEW c \in [Shards -> Nat]
    PROVE  /\ \A s \in 0..NumShards : Sums(c)[s] \in Nat
           /\ Sums(c)[0] = 0
           /\ \A s \in Shards : Sums(c)[s + 1] = Sums(c)[s] + c[s]
<1>1. NumShards \in Nat
  BY ShardPoolAssumption
<1>2. IsSums(Sums(c), c, NumShards)
  BY SumsAreSums
<1>3. ASSUME NEW s \in Shards PROVE Sums(c)[s + 1] = Sums(c)[s] + c[s]
  <2>1. s + 1 \in 1..NumShards /\ (s + 1) - 1 = s
    BY <1>1 DEF Shards
  <2> QED BY <1>2, <2>1 DEF IsSums
<1> QED BY <1>2, <1>3 DEF IsSums

ReturnsBounded == (at < NumShards /\ at' = NumShards) => (floor <= last' /\ last' <= Total')

\* An add moves the sums that include its shard and the total alike; a load
\* moves the reader's sum by what the shard holds.
LEMMA ReadStep ==
    ReadInv /\ [Next]_vars => ReadInv' /\ [ReturnsBounded]_vars
<1> SUFFICES ASSUME ReadInv, [Next]_vars PROVE ReadInv' /\ ReturnsBounded
  OBVIOUS
<1> DEFINE f == Sums(counts)
<1>0. /\ NumShards \in Nat /\ NumShards # 0 /\ counts \in [Shards -> Nat]
      /\ at \in 0..NumShards /\ sum \in Nat /\ floor \in Nat
  BY ShardPoolAssumption DEF ReadInv, ReadTypes
<1>1. /\ \A s \in 0..NumShards : f[s] \in Nat
      /\ f[0] = 0 /\ \A s \in Shards : f[s + 1] = f[s] + counts[s]
  BY <1>0, TotalsAre
<1>2. /\ sum <= f[at]
      /\ at < NumShards => floor + f[at] <= sum + f[NumShards]
      /\ Total = f[NumShards]
  BY TotalIsSums DEF ReadInv, ReadSoFar
<1> HIDE DEF f
<1>3. ASSUME UNCHANGED <<counts, at, sum, floor>> PROVE ReadInv' /\ ReturnsBounded
  <2>1. total' = total /\ Total' = Total
    BY <1>3, TotalIsSums
  <2>2. ~(at < NumShards /\ at' = NumShards)
    BY <1>0, <1>3
  <2> QED BY <1>3, <2>1, <2>2 DEF ReadInv, ReadTypes, ReadSoFar, ReturnsBounded
<1>4. ASSUME NEW t \in Threads, Add(t) PROVE ReadInv' /\ ReturnsBounded
  <2> DEFINE k == id[t]
             g == Sums(counts')
  <2>1. /\ k \in Shards /\ counts' = [counts EXCEPT ![k] = @ + 1]
        /\ UNCHANGED <<at, sum, floor>>
    BY <1>4 DEF Add, reader
  <2>2. counts' \in [Shards -> Nat] /\ k \in Nat /\ k < NumShards
    BY <1>0, <2>1 DEF Shards
  <2>3. IsSums(f, counts, NumShards) /\ IsSums(g, counts', NumShards)
    BY <1>0, <2>2, SumsAreSums DEF f
  <2>4. \A s \in 0..NumShards : g[s] = IF s > k THEN f[s] + 1 ELSE f[s]
    <3>1. \A s \in Shards : counts'[s] = IF s = k THEN counts[s] + 1 ELSE counts[s]
      BY <1>0, <2>1
    <3> HIDE DEF g, k
    <3>2. Raised(f, g, k)
      BY <1>0, <2>1, <2>2, <2>3, <3>1, SumsAfterAdd
    <3> QED BY <3>2 DEF Raised
  <2>5. total' = g /\ Total' = g[NumShards]
    BY TotalIsSums
  <2> HIDE DEF g, k
  <2>6. g[NumShards] = f[NumShards] + 1 /\ g[at] \in {f[at], f[at] + 1}
    BY <1>0, <2>2, <2>4
  <2>7. /\ f[at] \in Nat /\ f[NumShards] \in Nat
    BY <1>0, <1>1
  <2>8. ReadSoFar'
    <3>1. g[NumShards] = f[NumShards] + 1
      BY <2>6
    <3>2. PICK a \in Nat, z \in Nat : a = f[at] /\ z = f[NumShards]
      BY <2>7
    <3>3. PICK b \in {a, a + 1} : b = g[at]
      BY <2>6, <3>2
    <3>4. sum <= a /\ (at < NumShards => floor + a <= sum + z)
      BY <1>2, <3>2
    <3>5. sum <= b /\ (at < NumShards => floor + b <= sum + (z + 1))
      BY <1>0, <3>3, <3>4
    <3> QED BY <2>1, <2>5, <3>1, <3>2, <3>3, <3>5 DEF ReadSoFar
  <2>9. ReadTypes' /\ ~(at < NumShards /\ at' = NumShards)
    BY <1>0, <2>1, <2>2 DEF ReadTypes
  <2> QED BY <2>8, <2>9 DEF ReadInv, ReturnsBounded
<1>5. CASE ReadStart
  <2>1. at' = 0 /\ sum' = 0 /\ floor' = f[NumShards] /\ UNCHANGED counts
    BY <1>2, <1>5 DEF ReadStart
  <2>2. total' = f /\ Total' = f[NumShards]
    BY <2>1, TotalIsSums DEF f
  <2>3. f[NumShards] \in Nat
    BY <1>0, <1>1
  <2>4. ReadTypes' /\ ReadSoFar' /\ at' # NumShards
    BY <1>0, <1>1, <2>1, <2>2, <2>3 DEF ReadTypes, ReadSoFar
  <2> QED BY <2>4 DEF ReadInv, ReturnsBounded
<1>6. CASE ReadShard
  <2>1. /\ at < NumShards /\ sum' = sum + counts[at] /\ at' = at + 1
        /\ last' = IF at' = NumShards THEN sum' ELSE last
        /\ UNCHANGED <<counts, floor>>
    BY <1>6 DEF ReadShard, pool
  <2>2. at \in Shards /\ at \in 0..NumShards /\ at + 1 \in 0..NumShards
    BY <1>0, <2>1 DEF Shards
  <2>3. /\ f[at + 1] = f[at] + counts[at] /\ counts[at] \in Nat
        /\ f[at] \in Nat /\ f[at + 1] \in Nat /\ f[NumShards] \in Nat
    BY <1>0, <1>1, <2>2
  <2>4. total' = f /\ Total' = f[NumShards]
    BY <2>1, TotalIsSums DEF f
  <2>5. sum' \in Nat /\ sum' <= f[at + 1] /\ floor + f[at + 1] <= sum' + f[NumShards]
    <3>1. PICK a \in Nat, c \in Nat, z \in Nat :
               a = f[at] /\ c = counts[at] /\ z = f[NumShards]
      BY <2>3
    <3>2. sum <= a /\ floor + a <= sum + z
      BY <1>2, <2>1, <3>1
    <3>3. sum + c \in Nat /\ sum + c <= a + c /\ floor + (a + c) <= (sum + c) + z
      BY <1>0, <3>2
    <3>4. sum' = sum + c /\ f[at + 1] = a + c
      BY <2>1, <2>3, <3>1
    <3> QED BY <3>1, <3>3, <3>4
  <2>6. ReadTypes' /\ ReadSoFar'
    BY <1>0, <2>1, <2>2, <2>4, <2>5 DEF ReadTypes, ReadSoFar
  <2>7. ReturnsBounded
    BY <1>0, <2>1, <2>3, <2>4, <2>5 DEF ReturnsBounded
  <2> QED BY <2>6, <2>7 DEF ReadInv
<1>7. ASSUME NEW t \in Threads,
             \/ Start(t) \/ Assign(t) \/ Exit(t) \/ DropLease(t) \/ Die(t)
             \/ \E i \in Shards : SetShard(t, i)
      PROVE  ReadInv' /\ ReturnsBounded
  <2>1. UNCHANGED <<counts, at, sum, floor>>
    BY <1>7 DEF Start, Assign, Exit, DropLease, Die, SetShard, reader
  <2> QED BY <1>3, <2>1
<1>8. CASE UNCHANGED vars
  BY <1>3, <1>8 DEF vars
<1> QED BY <1>4, <1>5, <1>6, <1>7, <1>8 DEF Next

\* A value a reader returns lies between the total when its read began and
\* the total when it ends, for any number of threads, shards and adds, and
\* wherever the adds fall between its loads (ShardedCounterGroup::value).
THEOREM ReadsAreBounded == Spec => ReadBounded
<1>1. Spec => [][ReturnsBounded]_vars
  BY ReadStarts, ReadStep, PTL DEF Spec
<1> QED BY <1>1 DEF ReadBounded, ReturnsBounded

-----------------------------------------------------------------------------
(***************************************************************************)
(* A theorem about GroupEntry, for any number of writers, any amounts and  *)
(* any width: a reader gets exactly the adds that took effect.             *)
(*                                                                         *)
(* A writer's compare-exchange succeeds only on the value it last loaded,  *)
(* so the sum moves by one amount at a time, whatever the others do        *)
(* between its load and its exchange.                                      *)
(***************************************************************************)

\* Nobody exchanges on an array that is not there, nor is it the caller's.
Allocated == entry = NotAllocated => ~external /\ \A t \in Adders : step[t] = "idle"
EntryInv == GETypeOK /\ Allocated /\ ReadsTheSum

-----------------------------------------------------------------------------
(* Sums modulo the width.                                                  *)

LEMMA RemainderRange ==
    ASSUME NEW x \in Nat, NEW m \in Nat \ {0}
    PROVE  x % m \in 0..(m - 1)
BY Z3

LEMMA RemainderOfSmall ==
    ASSUME NEW m \in Nat \ {0}, NEW x \in 0..(m - 1)
    PROVE  x % m = x
BY Z3

LEMMA Division ==
    ASSUME NEW x \in Nat, NEW m \in Nat \ {0}
    PROVE  x \div m \in Nat /\ x = m * (x \div m) + (x % m)
BY Z3

LEMMA RemainderIsUnique ==
    ASSUME NEW m \in Nat \ {0}, NEW q \in Nat, NEW r \in 0..(m - 1)
    PROVE  (m * q + r) % m = r
BY Z3

\* Adding less than the width to a remainder.
LEMMA RemainderOfSum ==
    ASSUME NEW m \in Nat \ {0}, NEW x \in Nat, NEW a \in 0..(m - 1)
    PROVE  ((x % m) + a) % m = (x + a) % m
<1> DEFINE q == x \div m
           r == x % m
<1>1. q \in Nat /\ x = m * q + r /\ r \in 0..(m - 1)
  BY Division, RemainderRange
<1> HIDE DEF q, r
<1>2. CASE r + a < m
  <2>1. r + a \in 0..(m - 1) /\ x + a = m * q + (r + a)
    <3>1. m * q \in Nat
      BY <1>1
    <3> QED BY <1>1, <1>2, <3>1
  <2>2. (x + a) % m = r + a
    BY <1>1, <2>1, RemainderIsUnique
  <2>3. (r + a) % m = r + a
    BY <2>1, RemainderOfSmall
  <2> QED BY <2>2, <2>3 DEF r
<1>3. CASE ~(r + a < m)
  <2>1. r + a - m \in 0..(m - 1) /\ r + a - m = a + r - m
    BY <1>1, <1>3
  <2>2. x + a = m * (q + 1) + (r + a - m) /\ q + 1 \in Nat
    <3>1. m * (q + 1) = m * q + m /\ m * q \in Nat
      BY <1>1
    <3> QED BY <1>1, <3>1
  <2>3. (x + a) % m = r + a - m
    BY <2>1, <2>2, RemainderIsUnique
  <2>4. r + a = m * 1 + (r + a - m)
    BY <1>1
  <2>5. (r + a) % m = r + a - m
    BY <2>1, <2>4, RemainderIsUnique
  <2> QED BY <2>3, <2>5 DEF r
<1> QED BY <1>2, <1>3

-----------------------------------------------------------------------------
LEMMA EntryInit == GEInit => EntryInv
<1> SUFFICES ASSUME GEInit PROVE EntryInv
  OBVIOUS
<1>1. 0 \in 0..(Modulus - 1) /\ NotAllocated # 0
  BY GEAssumption DEF NotAllocated
<1>2. GETypeOK
  BY <1>1 DEF GEInit, GETypeOK
<1> QED BY <1>2 DEF GEInit, EntryInv, Allocated, ReadsTheSum

LEMMA AttachKeeps == ASSUME EntryInv, Attach PROVE EntryInv'
<1>1. 0 \in 0..(Modulus - 1) /\ 0 # NotAllocated /\ Unwritten # 0 /\ Unwritten # NotAllocated
  BY GEAssumption DEF NotAllocated, Unwritten
<1>2. GETypeOK'
  BY <1>1 DEF Attach, EntryInv, GETypeOK
<1>3. ReadsTheSum'
  <2>1. 0 % Modulus = 0
    BY <1>1, GEAssumption, RemainderOfSmall
  <2>2. ~met => landed = 0
    <3>1. landed % Modulus # NotAllocated
      BY GEAssumption, RemainderRange DEF EntryInv, GETypeOK, NotAllocated
    <3> QED BY <1>1, <3>1 DEF Attach, EntryInv, ReadsTheSum
  <2> QED BY <1>1, <2>1, <2>2 DEF Attach, ReadsTheSum
<1> QED BY <1>1, <1>2, <1>3 DEF Attach, EntryInv, Allocated

LEMMA BeginKeeps == ASSUME EntryInv, NEW t \in Adders, AddBegin(t) PROVE EntryInv'
<1>1. Unwritten \in 0..(Modulus - 1) /\ Unwritten # NotAllocated
  BY GEAssumption DEF NotAllocated, Unwritten
<1>2. entry' = IF entry = NotAllocated THEN Unwritten ELSE entry
  BY DEF AddBegin
<1>3. entry' \in 0..(Modulus - 1) /\ entry' # NotAllocated
  <2>1. NotAllocated \notin 0..(Modulus - 1)
    BY DEF NotAllocated
  <2> QED BY <1>1, <1>2, <2>1 DEF EntryInv, GETypeOK
<1>4. GETypeOK'
  <2>1. PICK a \in Amounts : amount' = [amount EXCEPT ![t] = a]
    BY DEF AddBegin
  <2>2. amount' \in [Adders -> 0..Modulus - 1]
    BY <2>1, GEAssumption DEF EntryInv, GETypeOK
  <2>3. /\ step' = [step EXCEPT ![t] = "swap"] /\ current' = [current EXCEPT ![t] = entry']
        /\ begun' = begun + 1 /\ UNCHANGED <<external, landed, met>>
    BY DEF AddBegin
  <2>4. begun' \in Nat /\ step' \in [Adders -> {"idle", "swap"}]
    BY <2>3 DEF EntryInv, GETypeOK
  <2>5. current' \in [Adders -> 0..Modulus - 1]
    BY <1>3, <2>3 DEF EntryInv, GETypeOK
  <2> QED BY <1>3, <2>2, <2>3, <2>4, <2>5 DEF EntryInv, GETypeOK
<1>5. ReadsTheSum'
  <2>1. landed % Modulus # NotAllocated
    BY GEAssumption, RemainderRange DEF EntryInv, GETypeOK, NotAllocated
  <2>2. entry = NotAllocated /\ ~met => landed = 0
    BY <1>1, <2>1 DEF EntryInv, ReadsTheSum
  <2>3. UNCHANGED <<external, landed, met>>
    BY DEF AddBegin
  <2>4. entry = NotAllocated => ~external
    BY DEF EntryInv, Allocated
  <2> QED BY <1>1, <1>2, <2>2, <2>3, <2>4 DEF EntryInv, ReadsTheSum
<1> QED BY <1>3, <1>4, <1>5 DEF EntryInv, Allocated

LEMMA SwapKeeps == ASSUME EntryInv, NEW t \in Adders, AddSwap(t) PROVE EntryInv'
<1> DEFINE a == amount[t]
<1>1. /\ a \in 0..(Modulus - 1) /\ landed \in Nat /\ Modulus \in Nat \ {0, 1}
      /\ entry # NotAllocated
  BY GEAssumption DEF AddSwap, EntryInv, GETypeOK, Allocated
<1>2. /\ entry' = IF entry = Unwritten THEN a ELSE (entry + a) % Modulus
      /\ landed' = landed + a /\ met' = (met \/ entry' = Unwritten)
      /\ external' = external /\ begun' = begun
      /\ step' = [step EXCEPT ![t] = "idle"]
      /\ current' = [current EXCEPT ![t] = 0] /\ amount' = [amount EXCEPT ![t] = 0]
  BY DEF AddSwap, SumOf
<1>3. entry \in 0..(Modulus - 1)
  BY <1>1 DEF EntryInv, GETypeOK
<1> HIDE DEF a
<1>4. entry' \in 0..(Modulus - 1) /\ entry' # NotAllocated
  <2>1. (entry + a) % Modulus \in 0..(Modulus - 1)
    <3>1. entry + a \in Nat
      BY <1>1, <1>3
    <3> QED BY <1>1, <3>1, RemainderRange
  <2>2. entry' \in 0..(Modulus - 1)
    BY <1>1, <1>2, <2>1
  <2> QED BY <2>2, <1>1 DEF NotAllocated
<1>5. GETypeOK'
  <2>1. 0 \in 0..(Modulus - 1) /\ landed' \in Nat
    BY <1>1, <1>2
  <2> QED BY <1>2, <1>4, <2>1 DEF EntryInv, GETypeOK
<1>6. ReadsTheSum'
  <2> SUFFICES ASSUME ~met' PROVE entry' = landed' % Modulus /\ entry' # Unwritten
    BY DEF ReadsTheSum
  <2>1. ~met /\ entry' # Unwritten
    BY <1>2
  <2>2. CASE entry = Unwritten
    <3>1. landed = 0
      BY <1>1, <2>1, <2>2 DEF EntryInv, ReadsTheSum
    <3>2. entry' = a /\ landed' = a
      BY <1>1, <1>2, <2>2, <3>1
    <3> QED BY <1>1, <2>1, <3>2, RemainderOfSmall
  <2>3. CASE entry # Unwritten
    <3>1. entry = landed % Modulus
      BY <1>1, <2>1, <2>3 DEF EntryInv, ReadsTheSum
    <3>2. entry' = ((landed % Modulus) + a) % Modulus
      BY <1>2, <2>3, <3>1
    <3> QED BY <1>1, <1>2, <2>1, <3>2, RemainderOfSum
  <2> QED BY <2>2, <2>3
<1> QED BY <1>4, <1>5, <1>6 DEF EntryInv, Allocated

LEMMA RetryKeeps == ASSUME EntryInv, NEW t \in Adders, AddRetry(t) PROVE EntryInv'
<1>1. entry # NotAllocated
  BY DEF AddRetry, EntryInv, Allocated
<1>2. GETypeOK'
  BY <1>1 DEF AddRetry, EntryInv, GETypeOK
<1> QED BY <1>2 DEF AddRetry, EntryInv, Allocated, ReadsTheSum

LEMMA EntryStep == EntryInv /\ [GENext]_gevars => EntryInv'
<1> SUFFICES ASSUME EntryInv, [GENext]_gevars PROVE EntryInv'
  OBVIOUS
<1>1. CASE UNCHANGED gevars
  BY <1>1 DEF gevars, EntryInv, GETypeOK, Allocated, ReadsTheSum
<1> QED BY <1>1, AttachKeeps, BeginKeeps, SwapKeeps, RetryKeeps DEF GENext

\* However many writers add at once, and however their exchanges fail, a
\* reader gets the sum of the adds that took effect, modulo the width.
THEOREM AddsAreAllRead == GESpec => []ReadsTheSum
<1>1. EntryInv => ReadsTheSum
  BY DEF EntryInv
<1> QED BY EntryInit, EntryStep, <1>1, PTL DEF GESpec

-----------------------------------------------------------------------------
(***************************************************************************)
(* Theorems about WindowedValues, for any number of callers: a value is    *)
(* read with the window of its own call, and never an old one.             *)
(*                                                                         *)
(* Readers that found the lock are covered by it; the others began before  *)
(* any call returned, so no pair is there that they could miss.            *)
(***************************************************************************)

Writing == {"force", "store", "stamp"}
Reading == {"value", "window"}

\* Who holds the lock, and how.
Exclusive ==
    /\ \A t \in Callers : pc[t] \in Writing <=> holder = t
    /\ \A t \in Callers : pc[t] \in Reading <=> t \in readers
    /\ holder # Nobody => readers = {}

\* Calls return in the order in which they get the lock.
Counted ==
    /\ holder = Nobody => done = calls
    /\ holder # Nobody => arg[holder] = calls /\ done = calls - 1

\* The pair is that of the last call that returned, until the next one stores.
PairStands ==
    holder = Nobody \/ pc[holder] \in {"force", "store"} =>
        /\ done = 0 => window = NoWindow
        /\ done > 0 => /\ value = done
                       /\ window = done \/ (kind = "gauge_histogram" /\ window = NoWindow)
Stored == holder # Nobody /\ pc[holder] = "stamp" => value = arg[holder]

\* Until the lock is there nothing was written, and who did not find it
\* began by then.
BareIsEarly ==
    /\ ~cell => calls = 0 /\ \A t \in Callers : pc[t] \in {"idle", "bare"}
    /\ \A t \in Callers : since[t] <= done /\ (pc[t] = "bare" => since[t] = 0)

SeenStands == \A t \in Callers : pc[t] = "window" => seen[t].value = value

PairInv ==
    /\ WVTypeOK
    /\ \A t \in Callers : pc[t] # "load"
    /\ Exclusive /\ Counted /\ PairStands /\ Stored /\ BareIsEarly /\ SeenStands
    /\ PairedWithItsOwnWindow /\ ReadsWhatWasWritten

\* An exposed histogram is not read under the lock.
WVInv == kind = "exposed" \/ PairInv

USE DEF Go, Writing, Reading

LEMMA PairInit == WVInit => WVInv
<1> SUFFICES ASSUME WVInit PROVE PairInv
  BY DEF WVInv
<1>1. WVTypeOK
  <2>1. Absent \in Int /\ NoWindow \in Nat
    BY DEF Absent, NoWindow
  <2>2. got \in [value : Int, window : Nat, since : Nat]
    BY <2>1 DEF WVInit, NoPair
  <2>3. seen \in [Callers -> [value : Int, window : Nat]]
    BY <2>1 DEF WVInit
  <2>4. pc \in [Callers -> {"idle", "acquire", "force", "store", "stamp",
                            "bare", "share", "value", "window", "load"}]
    BY DEF WVInit
  <2> QED BY <2>1, <2>2, <2>3, <2>4 DEF WVInit, WVTypeOK
<1>2. Exclusive /\ Counted /\ PairStands /\ Stored /\ BareIsEarly /\ SeenStands
  BY WVAssumption DEF WVInit, Exclusive, Counted, PairStands, Stored, BareIsEarly, SeenStands
<1>3. PairedWithItsOwnWindow /\ ReadsWhatWasWritten /\ \A t \in Callers : pc[t] # "load"
  BY DEF WVInit, PairedWithItsOwnWindow, Paired, ReadsWhatWasWritten, NoPair
<1> QED BY <1>1, <1>2, <1>3 DEF PairInv

LEMMA SetBeginKeeps ==
    ASSUME PairInv, NEW t \in Callers, SetBegin(t) PROVE PairInv'
<1>1. WVTypeOK'
  BY DEF SetBegin, PairInv, WVTypeOK, Zeroed
<1>2. Exclusive' /\ Counted' /\ BareIsEarly' /\ \A u \in Callers : pc'[u] # "load"
  BY DEF SetBegin, PairInv, WVTypeOK, Exclusive, Counted, BareIsEarly
<1>3. holder # Nobody => cell
  BY DEF PairInv, WVTypeOK, Exclusive, BareIsEarly
<1>4. holder # t
  BY DEF SetBegin, PairInv, Exclusive
<1>5. ~cell => done = 0
  BY <1>3 DEF PairInv, Counted, BareIsEarly
<1>6. PairStands' /\ Stored' /\ SeenStands'
  BY <1>3, <1>4, <1>5 DEF SetBegin, PairInv, WVTypeOK, PairStands, Stored, SeenStands, BareIsEarly
<1> QED BY <1>1, <1>2, <1>6
        DEF SetBegin, PairInv, PairedWithItsOwnWindow, ReadsWhatWasWritten

LEMMA SetAcquireKeeps ==
    ASSUME PairInv, NEW t \in Callers, SetAcquire(t) PROVE PairInv'
<1>1. WVTypeOK'
  BY DEF SetAcquire, PairInv, WVTypeOK
<1>2. t # Nobody
  BY WVAssumption
<1>3. Exclusive' /\ \A u \in Callers : pc'[u] # "load"
  <2>1. /\ \A u \in Callers : pc'[u] = IF u = t THEN "force" ELSE pc[u]
        /\ holder = Nobody /\ holder' = t /\ readers = {} /\ readers' = {}
    BY DEF SetAcquire, PairInv, WVTypeOK
  <2>2. \A u \in Callers : pc[u] \notin Writing /\ pc[u] \notin Reading
    BY <2>1, WVAssumption DEF PairInv, Exclusive
  <2> QED BY <1>2, <2>1, <2>2 DEF PairInv, Exclusive
<1>5. BareIsEarly'
  BY <1>2 DEF SetAcquire, PairInv, WVTypeOK, BareIsEarly
<1>4. Counted' /\ PairStands' /\ Stored' /\ SeenStands'
  BY <1>2 DEF SetAcquire, PairInv, WVTypeOK, Counted, PairStands, Stored, SeenStands
<1> QED BY <1>1, <1>3, <1>4, <1>5
        DEF SetAcquire, PairInv, PairedWithItsOwnWindow, ReadsWhatWasWritten

LEMMA SetForceKeeps ==
    ASSUME PairInv, NEW t \in Callers, SetForce(t) PROVE PairInv'
<1>1. WVTypeOK'
  BY DEF SetForce, PairInv, WVTypeOK, Zeroed
<1>2. holder = t /\ t # Nobody /\ readers = {}
  BY WVAssumption DEF SetForce, PairInv, Exclusive
<1>3. Exclusive' /\ Counted' /\ BareIsEarly' /\ \A u \in Callers : pc'[u] # "load"
  BY <1>2 DEF SetForce, PairInv, WVTypeOK, Exclusive, Counted, BareIsEarly
<1>4. PairStands' /\ Stored'
  BY <1>2 DEF SetForce, PairInv, WVTypeOK, PairStands, Stored, Absent
<1>5. SeenStands'
  BY <1>2 DEF SetForce, PairInv, WVTypeOK, Exclusive, SeenStands
<1> QED BY <1>1, <1>3, <1>4, <1>5
        DEF SetForce, PairInv, PairedWithItsOwnWindow, ReadsWhatWasWritten

LEMMA SetStoreKeeps ==
    ASSUME PairInv, NEW t \in Callers, SetStore(t) PROVE PairInv'
<1>1. WVTypeOK'
  BY DEF SetStore, PairInv, WVTypeOK
<1>2. holder = t /\ t # Nobody /\ readers = {}
  BY WVAssumption DEF SetStore, PairInv, Exclusive
<1>3. Exclusive' /\ Counted' /\ BareIsEarly' /\ \A u \in Callers : pc'[u] # "load"
  BY <1>2 DEF SetStore, PairInv, WVTypeOK, Exclusive, Counted, BareIsEarly
<1>4. PairStands' /\ Stored'
  BY <1>2 DEF SetStore, PairInv, WVTypeOK, PairStands, Stored
<1>5. SeenStands'
  BY <1>2 DEF SetStore, PairInv, WVTypeOK, Exclusive, SeenStands
<1> QED BY <1>1, <1>3, <1>4, <1>5
        DEF SetStore, PairInv, PairedWithItsOwnWindow, ReadsWhatWasWritten

LEMMA SetStampKeeps ==
    ASSUME PairInv, NEW t \in Callers, SetStamp(t) PROVE PairInv'
<1>1. WVTypeOK'
  BY DEF SetStamp, PairInv, WVTypeOK, NoWindow
<1>2. holder = t /\ t # Nobody /\ arg[t] = calls /\ done = calls - 1 /\ value = arg[t]
  BY WVAssumption DEF SetStamp, PairInv, Exclusive, Counted, Stored
<1>3. Exclusive' /\ Counted' /\ \A u \in Callers : pc'[u] # "load"
  <2>1. /\ \A u \in Callers : pc'[u] = IF u = t THEN "idle" ELSE pc[u]
        /\ holder' = Nobody /\ readers' = readers
        /\ done' = arg[t] /\ calls' = calls /\ pc[t] = "stamp"
    BY DEF SetStamp, PairInv, WVTypeOK
  <2>2. \A u \in Callers : u # t => pc[u] \notin Writing
    BY <1>2 DEF PairInv, Exclusive
  <2>3. Exclusive'
    BY <1>2, <2>1, <2>2, WVAssumption DEF PairInv, Exclusive
  <2>4. Counted'
    BY <1>2, <2>1 DEF Counted
  <2> QED BY <2>1, <2>3, <2>4 DEF PairInv
<1>4. BareIsEarly'
  BY <1>2 DEF SetStamp, PairInv, WVTypeOK, BareIsEarly
<1>5. PairStands' /\ Stored' /\ SeenStands'
  BY <1>2 DEF SetStamp, PairInv, WVTypeOK, PairStands, Stored, SeenStands, NoWindow
<1> QED BY <1>1, <1>3, <1>4, <1>5
        DEF SetStamp, PairInv, PairedWithItsOwnWindow, ReadsWhatWasWritten

-----------------------------------------------------------------------------
LEMMA ReadBeginKeeps ==
    ASSUME PairInv, NEW t \in Callers, ReadBegin(t) PROVE PairInv'
<1>1. WVTypeOK'
  BY DEF ReadBegin, PairInv, WVTypeOK, Absent, NoWindow
<1>2. Exclusive' /\ Counted' /\ \A u \in Callers : pc'[u] # "load"
  BY DEF ReadBegin, PairInv, WVTypeOK, Exclusive, Counted
<1>3. ~cell => done = 0
  BY DEF PairInv, WVTypeOK, Exclusive, Counted, BareIsEarly
<1>4. BareIsEarly'
  BY <1>3 DEF ReadBegin, PairInv, WVTypeOK, BareIsEarly
<1>5. PairStands' /\ Stored' /\ SeenStands'
  BY DEF ReadBegin, PairInv, WVTypeOK, Exclusive, PairStands, Stored, SeenStands
<1> QED BY <1>1, <1>2, <1>4, <1>5
        DEF ReadBegin, PairInv, PairedWithItsOwnWindow, ReadsWhatWasWritten

LEMMA ReadBareKeeps ==
    ASSUME PairInv, NEW t \in Callers, ReadBare(t) PROVE PairInv'
<1>1. WVTypeOK'
  BY DEF ReadBare, PairInv, WVTypeOK, BareValue, Absent, NoWindow
<1>2. Exclusive' /\ Counted' /\ BareIsEarly' /\ \A u \in Callers : pc'[u] # "load"
  BY DEF ReadBare, PairInv, WVTypeOK, Exclusive, Counted, BareIsEarly
<1>3. PairStands' /\ Stored' /\ SeenStands'
  BY DEF ReadBare, PairInv, WVTypeOK, Exclusive, PairStands, Stored, SeenStands
<1>4. got'.since = 0 /\ got'.window = NoWindow
  BY DEF ReadBare, PairInv, BareIsEarly
<1>5. PairedWithItsOwnWindow' /\ ReadsWhatWasWritten'
  BY <1>4 DEF PairedWithItsOwnWindow, Paired, ReadsWhatWasWritten
<1> QED BY <1>1, <1>2, <1>3, <1>5 DEF PairInv

LEMMA ReadShareKeeps ==
    ASSUME PairInv, NEW t \in Callers, ReadShare(t) PROVE PairInv'
<1>1. WVTypeOK'
  BY DEF ReadShare, PairInv, WVTypeOK
<1>2. Exclusive' /\ Counted' /\ BareIsEarly' /\ \A u \in Callers : pc'[u] # "load"
  BY DEF ReadShare, PairInv, WVTypeOK, Exclusive, Counted, BareIsEarly
<1>3. PairStands' /\ Stored' /\ SeenStands'
  BY DEF ReadShare, PairInv, WVTypeOK, PairStands, Stored, SeenStands
<1> QED BY <1>1, <1>2, <1>3
        DEF ReadShare, PairInv, PairedWithItsOwnWindow, ReadsWhatWasWritten

LEMMA ReadValueKeeps ==
    ASSUME PairInv, NEW t \in Callers, ReadValue(t) PROVE PairInv'
<1>1. WVTypeOK'
  BY DEF ReadValue, PairInv, WVTypeOK
<1>2. Exclusive' /\ Counted' /\ BareIsEarly' /\ \A u \in Callers : pc'[u] # "load"
  BY DEF ReadValue, PairInv, WVTypeOK, Exclusive, Counted, BareIsEarly
<1>3. PairStands' /\ Stored' /\ SeenStands'
  BY DEF ReadValue, PairInv, WVTypeOK, Exclusive, PairStands, Stored, SeenStands
<1> QED BY <1>1, <1>2, <1>3
        DEF ReadValue, PairInv, PairedWithItsOwnWindow, ReadsWhatWasWritten

LEMMA ReadWindowKeeps ==
    ASSUME PairInv, kind # "exposed", NEW t \in Callers, ReadWindow(t) PROVE PairInv'
<1>1. WVTypeOK'
  BY DEF ReadWindow, PairInv, WVTypeOK
<1>2. Exclusive' /\ Counted' /\ BareIsEarly' /\ \A u \in Callers : pc'[u] # "load"
  BY DEF ReadWindow, PairInv, WVTypeOK, Exclusive, Counted, BareIsEarly
<1>3. PairStands' /\ Stored' /\ SeenStands'
  BY DEF ReadWindow, PairInv, WVTypeOK, Exclusive, PairStands, Stored, SeenStands
<1>4. holder = Nobody /\ got' = [value |-> value, window |-> window, since |-> since[t]]
  BY DEF ReadWindow, PairInv, Exclusive, SeenStands
<1>5. since[t] <= done
  BY DEF PairInv, BareIsEarly
<1>6. PairedWithItsOwnWindow' /\ ReadsWhatWasWritten'
  <2>1. kind' = kind /\ done \in Nat /\ since[t] \in Nat
    BY DEF ReadWindow, PairInv, WVTypeOK
  <2>2. /\ done = 0 => window = NoWindow
        /\ done > 0 => /\ value = done
                       /\ window = done \/ (kind = "gauge_histogram" /\ window = NoWindow)
    BY <1>4 DEF PairInv, PairStands
  <2>3. PairedWithItsOwnWindow'
    BY <1>4, <2>1, <2>2 DEF PairedWithItsOwnWindow, Paired, NoWindow
  <2>4. ReadsWhatWasWritten'
    BY <1>4, <1>5, <2>1, <2>2 DEF ReadsWhatWasWritten
  <2> QED BY <2>3, <2>4
<1> QED BY <1>1, <1>2, <1>3, <1>6 DEF PairInv

-----------------------------------------------------------------------------
LEMMA PairStep == WVInv /\ [WVNext]_wvvars => WVInv'
<1> SUFFICES ASSUME WVInv, [WVNext]_wvvars PROVE WVInv'
  OBVIOUS
<1>1. kind' = kind
  BY DEF WVNext, WVSet, WVRead, SetBegin, SetAcquire, SetForce, SetStore, SetStamp, ReadBegin,
         ReadBare, ReadShare, ReadValue, ReadWindow, ExposeWindow, ExposeLoad, wvvars
<1>2. CASE kind = "exposed"
  BY <1>1, <1>2 DEF WVInv
<1>3. CASE kind # "exposed"
  <2>1. PairInv
    BY <1>3 DEF WVInv
  <2>2. ASSUME NEW t \in Callers, WVSet(t) PROVE PairInv'
    BY <2>1, <2>2, SetBeginKeeps, SetAcquireKeeps, SetForceKeeps, SetStoreKeeps, SetStampKeeps
       DEF WVSet
  <2>3. ASSUME NEW t \in Callers, WVRead(t) PROVE PairInv'
    <3>1. ~ExposeWindow(t) /\ ~ExposeLoad(t)
      BY <1>3, <2>1 DEF ExposeWindow, ExposeLoad, PairInv
    <3> QED BY <1>3, <2>1, <2>3, <3>1, ReadBeginKeeps, ReadBareKeeps, ReadShareKeeps,
               ReadValueKeeps, ReadWindowKeeps
            DEF WVRead
  <2>4. ASSUME UNCHANGED wvvars PROVE PairInv'
    <3>1. WVTypeOK'
      BY <2>1, <2>4 DEF wvvars, PairInv, WVTypeOK
    <3>2. Exclusive' /\ Counted' /\ BareIsEarly' /\ \A t \in Callers : pc'[t] # "load"
      BY <2>1, <2>4 DEF wvvars, PairInv, Exclusive, Counted, BareIsEarly
    <3>3. PairStands' /\ Stored' /\ SeenStands'
      BY <2>1, <2>4 DEF wvvars, PairInv, PairStands, Stored, SeenStands
    <3> QED BY <2>1, <2>4, <3>1, <3>2, <3>3
            DEF wvvars, PairInv, PairedWithItsOwnWindow, Paired, ReadsWhatWasWritten
  <2>5. PairInv'
    BY <2>2, <2>3, <2>4 DEF WVNext
  <2> QED BY <2>5 DEF WVInv
<1> QED BY <1>2, <1>3

\* Whatever writers and readers overlap, and whoever allocates the lock, a
\* value is read with the window it was written with, or with none.
THEOREM PairsAreRead == WVSpec => []PairedWithItsOwnWindow
<1>1. WVInv => PairedWithItsOwnWindow
  BY DEF WVInv, PairInv, PairedWithItsOwnWindow
<1> QED BY PairInit, PairStep, <1>1, PTL DEF WVSpec

\* A read that begins after a call returned has that call's pair or a later
\* one, also when it and the first call race for the lock.
THEOREM ReadsAreCurrent == WVSpec => []ReadsWhatWasWritten
<1>1. WVInv => ReadsWhatWasWritten
  BY DEF WVInv, PairInv, ReadsWhatWasWritten
<1> QED BY PairInit, PairStep, <1>1, PTL DEF WVSpec
=============================================================================
