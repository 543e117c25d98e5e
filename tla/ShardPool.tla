----------------------------- MODULE ShardPool -----------------------------
(***************************************************************************)
(* Sharded counters (metriken/src/sharded.rs): threads take a shard from a *)
(* pool on their first write, write to it, and return it at exit; a reader *)
(* sums a slot over all shards without stopping the writers.               *)
(*                                                                         *)
(* A thread's own thread-locals (SHARD_ID, SHARD_LEASE) are invisible to   *)
(* the others, so a step is one access to shared memory, the pool under    *)
(* its mutex or one atomic of one shard, with the thread-local work around *)
(* it.                                                                     *)
(***************************************************************************)
EXTENDS Naturals, Sequences, FiniteSets

CONSTANTS Threads,          \* threads ever started
          NumShards,        \* NUM_SHARDS
          MaxAdds           \* bound: increments in a behaviour

ASSUME ShardPoolAssumption ==
    /\ IsFiniteSet(Threads)
    /\ NumShards \in Nat \ {0}
    /\ MaxAdds \in Nat

Shards == 0..(NumShards - 1)

\* SHARD_LEASE before its first use, empty, and after its destructor ran;
\* SHARD_ID unset.
Uninit == NumShards
NoLease == NumShards + 1
Destroyed == NumShards + 2
NoId == NumShards

VARIABLES
    stage,                  \* a thread's life; "exiting" runs its TLS destructors
    id,                     \* SHARD_ID
    lease,                  \* SHARD_LEASE
    free, fresh, overflow,  \* ShardPool, under its mutex
    counts,                 \* one slot's count in each shard
    at, sum,                \* the reader: next shard to load, sum so far
    floor, last,            \* history: total when the read began, last value read
    peak                    \* history: most leases held at once

pool == <<free, fresh, overflow>>
reader == <<at, sum, floor, last>>
vars == <<stage, id, lease, free, fresh, overflow, counts, at, sum, floor, last, peak>>

Stages == {"unborn", "live", "exiting", "dead"}

Init ==
    /\ stage = [t \in Threads |-> "unborn"]
    /\ id = [t \in Threads |-> NoId]
    /\ lease = [t \in Threads |-> Uninit]
    /\ free = <<>> /\ fresh = 0 /\ overflow = 0
    /\ counts = [s \in Shards |-> 0]
    /\ at = NumShards /\ sum = 0 /\ floor = 0 /\ last = 0
    /\ peak = 0

Running(t) == stage[t] \in {"live", "exiting"}
Holders == {t \in Threads : lease[t] \in Shards}
total[s \in 0..NumShards] == IF s = 0 THEN 0 ELSE total[s - 1] + counts[s - 1]
Total == total[NumShards]

(* Variants a slip in this code would give; TLC refutes a property on each. *)
\* a thread that shares a shard gives it back as if it had leased it.
OverflowLeased(t) ==
    /\ free = <<>> /\ fresh = NumShards
    /\ overflow' = overflow + 1
    /\ id' = [id EXCEPT ![t] = NumShards - 1 - (overflow' % NumShards)]
    /\ lease' = [lease EXCEPT ![t] = id'[t]]
    /\ UNCHANGED <<free, fresh>>
\* a lease dropped without returning its shard.
GiveNothing(t) == free' = free
\* a read that goes on from the last one's sum.
ReadStartKeepsSum ==
    /\ at = NumShards
    /\ at' = 0 /\ floor' = Total
    /\ UNCHANGED <<stage, id, lease, pool, counts, sum, last, peak>>
-----------------------------------------------------------------------------
Start(t) ==
    /\ stage[t] = "unborn"
    /\ stage' = [stage EXCEPT ![t] = "live"]
    /\ UNCHANGED <<id, lease, pool, counts, reader, peak>>

\* ShardPool::take for a thread: a leased shard, stored unless this
\* thread's lease was destroyed already (then the shard would leak).
Leased(t, s) ==
    /\ id' = [id EXCEPT ![t] = s]
    /\ lease' = IF lease[t] = Destroyed THEN lease ELSE [lease EXCEPT ![t] = s]

TakeFree(t) ==
    /\ free # <<>>
    /\ Leased(t, free[Len(free)])
    /\ free' = SubSeq(free, 1, Len(free) - 1)
    /\ UNCHANGED <<fresh, overflow>>

TakeFresh(t) ==
    /\ free = <<>> /\ fresh < NumShards
    /\ fresh' = fresh + 1
    /\ Leased(t, NumShards - fresh')
    /\ UNCHANGED <<free, overflow>>

\* Every shard is leased: share one, without a lease.
TakeOverflow(t) ==
    /\ free = <<>> /\ fresh = NumShards
    /\ overflow' = overflow + 1
    /\ id' = [id EXCEPT ![t] = NumShards - 1 - (overflow' % NumShards)]
    /\ UNCHANGED <<lease, free, fresh>>

Take(t) == TakeFree(t) \/ TakeFresh(t) \/ TakeOverflow(t)

\* assign_thread_shard: the first write of a thread without a shard id.
Assign(t) ==
    /\ Running(t) /\ id[t] = NoId
    /\ Take(t)
    /\ peak' = IF Cardinality(Holders') > peak THEN Cardinality(Holders') ELSE peak
    /\ UNCHANGED <<stage, counts, reader>>

\* ShardLease::drop.
Give(t) == free' = IF lease[t] \in Shards THEN Append(free, lease[t]) ELSE free

\* set_thread_shard, ids modulo NumShards.
SetShard(t, i) ==
    /\ Running(t)
    /\ id' = [id EXCEPT ![t] = i]
    /\ Give(t)
    /\ lease' = [lease EXCEPT ![t] = IF @ = Destroyed THEN @ ELSE NoLease]
    /\ UNCHANGED <<stage, fresh, overflow, counts, reader, peak>>

\* ShardedCounterGroup::add: one fetch_add on this thread's shard.
Add(t) ==
    /\ Running(t) /\ id[t] \in Shards /\ Total < MaxAdds
    /\ counts' = [counts EXCEPT ![id[t]] = @ + 1]
    /\ UNCHANGED <<stage, id, lease, pool, reader, peak>>

Exit(t) ==
    /\ stage[t] = "live"
    /\ stage' = [stage EXCEPT ![t] = "exiting"]
    /\ UNCHANGED <<id, lease, pool, counts, reader, peak>>

\* The destructor of SHARD_LEASE; other destructors may write before or after.
DropLease(t) ==
    /\ stage[t] = "exiting" /\ lease[t] \notin {Uninit, Destroyed}
    /\ Give(t)
    /\ lease' = [lease EXCEPT ![t] = Destroyed]
    /\ UNCHANGED <<stage, id, fresh, overflow, counts, reader, peak>>

Die(t) ==
    /\ stage[t] = "exiting" /\ lease[t] \in {Uninit, Destroyed}
    /\ stage' = [stage EXCEPT ![t] = "dead"]
    /\ UNCHANGED <<id, lease, pool, counts, reader, peak>>

-----------------------------------------------------------------------------
\* ShardedCounterGroup::value: load the slot of each shard in turn.
ReadStart ==
    /\ at = NumShards
    /\ at' = 0 /\ sum' = 0 /\ floor' = Total
    /\ UNCHANGED <<stage, id, lease, pool, counts, last, peak>>

ReadShard ==
    /\ at < NumShards
    /\ sum' = sum + counts[at]
    /\ at' = at + 1
    /\ last' = IF at' = NumShards THEN sum' ELSE last
    /\ UNCHANGED <<stage, id, lease, pool, counts, floor, peak>>

Next ==
    \/ \E t \in Threads :
        \/ Start(t) \/ Assign(t) \/ Add(t) \/ Exit(t) \/ DropLease(t) \/ Die(t)
        \/ \E i \in Shards : SetShard(t, i)
    \/ ReadStart
    \/ ReadShard

Spec == Init /\ [][Next]_vars

-----------------------------------------------------------------------------
PoolTypes ==
    /\ stage \in [Threads -> Stages]
    /\ id \in [Threads -> Shards \cup {NoId}]
    /\ lease \in [Threads -> Shards \cup {Uninit, NoLease, Destroyed}]
    /\ free \in Seq(Shards)
    /\ fresh \in 0..NumShards /\ overflow \in Nat

TypeOK ==
    /\ PoolTypes
    /\ counts \in [Shards -> Nat]
    /\ at \in 0..NumShards /\ sum \in Nat /\ floor \in Nat /\ last \in Nat
    /\ peak \in Nat

\* No two threads lease one shard, and a leased shard is not in the pool
\* (the doc of ShardPool: each shard is unused, leased to one thread, or free).
LeasesExclusive ==
    /\ \A t, u \in Threads : t # u /\ lease[t] \in Shards => lease[t] # lease[u]
    /\ \A t \in Threads, i \in 1..Len(free) : free[i] # lease[t]
    /\ \A i, j \in 1..Len(free) : i # j => free[i] # free[j]

\* Every shard handed out for the first time is leased or back in the pool:
\* none leaks, whatever TLS destructor writes last.
NoShardLeaks ==
    \A s \in Shards :
        s >= NumShards - fresh <=>
            (\E t \in Threads : lease[t] = s) \/ (\E i \in 1..Len(free) : free[i] = s)

\* The shards in use follow the most threads that held one at once, not the
\* number ever started.
InUseFollowsPeak == fresh = peak

\* A count, once added, is never lost, and a value read lies between the
\* total when the read began and the total now.
ReadBounded ==
    [][(at < NumShards /\ at' = NumShards) => (floor <= last' /\ last' <= Total')]_vars
=============================================================================
