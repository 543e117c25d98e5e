---------------------------- MODULE BlockCaches -----------------------------
(***************************************************************************)
(* The byte budgets of the reader's two caches: BufferPool                 *)
(* (metriken-storage/src/buffer_pool.rs) and SegmentCache                  *)
(* (metriken-storage/src/segmented.rs).                                    *)
(*                                                                         *)
(* A reader that misses decodes outside the lock and puts what it decoded, *)
(* so two readers may fill one key, and a key may be filled again with a   *)
(* block of another type or size.  The pool drops a block larger than its  *)
(* budget; the segment cache keeps the last one inserted whatever its      *)
(* size.  An entry is [key, type, size]; a cache is a sequence of them,    *)
(* the least recently used first, with the bytes it counts.                *)
(***************************************************************************)
EXTENDS Integers, Sequences, SequencesExt

CONSTANTS BlockKeys, Types,
          Sizes,            \* what a block may be charged
          Budget,           \* max_bytes
          Readers,
          MaxPuts           \* bound: blocks decoded

ASSUME BCAssumption ==
    /\ Budget \in Nat /\ Sizes \subseteq Nat /\ MaxPuts \in Nat

VARIABLES pool,             \* BufferPool
          kept,             \* SegmentCache
          filling,          \* what each reader decodes
          puts,             \* blocks decoded so far
          used              \* the keys used in the pool, the latest last

bcvars == <<pool, kept, filling, puts, used>>

Empty == [entries |-> <<>>, bytes |-> 0]

Idle == [key |-> 0, type |-> 0, size |-> 0, into |-> "none"]

BCInit ==
    /\ pool = Empty /\ kept = Empty
    /\ filling = [r \in Readers |-> Idle]
    /\ puts = 0
    /\ used = <<>>

\* Where a key's entry is, and the entries without it.
Holds(entries, key) == \E i \in DOMAIN entries : entries[i].key = key
Place(entries, key) == CHOOSE i \in DOMAIN entries : entries[i].key = key
Without(entries, key) ==
    IF Holds(entries, key) THEN RemoveAt(entries, Place(entries, key)) ELSE entries

\* The bytes of the n least recently used.
BytesOf(entries, n) ==
    LET upTo[i \in 0..Len(entries)] == IF i = 0 THEN 0 ELSE upTo[i - 1] + entries[i].size
    IN upTo[n]

\* saturating_sub
Less(a, b) == IF b > a THEN 0 ELSE a - b

\* The loop: the oldest out until `more` fits the budget, or only the last
\* `keep` are left.
PopUntil(cache, keep, more) ==
    LET n       == Len(cache.entries)
        left(i) == Less(cache.bytes, BytesOf(cache.entries, i))
        enough  == {i \in 0..n : i = n - keep \/ left(i) + more <= Budget}
        pops    == CHOOSE i \in enough : \A j \in enough : i <= j
    IN [entries |-> SubSeq(cache.entries, pops + 1, n), bytes |-> left(pops)]

\* A variant: the copy a block replaces is popped, and stays counted.
PutForgetful(cache, e) ==
    IF e.size > Budget THEN cache
    ELSE LET room == PopUntil(cache, 0, e.size)
         IN [entries |-> Append(Without(room.entries, e.key), e),
             bytes |-> room.bytes + e.size]

\* What is counted once the key's entry is taken out.
BytesWithout(cache, key) ==
    IF Holds(cache.entries, key)
    THEN Less(cache.bytes, cache.entries[Place(cache.entries, key)].size)
    ELSE cache.bytes

\* The entry in place of its key's, and the most recently used.
Replaced(cache, e) ==
    [entries |-> Append(Without(cache.entries, e.key), e),
     bytes |-> BytesWithout(cache, e.key) + e.size]

\* BufferPool::put: room is made before the copy it replaces is taken out.
Put(cache, e) ==
    IF e.size > Budget THEN cache ELSE Replaced(PopUntil(cache, 0, e.size), e)

\* SegmentCache::insert: never the one just inserted.
Insert(cache, e) == PopUntil(Replaced(cache, e), 1, 0)

-----------------------------------------------------------------------------
\* A get makes the entry the most recently used, of whatever type it is.
Touch(cache, key) ==
    IF ~Holds(cache.entries, key) THEN cache
    ELSE [cache EXCEPT !.entries = Append(Without(@, key), @[Place(@, key)])]

Moved(keys, key) ==
    Append(IF \E i \in DOMAIN keys : keys[i] = key
           THEN RemoveAt(keys, CHOOSE i \in DOMAIN keys : keys[i] = key) ELSE keys, key)

\* get_timestamps and the other gets: a block of another type is a miss, and
\* the reader decodes its own.
PoolGet(r, key, type) ==
    /\ filling[r] = Idle /\ puts < MaxPuts
    /\ LET hit == \E i \in DOMAIN pool.entries :
                     pool.entries[i].key = key /\ pool.entries[i].type = type
       IN IF hit THEN UNCHANGED <<filling, puts>>
          ELSE /\ puts' = puts + 1
               /\ \E n \in Sizes :
                     filling' = [filling EXCEPT ![r] =
                                    [key |-> key, type |-> type, size |-> n,
                                     into |-> "pool"]]
    /\ pool' = Touch(pool, key)
    /\ used' = IF Holds(pool.entries, key) THEN Moved(used, key) ELSE used
    /\ UNCHANGED kept

\* segment_kept: a miss fetches and parses the segment outside the lock.
SegmentGet(r, key) ==
    /\ filling[r] = Idle /\ puts < MaxPuts
    /\ IF Holds(kept.entries, key) THEN UNCHANGED <<filling, puts>>
       ELSE /\ puts' = puts + 1
            /\ \E n \in Sizes :
                  filling' = [filling EXCEPT ![r] =
                                 [key |-> key, type |-> 0, size |-> n,
                                  into |-> "kept"]]
    /\ kept' = Touch(kept, key)
    /\ UNCHANGED <<pool, used>>

Fill(r) ==
    /\ filling[r] # Idle
    /\ LET e == [key |-> filling[r].key, type |-> filling[r].type, size |-> filling[r].size]
       IN IF filling[r].into = "pool"
          THEN /\ pool' = Put(pool, e)
               /\ used' = IF e.size > Budget THEN used ELSE Moved(used, e.key)
               /\ UNCHANGED kept
          ELSE /\ kept' = Insert(kept, e)
               /\ UNCHANGED <<pool, used>>
    /\ filling' = [filling EXCEPT ![r] = Idle]
    /\ UNCHANGED puts

Clear ==
    /\ pool.entries # <<>>
    /\ pool' = Empty
    /\ UNCHANGED <<kept, filling, puts, used>>

BCNext ==
    \/ \E r \in Readers, k \in BlockKeys :
          SegmentGet(r, k) \/ \E t \in Types : PoolGet(r, k, t)
    \/ \E r \in Readers : Fill(r)
    \/ Clear

BCSpec == BCInit /\ [][BCNext]_bcvars

-----------------------------------------------------------------------------
\* Whatever order the fills of one key and its replacements come in, each
\* cache counts exactly what it holds, each key once; the pool is within its
\* budget, and the segment cache is unless it holds one segment; what the
\* pool has let go was used before all that it holds (the docs of BufferPool
\* and SegmentCache::insert).
CachesKeepTheirBudget ==
    /\ \A cache \in {pool, kept} :
          /\ cache.bytes = BytesOf(cache.entries, Len(cache.entries))
          /\ \A i, j \in DOMAIN cache.entries :
                cache.entries[i].key = cache.entries[j].key => i = j
    /\ pool.bytes <= Budget
    /\ kept.bytes <= Budget \/ Len(kept.entries) = 1
    /\ Len(pool.entries) <= Len(used)
    /\ \A i \in DOMAIN pool.entries :
          pool.entries[i].key = used[Len(used) - Len(pool.entries) + i]
=============================================================================
