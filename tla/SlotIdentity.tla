---------------------------- MODULE SlotIdentity ----------------------------
(***************************************************************************)
(* Which occupant holds a slot of several groups: `SlotIdentity`           *)
(* (metriken/src/group/identity.rs) and the versioned metadata store of    *)
(* each group (metriken/src/group/metadata.rs).                            *)
(*                                                                         *)
(* A call decides under the mutex of `live` and writes the groups after it *)
(* let go, one at a time, each under that group's own lock.                *)
(***************************************************************************)
EXTENDS Naturals, FiniteSets

CONSTANTS Threads,          \* the producer's threads
          NumGroups,        \* groups of the slot space, in declaration order
          NumSlots,
          Labels,           \* label sets an occupant may have
          NoLabels,
          MaxUid            \* bound: occupants minted in a behaviour

ASSUME SlotIdentityAssumption ==
    /\ NumGroups \in Nat \ {0}
    /\ NumSlots \in Nat \ {0}
    /\ MaxUid \in Nat
    /\ NoLabels \notin Labels

Groups == 1..NumGroups
Slots == 1..NumSlots
Uids == 1..MaxUid

\* The labels a slot was assigned and the uid minted for them.
Occupant == [labels : Labels, uid : Uids]
Nobody == [labels |-> NoLabels, uid |-> 0]

VARIABLES
    live,                   \* SlotIdentity.live
    generation,             \* GENERATION
    meta,                   \* per group: GroupMetadata.inner
    version,                \* per group: GroupMetadata.version
    locked,                 \* per group: inner is written and version is not yet
    op, slot, put, at,      \* per thread: its call, and the next group to write
    gone,                   \* per thread: what its retain has still to release
    past,                   \* history: per group, uids it held and holds no more
    raced                   \* history: slots whose last calls overlapped

store == <<meta, version, locked, past>>
calls == <<op, slot, put, at, gone>>
vars == <<live, generation, store, calls, raced>>

Ops == {"idle", "write", "bump", "retain"}

Init ==
    /\ live = [s \in Slots |-> Nobody]
    /\ generation = 0
    /\ meta = [g \in Groups |-> [s \in Slots |-> Nobody]]
    /\ version = [g \in Groups |-> 0]
    /\ locked = [g \in Groups |-> FALSE]
    /\ op = [t \in Threads |-> "idle"]
    /\ slot = [t \in Threads |-> 1]
    /\ put = [t \in Threads |-> Nobody]
    /\ at = [t \in Threads |-> 1]
    /\ gone = [t \in Threads |-> {}]
    /\ past = [g \in Groups |-> {}]
    /\ raced = {}

\* A call is writing the slot's groups.
Writing(u) == op[u] \in {"write", "bump"}
Settled(s) == \A u \in Threads : ~(Writing(u) /\ slot[u] = s)

(* Variants a slip in this code would give; TLC refutes a property on each. *)
\* a re-announcement writes its groups again.
AssignRewrites(t, s, l) ==
    /\ op[t] = "idle"
    /\ IF live[s].labels = l
       THEN UNCHANGED <<live, generation>>
       ELSE /\ generation < MaxUid
            /\ generation' = generation + 1
            /\ live' = [live EXCEPT ![s] = [labels |-> l, uid |-> generation']]
    /\ op' = [op EXCEPT ![t] = "write"]
    /\ slot' = [slot EXCEPT ![t] = s]
    /\ put' = [put EXCEPT ![t] = live'[s]]
    /\ at' = [at EXCEPT ![t] = 1]
    /\ UNCHANGED <<store, gone, raced>>
\* the last group of the list is never written.
DoneEarly(t) == at[t] + 1 >= NumGroups
-----------------------------------------------------------------------------
\* A call let go of the mutex: it will put o into the slot's groups, the first
\* one first.
Begin(t, s, o) ==
    /\ op' = [op EXCEPT ![t] = "write"]
    /\ slot' = [slot EXCEPT ![t] = s]
    /\ put' = [put EXCEPT ![t] = o]
    /\ at' = [at EXCEPT ![t] = 1]
    /\ raced' = IF Settled(s) THEN raced \ {s} ELSE raced \cup {s}

\* assign, under the mutex.  A slot that has these labels keeps its occupant
\* and nothing changes.
Assign(t, s, l) ==
    /\ op[t] = "idle"
    /\ live[s].labels # l
    /\ generation < MaxUid
    /\ generation' = generation + 1
    /\ live' = [live EXCEPT ![s] = [labels |-> l, uid |-> generation']]
    /\ Begin(t, s, live'[s])
    /\ UNCHANGED <<store, gone>>

\* release, under the mutex.
Release(t, s) ==
    /\ op[t] = "idle"
    /\ live' = [live EXCEPT ![s] = Nobody]
    /\ Begin(t, s, Nobody)
    /\ UNCHANGED <<generation, store, gone>>

\* retain, under the mutex: `keep` may reject any of the occupants.
Judge(t, rejected) ==
    /\ op[t] = "idle"
    /\ \A s \in rejected : live[s] # Nobody
    /\ gone' = [gone EXCEPT ![t] = rejected]
    /\ op' = [op EXCEPT ![t] = "retain"]
    /\ UNCHANGED <<live, generation, store, slot, put, at, raced>>

\* retain's loop: release the lowest slot left, whoever holds it by now.
RetainRelease(t, s) ==
    /\ op[t] = "retain" /\ s \in gone[t]
    /\ \A r \in gone[t] : s <= r
    /\ gone' = [gone EXCEPT ![t] = @ \ {s}]
    /\ live' = [live EXCEPT ![s] = Nobody]
    /\ Begin(t, s, Nobody)
    /\ UNCHANGED <<generation, store>>

RetainDone(t) ==
    /\ op[t] = "retain" /\ gone[t] = {}
    /\ op' = [op EXCEPT ![t] = "idle"]
    /\ UNCHANGED <<live, generation, store, slot, put, at, gone, raced>>

-----------------------------------------------------------------------------
\* The store call changes something: clearing an absent slot does not.
Mutates(t) == put[t] # Nobody \/ meta[at[t]][slot[t]] # Nobody

Done(t) == at[t] = NumGroups

\* Past the group at[t]: on to the next, or out of the call.
Advance(t) ==
    /\ at' = [at EXCEPT ![t] = IF Done(t) THEN 1 ELSE @ + 1]
    /\ op' = [op EXCEPT ![t] =
                IF ~Done(t) THEN "write" ELSE IF gone[t] # {} THEN "retain" ELSE "idle"]

\* GroupMetadata::insert and remove: the write, under the group's lock.
Store(t) ==
    /\ op[t] = "write" /\ ~locked[at[t]]
    /\ Mutates(t)
    /\ LET g == at[t] IN
        /\ meta' = [meta EXCEPT ![g][slot[t]] = put[t]]
        /\ past' = [past EXCEPT ![g] = @ \cup ({meta[g][slot[t]].uid} \ {0})]
        /\ locked' = [locked EXCEPT ![g] = TRUE]
    /\ op' = [op EXCEPT ![t] = "bump"]
    /\ UNCHANGED <<live, generation, version, slot, put, at, gone, raced>>

\* ... and the version, still under the lock.
Bump(t) ==
    /\ op[t] = "bump"
    /\ version' = [version EXCEPT ![at[t]] = @ + 1]
    /\ locked' = [locked EXCEPT ![at[t]] = FALSE]
    /\ Advance(t)
    /\ UNCHANGED <<live, generation, meta, past, slot, put, gone, raced>>

StoreNothing(t) ==
    /\ op[t] = "write" /\ ~locked[at[t]]
    /\ ~Mutates(t)
    /\ Advance(t)
    /\ UNCHANGED <<live, generation, store, slot, put, gone, raced>>

Step(t) ==
    \/ \E s \in Slots :
        \/ \E l \in Labels : Assign(t, s, l)
        \/ Release(t, s)
        \/ RetainRelease(t, s)
    \/ \E rejected \in SUBSET Slots : Judge(t, rejected)
    \/ RetainDone(t)
    \/ Store(t) \/ Bump(t) \/ StoreNothing(t)

Next == \E t \in Threads : Step(t)

Spec == Init /\ [][Next]_vars

-----------------------------------------------------------------------------
TypeOK ==
    /\ live \in [Slots -> Occupant \cup {Nobody}]
    /\ generation \in 0..MaxUid
    /\ meta \in [Groups -> [Slots -> Occupant \cup {Nobody}]]
    /\ version \in [Groups -> Nat]
    /\ locked \in [Groups -> BOOLEAN]
    /\ op \in [Threads -> Ops]
    /\ slot \in [Threads -> Slots]
    /\ put \in [Threads -> Occupant \cup {Nobody}]
    /\ at \in [Threads -> Groups]
    /\ gone \in [Threads -> SUBSET Slots]
    /\ past \in [Groups -> SUBSET Uids]
    /\ raced \subseteq Slots

\* Once the calls about a slot are over, every group agrees with `live` on
\* its occupant, unless two of them overlapped (the doc of SlotIdentity:
\* "every one of them must agree on which occupant the slot holds").
AgreeOn(s) == \A g \in Groups : meta[g][s] = live[s]
GroupsAgree == \A s \in Slots \ raced : Settled(s) => AgreeOn(s)

\* A uid a group no longer holds never comes back to it, however the calls
\* of the threads interleave: an archive that closed an occupant's series
\* never sees it again.
UidNeverReturns ==
    \A g \in Groups, s \in Slots : meta[g][s].uid \notin past[g]
=============================================================================
