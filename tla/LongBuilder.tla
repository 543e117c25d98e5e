----------------------------- MODULE LongBuilder -----------------------------
(***************************************************************************)
(* The long form of one group (metriken-exposition/src/group_builder.rs,   *)
(* build_long, LongAcc::occupant, slot_occupant): which occupant the       *)
(* builder says each slot holds, read from the metadata of the group's     *)
(* metrics while the producer of SlotIdentity writes it.  Each group of    *)
(* SlotIdentity is the store of one metric here.                           *)
(*                                                                         *)
(* Between builds the builder keeps each metric's metadata version and     *)
(* each slot's occupant, and does not read the metadata of a metric whose  *)
(* version has not moved.                                                  *)
(***************************************************************************)
EXTENDS SlotIdentity, Integers

CONSTANTS Memberships,      \* what a metric's route may say
          Mixed,            \* the metrics of one group may differ in it
          MaxBuilds         \* bound: builds in a behaviour

ASSUME LongBuilderAssumption ==
    /\ Memberships \subseteq {"All", "Slots", "Present"}
    /\ Mixed \in BOOLEAN
    /\ MaxBuilds \in Nat

Metrics == Groups

VARIABLES
    membership,             \* per metric: Route.membership
    versions,               \* LongState.versions, -1 where there is none
    slots,                  \* LongState.slots
    nextKey,                \* LongState.next_key
    stage, metric,          \* where the build is
    unchanged,              \* the metric's version has not moved since the last build
    readVersions,           \* LongAcc.versions
    members,                \* the metric's members still to walk
    position,               \* LongAcc.position and occupants: the slots served
    builds,                 \* builds begun
    quiet,                  \* history: no producer call ran since the build began
    named                   \* history: what each key was served for

state == <<versions, slots, nextKey>>
acc == <<stage, metric, unchanged, readVersions, members, position>>
builderVars == <<state, acc, builds>>
allVars == <<vars, membership, builderVars, quiet, named>>

SlotOccupant == [key : Nat, occ : Occupant \cup {Nobody}]
NoOccupant == [key |-> -1, occ |-> Nobody]
NoVersion == -1

LBInit ==
    /\ Init
    /\ membership \in [Metrics -> Memberships]
    /\ Mixed \/ \A m, n \in Metrics : membership[m] = membership[n]
    /\ versions = [m \in Metrics |-> NoVersion]
    /\ slots = [s \in Slots |-> NoOccupant]
    /\ nextKey = 0
    /\ stage = "idle" /\ metric = 1 /\ unchanged = FALSE
    /\ readVersions = [m \in Metrics |-> NoVersion]
    /\ members = {}
    /\ position = [s \in Slots |-> NoOccupant]
    /\ builds = 0
    /\ quiet = FALSE /\ named = {}

(* Variants a slip in this code would give; TLC refutes a property on each. *)
\* the version kept is the one after the members were read.
KeptAtTheEnd == version
\* a new occupant keeps the key of the slot's last one.
SlotOccupantKeepsKey(m, cached) ==
    [key |-> IF cached # NoOccupant THEN cached.key ELSE nextKey, occ |-> m]
-----------------------------------------------------------------------------
Idle == \A t \in Threads : op[t] = "idle"

\* The metric loop reaches a metric: its version is read before its members.
ReadVersion(m) ==
    /\ unchanged' = (versions[m] = version[m])
    /\ readVersions' = [readVersions EXCEPT ![m] = version[m]]

BuildStart ==
    /\ stage = "idle" /\ builds < MaxBuilds
    /\ builds' = builds + 1
    /\ metric' = 1
    /\ ReadVersion(1)
    /\ position' = [s \in Slots |-> NoOccupant]
    /\ stage' = "members"
    /\ quiet' = Idle
    /\ UNCHANGED <<vars, membership, state, members, named>>

\* walk_members: under Slots, what the metadata store lists, under one guard.
ListedBy(m) == IF membership[m] = "Slots" THEN {s \in Slots : meta[m][s] # Nobody} ELSE Slots
Listed == ListedBy(metric)

ReadMembers ==
    /\ stage = "members"
    /\ membership[metric] = "Slots" => ~locked[metric]
    /\ members' = Listed
    /\ stage' = "walk"
    /\ UNCHANGED <<vars, membership, state, metric, unchanged, readVersions, position, builds, quiet, named>>

\* slot_occupant: the cached occupant if the metadata still names it.
SlotOccupantOf(m, cached) ==
    IF cached # NoOccupant /\ cached.occ = m THEN cached ELSE [key |-> nextKey, occ |-> m]

Serve(s, o) ==
    /\ slots' = [slots EXCEPT ![s] = o]
    /\ position' = [position EXCEPT ![s] = o]
    /\ nextKey' = IF o.key = nextKey THEN nextKey + 1 ELSE nextKey
    /\ named' = named \cup {[key |-> o.key, slot |-> s, occ |-> o.occ]}

\* One member: LongAcc::occupant.  Under Present a member that reads
\* nothing is passed over.
Walk(s) ==
    /\ stage = "walk" /\ s \in members
    /\ \A r \in members : s <= r
    /\ members' = members \ {s}
    /\ \/ /\ membership[metric] = "Present" \/ position[s] # NoOccupant
          /\ UNCHANGED <<slots, position, nextKey, named>>
       \/ /\ position[s] = NoOccupant
          /\ slots[s] # NoOccupant /\ unchanged
          /\ Serve(s, slots[s])
       \/ /\ position[s] = NoOccupant
          /\ slots[s] = NoOccupant \/ ~unchanged
          /\ ~locked[metric]
          /\ Serve(s, SlotOccupantOf(meta[metric][s], slots[s]))
    /\ UNCHANGED <<vars, membership, versions, stage, metric, unchanged, readVersions, builds, quiet>>

NextMetric ==
    /\ stage = "walk" /\ members = {}
    /\ metric < NumGroups
    /\ metric' = metric + 1
    /\ ReadVersion(metric + 1)
    /\ stage' = "members"
    /\ UNCHANGED <<vars, membership, state, members, position, builds, quiet, named>>

\* The occupants the next build starts from: with a metric under Slots, those
\* served.
Retained == IF "Slots" \in {membership[m] : m \in Metrics} THEN position ELSE slots

\* ... and the versions it will compare with: those read before the members.
KeptVersions == readVersions

BuildDone ==
    /\ stage = "walk" /\ members = {}
    /\ metric = NumGroups
    /\ versions' = KeptVersions
    /\ slots' = Retained
    /\ stage' = "idle" /\ unchanged' = FALSE
    /\ UNCHANGED <<vars, membership, nextKey, metric, readVersions, members, position, builds, quiet, named>>

Build ==
    \/ BuildStart
    \/ ReadMembers
    \/ \E s \in Slots : Walk(s)
    \/ NextMetric
    \/ BuildDone

\* A step of the producer's calls.
Produce == Next /\ quiet' = FALSE /\ UNCHANGED <<membership, builderVars, named>>

LBNext == Build \/ Produce

LBSpec == LBInit /\ [][LBNext]_allVars

-----------------------------------------------------------------------------
LBTypeOK ==
    /\ TypeOK
    /\ membership \in [Metrics -> Memberships]
    /\ versions \in [Metrics -> Nat \cup {NoVersion}]
    /\ slots \in [Slots -> SlotOccupant \cup {NoOccupant}]
    /\ nextKey \in Nat
    /\ stage \in {"idle", "members", "walk"}
    /\ metric \in Metrics /\ unchanged \in BOOLEAN
    /\ readVersions \in [Metrics -> Nat \cup {NoVersion}]
    /\ members \subseteq Slots
    /\ position \in [Slots -> SlotOccupant \cup {NoOccupant}]
    /\ builds \in 0..MaxBuilds
    /\ quiet \in BOOLEAN
    /\ named \subseteq [key : Nat, slot : Slots, occ : Occupant \cup {Nobody}]

\* A build that no call of the producer overlaps serves, for every slot, the
\* occupant the slot holds, unless the last calls about it overlapped: nothing
\* kept from earlier builds, however they interleaved with the producer's
\* writes, is believed when it is stale.
ServesTheOccupant ==
    stage = "idle" /\ quiet =>
        \A s \in Slots \ raced : position[s] # NoOccupant => position[s].occ = live[s]

\* A key names one occupant for the life of the builder (the doc of
\* LongMember.key), also over a slot that is vacated and taken again.
KeyNamesOneOccupant ==
    \A x, y \in named : x.key = y.key => x = y
=============================================================================
