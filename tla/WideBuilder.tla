----------------------------- MODULE WideBuilder -----------------------------
(***************************************************************************)
(* The wide form of one group (metriken-exposition/src/group_builder.rs,   *)
(* build_wide): a build walks the registry twice, first to fold the        *)
(* group's membership into an identity, then to read its values, and       *)
(* reuses the cached schema when the identity is the cached one.  All the  *)
(* while members of the group's families come and go, and values cross     *)
(* the border of value-derived membership.  Dynamic metrics come and go    *)
(* between builds only, since a build holds the registry's guard.          *)
(*                                                                         *)
(* A metric of the group is a family (Membership::Slots), a plain counter  *)
(* group (Membership::Present, a slot reading zero is no member) or a      *)
(* dynamic counter.  A reading is named by the metric's position in the    *)
(* registry, the slot, and whose it is: the member's uid, the counter's    *)
(* name.                                                                   *)
(***************************************************************************)
EXTENDS Family, Registry

CONSTANTS PlainSlots,       \* the slots of a plain metric
          MaxWideBuilds     \* bound: builds in a behaviour

Static == 1..NumStatic
Plain == Static \ Families

ASSUME WideBuilderAssumption ==
    /\ NumStatic > 0
    /\ Families \subseteq Static
    /\ PlainSlots \subseteq Nat \ {0} /\ IsFiniteSet(PlainSlots)
    /\ MaxWideBuilds \in Nat

VARIABLES
    nonzero,                \* per plain metric: the slots that read non-zero
    skeleton,               \* GroupBuilder.cache of the group, and (history) the
                            \* dynamic metrics' names when it was made, in order
    phase, cursor,          \* where the build is
    identity,               \* the pass's GroupIdentityAccum
    remaining,              \* the slots of the metric still to walk
    needsSchema,            \* Decision.needs_schema
    descs, values,          \* Group.counter_descs and counter_values
    emitted,                \* the group of the last build
    wideBuilds,             \* builds begun
    undisturbed             \* history: no producer step since the build began

\* What a build does not write.
world == <<familyVars, registryVars, nonzero>>
pass == <<phase, cursor, identity, remaining, needsSchema, descs, values>>
wideVars == <<nonzero, skeleton, pass, emitted, wideBuilds>>
wbvars == <<familyVars, registryVars, wideVars, undisturbed>>

NoSkeleton == [identity |-> <<>>, schema |-> <<>>, names |-> <<>>]
NoGroup == [schema |-> <<>>, values |-> <<>>]

Reading == [metric : Nat \ {0}, slot : Nat \ {0}, who : Nat]

WBInit ==
    /\ FamilyInit /\ RegistryInit
    /\ nonzero = [m \in Plain |-> {}]
    /\ skeleton = NoSkeleton
    /\ phase = "idle" /\ cursor = 1
    /\ identity = <<>> /\ remaining = {}
    /\ needsSchema = FALSE
    /\ descs = <<>> /\ values = <<>>
    /\ emitted = NoGroup
    /\ wideBuilds = 0
    /\ undisturbed = FALSE

\* A group metric's metadata_version; a plain group's is never written.
VersionOf(p) == IF p \in Families THEN tableVersion[p] ELSE 0

(* Variants a slip in this code would give; TLC refutes a property on each. *)
\* the identity tells members by their names only.
FoldMetricVersionless(id, p) == IF p \in Static THEN id \o <<p - 1, 0>> ELSE id
-----------------------------------------------------------------------------
(***************************************************************************)
(* The producer.                                                           *)
(***************************************************************************)
SetPlain(m, s) ==
    /\ nonzero' = [nonzero EXCEPT ![m] = IF s \in @ THEN @ \ {s} ELSE @ \cup {s}]
    /\ UNCHANGED familyVars

Churn ==
    /\ \/ FamilyNext /\ UNCHANGED nonzero
       \/ \E m \in Plain, s \in PlainSlots : SetPlain(m, s)
    /\ undisturbed' = FALSE
    /\ UNCHANGED <<registryVars, skeleton, pass, emitted, wideBuilds>>

Reshape ==
    /\ phase = "idle"
    /\ RegistryNext
    /\ undisturbed' = FALSE
    /\ UNCHANGED <<familyVars, wideVars>>

-----------------------------------------------------------------------------
(***************************************************************************)
(* What both passes do with a metric: its version first, then its members  *)
(* in ascending order.  The hash is of the numbers one after another, the  *)
(* code's, which count positions and slots from zero; so a slot's number   *)
(* may be the next metric's position, or a version.                        *)
(***************************************************************************)
\* fold_group_version
FoldMetric(id, p) == IF p \in Static THEN id \o <<p - 1, VersionOf(p)>> ELSE id

\* A slot; a counter's position is its one member's.
FoldSlot(id, p, s) == Append(id, IF p \in Static THEN s - 1 ELSE p - 1)

\* walk_members: under Slots what the metadata lists, under Present all.  A
\* counter is its one member.
Walked(p) ==
    CASE p \in Families -> Taken(p)
      [] p \in Plain -> PlainSlots
      [] OTHER -> {1}

\* counter_value, and whether the slot is a member: registered or non-zero.
Reads(p, s) ==
    [metric |-> p, slot |-> s,
     who |-> CASE p \in Families -> MemberIn(p, s)
               [] p \in Plain -> Vacant
               [] OTHER -> NameAt(p)]
IsMember(p, s) == p \in Plain => s \in nonzero[p]

IsNext(s) == s \in remaining /\ \A r \in remaining : s <= r

NamesNow == [k \in 1..(NumRegistered - NumStatic) |-> NameAt(NumStatic + k)]
-----------------------------------------------------------------------------
(***************************************************************************)
(* The first pass: fold_group_identities.                                  *)
(***************************************************************************)
FoldStart ==
    /\ phase = "idle" /\ wideBuilds < MaxWideBuilds
    /\ wideBuilds' = wideBuilds + 1
    /\ phase' = "fold" /\ cursor' = 1
    /\ identity' = FoldMetric(<<>>, 1)
    /\ emitted' = NoGroup
    /\ descs' = <<>> /\ values' = <<>>
    /\ undisturbed' = TRUE
    /\ UNCHANGED <<world, skeleton, remaining, needsSchema>>

FoldList ==
    /\ phase = "fold"
    /\ remaining' = Walked(cursor)
    /\ phase' = "fold_members"
    /\ UNCHANGED <<world, skeleton, cursor, identity, needsSchema, descs, values, emitted,
                   wideBuilds, undisturbed>>

FoldMember(s) ==
    /\ phase = "fold_members" /\ IsNext(s)
    /\ remaining' = remaining \ {s}
    /\ identity' = IF IsMember(cursor, s) THEN FoldSlot(identity, cursor, s) ELSE identity
    /\ UNCHANGED <<world, skeleton, phase, cursor, needsSchema, descs, values, emitted,
                   wideBuilds, undisturbed>>

FoldNextMetric ==
    /\ phase = "fold_members" /\ remaining = {} /\ cursor < NumRegistered
    /\ phase' = "fold" /\ cursor' = cursor + 1
    /\ identity' = FoldMetric(identity, cursor + 1)
    /\ UNCHANGED <<world, skeleton, remaining, needsSchema, descs, values, emitted,
                   wideBuilds, undisturbed>>

\* The decision: reuse the cached schema or build it.
Decide ==
    /\ phase = "fold_members" /\ remaining = {} /\ cursor = NumRegistered
    /\ needsSchema' = (skeleton = NoSkeleton \/ skeleton.identity # identity)
    /\ phase' = "walk" /\ cursor' = 1
    /\ identity' = IF needsSchema' THEN FoldMetric(<<>>, 1) ELSE <<>>
    /\ UNCHANGED <<world, skeleton, remaining, descs, values, emitted, wideBuilds, undisturbed>>

-----------------------------------------------------------------------------
(***************************************************************************)
(* The second pass.  On a miss it also reads each member's labels, after   *)
(* its value, and folds an identity of its own.                            *)
(***************************************************************************)
WalkList ==
    /\ phase = "walk"
    /\ remaining' = Walked(cursor)
    /\ phase' = "walk_members"
    /\ UNCHANGED <<world, skeleton, cursor, identity, needsSchema, descs, values, emitted,
                   wideBuilds, undisturbed>>

WalkValue(s) ==
    /\ phase = "walk_members" /\ IsNext(s)
    /\ IF IsMember(cursor, s)
       THEN /\ values' = Append(values, Reads(cursor, s))
            /\ IF needsSchema
               THEN /\ identity' = FoldSlot(identity, cursor, s)
                    /\ phase' = "describe"
                    /\ UNCHANGED remaining
               ELSE /\ remaining' = remaining \ {s}
                    /\ UNCHANGED <<identity, phase>>
       ELSE /\ remaining' = remaining \ {s}
            /\ UNCHANGED <<values, identity, phase>>
    /\ UNCHANGED <<world, skeleton, cursor, needsSchema, descs, emitted, wideBuilds, undisturbed>>

\* member_metadata: the slot's labels as they are now.
WalkDescribe(s) ==
    /\ phase = "describe" /\ IsNext(s)
    /\ descs' = Append(descs, Reads(cursor, s))
    /\ remaining' = remaining \ {s}
    /\ phase' = "walk_members"
    /\ UNCHANGED <<world, skeleton, cursor, identity, needsSchema, values,
                   emitted, wideBuilds, undisturbed>>

WalkNextMetric ==
    /\ phase = "walk_members" /\ remaining = {} /\ cursor < NumRegistered
    /\ phase' = "walk" /\ cursor' = cursor + 1
    /\ identity' = IF needsSchema THEN FoldMetric(identity, cursor + 1) ELSE identity
    /\ UNCHANGED <<world, skeleton, remaining, needsSchema, descs, values, emitted,
                   wideBuilds, undisturbed>>

\* The group is emitted, with the schema built or with the cached one if
\* the counts agree; otherwise the cached one goes.  Nothing read, nothing
\* emitted.
Emit ==
    /\ phase = "walk_members" /\ remaining = {} /\ cursor = NumRegistered
    /\ phase' = "idle"
    /\ IF values = <<>>
       THEN UNCHANGED <<skeleton, emitted>>
       ELSE IF needsSchema
       THEN /\ skeleton' = [identity |-> identity, schema |-> descs, names |-> NamesNow]
            /\ emitted' = [schema |-> descs, values |-> values]
       ELSE IF Len(skeleton.schema) = Len(values)
       THEN /\ emitted' = [schema |-> skeleton.schema, values |-> values]
            /\ UNCHANGED skeleton
       ELSE /\ skeleton' = NoSkeleton
            /\ UNCHANGED emitted
    /\ UNCHANGED <<world, cursor, identity, remaining, needsSchema, descs, values,
                   wideBuilds, undisturbed>>

WideBuild ==
    \/ FoldStart \/ FoldList \/ FoldNextMetric \/ Decide
    \/ WalkList \/ WalkNextMetric \/ Emit
    \/ \E s \in remaining : FoldMember(s) \/ WalkValue(s) \/ WalkDescribe(s)

WBNext == Churn \/ Reshape \/ WideBuild

WBSpec == WBInit /\ [][WBNext]_wbvars
-----------------------------------------------------------------------------
WBTypeOK ==
    /\ FamilyTypeOK /\ RegistryTypeOK
    /\ nonzero \in [Plain -> SUBSET PlainSlots]
    /\ skeleton \in [identity : Seq(Nat), schema : Seq(Reading), names : Seq(Nat)]
    /\ phase \in {"idle", "fold", "fold_members", "walk", "walk_members", "describe"}
    /\ cursor \in Nat \ {0}
    /\ identity \in Seq(Nat)
    /\ remaining \subseteq Nat \ {0}
    /\ needsSchema \in BOOLEAN
    /\ descs \in Seq(Reading) /\ values \in Seq(Reading)
    /\ emitted \in [schema : Seq(Reading), values : Seq(Reading)]
    /\ wideBuilds \in 0..MaxWideBuilds /\ undisturbed \in BOOLEAN

\* The group as it stands: what its members read, in the order of the walk.
GroupNow ==
    UNION {{Reads(p, s) : s \in {x \in Walked(p) : IsMember(p, x)}} : p \in 1..NumRegistered}

InWalkOrder(group) ==
    \A i, j \in DOMAIN group : i < j =>
        \/ group[i].metric < group[j].metric
        \/ group[i].metric = group[j].metric /\ group[i].slot < group[j].slot

\* The labels a reading is under in a schema made when `then` were the names
\* of the dynamic metrics: a member's own, the name a position had then.
DescribedAs(r, then) ==
    IF r.metric \in Static THEN r ELSE [r EXCEPT !.who = then[r.metric - NumStatic]]

\* A build that no step of the producer overlaps emits the group as it
\* stands: the values of its members, each once and in order, of every
\* dynamic metric that is alive and of none that was dropped.  A family's or
\* a plain metric's member is under its own labels.  A dynamic metric is too,
\* unless its position was another name's when the cached schema was made:
\* the identity folds its position alone (fold_group_identities), so it is
\* then under that name, and never under any other.
QuietBuildExact ==
    phase = "idle" /\ undisturbed =>
        /\ emitted.schema = [i \in DOMAIN emitted.values |->
                                DescribedAs(emitted.values[i], skeleton.names)]
        /\ InWalkOrder(emitted.values)
        /\ {emitted.values[i] : i \in DOMAIN emitted.values} = GroupNow
        /\ Registered = alive
=============================================================================
