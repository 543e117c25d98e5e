-------------------------------- MODULE Family --------------------------------
(***************************************************************************)
(* Families: metrics whose members come and go (metriken/src/family.rs).   *)
(* A family is a table of slots under one lock; a member is a handle that  *)
(* owns its slot until it is dropped, and a slot that was freed is taken   *)
(* again by the next member.  A member is named by the uid its labels      *)
(* carry.                                                                  *)
(*                                                                         *)
(* Every operation of the table runs under its lock and is one step.       *)
(***************************************************************************)
EXTENDS Naturals, Sequences, FiniteSets

CONSTANTS Families,         \* the families of the process
          MaxMembers        \* bound: members ever created

ASSUME FamilyAssumption == MaxMembers \in Nat

Vacant == 0

VARIABLES
    table,                  \* per family: Table.slots, each its member or Vacant
    free,                   \* per family: Table.free, a stack of slots
    liveCount,              \* per family: Table.live
    tableVersion,           \* per family: Table.version
    minted,                 \* the last uid minted (next_uid)
    handles                 \* the handles the program holds

familyVars == <<table, free, liveCount, tableVersion, minted, handles>>

Handle == [family : Families, slot : Nat \ {0}, uid : Nat \ {0}]

FamilyInit ==
    /\ table = [f \in Families |-> <<>>]
    /\ free = [f \in Families |-> <<>>]
    /\ liveCount = [f \in Families |-> 0]
    /\ tableVersion = [f \in Families |-> 0]
    /\ minted = 0
    /\ handles = {}

(* Variants a slip in this code would give; TLC refutes a property on each. *)
\* a slot is taken from the list of free slots and stays in it.
RestOfPeeked(stack) == stack
-----------------------------------------------------------------------------
Top(stack) == stack[Len(stack)]
RestOf(stack) == SubSeq(stack, 1, Len(stack) - 1)

\* Table::insert, the new member in slot s.
Insert(f, s, uid) ==
    /\ liveCount' = [liveCount EXCEPT ![f] = @ + 1]
    /\ tableVersion' = [tableVersion EXCEPT ![f] = @ + 1]
    /\ handles' = handles \cup {[family |-> f, slot |-> s, uid |-> uid]}

\* member(labels).  The uid is minted just before the table's lock is taken;
\* nobody sees it before the slot holds it.
CreateReusing(f) ==
    /\ free[f] # <<>>
    /\ table' = [table EXCEPT ![f][Top(free[f])] = minted + 1]
    /\ free' = [free EXCEPT ![f] = RestOf(@)]
    /\ Insert(f, Top(free[f]), minted + 1)

NewSlot(f) == Len(table[f]) + 1

CreateGrowing(f) ==
    /\ free[f] = <<>>
    /\ table' = [table EXCEPT ![f] = Append(@, minted + 1)]
    /\ Insert(f, NewSlot(f), minted + 1)
    /\ UNCHANGED free

CreateMember(f) ==
    /\ minted < MaxMembers
    /\ minted' = minted + 1
    /\ CreateReusing(f) \/ CreateGrowing(f)

\* Drop of a handle: Table::remove.
DropMember(h) ==
    /\ handles' = handles \ {h}
    /\ UNCHANGED minted
    /\ IF table[h.family][h.slot] # Vacant
       THEN /\ table' = [table EXCEPT ![h.family][h.slot] = Vacant]
            /\ free' = [free EXCEPT ![h.family] = Append(@, h.slot)]
            /\ liveCount' = [liveCount EXCEPT ![h.family] = @ - 1]
            /\ tableVersion' = [tableVersion EXCEPT ![h.family] = @ + 1]
       ELSE UNCHANGED <<table, free, liveCount, tableVersion>>

FamilyNext ==
    \/ \E f \in Families : CreateMember(f)
    \/ \E h \in handles : DropMember(h)

FamilySpec == FamilyInit /\ [][FamilyNext]_familyVars

\* What a reader sees under the lock: the slots that are taken, and the
\* occupant of one, Vacant also past the table's end.
Taken(f) == {s \in DOMAIN table[f] : table[f][s] # Vacant}
MemberIn(f, s) == IF s \in DOMAIN table[f] THEN table[f][s] ELSE Vacant
-----------------------------------------------------------------------------
FamilyTypeOK ==
    /\ table \in [Families -> Seq(Nat)]
    /\ free \in [Families -> Seq(Nat \ {0})]
    /\ liveCount \in [Families -> Nat]
    /\ tableVersion \in [Families -> Nat]
    /\ minted \in 0..MaxMembers
    /\ handles \subseteq Handle

\* A handle owns its slot for as long as it lives: what is read there is its
\* own member, no two handles share one, and the slots the next members may
\* take are those without a handle, each listed once.
EveryHandleOwnsItsSlot ==
    /\ \A h \in handles : MemberIn(h.family, h.slot) = h.uid
    /\ \A f \in Families :
        /\ {free[f][i] : i \in DOMAIN free[f]} = DOMAIN table[f] \ Taken(f)
        /\ \A i, j \in DOMAIN free[f] : free[f][i] = free[f][j] => i = j
        /\ liveCount[f] = Cardinality(Taken(f))
        /\ \A s \in Taken(f) : [family |-> f, slot |-> s, uid |-> table[f][s]] \in handles
=============================================================================
