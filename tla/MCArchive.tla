------------------------------ MODULE MCArchive ------------------------------
(* The sides of an archive, one at a time: the writer of a short recording  *)
(* with several restatements, seals and evictions, the reader of a live     *)
(* table of two occupants, the reader's caches, and the identity layers: what *)
(* a producer declares over its restarts, and short histories of edits.     *)
EXTENDS ArchiveWriter, LiveReader, BlockCaches, Layers, TLC
CONSTANTS a, b
VARIABLE part
MCRanges == {<<1, 99>>, <<4, 5>>}
MCEntry(from, epoch, sets, unsets) ==
    [seq |-> 0, from |-> from, epoch |-> epoch, sets |-> sets, unsets |-> unsets]
Unsetting(from, epoch, key) == MCEntry(from, epoch, [x \in {} |-> Absent], {key})
MCDeclarations ==
    {MCEntry(f, e, "producer_name" :> 1, {}) : f \in 0..3, e \in Epochs}
    \cup {Unsetting(f, e, "producer_name") : f \in 0..3, e \in Epochs}
MCAssertions ==
    {MCEntry(0, Absent, k :> 2, {}) : k \in IdKeys}
    \cup {MCEntry(0, Absent, k :> Removed, {}) : k \in IdKeys \ {"host"}}
    \cup {Unsetting(0, Absent, k) : k \in IdKeys \ {"__producer__"}}
MCInit ==
    /\ part \in {"writer", "reader", "caches", "declared", "edited"}
    /\ Init /\ LRInit /\ BCInit /\ LYInit
    /\ part = "writer" \/ form = "long"
    /\ IF part = "edited" THEN evidence # 1 /\ shown \in [IdKeys -> {1}] \cup [IdKeys -> {Absent}]
       ELSE shown = Nothing /\ evidence = Absent
MCNext ==
    /\ UNCHANGED part
    /\ \/ part = "writer" /\ Next   /\ UNCHANGED <<lrvars, bcvars, lyvars>>
       \/ part = "reader" /\ LRNext /\ UNCHANGED <<vars, bcvars, lyvars>>
       \/ part = "caches" /\ BCNext /\ UNCHANGED <<vars, lrvars, lyvars>>
       \/ /\ part = "declared" /\ Declare
          /\ UNCHANGED <<vars, lrvars, bcvars>>
       \/ /\ part = "edited"
          /\ \/ history.offers < 2 /\ Annotate
             \/ EditOutside
             \/ /\ history.offers = 2
                /\ \E layer \in {"recorder", "producer"} :
                      AppendEntry(layer, MCEntry(0, Absent, "producer_name" :> 2, {}))
          /\ UNCHANGED <<vars, lrvars, bcvars>>
MCSpec == MCInit /\ [][MCNext]_<<part, vars, lrvars, bcvars, lyvars>>
MCSymmetry == Permutations(Tenants)
=============================================================================
