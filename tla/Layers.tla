------------------------------- MODULE Layers -------------------------------
(***************************************************************************)
(* A source's identity in three layers (metriken-storage/src/layers.rs).   *)
(*                                                                         *)
(* A layer is a list of entries that is only appended to; what a source    *)
(* shows (its labels and its layered metadata) is the layers folded and    *)
(* merged.  Other writers edit what is shown without a layer, and the next *)
(* append takes what it finds as an entry of the user layer.  A producer   *)
(* repeats its handshake at every reconnect, stamped with the row it came  *)
(* before, and stamps of different processes do not come in order: what a  *)
(* repetition would not change is not appended.                            *)
(*                                                                         *)
(* Labels and metadata are one map over IdKeys.  Left out: keys an entry   *)
(* may not touch, union keys, what a legacy source says of its epochs and  *)
(* of a declared identity, and the documents' encoding.                   *)
(***************************************************************************)
EXTENDS Naturals, Sequences, SequencesExt

CONSTANTS LabelKeys, MetaKeys,
          ProducerLabel,    \* __producer__, derived from
          ProducerName,     \* producer_name
          Texts,            \* what a key may be set to
          Removed,          \* the empty text
          Absent,           \* no such key
          Epochs,
          Declarations,     \* what producers of several epochs declare
          Assertions,       \* what is written to any layer, unstamped
          MaxOffers, MaxEdits       \* bounds: entries offered, edits from outside

IdKeys == LabelKeys \cup MetaKeys

\* What an entry sets, and the entries.  A stamp (from_ts) of 0 is none.
Sets == UNION {[keys -> Texts \cup {Removed}] : keys \in SUBSET IdKeys}
Entries ==
    [seq : Nat, from : Nat, epoch : Epochs \cup {Absent}, sets : Sets, unsets : SUBSET IdKeys]

ASSUME LayersAssumption ==
    /\ Declarations \subseteq Entries /\ Assertions \subseteq Entries
    /\ ProducerLabel \in LabelKeys /\ ProducerName \in MetaKeys
    /\ LabelKeys \cap MetaKeys = {}
    /\ Removed \notin Texts /\ Absent \notin Texts \cup {Removed}
    /\ MaxOffers \in Nat /\ MaxEdits \in Nat

VARIABLES layers,           \* the three documents
          layered,          \* whether the source has them yet
          shown,            \* its labels and metadata
          evidence,         \* the producer a legacy source is known to be of
          history           \* the entries offered and what became of them

lyvars == <<layers, layered, shown, evidence, history>>

LayerNames == {"recorder", "producer", "user"}

\* Absent and empty are the same to a reader.
Present(value) == IF value = Removed THEN Absent ELSE value

Restrained(map) == [k \in IdKeys |-> Present(map[k])]

Nothing == [k \in IdKeys |-> Absent]

Touched(entry) == DOMAIN entry.sets \cup entry.unsets

\* The fold order of the entries.
Before(layer, x, y) ==
    IF layer = "user" \/ x.from = y.from THEN x.seq < y.seq ELSE x.from < y.from

LastOf(layer, entries) ==
    CHOOSE x \in entries : \A y \in entries : x = y \/ Before(layer, y, x)

\* Each key is as the last entry that touches it leaves it.
Fold(layer, entries) ==
    [k \in IdKeys |->
        LET touching == {x \in entries : k \in Touched(x)}
        IN IF touching = {} THEN Absent
           ELSE LET by == LastOf(layer, touching)
                IN IF k \in DOMAIN by.sets THEN by.sets[k] ELSE Absent]

\* The layers merged, what the user layer removed still told from what no
\* layer has; a name makes a label unless a layer sets that itself.
MergedWithRemovals(docs) ==
    LET recorder == Restrained(Fold("recorder", ToSet(docs["recorder"])))
        producer == Restrained(Fold("producer", ToSet(docs["producer"])))
        user     == Fold("user", ToSet(docs["user"]))
        Over(upper, lower) == [k \in IdKeys |-> IF upper[k] # Absent THEN upper[k] ELSE lower[k]]
        merged   == Over(user, Over(producer, recorder))
    IN [merged EXCEPT ![ProducerLabel] =
            IF @ # Absent THEN @ ELSE Present(merged[ProducerName])]

Merged(docs) == Restrained(MergedWithRemovals(docs))

NextSeq(entries) ==
    IF entries = <<>> THEN 0
    ELSE LET seqs == {entries[i].seq : i \in DOMAIN entries}
         IN 1 + (CHOOSE m \in seqs : \A n \in seqs : n <= m)

SetTo(map, keys) == [k \in {x \in keys : map[x] # Absent} |-> map[k]]

NewEntry(seq, sets) == [seq |-> seq, from |-> 0, epoch |-> Absent, sets |-> sets, unsets |-> {}]

\* What a source recorded before the layers is read as.
DeriveLegacy ==
    LET One(seq, sets) == IF DOMAIN sets = {} THEN <<>> ELSE <<NewEntry(seq, sets)>>
    IN [recorder |-> One(0, SetTo(shown, MetaKeys))
                     \o One(1, SetTo([k \in {ProducerName} |-> evidence], {ProducerName})),
        producer |-> <<>>,
        user     |-> One(0, SetTo(shown, LabelKeys))]

\* A variant: what was taken away is not seen.
DriftFound(before) ==
    LET changed == {k \in IdKeys : Present(shown[k]) # Absent
                                 /\ Present(before[k]) # Present(shown[k])
                                 /\ (k \in MetaKeys => before[k] # Absent)}
    IN [k \in changed |-> shown[k]]

\* What was changed outside since the layers were merged to `before`.
Drift(before) ==
    LET changed == {k \in IdKeys :
            /\ Present(before[k]) # Present(shown[k])
            /\ IF k \in MetaKeys THEN before[k] # Absent
               ELSE k = ProducerLabel => shown[k] # Absent}
    IN [k \in changed |-> IF Present(shown[k]) = Absent THEN Removed ELSE shown[k]]

SameContents(x, y) == x.sets = y.sets /\ x.unsets = y.unsets /\ x.epoch = y.epoch

Unchanged(entries, entry) ==
    Fold("producer", entries \cup {entry}) = Fold("producer", entries)

OfEpoch(entries, epoch) == {x \in entries : x.epoch = epoch}

Newest(entries) == CHOOSE x \in entries : \A y \in entries : y.seq <= x.seq

\* A variant: the whole layer's fold is all that is looked at.
RepeatsInAll(entries, entry) ==
    /\ entries # {}
    /\ \/ SameContents(LastOf("producer", entries), entry)
       \/ SameContents(Newest(entries), entry) /\ Unchanged(entries, entry)

\* Whether a producer's entry says nothing new.
Repeats(entries, entry) ==
    /\ entries # {}
    /\ \/ SameContents(LastOf("producer", entries), entry)
       \/ /\ SameContents(Newest(entries), entry)
          /\ Unchanged(entries, entry)
          /\ Unchanged(OfEpoch(entries, entry.epoch), entry)

\* What is written of the merged layers: the labels whole, and of the metadata
\* the keys that are set, or were, or were removed.
Shown(before, docs) ==
    LET after    == Merged(docs)
        removals == MergedWithRemovals(docs)
    IN [k \in IdKeys |->
           IF k \in LabelKeys \/ after[k] # Absent \/ before[k] # Absent \/ removals[k] = Removed
           THEN after[k] ELSE shown[k]]

\* append: nothing is written, the edits found included, when a producer's
\* entry repeats what is there.
AppendEntry(layer, entry) ==
    LET docs     == IF layered THEN layers ELSE DeriveLegacy
        before   == Merged(docs)
        found    == IF layered THEN Drift(MergedWithRemovals(docs)) ELSE <<>>
        external == IF DOMAIN found = {} THEN <<>>
                    ELSE <<NewEntry(NextSeq(docs["user"]), found)>>
        kept     == [docs EXCEPT !["user"] = @ \o external]
        numbered == [entry EXCEPT !.seq = NextSeq(kept[layer])]
        written  == [kept EXCEPT ![layer] = Append(@, numbered)]
        skipped  == layer = "producer" /\ Repeats(ToSet(kept["producer"]), numbered)
    IN /\ history.offers < MaxOffers
       /\ history' = [history EXCEPT
              !.offers    = @ + 1,
              !.declared  = IF layer # "producer" THEN @
                            ELSE Append(@, [entry EXCEPT !.seq = Len(history.declared)]),
              !.skipped   = IF skipped /\ entry.from > @ THEN entry.from ELSE @,
              !.overtaken = @ \/ (layer = "producer" /\ ~skipped
                                    /\ entry.from < history.skipped),
              !.layer     = layer,
              !.touched   = Touched(entry)]
       /\ IF skipped
          THEN UNCHANGED <<layers, layered, shown>>
          ELSE /\ layers' = written
               /\ layered' = TRUE
               /\ shown' = Shown(before, written)
       /\ UNCHANGED evidence

\* update_source_labels, update_source_metadata: an edit that no layer knows.
EditShown(key, value) ==
    /\ history.edits < MaxEdits
    /\ shown[key] # value
    /\ shown' = [shown EXCEPT ![key] = value]
    /\ history' = [history EXCEPT !.edits = @ + 1]
    /\ UNCHANGED <<layers, layered, evidence>>

LYInit ==
    /\ layers = [l \in LayerNames |-> <<>>]
    /\ layered = FALSE
    /\ shown \in [IdKeys -> Texts \cup {Absent}]
    /\ evidence \in Texts \cup {Absent}
    /\ history = [offers |-> 0, edits |-> 0, declared |-> <<>>, skipped |-> 0,
                  overtaken |-> FALSE, layer |-> "user", touched |-> {}]

Declare == \E e \in Declarations : AppendEntry("producer", e)

Annotate == \E layer \in LayerNames, e \in Assertions : AppendEntry(layer, e)

EditOutside == \E k \in IdKeys, v \in Texts \cup {Removed, Absent} : EditShown(k, v)

LYNext == Declare \/ Annotate \/ EditOutside

LYSpec == LYInit /\ [][LYNext]_lyvars

------------------------------------------------------------------------------
LYTypeOK ==
    /\ \A l \in LayerNames : \A i \in DOMAIN layers[l] :
           DOMAIN layers[l][i].sets \cup layers[l][i].unsets \subseteq IdKeys
    /\ layered \in BOOLEAN
    /\ shown \in [IdKeys -> Texts \cup {Removed, Absent}]
    /\ evidence \in Texts \cup {Absent}

\* A key whose value was changed outside, as the next append can tell.
Edited(k) ==
    /\ layered /\ Present(shown[k]) # Merged(layers)[k]
    /\ k \in MetaKeys => MergedWithRemovals(layers)[k] # Absent

\* An append leaves what the source shows under every key it does not touch as
\* it found it, and so does one of a producer or recorder under the keys it
\* touches that a person had edited: also what was changed or taken away
\* outside the layers (the doc of append).  What is derived from the
\* producer's name, and the name where there is evidence of it, follow that.
EditsSurvive ==
    [][layers' # layers =>
        \A k \in IdKeys :
            /\ \/ k \notin history'.touched
               \/ history'.layer # "user" /\ Edited(k)
            /\ k = ProducerLabel => shown[k] # Absent /\ Present(shown[k]) # Merged(layers)[k]
            /\ ~(k = ProducerName /\ ~layered /\ evidence # Absent)
            => Present(shown'[k]) = Present(shown[k])]_lyvars

\* What a producer declared is read as if every one of its entries had been
\* appended, whole and per epoch, although repetitions were not: unless an
\* entry was stamped behind one that was skipped (the doc of append).
ReadsAsAllDeclared ==
    ~history.overtaken =>
        \A kept \in {ToSet(layers["producer"])}, all \in {ToSet(history.declared)} :
            /\ Fold("producer", kept) = Fold("producer", all)
            /\ \A e \in Epochs :
                   Fold("producer", OfEpoch(kept, e)) = Fold("producer", OfEpoch(all, e))
=============================================================================
