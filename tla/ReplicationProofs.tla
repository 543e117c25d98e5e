------------------------- MODULE ReplicationProofs -------------------------
(***************************************************************************)
(* Theorems about the two sides of a stream producer: StreamedGroup's      *)
(* rows, for any occupants, schemas and keys, any number of frames in      *)
(* flight and of connections dropped; and StreamPasses' subscriptions, for *)
(* any intervals and any clock.                                            *)
(*                                                                         *)
(* The writer knows, of the connection's next frame, whatever that frame   *)
(* leaves out: its schema, and whom each key it does not describe names.   *)
(* A frame behind another leaves out only what that one said.  So the      *)
(* invariant relates the first frame to the writer, each other frame to    *)
(* the one before it, and what the producer remembers of the connection to *)
(* the last; a connection with nothing in flight, to the writer itself.    *)
(***************************************************************************)
EXTENDS StreamedGroup, StreamPasses, SequenceTheorems, TLAPS

KeysOf(S) == {e.key : e \in S}

\* Whom a key names, as a description of it.
Described(k) == [key |-> k, occupant |-> keys[k]]

KeysTyped ==
    /\ keys \in Seq(Occupants) /\ Len(keys) <= MaxKeys
    /\ pass.long \in BOOLEAN /\ pass.window \in 0..MaxWindow
    /\ pass.present \subseteq DOMAIN keys
    /\ pass.hash \in Hashes \/ (pass.long /\ pass.present = {})

WriterTyped ==
    /\ decoderHash \in Hashes \cup {NoHash} /\ layouts \subseteq Hashes
    /\ wire \in Hashes \cup {NoHash}
    /\ resolved \subseteq KeyedLabels /\ announced \subseteq KeyedLabels
    /\ lastKey \in 0..MaxWindow

\* A frame's keys name the occupants it is about, and go on naming them.
Truthful(f) ==
    /\ f.long =>
         /\ f.present \subseteq DOMAIN keys
         /\ f.holds = OccupantsOf(f.present)
         /\ \A n \in f.new : n.key \in f.present /\ n = Described(n.key)
    /\ ~f.long => f.holds = Members[f.hash]

\* What a frame leaves to what was said before it.
Assumes(f) == IF f.long THEN f.present \ KeysOf(f.new) ELSE {}

\* The writer names these keys rightly, and only so.
Names(S) ==
    \A k \in S :
        /\ Described(k) \in resolved \cup announced
        /\ \A e \in resolved \cup announced : e.key = k => e = Described(k)

\* The writer has the schema of rows of this form.
HasSchema(long, h) ==
    IF long THEN wire = h ELSE decoderHash = h /\ h \in layouts

WriterReady(f) == (~f.schema => HasSchema(f.long, f.hash)) /\ Names(Assumes(f))

\* A frame after another leaves to it what it does not say itself.
Continues(f, g) ==
    /\ ~g.schema => g.long = f.long /\ g.hash = f.hash
    /\ Assumes(g) \subseteq IF f.long THEN f.present ELSE {}

\* What the producer takes the connection to have been sent.
SentTyped ==
    /\ sentHash \in Hashes \cup {NoHash} /\ sentLong \in BOOLEAN
    /\ sentKeys \subseteq DOMAIN keys
    /\ lastWindow \in 0..MaxWindow

SentIsLast ==
    LET last == net[Len(net)]
    IN net # <<>> =>
          /\ sentHash = last.hash /\ sentLong = last.long
          /\ sentKeys = IF last.long THEN last.present ELSE {}

SentIsKnown ==
    net = <<>> =>
        /\ sentHash # NoHash => HasSchema(sentLong, sentHash)
        /\ Names(sentKeys)

InFlight(f) == \E i \in DOMAIN net : net[i] = f

GroupInv ==
    /\ KeysTyped
    /\ WriterTyped
    /\ SentTyped
    /\ net \in Seq(Frame)
    /\ \A f \in Frame : InFlight(f) => Truthful(f)
    /\ \A f \in Frame : net # <<>> /\ f = Head(net) => WriterReady(f)
    /\ \A i \in 1..(Len(net) - 1) : Continues(net[i], net[i + 1])
    /\ SentIsLast
    /\ SentIsKnown
    /\ SameOccupants

-----------------------------------------------------------------------------
LEMMA FrameFields ==
    ASSUME NEW f \in Frame
    PROVE  /\ f.long \in BOOLEAN /\ f.hash \in Hashes /\ f.schema \in BOOLEAN
           /\ f.window \in 1..MaxWindow /\ f.new \subseteq KeyedLabels
           /\ f.present \subseteq Keys /\ f.holds \subseteq Occupants
  BY DEF Frame

LEMMA NamesFewer ==
    ASSUME NEW T, NEW S \in SUBSET T, Names(T)
    PROVE  Names(S)
  BY DEF Names

LEMMA HashIsNoMarker == ASSUME NEW h \in Hashes PROVE h # NoHash
  BY StreamedGroupAssumption DEF NoHash

LEMMA GroupStarts == SGInit => GroupInv
<1> SUFFICES ASSUME SGInit PROVE GroupInv
  OBVIOUS
<1>1. MaxWindow \in Nat /\ MaxKeys \in Nat
  BY StreamedGroupAssumption
<1>2. net = <<>> /\ DOMAIN net = {} /\ Len(net) = 0 /\ Len(keys) = 0 /\ DOMAIN keys = {}
  BY DEF SGInit
<1>3. KeysTyped
  BY <1>1, <1>2 DEF SGInit, KeysTyped, NoPass
<1>4. WriterTyped /\ SentTyped
  <2>1. sentHash \in Hashes \cup {NoHash} /\ sentLong \in BOOLEAN /\ sentKeys \subseteq DOMAIN keys
    BY DEF SGInit
  <2>2. lastWindow \in 0..MaxWindow /\ lastKey \in 0..MaxWindow
    BY <1>1 DEF SGInit, Never
  <2>3. WriterTyped
    BY <2>2 DEF SGInit, WriterTyped
  <2> QED BY <2>1, <2>2, <2>3 DEF SentTyped
<1>5. SentIsLast /\ SentIsKnown
  BY <1>2 DEF SGInit, SentIsLast, SentIsKnown, Names
<1>6. \A i \in 1..(Len(net) - 1) : Continues(net[i], net[i + 1])
  BY <1>2
<1> QED BY <1>2, <1>3, <1>4, <1>5, <1>6 DEF GroupInv, SGInit, InFlight, SameOccupants

\* A producer that numbers occupants on, or takes another pass, leaves what
\* was said of its keys true.
LEMMA KeysGrow ==
    ASSUME GroupInv, KeysTyped', DOMAIN keys \subseteq DOMAIN keys',
           \A k \in DOMAIN keys : keys'[k] = keys[k],
           UNCHANGED <<connection, writer, outcome>>
    PROVE  GroupInv'
<1> USE DEF connection, writer
<1>1. \A k \in DOMAIN keys : Described(k)' = Described(k)
  BY DEF Described
<1>2. ASSUME NEW S \in SUBSET DOMAIN keys PROVE Names(S) => Names(S)'
  BY <1>1 DEF Names
<1>3. \A S \in SUBSET DOMAIN keys : OccupantsOf(S)' = OccupantsOf(S)
  BY DEF OccupantsOf
<1>4. \A f \in Frame : Truthful(f) => Truthful(f)'
  BY <1>1, <1>3 DEF Truthful
<1>5. \A f \in Frame : InFlight(f)' <=> InFlight(f)
  BY DEF InFlight
<1>6. \A f \in Frame : Truthful(f) => Assumes(f) \subseteq DOMAIN keys
  BY DEF Truthful, Assumes
<1>7. ASSUME NEW f \in Frame, net' # <<>>, f = Head(net') PROVE WriterReady(f)'
  <2>1. net # <<>> /\ f = Head(net) /\ f = net[1] /\ 1 \in DOMAIN net
    BY <1>7 DEF GroupInv
  <2>2. InFlight(f) /\ WriterReady(f)
    BY <2>1 DEF GroupInv, InFlight
  <2>3. Names(Assumes(f))'
    BY <1>2, <1>6, <2>2 DEF GroupInv, WriterReady
  <2> QED BY <2>2, <2>3 DEF WriterReady, HasSchema
<1>8. SentTyped' /\ WriterTyped' /\ SentIsLast'
  BY DEF GroupInv, SentTyped, WriterTyped, SentIsLast
<1>9. SentIsKnown'
  BY <1>2 DEF GroupInv, SentTyped, SentIsKnown, HasSchema
<1>10. \A f \in Frame : InFlight(f)' => Truthful(f)'
  BY <1>4, <1>5 DEF GroupInv
<1>11. /\ net' \in Seq(Frame) /\ SameOccupants'
       /\ \A i \in 1..(Len(net') - 1) : Continues(net'[i], net'[i + 1])
  BY DEF GroupInv, SameOccupants
<1>12. (\A f \in Frame : net # <<>> /\ f = Head(net) => WriterReady(f))'
  BY <1>7
<1> QED BY <1>8, <1>9, <1>10, <1>11, <1>12 DEF GroupInv

\* A connection that just began has been sent nothing.
LEMMA ConnectionBegins ==
    ASSUME KeysTyped', WriterTyped', SameOccupants, outcome' = outcome,
           sentHash' = NoHash, sentLong' = FALSE, sentKeys' = {}, lastWindow' = Never,
           net' = <<>>
    PROVE  GroupInv'
<1>1. MaxWindow \in Nat
  BY StreamedGroupAssumption
<1>2. DOMAIN net' = {} /\ Len(net') = 0 /\ net' \in Seq(Frame)
  OBVIOUS
<1>3. SentTyped'
  <2>1. sentHash' \in Hashes \cup {NoHash} /\ sentLong' \in BOOLEAN /\ sentKeys' \subseteq DOMAIN keys'
    OBVIOUS
  <2>2. lastWindow' \in 0..MaxWindow
    BY <1>1 DEF Never
  <2> QED BY <2>1, <2>2 DEF SentTyped
<1>4. SentIsLast' /\ SentIsKnown'
  BY DEF SentIsLast, SentIsKnown, Names
<1>5. \A i \in 1..(Len(net') - 1) : Continues(net'[i], net'[i + 1])
  BY <1>2
<1> QED BY <1>2, <1>3, <1>4, <1>5 DEF GroupInv, InFlight, SameOccupants

-----------------------------------------------------------------------------
\* The frame that is sent: it leaves out what the connection was sent last.
LEMMA SentFrame ==
    ASSUME GroupInv, Send
    PROVE  \E g \in Frame :
             /\ net' = Append(net, g)
             /\ Truthful(g)
             /\ ~g.schema => sentHash = g.hash /\ sentLong = g.long /\ sentHash # NoHash
             /\ Assumes(g) \subseteq sentKeys
             /\ sentHash' = g.hash /\ sentLong' = g.long
             /\ sentKeys' = IF g.long THEN g.present ELSE {}
<1> DEFINE g == [long |-> pass.long, hash |-> pass.hash, window |-> pass.window,
                 schema |-> HeldHash(pass.long) # pass.hash,
                 new |-> {[key |-> k, occupant |-> keys[k]] : k \in pass.present \ sentKeys},
                 present |-> pass.present,
                 holds |-> IF pass.long THEN OccupantsOf(pass.present) ELSE Members[pass.hash]]
<1>1. /\ keys \in Seq(Occupants) /\ Len(keys) <= MaxKeys /\ pass.long \in BOOLEAN
      /\ pass.window \in 0..MaxWindow /\ pass.present \subseteq DOMAIN keys
      /\ MaxKeys \in Nat /\ MaxWindow \in Nat
  BY StreamedGroupAssumption DEF GroupInv, KeysTyped
<1>2. pass.hash \in Hashes
  BY DEF GroupInv, KeysTyped, Send
<1>3. DOMAIN keys = 1..Len(keys) /\ Len(keys) \in Nat
  BY <1>1
<1>4. DOMAIN keys \subseteq Keys /\ \A k \in DOMAIN keys : keys[k] \in Occupants
  BY <1>1, <1>3 DEF Keys
<1>5. pass.window \in 1..MaxWindow
  BY <1>1 DEF Send, Never
<1>6. g.new \subseteq KeyedLabels
  BY <1>1, <1>4 DEF KeyedLabels
<1>7. g.holds \subseteq Occupants
  BY <1>1, <1>2, <1>4, StreamedGroupAssumption DEF OccupantsOf
<1>8. g \in Frame
  BY <1>1, <1>2, <1>4, <1>5, <1>6, <1>7 DEF Frame
<1>9. /\ net' = Append(net, g) /\ sentHash' = g.hash /\ sentLong' = g.long
      /\ sentKeys' = IF g.long THEN g.present ELSE {}
  BY DEF Send, SentAfter
<1>10. /\ g.long = pass.long /\ g.hash = pass.hash /\ g.present = pass.present
       /\ g.schema = (HeldHash(pass.long) # pass.hash)
       /\ g.new = {Described(k) : k \in pass.present \ sentKeys}
       /\ g.holds = IF pass.long THEN OccupantsOf(pass.present) ELSE Members[pass.hash]
  BY DEF Described
<1> HIDE DEF g
<1>11. KeysOf(g.new) = pass.present \ sentKeys
  <2>1. \A k : Described(k).key = k
    BY DEF Described
  <2>2. KeysOf(g.new) = {e.key : e \in {Described(k) : k \in pass.present \ sentKeys}}
    BY <1>10 DEF KeysOf
  <2> QED BY <2>1, <2>2
<1>12. Assumes(g) \subseteq sentKeys
  BY <1>10, <1>11 DEF Assumes
<1>13. ~g.schema => sentHash = g.hash /\ sentLong = g.long /\ sentHash # NoHash
  BY <1>2, <1>10, HashIsNoMarker DEF HeldHash
<1>14. Truthful(g)
  <2>1. \A n \in g.new : n.key \in g.present /\ n = Described(n.key)
    BY <1>10 DEF Described
  <2> QED BY <1>1, <1>10, <2>1 DEF Truthful
<1> QED BY <1>8, <1>9, <1>12, <1>13, <1>14

LEMMA GroupSends == ASSUME GroupInv, Send PROVE GroupInv'
<1>1. PICK g \in Frame :
             /\ net' = Append(net, g)
             /\ Truthful(g)
             /\ ~g.schema => sentHash = g.hash /\ sentLong = g.long /\ sentHash # NoHash
             /\ Assumes(g) \subseteq sentKeys
             /\ sentHash' = g.hash /\ sentLong' = g.long
             /\ sentKeys' = IF g.long THEN g.present ELSE {}
  BY SentFrame
<1>2. /\ UNCHANGED <<keys, pass, decoderHash, layouts, wire, resolved, announced, lastKey, outcome>>
      /\ lastWindow' = pass.window
  BY DEF Send, producer, writer
<1>3. net \in Seq(Frame)
  BY DEF GroupInv
<1>4. /\ net' \in Seq(Frame) /\ Len(net') = Len(net) + 1 /\ Len(net) \in Nat
      /\ \A i \in 1..Len(net) : net'[i] = net[i]
      /\ net'[Len(net) + 1] = g
      /\ DOMAIN net = 1..Len(net) /\ DOMAIN net' = 1..(Len(net) + 1) /\ net' # <<>>
  BY <1>1, <1>3
<1>5. \A f \in Frame : Truthful(f)' <=> Truthful(f)
  BY <1>2 DEF Truthful, OccupantsOf, Described
<1>6. \A S : Names(S)' <=> Names(S)
  BY <1>2 DEF Names, Described
<1>7. \A f \in Frame : WriterReady(f)' <=> WriterReady(f)
  BY <1>2, <1>6 DEF WriterReady, HasSchema
<1>8. ASSUME NEW f \in Frame, InFlight(f)' PROVE Truthful(f)'
  <2>1. InFlight(f) \/ f = g
    BY <1>4, <1>8 DEF InFlight
  <2> QED BY <1>1, <1>5, <2>1 DEF GroupInv
<1>9. ASSUME NEW f \in Frame, net' # <<>>, f = Head(net') PROVE WriterReady(f)'
  <2>1. f = net'[1]
    BY <1>4, <1>9
  <2>2. CASE net = <<>>
    <3>1. f = g
      BY <1>4, <2>1, <2>2
    <3>2. Names(sentKeys) /\ (sentHash # NoHash => HasSchema(sentLong, sentHash))
      BY <2>2 DEF GroupInv, SentIsKnown
    <3>3. Names(Assumes(g))
      BY <1>1, <3>2, NamesFewer
    <3>4. ~g.schema => HasSchema(g.long, g.hash)
      BY <1>1, <3>2
    <3> QED BY <1>7, <3>1, <3>3, <3>4 DEF WriterReady
  <2>3. CASE net # <<>>
    <3>1. f = Head(net)
      BY <1>3, <1>4, <2>1, <2>3
    <3> QED BY <1>7, <2>3, <3>1 DEF GroupInv
  <2> QED BY <2>2, <2>3
<1>10. ASSUME NEW i \in 1..(Len(net') - 1) PROVE Continues(net'[i], net'[i + 1])
  <2>1. i \in 1..Len(net) /\ net'[i] = net[i]
    BY <1>4
  <2>2. CASE i = Len(net)
    <3>1. net # <<>> /\ net'[i + 1] = g /\ net'[i] = net[Len(net)]
      BY <1>4, <2>1, <2>2
    <3>2. /\ sentHash = net[Len(net)].hash /\ sentLong = net[Len(net)].long
          /\ sentKeys = IF net[Len(net)].long THEN net[Len(net)].present ELSE {}
      BY <3>1 DEF GroupInv, SentIsLast
    <3> QED BY <1>1, <3>1, <3>2 DEF Continues
  <2>3. CASE i # Len(net)
    <3>0. Len(net) \in Nat
      BY <1>4
    <3>1. i \in 1..(Len(net) - 1) /\ i + 1 \in 1..Len(net)
      BY <2>1, <2>3, <3>0
    <3>2. net'[i + 1] = net[i + 1]
      BY <1>4, <3>1
    <3> QED BY <2>1, <3>1, <3>2 DEF GroupInv
  <2> QED BY <2>2, <2>3
<1>11. KeysTyped' /\ WriterTyped' /\ SameOccupants'
  BY <1>2 DEF GroupInv, KeysTyped, WriterTyped, SameOccupants
<1>12. SentTyped'
  <2>1. g.long => g.present \subseteq DOMAIN keys
    BY <1>1 DEF Truthful
  <2>2. sentHash' \in Hashes \cup {NoHash} /\ sentLong' \in BOOLEAN
    BY <1>1, FrameFields
  <2>3. sentKeys' \subseteq DOMAIN keys'
    BY <1>1, <1>2, <2>1
  <2>4. lastWindow' \in 0..MaxWindow
    BY <1>2 DEF GroupInv, KeysTyped
  <2> QED BY <2>2, <2>3, <2>4 DEF SentTyped
<1>13. SentIsLast' /\ SentIsKnown'
  BY <1>1, <1>4 DEF SentIsLast, SentIsKnown
<1>14. (\A f \in Frame : InFlight(f) => Truthful(f))'
  BY <1>8
<1>15. (\A f \in Frame : net # <<>> /\ f = Head(net) => WriterReady(f))'
  BY <1>9
<1>16. (\A i \in 1..(Len(net) - 1) : Continues(net[i], net[i + 1]))'
  BY <1>10
<1> QED BY <1>4, <1>11, <1>12, <1>13, <1>14, <1>15, <1>16 DEF GroupInv

-----------------------------------------------------------------------------
\* A long row: the writer knows the keys it describes and, by WriterReady,
\* those it does not, so it is written for its occupants.
LEMMA LongRowIsStaged ==
    ASSUME GroupInv, NEW f \in Frame, f.long, Truthful(f), WriterReady(f), StageLong(f),
           UNCHANGED keys
    PROVE  /\ WriterTyped' /\ SameOccupants'
           /\ HasSchema(TRUE, f.hash)' /\ Names(f.present)'
<1> DEFINE fresh == {n.key : n \in f.new}
           before == {e \in resolved : e.key \notin fresh}
           waiting == {e \in announced : e.key \notin fresh} \cup f.new
           pending == {e \in waiting : e.key \notin {r.key : r \in before}}
           now == {e \in before \cup pending : e.key \in f.present}
           later == {e \in waiting \ pending : e.key \in f.present}
           anchored == IF f.schema THEN f.hash ELSE wire
           written == ~Repeats(f) /\ anchored = f.hash
<1>1. /\ wire' = anchored
      /\ resolved' = IF written THEN now ELSE before
      /\ announced' = IF written THEN later ELSE waiting
      /\ lastKey' = IF written THEN f.window ELSE lastKey
      /\ outcome' = IF Repeats(f) THEN outcome
                    ELSE [sent |-> f.holds,
                          written |-> IF written THEN {e.occupant : e \in now} ELSE {},
                          rows |-> RowsAfter(written)]
      /\ UNCHANGED <<decoderHash, layouts>>
  BY DEF StageLong, KeptResolved
<1>2. anchored = f.hash
  BY DEF WriterReady, HasSchema
<1>3. written <=> ~Repeats(f)
  BY <1>2
<1>4. /\ f.new \subseteq KeyedLabels /\ f.hash \in Hashes /\ f.window \in 1..MaxWindow
      /\ resolved \subseteq KeyedLabels /\ announced \subseteq KeyedLabels
  BY FrameFields DEF GroupInv, WriterTyped
<1>5. fresh = KeysOf(f.new)
  BY DEF KeysOf
<1>6. Names(f.present \ fresh)
  BY <1>5 DEF WriterReady, Assumes
<1>7. \A n \in f.new : n.key \in f.present /\ n = Described(n.key)
  BY DEF Truthful
<1>8. before \subseteq KeyedLabels /\ waiting \subseteq KeyedLabels
  BY <1>4
<1>9. before \subseteq resolved /\ \A e \in waiting : e \in announced \/ e \in f.new
  OBVIOUS
\* No entry about a key of the row is wrong,
<1>10. \A e \in before \cup waiting : e.key \in f.present => e = Described(e.key)
  <2> SUFFICES ASSUME NEW e \in before \cup waiting, e.key \in f.present
               PROVE  e = Described(e.key)
    OBVIOUS
  <2>1. CASE e \in f.new
    BY <1>7, <2>1
  <2>2. CASE e \notin f.new
    <3>1. e \in resolved \cup announced /\ e.key \notin fresh
      BY <2>2
    <3> QED BY <1>6, <3>1 DEF Names
  <2> QED BY <2>1, <2>2
\* and there is one about each.
<1>11. \A k \in f.present : Described(k) \in before \cup waiting
  <2> SUFFICES ASSUME NEW k \in f.present PROVE Described(k) \in before \cup waiting
    OBVIOUS
  <2>0. Described(k).key = k
    BY DEF Described
  <2>1. CASE k \in fresh
    <3>1. PICK n \in f.new : n.key = k
      BY <2>1
    <3> QED BY <1>7, <3>1
  <2>2. CASE k \notin fresh
    <3>1. Described(k) \in resolved \cup announced
      BY <1>6, <2>2 DEF Names
    <3> QED BY <2>0, <2>2, <3>1
  <2> QED BY <2>1, <2>2
<1>12. now \cup later \subseteq before \cup waiting
  OBVIOUS
<1>13. \A k \in f.present : Described(k) \in now
  <2> SUFFICES ASSUME NEW k \in f.present PROVE Described(k) \in now
    OBVIOUS
  <2>0. Described(k).key = k
    BY DEF Described
  <2>1. CASE Described(k) \in before
    BY <2>0, <2>1
  <2>2. CASE Described(k) \notin before
    <3>1. Described(k) \in waiting
      BY <1>11, <2>2
    <3>2. k \notin {r.key : r \in before}
      <4> SUFFICES ASSUME NEW r \in before, r.key = k PROVE FALSE
        OBVIOUS
      <4>1. r \in before \cup waiting /\ r.key \in f.present
        OBVIOUS
      <4>2. r = Described(k)
        BY <1>10, <4>1
      <4> QED BY <2>2, <4>2
    <3> QED BY <2>0, <3>1, <3>2
  <2> QED BY <2>1, <2>2
<1>14. \A e \in now : e.key \in f.present
  OBVIOUS
<1> HIDE DEF fresh, before, waiting, pending, now, later, anchored, written
<1>15. {e.occupant : e \in now} = OccupantsOf(f.present)
  <2>1. \A e \in now : e.occupant = keys[e.key]
    BY <1>10, <1>12, <1>14 DEF Described
  <2>2. \A k \in f.present : Described(k).occupant = keys[k] /\ Described(k).key = k
    BY DEF Described
  <2> QED BY <1>13, <1>14, <2>1, <2>2 DEF OccupantsOf
<1>16. resolved' \cup announced' \subseteq before \cup waiting
  BY <1>1, <1>12
<1>17. \A k \in f.present : Described(k) \in resolved' \cup announced'
  BY <1>1, <1>11, <1>13
<1>18. Names(f.present)'
  <2>1. \A k \in f.present : \A e \in resolved' \cup announced' : e.key = k => e = Described(k)
    BY <1>10, <1>16
  <2>2. \A k \in f.present : Described(k)' = Described(k)
    BY DEF Described
  <2> QED BY <1>17, <2>1, <2>2 DEF Names
<1>19. SameOccupants'
  <2>1. f.holds = OccupantsOf(f.present) /\ outcome.written = outcome.sent
    BY DEF GroupInv, Truthful, SameOccupants
  <2> QED BY <1>1, <1>3, <1>15, <2>1 DEF SameOccupants
<1>20. HasSchema(TRUE, f.hash)'
  BY <1>1, <1>2 DEF HasSchema
<1>21. WriterTyped'
  <2>1. MaxWindow \in Nat /\ lastKey \in 0..MaxWindow
    BY StreamedGroupAssumption DEF GroupInv, WriterTyped
  <2>2. lastKey' \in 0..MaxWindow
    BY <1>1, <1>4, <2>1
  <2>3. resolved' \subseteq KeyedLabels /\ announced' \subseteq KeyedLabels
    BY <1>8, <1>16
  <2>4. wire' \in Hashes \cup {NoHash}
    BY <1>1, <1>2, <1>4
  <2> QED BY <1>1, <2>2, <2>3, <2>4 DEF GroupInv, WriterTyped
<1> QED BY <1>18, <1>19, <1>20, <1>21

\* A wide row decodes and has its layout.
LEMMA WideRowIsStaged ==
    ASSUME GroupInv, NEW f \in Frame, ~f.long, Truthful(f), WriterReady(f), StageWide(f),
           UNCHANGED keys
    PROVE  /\ WriterTyped' /\ SameOccupants'
           /\ HasSchema(FALSE, f.hash)' /\ Names({})'
<1>1. f.hash \in Hashes /\ f.window \in 1..MaxWindow
  BY FrameFields
<1>2. ~f.schema => decoderHash = f.hash /\ f.hash \in layouts
  BY DEF WriterReady, HasSchema
<1>3. decoderHash' = f.hash
  BY <1>2 DEF StageWide
<1>4. layouts' = IF f.schema THEN layouts \cup {f.hash} ELSE layouts
  BY <1>2 DEF StageWide
<1>5. f.hash \in layouts'
  BY <1>2, <1>4
<1>6. /\ lastKey' = IF Repeats(f) THEN lastKey ELSE f.window
      /\ outcome' = IF Repeats(f) THEN outcome
                    ELSE [sent |-> f.holds, written |-> Members[f.hash],
                          rows |-> RowsAfter(TRUE)]
      /\ UNCHANGED <<wire, resolved, announced>>
  <2> DEFINE known == IF f.schema THEN f.hash ELSE decoderHash
             decodes == known = f.hash
             held == IF decodes /\ f.schema THEN layouts \cup {f.hash} ELSE layouts
             written == decodes /\ ~Repeats(f) /\ f.hash \in held
  <2>1. decodes /\ f.hash \in held
    BY <1>2
  <2>2. /\ lastKey' = IF written THEN f.window ELSE lastKey
        /\ outcome' = IF Repeats(f) THEN outcome
                      ELSE [sent |-> f.holds,
                            written |-> IF written THEN Members[f.hash] ELSE {},
                            rows |-> RowsAfter(written)]
        /\ UNCHANGED <<wire, resolved, announced>>
    BY DEF StageWide
  <2>3. written <=> ~Repeats(f)
    BY <2>1
  <2> HIDE DEF written
  <2>4. CASE Repeats(f)
    BY <2>2, <2>3, <2>4
  <2>5. CASE ~Repeats(f)
    <3>1. written = TRUE
      BY <2>3, <2>5 DEF written
    <3> QED BY <2>2, <2>5, <3>1
  <2> QED BY <2>4, <2>5
<1>7. SameOccupants'
  BY <1>6 DEF GroupInv, Truthful, SameOccupants
<1>8. WriterTyped'
  <2>1. MaxWindow \in Nat /\ lastKey \in 0..MaxWindow
    BY StreamedGroupAssumption DEF GroupInv, WriterTyped
  <2>2. lastKey' \in 0..MaxWindow
    BY <1>1, <1>6, <2>1
  <2> QED BY <1>1, <1>3, <1>4, <1>6, <2>2 DEF GroupInv, WriterTyped
<1> QED BY <1>3, <1>5, <1>7, <1>8 DEF HasSchema, Names

LEMMA GroupDelivers == ASSUME GroupInv, Deliver PROVE GroupInv'
<1>1. net \in Seq(Frame) /\ net # <<>>
  BY DEF GroupInv, Deliver
<1>2. PICK f \in Frame : f = Head(net)
  BY <1>1
<1>3. /\ net' = Tail(net) /\ UNCHANGED <<keys, pass, sentHash, sentLong, sentKeys, lastWindow>>
      /\ IF f.long THEN StageLong(f) ELSE StageWide(f)
  BY <1>2 DEF Deliver, producer
<1>4. /\ Len(net) \in Nat \ {0} /\ f = net[1] /\ 1 \in DOMAIN net /\ DOMAIN net = 1..Len(net)
      /\ Len(net') = Len(net) - 1 /\ net' \in Seq(Frame)
      /\ \A i \in 1..(Len(net) - 1) : net'[i] = net[i + 1]
      /\ DOMAIN net' = 1..(Len(net) - 1)
  BY <1>1, <1>2, <1>3
<1>5. Truthful(f) /\ WriterReady(f)
  BY <1>1, <1>2, <1>4 DEF GroupInv, InFlight
<1> DEFINE said == IF f.long THEN f.present ELSE {}
<1>6. /\ WriterTyped' /\ SameOccupants'
      /\ HasSchema(f.long, f.hash)' /\ Names(said)'
  <2>1. CASE f.long
    <3>1. f.long = TRUE
      BY <2>1, FrameFields
    <3> QED BY <1>3, <1>5, <2>1, <3>1, LongRowIsStaged
  <2>2. CASE ~f.long
    <3>1. f.long = FALSE
      BY <2>2, FrameFields
    <3> QED BY <1>3, <1>5, <2>2, <3>1, WideRowIsStaged
  <2> QED BY <2>1, <2>2
<1>7. \A h \in Frame : Truthful(h)' <=> Truthful(h)
  BY <1>3 DEF Truthful, OccupantsOf, Described
<1>8. ASSUME NEW h \in Frame, InFlight(h)' PROVE Truthful(h)'
  <2>1. PICK i \in 1..(Len(net) - 1) : net[i + 1] = h
    BY <1>4, <1>8 DEF InFlight
  <2>2. i + 1 \in DOMAIN net
    BY <1>4, <2>1
  <2>3. InFlight(h)
    BY <2>1, <2>2 DEF InFlight
  <2> QED BY <1>7, <2>3 DEF GroupInv
<1>9. ASSUME NEW h \in Frame, net' # <<>>, h = Head(net') PROVE WriterReady(h)'
  <2>1. 1 \in 1..(Len(net) - 1) /\ h = net[2]
    <3>1. Len(net') # 0
      BY <1>4, <1>9
    <3>2. 1 \in 1..(Len(net) - 1)
      BY <1>4, <3>1
    <3> QED BY <1>4, <1>9, <3>2
  <2>2. Continues(f, h)
    BY <1>4, <2>1 DEF GroupInv
  <2>3. Names(Assumes(h))'
    BY <1>6, <2>2 DEF Continues, Names
  <2> QED BY <1>6, <2>2, <2>3 DEF Continues, WriterReady
<1>10. ASSUME NEW i \in 1..(Len(net') - 1) PROVE Continues(net'[i], net'[i + 1])
  <2>1. i \in 1..(Len(net) - 1) /\ i + 1 \in 1..(Len(net) - 1)
    BY <1>4, <1>10
  <2>2. net'[i] = net[i + 1] /\ net'[i + 1] = net[(i + 1) + 1]
    BY <1>4, <2>1
  <2> QED BY <2>1, <2>2 DEF GroupInv
<1>11. KeysTyped' /\ SentTyped'
  BY <1>3 DEF GroupInv, KeysTyped, SentTyped
<1>12. SentIsLast'
  <2> SUFFICES ASSUME net' # <<>>
               PROVE  /\ sentHash = net'[Len(net')].hash /\ sentLong = net'[Len(net')].long
                      /\ sentKeys = IF net'[Len(net')].long THEN net'[Len(net')].present ELSE {}
    BY <1>3 DEF SentIsLast
  <2>1. Len(net') # 0
    BY <1>4
  <2>2. Len(net') \in 1..(Len(net) - 1) /\ Len(net') + 1 = Len(net)
    BY <1>4, <2>1
  <2>3. net'[Len(net')] = net[Len(net)]
    BY <1>4, <2>2
  <2> QED BY <1>1, <2>3 DEF GroupInv, SentIsLast
<1>13. SentIsKnown'
  <2> SUFFICES ASSUME net' = <<>> PROVE SentIsKnown'
    BY DEF SentIsKnown
  <2>1. Len(net) = 1
    <3>1. Len(net') = 0
      OBVIOUS
    <3>2. Len(net') = Len(net) - 1 /\ Len(net) \in Nat
      BY <1>4
    <3> QED BY <3>1, <3>2
  <2>2. sentHash' = f.hash /\ sentLong' = f.long /\ sentKeys' = said
    BY <1>1, <1>3, <1>4, <2>1 DEF GroupInv, SentIsLast
  <2> QED BY <1>6, <2>2 DEF SentIsKnown, HasSchema, Names
<1>14. (\A h \in Frame : InFlight(h) => Truthful(h))'
  BY <1>8
<1>15. (\A h \in Frame : net # <<>> /\ h = Head(net) => WriterReady(h))'
  BY <1>9
<1>16. (\A i \in 1..(Len(net) - 1) : Continues(net[i], net[i + 1]))'
  BY <1>10
<1> QED BY <1>4, <1>6, <1>11, <1>12, <1>13, <1>14, <1>15, <1>16 DEF GroupInv

-----------------------------------------------------------------------------
LEMMA GroupStep == GroupInv /\ [SGNext]_sgvars => GroupInv'
<1> SUFFICES ASSUME GroupInv, [SGNext]_sgvars PROVE GroupInv'
  OBVIOUS
<1>0. keys \in Seq(Occupants) /\ DOMAIN keys = 1..Len(keys) /\ Len(keys) \in Nat
  BY DEF GroupInv, KeysTyped
<1>1. ASSUME NEW o \in Occupants, NewKey(o) PROVE GroupInv'
  <2>1. keys' = Append(keys, o) /\ Len(keys) < MaxKeys /\ MaxKeys \in Nat
        /\ UNCHANGED <<pass, connection, writer, outcome>>
    BY <1>1, StreamedGroupAssumption DEF NewKey
  <2>2. /\ keys' \in Seq(Occupants) /\ Len(keys') = Len(keys) + 1
        /\ DOMAIN keys' = 1..(Len(keys) + 1)
        /\ \A k \in 1..Len(keys) : keys'[k] = keys[k]
    BY <1>0, <2>1
  <2>3. DOMAIN keys \subseteq DOMAIN keys' /\ Len(keys') <= MaxKeys
    BY <1>0, <2>1, <2>2
  <2>4. KeysTyped'
    BY <2>1, <2>2, <2>3 DEF GroupInv, KeysTyped
  <2> QED BY <1>0, <2>1, <2>2, <2>3, <2>4, KeysGrow
<1>2. ASSUME NEW long \in BOOLEAN, NEW h \in Hashes, Acquire(long, h) PROVE GroupInv'
  <2>1. PICK present \in SUBSET {k \in 1..Len(keys) : Latest(k)} :
          pass' = [long |-> long, hash |-> h, window |-> pass.window + 1, present |-> present]
    BY <1>2 DEF Acquire
  <2>2. pass.window \in 0..MaxWindow /\ pass.window < MaxWindow /\ MaxWindow \in Nat
        /\ UNCHANGED <<keys, connection, writer, outcome>>
    BY <1>2, StreamedGroupAssumption DEF Acquire, GroupInv, KeysTyped
  <2>3. pass.window + 1 \in 0..MaxWindow
    BY <2>2
  <2>4. /\ pass'.long = long /\ pass'.hash = h /\ pass'.window = pass.window + 1
        /\ pass'.present = present
    BY <2>1
  <2>5. KeysTyped'
    BY <1>0, <2>2, <2>3, <2>4 DEF GroupInv, KeysTyped
  <2> QED BY <2>2, <2>5, KeysGrow
<1>3. CASE Send
  BY <1>3, GroupSends
<1>4. CASE Deliver
  BY <1>4, GroupDelivers
<1>5. CASE Reconnect
  <2>1. KeysTyped' /\ WriterTyped' /\ SameOccupants
    BY <1>5 DEF Reconnect, NewConnection, producer, GroupInv, KeysTyped, WriterTyped
  <2> QED BY <1>5, <2>1, ConnectionBegins DEF Reconnect, NewConnection
<1>6. ASSUME NewProcess PROVE KeysTyped'
  <2>1. keys' = <<>> /\ pass' = NoPass(pass.window) /\ MaxKeys \in Nat
    BY <1>6, StreamedGroupAssumption DEF NewProcess
  <2>2. pass'.long = TRUE /\ pass'.window = pass.window /\ pass'.present = {}
    BY <2>1 DEF NoPass
  <2>3. keys' \in Seq(Occupants) /\ Len(keys') <= MaxKeys
    BY <2>1
  <2> QED BY <2>2, <2>3 DEF GroupInv, KeysTyped
<1>7. CASE Restart
  <2>1. WriterTyped' /\ SameOccupants
    BY <1>7 DEF Restart, NewProcess, NewConnection, GroupInv, WriterTyped
  <2>2. KeysTyped'
    BY <1>6, <1>7 DEF Restart
  <2> QED BY <1>7, <2>1, <2>2, ConnectionBegins DEF Restart, NewProcess, NewConnection
<1>8. CASE ProducerChange
  <2>0. MaxWindow \in Nat
    BY StreamedGroupAssumption
  <2>1. lastKey' \in 0..MaxWindow
    BY <1>8, <2>0 DEF ProducerChange, Never
  <2>2. WriterTyped' /\ SameOccupants
    BY <1>8, <2>1 DEF ProducerChange, NewProcess, NewConnection, GroupInv, WriterTyped
  <2>3. KeysTyped'
    BY <1>6, <1>8 DEF ProducerChange
  <2> QED BY <1>8, <2>2, <2>3, ConnectionBegins DEF ProducerChange, NewProcess, NewConnection
<1>9. CASE UNCHANGED sgvars
  <2>1. KeysTyped'
    BY <1>9 DEF sgvars, producer, GroupInv, KeysTyped
  <2> QED BY <1>9, <2>1, KeysGrow DEF sgvars, producer
<1> QED BY <1>1, <1>2, <1>3, <1>4, <1>5, <1>7, <1>8, <1>9 DEF SGNext

-----------------------------------------------------------------------------
(***************************************************************************)
(* A window is written once.  Windows go up along the connection and none  *)
(* is below the last one written, so each that is not that one is above    *)
(* all that were written, also by the writer of another producer.          *)
(***************************************************************************)

Sendable == pass.long => pass.present # {}

WindowsRise ==
    /\ lastWindow <= pass.window /\ lastKey <= pass.window
    /\ net # <<>> => lastWindow = net[Len(net)].window
    /\ \A i, j \in DOMAIN net : i < j => net[i].window < net[j].window
    /\ \A f \in Frame : InFlight(f) => lastKey <= f.window /\ f.window <= lastWindow

RowsBehind ==
    /\ outcome \in [sent : SUBSET Occupants, written : SUBSET Occupants, rows : Nat]
    /\ outcome.rows <= pass.window
    /\ Sendable /\ pass.window # lastKey => outcome.rows < pass.window
    /\ \A f \in Frame : InFlight(f) /\ f.window # lastKey => outcome.rows < f.window

OnceInv == WindowsRise /\ RowsBehind

LEMMA OnceStarts == SGInit => OnceInv
<1> SUFFICES ASSUME SGInit PROVE OnceInv
  OBVIOUS
<1>1. /\ net = <<>> /\ DOMAIN net = {} /\ lastWindow = 0 /\ lastKey = 0 /\ pass.window = 0
      /\ outcome = [sent |-> {}, written |-> {}, rows |-> 0]
      /\ pass.long = TRUE /\ pass.present = {}
  BY DEF SGInit, Never, NoPass
<1>2. outcome.rows = 0
  BY <1>1
<1>3. WindowsRise
  BY <1>1 DEF WindowsRise, InFlight
<1>4. outcome \in [sent : SUBSET Occupants, written : SUBSET Occupants, rows : Nat]
  BY <1>1
<1>5. RowsBehind
  BY <1>1, <1>2, <1>4 DEF RowsBehind, InFlight, Sendable
<1> QED BY <1>3, <1>5 DEF OnceInv

LEMMA WindowTypes ==
    ASSUME GroupInv, OnceInv
    PROVE  /\ MaxWindow \in Nat /\ pass.window \in 0..MaxWindow /\ lastKey \in 0..MaxWindow
           /\ lastWindow \in 0..MaxWindow /\ outcome.rows \in Nat
           /\ \A f \in Frame : f.window \in 1..MaxWindow
  BY StreamedGroupAssumption, FrameFields
     DEF GroupInv, KeysTyped, WriterTyped, SentTyped, OnceInv, RowsBehind

\* The steps that begin a connection: a frame less is in flight, and the
\* producer that comes has no pass yet.
LEMMA OnceOverConnections ==
    ASSUME GroupInv, OnceInv, net' = <<>>, lastWindow' = Never, outcome' = outcome,
           pass'.window = pass.window, lastKey' \in {Never, lastKey},
           Sendable' => (Sendable /\ lastKey' = lastKey)
    PROVE  OnceInv'
<1>1. DOMAIN net' = {} /\ \A f \in Frame : ~InFlight(f)'
  BY DEF InFlight
<1>2. 0 <= pass.window /\ 0 <= lastKey /\ lastKey <= pass.window
  BY WindowTypes DEF OnceInv, WindowsRise
<1>3. WindowsRise'
  BY <1>1, <1>2 DEF WindowsRise, Never
<1>4. Sendable' /\ pass'.window # lastKey' => outcome.rows < pass'.window
  BY DEF OnceInv, RowsBehind
<1>5. RowsBehind'
  BY <1>1, <1>4 DEF OnceInv, RowsBehind
<1> QED BY <1>3, <1>5 DEF OnceInv

LEMMA OnceAfterAcquire ==
    ASSUME GroupInv, OnceInv, NEW long \in BOOLEAN, NEW h \in Hashes, Acquire(long, h)
    PROVE  OnceInv'
<1>1. /\ pass'.window = pass.window + 1
      /\ UNCHANGED <<connection, writer, outcome>>
  BY DEF Acquire
<1>2. UNCHANGED <<net, lastWindow, lastKey, outcome>>
  BY <1>1 DEF connection, writer
<1>3. \A f \in Frame : InFlight(f)' <=> InFlight(f)
  BY <1>2 DEF InFlight
<1>4. /\ pass.window \in Nat /\ lastWindow \in Nat /\ lastKey \in Nat /\ outcome.rows \in Nat
      /\ lastWindow <= pass.window /\ lastKey <= pass.window /\ outcome.rows <= pass.window
  BY WindowTypes DEF OnceInv, WindowsRise, RowsBehind
<1>5. /\ lastWindow <= pass.window + 1 /\ lastKey <= pass.window + 1
      /\ outcome.rows < pass.window + 1 /\ outcome.rows <= pass.window + 1
  BY <1>4
<1>6. WindowsRise'
  BY <1>1, <1>2, <1>3, <1>5 DEF OnceInv, WindowsRise
<1>7. RowsBehind'
  BY <1>1, <1>2, <1>3, <1>5 DEF OnceInv, RowsBehind
<1> QED BY <1>6, <1>7 DEF OnceInv

LEMMA OnceAfterSend == ASSUME GroupInv, OnceInv, Send PROVE OnceInv'
<1>1. PICK g \in Frame : net' = Append(net, g) /\ g.window = pass.window
  <2>1. PICK g \in Frame : net' = Append(net, g)
    BY SentFrame
  <2>2. net \in Seq(Frame) /\ net' = Append(net, net'[Len(net')])
    BY <2>1 DEF GroupInv, Send
  <2>3. net'[Len(net) + 1].window = pass.window
    <3>1. \E r : net' = Append(net, r) /\ r.window = pass.window
      BY DEF Send
    <3> QED BY <2>2, <3>1
  <2>4. net'[Len(net) + 1] = g
    BY <2>1, <2>2
  <2> QED BY <2>1, <2>3, <2>4
<1>2. /\ UNCHANGED <<pass, lastKey, outcome>> /\ lastWindow' = pass.window
      /\ pass.window # lastWindow /\ Sendable
  BY DEF Send, producer, writer, Sendable
<1>3. /\ Len(net) \in Nat /\ Len(net') = Len(net) + 1
      /\ \A i \in 1..Len(net) : net'[i] = net[i] /\ net[i] \in Frame
      /\ net'[Len(net) + 1] = g
      /\ DOMAIN net = 1..Len(net) /\ DOMAIN net' = 1..(Len(net) + 1)
  BY <1>1 DEF GroupInv
<1>4. /\ pass.window \in Nat /\ lastWindow \in Nat /\ lastKey \in Nat /\ outcome.rows \in Nat
      /\ lastWindow <= pass.window /\ lastKey <= pass.window /\ outcome.rows <= pass.window
      /\ \A f \in Frame : f.window \in Nat
  BY WindowTypes DEF OnceInv, WindowsRise, RowsBehind
<1>5. lastWindow < pass.window
  BY <1>2, <1>4
<1>6. \A f \in Frame : InFlight(f) => f.window < pass.window
  BY <1>4, <1>5 DEF OnceInv, WindowsRise
<1>7. \A f \in Frame : InFlight(f)' => InFlight(f) \/ f = g
  <2> SUFFICES ASSUME NEW f \in Frame, NEW i \in DOMAIN net', net'[i] = f
               PROVE  InFlight(f) \/ f = g
    BY DEF InFlight
  <2>1. i = Len(net) + 1 \/ i \in 1..Len(net)
    BY <1>3
  <2> QED BY <1>3, <2>1 DEF InFlight
<1>8. WindowsRise'
  <2>1. net'[Len(net')].window = pass.window
    BY <1>1, <1>3
  <2>2. \A i, j \in DOMAIN net' : i < j => net'[i].window < net'[j].window
    <3> SUFFICES ASSUME NEW i \in DOMAIN net', NEW j \in DOMAIN net', i < j
                 PROVE  net'[i].window < net'[j].window
      OBVIOUS
    <3>1. i \in 1..Len(net) /\ (j \in 1..Len(net) \/ j = Len(net) + 1)
      BY <1>3
    <3>2. CASE j \in 1..Len(net)
      BY <1>3, <3>1, <3>2 DEF OnceInv, WindowsRise
    <3>3. CASE j = Len(net) + 1
      <4>1. net[i] \in Frame /\ InFlight(net[i]) /\ net'[i] = net[i] /\ net'[j] = g
        BY <1>3, <3>1, <3>3 DEF InFlight
      <4> QED BY <1>1, <1>6, <4>1
    <3> QED BY <3>1, <3>2, <3>3
  <2>3. \A f \in Frame : InFlight(f)' => lastKey <= f.window /\ f.window <= pass.window
    BY <1>1, <1>4, <1>6, <1>7 DEF OnceInv, WindowsRise
  <2> QED BY <1>2, <1>4, <2>1, <2>2, <2>3 DEF WindowsRise
<1>9. RowsBehind'
  <2>1. \A f \in Frame : InFlight(f)' /\ f.window # lastKey => outcome.rows < f.window
    BY <1>1, <1>2, <1>7 DEF OnceInv, RowsBehind
  <2> QED BY <1>2, <2>1 DEF OnceInv, RowsBehind, Sendable
<1> QED BY <1>8, <1>9 DEF OnceInv

\* What either form does with a row that decodes.
LEMMA RowIsCounted ==
    ASSUME GroupInv, OnceInv, NEW f \in Frame, WriterReady(f),
           IF f.long THEN StageLong(f) ELSE StageWide(f)
    PROVE  /\ lastKey' = f.window
           /\ outcome'.rows = IF Repeats(f) THEN outcome.rows ELSE outcome.rows + 1
           /\ outcome' \in [sent : SUBSET Occupants, written : SUBSET Occupants, rows : Nat]
<1>1. /\ outcome \in [sent : SUBSET Occupants, written : SUBSET Occupants, rows : Nat]
      /\ resolved \subseteq KeyedLabels /\ announced \subseteq KeyedLabels
      /\ f.new \subseteq KeyedLabels /\ f.holds \subseteq Occupants
      /\ f.hash \in Hashes /\ Members[f.hash] \subseteq Occupants
      /\ outcome.rows \in Nat
  BY FrameFields, StreamedGroupAssumption DEF OnceInv, RowsBehind, GroupInv, WriterTyped
<1>2. ASSUME NEW written \in BOOLEAN, written <=> ~Repeats(f), NEW who \in SUBSET Occupants,
             lastKey' = (IF written THEN f.window ELSE lastKey),
             outcome' = IF Repeats(f) THEN outcome
                        ELSE [sent |-> f.holds, written |-> IF written THEN who ELSE {},
                              rows |-> RowsAfter(written)]
      PROVE /\ lastKey' = f.window
            /\ outcome'.rows = IF Repeats(f) THEN outcome.rows ELSE outcome.rows + 1
            /\ outcome' \in [sent : SUBSET Occupants, written : SUBSET Occupants, rows : Nat]
  <2>1. CASE Repeats(f)
    BY <1>1, <1>2, <2>1 DEF Repeats
  <2>2. CASE ~Repeats(f)
    <3>1. outcome' = [sent |-> f.holds, written |-> who, rows |-> outcome.rows + 1]
      BY <1>2, <2>2 DEF RowsAfter
    <3>2. outcome.rows + 1 \in Nat
      BY <1>1
    <3> QED BY <1>1, <1>2, <2>2, <3>1, <3>2
  <2> QED BY <2>1, <2>2
<1>3. CASE f.long
  <2> DEFINE fresh == {n.key : n \in f.new}
             before == KeptResolved(f.new)
             waiting == {e \in announced : e.key \notin fresh} \cup f.new
             pending == {e \in waiting : e.key \notin {r.key : r \in before}}
             now == {e \in before \cup pending : e.key \in f.present}
             anchored == IF f.schema THEN f.hash ELSE wire
             written == ~Repeats(f) /\ anchored = f.hash
             who == {e.occupant : e \in now}
  <2>1. /\ lastKey' = IF written THEN f.window ELSE lastKey
        /\ outcome' = IF Repeats(f) THEN outcome
                      ELSE [sent |-> f.holds, written |-> IF written THEN who ELSE {},
                            rows |-> RowsAfter(written)]
    BY <1>3 DEF StageLong
  <2>2. anchored = f.hash
    BY <1>3 DEF WriterReady, HasSchema
  <2>3. now \subseteq KeyedLabels
    BY <1>1 DEF KeptResolved
  <2>4. \A e \in KeyedLabels : e.occupant \in Occupants
    BY DEF KeyedLabels
  <2>5. who \subseteq Occupants
    BY <2>3, <2>4
  <2>6. written \in BOOLEAN /\ (written <=> ~Repeats(f))
    BY <2>2
  <2> HIDE DEF written, who
  <2> QED BY <1>2, <2>1, <2>5, <2>6
<1>4. CASE ~f.long
  <2> DEFINE known == IF f.schema THEN f.hash ELSE decoderHash
             decodes == known = f.hash
             held == IF decodes /\ f.schema THEN layouts \cup {f.hash} ELSE layouts
             written == decodes /\ ~Repeats(f) /\ f.hash \in held
  <2>1. decodes /\ f.hash \in held
    BY <1>4 DEF WriterReady, HasSchema
  <2>2. /\ lastKey' = IF written THEN f.window ELSE lastKey
        /\ outcome' = IF Repeats(f) THEN outcome
                      ELSE [sent |-> f.holds,
                            written |-> IF written THEN Members[f.hash] ELSE {},
                            rows |-> RowsAfter(written)]
    BY <1>4 DEF StageWide
  <2>3. written \in BOOLEAN /\ (written <=> ~Repeats(f))
    BY <2>1
  <2> HIDE DEF written
  <2> QED BY <1>1, <1>2, <2>2, <2>3
<1> QED BY <1>3, <1>4

LEMMA OnceAfterDeliver == ASSUME GroupInv, OnceInv, Deliver PROVE OnceInv'
<1>1. net \in Seq(Frame) /\ net # <<>>
  BY DEF GroupInv, Deliver
<1>2. PICK f \in Frame : f = Head(net)
  BY <1>1
<1>3. /\ net' = Tail(net) /\ UNCHANGED <<pass, lastWindow>>
      /\ IF f.long THEN StageLong(f) ELSE StageWide(f)
  BY <1>2 DEF Deliver, producer
<1>4. /\ Len(net) \in Nat \ {0} /\ f = net[1] /\ 1 \in DOMAIN net /\ DOMAIN net = 1..Len(net)
      /\ Len(net') = Len(net) - 1
      /\ \A i \in 1..(Len(net) - 1) : net'[i] = net[i + 1]
      /\ DOMAIN net' = 1..(Len(net) - 1)
  BY <1>1, <1>2, <1>3
<1>5. InFlight(f) /\ WriterReady(f)
  BY <1>1, <1>2, <1>4 DEF GroupInv, InFlight
<1>6. /\ lastKey' = f.window
      /\ outcome'.rows = IF Repeats(f) THEN outcome.rows ELSE outcome.rows + 1
      /\ outcome' \in [sent : SUBSET Occupants, written : SUBSET Occupants, rows : Nat]
  BY <1>3, <1>5, RowIsCounted
<1>7. /\ pass.window \in Nat /\ lastWindow \in Nat /\ lastKey \in Nat /\ outcome.rows \in Nat
      /\ \A g \in Frame : g.window \in Nat
  BY WindowTypes
<1>8. /\ lastKey <= f.window /\ f.window <= lastWindow /\ lastWindow <= pass.window
      /\ outcome.rows <= pass.window
      /\ f.window # lastKey => outcome.rows < f.window
  BY <1>5 DEF OnceInv, WindowsRise, RowsBehind
\* The frames behind it are of later windows.
<1>9. \A g \in Frame : InFlight(g)' => InFlight(g) /\ f.window < g.window
  <2> SUFFICES ASSUME NEW g \in Frame, NEW i \in DOMAIN net', net'[i] = g
               PROVE  InFlight(g) /\ f.window < g.window
    BY DEF InFlight
  <2>1. i + 1 \in DOMAIN net /\ 1 < i + 1 /\ i \in 1..(Len(net) - 1)
    BY <1>4
  <2>2. net[i + 1] = g
    BY <1>4, <2>1
  <2> QED BY <1>4, <2>1, <2>2 DEF OnceInv, WindowsRise, InFlight
<1>10. Repeats(f) <=> lastKey = f.window
  BY DEF Repeats
\* What was written by now is not above this window, unless it was written
\* by another producer's writer.
<1>11. \A g \in Frame : InFlight(g)' => outcome'.rows < g.window
  <2> SUFFICES ASSUME NEW g \in Frame, InFlight(g)' PROVE outcome'.rows < g.window
    OBVIOUS
  <2>1. InFlight(g) /\ f.window < g.window /\ g.window \in Nat /\ f.window \in Nat
    BY <1>7, <1>9
  <2>2. CASE Repeats(f)
    <3>1. g.window # lastKey
      BY <1>10, <2>1, <2>2
    <3> QED BY <1>6, <2>1, <2>2, <3>1 DEF OnceInv, RowsBehind
  <2>3. CASE ~Repeats(f)
    <3>1. outcome.rows < f.window /\ outcome'.rows = outcome.rows + 1
      BY <1>6, <1>8, <1>10, <2>3
    <3> QED BY <1>7, <2>1, <3>1
  <2> QED BY <2>2, <2>3
<1>12. outcome'.rows <= pass.window
  BY <1>6, <1>7, <1>8, <1>10
<1>13. Sendable /\ pass.window # f.window => outcome'.rows < pass.window
  <2> SUFFICES ASSUME Sendable, pass.window # f.window PROVE outcome'.rows < pass.window
    OBVIOUS
  <2>0. f.window \in Nat /\ f.window < pass.window
    BY <1>7, <1>8
  <2>1. CASE Repeats(f)
    BY <1>6, <1>10, <2>1 DEF OnceInv, RowsBehind
  <2>2. CASE ~Repeats(f)
    BY <1>6, <1>7, <1>8, <1>10, <2>0, <2>2
  <2> QED BY <2>1, <2>2
<1>14. RowsBehind'
  BY <1>3, <1>6, <1>11, <1>12, <1>13 DEF RowsBehind, Sendable
<1>15. WindowsRise'
  <2>1. f.window <= pass.window
    BY <1>7, <1>8
  <2>2. \A g \in Frame : InFlight(g)' => f.window <= g.window /\ g.window <= lastWindow
    BY <1>7, <1>9 DEF OnceInv, WindowsRise
  <2>3. \A i, j \in DOMAIN net' : i < j => net'[i].window < net'[j].window
    <3> SUFFICES ASSUME NEW i \in DOMAIN net', NEW j \in DOMAIN net', i < j
                 PROVE  net'[i].window < net'[j].window
      OBVIOUS
    <3>1. i + 1 \in DOMAIN net /\ j + 1 \in DOMAIN net /\ i + 1 < j + 1
      BY <1>4
    <3>2. net'[i] = net[i + 1] /\ net'[j] = net[j + 1]
      BY <1>4
    <3> QED BY <3>1, <3>2 DEF OnceInv, WindowsRise
  <2>4. net' # <<>> => lastWindow = net'[Len(net')].window
    <3> SUFFICES ASSUME net' # <<>> PROVE lastWindow = net'[Len(net')].window
      OBVIOUS
    <3>1. net' \in Seq(Frame)
      BY <1>1, <1>3
    <3>2. Len(net') # 0 /\ Len(net') = Len(net) - 1 /\ Len(net) \in Nat
      BY <1>4, <3>1
    <3>3. Len(net') \in 1..(Len(net) - 1) /\ Len(net') + 1 = Len(net)
      BY <3>2
    <3>4. net'[Len(net')] = net[Len(net)]
      BY <1>4, <3>3
    <3> QED BY <1>1, <3>4 DEF OnceInv, WindowsRise
  <2> QED BY <1>3, <1>6, <1>8, <2>1, <2>2, <2>3, <2>4 DEF WindowsRise
<1> QED BY <1>14, <1>15 DEF OnceInv

LEMMA OnceStep == GroupInv /\ OnceInv /\ [SGNext]_sgvars => OnceInv'
<1> SUFFICES ASSUME GroupInv, OnceInv, [SGNext]_sgvars PROVE OnceInv'
  OBVIOUS
<1>1. ASSUME UNCHANGED <<pass, net, lastWindow, lastKey, outcome>> PROVE OnceInv'
  BY <1>1 DEF OnceInv, WindowsRise, RowsBehind, InFlight, Sendable
<1>2. ASSUME NEW o \in Occupants, NewKey(o) PROVE OnceInv'
  BY <1>1, <1>2 DEF NewKey, connection, writer
<1>3. ASSUME NEW long \in BOOLEAN, NEW h \in Hashes, Acquire(long, h) PROVE OnceInv'
  BY <1>3, OnceAfterAcquire
<1>4. CASE Send
  BY <1>4, OnceAfterSend
<1>5. CASE Deliver
  BY <1>5, OnceAfterDeliver
<1>6. CASE Reconnect
  <2>1. UNCHANGED <<pass, lastKey, outcome>> /\ net' = <<>> /\ lastWindow' = Never
    BY <1>6 DEF Reconnect, NewConnection, producer
  <2> QED BY <2>1, OnceOverConnections DEF Sendable
<1>7. ASSUME NewProcess PROVE /\ net' = <<>> /\ lastWindow' = Never /\ outcome' = outcome
                              /\ pass'.window = pass.window /\ ~Sendable'
  <2>1. pass' = NoPass(pass.window)
    BY <1>7 DEF NewProcess
  <2>2. pass'.long = TRUE /\ pass'.window = pass.window /\ pass'.present = {}
    BY <2>1 DEF NoPass
  <2> QED BY <1>7, <2>2 DEF NewProcess, NewConnection, Sendable
<1>8. CASE Restart
  <2>1. lastKey' = lastKey /\ NewProcess
    BY <1>8 DEF Restart
  <2> QED BY <1>7, <2>1, OnceOverConnections
<1>9. CASE ProducerChange
  <2>1. lastKey' = Never /\ NewProcess
    BY <1>9 DEF ProducerChange
  <2> QED BY <1>7, <2>1, OnceOverConnections
<1>10. CASE UNCHANGED sgvars
  BY <1>1, <1>10 DEF sgvars, producer, connection, writer
<1> QED BY <1>2, <1>3, <1>4, <1>5, <1>6, <1>8, <1>9, <1>10 DEF SGNext

\* A row of a group that was not written yet is written for the occupants the
\* producer read it of, whatever frames are lost with their connection and
\* whenever the producer restarts, changes or takes the other form: for any
\* occupants, any schemas, any number of keys, frames and drops
\* (frame_at and interval on one side, stage_streamed on the other).  And it
\* is written once at most, though a connection that begins sends the last
\* pass again, and a restarted producer's windows go on where they were (the
\* doc of GroupState.last_key).
THEOREM StreamedRowsAreExact == SGSpec => []RowsWrittenExactly
<1>1. GroupInv /\ OnceInv => RowsWrittenExactly
  BY DEF GroupInv, OnceInv, RowsBehind, RowsWrittenExactly, SameOccupants, WrittenOnce
<1> QED BY <1>1, GroupStarts, GroupStep, OnceStarts, OnceStep, PTL DEF SGSpec

BoundsTyped == drops \in 0..MaxDrops /\ pass \in Pass

LEMMA GroupIsTyped == GroupInv /\ OnceInv /\ BoundsTyped => SGTypeOK
<1> SUFFICES ASSUME GroupInv, OnceInv, BoundsTyped PROVE SGTypeOK
  OBVIOUS
<1>1. Len(keys) \in Nat /\ DOMAIN keys = 1..Len(keys) /\ Len(keys) <= MaxKeys
      /\ keys \in Seq(Occupants) /\ MaxKeys \in Nat
  BY StreamedGroupAssumption DEF GroupInv, KeysTyped
<1>2. DOMAIN keys \subseteq Keys
  BY <1>1 DEF Keys
<1>3. sentKeys \subseteq Keys
  BY <1>2 DEF GroupInv, SentTyped
<1>4. outcome.rows \in 0..MaxWindow
  <2>1. outcome.rows <= pass.window
    BY DEF OnceInv, RowsBehind
  <2> QED BY <2>1, WindowTypes
<1>5. outcome \in [sent : SUBSET Occupants, written : SUBSET Occupants, rows : 0..MaxWindow]
  BY <1>4 DEF OnceInv, RowsBehind
<1> QED BY <1>1, <1>3, <1>5 DEF GroupInv, SentTyped, WriterTyped, BoundsTyped, SGTypeOK

LEMMA PassAndDropsStep ==
    GroupInv /\ BoundsTyped /\ [SGNext]_sgvars => BoundsTyped'
<1> SUFFICES ASSUME GroupInv, drops \in 0..MaxDrops, pass \in Pass, [SGNext]_sgvars
             PROVE  drops' \in 0..MaxDrops /\ pass' \in Pass
  BY DEF BoundsTyped
<1>0. MaxDrops \in Nat /\ MaxWindow \in Nat /\ MaxKeys \in Nat
  BY StreamedGroupAssumption
<1>1. CASE UNCHANGED <<pass, drops>>
  BY <1>1
<1>2. ASSUME NEW long \in BOOLEAN, NEW h \in Hashes, Acquire(long, h)
      PROVE  drops' \in 0..MaxDrops /\ pass' \in Pass
  <2>1. PICK present \in SUBSET {k \in 1..Len(keys) : Latest(k)} :
          pass' = [long |-> long, hash |-> h, window |-> pass.window + 1, present |-> present]
    BY <1>2 DEF Acquire
  <2>2. Len(keys) \in Nat /\ Len(keys) <= MaxKeys
    BY DEF GroupInv, KeysTyped
  <2>3. 1..Len(keys) \subseteq Keys
    BY <1>0, <2>2 DEF Keys
  <2>4. pass.window + 1 \in 0..MaxWindow
    BY <1>0, <1>2 DEF Acquire, Pass
  <2> QED BY <1>2, <2>1, <2>3, <2>4 DEF Acquire, Pass
<1>3. ASSUME NewConnection PROVE drops' \in 0..MaxDrops
  BY <1>0, <1>3 DEF NewConnection
<1>4. ASSUME NewProcess PROVE pass' \in Pass
  <2>1. pass' = NoPass(pass.window)
    BY <1>4 DEF NewProcess
  <2>2. pass.hash \in Hashes /\ pass.window \in 0..MaxWindow
    BY DEF Pass
  <2>3. (CHOOSE h \in Hashes : TRUE) \in Hashes
    BY <2>2
  <2> QED BY <2>1, <2>2, <2>3 DEF NoPass, Pass
<1>5. CASE Reconnect
  BY <1>3, <1>5 DEF Reconnect, producer
<1>6. CASE Restart \/ ProducerChange
  BY <1>3, <1>4, <1>6 DEF Restart, ProducerChange, NewProcess
<1>7. CASE (\E o \in Occupants : NewKey(o)) \/ Send \/ Deliver \/ UNCHANGED sgvars
  BY <1>1, <1>7 DEF NewKey, Send, Deliver, producer, sgvars
<1> QED BY <1>2, <1>5, <1>6, <1>7 DEF SGNext

\* The types of the group's state on either side of a connection, where
\* there is a schema at all.
THEOREM StreamedGroupTypes ==
    ASSUME Hashes # {}
    PROVE  SGSpec => []SGTypeOK
<1>1. SGInit => BoundsTyped
  <2>1. (CHOOSE h \in Hashes : TRUE) \in Hashes /\ MaxDrops \in Nat /\ MaxWindow \in Nat
    BY StreamedGroupAssumption
  <2> QED BY <2>1 DEF SGInit, NoPass, Pass, BoundsTyped
<1> QED BY <1>1, GroupIsTyped, GroupStarts, GroupStep, OnceStarts, OnceStep, PassAndDropsStep, PTL
        DEF SGSpec

(***************************************************************************)
(* StreamPasses: a subscription's index, and the passes it is sent.        *)
(*                                                                         *)
(* The index of a frame is that of the interval its wake fell in, or one   *)
(* more than the last.  So the last index is not past the clock, as it is  *)
(* now, of the last wake: what a jump of the index skips did elapse.  That *)
(* a pass is not sent twice follows from where each wake falls: within the *)
(* jitter of a boundary, an interval after the wake before.                *)
(***************************************************************************)
(***************************************************************************)
(* Division and remainder by an interval.                                  *)
(***************************************************************************)

LEMMA Quotient ==
    ASSUME NEW a \in Int, NEW i \in Nat \ {0}
    PROVE  /\ a \div i \in Int /\ a % i \in 0..(i - 1)
           /\ a = i * (a \div i) + (a % i)
  OBVIOUS

LEMMA TimesKeepsOrder ==
    ASSUME NEW a \in Int, NEW b \in Int, NEW i \in Nat \ {0}, a < b
    PROVE  i * a + i <= i * b
<1>1. i * b - i * a = i * (b - a)
  OBVIOUS
<1>2. b - a - 1 \in Nat
  OBVIOUS
<1>3. i * (b - a - 1) >= 0
  BY <1>2
<1>4. i * (b - a - 1) = i * (b - a) - i
  OBVIOUS
<1> QED BY <1>1, <1>3, <1>4

LEMMA QuotientIsGreatest ==
    ASSUME NEW a \in Int, NEW m \in Int, NEW i \in Nat \ {0}, i * m <= a
    PROVE  m <= a \div i
<1> DEFINE q == a \div i
<1>1. q \in Int /\ a < i * q + i
  BY Quotient
<1> HIDE DEF q
<1>2. CASE q < m
  <2>1. i * q + i <= i * m
    BY <1>1, <1>2, TimesKeepsOrder
  <2> QED BY <1>1, <2>1
<1>3. ~(q < m) => m <= q
  BY <1>1
<1> QED BY <1>2, <1>3 DEF q

LEMMA RemainderAfter ==
    ASSUME NEW a \in Int, NEW x \in Nat, NEW i \in Nat \ {0}
    PROVE  (a + x) % i <= (a % i) + x
<1>1. /\ a \div i \in Int /\ a % i \in 0..(i - 1) /\ a = i * (a \div i) + (a % i)
  BY Quotient
<1>2. /\ (a + x) \div i \in Int /\ (a + x) % i \in 0..(i - 1)
      /\ a + x = i * ((a + x) \div i) + ((a + x) % i)
  BY Quotient
<1>3. i * (a \div i) <= a + x
  BY <1>1
<1>4. a \div i <= (a + x) \div i
  <2> DEFINE m == a \div i
             y == a + x
  <2>1. m \in Int /\ y \in Int /\ i * m <= y
    BY <1>1, <1>3
  <2> HIDE DEF m, y
  <2>2. m <= y \div i
    BY <2>1, QuotientIsGreatest
  <2> QED BY <2>2 DEF m, y
<1>5. i * (a \div i) <= i * ((a + x) \div i)
  <2>1. CASE a \div i = (a + x) \div i
    BY <1>1, <2>1
  <2>2. CASE a \div i < (a + x) \div i
    <3>1. i * (a \div i) + i <= i * ((a + x) \div i)
      BY <1>1, <1>2, <2>2, TimesKeepsOrder
    <3>2. i * (a \div i) \in Int /\ i * ((a + x) \div i) \in Int
      BY <1>1, <1>2
    <3> QED BY <3>1, <3>2
  <2> QED BY <1>1, <1>2, <1>4, <2>1, <2>2
<1> QED BY <1>1, <1>2, <1>5

LEMMA NextBoundary ==
    ASSUME NEW a \in Int, NEW i \in Nat \ {0}
    PROVE  (a + (i - (a % i))) % i = 0
<1> DEFINE b == a + (i - (a % i))
<1>1. /\ a \div i \in Int /\ a % i \in 0..(i - 1) /\ a = i * (a \div i) + (a % i)
  BY Quotient
<1>2. b \in Int /\ b = i * (a \div i) + i
  BY <1>1
<1>3. i * (a \div i) + i = i * ((a \div i) + 1)
  BY <1>1
<1> HIDE DEF b
<1>4. b \div i \in Int /\ b % i \in 0..(i - 1) /\ b = i * (b \div i) + (b % i)
  BY <1>2, Quotient
<1>5. (a \div i) + 1 <= b \div i
  <2>1. i * ((a \div i) + 1) <= b /\ (a \div i) + 1 \in Int
    BY <1>1, <1>2, <1>3
  <2> QED BY <1>2, <2>1, QuotientIsGreatest
<1>6. CASE (a \div i) + 1 < b \div i
  <2>1. i * ((a \div i) + 1) + i <= i * (b \div i)
    BY <1>1, <1>4, <1>6, TimesKeepsOrder
  <2>2. i * ((a \div i) + 1) \in Int /\ i * (b \div i) \in Int
    BY <1>1, <1>4
  <2> QED BY <1>2, <1>3, <1>4, <2>1, <2>2
<1>7. CASE (a \div i) + 1 = b \div i
  <2> DEFINE y == i * (b \div i)
             r == b % i
  <2>1. b = y
    BY <1>2, <1>3, <1>7
  <2>2. y \in Int /\ r \in Int /\ b = y + r
    BY <1>4
  <2> HIDE DEF y, r
  <2>3. r = 0
    BY <2>1, <2>2
  <2> QED BY <2>3 DEF b, r
<1> QED BY <1>1, <1>4, <1>5, <1>6, <1>7

-----------------------------------------------------------------------------
Passes == [wall : Int, reading : Int]
Subscription ==
    [layout : Layouts, interval : Nat \ {0}, pc : {"asleep", "woken"},
     due : Nat, slack : Nat, now : Nat, lastWindow : Int, lastWall : Int, lastIndex : Int,
     woke : Nat, skipped : Int, pass : Passes, empty : BOOLEAN]

PassesTyped ==
    /\ time \in Nat /\ offset \in Int /\ Wall \in Nat
    /\ reading \in Int
    /\ cache \in [Layouts -> [now : Nat, pass : Passes]]
    /\ sub \in [Subs -> Subscription]
    /\ faults.kinds \subseteq {"failed", "forward", "back", "stall"}

\* Asleep, a subscription's last index is that of its last wake by the clock
\* as it is now or a later one; awake, by the clock it woke to.  The clock's
\* offset only goes down while it is not stepped forward.
IndexHeld(c) ==
    IF c.pc = "asleep"
    THEN /\ c.lastIndex >= 0 => c.woke + offset < c.interval * c.lastIndex + c.interval
         /\ c.woke <= c.due
    ELSE /\ c.lastIndex >= 0 =>
               c.woke + (c.now - c.due) < c.interval * c.lastIndex + c.interval
         /\ c.woke <= c.due
         /\ offset <= c.now - c.due

IndexesHeld ==
    /\ \A s \in Subs : sub[s].pc = "woken" => sub[s].due <= time
    /\ "forward" \notin faults.kinds => \A s \in Subs : IndexHeld(sub[s])

\* While the clock and the tasks are on time, a subscription wakes within
\* the jitter of a boundary, and the last pass it was sent is an interval
\* older than the next boundary, but for the jitter of its wake and of its
\* fetch.
OnTime(c) ==
    /\ c.slack = 0
    /\ IF c.pc = "asleep"
       THEN /\ time <= c.due + Late
            /\ (c.due + offset) % c.interval = 0
            /\ c.lastWall + c.interval <= c.due + offset + 2 * Late
       ELSE /\ c.due <= time /\ time <= c.due + Late
            /\ c.now = c.due + offset /\ c.now % c.interval <= Late
            /\ c.lastWall + c.interval <= c.now + 2 * Late

ServedAnew(c) == c.interval >= Floor /\ c.pass # NotYet => ~c.empty

PassesDated ==
    \A l \in Layouts :
        cache[l].pass # NotYet =>
            cache[l].now <= cache[l].pass.wall /\ cache[l].pass.wall <= Wall

Undisturbed == faults.kinds \subseteq {"failed"} /\ 2 * Late <= Floor \div 4

ServedInv ==
    Undisturbed => PassesDated /\ \A s \in Subs : OnTime(sub[s]) /\ ServedAnew(sub[s])

-----------------------------------------------------------------------------
LEMMA FloorIsPositive ==
    Floor \in Nat \ {0} /\ Late \in Nat /\ Floor \div 2 \in Nat /\ Floor \div 4 \in Nat
    /\ 4 * (Floor \div 4) <= Floor
  BY SPAssumption

LEMMA StartWallIsNat == StartWall \in Nat
  BY FloorIsPositive DEF StartWall

LEMMA AlignWaitTypes ==
    ASSUME NEW w \in Int, NEW i \in Nat \ {0}
    PROVE  AlignWait(w, i) \in 1..i
  BY Quotient DEF AlignWait

LEMMA NotYetIsPass == NotYet \in Passes /\ NotYet.wall = -1
  BY DEF NotYet, Passes

LEMMA NewPassIsPass ==
    ASSUME PassesTyped
    PROVE  NewPass \in Passes /\ NewPass.wall = Wall /\ NewPass # NotYet
<1>1. Wall \in Nat /\ reading \in Int
  BY DEF PassesTyped
<1>2. NewPass \in Passes /\ NewPass.wall = Wall
  BY <1>1 DEF NewPass, Passes
<1>3. NewPass.wall # NotYet.wall
  BY <1>1, <1>2, NotYetIsPass
<1> QED BY <1>2, <1>3

LEMMA SubscriptionFields ==
    ASSUME NEW c \in Subscription
    PROVE  /\ c.interval \in Nat \ {0} /\ c.pc \in {"asleep", "woken"} /\ c.layout \in Layouts
           /\ c.due \in Nat /\ c.slack \in Nat /\ c.now \in Nat /\ c.lastWindow \in Int
           /\ c.lastWall \in Int /\ c.lastIndex \in Int /\ c.woke \in Nat /\ c.skipped \in Int
           /\ c.pass \in Passes /\ c.empty \in BOOLEAN
  BY DEF Subscription

LEMMA IndexIsLater ==
    ASSUME NEW w \in Int, NEW i \in Nat \ {0}, NEW last \in Int
    PROVE  LET index == MonotonicIndex(w, i, last)
           IN /\ index \in Int /\ index > last
              /\ w < i * index + i
              /\ index = last + 1 \/ (index = w \div i /\ i * index <= w)
<1> DEFINE q == w \div i
<1>1. q \in Int /\ w % i \in 0..(i - 1) /\ w = i * q + (w % i)
  BY Quotient
<1>2. i * q \in Int
  BY <1>1
<1>3. w < i * q + i /\ i * q <= w
  BY <1>1, <1>2
<1>4. MonotonicIndex(w, i, last) = IF q <= last THEN last + 1 ELSE q
  BY DEF MonotonicIndex, IntervalIndex
<1> HIDE DEF q
<1>5. CASE q <= last
  <2>1. q < last + 1 /\ last + 1 \in Int
    BY <1>1, <1>5
  <2>2. i * q + i <= i * (last + 1)
    BY <1>1, <2>1, TimesKeepsOrder
  <2>3. i * (last + 1) \in Int
    OBVIOUS
  <2>4. w < i * (last + 1) + i
    BY <1>2, <1>3, <2>2, <2>3
  <2> QED BY <1>4, <1>5, <2>1, <2>4
<1>6. CASE ~(q <= last)
  <2>1. q > last
    BY <1>1, <1>6
  <2>2. MonotonicIndex(w, i, last) = q
    BY <1>4, <1>6
  <2> QED BY <1>1, <1>3, <2>1, <2>2 DEF q
<1> QED BY <1>5, <1>6

\* What a frame makes of a subscription.
LEMMA SubFrameFields ==
    ASSUME PassesTyped, NEW c \in Subscription, NEW p \in Passes
    PROVE  LET d == SubFrame(c, p)
               index == MonotonicIndex(c.now, c.interval, c.lastIndex)
           IN /\ d \in Subscription
              /\ d.interval = c.interval /\ d.pc = "asleep" /\ d.slack = 0
              /\ d.due = time + AlignWait(Wall, c.interval)
              /\ d.woke = c.due /\ d.lastIndex = index
              /\ d.skipped = (IF c.lastIndex < 0 THEN 0 ELSE index - c.lastIndex - 1)
              /\ d.lastWall = (IF p = NotYet THEN c.lastWall ELSE p.wall)
              /\ d.pass = p
              /\ d.empty = ~(p # NotYet /\ c.lastWall # p.wall)
<1> DEFINE index == MonotonicIndex(c.now, c.interval, c.lastIndex)
           sends == SendsRow(c, p)
           due == time + AlignWait(Wall, c.interval)
           skipped == IF c.lastIndex < 0 THEN 0 ELSE index - c.lastIndex - 1
           lastWall == IF p = NotYet THEN c.lastWall ELSE p.wall
           newest == IF sends THEN p.reading ELSE c.lastWindow
           empty == ~Advanced(c, p)
<1>1. /\ c.interval \in Nat \ {0} /\ c.layout \in Layouts /\ c.due \in Nat /\ c.now \in Nat
      /\ c.lastWindow \in Int /\ c.lastWall \in Int /\ c.lastIndex \in Int
  BY SubscriptionFields
<1>2. index \in Int
  <2>1. c.now \in Int
    BY <1>1
  <2> QED BY <1>1, <2>1, IndexIsLater
<1>3. time \in Nat /\ Wall \in Nat
  BY DEF PassesTyped
<1>4. due \in Nat
  <2>1. Wall \in Int
    BY <1>3
  <2>2. AlignWait(Wall, c.interval) \in 1..c.interval
    BY <1>1, <2>1, AlignWaitTypes
  <2>3. AlignWait(Wall, c.interval) \in Nat
    BY <1>1, <2>2
  <2> QED BY <1>3, <2>3
<1>5. p.wall \in Int /\ p.reading \in Int
  BY DEF Passes
<1>6. skipped \in Int /\ lastWall \in Int /\ newest \in Int /\ empty \in BOOLEAN
  BY <1>1, <1>2, <1>5 DEF Advanced
<1>7. SubFrame(c, p) =
        [c EXCEPT !.pc = "asleep", !.due = due, !.slack = 0, !.now = 0, !.woke = c.due,
                  !.lastIndex = index, !.skipped = skipped, !.lastWall = lastWall,
                  !.lastWindow = newest, !.empty = empty, !.pass = p]
  BY DEF SubFrame
<1>8. empty = ~(p # NotYet /\ c.lastWall # p.wall)
  BY DEF Advanced
<1> HIDE DEF index, sends, due, skipped, lastWall, newest, empty
<1>9. SubFrame(c, p) =
        [layout |-> c.layout, interval |-> c.interval, pc |-> "asleep", due |-> due,
         slack |-> 0, now |-> 0, lastWindow |-> newest, lastWall |-> lastWall,
         lastIndex |-> index, woke |-> c.due, skipped |-> skipped, pass |-> p,
         empty |-> empty]
  BY <1>7 DEF Subscription
<1>10. SubFrame(c, p) \in Subscription
  BY <1>1, <1>2, <1>4, <1>6, <1>9 DEF Subscription
<1>11. /\ SubFrame(c, p).interval = c.interval /\ SubFrame(c, p).pc = "asleep"
       /\ SubFrame(c, p).slack = 0 /\ SubFrame(c, p).due = due
       /\ SubFrame(c, p).woke = c.due /\ SubFrame(c, p).lastIndex = index
       /\ SubFrame(c, p).skipped = skipped /\ SubFrame(c, p).lastWall = lastWall
       /\ SubFrame(c, p).pass = p /\ SubFrame(c, p).empty = empty
  BY <1>9
<1> QED BY <1>8, <1>10, <1>11 DEF index, due, skipped, lastWall

\* A fetch, of whatever pass.
Frames(s, p) ==
    /\ sub[s].pc = "woken"
    /\ sub' = [sub EXCEPT ![s] = SubFrame(sub[s], p)]
    /\ UNCHANGED <<time, offset, reading>>

Fetch(s) == FetchShared(s) \/ FetchBuilt(s) \/ FetchFailed(s)

LEMMA FetchFrames ==
    ASSUME PassesTyped, NEW s \in Subs, Fetch(s)
    PROVE  \E p \in Passes :
             /\ Frames(s, p)
             /\ faults.kinds \subseteq faults'.kinds
             /\ faults'.kinds \subseteq {"failed", "forward", "back", "stall"}
             /\ cache' \in [Layouts -> [now : Nat, pass : Passes]]
             /\ \/ /\ cache' = cache /\ faults' = faults
                   /\ Shares(cache[sub[s].layout], sub[s].now)
                   /\ p = cache[sub[s].layout].pass
                \/ /\ faults' = faults /\ p = NewPass
                   /\ cache' = [cache EXCEPT ![sub[s].layout] =
                                   [now |-> sub[s].now, pass |-> NewPass]]
                \/ /\ p = NotYet
                   /\ cache' = [cache EXCEPT ![sub[s].layout].pass = NotYet]
<1>1. /\ sub[s] \in Subscription /\ sub[s].layout \in Layouts /\ sub[s].now \in Nat
      /\ cache \in [Layouts -> [now : Nat, pass : Passes]]
      /\ faults.kinds \subseteq {"failed", "forward", "back", "stall"}
  BY SubscriptionFields DEF PassesTyped
<1>2. CASE FetchShared(s)
  <2>1. cache[sub[s].layout].pass \in Passes
    BY <1>1
  <2>2. /\ Shares(cache[sub[s].layout], sub[s].now) /\ cache' = cache /\ faults' = faults
        /\ Frames(s, cache[sub[s].layout].pass)
    BY <1>2 DEF FetchShared, Frames
  <2> QED BY <1>1, <2>1, <2>2
<1>3. CASE FetchBuilt(s)
  <2>1. NewPass \in Passes
    BY NewPassIsPass
  <2>2. /\ faults' = faults /\ Frames(s, NewPass)
        /\ cache' = [cache EXCEPT ![sub[s].layout] = [now |-> sub[s].now, pass |-> NewPass]]
    BY <1>3 DEF FetchBuilt, Frames
  <2>3. cache' \in [Layouts -> [now : Nat, pass : Passes]]
    BY <1>1, <2>1, <2>2
  <2> QED BY <1>1, <2>1, <2>2, <2>3
<1>4. CASE FetchFailed(s)
  <2>1. NotYet \in Passes
    BY NotYetIsPass
  <2>2. /\ Frames(s, NotYet) /\ cache' = [cache EXCEPT ![sub[s].layout].pass = NotYet]
        /\ faults'.kinds = faults.kinds \cup {"failed"}
    BY <1>4 DEF FetchFailed, Frames, Fault
  <2>3. cache' \in [Layouts -> [now : Nat, pass : Passes]]
    BY <1>1, <2>1, <2>2
  <2> QED BY <1>1, <2>1, <2>2, <2>3
<1> QED BY <1>2, <1>3, <1>4 DEF Fetch

LEMMA Awoken ==
    ASSUME NEW c \in Subscription, NEW w \in Nat, NEW t \in Nat
    PROVE  [c EXCEPT !.pc = "woken", !.now = w, !.due = t, !.slack = 0]
             = [layout |-> c.layout, interval |-> c.interval, pc |-> "woken", due |-> t,
                slack |-> 0, now |-> w, lastWindow |-> c.lastWindow, lastWall |-> c.lastWall,
                lastIndex |-> c.lastIndex, woke |-> c.woke, skipped |-> c.skipped,
                pass |-> c.pass, empty |-> c.empty]
<1> DEFINE Row(pc, due, slack, now) ==
             [layout |-> c.layout, interval |-> c.interval, pc |-> pc, due |-> due,
              slack |-> slack, now |-> now, lastWindow |-> c.lastWindow,
              lastWall |-> c.lastWall, lastIndex |-> c.lastIndex, woke |-> c.woke,
              skipped |-> c.skipped, pass |-> c.pass, empty |-> c.empty]
<1>1. [c EXCEPT !.pc = "woken", !.now = w, !.due = t, !.slack = 0]
        = [[[[c EXCEPT !.pc = "woken"] EXCEPT !.now = w] EXCEPT !.due = t] EXCEPT !.slack = 0]
  OBVIOUS
<1>2. [c EXCEPT !.pc = "woken"] = Row("woken", c.due, c.slack, c.now)
  BY DEF Subscription
<1>3. [Row("woken", c.due, c.slack, c.now) EXCEPT !.now = w] = Row("woken", c.due, c.slack, w)
  OBVIOUS
<1>4. [Row("woken", c.due, c.slack, w) EXCEPT !.due = t] = Row("woken", t, c.slack, w)
  OBVIOUS
<1>5. [Row("woken", t, c.slack, w) EXCEPT !.slack = 0] = Row("woken", t, 0, w)
  OBVIOUS
<1> QED BY <1>1, <1>2, <1>3, <1>4, <1>5

LEMMA WakeFields ==
    ASSUME PassesTyped, NEW s \in Subs, Wake(s)
    PROVE  \E d \in Subscription :
              /\ sub' = [sub EXCEPT ![s] = d]
              /\ sub[s].pc = "asleep" /\ sub[s].due <= time
              /\ d.pc = "woken" /\ d.now = Wall /\ d.due = time /\ d.slack = 0
              /\ d.interval = sub[s].interval /\ d.lastWall = sub[s].lastWall
              /\ d.pass = sub[s].pass /\ d.lastIndex = sub[s].lastIndex
              /\ d.woke = sub[s].woke /\ d.skipped = sub[s].skipped
              /\ d.empty = sub[s].empty
              /\ UNCHANGED <<time, offset, reading, cache, faults>>
<1>1. sub[s] \in Subscription /\ time \in Nat /\ Wall \in Nat /\ sub[s].due \in Nat
  BY SubscriptionFields DEF PassesTyped
<1>2. PICK c \in Subscription : c = sub[s]
  BY <1>1
<1>3. PICK w \in Nat : w = Wall
  BY <1>1
<1> DEFINE d == [layout |-> c.layout, interval |-> c.interval, pc |-> "woken", due |-> time,
                 slack |-> 0, now |-> w, lastWindow |-> c.lastWindow, lastWall |-> c.lastWall,
                 lastIndex |-> c.lastIndex, woke |-> c.woke, skipped |-> c.skipped,
                 pass |-> c.pass, empty |-> c.empty]
<1>4. sub' = [sub EXCEPT ![s] = [c EXCEPT !.pc = "woken", !.now = w, !.due = time,
                                          !.slack = 0]]
  BY <1>2, <1>3 DEF Wake, PassesTyped
<1>5. sub' = [sub EXCEPT ![s] = d]
  BY <1>1, <1>4, Awoken
<1>6. d \in Subscription
  BY <1>1, SubscriptionFields DEF Subscription
<1>7. /\ d.pc = "woken" /\ d.now = w /\ d.due = time /\ d.slack = 0
      /\ d.interval = c.interval /\ d.lastWall = c.lastWall /\ d.pass = c.pass
      /\ d.lastIndex = c.lastIndex /\ d.woke = c.woke /\ d.skipped = c.skipped
      /\ d.empty = c.empty
  OBVIOUS
<1> HIDE DEF d
<1> QED BY <1>2, <1>3, <1>5, <1>6, <1>7 DEF Wake

LEMMA StallFields ==
    ASSUME PassesTyped, NEW s \in Subs, NEW x \in Stalls, Stall(s, x)
    PROVE  LET c == sub[s]
               d == [sub[s] EXCEPT !.slack = x]
           IN /\ d \in Subscription /\ sub' = [sub EXCEPT ![s] = d]
              /\ d.pc = c.pc /\ d.now = c.now /\ d.due = c.due
              /\ d.interval = c.interval
              /\ d.lastIndex = c.lastIndex /\ d.woke = c.woke /\ d.skipped = c.skipped
              /\ UNCHANGED <<time, offset, reading, cache>>
              /\ faults'.kinds = faults.kinds \cup {"stall"}
<1>1. sub[s] \in Subscription /\ x \in Nat
  BY SPAssumption DEF PassesTyped
<1>2. [sub[s] EXCEPT !.slack = x] \in Subscription
  BY <1>1 DEF Subscription
<1>3. sub' = [sub EXCEPT ![s] = [sub[s] EXCEPT !.slack = x]]
  BY DEF Stall, PassesTyped
<1>4. faults'.kinds = faults.kinds \cup {"stall"}
  BY DEF Stall, Fault
<1> QED BY <1>1, <1>2, <1>3, <1>4 DEF Stall, Subscription

-----------------------------------------------------------------------------
LEMMA SubscribedFields ==
    ASSUME NEW l \in Layouts, NEW i \in Nat \ {0}
    PROVE  LET c == Subscribed(l, i)
           IN /\ c \in Subscription /\ c.interval = i /\ c.pc = "asleep"
              /\ c.due = AlignWait(StartWall, i) /\ c.slack = 0 /\ c.lastWall = -1
              /\ c.lastIndex = -1 /\ c.woke = 0 /\ c.pass = NotYet /\ c.skipped = 0
<1>1. AlignWait(StartWall, i) \in Nat
  <2>1. StartWall \in Int
    BY StartWallIsNat
  <2>2. AlignWait(StartWall, i) \in 1..i
    BY <2>1, AlignWaitTypes
  <2> QED BY <2>2
<1> QED BY <1>1, NotYetIsPass DEF Subscribed, Subscription

LEMMA StartsSubscribed ==
    ASSUME SPInit, NEW s \in Subs
    PROVE  \E l \in Layouts, i \in Nat \ {0} : sub[s] = Subscribed(l, i)
<1>1. \A o \in Offers : o \in Nat \ {0} /\ Negotiated(o) \in Nat \ {0}
  BY SPAssumption DEF Negotiated
<1>2. PICK l \in Layouts, i \in Offers \cup {Negotiated(o) : o \in Offers} :
        sub[s] = Subscribed(l, i)
  BY DEF SPInit
<1> QED BY <1>1, <1>2

LEMMA TypedStarts == SPInit => PassesTyped
<1> SUFFICES ASSUME SPInit PROVE PassesTyped
  OBVIOUS
<1>1. /\ time = 0 /\ reading = 1 /\ offset = StartWall /\ StartWall \in Nat
      /\ faults = [kinds |-> {}, count |-> 0]
      /\ cache = [l \in Layouts |-> [now |-> 0, pass |-> NotYet]]
  BY StartWallIsNat DEF SPInit
<1>2. Wall \in Nat
  BY <1>1 DEF Wall
<1>3. cache \in [Layouts -> [now : Nat, pass : Passes]]
  BY <1>1, NotYetIsPass
<1>4. \A s \in Subs : sub[s] \in Subscription
  BY StartsSubscribed, SubscribedFields
<1>5. sub \in [Subs -> Subscription]
  <2>1. sub \in [Subs -> {Subscribed(l, i) : l \in Layouts,
                            i \in Offers \cup {Negotiated(o) : o \in Offers}}]
    BY DEF SPInit
  <2> QED BY <1>4, <2>1
<1>6. faults.kinds = {}
  BY <1>1
<1> QED BY <1>1, <1>2, <1>3, <1>5, <1>6 DEF PassesTyped

LEMMA StepCases ==
    ASSUME [SPNext]_spvars
    PROVE  \/ \E s \in Subs : Wake(s)
           \/ \E s \in Subs : Fetch(s)
           \/ Tick
           \/ \E d \in Steps : StepClock(d)
           \/ \E s \in Subs, d \in Stalls : Stall(s, d)
           \/ UNCHANGED spvars
  BY DEF SPNext, Fetch

LEMMA TypedStep == PassesTyped /\ [SPNext]_spvars => PassesTyped'
<1> SUFFICES ASSUME PassesTyped, [SPNext]_spvars PROVE PassesTyped'
  OBVIOUS
<1>0. /\ time \in Nat /\ offset \in Int /\ time + offset \in Nat /\ reading \in Int
      /\ sub \in [Subs -> Subscription]
  BY DEF PassesTyped, Wall
<1>1. ASSUME NEW s \in Subs, NEW d \in Subscription, sub' = [sub EXCEPT ![s] = d],
             UNCHANGED <<time, offset, reading>>,
             cache' \in [Layouts -> [now : Nat, pass : Passes]],
             faults'.kinds \subseteq {"failed", "forward", "back", "stall"}
      PROVE  PassesTyped'
  <2>1. sub' \in [Subs -> Subscription]
    BY <1>0, <1>1
  <2> QED BY <1>0, <1>1, <2>1 DEF PassesTyped, Wall
<1>2. ASSUME NEW s \in Subs, Wake(s) PROVE PassesTyped'
  BY <1>1, <1>2, WakeFields DEF PassesTyped
<1>3. ASSUME NEW s \in Subs, Fetch(s) PROVE PassesTyped'
  <2>1. PICK p \in Passes :
             /\ Frames(s, p)
             /\ faults'.kinds \subseteq {"failed", "forward", "back", "stall"}
             /\ cache' \in [Layouts -> [now : Nat, pass : Passes]]
    BY <1>3, FetchFrames
  <2>2. sub[s] \in Subscription
    BY <1>0
  <2>3. SubFrame(sub[s], p) \in Subscription
    BY <2>2, SubFrameFields
  <2> QED BY <1>1, <2>1, <2>3 DEF Frames
<1>4. CASE Tick
  <2>1. time' = time + 1 /\ UNCHANGED <<offset, cache, sub, faults>>
    BY <1>4 DEF Tick
  <2>2. reading' \in Int
    BY <1>0, <1>4 DEF Tick
  <2>3. time + 1 \in Nat /\ time + 1 + offset \in Nat
    BY <1>0
  <2> QED BY <1>0, <2>1, <2>2, <2>3 DEF PassesTyped, Wall
<1>5. ASSUME NEW d \in Steps, StepClock(d) PROVE PassesTyped'
  <2>1. /\ offset' = offset + d /\ Wall + d >= 0
        /\ UNCHANGED <<time, reading, cache, sub>>
        /\ faults'.kinds = faults.kinds \cup {IF d > 0 THEN "forward" ELSE "back"}
    BY <1>5 DEF StepClock, Fault
  <2>2. d \in Int
    BY SPAssumption
  <2>3. time + (offset + d) \in Nat /\ offset + d \in Int
    BY <1>0, <2>1, <2>2 DEF Wall
  <2> QED BY <1>0, <2>1, <2>3 DEF PassesTyped, Wall
<1>6. ASSUME NEW s \in Subs, NEW d \in Stalls, Stall(s, d) PROVE PassesTyped'
  <2>1. faults'.kinds = faults.kinds \cup {"stall"} /\ UNCHANGED <<time, offset, reading, cache>>
    BY <1>6, StallFields
  <2>2. PICK e \in Subscription : sub' = [sub EXCEPT ![s] = e]
    BY <1>6, StallFields
  <2> QED BY <1>1, <2>1, <2>2 DEF PassesTyped
<1>7. CASE UNCHANGED spvars
  BY <1>7 DEF spvars, PassesTyped, Wall
<1> QED BY <1>2, <1>3, <1>4, <1>5, <1>6, <1>7, StepCases

-----------------------------------------------------------------------------
LEMMA IndexesStart == SPInit => IndexesHeld
<1> SUFFICES ASSUME SPInit PROVE IndexesHeld
  OBVIOUS
<1>1. ASSUME NEW s \in Subs
      PROVE  /\ sub[s].pc = "asleep" /\ sub[s].lastIndex = -1 /\ sub[s].woke = 0
             /\ sub[s].due \in Nat
  <2>1. PICK l \in Layouts, i \in Nat \ {0} : sub[s] = Subscribed(l, i)
    BY StartsSubscribed
  <2> QED BY <2>1, SubscribedFields, SubscriptionFields
<1>2. ASSUME NEW s \in Subs PROVE IndexHeld(sub[s])
  <2>1. ~(sub[s].lastIndex >= 0) /\ sub[s].woke <= sub[s].due
    BY <1>1
  <2> QED BY <1>1, <2>1 DEF IndexHeld
<1> QED BY <1>1, <1>2 DEF IndexesHeld

\* A wake hands what is known of the last index over from one clock to the
\* other.
LEMMA IndexAfterWake ==
    ASSUME PassesTyped, NEW s \in Subs, Wake(s), IndexHeld(sub[s])
    PROVE  IndexHeld(sub[s])' /\ sub'[s].due <= time
<1>1. PICK d \in Subscription :
              /\ sub' = [sub EXCEPT ![s] = d]
              /\ sub[s].pc = "asleep" /\ sub[s].due <= time
              /\ d.pc = "woken" /\ d.now = Wall /\ d.due = time
              /\ d.interval = sub[s].interval /\ d.lastIndex = sub[s].lastIndex
              /\ d.woke = sub[s].woke
              /\ UNCHANGED offset
  BY WakeFields
<1>2. sub'[s] = d
  BY <1>1 DEF PassesTyped
<1>3. /\ time \in Nat /\ offset \in Int /\ d.woke \in Nat /\ d.interval \in Nat /\ d.lastIndex \in Int
      /\ sub[s].due \in Nat
  BY SubscriptionFields DEF PassesTyped
<1>4. Wall - time = offset
  BY <1>3 DEF Wall
<1>5. /\ d.lastIndex >= 0 => d.woke + offset < d.interval * d.lastIndex + d.interval
      /\ d.woke <= sub[s].due
  BY <1>1 DEF IndexHeld
<1>6. d.woke <= time
  BY <1>1, <1>3, <1>5
<1> HIDE DEF IndexHeld
<1>7. /\ d.lastIndex >= 0 => d.woke + (Wall - time) < d.interval * d.lastIndex + d.interval
      /\ d.woke <= time /\ offset <= Wall - time
  BY <1>3, <1>4, <1>5, <1>6
<1>8. IndexHeld(d)'
  BY <1>1, <1>7 DEF IndexHeld
<1> QED BY <1>1, <1>2, <1>3, <1>8 DEF IndexHeld

\* A frame has an index later than the last, which the clock it woke to is
\* not past; and it skips no more than the intervals since the last wake.
LEMMA IndexAfterFetch ==
    ASSUME PassesTyped, NEW s \in Subs, NEW p \in Passes, Frames(s, p),
           sub[s].due <= time
    PROVE  /\ sub'[s].lastIndex > sub[s].lastIndex
           /\ IndexHeld(sub[s]) =>
                /\ IndexHeld(sub[s])'
                /\ sub'[s].skipped <= (sub'[s].woke - sub[s].woke) \div sub[s].interval
           /\ sub'[s].pc = "asleep"
<1> DEFINE c == sub[s]
           i == c.interval
           index == MonotonicIndex(c.now, i, c.lastIndex)
<1>1. /\ c \in Subscription /\ time \in Nat /\ offset \in Int /\ Wall \in Nat
  BY DEF PassesTyped
<1>2. /\ i \in Nat \ {0} /\ c.now \in Nat /\ c.lastIndex \in Int /\ c.due \in Nat
      /\ c.woke \in Nat
  BY <1>1, SubscriptionFields
<1>3. /\ index \in Int /\ index > c.lastIndex /\ c.now < i * index + i
      /\ index = c.lastIndex + 1 \/ (index = c.now \div i /\ i * index <= c.now)
  <2>1. c.now \in Int
    BY <1>2
  <2> QED BY <1>2, <2>1, IndexIsLater
<1>4. sub'[s] = SubFrame(c, p) /\ c.pc = "woken" /\ offset' = offset
  BY DEF Frames, PassesTyped
<1>5. /\ sub'[s].lastIndex = index /\ sub'[s].woke = c.due /\ sub'[s].pc = "asleep"
      /\ sub'[s].interval = i /\ sub'[s].due = time + AlignWait(Wall, i)
      /\ sub'[s].skipped = (IF c.lastIndex < 0 THEN 0 ELSE index - c.lastIndex - 1)
  BY <1>1, <1>4, SubFrameFields
<1>6. AlignWait(Wall, i) \in Nat
  <2>1. Wall \in Int
    BY <1>1
  <2>2. AlignWait(Wall, i) \in 1..i
    BY <1>2, <2>1, AlignWaitTypes
  <2> QED BY <1>2, <2>2
<1>7. c.due <= sub'[s].due
  BY <1>1, <1>2, <1>5, <1>6
<1> HIDE DEF index
<1>8. ASSUME IndexHeld(c) PROVE IndexHeld(sub[s])'
  <2>1. offset <= c.now - c.due
    BY <1>4, <1>8 DEF IndexHeld
  <2>2. i * index \in Int
    BY <1>2, <1>3
  <2>3. c.due + offset < i * index + i
    BY <1>1, <1>2, <1>3, <2>1, <2>2
  <2> QED BY <1>4, <1>5, <1>7, <2>3 DEF IndexHeld
<1>9. ASSUME IndexHeld(c)
      PROVE  sub'[s].skipped <= (sub'[s].woke - c.woke) \div i
  <2> DEFINE elapsed == c.due - c.woke
             missed == sub'[s].skipped
  <2>1. c.woke <= c.due /\ elapsed \in Nat
    BY <1>2, <1>4, <1>9 DEF IndexHeld
  <2>2. missed \in Int /\ i * missed <= elapsed
    <3>1. CASE c.lastIndex < 0 \/ index = c.lastIndex + 1
      <4>1. missed = 0
        BY <1>2, <1>5, <3>1
      <4>2. i * 0 = 0
        BY <1>2
      <4> QED BY <2>1, <4>1, <4>2
    <3>2. CASE ~(c.lastIndex < 0) /\ index # c.lastIndex + 1
      <4>1. i * index <= c.now /\ c.lastIndex >= 0 /\ missed = index - c.lastIndex - 1
        BY <1>2, <1>3, <1>5, <3>2
      <4>2. c.woke + (c.now - c.due) < i * c.lastIndex + i
        BY <1>4, <1>9, <4>1 DEF IndexHeld
      <4>3. i * (index - c.lastIndex - 1) = i * index - i * c.lastIndex - i
        BY <1>2, <1>3
      <4>4. i * index \in Int /\ i * c.lastIndex \in Int
        BY <1>2, <1>3
      <4>5. i * missed = i * index - i * c.lastIndex - i /\ missed \in Int
        BY <1>2, <1>3, <4>1, <4>3
      <4> HIDE DEF missed
      <4>6. i * missed <= elapsed
        BY <1>2, <4>1, <4>2, <4>4, <4>5
      <4> QED BY <4>5, <4>6
    <3> QED BY <3>1, <3>2
  <2> HIDE DEF elapsed, missed
  <2>3. missed <= elapsed \div i
    BY <1>2, <2>1, <2>2, QuotientIsGreatest
  <2> QED BY <1>5, <2>3 DEF elapsed, missed
<1> QED BY <1>3, <1>5, <1>8, <1>9

LEMMA IndexesStep ==
    PassesTyped /\ IndexesHeld /\ [SPNext]_spvars => IndexesHeld'
<1> SUFFICES ASSUME PassesTyped, IndexesHeld, [SPNext]_spvars PROVE IndexesHeld'
  OBVIOUS
<1>0. /\ time \in Nat /\ offset \in Int /\ sub \in [Subs -> Subscription]
  BY DEF PassesTyped
<1>1. ASSUME NEW s \in Subs, UNCHANGED <<time, offset>>,
             \A r \in Subs \ {s} : sub'[r] = sub[r],
             faults.kinds \subseteq faults'.kinds,
             sub'[s].pc = "woken" => sub'[s].due <= time,
             "forward" \notin faults'.kinds => IndexHeld(sub[s])'
      PROVE  IndexesHeld'
  <2>1. ASSUME NEW r \in Subs, r # s, "forward" \notin faults'.kinds PROVE IndexHeld(sub[r])'
    BY <1>1, <2>1 DEF IndexesHeld, IndexHeld
  <2>2. "forward" \notin faults'.kinds => \A r \in Subs : IndexHeld(sub[r])'
    BY <1>1, <2>1
  <2>3. \A r \in Subs : sub'[r].pc = "woken" => sub'[r].due <= time'
    BY <1>1 DEF IndexesHeld
  <2> QED BY <2>2, <2>3 DEF IndexesHeld
<1>2. ASSUME NEW s \in Subs, Wake(s) PROVE IndexesHeld'
  <2>1. UNCHANGED <<time, offset, faults>> /\ \A r \in Subs \ {s} : sub'[r] = sub[r]
    BY <1>0, <1>2, WakeFields
  <2>2. "forward" \notin faults'.kinds => IndexHeld(sub[s])'
    BY <1>2, <2>1, IndexAfterWake DEF IndexesHeld
  <2>3. sub'[s].pc = "woken" => sub'[s].due <= time
    <3>1. PICK d \in Subscription : sub' = [sub EXCEPT ![s] = d] /\ d.due = time
      BY <1>2, WakeFields
    <3>2. sub'[s].due = time
      BY <1>0, <3>1
    <3> QED BY <1>0, <3>2
  <2> QED BY <1>1, <2>1, <2>2, <2>3
<1>3. ASSUME NEW s \in Subs, Fetch(s) PROVE IndexesHeld'
  <2>1. PICK p \in Passes : Frames(s, p) /\ faults.kinds \subseteq faults'.kinds
    BY <1>3, FetchFrames
  <2>2. UNCHANGED <<time, offset>> /\ \A r \in Subs \ {s} : sub'[r] = sub[r]
    BY <1>0, <2>1 DEF Frames
  <2>3. sub[s].due <= time
    BY <2>1 DEF IndexesHeld, Frames
  <2>4. IndexHeld(sub[s]) => IndexHeld(sub[s])'
    BY <2>1, <2>3, IndexAfterFetch
  <2>5. "forward" \notin faults'.kinds => IndexHeld(sub[s])'
    BY <2>1, <2>4 DEF IndexesHeld
  <2>6. sub'[s].pc = "asleep"
    BY <2>1, <2>3, IndexAfterFetch
  <2> QED BY <1>1, <2>1, <2>2, <2>5, <2>6
<1>4. CASE Tick
  <2>1. time' = time + 1 /\ UNCHANGED <<offset, sub, faults>>
    BY <1>4 DEF Tick
  <2>2. \A s \in Subs : sub[s].pc = "woken" => sub[s].due <= time + 1
    <3> SUFFICES ASSUME NEW s \in Subs, sub[s].pc = "woken" PROVE sub[s].due <= time + 1
      OBVIOUS
    <3>1. sub[s].due \in Nat /\ sub[s].due <= time
      BY <1>0, SubscriptionFields DEF IndexesHeld
    <3> QED BY <1>0, <3>1
  <2> QED BY <2>1, <2>2 DEF IndexesHeld, IndexHeld
<1>5. ASSUME NEW d \in Steps, StepClock(d) PROVE IndexesHeld'
  <2>1. /\ offset' = offset + d /\ UNCHANGED <<time, sub>> /\ d \in Int
        /\ faults'.kinds = faults.kinds \cup {IF d > 0 THEN "forward" ELSE "back"}
    BY <1>5, SPAssumption DEF StepClock, Fault
  <2>2. ASSUME "forward" \notin faults'.kinds, NEW s \in Subs PROVE IndexHeld(sub[s])'
    <3>1. IndexHeld(sub[s]) /\ ~(d > 0)
      BY <2>1, <2>2 DEF IndexesHeld
    <3>2. offset + d <= offset /\ offset + d \in Int
      BY <1>0, <2>1, <3>1
    <3>3. /\ sub[s].woke \in Nat /\ sub[s].interval \in Nat /\ sub[s].lastIndex \in Int
          /\ sub[s].now \in Nat /\ sub[s].due \in Nat
      BY <1>0, SubscriptionFields
    <3>4. PICK room \in Int : room = sub[s].interval * sub[s].lastIndex + sub[s].interval
      BY <3>3
    <3>5. CASE sub[s].pc = "asleep"
      <4>1. /\ sub[s].lastIndex >= 0 => sub[s].woke + offset < room
            /\ sub[s].woke <= sub[s].due
        BY <3>1, <3>4, <3>5 DEF IndexHeld
      <4>2. sub[s].lastIndex >= 0 => sub[s].woke + (offset + d) < room
        BY <1>0, <3>2, <3>3, <4>1
      <4> QED BY <2>1, <3>4, <3>5, <4>1, <4>2 DEF IndexHeld
    <3>6. CASE sub[s].pc # "asleep"
      <4>1. offset + d <= sub[s].now - sub[s].due
        BY <1>0, <3>1, <3>2, <3>3, <3>6 DEF IndexHeld
      <4> QED BY <2>1, <3>1, <3>6, <4>1 DEF IndexHeld
    <3> QED BY <3>5, <3>6
  <2> QED BY <2>1, <2>2 DEF IndexesHeld
<1>6. ASSUME NEW s \in Subs, NEW d \in Stalls, Stall(s, d) PROVE IndexesHeld'
  <2>1. PICK e \in Subscription :
              /\ sub' = [sub EXCEPT ![s] = e]
              /\ e.pc = sub[s].pc /\ e.now = sub[s].now /\ e.due = sub[s].due
              /\ e.interval = sub[s].interval
              /\ e.lastIndex = sub[s].lastIndex /\ e.woke = sub[s].woke
              /\ UNCHANGED <<time, offset>>
              /\ faults'.kinds = faults.kinds \cup {"stall"}
    BY <1>6, StallFields
  <2>2. sub'[s] = e /\ \A r \in Subs \ {s} : sub'[r] = sub[r]
    BY <1>0, <2>1
  <2>3. "forward" \notin faults'.kinds => IndexHeld(sub[s])'
    BY <2>1, <2>2 DEF IndexesHeld, IndexHeld
  <2> QED BY <1>1, <2>1, <2>2, <2>3 DEF IndexesHeld
<1>7. CASE UNCHANGED spvars
  BY <1>7 DEF spvars, IndexesHeld, IndexHeld
<1> QED BY <1>2, <1>3, <1>4, <1>5, <1>6, <1>7, StepCases

SkipsOnlyTheElapsed ==
    \A s \in Subs :
          sub'[s].lastIndex # sub[s].lastIndex =>
             /\ sub'[s].lastIndex > sub[s].lastIndex
             /\ "forward" \notin faults.kinds =>
                   sub'[s].skipped
                      <= (sub'[s].woke - sub[s].woke) \div sub[s].interval

LEMMA StepSkipsOnlyTheElapsed ==
    PassesTyped /\ IndexesHeld /\ [SPNext]_spvars => [SkipsOnlyTheElapsed]_spvars
<1> SUFFICES ASSUME PassesTyped, IndexesHeld, [SPNext]_spvars,
                    NEW r \in Subs, sub'[r].lastIndex # sub[r].lastIndex
             PROVE  /\ sub'[r].lastIndex > sub[r].lastIndex
                    /\ "forward" \notin faults.kinds =>
                          sub'[r].skipped
                             <= (sub'[r].woke - sub[r].woke) \div sub[r].interval
  BY DEF SkipsOnlyTheElapsed
<1>0. sub \in [Subs -> Subscription]
  BY DEF PassesTyped
<1>1. ASSUME NEW s \in Subs, Fetch(s)
      PROVE  /\ sub'[r].lastIndex > sub[r].lastIndex
             /\ "forward" \notin faults.kinds =>
                   sub'[r].skipped
                      <= (sub'[r].woke - sub[r].woke) \div sub[r].interval
  <2>1. PICK p \in Passes : Frames(s, p)
    BY <1>1, FetchFrames
  <2>2. r = s
    BY <1>0, <2>1 DEF Frames
  <2>3. sub[s].due <= time
    BY <2>1 DEF IndexesHeld, Frames
  <2> QED BY <2>1, <2>2, <2>3, IndexAfterFetch DEF IndexesHeld
<1>2. ASSUME NEW s \in Subs, Wake(s) PROVE FALSE
  <2>1. PICK d \in Subscription : sub' = [sub EXCEPT ![s] = d] /\ d.lastIndex = sub[s].lastIndex
    BY <1>2, WakeFields
  <2> QED BY <1>0, <2>1
<1>3. ASSUME NEW s \in Subs, NEW x \in Stalls, Stall(s, x) PROVE FALSE
  <2>1. PICK d \in Subscription : sub' = [sub EXCEPT ![s] = d] /\ d.lastIndex = sub[s].lastIndex
    BY <1>3, StallFields
  <2> QED BY <1>0, <2>1
<1>4. CASE Tick \/ (\E d \in Steps : StepClock(d)) \/ UNCHANGED spvars
  BY <1>4 DEF Tick, StepClock, spvars
<1> QED BY <1>1, <1>2, <1>3, <1>4, StepCases

\* A subscription's index only advances, and unless the clock was stepped
\* forward it skips an index only for an interval that did elapse: for any
\* subscriptions and intervals, any jitter and stalls, and any steps of the
\* clock (MonotonicIndex, frame_at and into_stream).
THEOREM SeqShowsWhatIsLost == SPSpec => SeqIsEvidence
<1>1. SPSpec => [][SkipsOnlyTheElapsed]_spvars
  BY TypedStarts, TypedStep, IndexesStart, IndexesStep, StepSkipsOnlyTheElapsed, PTL
     DEF SPSpec
<1> QED BY <1>1 DEF SeqIsEvidence, SkipsOnlyTheElapsed

-----------------------------------------------------------------------------
LEMMA BoundaryIsAhead ==
    ASSUME NEW w \in Nat, NEW i \in Nat \ {0}
    PROVE  w % i <= w
<1>1. w \in Int /\ w \div i \in Int /\ w % i \in 0..(i - 1) /\ w = i * (w \div i) + (w % i)
  BY Quotient
<1>2. 0 <= w \div i
  <2>1. 0 \in Int /\ i * 0 <= w
    OBVIOUS
  <2> QED BY <1>1, <2>1, QuotientIsGreatest
<1>3. i * (w \div i) \in Nat
  BY <1>1, <1>2
<1> QED BY <1>1, <1>3

LEMMA ServedStarts == SPInit => ServedInv
<1> SUFFICES ASSUME SPInit PROVE PassesDated /\ \A s \in Subs : OnTime(sub[s]) /\ ServedAnew(sub[s])
  BY DEF ServedInv
<1>1. PassesDated
  BY DEF SPInit, PassesDated
<1>2. ASSUME NEW s \in Subs PROVE OnTime(sub[s]) /\ ServedAnew(sub[s])
  <2>1. PICK l \in Layouts, i \in Nat \ {0} : sub[s] = Subscribed(l, i)
    BY StartsSubscribed
  <2> DEFINE c == sub[s]
  <2>2. /\ c.interval = i /\ c.pc = "asleep" /\ c.due = AlignWait(StartWall, i)
        /\ c.slack = 0 /\ c.lastWall = -1 /\ c.pass = NotYet
    BY <2>1, SubscribedFields
  <2>3. time = 0 /\ offset = StartWall
    BY DEF SPInit
  <2>4. PICK w \in Nat : w = StartWall
    BY StartWallIsNat
  <2>5. w \in Int /\ w % i \in 0..(i - 1) /\ c.due = i - (w % i)
    <3>1. w \in Int
      OBVIOUS
    <3>2. w % i \in 0..(i - 1)
      BY <3>1, Quotient
    <3>3. c.due = i - (w % i)
      BY <2>2, <2>4 DEF AlignWait
    <3> QED BY <3>1, <3>2, <3>3
  <2>6. w % i <= w
    BY BoundaryIsAhead
  <2>7. (w + (i - (w % i))) % i = 0
    BY <2>5, NextBoundary
  <2> HIDE DEF c
  <2>8. (c.due + offset) % c.interval = 0
    <3>1. c.due + offset = w + (i - (w % i))
      BY <2>3, <2>4, <2>5
    <3> QED BY <2>2, <2>7, <3>1
  <2>9. time <= c.due + Late /\ c.lastWall + c.interval <= c.due + offset + 2 * Late
    <3>1. PICK r \in 0..(i - 1) : r = w % i
      BY <2>5
    <3> QED BY <2>2, <2>3, <2>4, <2>5, <2>6, <3>1, FloorIsPositive
  <2> QED BY <2>2, <2>8, <2>9 DEF OnTime, ServedAnew, c
<1> QED BY <1>1, <1>2

LEMMA OnTimeAfterWake ==
    ASSUME PassesTyped, NEW s \in Subs, Wake(s), OnTime(sub[s]), ServedAnew(sub[s])
    PROVE  OnTime(sub[s])' /\ ServedAnew(sub[s])'
<1>1. PICK d \in Subscription :
              /\ sub' = [sub EXCEPT ![s] = d]
              /\ sub[s].pc = "asleep" /\ sub[s].due <= time
              /\ d.pc = "woken" /\ d.now = Wall /\ d.due = time /\ d.slack = 0
              /\ d.interval = sub[s].interval /\ d.lastWall = sub[s].lastWall
              /\ d.pass = sub[s].pass /\ d.empty = sub[s].empty
              /\ UNCHANGED <<time, offset>>
  BY WakeFields
<1>2. sub'[s] = d
  BY <1>1 DEF PassesTyped
<1>3. PICK c \in Subscription : c = sub[s]
  BY DEF PassesTyped
<1>4. /\ time \in Nat /\ offset \in Int /\ c.due \in Nat /\ c.interval \in Nat \ {0}
      /\ c.lastWall \in Int /\ Late \in Nat
  BY <1>3, SubscriptionFields, FloorIsPositive DEF PassesTyped
<1>5. /\ time <= c.due + Late /\ c.due <= time
      /\ (c.due + offset) % c.interval = 0
      /\ c.lastWall + c.interval <= c.due + offset + 2 * Late
  BY <1>1, <1>3 DEF OnTime
<1>6. d.now = time + offset
  BY <1>1 DEF Wall
<1>7. d.now % c.interval <= Late
  <2> DEFINE b == c.due + offset
             x == time - c.due
  <2>1. b \in Int /\ x \in Nat /\ x <= Late /\ b % c.interval = 0 /\ d.now = b + x
    BY <1>4, <1>5, <1>6
  <2>2. d.now \in Int /\ d.now % c.interval \in 0..(c.interval - 1)
    <3>1. d.now \in Int
      BY <1>4, <1>6
    <3> QED BY <1>4, <3>1, Quotient
  <2> HIDE DEF b, x
  <2>3. (b + x) % c.interval <= (b % c.interval) + x
    BY <1>4, <2>1, RemainderAfter
  <2>4. d.now % c.interval <= x
    BY <2>1, <2>3
  <2> QED BY <1>4, <2>1, <2>2, <2>4
<1>8. d.lastWall + d.interval <= d.now + 2 * Late
  BY <1>1, <1>3, <1>4, <1>5, <1>6
<1>9. d.due <= time /\ time <= d.due + Late
  BY <1>1, <1>4
<1> QED BY <1>1, <1>2, <1>3, <1>6, <1>7, <1>8, <1>9 DEF OnTime, ServedAnew

LEMMA OnTimeAfterFrame ==
    ASSUME PassesTyped, NEW s \in Subs, NEW p \in Passes, Frames(s, p),
           OnTime(sub[s]), p.wall <= Wall
    PROVE  OnTime(sub[s])'
<1>1. PICK c \in Subscription : c = sub[s]
  BY DEF PassesTyped
<1>2. PICK d \in Subscription : d = SubFrame(c, p)
  BY SubFrameFields
<1>3. sub'[s] = d /\ c.pc = "woken" /\ time' = time /\ offset' = offset
  BY <1>1, <1>2 DEF Frames, PassesTyped
<1>4. PICK w \in Nat : w = Wall
  BY DEF PassesTyped
<1>5. /\ time \in Nat /\ offset \in Int /\ w = time + offset
      /\ c.due \in Nat /\ c.interval \in Nat \ {0}
      /\ c.now \in Nat /\ c.lastWall \in Int /\ Late \in Nat /\ p.wall \in Int /\ p.wall <= w
  BY <1>4, SubscriptionFields, FloorIsPositive DEF PassesTyped, Passes, Wall
<1>6. PICK i \in Nat \ {0} : i = c.interval
  BY <1>5
<1>7. /\ d.interval = i /\ d.pc = "asleep" /\ d.slack = 0
      /\ d.due = time + (i - (w % i))
      /\ d.lastWall = (IF p = NotYet THEN c.lastWall ELSE p.wall)
  BY <1>2, <1>4, <1>6, SubFrameFields DEF AlignWait
<1>8. /\ c.due <= time /\ time <= c.due + Late /\ c.now = c.due + offset
      /\ c.now % i <= Late /\ c.lastWall + i <= c.now + 2 * Late
  BY <1>1, <1>3, <1>6 DEF OnTime
<1>9. w \in Int /\ w % i \in 0..(i - 1)
  BY Quotient
<1>10. w % i <= 2 * Late
  <2> DEFINE x == w - c.now
  <2>1. x \in Nat /\ x <= Late /\ w = c.now + x /\ c.now \in Int
    BY <1>5, <1>8
  <2>2. c.now % i \in 0..(i - 1)
    BY <2>1, Quotient
  <2> HIDE DEF x
  <2>3. (c.now + x) % i <= (c.now % i) + x
    BY <2>1, RemainderAfter
  <2>4. w % i <= (c.now % i) + x
    BY <2>1, <2>3
  <2> QED BY <1>5, <1>8, <1>9, <2>1, <2>2, <2>4
<1>11. PICK r \in 0..(i - 1) : r = w % i
  BY <1>9
<1>12. (w + (i - r)) % i = 0
  BY <1>9, <1>11, NextBoundary
<1>13. d.due + offset = w + (i - r)
  BY <1>5, <1>7, <1>11
<1>14. (d.due + offset) % d.interval = 0
  BY <1>7, <1>12, <1>13
<1>15. time <= d.due + Late
  BY <1>5, <1>7, <1>11
<1>16. d.lastWall + d.interval <= d.due + offset + 2 * Late
  <2>1. r <= 2 * Late /\ c.now <= w
    BY <1>5, <1>8, <1>10, <1>11
  <2>2. d.lastWall <= w \/ d.lastWall = c.lastWall
    BY <1>5, <1>7
  <2>3. d.lastWall \in Int /\ d.lastWall + i <= w + (i - r) + 2 * Late
    BY <1>5, <1>7, <1>8, <1>11, <2>1, <2>2
  <2> QED BY <1>7, <1>13, <2>3
<1> QED BY <1>3, <1>7, <1>14, <1>15, <1>16 DEF OnTime

\* A pass a subscription shares was built less than a margined floor before
\* it woke, so after the last pass it was sent; one it builds, when it woke or
\* later.
LEMMA FrameIsAnew ==
    ASSUME PassesTyped, NEW s \in Subs, NEW p \in Passes, Frames(s, p),
           2 * Late <= Floor \div 4, OnTime(sub[s]),
           \/ p = NotYet
           \/ p.wall >= sub[s].now
           \/ \E built \in Nat : built <= p.wall /\ Abs(sub[s].now - built) < Reuse
    PROVE  ServedAnew(sub[s])'
<1>1. PICK c \in Subscription : c = sub[s]
  BY DEF PassesTyped
<1>2. PICK d \in Subscription : d = SubFrame(c, p)
  BY SubFrameFields
<1>3. sub'[s] = d /\ c.pc = "woken"
  BY <1>1, <1>2 DEF Frames, PassesTyped
<1>4. /\ d.interval = c.interval /\ d.pass = p
      /\ d.empty = ~(p # NotYet /\ c.lastWall # p.wall)
  BY <1>2, SubFrameFields
<1>5. /\ c.interval \in Nat \ {0} /\ c.now \in Nat /\ c.lastWall \in Int /\ p.wall \in Int
      /\ Late \in Nat /\ Floor \in Nat /\ Floor \div 4 \in Nat
  BY SubscriptionFields, FloorIsPositive DEF Passes
<1>6. c.lastWall + c.interval <= c.now + 2 * Late
  BY <1>1, <1>3 DEF OnTime
<1>7. ASSUME c.interval >= Floor, p # NotYet PROVE c.lastWall # p.wall
  <2>1. PICK q \in Nat : q = Floor \div 4
    BY <1>5
  <2>2. c.lastWall <= c.now - Floor + q
    BY <1>5, <1>6, <1>7, <2>1
  <2>3. 4 * q <= Floor /\ Floor > 0
    BY <2>1, FloorIsPositive
  <2>4. CASE p.wall >= c.now
    BY <1>5, <2>2, <2>3, <2>4
  <2>5. CASE \E built \in Nat : built <= p.wall /\ Abs(c.now - built) < Reuse
    <3>1. PICK built \in Nat : built <= p.wall /\ Abs(c.now - built) < Reuse
      BY <2>5
    <3>2. Reuse = Floor - q
      BY <2>1 DEF Reuse
    <3>3. c.now - built <= Abs(c.now - built) /\ Abs(c.now - built) \in Int
      BY <1>5 DEF Abs
    <3>4. c.now - built < Floor - q
      BY <1>5, <3>1, <3>2, <3>3
    <3> QED BY <1>5, <2>2, <3>1, <3>4
  <2> QED BY <1>1, <1>7, <2>4, <2>5
<1> QED BY <1>3, <1>4, <1>7 DEF ServedAnew

LEMMA ServedAfterFetch ==
    ASSUME PassesTyped, ServedInv, NEW s \in Subs, Fetch(s), Undisturbed'
    PROVE  /\ PassesDated'
           /\ OnTime(sub[s])' /\ ServedAnew(sub[s])'
           /\ UNCHANGED <<time, offset>> /\ \A r \in Subs \ {s} : sub'[r] = sub[r]
<1> DEFINE c == sub[s]
           entry == cache[c.layout]
<1>1. PICK p \in Passes :
             /\ Frames(s, p)
             /\ faults.kinds \subseteq faults'.kinds
             /\ \/ /\ cache' = cache
                   /\ Shares(entry, c.now) /\ p = entry.pass
                \/ /\ p = NewPass
                   /\ cache' = [cache EXCEPT ![c.layout] = [now |-> c.now, pass |-> NewPass]]
                \/ /\ p = NotYet
                   /\ cache' = [cache EXCEPT ![c.layout].pass = NotYet]
  BY FetchFrames
<1>2. Undisturbed
  BY <1>1 DEF Undisturbed
<1>3. /\ PassesDated /\ OnTime(c) /\ ServedAnew(c) /\ 2 * Late <= Floor \div 4
  BY <1>2 DEF ServedInv, Undisturbed
<1>4. /\ c \in Subscription /\ c.layout \in Layouts /\ c.now \in Nat /\ c.due \in Nat
      /\ time \in Nat /\ offset \in Int /\ Wall \in Nat /\ Wall = time + offset
      /\ cache \in [Layouts -> [now : Nat, pass : Passes]]
  BY SubscriptionFields DEF PassesTyped, Wall
<1>5. UNCHANGED <<time, offset>> /\ \A r \in Subs \ {s} : sub'[r] = sub[r] /\ Wall' = Wall
  BY <1>1 DEF Frames, PassesTyped, Wall
<1>6. c.now <= Wall
  <2>1. c.now = c.due + offset /\ c.due <= time
    BY <1>1, <1>3 DEF OnTime, Frames
  <2> QED BY <1>4, <2>1
<1>7. Wall' = Wall
  BY <1>1 DEF Frames, Wall
<1>8. /\ p.wall <= Wall
      /\ \/ p = NotYet
         \/ p.wall >= c.now
         \/ \E built \in Nat : built <= p.wall /\ Abs(c.now - built) < Reuse
      /\ PassesDated'
  <2>1. CASE cache' = cache /\ Shares(entry, c.now) /\ p = entry.pass
    <3>1. /\ p # NotYet /\ Abs(c.now - entry.now) < Reuse
          /\ entry.now \in Nat /\ entry.now <= p.wall /\ p.wall <= Wall
      BY <1>3, <1>4, <2>1 DEF Shares, PassesDated
    <3>2. PassesDated'
      BY <1>3, <1>7, <2>1 DEF PassesDated
    <3> QED BY <3>1, <3>2
  <2>2. CASE /\ p = NewPass
             /\ cache' = [cache EXCEPT ![c.layout] = [now |-> c.now, pass |-> NewPass]]
    <3>1. p.wall = Wall /\ NewPass.wall = Wall
      BY <2>2, NewPassIsPass
    <3>2. ASSUME NEW l \in Layouts, cache'[l].pass # NotYet
          PROVE  cache'[l].now <= cache'[l].pass.wall /\ cache'[l].pass.wall <= Wall
      <4>1. CASE l = c.layout
        <5>1. cache'[l] = [now |-> c.now, pass |-> NewPass]
          BY <1>4, <2>2, <4>1
        <5> QED BY <1>4, <1>6, <3>1, <5>1
      <4>2. CASE l # c.layout
        <5>1. cache'[l] = cache[l]
          BY <1>4, <2>2, <4>2
        <5> QED BY <1>3, <3>2, <5>1 DEF PassesDated
      <4> QED BY <4>1, <4>2
    <3>3. PassesDated'
      BY <1>7, <3>2 DEF PassesDated
    <3> QED BY <1>4, <1>6, <3>1, <3>3
  <2>3. CASE p = NotYet /\ cache' = [cache EXCEPT ![c.layout].pass = NotYet]
    <3>1. p.wall <= Wall
      BY <1>4, <2>3, NotYetIsPass
    <3>2. ASSUME NEW l \in Layouts, cache'[l].pass # NotYet
          PROVE  cache'[l] = cache[l]
      BY <1>4, <2>3, <3>2
    <3>3. PassesDated'
      BY <1>3, <1>7, <3>2 DEF PassesDated
    <3> QED BY <2>3, <3>1, <3>3
  <2> QED BY <1>1, <2>1, <2>2, <2>3
<1>9. OnTime(sub[s])'
  BY <1>1, <1>3, <1>8, OnTimeAfterFrame
<1>10. ServedAnew(sub[s])'
  BY <1>1, <1>3, <1>8, FrameIsAnew
<1> QED BY <1>5, <1>8, <1>9, <1>10

LEMMA ServedStep ==
    PassesTyped /\ ServedInv /\ [SPNext]_spvars => ServedInv'
<1> SUFFICES ASSUME PassesTyped, ServedInv, [SPNext]_spvars, Undisturbed'
             PROVE  (PassesDated /\ \A s \in Subs : OnTime(sub[s]) /\ ServedAnew(sub[s]))'
  BY DEF ServedInv
<1>0. time \in Nat /\ offset \in Int /\ sub \in [Subs -> Subscription]
  BY DEF PassesTyped
<1>1. ASSUME NEW s \in Subs, UNCHANGED <<time, offset>>,
             \A r \in Subs \ {s} : sub'[r] = sub[r], Undisturbed, PassesDated',
             OnTime(sub[s])' /\ ServedAnew(sub[s])'
      PROVE  (PassesDated /\ \A r \in Subs : OnTime(sub[r]) /\ ServedAnew(sub[r]))'
  <2>1. ASSUME NEW r \in Subs, r # s PROVE OnTime(sub[r])' /\ ServedAnew(sub[r])'
    BY <1>1, <2>1 DEF ServedInv, OnTime, ServedAnew
  <2> QED BY <1>1, <2>1
<1>2. ASSUME NEW s \in Subs, Wake(s)
      PROVE  (PassesDated /\ \A r \in Subs : OnTime(sub[r]) /\ ServedAnew(sub[r]))'
  <2>1. UNCHANGED <<time, offset, cache, faults>> /\ \A r \in Subs \ {s} : sub'[r] = sub[r]
    BY <1>0, <1>2, WakeFields
  <2>2. Undisturbed
    BY <2>1 DEF Undisturbed
  <2>3. PassesDated'
    BY <2>1, <2>2 DEF ServedInv, PassesDated, Wall
  <2>4. OnTime(sub[s])' /\ ServedAnew(sub[s])'
    BY <1>2, <2>2, OnTimeAfterWake DEF ServedInv
  <2> QED BY <1>1, <2>1, <2>2, <2>3, <2>4
<1>3. ASSUME NEW s \in Subs, Fetch(s)
      PROVE  (PassesDated /\ \A r \in Subs : OnTime(sub[r]) /\ ServedAnew(sub[r]))'
  <2>1. Undisturbed
    BY <1>3, FetchFrames DEF Undisturbed
  <2> QED BY <1>1, <1>3, <2>1, ServedAfterFetch
<1>4. CASE Tick
  <2>1. /\ time' = time + 1 /\ UNCHANGED <<offset, cache, sub, faults>>
        /\ \A s \in Subs : time < sub[s].due + Late + sub[s].slack
    BY <1>4 DEF Tick
  <2>2. Undisturbed
    BY <2>1 DEF Undisturbed
  <2>3. PassesDated'
    <3>1. \A l \in Layouts : cache[l].pass.wall \in Int
      BY DEF PassesTyped, Passes
    <3>2. Wall' = Wall + 1 /\ Wall \in Nat
      BY <1>0, <2>1 DEF Wall, PassesTyped
    <3>3. \A l \in Layouts : cache[l].pass.wall <= Wall => cache[l].pass.wall <= Wall + 1
      BY <3>1, <3>2
    <3> QED BY <2>1, <2>2, <3>2, <3>3 DEF ServedInv, PassesDated
  <2>4. ASSUME NEW s \in Subs PROVE OnTime(sub[s])' /\ ServedAnew(sub[s])'
    <3>1. OnTime(sub[s]) /\ ServedAnew(sub[s])
      BY <2>2 DEF ServedInv
    <3>2. sub[s].due \in Nat /\ Late \in Nat
      BY <1>0, SubscriptionFields, FloorIsPositive
    <3>3. time + 1 <= sub[s].due + Late
      BY <1>0, <2>1, <3>1, <3>2 DEF OnTime
    <3>4. sub[s].due <= time => sub[s].due <= time + 1
      BY <1>0, <3>2
    <3> QED BY <2>1, <3>1, <3>3, <3>4 DEF OnTime, ServedAnew
  <2> QED BY <2>3, <2>4
<1>5. ASSUME NEW d \in Steps, StepClock(d) PROVE FALSE
  <2>1. faults'.kinds = faults.kinds \cup {IF d > 0 THEN "forward" ELSE "back"}
    BY <1>5 DEF StepClock, Fault
  <2> QED BY <2>1 DEF Undisturbed
<1>6. ASSUME NEW s \in Subs, NEW d \in Stalls, Stall(s, d) PROVE FALSE
  <2>1. faults'.kinds = faults.kinds \cup {"stall"}
    BY <1>6, StallFields
  <2> QED BY <2>1 DEF Undisturbed
<1>7. CASE UNCHANGED spvars
  BY <1>7 DEF spvars, ServedInv, Undisturbed, PassesDated, OnTime, ServedAnew, Wall
<1> QED BY <1>2, <1>3, <1>4, <1>5, <1>6, <1>7, StepCases

\* A subscription at the floor or slower is not sent a pass it was sent
\* already while the clock is not stepped: for any subscriptions, layouts,
\* intervals and sampler, and any jitter that fits in the margin kept below
\* the floor (RegistryPasses::new, pass and into_stream).
THEOREM PassesAreServedOnce == SPSpec => []NeverServedTwice
<1>1. ServedInv => NeverServedTwice
  BY DEF ServedInv, Undisturbed, ServedAnew, NeverServedTwice
<1> QED BY <1>1, TypedStarts, TypedStep, ServedStarts, ServedStep, PTL DEF SPSpec
=============================================================================
