------------------------- MODULE RecorderProofs -------------------------
(***************************************************************************)
(* Theorems about two of the recorder's parts: the events it emits         *)
(* (Emitter) and what it writes of an endpoint's replies (ProbeHook).      *)
(***************************************************************************)
EXTENDS Emitter, ProbeHook, DriverPasses, FiniteSetTheorems, SequenceTheorems, TLAPS

(***************************************************************************)
(* Theorems about Emitter, for every channel capacity, cap and bound.      *)
(*                                                                         *)
(* The argument: read in order, the channel and then the queue continue    *)
(* the caller's view without a gap, up to the last emission accounted for. *)
(***************************************************************************)

\* s continues the history from position a (exclusive) to position b.
Chain(s, a, b) ==
    IF s = <<>> THEN a = b
    ELSE /\ s[1].upto = a + s[1].count
         /\ s[Len(s)].upto = b
         /\ \A i \in 1..(Len(s) - 1) : s[i+1].upto = s[i].upto + s[i+1].count

\* An entry says the truth about the emissions of history l it stands for.
Sound(e, l) ==
    /\ e.upto <= Len(l)
    /\ \/ e.id = e.upto /\ e.count = 1 /\ e.id # 0
       \/ e.id = 0 /\ \A i \in 1..Len(l) : e.upto < i + e.count /\ i <= e.upto => l[i] # "must"

AllSound(s, l) == \A i \in 1..Len(s) : Sound(s[i], l)

InHand == call \in {"lossy", "try_send"}

\* Every emission but the one a lossy call still holds is accounted for.
Accounted == IF InHand THEN Len(log) - 1 ELSE Len(log)

Linked ==
    \E m, b \in Nat :
        /\ Chain(chan, Len(view), m)
        /\ Chain(queue, m, b)
        /\ phase # "no_runtime" => b = Accounted

IInv ==
    /\ TypeOK
    /\ InHand => Len(log) > 0 /\ log[Len(log)] = "lossy" /\ phase # "no_runtime"
    /\ phase = "no_runtime" => call = "idle"
    /\ call = "try_send" => queue = <<>>
    /\ ViewExact
    /\ open => AllSound(chan, log) /\ AllSound(queue, log) /\ Linked


-----------------------------------------------------------------------------
\* What membership of Seq(Entry) says of each entry.
LEMMA EntryFields ==
    ASSUME NEW s \in Seq(Entry), NEW i \in 1..Len(s)
    PROVE  /\ s[i] \in Entry
           /\ s[i].id \in Nat /\ s[i].upto \in Nat
           /\ s[i].count \in Nat /\ s[i].count # 0
<1>1. s[i] \in Entry
  BY ElementOfSeq
<1> QED BY <1>1 DEF Entry

\* Counting one more drop in the entry at the back of q.
LEMMA MergeBack ==
    ASSUME NEW q \in Seq(Entry), q # <<>>, NEW n \in Nat
    PROVE  LET l == q[Len(q)]
               r == [q EXCEPT ![Len(q)] = OneMore(@, n)]
           IN  /\ r \in Seq(Entry)
               /\ Len(r) = Len(q)
               /\ \A i \in 1..Len(q) : i # Len(q) => r[i] = q[i]
               /\ r[Len(q)] = OneMore(l, n)
<1> DEFINE l == q[Len(q)]
           e == OneMore(l, n)
<1>1. Len(q) \in 1..Len(q)
  BY EmptySeq
<1>2. l \in Entry
  BY <1>1, ElementOfSeq
<1>3. e \in Entry /\ e = [id |-> l.id, count |-> l.count + 1, upto |-> n]
  BY <1>2 DEF Entry, OneMore
<1>4. [q EXCEPT ![Len(q)] = OneMore(@, n)] = [q EXCEPT ![Len(q)] = e]
  OBVIOUS
<1> HIDE DEF l, e
<1>5. /\ [q EXCEPT ![Len(q)] = e] \in Seq(Entry)
      /\ Len([q EXCEPT ![Len(q)] = e]) = Len(q)
      /\ \A j \in 1..Len(q) : [q EXCEPT ![Len(q)] = e][j] = IF j = Len(q) THEN e ELSE q[j]
  BY <1>1, <1>3, ExceptSeq
<1> QED BY <1>1, <1>3, <1>4, <1>5 DEF l

\* Appending the entry that continues a chain continues it.
LEMMA ChainAppend ==
    ASSUME NEW s \in Seq(Entry), NEW e \in Entry, NEW a \in Nat, NEW b \in Nat,
           Chain(s, a, b), e.upto = b + e.count
    PROVE  Chain(Append(s, e), a, e.upto)
<1> DEFINE r == Append(s, e)
<1>1. /\ Len(s) \in Nat
      /\ Len(r) = Len(s) + 1
      /\ r # <<>>
      /\ r[Len(s) + 1] = e
      /\ \A i \in 1..Len(s) : r[i] = s[i]
  OBVIOUS
<1>2. CASE s = <<>>
  <2>1. Len(r) = 1 /\ r[1] = e
    BY <1>1, <1>2
  <2> QED BY <1>1, <1>2, <2>1 DEF Chain
<1>3. CASE s # <<>>
  <2>1. Len(s) > 0
    BY <1>3
  <2>2. r[1].upto = a + r[1].count
    BY <1>1, <1>3, <2>1 DEF Chain
  <2>3. ASSUME NEW i \in 1..(Len(r) - 1)
        PROVE  r[i+1].upto = r[i].upto + r[i+1].count
    <3>1. CASE i = Len(s)
      BY <1>1, <1>3, <2>1, <3>1 DEF Chain
    <3>2. CASE i # Len(s)
      <4>1. i \in 1..(Len(s) - 1) /\ i + 1 \in 1..Len(s)
        BY <1>1, <2>3, <3>2
      <4> QED BY <1>1, <1>3, <4>1 DEF Chain
    <3> QED BY <3>1, <3>2
  <2> HIDE DEF r
  <2> QED BY <1>1, <2>2, <2>3 DEF Chain
<1> QED BY <1>2, <1>3

\* Taking the head of a chain moves its start past the head.
LEMMA ChainTail ==
    ASSUME NEW s \in Seq(Entry), NEW a \in Nat, NEW b \in Nat,
           Chain(s, a, b), s # <<>>
    PROVE  /\ Chain(Tail(s), Head(s).upto, b)
           /\ Head(s).upto = a + Head(s).count
<1> DEFINE t == Tail(s)
<1>1. /\ Len(s) \in Nat /\ Len(s) > 0
      /\ t \in Seq(Entry)
      /\ Len(t) = Len(s) - 1
      /\ Head(s) = s[1]
      /\ \A i \in 1..Len(t) : t[i] = s[i+1]
  OBVIOUS
<1>2. CASE Len(s) = 1
  <2>1. t = <<>>
    <3> HIDE DEF t
    <3> QED BY <1>1, <1>2, EmptySeq
  <2> QED BY <1>1, <1>2, <2>1 DEF Chain
<1>3. CASE Len(s) # 1
  <2>1. t # <<>> /\ 1 \in 1..Len(t) /\ Len(t) \in 1..Len(t)
    BY <1>1, <1>3
  <2>2. t[1] = s[2] /\ t[Len(t)] = s[Len(s)]
    BY <1>1, <2>1
  <2>3. s[2].upto = s[1].upto + s[2].count
    BY <1>1, <1>3 DEF Chain
  <2>4. ASSUME NEW i \in 1..(Len(t) - 1)
        PROVE  t[i+1].upto = t[i].upto + t[i+1].count
    <3>1. /\ i + 1 \in 1..(Len(s) - 1) /\ i \in 1..Len(t) /\ i + 1 \in 1..Len(t)
      BY <1>1, <2>4
    <3>2. s[(i+1)+1].upto = s[i+1].upto + s[(i+1)+1].count
      BY <1>1, <3>1 DEF Chain
    <3> QED BY <1>1, <3>1, <3>2
  <2> HIDE DEF t
  <2> QED BY <1>1, <2>1, <2>2, <2>3, <2>4 DEF Chain
<1> QED BY <1>2, <1>3

\* note_drop keeps a sequence of entries.
LEMMA NoteDropType ==
    ASSUME NEW q \in Seq(Entry), NEW n \in Nat
    PROVE  NoteDrop(q, n) \in Seq(Entry)
<1>1. CASE q # <<>> /\ IsLagged(q[Len(q)])
  BY <1>1, MergeBack DEF NoteDrop
<1>2. CASE ~(q # <<>> /\ IsLagged(q[Len(q)]))
  <2>1. Lagged(n) \in Entry
    BY DEF Lagged, Entry
  <2> QED BY <1>2, <2>1, AppendProperties DEF NoteDrop
<1> QED BY <1>1, <1>2

\* note_drop for the emission after a chain's end continues the chain.
LEMMA NoteDropChain ==
    ASSUME NEW q \in Seq(Entry), NEW a \in Nat, NEW b \in Nat, Chain(q, a, b)
    PROVE  Chain(NoteDrop(q, b + 1), a, b + 1)
<1>1. CASE q # <<>> /\ IsLagged(q[Len(q)])
  <2> DEFINE r == NoteDrop(q, b + 1)
  <2>1. /\ Len(r) = Len(q)
        /\ \A i \in 1..(Len(q) - 1) : r[i] = q[i]
        /\ r[Len(q)].upto = b + 1
        /\ r[Len(q)].count = q[Len(q)].count + 1
        /\ r # <<>>
    <3>1. Len(q) \in Nat /\ Len(q) > 0
      BY <1>1, EmptySeq
    <3>2. r = [q EXCEPT ![Len(q)] = OneMore(@, b + 1)]
      BY <1>1 DEF NoteDrop
    <3> HIDE DEF r
    <3>3. b + 1 \in Nat
      OBVIOUS
    <3> QED BY <1>1, <3>1, <3>2, <3>3, MergeBack DEF OneMore
  <2>2. \A i \in 1..Len(q) : q[i].upto \in Nat /\ q[i].count \in Nat
    BY EntryFields
  <2>3. Len(q) \in Nat /\ Len(q) > 0
    BY <1>1
  <2>4. q[Len(q)].upto = b
    BY <1>1 DEF Chain
  <2>5. r[1].upto = a + r[1].count
    BY <1>1, <2>1, <2>2, <2>3, <2>4 DEF Chain
  <2>6. ASSUME NEW i \in 1..(Len(r) - 1)
        PROVE  r[i+1].upto = r[i].upto + r[i+1].count
    <3>1. q[i+1].upto = q[i].upto + q[i+1].count
      BY <1>1, <2>1, <2>6 DEF Chain
    <3> HIDE DEF r
    <3>2. CASE i + 1 = Len(q)
      <4>1. /\ i \in 1..(Len(q) - 1) /\ i \in 1..Len(q)
            /\ r[i] = q[i] /\ r[i+1] = r[Len(q)] /\ q[i+1] = q[Len(q)]
        BY <3>2, <2>1, <2>3, <2>6
      <4>2. q[i].upto \in Nat /\ q[i+1].count \in Nat /\ q[i+1].upto \in Nat
        BY <4>1, <2>2, <2>3
      <4> QED BY <3>1, <4>1, <4>2, <2>1, <2>4
    <3>3. CASE i + 1 # Len(q)
      BY <3>1, <3>3, <2>1, <2>2, <2>3, <2>6
    <3> QED BY <3>2, <3>3
  <2> QED BY <2>1, <2>5, <2>6 DEF Chain
<1>2. CASE ~(q # <<>> /\ IsLagged(q[Len(q)]))
  <2>1. NoteDrop(q, b + 1) = Append(q, Lagged(b + 1))
    BY <1>2 DEF NoteDrop
  <2>2. Lagged(b + 1) \in Entry /\ Lagged(b + 1).upto = b + Lagged(b + 1).count
    BY DEF Lagged, Entry
  <2> QED BY <2>1, <2>2, ChainAppend DEF Lagged
<1> QED BY <1>1, <1>2


-----------------------------------------------------------------------------
LEMMA SoundAppend ==
    ASSUME NEW s \in Seq(Entry), NEW e \in Entry, NEW l,
           AllSound(s, l), Sound(e, l)
    PROVE  AllSound(Append(s, e), l)
<1> DEFINE r == Append(s, e)
<1>1. /\ Len(s) \in Nat /\ Len(r) = Len(s) + 1
      /\ \A i \in 1..Len(s) : r[i] = s[i]
      /\ r[Len(s) + 1] = e
  BY AppendProperties, LenProperties
<1>2. ASSUME NEW i \in 1..Len(r) PROVE Sound(r[i], l)
  <2> HIDE DEF r
  <2>1. CASE i = Len(s) + 1
    BY <1>1, <2>1
  <2>2. CASE i # Len(s) + 1
    <3>1. i \in 1..Len(s)
      BY <1>1, <1>2, <2>2
    <3> QED BY <1>1, <3>1 DEF AllSound
  <2> QED BY <2>1, <2>2
<1> QED BY <1>2 DEF AllSound

LEMMA SoundTail ==
    ASSUME NEW s \in Seq(Entry), NEW l, AllSound(s, l), s # <<>>
    PROVE  AllSound(Tail(s), l) /\ Sound(Head(s), l)
<1> DEFINE t == Tail(s)
<1>1. /\ Len(s) \in Nat /\ Len(s) > 0 /\ Len(t) = Len(s) - 1
      /\ \A i \in 1..Len(t) : t[i] = s[i+1]
      /\ Head(s) = s[1]
  BY HeadTailProperties, EmptySeq
<1> HIDE DEF t
<1>2. ASSUME NEW i \in 1..Len(t) PROVE Sound(t[i], l)
  <2>1. i + 1 \in 1..Len(s)
    BY <1>1, <1>2
  <2> QED BY <1>1, <2>1 DEF AllSound
<1>3. 1 \in 1..Len(s)
  BY <1>1
<1> QED BY <1>1, <1>2, <1>3 DEF AllSound, t

\* An entry stays sound as the history grows.
LEMMA SoundGrow ==
    ASSUME NEW s \in Seq(Entry), NEW l \in Seq(Kinds), NEW k \in Kinds, AllSound(s, l)
    PROVE  AllSound(s, Append(l, k))
<1> DEFINE h == Append(l, k)
<1>1. /\ Len(l) \in Nat /\ Len(h) = Len(l) + 1
      /\ \A i \in 1..Len(l) : h[i] = l[i]
  BY AppendProperties, LenProperties
<1> HIDE DEF h
<1>2. ASSUME NEW i \in 1..Len(s) PROVE Sound(s[i], h)
  <2>1. Sound(s[i], l)
    BY DEF AllSound
  <2>2. s[i].upto \in Nat /\ s[i].count \in Nat
    BY EntryFields
  <2> QED BY <1>1, <2>1, <2>2 DEF Sound
<1> QED BY <1>2 DEF AllSound, h

\* Counting a droppable emission right after the last one keeps q sound.
LEMMA SoundNoteDrop ==
    ASSUME NEW q \in Seq(Entry), NEW l \in Seq(Kinds), NEW a \in Nat, NEW b \in Nat,
           AllSound(q, l), Chain(q, a, b), b + 1 \in 1..Len(l), l[b + 1] # "must"
    PROVE  AllSound(NoteDrop(q, b + 1), l)
<1>0. Len(l) \in Nat /\ Len(q) \in Nat
  BY LenProperties
<1>1. CASE q # <<>> /\ IsLagged(q[Len(q)])
  <2> DEFINE r == NoteDrop(q, b + 1)
             e == q[Len(q)]
  <2>1. b + 1 \in Nat
    OBVIOUS
  <2>2. Len(q) \in 1..Len(q)
    BY <1>1, EmptySeq
  <2>3. r = [q EXCEPT ![Len(q)] = OneMore(@, b + 1)]
    BY <1>1 DEF NoteDrop
  <2>4. e.upto = b /\ e.id = 0 /\ Sound(e, l) /\ e.count \in Nat
    BY <1>1, <2>2, EntryFields DEF Chain, IsLagged, AllSound
  <2> HIDE DEF r, e
  <2>5. /\ Len(r) = Len(q)
        /\ \A i \in 1..Len(q) : i # Len(q) => r[i] = q[i]
        /\ r[Len(q)] = OneMore(e, b + 1)
    BY <1>1, <2>1, <2>3, MergeBack DEF e
  <2>6. Sound(OneMore(e, b + 1), l)
    <3>1. \A i \in 1..Len(l) : b < i + e.count /\ i <= b => l[i] # "must"
      BY <2>4 DEF Sound
    <3>2. \A i \in 1..Len(l) : b + 1 < i + (e.count + 1) /\ i <= b + 1 => l[i] # "must"
      BY <3>1, <1>0, <2>4
    <3> QED BY <3>2, <2>4 DEF Sound, OneMore
  <2>7. ASSUME NEW i \in 1..Len(r) PROVE Sound(r[i], l)
    BY <2>5, <2>6 DEF AllSound
  <2> QED BY <2>7 DEF AllSound, r
<1>2. CASE ~(q # <<>> /\ IsLagged(q[Len(q)]))
  <2>1. NoteDrop(q, b + 1) = Append(q, Lagged(b + 1))
    BY <1>2 DEF NoteDrop
  <2>2. Lagged(b + 1) \in Entry
    BY DEF Lagged, Entry
  <2>3. Sound(Lagged(b + 1), l)
    BY <1>0 DEF Sound, Lagged
  <2> QED BY <2>1, <2>2, <2>3, SoundAppend
<1> QED BY <1>1, <1>2

\* What must does to the queue, for the emission after a chain's end.
LEMMA MustQueueProperties ==
    ASSUME NEW q \in Seq(Entry), NEW l \in Seq(Kinds), NEW k \in Kinds,
           NEW a \in Nat, AllSound(q, l), Chain(q, a, Len(l))
    PROVE  LET n == Len(l) + 1
           IN  AllSound(MustQueue(q, k, n), Append(l, k)) /\ Chain(MustQueue(q, k, n), a, n)
<1> DEFINE h == Append(l, k)
           n == Len(l) + 1
<1>1. /\ Len(l) \in Nat /\ n \in Nat /\ Len(h) = n /\ h[n] = k /\ h \in Seq(Kinds)
  BY AppendProperties, LenProperties
<1>2. AllSound(q, h)
  BY SoundGrow
<1> HIDE DEF h
<1>3. CASE k = "capped" /\ Len(q) >= QueueCap
  <2>1. AllSound(NoteDrop(q, n), h)
    BY <1>1, <1>2, <1>3, SoundNoteDrop
  <2>2. Chain(NoteDrop(q, n), a, n)
    BY <1>1, NoteDropChain
  <2> QED BY <1>3, <2>1, <2>2 DEF MustQueue, h
<1>4. CASE ~(k = "capped" /\ Len(q) >= QueueCap)
  <2>1. Event(n) \in Entry /\ Sound(Event(n), h) /\ Event(n).upto = Len(l) + Event(n).count
    BY <1>1 DEF Event, Entry, Sound
  <2>2. AllSound(Append(q, Event(n)), h)
    BY <1>2, <2>1, SoundAppend
  <2>3. Chain(Append(q, Event(n)), a, n)
    BY <1>1, <2>1, ChainAppend DEF Event
  <2> QED BY <1>4, <2>2, <2>3 DEF MustQueue, h
<1> QED BY <1>3, <1>4

LEMMA MustQueueType ==
    ASSUME NEW q \in Seq(Entry), NEW k \in Kinds, NEW n \in Nat
    PROVE  MustQueue(q, k, n) \in Seq(Entry)
<1>1. Event(n) \in Entry
  BY DEF Event, Entry
<1> QED BY <1>1, NoteDropType, AppendProperties DEF MustQueue


-----------------------------------------------------------------------------
\* A run of n copies of x, and what appending it does.
LEMMA RunProperties ==
    ASSUME NEW v \in Seq(Nat), NEW n \in Nat, NEW x \in Nat
    PROVE  LET r == Copies(n, x)
           IN  /\ v \o r \in Seq(Nat)
               /\ Len(v \o r) = Len(v) + n
               /\ \A i \in 1..Len(v) : (v \o r)[i] = v[i]
               /\ \A i \in (Len(v) + 1)..(Len(v) + n) : (v \o r)[i] = x
<1> DEFINE r == Copies(n, x)
<1>1. r \in Seq(Nat) /\ Len(r) = n
  BY DEF Copies
<1>2. Len(v) \in Nat
  BY LenProperties
<1>3. /\ v \o r \in Seq(Nat)
      /\ Len(v \o r) = Len(v) + Len(r)
      /\ \A i \in 1..(Len(v) + Len(r)) :
            (v \o r)[i] = IF i <= Len(v) THEN v[i] ELSE r[i - Len(v)]
  BY <1>1, ConcatProperties
<1>4. \A i \in 1..n : r[i] = x
  BY DEF Copies
<1> HIDE DEF r
<1>5. \A i \in 1..Len(v) : (v \o r)[i] = v[i]
  BY <1>1, <1>2, <1>3
<1>6. ASSUME NEW i \in (Len(v) + 1)..(Len(v) + n) PROVE (v \o r)[i] = x
  <2>1. i - Len(v) \in 1..n /\ ~(i <= Len(v)) /\ i \in 1..(Len(v) + Len(r))
    BY <1>1, <1>2, <1>6
  <2> QED BY <1>3, <1>4, <2>1
<1> QED BY <1>1, <1>3, <1>5, <1>6 DEF r

LEMMA TypeInit == Init => TypeOK
BY EmptySeq DEF Init, TypeOK, Calls, Phases

\* Every step keeps the types.
LEMMA TypeStep == TypeOK /\ [Next]_vars => TypeOK'
<1> SUFFICES ASSUME TypeOK, [Next]_vars PROVE TypeOK'
  OBVIOUS
<1> USE DEF TypeOK
<1>0. /\ Len(log) \in Nat
      /\ \A k \in Kinds : Append(log, k) \in Seq(Kinds)
      /\ "must" \in Kinds /\ "capped" \in Kinds /\ "lossy" \in Kinds
      /\ Len(log) + 1 \in Nat
  BY AppendProperties, LenProperties DEF Kinds
<1>1. CASE Lossy
  BY <1>0, <1>1 DEF Lossy, Emitting, Calls
<1>2. ASSUME NEW k \in {"capped", "must"}, Must(k) PROVE TypeOK'
  BY <1>0, <1>2, MustQueueType DEF Must, Emitting, Calls
<1>3. CASE Fail
  BY <1>0, <1>3, MustQueueType DEF Fail, Emitting, Calls, Phases
<1>4. CASE TickFlush
  BY <1>4 DEF TickFlush, Calls
<1>5. CASE Stop
  BY <1>5 DEF Stop, Phases
<1>6. CASE HandOff
  BY <1>6 DEF HandOff, Calls
<1>7. CASE FlushSend
  BY <1>7, HeadTailProperties, AppendProperties DEF FlushSend
<1>8. CASE FlushReturn
  BY <1>0, <1>8, NoteDropType, EmptySeq DEF FlushReturn, Calls, Phases
<1>9. CASE FlushClosed
  BY <1>9, EmptySeq DEF FlushClosed, Calls, Phases
<1>10. CASE TrySend
  <2>1. Event(Len(log)) \in Entry
    BY <1>0 DEF Event, Entry
  <2>2. /\ Append(chan, Event(Len(log))) \in Seq(Entry)
        /\ NoteDrop(queue, Len(log)) \in Seq(Entry)
    BY <1>0, <2>1, NoteDropType, AppendProperties
  <2> QED BY <1>10, <2>2 DEF TrySend, Calls
<1>11. CASE TaskSend
  <2>1. /\ Tail(queue) \in Seq(Entry)
        /\ Append(chan, Head(queue)) \in Seq(Entry)
        /\ <<>> \in Seq(Entry)
    BY <1>11, HeadTailProperties, AppendProperties, EmptySeq DEF TaskSend
  <2> QED BY <1>11, <2>1 DEF TaskSend
<1>12. CASE Recv
  <2>1. Head(chan) \in Entry /\ Tail(chan) \in Seq(Entry)
    BY <1>12, HeadTailProperties DEF Recv
  <2>2. Head(chan).count \in Nat /\ Head(chan).id \in Nat
    BY <2>1 DEF Entry
  <2>3. view \o Copies(Head(chan).count, Head(chan).id) \in Seq(Nat)
    BY <2>2, RunProperties
  <2> QED BY <1>12, <2>1, <2>3 DEF Recv
<1>13. CASE Close
  BY <1>13, EmptySeq DEF Close
<1>14. CASE UNCHANGED vars
  BY <1>14 DEF vars
<1> QED
  BY <1>1, <1>2, <1>3, <1>4, <1>5, <1>6, <1>7, <1>8, <1>9, <1>10, <1>11, <1>12,
     <1>13, <1>14 DEF Next, Emit, CallStep

\* Type correctness of the event path.
THEOREM EmitterTypes == Spec => []TypeOK
<1> QED BY TypeInit, TypeStep, PTL DEF Spec


-----------------------------------------------------------------------------
LEMMA IndInit == Init => IInv
<1> SUFFICES ASSUME Init PROVE IInv
  OBVIOUS
<1>1. TypeOK
  BY TypeInit
<1>2. AllSound(chan, log) /\ AllSound(queue, log) /\ ViewExact /\ ~InHand
  BY DEF Init, AllSound, ViewExact, InHand
<1>3. Chain(chan, Len(view), 0) /\ Chain(queue, 0, 0) /\ Accounted = 0 /\ Len(log) = 0
  BY <1>2, EmptySeq DEF Init, Chain, Accounted
<1>4. Linked
  BY <1>3 DEF Linked
<1> QED BY <1>1, <1>2, <1>4 DEF IInv, Init, InHand

\* The history grows and the view stays: what was read stays exact.
LEMMA ViewGrow ==
    ASSUME TypeOK, ViewExact, NEW k \in Kinds, log' = Append(log, k), UNCHANGED view
    PROVE  ViewExact'
<1>1. /\ Len(log) \in Nat /\ Len(log') = Len(log) + 1
      /\ \A i \in 1..Len(log) : log'[i] = log[i]
  BY AppendProperties, LenProperties DEF TypeOK
<1>2. Len(view) \in Nat
  BY LenProperties DEF TypeOK
<1> QED BY <1>1, <1>2 DEF ViewExact

\* A must (or the driver's failure): the event is queued or counted.
LEMMA IndMust ==
    ASSUME IInv, TypeOK', NEW k \in Kinds, phase # "no_runtime",
           Emitting(k), queue' = MustQueue(queue, k, Len(log) + 1), call' = "flush",
           phase' # "no_runtime", UNCHANGED <<chan, open, view>>
    PROVE  IInv'
<1>1. Accounted = Len(log) /\ Accounted' = Len(log') /\ ~InHand'
  BY DEF Emitting, Accounted, InHand
<1>2. ViewExact'
  BY ViewGrow DEF IInv, Emitting
<1>3. ASSUME open PROVE AllSound(chan, log)' /\ AllSound(queue, log)' /\ Linked'
  <2>1. PICK m \in Nat : Chain(chan, Len(view), m) /\ Chain(queue, m, Len(log))
    BY <1>1, <1>3 DEF IInv, Linked
  <2>2. /\ AllSound(queue', log')
        /\ Chain(queue', m, Len(log) + 1)
    BY <1>3, <2>1, MustQueueProperties DEF IInv, TypeOK, Emitting
  <2>3. AllSound(chan', log')
    BY <1>3, SoundGrow DEF IInv, TypeOK, Emitting
  <2>4. Len(log') = Len(log) + 1 /\ Len(log') \in Nat
    BY AppendProperties, LenProperties DEF IInv, TypeOK, Emitting
  <2>5. Linked'
    BY <1>1, <2>1, <2>2, <2>4 DEF Linked
  <2> QED BY <2>2, <2>3, <2>5
<1> QED BY <1>1, <1>2, <1>3 DEF IInv, InHand

\* A lossy call takes its event in hand.
LEMMA IndLossy == ASSUME IInv, TypeOK', Lossy PROVE IInv'
<1>0. /\ Len(log') = Len(log) + 1 /\ Len(log) \in Nat
      /\ log'[Len(log')] = "lossy"
  BY AppendProperties, LenProperties DEF IInv, TypeOK, Lossy, Emitting, Kinds
<1>1. InHand' /\ ~InHand /\ Accounted' = Accounted
  BY <1>0 DEF Lossy, Emitting, Accounted, InHand
<1>2. ViewExact'
  BY ViewGrow DEF IInv, Lossy, Emitting, Kinds
<1>3. ASSUME open PROVE AllSound(chan, log)' /\ AllSound(queue, log)' /\ Linked'
  <2>1. AllSound(chan', log') /\ AllSound(queue', log')
    BY <1>3, SoundGrow DEF IInv, TypeOK, Lossy, Emitting, Kinds
  <2>2. PICK m, b \in Nat : /\ Chain(chan, Len(view), m) /\ Chain(queue, m, b)
                            /\ phase # "no_runtime" => b = Accounted
    BY <1>3 DEF IInv, Linked
  <2>3. Linked'
    BY <1>0, <1>1, <2>2 DEF Linked, Lossy
  <2> QED BY <2>1, <2>3
<1> QED BY <1>0, <1>1, <1>2, <1>3 DEF IInv, Lossy, InHand

\* Moving the front of the queue to the channel moves the link between them.
LEMMA IndSend ==
    ASSUME IInv, TypeOK', open, queue # <<>>, chan' = Append(chan, Head(queue)),
           queue' = Tail(queue), UNCHANGED <<open, call, phase, log, view>>
    PROVE  IInv'
<1>1. PICK m, b \in Nat : /\ Chain(chan, Len(view), m) /\ Chain(queue, m, b)
                          /\ phase # "no_runtime" => b = Accounted
  BY DEF IInv, Linked
<1>2. Head(queue) \in Entry /\ Head(queue).upto \in Nat
  BY HeadTailProperties DEF IInv, TypeOK, Entry
<1>3. /\ Chain(queue', Head(queue).upto, b)
      /\ Head(queue).upto = m + Head(queue).count
  BY <1>1, ChainTail DEF IInv, TypeOK
<1>4. Len(view) \in Nat
  BY LenProperties DEF IInv, TypeOK
<1>5. Chain(chan', Len(view), Head(queue).upto)
  BY <1>1, <1>2, <1>3, <1>4, ChainAppend DEF IInv, TypeOK
<1>6. AllSound(chan', log) /\ AllSound(queue', log)
  BY <1>2, SoundTail, SoundAppend DEF IInv, TypeOK
<1>7. Accounted' = Accounted /\ (InHand' <=> InHand) /\ ViewExact'
  BY DEF Accounted, InHand, IInv, ViewExact
<1>8. Linked'
  BY <1>1, <1>2, <1>3, <1>5, <1>7 DEF Linked
<1>9. call # "try_send"
  BY DEF IInv
<1> QED BY <1>6, <1>7, <1>8, <1>9 DEF IInv, InHand


\* The lossy event in hand is counted at the back of the queue.
LEMMA IndNoteDrop ==
    ASSUME IInv, TypeOK', InHand, queue' = NoteDrop(queue, Len(log)), call' = "idle",
           UNCHANGED <<chan, open, phase, log, view>>
    PROVE  IInv'
<1>1. /\ Len(log) \in Nat /\ Len(log) > 0 /\ log[Len(log)] = "lossy"
      /\ phase # "no_runtime"
      /\ Accounted = Len(log) - 1 /\ Accounted' = Len(log) /\ ~InHand'
  BY LenProperties DEF IInv, TypeOK, InHand, Accounted
<1>2. ASSUME open PROVE AllSound(queue, log)' /\ Linked'
  <2>1. PICK m \in Nat : Chain(chan, Len(view), m) /\ Chain(queue, m, Len(log) - 1)
    BY <1>1, <1>2 DEF IInv, Linked
  <2>2. /\ Len(log) - 1 \in Nat
        /\ (Len(log) - 1) + 1 = Len(log)
    BY <1>1
  <2>3. Chain(queue', m, Len(log))
    BY <2>1, <2>2, NoteDropChain DEF IInv, TypeOK
  <2>4. Len(log) \in 1..Len(log) /\ log[Len(log)] # "must"
    BY <1>1
  <2>5. AllSound(queue', log)
    BY <1>2, <2>1, <2>2, <2>4, SoundNoteDrop DEF IInv, TypeOK
  <2>6. Linked'
    BY <1>1, <2>1, <2>3 DEF Linked
  <2> QED BY <2>5, <2>6
<1>3. ViewExact'
  BY DEF IInv, ViewExact
<1> QED BY <1>1, <1>2, <1>3 DEF IInv, InHand

LEMMA IndReturn == ASSUME IInv, TypeOK', FlushReturn PROVE IInv'
<1>0. /\ ViewExact' /\ open' = open /\ chan' = chan /\ log' = log /\ view' = view
  BY DEF FlushReturn, IInv, ViewExact
<1>1. CASE call = "flush" /\ call' = "idle" /\ UNCHANGED <<queue, phase>>
  <2>1. Accounted' = Accounted /\ ~InHand'
    BY <1>0, <1>1 DEF Accounted, InHand
  <2> QED BY <1>0, <1>1, <2>1 DEF IInv, Linked, AllSound, InHand
<1>2. CASE call = "lossy" /\ queue = <<>> /\ call' = "try_send" /\ UNCHANGED <<queue, phase>>
  <2>1. Accounted' = Accounted /\ InHand' /\ InHand
    BY <1>0, <1>2 DEF Accounted, InHand
  <2> QED BY <1>0, <1>2, <2>1 DEF IInv, Linked, AllSound
<1>3. CASE call = "lossy" /\ queue' = NoteDrop(queue, Len(log)) /\ call' = "idle" /\ UNCHANGED phase
  BY <1>0, <1>3, IndNoteDrop DEF InHand
<1>4. CASE call = "hand_off" /\ call' = "idle" /\ phase' = "handed_off" /\ UNCHANGED queue
  <2>1. Accounted' = Accounted /\ ~InHand' /\ phase # "no_runtime"
    BY <1>0, <1>4 DEF Accounted, InHand, IInv
  <2> QED BY <1>0, <1>4, <2>1 DEF IInv, Linked, AllSound, InHand
<1>5. CASE call = "hand_off" /\ call' = "idle" /\ phase' = "no_runtime" /\ queue' = <<>>
  <2>1. ~InHand'
    BY <1>5 DEF InHand
  <2>2. ASSUME open PROVE Linked' /\ AllSound(queue', log)
    <3>1. PICK m, b \in Nat : /\ Chain(chan, Len(view), m) /\ Chain(queue, m, b)
                            BY <2>2 DEF IInv, Linked
    <3>3. Chain(queue', m, m)
      BY <1>5 DEF Chain
    <3> QED BY <1>0, <1>5, <3>1, <3>3, EmptySeq DEF Linked, AllSound
  <2> QED BY <1>0, <1>5, <2>1, <2>2 DEF IInv, InHand
<1> QED BY <1>1, <1>2, <1>3, <1>4, <1>5 DEF FlushReturn


\* lossy's own try_send finds an empty queue.
LEMMA IndTrySend == ASSUME IInv, TypeOK', TrySend PROVE IInv'
<1>0. /\ ViewExact' /\ open' = open /\ log' = log /\ view' = view /\ phase' = phase
      /\ call' = "idle" /\ InHand /\ ~InHand' /\ queue = <<>>
      /\ Len(log) \in Nat /\ Len(log) > 0 /\ Accounted' = Len(log)
      /\ phase # "no_runtime"
  BY LenProperties DEF TrySend, IInv, TypeOK, ViewExact, InHand, Accounted
<1>1. CASE open /\ chan' = Append(chan, Event(Len(log))) /\ UNCHANGED queue
  <2> DEFINE e == Event(Len(log))
  <2>1. PICK m \in Nat : Chain(chan, Len(view), m) /\ Chain(queue, m, Len(log) - 1)
    BY <1>0, <1>1 DEF IInv, Linked, Accounted
  <2>2. m = Len(log) - 1
    BY <1>0, <2>1 DEF Chain
  <2>3. e \in Entry /\ e.upto = Len(log) /\ e.upto = m + e.count /\ Sound(e, log)
    BY <1>0, <2>2 DEF Event, Entry, Sound
  <2>4. Len(view) \in Nat
    BY LenProperties DEF IInv, TypeOK
  <2> HIDE DEF e
  <2>5. Chain(Append(chan, e), Len(view), Len(log)) /\ AllSound(Append(chan, e), log)
    BY <1>1, <2>1, <2>3, <2>4, ChainAppend, SoundAppend DEF IInv, TypeOK
  <2>6. Chain(queue', Len(log), Len(log))
    BY <1>0, <1>1 DEF Chain
  <2>7. Linked'
    BY <1>0, <1>1, <2>5, <2>6 DEF Linked, e
  <2> QED BY <1>0, <1>1, <2>5, <2>7 DEF IInv, InHand, e
<1>2. CASE open /\ queue' = NoteDrop(queue, Len(log)) /\ UNCHANGED chan
  BY <1>0, <1>2, IndNoteDrop
<1>3. CASE ~open
  BY <1>0, <1>3 DEF IInv, InHand
<1> QED BY <1>1, <1>2, <1>3 DEF TrySend

\* What the caller reads is the continuation of its view.
LEMMA IndRecv == ASSUME IInv, TypeOK', Recv PROVE IInv'
<1> DEFINE e == Head(chan)
<1>1. PICK m, b \in Nat : /\ Chain(chan, Len(view), m) /\ Chain(queue, m, b)
                          /\ phase # "no_runtime" => b = Accounted
  BY DEF IInv, Linked, Recv
<1>2. /\ Chain(Tail(chan), e.upto, m)
      /\ e.upto = Len(view) + e.count
  BY <1>1, ChainTail, LenProperties DEF IInv, TypeOK, Recv
<1>3. Sound(e, log) /\ AllSound(Tail(chan), log)
  BY SoundTail DEF IInv, TypeOK, Recv
<1>4. e \in Entry /\ e.id \in Nat /\ e.count \in Nat /\ e.upto \in Nat
  <2>1. e \in Entry
    BY HeadTailProperties DEF IInv, TypeOK, Recv
  <2> HIDE DEF e
  <2> QED BY <2>1 DEF Entry
<1>5. Len(view) \in Nat /\ Len(log) \in Nat
  BY LenProperties DEF IInv, TypeOK
<1> HIDE DEF e
<1>6. /\ Len(view') = e.upto
      /\ \A i \in 1..Len(view) : view'[i] = view[i]
      /\ \A i \in (Len(view) + 1)..e.upto : view'[i] = e.id
  <2>1. view' = view \o Copies(e.count, e.id) /\ view \in Seq(Nat)
    BY DEF Recv, IInv, TypeOK, e
  <2> DEFINE w == view \o Copies(e.count, e.id)
  <2>2. /\ Len(w) = Len(view) + e.count
        /\ \A i \in 1..Len(view) : w[i] = view[i]
        /\ \A i \in (Len(view) + 1)..(Len(view) + e.count) : w[i] = e.id
    BY <1>4, <2>1, RunProperties
  <2> HIDE DEF w
  <2> QED BY <1>2, <2>1, <2>2 DEF w
<1>7. ASSUME NEW i \in 1..Len(view')
      PROVE  view'[i] = i \/ (view'[i] = 0 /\ i <= Len(log) /\ log[i] # "must")
  <2>1. CASE i <= Len(view)
    <3>1. i \in 1..Len(view)
      BY <1>5, <2>1
    <3> QED BY <1>6, <3>1 DEF IInv, ViewExact
  <2>2. CASE i > Len(view)
    <3>1. i \in (Len(view) + 1)..e.upto /\ view'[i] = e.id
      BY <1>4, <1>5, <1>6, <2>2
    <3>2. CASE e.id = e.upto /\ e.count = 1
      BY <1>2, <1>4, <1>5, <3>1, <3>2
    <3>3. CASE e.id = 0 /\ \A j \in 1..Len(log) :
                  e.upto < j + e.count /\ j <= e.upto => log[j] # "must"
      <4>1. i \in 1..Len(log) /\ e.upto < i + e.count /\ i <= e.upto
        BY <1>2, <1>3, <1>4, <1>5, <3>1 DEF Sound
      <4> QED BY <3>1, <3>3, <4>1, <1>5
    <3> QED BY <1>3, <3>2, <3>3 DEF Sound
  <2> QED BY <1>5, <2>1, <2>2
<1>8. ViewExact'
  BY <1>7 DEF ViewExact, Recv
<1>9. Linked'
  BY <1>1, <1>2, <1>4, <1>6 DEF Linked, Recv, Accounted, InHand, e
<1> QED BY <1>3, <1>8, <1>9 DEF IInv, InHand, Recv

\* Every step keeps the inductive invariant.
LEMMA IndStep == IInv /\ [Next]_vars => IInv'
<1> SUFFICES ASSUME IInv, [Next]_vars PROVE IInv'
  OBVIOUS
<1>0. TypeOK'
  BY TypeStep DEF IInv
<1>1. CASE Lossy
  BY <1>0, <1>1, IndLossy
<1>2. ASSUME NEW k \in {"capped", "must"}, Must(k) PROVE IInv'
  BY <1>0, <1>2, IndMust DEF Must, Kinds
<1>3. CASE Fail
  BY <1>0, <1>3, IndMust DEF Fail, Kinds
<1>4. CASE TickFlush
  BY <1>0, <1>4 DEF TickFlush, IInv, InHand, Accounted, Linked, AllSound, ViewExact
<1>5. CASE Stop
  BY <1>0, <1>5 DEF Stop, IInv, InHand, Accounted, Linked, AllSound, ViewExact
<1>6. CASE HandOff
  BY <1>0, <1>6 DEF HandOff, IInv, InHand, Accounted, Linked, AllSound, ViewExact
<1>7. CASE FlushSend
  BY <1>0, <1>7, IndSend DEF FlushSend
<1>8. CASE FlushReturn
  BY <1>0, <1>8, IndReturn
<1>9. CASE FlushClosed
  BY <1>0, <1>9 DEF FlushClosed, Flushing, IInv, InHand, ViewExact
<1>10. CASE TrySend
  BY <1>0, <1>10, IndTrySend
<1>11. CASE TaskSend
  <2>1. CASE open
    BY <1>0, <1>11, <2>1, IndSend DEF TaskSend
  <2>2. CASE ~open
    BY <1>0, <1>11, <2>2 DEF TaskSend, IInv, InHand, ViewExact
  <2> QED BY <2>1, <2>2
<1>12. CASE Recv
  BY <1>0, <1>12, IndRecv
<1>13. CASE Close
  BY <1>0, <1>13 DEF Close, IInv, InHand, ViewExact
<1>14. CASE UNCHANGED vars
  BY <1>0, <1>14 DEF vars, IInv, InHand, Accounted, Linked, AllSound, ViewExact
<1> QED
  BY <1>1, <1>2, <1>3, <1>4, <1>5, <1>6, <1>7, <1>8, <1>9, <1>10, <1>11, <1>12,
     <1>13, <1>14 DEF Next, Emit, CallStep

\* The caller's view is exact: every position it has read holds the event of
\* that position, or notes a drop of an event that may be dropped.
THEOREM ViewIsExact == Spec => []ViewExact
<1>1. IInv => ViewExact
  BY DEF IInv
<1> QED BY IndInit, IndStep, <1>1, PTL DEF Spec


-----------------------------------------------------------------------------
(***************************************************************************)
(* Refinement: emitting, reading and closing are the abstract steps, and   *)
(* everything the emitter does in between stutters.                        *)
(***************************************************************************)
LEMMA RefineRecv == ASSUME IInv, Recv PROVE Delivery!Next
<1> DEFINE e == Head(chan)
<1>1. PICK m \in Nat : Chain(chan, Len(view), m)
  BY DEF IInv, Linked, Recv
<1>2. e.upto = Len(view) + e.count /\ Sound(e, log)
  BY <1>1, ChainTail, SoundTail, LenProperties DEF IInv, TypeOK, Recv
<1>3. e \in Entry
  BY HeadTailProperties DEF IInv, TypeOK, Recv
<1>4. Len(view) \in Nat /\ Len(log) \in Nat
  BY LenProperties DEF IInv, TypeOK
<1>5. view' = view \o Copies(e.count, e.id) /\ open /\ UNCHANGED <<log, open>>
  BY DEF Recv
<1> HIDE DEF e
<1>6. e.count \in Nat /\ e.count # 0 /\ e.upto <= Len(log)
  BY <1>2, <1>3 DEF Entry, Sound
<1>7. CASE e.id = e.upto /\ e.count = 1
  <2>1. Copies(e.count, e.id) = <<Len(view) + 1>>
    BY <1>2, <1>7 DEF Copies
  <2>2. view' = Append(view, Len(view) + 1)
    BY <1>5, <2>1 DEF IInv, TypeOK
  <2>3. Len(view) < Len(log)
    BY <1>2, <1>4, <1>6, <1>7
  <2> QED BY <1>5, <2>2, <2>3 DEF Delivery!Next, Delivery!Deliver
<1>8. CASE e.id = 0 /\ \A j \in 1..Len(log) :
              e.upto < j + e.count /\ j <= e.upto => log[j] # "must"
  <2>1. view' = view \o [i \in 1..e.count |-> 0]
    BY <1>5, <1>8 DEF Copies
  <2>2. Len(view) + e.count <= Len(log) /\ e.count \in 1..Len(log)
    BY <1>2, <1>4, <1>6
  <2>3. ASSUME NEW i \in 1..e.count PROVE log[Len(view) + i] # "must"
    <3>1. /\ Len(view) + i \in 1..Len(log)
          /\ e.upto < (Len(view) + i) + e.count /\ Len(view) + i <= e.upto
      BY <1>2, <1>4, <1>6, <2>2
    <3> QED BY <1>8, <3>1
  <2>4. Delivery!Report(e.count)
    BY <1>5, <2>1, <2>2, <2>3 DEF Delivery!Report
  <2> QED BY <2>2, <2>4 DEF Delivery!Next
<1> QED BY <1>2, <1>7, <1>8 DEF Sound

LEMMA RefineStep == IInv /\ [Next]_vars => [Delivery!Next]_(Delivery!vars)
<1> SUFFICES ASSUME IInv, [Next]_vars PROVE [Delivery!Next]_(Delivery!vars)
  OBVIOUS
<1> USE DEF Delivery!vars
<1>1. ASSUME NEW k \in Kinds, Emitting(k), UNCHANGED <<view, open>>
      PROVE  Delivery!Next
  BY <1>1 DEF Emitting, Delivery!Next, Delivery!Emit, Delivery!Kinds, Kinds
<1>2. CASE Emit
  BY <1>1, <1>2 DEF Emit, Lossy, Must, Fail, Kinds
<1>3. CASE TickFlush \/ Stop \/ HandOff
  BY <1>3 DEF TickFlush, Stop, HandOff
<1>4. CASE CallStep
  BY <1>4 DEF CallStep, FlushSend, FlushReturn, FlushClosed, TrySend
<1>5. CASE TaskSend
  BY <1>5 DEF TaskSend
<1>6. CASE Recv
  BY <1>6, RefineRecv
<1>7. CASE Close
  BY <1>7 DEF Close, Delivery!Next, Delivery!Close
<1>8. CASE UNCHANGED vars
  BY <1>8 DEF vars
<1> QED BY <1>2, <1>3, <1>4, <1>5, <1>6, <1>7, <1>8 DEF Next

\* The emitter implements ordered, accounted delivery.
THEOREM EmitterImplementsDelivery == Spec => DeliverySpec
<1>1. Init => Delivery!Init
  BY DEF Init, Delivery!Init
<1> QED BY <1>1, IndInit, IndStep, RefineStep, PTL DEF Spec, DeliverySpec, Delivery!Spec

-----------------------------------------------------------------------------
(***************************************************************************)
(* The bound of the queue.  Inductive form: with no Lagged at the back the *)
(* queue is one shorter.                                                   *)
(***************************************************************************)
LaggedBack(q) == q # <<>> /\ IsLagged(q[Len(q)])

QueueBound == QueueCap + 2 * Cardinality(Musts)

WithinBound(q, b) == IF LaggedBack(q) THEN Len(q) <= b + 1 ELSE Len(q) <= b

\* note_drop adds an entry only behind an event.
LEMMA NoteDropBound ==
    ASSUME NEW q \in Seq(Entry), NEW n \in Nat, NEW b \in Nat, WithinBound(q, b)
    PROVE  WithinBound(NoteDrop(q, n), b)
<1>1. CASE LaggedBack(q)
  BY <1>1, MergeBack DEF NoteDrop, LaggedBack, WithinBound, OneMore, IsLagged
<1>2. CASE ~LaggedBack(q)
  <2>1. NoteDrop(q, n) = Append(q, Lagged(n)) /\ Lagged(n) \in Entry
    BY <1>2 DEF NoteDrop, LaggedBack, Lagged, Entry
  <2>2. Len(Append(q, Lagged(n))) = Len(q) + 1
    BY <2>1, AppendProperties
  <2>3. LaggedBack(Append(q, Lagged(n)))
    BY <2>1, AppendProperties DEF LaggedBack, IsLagged, Lagged
  <2>4. Len(q) \in Nat
    BY LenProperties
  <2> QED BY <1>2, <2>1, <2>2, <2>3, <2>4 DEF WithinBound
<1> QED BY <1>1, <1>2

\* A must event moves the bound by two; a capped one is counted at the cap.
LEMMA MustQueueBound ==
    ASSUME NEW q \in Seq(Entry), NEW n \in Nat \ {0}, NEW b \in Nat, NEW k \in Kinds,
           b >= QueueCap, WithinBound(q, b), k # "lossy"
    PROVE  WithinBound(MustQueue(q, k, n), IF k = "must" THEN b + 2 ELSE b)
<1>0. Len(q) \in Nat /\ QueueCap \in Nat
  BY LenProperties, EmitterAssumption
<1>1. CASE k = "capped" /\ Len(q) >= QueueCap
  BY <1>1, NoteDropBound DEF MustQueue
<1>2. CASE ~(k = "capped" /\ Len(q) >= QueueCap)
  <2> DEFINE r == Append(q, Event(n))
  <2>1. MustQueue(q, k, n) = r /\ Event(n) \in Entry
    BY <1>2 DEF MustQueue, Event, Entry
  <2>2. Len(r) = Len(q) + 1 /\ ~LaggedBack(r)
    BY <2>1, AppendProperties DEF LaggedBack, IsLagged, Event
  <2> HIDE DEF r
  <2>3. CASE k = "must"
    BY <1>0, <2>1, <2>2, <2>3 DEF WithinBound
  <2>4. CASE k = "capped"
    BY <1>0, <1>2, <2>1, <2>2, <2>4 DEF WithinBound
  <2> QED BY <2>3, <2>4 DEF Kinds
<1> QED BY <1>1, <1>2

\* Taking the front of the queue keeps the back.
LEMMA TailBound ==
    ASSUME NEW q \in Seq(Entry), NEW b \in Nat, q # <<>>, WithinBound(q, b)
    PROVE  WithinBound(Tail(q), b)
<1> DEFINE t == Tail(q)
<1>1. /\ Len(q) \in Nat /\ Len(q) > 0 /\ t \in Seq(Entry) /\ Len(t) = Len(q) - 1
      /\ \A i \in 1..Len(t) : t[i] = q[i+1]
  BY HeadTailProperties, EmptySeq
<1> HIDE DEF t
<1>2. CASE t = <<>>
  BY <1>1, <1>2, EmptySeq DEF WithinBound, LaggedBack, t
<1>3. CASE t # <<>>
  <2>1. Len(t) \in 1..Len(t) /\ t[Len(t)] = q[Len(q)]
    BY <1>1, <1>3, EmptySeq
  <2> QED BY <1>1, <1>3, <2>1 DEF WithinBound, LaggedBack, t
<1> QED BY <1>2, <1>3

\* What an emission does to the number of must events.
LEMMA MustsGrow ==
    ASSUME NEW k \in Kinds, TypeOK, log' = Append(log, k)
    PROVE  /\ Cardinality(Musts) \in Nat
           /\ Cardinality(Musts') = Cardinality(Musts) + (IF k = "must" THEN 1 ELSE 0)
<1> DEFINE n == Len(log) + 1
<1>1. /\ Len(log) \in Nat /\ Len(log') = n /\ log'[n] = k
      /\ \A i \in 1..Len(log) : log'[i] = log[i]
  BY AppendProperties, LenProperties DEF TypeOK
<1>2. IsFiniteSet(Musts)
  <2>1. IsFiniteSet(1..Len(log))
    BY <1>1, FS_Interval
  <2> QED BY <2>1, FS_Subset DEF Musts
<1>3. n \notin Musts
  BY <1>1 DEF Musts
<1>4. CASE k = "must"
  <2>1. Musts' = Musts \cup {n}
    BY <1>1, <1>4 DEF Musts
  <2> QED BY <1>2, <1>3, <1>4, <2>1, FS_AddElement, FS_CardinalityType
<1>5. CASE k # "must"
  <2>1. Musts' = Musts
    BY <1>1, <1>5 DEF Musts
  <2> QED BY <1>2, <1>5, <2>1, FS_CardinalityType
<1> QED BY <1>4, <1>5


BInv == TypeOK /\ WithinBound(queue, QueueBound)

LEMMA BoundType == TypeOK => QueueBound \in Nat /\ QueueBound >= QueueCap
<1> SUFFICES ASSUME TypeOK PROVE QueueBound \in Nat /\ QueueBound >= QueueCap
  OBVIOUS
<1>1. Len(log) \in Nat
  BY LenProperties DEF TypeOK
<1>2. IsFiniteSet(1..Len(log))
  BY <1>1, FS_Interval
<1>3. Cardinality(Musts) \in Nat
  BY <1>2, FS_Subset, FS_CardinalityType DEF Musts
<1> QED BY <1>3, EmitterAssumption DEF QueueBound

LEMMA EmptyBound == TypeOK => WithinBound(<<>>, QueueBound)
BY BoundType, EmptySeq DEF WithinBound, LaggedBack

LEMMA BoundStep == BInv /\ [Next]_vars => BInv'
<1> SUFFICES ASSUME BInv, [Next]_vars PROVE BInv'
  OBVIOUS
<1>0. TypeOK /\ TypeOK' /\ QueueBound \in Nat /\ QueueBound >= QueueCap
  BY TypeStep, BoundType DEF BInv
<1>1. ASSUME NEW k \in {"capped", "must"}, Emitting(k),
             queue' = MustQueue(queue, k, Len(log) + 1)
      PROVE  BInv'
  <2>1. QueueBound' = IF k = "must" THEN QueueBound + 2 ELSE QueueBound
    BY <1>0, <1>1, MustsGrow, EmitterAssumption DEF QueueBound, Emitting, Kinds
  <2>2. Len(log) + 1 \in Nat \ {0}
    BY <1>0, LenProperties DEF TypeOK
  <2> HIDE DEF QueueBound
  <2>3. WithinBound(queue', QueueBound')
    BY <1>0, <1>1, <2>1, <2>2, MustQueueBound DEF BInv, TypeOK, Kinds
  <2> QED BY <1>0, <2>3 DEF BInv, WithinBound, LaggedBack
<1>2. ASSUME UNCHANGED log, WithinBound(queue', QueueBound) PROVE BInv'
  <2>1. QueueBound' = QueueBound
    BY <1>2 DEF QueueBound, Musts
  <2> QED BY <1>0, <1>2, <2>1 DEF BInv
<1>3. CASE Lossy
  <2>1. QueueBound' = QueueBound
    BY <1>0, <1>3, MustsGrow DEF QueueBound, Lossy, Emitting, Kinds
  <2> QED BY <1>0, <1>3, <2>1 DEF BInv, Lossy
<1>4. CASE \E k \in {"capped", "must"} : Must(k)
  BY <1>1, <1>4 DEF Must
<1>5. CASE Fail
  BY <1>1, <1>5 DEF Fail
<1>6. CASE TickFlush \/ Stop \/ HandOff \/ Recv \/ Close
  BY <1>2, <1>6 DEF TickFlush, Stop, HandOff, Recv, Close, BInv
<1>7. CASE FlushSend \/ TaskSend
  <2>1. WithinBound(queue', QueueBound)
    BY <1>0, <1>7, TailBound, EmptyBound DEF FlushSend, TaskSend, BInv, TypeOK
  <2> QED BY <1>2, <1>7, <2>1 DEF FlushSend, TaskSend
<1>8. CASE FlushReturn \/ FlushClosed \/ TrySend
  <2>1. Len(log) \in Nat
    BY <1>0, LenProperties DEF TypeOK
  <2>2. WithinBound(NoteDrop(queue, Len(log)), QueueBound)
    BY <1>0, <2>1, NoteDropBound DEF BInv, TypeOK
  <2>3. WithinBound(queue', QueueBound)
    BY <1>0, <1>8, <2>2, EmptyBound DEF FlushReturn, FlushClosed, TrySend, BInv
  <2> QED BY <1>2, <1>8, <2>3 DEF FlushReturn, FlushClosed, TrySend
<1>9. CASE UNCHANGED vars
  BY <1>2, <1>9 DEF vars, BInv
<1> QED BY <1>3, <1>4, <1>5, <1>6, <1>7, <1>8, <1>9 DEF Next, Emit, CallStep

\* The queue of an emitter that never waits stays bounded.
THEOREM QueueStaysBounded == Spec => []QueueBounded
<1>1. Init => BInv
  <2> SUFFICES ASSUME Init PROVE BInv
    OBVIOUS
  <2>1. TypeOK
    BY TypeInit
  <2> QED BY <2>1, EmptyBound DEF Init, BInv
<1>2. BInv => QueueBounded
  <2> SUFFICES ASSUME BInv PROVE QueueBounded
    OBVIOUS
  <2>1. QueueBound \in Nat /\ Len(queue) \in Nat
    BY BoundType, LenProperties DEF BInv, TypeOK
  <2>2. Len(queue) <= QueueBound + 1
    BY <2>1 DEF BInv, WithinBound
  <2> QED BY <2>2 DEF QueueBounded, QueueBound
<1> QED BY <1>1, <1>2, BoundStep, PTL DEF Spec

-----------------------------------------------------------------------------
(***************************************************************************)
(* A theorem about ProbeHook, for any endpoint, any number of processes    *)
(* behind it and any bounds: no reply of the probe hook is written of      *)
(* another process than the one it was read from.                          *)
(*                                                                         *)
(* A reply is checked when it arrives and written ticks later, so the      *)
(* invariant says of each ask that it names the epoch it will be written   *)
(* under.  Before the recording is added no event moves that epoch; later  *)
(* it moves, and only the comparison in retry_enrich keeps the two alike.  *)
(***************************************************************************)

\* A reply that is in was accepted.
DoneRight(t) == t.at = "done" /\ t.got # None => Accepted(t.got, t.about)

\* No subscription is read before the recording is added.
Unread == state \in {"pending", "activating"} => channel = <<>> /\ reader = "none"

UnknownYet == state = "pending" => known = None
AsksOfKnown == state = "activating" /\ enriching.at # "none" => enriching.about = known
LateAsksOfItsEpoch == late.task.at # "none" => late.task.about = late.epoch

HookInv ==
    /\ PHTypeOK
    /\ RepliesDescribeTheirProcess
    /\ DoneRight(enriching) /\ DoneRight(late.task)
    /\ Unread /\ UnknownYet /\ AsksOfKnown /\ LateAsksOfItsEpoch

-----------------------------------------------------------------------------
(* The values the actions build.                                           *)

LEMMA NoneIsNoLife == None \notin Lives
BY DEF None, Lives

LEMMA NoTaskIsTask == NoTask \in Task /\ NoTask.at = "none"
BY DEF NoTask, Task

LEMMA SpawnedIsTask ==
    ASSUME NEW e \in Lives \cup {None}
    PROVE  /\ Spawned(e) \in Task
           /\ Spawned(e).at = "new" /\ Spawned(e).about = e
BY DEF Spawned, NoTask, Task

LEMMA NoLateIsLate == NoLate \in LateEnrich /\ NoLate.task = NoTask
BY ProbeHookAssumption, NoTaskIsTask DEF NoLate, LateEnrich

LEMMA OwedIsLate ==
    ASSUME NEW e \in Lives \cup {None}
    PROVE  OwedFor(e) \in LateEnrich /\ OwedFor(e).task = NoTask
BY ProbeHookAssumption, NoTaskIsTask DEF OwedFor, LateEnrich

\* A step of an ask keeps what it is about, and a reply that comes was accepted.
LEMMA AskStep ==
    ASSUME life \in Lives, NEW t \in Task, NEW u \in Asked(t)
    PROVE  u \in Task /\ u.about = t.about /\ t.at # "none" /\ DoneRight(u)
<1>1. CASE t.at = "new"
  <2>1. u = Sent(t)
    BY <1>1 DEF Asked
  <2> QED BY <1>1, <2>1 DEF Sent, Task, DoneRight
<1>2. CASE t.at = "sent"
  <2>1. PICK p \in {None} \cup {q \in {t.got} : q # None /\ Accepted(q, t.about)} :
            u = [t EXCEPT !.at = "done", !.got = p]
    BY <1>2 DEF Asked, Replied
  <2> QED BY <1>2, <2>1 DEF Task, DoneRight
<1>3. CASE t.at \notin {"new", "sent"}
  BY <1>3 DEF Asked
<1> QED BY <1>1, <1>2, <1>3

\* A reply written of the process it was read from keeps the property.
LEMMA WriteKeeps ==
    ASSUME RepliesDescribeTheirProcess, UNCHANGED endpoint,
           NEW by, NEW of, Writes(by, of), by # None => Accepted(by, of)
    PROVE  RepliesDescribeTheirProcess'
BY DEF RepliesDescribeTheirProcess, Writes, Accepted

LEMMA WriteTypes ==
    ASSUME told \subseteq [of : Lives \cup {None}, by : Lives],
           NEW by \in Lives \cup {None}, NEW of \in Lives \cup {None}, Writes(by, of)
    PROVE  told' \subseteq [of : Lives \cup {None}, by : Lives]
BY DEF Writes

LEMMA RepliesAreAccepted ==
    ASSUME life \in Lives, NEW e, NEW by \in Replies(e)
    PROVE  by \in Lives \cup {None} /\ (by # None => Accepted(by, e))
BY DEF Replies

-----------------------------------------------------------------------------
(* The steps of the environment and of the tasks.                          *)

LEMMA EnvironmentKeeps ==
    ASSUME HookInv, Replaced \/ Toggles PROVE HookInv'
<1>1. life' \in Lives /\ up' \in BOOLEAN /\ endpoint' = endpoint
      /\ UNCHANGED <<slotVars, tasks, restartVars, pumpState, step, last, told>>
  <2>1. MaxLives \in Nat
    BY ProbeHookAssumption
  <2>2. CASE Replaced
    BY <2>1, <2>2 DEF HookInv, PHTypeOK, Replaced, Elsewhere, Lives
  <2>3. CASE Toggles
    BY <2>3 DEF HookInv, PHTypeOK, Toggles, Elsewhere
  <2> QED BY <2>2, <2>3
<1> QED
  BY <1>1 DEF HookInv, PHTypeOK, RepliesDescribeTheirProcess, DoneRight, Accepted, Unread,
     UnknownYet, AsksOfKnown, LateAsksOfItsEpoch, slotVars, tasks, restartVars, pumpState

LEMMA DetectsKeeps ==
    ASSUME HookInv, Detects PROVE HookInv'
<1>1. detecting' \in Task
  BY DEF HookInv, PHTypeOK, Detects, Sent, Answered, Task
<1> QED
  BY <1>1 DEF HookInv, PHTypeOK, RepliesDescribeTheirProcess, DoneRight, Accepted, Unread,
     UnknownYet, AsksOfKnown, LateAsksOfItsEpoch, Detects, Idle, there, slotVars, restartVars,
     pumpState

LEMMA FirstAskKeeps ==
    ASSUME HookInv, FirstAskRuns PROVE HookInv'
<1>1. /\ enriching' \in Task /\ enriching'.about = enriching.about /\ enriching.at # "none"
      /\ DoneRight(enriching')
  BY AskStep DEF HookInv, PHTypeOK, FirstAskRuns
<1> QED
  BY <1>1 DEF HookInv, PHTypeOK, RepliesDescribeTheirProcess, DoneRight, Accepted, Unread,
     UnknownYet, AsksOfKnown, LateAsksOfItsEpoch, FirstAskRuns, Idle, there, slotVars,
     restartVars, pumpState

LEMMA LateAskKeeps ==
    ASSUME HookInv, LateAskRuns PROVE HookInv'
<1>1. PICK t \in Asked(late.task) : late' = [late EXCEPT !.task = t]
  BY DEF LateAskRuns
<1>2. t \in Task /\ t.about = late.task.about /\ late.task.at # "none" /\ DoneRight(t)
  BY AskStep DEF HookInv, PHTypeOK, LateEnrich
<1>3. late' \in LateEnrich /\ late'.task = t /\ late'.epoch = late.epoch
  BY <1>1, <1>2 DEF HookInv, PHTypeOK, LateEnrich
<1> QED
  BY <1>2, <1>3 DEF HookInv, PHTypeOK, RepliesDescribeTheirProcess, DoneRight, Accepted, Unread,
     UnknownYet, AsksOfKnown, LateAsksOfItsEpoch, LateAskRuns, Idle, there, slotVars,
     restartVars, pumpState

-----------------------------------------------------------------------------
(* The pump.                                                               *)

\* What the pump's steps have in common: they need a reader or an event of
\* one, and say nothing.
LEMMA PumpKeeps ==
    ASSUME HookInv, SendsRow \/ Drops \/ Reconnects \/ IsRefused PROVE HookInv'
<1>1. /\ state \notin {"pending", "activating"}
      /\ UNCHANGED <<there, slotVars, tasks, restartVars, step, last, told>>
  BY DEF HookInv, Unread, SendsRow, Drops, Reconnects, IsRefused, Delivers
<1>2. /\ reader' \in {"none", "reading", "down"} /\ dials' \in Nat
      /\ conn' \in Lives \cup {None}
  BY DEF HookInv, PHTypeOK, SendsRow, Drops, Reconnects, IsRefused
<1>3. channel' \in Seq([kind : {"row", "connected", "refused"}, life : Lives])
  <2>1. CASE Drops
    BY <2>1 DEF HookInv, PHTypeOK, Drops
  <2>2. CASE SendsRow
    BY <2>2 DEF HookInv, PHTypeOK, SendsRow, Delivers
  <2>3. CASE Reconnects
    BY <2>3 DEF HookInv, PHTypeOK, Reconnects, Delivers
  <2>4. CASE IsRefused
    BY <2>4 DEF HookInv, PHTypeOK, IsRefused, Delivers
  <2> QED BY <2>1, <2>2, <2>3, <2>4
<1> QED
  BY <1>1, <1>2, <1>3 DEF HookInv, PHTypeOK, RepliesDescribeTheirProcess, DoneRight, Accepted,
     Unread, UnknownYet, AsksOfKnown, LateAsksOfItsEpoch, there, slotVars, tasks, restartVars

-----------------------------------------------------------------------------
(* The driver.                                                             *)

\* What add_source writes, of the epoch on record.
LEMMA AddsKeeps ==
    ASSUME HookInv, NEW by \in Lives \cup {None}, AddsWith(by),
           by # None => Accepted(by, known), UNCHANGED endpoint
    PROVE  /\ RepliesDescribeTheirProcess'
           /\ told' \subseteq [of : Lives \cup {None}, by : Lives]
           /\ hooked' \in Lives \cup {None} /\ recorded' \in BOOLEAN
           /\ reader' \in {"none", "reading"}
           /\ late' \in LateEnrich
           /\ DoneRight(late'.task)
           /\ late'.task.at # "none" => late'.task.about = late'.epoch
<1>1. known \in Lives \cup {None} /\ late \in LateEnrich
  BY DEF HookInv, PHTypeOK
<1>2. RepliesDescribeTheirProcess'
  BY WriteKeeps DEF HookInv, AddsWith
<1>3. told' \subseteq [of : Lives \cup {None}, by : Lives]
  BY <1>1, WriteTypes DEF HookInv, PHTypeOK, AddsWith
<1>4. OwedFor(known) \in LateEnrich /\ OwedFor(known).task = NoTask
  BY <1>1, OwedIsLate
<1>5. CASE late' = late
  BY <1>1, <1>2, <1>3, <1>5 DEF AddsWith, HookInv, LateAsksOfItsEpoch
<1>6. CASE late' = OwedFor(known)
  BY <1>2, <1>3, <1>4, <1>6, NoTaskIsTask DEF AddsWith, DoneRight
<1> QED BY <1>5, <1>6 DEF AddsWith

LEMMA StartsKeeps ==
    ASSUME HookInv, Starts, step = "start" => state = "active" PROVE HookInv'
<1>1. PICK by \in Replies(known) : AddsWith(by)
  BY DEF Starts
<1>2. by \in Lives \cup {None} /\ (by # None => Accepted(by, known))
  BY <1>1, RepliesAreAccepted DEF HookInv, PHTypeOK
<1>3. /\ UNCHANGED <<there, state, known, named, detecting, enriching, restartVars,
                     conn, dials, channel, last>>
      /\ step' = "idle" /\ state = "active"
  BY DEF Starts
<1> QED
  BY <1>1, <1>2, <1>3, AddsKeeps DEF HookInv, PHTypeOK, DoneRight, Accepted, Unread, UnknownYet,
     AsksOfKnown, LateAsksOfItsEpoch, there, restartVars

LEMMA EpochOfType == ASSUME NEW p \in Lives PROVE EpochOf(p) \in Lives \cup {None}
BY DEF EpochOf

LEMMA AbortedTypes ==
    ASSUME HookInv, Aborted
    PROVE  /\ detecting' = NoTask /\ enriching' = NoTask /\ reader' = "none"
           /\ late' \in LateEnrich /\ late'.task = NoTask
<1>1. late \in LateEnrich
  BY DEF HookInv, PHTypeOK
<1> QED BY <1>1, NoTaskIsTask DEF Aborted, LateEnrich

LEMMA RowsCome ==
    ASSUME HookInv, RowCame PROVE owed' \in Seq([epoch : Lives, row : BOOLEAN])
<1> DEFINE R == [epoch : Lives, row : BOOLEAN]
           f == [i \in DOMAIN owed |-> [owed[i] EXCEPT !.row = TRUE]]
<1>1. owed \in Seq(R)
  BY DEF HookInv, PHTypeOK
<1>2. Len(owed) \in Nat /\ DOMAIN owed = 1..Len(owed) /\ \A i \in 1..Len(owed) : owed[i] \in R
  <2> HIDE DEF R
  <2> QED BY <1>1
<1>3. \A r \in R : [r EXCEPT !.row = TRUE] \in R
  OBVIOUS
<1>4. f \in [1..Len(owed) -> R]
  BY <1>2, <1>3
<1>5. f \in Seq(R)
  BY <1>2, <1>4, SeqDef
<1> QED BY <1>1, <1>5 DEF RowCame

\* Events come of a subscription that is read, so the recording is added.
LEMMA DrainsKeeps ==
    ASSUME HookInv, Drains PROVE HookInv'
<1> DEFINE e == Head(channel)
<1>1. /\ channel # <<>> /\ channel' = Tail(channel)
      /\ UNCHANGED <<there, step, last, told>>
      /\ e.life \in Lives
      /\ channel' \in Seq([kind : {"row", "connected", "refused"}, life : Lives])
      /\ state \notin {"pending", "activating"}
  <2> DEFINE E == [kind : {"row", "connected", "refused"}, life : Lives]
  <2>1. channel # <<>> /\ channel' = Tail(channel) /\ UNCHANGED <<there, step, last, told>>
    BY DEF Drains
  <2>2. channel \in Seq(E)
    BY DEF HookInv, PHTypeOK
  <2>3. Head(channel) \in E /\ Tail(channel) \in Seq(E)
    <3> HIDE DEF E
    <3> QED BY <2>1, <2>2
  <2>4. state \notin {"pending", "activating"}
    BY <2>1 DEF HookInv, Unread
  <2> QED BY <2>1, <2>3, <2>4
<1>2. CASE RowCame
  <2>1. owed' \in Seq([epoch : Lives, row : BOOLEAN])
    BY <1>1, <1>2, RowsCome
  <2> QED
    BY <1>1, <1>2, <2>1 DEF RowCame, HookInv, PHTypeOK, RepliesDescribeTheirProcess, DoneRight,
       Accepted, Unread, UnknownYet, AsksOfKnown, LateAsksOfItsEpoch, there, slotVars, tasks
<1>3. CASE MovesTo(e.life)
  <2>1. known' \in Lives \cup {None} /\ late' = OwedFor(known')
    BY <1>1, <1>3, EpochOfType DEF MovesTo
  <2>2. late' \in LateEnrich /\ late'.task = NoTask
    BY <2>1, OwedIsLate
  <2>3. owed' \in Seq([epoch : Lives, row : BOOLEAN]) /\ asks' \in Nat
    BY <1>3 DEF MovesTo
  <2> QED
    BY <1>1, <1>3, <2>1, <2>2, <2>3, NoTaskIsTask DEF MovesTo, HookInv, PHTypeOK,
       RepliesDescribeTheirProcess, DoneRight, Accepted, Unread, UnknownYet, AsksOfKnown,
       LateAsksOfItsEpoch, there
<1>4. CASE Adopts(e.life)
  <2>1. known' \in Lives \cup {None}
    BY <1>1, <1>4 DEF Adopts, HookInv, PHTypeOK
  <2>2. owed' \in Seq([epoch : Lives, row : BOOLEAN]) /\ asks' \in Nat
    <3>1. [epoch |-> e.life, row |-> FALSE] \in [epoch : Lives, row : BOOLEAN]
      BY <1>1
    <3>2. CASE UNCHANGED restartVars
      BY <3>2 DEF HookInv, PHTypeOK, restartVars
    <3>3. CASE /\ owed' = Append(owed, [epoch |-> e.life, row |-> FALSE])
               /\ asks' = 0
      <4> HIDE DEF e
      <4> QED BY <3>1, <3>3, AppendProperties DEF HookInv, PHTypeOK
    <3> QED BY <1>4, <3>2, <3>3 DEF Adopts
  <2> QED
    BY <1>1, <1>4, <2>1, <2>2 DEF Adopts, HookInv, PHTypeOK, RepliesDescribeTheirProcess,
       DoneRight, Accepted, Unread, UnknownYet, AsksOfKnown, LateAsksOfItsEpoch, there, tasks
<1>5. CASE Refuses
  <2>1. /\ detecting' = NoTask /\ enriching' = NoTask /\ reader' = "none"
        /\ late' \in LateEnrich /\ late'.task = NoTask
    BY <1>5, AbortedTypes DEF Refuses
  <2> QED
    BY <1>1, <1>5, <2>1, NoTaskIsTask DEF Refuses, HookInv, PHTypeOK,
       RepliesDescribeTheirProcess, DoneRight, Accepted, Unread, UnknownYet, AsksOfKnown,
       LateAsksOfItsEpoch, there, restartVars
<1> QED BY <1>2, <1>3, <1>4, <1>5 DEF Drains

LEMMA HasDrainedKeeps ==
    ASSUME HookInv, HasDrained \/ Ticks \/ Finishes PROVE HookInv'
<1>1. /\ UNCHANGED <<there, slotVars, tasks, restartVars, pumpState, told>>
      /\ step' \in {"drain", "restarts"} /\ last' \in BOOLEAN
  BY DEF HookInv, PHTypeOK, HasDrained, Ticks, Finishes
<1> QED
  BY <1>1 DEF HookInv, PHTypeOK, RepliesDescribeTheirProcess, DoneRight, Accepted, Unread,
     UnknownYet, AsksOfKnown, LateAsksOfItsEpoch, there, slotVars, tasks, restartVars, pumpState

LEMMA AppliesRestartsKeeps ==
    ASSUME HookInv, AppliesRestarts PROVE HookInv'
<1>1. /\ RepliesDescribeTheirProcess'
      /\ told' \subseteq [of : Lives \cup {None}, by : Lives]
      /\ owed' \in Seq([epoch : Lives, row : BOOLEAN]) /\ asks' \in Nat
  <2>1. CASE UNCHANGED <<restartVars, told>>
    BY <2>1 DEF HookInv, PHTypeOK, RepliesDescribeTheirProcess, AppliesRestarts, restartVars,
       there
  <2>2. CASE asks' = asks + 1 /\ UNCHANGED <<owed, told>>
    BY <2>2 DEF HookInv, PHTypeOK, RepliesDescribeTheirProcess, AppliesRestarts, there
  <2>3. CASE /\ Due
             /\ \E by \in Replies(Newest) : Writes(by, Newest) /\ owed' = <<>> /\ asks' = 0
    <3> DEFINE R == [epoch : Lives, row : BOOLEAN]
    <3>1. owed \in Seq(R) /\ owed # <<>>
      BY <2>3 DEF Due, HookInv, PHTypeOK
    <3>2. owed[Len(owed)] \in R
      <4> HIDE DEF R
      <4> QED BY <3>1
    <3>3. Newest \in Lives
      BY <3>2 DEF Newest
    <3>4. PICK by \in Replies(Newest) : Writes(by, Newest) /\ owed' = <<>> /\ asks' = 0
      BY <2>3
    <3>5. by \in Lives \cup {None} /\ (by # None => Accepted(by, Newest))
      BY <3>4, RepliesAreAccepted DEF HookInv, PHTypeOK
    <3>6. RepliesDescribeTheirProcess'
      BY <3>4, <3>5, WriteKeeps DEF HookInv, AppliesRestarts, there
    <3>7. told' \subseteq [of : Lives \cup {None}, by : Lives]
      BY <3>3, <3>4, <3>5, WriteTypes DEF HookInv, PHTypeOK
    <3> QED BY <3>4, <3>6, <3>7
  <2> QED BY <2>1, <2>2, <2>3 DEF AppliesRestarts
<1> QED
  BY <1>1 DEF HookInv, PHTypeOK, DoneRight, Accepted, Unread, UnknownYet, AsksOfKnown,
     LateAsksOfItsEpoch, AppliesRestarts, there, slotVars, tasks, pumpState

\* A late reply is written under the epoch it was asked for.
LEMMA OwesKeeps ==
    ASSUME HookInv, Owes, UNCHANGED endpoint
    PROVE  /\ late' \in LateEnrich /\ hooked' \in Lives \cup {None}
           /\ told' \subseteq [of : Lives \cup {None}, by : Lives]
           /\ RepliesDescribeTheirProcess'
           /\ DoneRight(late'.task)
           /\ late'.task.at # "none" => late'.task.about = late'.epoch
<1>1. /\ late \in LateEnrich /\ hooked \in Lives \cup {None} /\ known \in Lives \cup {None}
      /\ told \subseteq [of : Lives \cup {None}, by : Lives]
      /\ DoneRight(late.task) /\ LateAsksOfItsEpoch
  BY DEF HookInv, PHTypeOK
<1>2. CASE UNCHANGED <<late, hooked, told>>
  BY <1>1, <1>2 DEF HookInv, RepliesDescribeTheirProcess, LateAsksOfItsEpoch
<1>3. CASE GivesUp
  BY <1>1, <1>3, NoLateIsLate, NoTaskIsTask
     DEF GivesUp, HookInv, RepliesDescribeTheirProcess, DoneRight
<1>4. CASE /\ late.retries < EnrichRetries
           /\ late' = [late EXCEPT !.retries = @ + 1, !.task = Spawned(late.epoch)]
           /\ UNCHANGED <<hooked, told>>
  <2>1. EnrichRetries \in Nat
    BY ProbeHookAssumption
  <2>2. late.epoch \in Lives \cup {None} /\ late.retries + 1 \in 0..EnrichRetries
    BY <1>1, <1>4, <2>1 DEF LateEnrich
  <2>3. /\ Spawned(late.epoch) \in Task
        /\ Spawned(late.epoch).at = "new" /\ Spawned(late.epoch).about = late.epoch
    BY <2>2, SpawnedIsTask
  <2>4. /\ late' \in LateEnrich /\ late'.task = Spawned(late.epoch)
        /\ late'.epoch = late.epoch
    BY <1>1, <1>4, <2>2, <2>3 DEF LateEnrich
  <2> QED BY <1>1, <1>4, <2>3, <2>4 DEF HookInv, RepliesDescribeTheirProcess, DoneRight
<1>5. CASE late' = [late EXCEPT !.task = NoTask] /\ UNCHANGED <<hooked, told>>
  <2>1. late' \in LateEnrich /\ late'.task = NoTask
    BY <1>1, <1>5, NoTaskIsTask DEF LateEnrich
  <2> QED
    BY <1>1, <1>5, <2>1, NoTaskIsTask DEF HookInv, RepliesDescribeTheirProcess, DoneRight
<1>6. CASE /\ ~IsStale /\ late.task.at = "done" /\ late.task.got # None
           /\ late' = NoLate /\ hooked' = late.task.got /\ Writes(late.task.got, known)
  <2>1. late.task.about = known /\ late.task.got \in Lives
    BY <1>1, <1>6 DEF IsStale, LateAsksOfItsEpoch, LateEnrich, Task
  <2>2. Accepted(late.task.got, known)
    BY <1>1, <1>6, <2>1 DEF DoneRight
  <2>3. RepliesDescribeTheirProcess'
    BY <1>6, <2>2, WriteKeeps DEF HookInv
  <2>4. told' \subseteq [of : Lives \cup {None}, by : Lives]
    BY <1>1, <1>6, <2>1, WriteTypes
  <2> QED BY <1>6, <2>1, <2>3, <2>4, NoLateIsLate, NoTaskIsTask DEF DoneRight
<1>7. EnrichRetries \in Nat /\ late.retries \in Nat
  BY <1>1, ProbeHookAssumption DEF LateEnrich
<1> QED BY <1>2, <1>3, <1>4, <1>5, <1>6, <1>7 DEF Owes

LEMMA RetriesKeeps ==
    ASSUME HookInv, RetriesEnrich \/ Ends PROVE HookInv'
<1>1. /\ Owes
      /\ UNCHANGED <<there, state, recorded, known, named, restartVars, conn, dials,
                     channel, last>>
      /\ step' \in {"activate", "stopped"}
      /\ reader' \in {reader, "none"}
      /\ enriching' = enriching \/ enriching' = NoTask
      /\ detecting' \in Task /\ enriching' \in Task
  BY NoTaskIsTask DEF RetriesEnrich, Ends, pumpState, HookInv, PHTypeOK
<1>2. /\ late' \in LateEnrich /\ hooked' \in Lives \cup {None}
      /\ told' \subseteq [of : Lives \cup {None}, by : Lives]
      /\ RepliesDescribeTheirProcess'
      /\ DoneRight(late'.task)
      /\ late'.task.at # "none" => late'.task.about = late'.epoch
  BY <1>1, OwesKeeps DEF there
<1> QED
  BY <1>1, <1>2, NoTaskIsTask DEF HookInv, PHTypeOK, DoneRight, Accepted, Unread, UnknownYet,
     AsksOfKnown, LateAsksOfItsEpoch, there, restartVars

LEMMA ActivatesKeeps ==
    ASSUME HookInv, Activates PROVE HookInv'
<1>1. UNCHANGED <<there, restartVars, dials, channel, last>> /\ step' = "idle"
  BY DEF Activates
<1>2. None \in Lives \cup {None} /\ Spawned(None) \in Task /\ Spawned(None).at = "new"
      /\ Spawned(None).about = None
  BY SpawnedIsTask
<1>3. CASE detecting' \in Task /\ UNCHANGED <<slotVars, enriching, late, told, conn, reader>>
  BY <1>1, <1>3 DEF HookInv, PHTypeOK, RepliesDescribeTheirProcess, DoneRight, Accepted, Unread,
     UnknownYet, AsksOfKnown, LateAsksOfItsEpoch, there, slotVars, restartVars
<1>4. CASE Refuses /\ UNCHANGED told
  <2>1. /\ detecting' = NoTask /\ enriching' = NoTask /\ reader' = "none"
        /\ late' \in LateEnrich /\ late'.task = NoTask
    BY <1>4, AbortedTypes DEF Refuses
  <2>2. /\ UNCHANGED <<recorded, known, named, hooked, restartVars, conn, dials, told>>
        /\ state' = "refused"
    BY <1>4 DEF Refuses
  <2> QED
    BY <1>1, <2>1, <2>2, NoTaskIsTask DEF HookInv, PHTypeOK, RepliesDescribeTheirProcess,
       DoneRight, Accepted, Unread, UnknownYet, AsksOfKnown, LateAsksOfItsEpoch, there, restartVars
<1>5. CASE /\ state = "pending"
           /\ state' = "activating" /\ detecting' = NoTask /\ enriching' = Spawned(None)
           /\ UNCHANGED <<recorded, known, named, hooked, late, told, conn, reader>>
  BY <1>1, <1>2, <1>5, NoTaskIsTask DEF HookInv, PHTypeOK, RepliesDescribeTheirProcess,
     DoneRight, Accepted, Unread, UnknownYet, AsksOfKnown, LateAsksOfItsEpoch, there, restartVars
<1>6. CASE /\ state = "pending" /\ detecting.got # None
           /\ conn' = detecting.got
           /\ known' = EpochOf(conn')
           /\ state' = "activating" /\ detecting' = NoTask /\ enriching' = Spawned(known')
           /\ UNCHANGED <<recorded, hooked, late, told, reader>>
  <2>1. conn' \in Lives
    BY <1>6 DEF HookInv, PHTypeOK, Task
  <2>2. EpochOf(conn') \in Lives \cup {None}
    BY <2>1, EpochOfType
  <2>3. known' \in Lives \cup {None}
    BY <1>6, <2>2
  <2>4. enriching' \in Task /\ enriching'.at = "new" /\ enriching'.about = known'
    BY <1>6, <2>3, SpawnedIsTask
  <2> QED
    BY <1>1, <1>6, <2>1, <2>3, <2>4, NoTaskIsTask DEF HookInv, PHTypeOK,
       RepliesDescribeTheirProcess, DoneRight, Accepted, Unread, UnknownYet, AsksOfKnown,
       LateAsksOfItsEpoch, there, restartVars
<1>7. CASE /\ state = "activating" /\ enriching.at = "done"
           /\ state' = "active" /\ enriching' = NoTask
           /\ AddsWith(enriching.got)
           /\ UNCHANGED <<known, named, detecting, conn>>
  <2>1. enriching.got \in Lives \cup {None} /\ enriching.about = known
    BY <1>7 DEF HookInv, PHTypeOK, Task, AsksOfKnown
  <2>2. enriching.got # None => Accepted(enriching.got, known)
    BY <1>7, <2>1 DEF HookInv, DoneRight
  <2>3. /\ RepliesDescribeTheirProcess'
        /\ told' \subseteq [of : Lives \cup {None}, by : Lives]
        /\ hooked' \in Lives \cup {None} /\ recorded' \in BOOLEAN
        /\ reader' \in {"none", "reading"}
        /\ late' \in LateEnrich
        /\ DoneRight(late'.task)
        /\ late'.task.at # "none" => late'.task.about = late'.epoch
    BY <1>1, <1>7, <2>1, <2>2, AddsKeeps DEF there
  <2> QED
    BY <1>1, <1>7, <2>3, NoTaskIsTask DEF HookInv, PHTypeOK, DoneRight, Accepted, Unread,
       UnknownYet, AsksOfKnown, LateAsksOfItsEpoch, there, restartVars
<1>8. CASE UNCHANGED <<slotVars, tasks, told, conn, reader>>
  <2>1. detecting' \in Task /\ UNCHANGED <<slotVars, enriching, late, told, conn, reader>>
    BY <1>8 DEF tasks, HookInv, PHTypeOK
  <2> QED BY <1>3, <2>1
<1>9. detecting \in Task
  BY DEF HookInv, PHTypeOK
<1> QED
  BY <1>2, <1>3, <1>4, <1>5, <1>6, <1>7, <1>8, <1>9 DEF Activates, WhileDetecting

-----------------------------------------------------------------------------
\* Startup is before the first tick.
StartsActive == step = "start" => state = "active"

LEMMA HookInit == PHInit => HookInv /\ StartsActive
<1> SUFFICES ASSUME PHInit PROVE HookInv /\ StartsActive
  OBVIOUS
<1>1. MaxLives \in Nat \ {0}
  BY ProbeHookAssumption
<1>2. 1 \in Lives /\ life = 1
  BY <1>1 DEF PHInit, Lives
<1>3. EpochOf(1) \in Lives \cup {None}
  BY <1>2, EpochOfType
<1>4. known \in Lives \cup {None} /\ conn \in Lives \cup {None}
  BY <1>2, <1>3 DEF PHInit
<1>5. owed \in Seq([epoch : Lives, row : BOOLEAN])
      /\ channel \in Seq([kind : {"row", "connected", "refused"}, life : Lives])
  BY DEF PHInit
<1> QED
  BY <1>2, <1>4, <1>5, NoTaskIsTask, NoLateIsLate DEF PHInit, HookInv, PHTypeOK, StartsActive,
     RepliesDescribeTheirProcess, DoneRight, Unread, UnknownYet, AsksOfKnown, LateAsksOfItsEpoch

LEMMA StartsActiveKept == StartsActive /\ [PHNext]_phvars => StartsActive'
BY DEF StartsActive, PHNext, phvars, Replaced, Toggles, Elsewhere, TasksRun, Detects,
   FirstAskRuns, LateAskRuns, Idle, SendsRow, Drops, Reconnects, IsRefused, Delivers, Ticks,
   Works, Starts, Drains, HasDrained, AppliesRestarts, RetriesEnrich, Ends, Activates, Finishes,
   slotVars

LEMMA HookStep == HookInv /\ StartsActive /\ [PHNext]_phvars => HookInv'
<1> SUFFICES ASSUME HookInv, StartsActive, [PHNext]_phvars PROVE HookInv'
  OBVIOUS
<1>1. CASE Replaced \/ Toggles
  BY <1>1, EnvironmentKeeps
<1>2. CASE TasksRun
  BY <1>2, DetectsKeeps, FirstAskKeeps, LateAskKeeps DEF TasksRun
<1>3. CASE SendsRow \/ Drops \/ Reconnects \/ IsRefused
  BY <1>3, PumpKeeps
<1>4. CASE HasDrained \/ Ticks \/ Finishes
  BY <1>4, HasDrainedKeeps
<1>5. CASE Starts
  BY <1>5, StartsKeeps DEF StartsActive
<1>6. CASE Drains
  BY <1>6, DrainsKeeps
<1>7. CASE AppliesRestarts
  BY <1>7, AppliesRestartsKeeps
<1>8. CASE RetriesEnrich \/ Ends
  BY <1>8, RetriesKeeps
<1>9. CASE Activates
  BY <1>9, ActivatesKeeps
<1>10. CASE UNCHANGED phvars
  BY <1>10 DEF phvars, HookInv, PHTypeOK, RepliesDescribeTheirProcess, DoneRight, Accepted,
     Unread, UnknownYet, AsksOfKnown, LateAsksOfItsEpoch, there, slotVars, tasks, restartVars,
     pumpState
<1> QED
  BY <1>1, <1>2, <1>3, <1>4, <1>5, <1>6, <1>7, <1>8, <1>9, <1>10 DEF PHNext, Works

\* Where the probe hook says which epoch it read, whatever process answers
\* whichever ask, no recording is given a reply of another process than the
\* one the entry is about (probe::accept, Driver::retry_enrich, new_source).
THEOREM RepliesDescribe == PHSpec => []RepliesDescribeTheirProcess
<1>1. HookInv => RepliesDescribeTheirProcess
  BY DEF HookInv
<1> QED BY <1>1, HookInit, StartsActiveKept, HookStep, PTL DEF PHSpec

-----------------------------------------------------------------------------
(***************************************************************************)
(* Theorems about the driver's passes, for any sources, interval, timeout, *)
(* bound of the wait, clock corrections and number of commands.            *)
(*                                                                         *)
(* The inductive invariant DPInv has these parts, beside the types.  InTurn*)
(* counts the commands before a stop and the ticks since.  Dated is about  *)
(* the pass in progress, or the last one: what it read is no older than    *)
(* its stamp, and a stop that its stamp is not before was asked no later   *)
(* than it began, while the wall clock is not set back.  OnTime and Heard  *)
(* are about streams: when a punctual producer sent its last frame, and    *)
(* that one sent after the wait began covers the stop.                     *)
(***************************************************************************)
Command == [kind : {"patch", "exit", "grace", "now"}, wall : Int, at : Int]
Frame == [is : {"none", "rows", "empty"}, wall : Int]
Arrival == [src : Streamed, frame : Frame]

Typed ==
    /\ DPTypeOK
    /\ commands \in Seq(Command) /\ stop \in Command \cup {NoStop}
    /\ begun \in [ts : Int, wall : Int] /\ lastPass \in Int
    /\ scraping \in [Scraped -> [at : {"none", "asked", "read", "answered"}, read : Int]]
    /\ newest \in [Passed -> [wall : Int, read : Int]]
    /\ lastFrame \in [Streamed -> Frame] /\ flight \in [Streamed -> Frame]
    /\ sentAt \in [Streamed -> Nat] /\ arrived \in Seq(Arrival)
    /\ queued \in [ahead : Nat, ticks : Nat] /\ corrections \in Nat
    /\ HostWall >= 0

\* A stop is the last command, and of the ticks since it was asked for, all
\* but one took a command that was before it.
StopWaits == \E i \in DOMAIN commands : IsStop(commands[i])
InTurn ==
    /\ \A i \in DOMAIN commands : IsStop(commands[i]) => i = Len(commands)
    /\ stop # NoStop => ~StopWaits
    /\ StopWaits => queued.ticks + Len(commands) <= queued.ahead + IF at = "idle" THEN 1 ELSE 2

InPass == begun # NoPass
\* The stop that waits in the channel, or was taken.
Stopping(c) ==
    /\ c.kind \in {"exit", "grace", "now"}
    /\ c = stop \/ \E i \in DOMAIN commands : c = commands[i]
\* What succeeded in the last pass was read at or after this time.
Reaches(wall, read) == \A s \in fresh : newest[s].wall >= wall /\ newest[s].read >= read

Where ==
    /\ at = "idle" => ~InPass
    /\ at = "scraping" => InPass
    /\ at \in {"local", "drain"} /\ stop = NoStop => InPass
    /\ at = "grace" => stop # NoStop
    /\ stop.kind = "exit" => at \in {"scraping", "local", "await", "drain", "stopped"}
    /\ stop # NoStop => at # "idle"
    /\ at = "await" => stop.kind = "exit"

Dated ==
    /\ begun.ts <= clock /\ begun.wall <= HostWall /\ begun.ts >= -1
    /\ InPass => begun.wall <= begun.ts + offset
    /\ \A s \in Scraped :
          scraping[s].at \in {"read", "answered"} => scraping[s].read >= begun.ts
    /\ InPass => Reaches(begun.wall, begun.ts)
    /\ ~InPass /\ stop = NoStop => Reaches(lastPass, lastPass - offset)
    /\ \A c \in Command : Stopping(c) =>
          /\ c.wall <= HostWall /\ c.at <= clock
          /\ InPass /\ begun.wall >= c.wall => begun.ts >= c.at
          /\ ~InPass /\ stop = NoStop /\ lastPass >= c.wall => Reaches(c.wall, c.at)
    /\ stop.kind = "exit" =>
          /\ at \in {"scraping", "local"} =>
                InPass /\ begun.ts >= stop.at /\ begun.wall >= stop.wall
          /\ at \in {"await", "drain", "stopped"} => Reaches(stop.wall, stop.at)

\* A punctual producer's frames follow each other within an interval.
OnTime ==
    /\ \A s \in Streamed : sentAt[s] <= clock
    /\ punctual => \A s \in Streamed \cap recording :
          clock <= sentAt[s] + IF flight[s] = NoFrame THEN Served ELSE Delay

\* The newest frame of a source that arrived covers the stop, or will once
\* it is taken.
Good(f) == f.is = "empty" \/ (f.is = "rows" /\ f.wall >= stop.wall)
NewestCovers(s) ==
    /\ \A i \in DOMAIN arrived :
          /\ arrived[i].src = s
          /\ \A j \in DOMAIN arrived : j > i => arrived[j].src # s
          => Good(arrived[i].frame)
    /\ (\A i \in DOMAIN arrived : arrived[i].src # s) => Covers(lastFrame[s])
Began == deadline - LongestWait

Heard ==
    /\ \A s \in Streamed : flight[s] # NoFrame => flight[s].is # "none"
    /\ \A i \in DOMAIN arrived : arrived[i].frame.is # "none"
    /\ at = "await" => \A s \in Streamed :
          /\ flight[s].is = "rows" /\ sentAt[s] > Began => flight[s].wall >= stop.wall
          /\ punctual /\ s \in recording
             /\ sentAt[s] > Began + (IF flight[s] = NoFrame THEN 0 ELSE Served)
             => NewestCovers(s)
    /\ punctual => ended # "out of time"

DPInv == Typed /\ InTurn /\ Where /\ (~back => Dated /\ Heard) /\ OnTime
-----------------------------------------------------------------------------
(* Types.                                                                  *)

LEMMA Consts ==
    /\ Every \in Nat \ {0} /\ Timeout \in Nat \ {0} /\ Served \in Nat \ {0}
    /\ StreamRoom \in Nat \ {0} /\ Bound \in Nat /\ Delay \in Nat
    /\ Delay < Timeout /\ Delay <= Served
    /\ MaxClock \in Nat /\ MaxPatches \in Nat /\ MaxCorrections \in Nat
    /\ Stops \subseteq {"exit", "grace", "now"} /\ Corrections \subseteq Int
    /\ Starting \subseteq SUBSET Sources /\ LateSources \subseteq Scraped \cup Streamed
  BY DPAssumption

LEMMA WaitIsNat == LongestWait \in Nat /\ LongestWait >= Served + Timeout
  BY Consts DEF LongestWait

LEMMA NextDueIsNat == ASSUME clock \in Nat PROVE NextDue \in Nat
<1>1. clock % Every \in 0..(Every - 1) /\ clock % Every <= clock
  BY Consts, SMT
<1> QED  BY <1>1, Consts DEF NextDue

LEMMA TypedClocks ==
    ASSUME Typed
    PROVE  /\ clock \in Nat /\ clock <= MaxClock /\ offset \in Int
           /\ due \in Nat /\ deadline \in Nat
           /\ HostWall \in Int /\ HostWall >= 0 /\ HostWall = clock + offset
<1>1. clock \in 0..MaxClock /\ offset \in Int /\ due \in Nat /\ deadline \in Nat
  BY DEF Typed, DPTypeOK
<1>2. HostWall >= 0
  BY DEF Typed
<1> QED  BY <1>1, <1>2, Consts DEF HostWall

LEMMA TypedInit == DPInit => Typed
<1> SUFFICES ASSUME DPInit PROVE Typed  OBVIOUS
<1>0. /\ recording \subseteq Sources /\ fresh \subseteq Passed
      /\ DOMAIN newest = Passed /\ DOMAIN lastFrame = Streamed /\ DOMAIN scraping = Scraped
  BY Consts DEF DPInit
<1>a. clock \in 0..MaxClock /\ offset \in Int /\ due \in Nat /\ deadline \in Nat
  BY Consts DEF DPInit
<1>1. DPTypeOK
  BY <1>0, <1>a DEF DPInit, DPTypeOK
<1>2. commands \in Seq(Command) /\ arrived \in Seq(Arrival)
  BY DEF DPInit
<1>3. stop \in Command \cup {NoStop} /\ queued \in [ahead : Nat, ticks : Nat]
      /\ lastPass \in Int /\ corrections \in Nat
  BY DEF DPInit
<1>4. begun \in [ts : Int, wall : Int]
  BY DEF DPInit, NoPass
<1>5. scraping \in [Scraped -> [at : {"none", "asked", "read", "answered"}, read : Int]]
  BY DEF DPInit, NoScrape
<1>6. newest \in [Passed -> [wall : Int, read : Int]]
  BY DEF DPInit, Never
<1>7. lastFrame \in [Streamed -> Frame] /\ flight \in [Streamed -> Frame]
      /\ sentAt \in [Streamed -> Nat]
  BY DEF DPInit, NoFrame, Frame
<1>8. HostWall >= 0
  BY DEF DPInit, HostWall
<1> QED  BY <1>1, <1>2, <1>3, <1>4, <1>5, <1>6, <1>7, <1>8 DEF Typed

LEMMA CommandTypes ==
    ASSUME commands \in Seq(Command), commands # <<>>
    PROVE  /\ Head(commands) \in Command /\ Tail(commands) \in Seq(Command)
           /\ Len(Tail(commands)) = Len(commands) - 1
           /\ \A i \in DOMAIN Tail(commands) :
                 i + 1 \in DOMAIN commands /\ Tail(commands)[i] = commands[i + 1]
           /\ Head(commands) = commands[1] /\ 1 \in DOMAIN commands
           /\ Len(commands) \in Nat
  BY HeadTailProperties, LenProperties, EmptySeq

LEMMA ArrivalTypes ==
    ASSUME arrived \in Seq(Arrival), arrived # <<>>
    PROVE  /\ Head(arrived) \in Arrival /\ Tail(arrived) \in Seq(Arrival)
           /\ Len(Tail(arrived)) = Len(arrived) - 1
           /\ \A i \in DOMAIN Tail(arrived) :
                 i + 1 \in DOMAIN arrived /\ Tail(arrived)[i] = arrived[i + 1]
           /\ Head(arrived) = arrived[1] /\ 1 \in DOMAIN arrived
           /\ DOMAIN arrived = 1..Len(arrived) /\ Len(arrived) \in Nat
           /\ DOMAIN Tail(arrived) = 1..(Len(arrived) - 1)
           /\ Head(arrived).src \in Streamed /\ Head(arrived).frame \in Frame
<1>1. \A a \in Arrival : a.src \in Streamed /\ a.frame \in Frame
  BY DEF Arrival
<1> QED  BY <1>1, HeadTailProperties, LenProperties, EmptySeq

LEMMA TakenFrameTypes ==
    ASSUME Typed, TakesFrame
    PROVE  /\ arrived' \in Seq(Arrival) /\ lastFrame' \in [Streamed -> Frame]
           /\ clock' = clock /\ offset' = offset
<1>1. /\ arrived' = Tail(arrived) /\ arrived # <<>> /\ arrived \in Seq(Arrival)
      /\ clock' = clock /\ offset' = offset
      /\ lastFrame \in [Streamed -> Frame]
  BY DEF TakesFrame, Typed, clocks
<1> DEFINE h == Head(arrived)
           new == IF h.frame.is = "rows" THEN h.frame ELSE [h.frame EXCEPT !.wall = HostWall]
<1>2. lastFrame' = [lastFrame EXCEPT ![h.src] = new]
  BY DEF TakesFrame
<1>3. h.src \in Streamed /\ h.frame \in Frame
  BY <1>1, ArrivalTypes
<1>4. new \in Frame
  <2> HostWall \in Int
    BY TypedClocks
  <2> HIDE DEF h
  <2> QED  BY <1>3 DEF Frame
<1> QED  BY <1>1, <1>2, <1>3, <1>4, ArrivalTypes

LEMMA BeginsTypes ==
    ASSUME Typed, Begins
    PROVE  /\ begun' \in [ts : Int, wall : Int] /\ fresh' = {}
           /\ scraping' \in [Scraped -> [at : {"none", "asked", "read", "answered"}, read : Int]]
<1>1. clock \in Int /\ HostWall \in Int
  BY TypedClocks
<1>2. NoScrape \in [at : {"none", "asked", "read", "answered"}, read : Int]
      /\ [NoScrape EXCEPT !.at = "asked"] \in [at : {"none", "asked", "read", "answered"}, read : Int]
  BY DEF NoScrape
<1> QED  BY <1>1, <1>2 DEF Begins

\* What a command taken, or none, leaves of the types it touches.
LEMMA TakesTypes ==
    ASSUME Typed, NEW prev \in Int,
           Takes(prev) \/ (/\ at' = "idle" /\ begun' = NoPass
                           /\ UNCHANGED <<commands, scraping, fresh, tails>>)
    PROVE  /\ commands' \in Seq(Command) /\ stop' \in Command \cup {NoStop}
           /\ begun' \in [ts : Int, wall : Int]
           /\ scraping' \in [Scraped -> [at : {"none", "asked", "read", "answered"}, read : Int]]
           /\ fresh' \subseteq Passed /\ deadline' \in Nat /\ ended' = ended
           /\ at' \in {"idle", "scraping", "local", "await", "grace"}
<1> DEFINE Rest == /\ commands \in Seq(Command) /\ stop \in Command \cup {NoStop}
                   /\ begun \in [ts : Int, wall : Int]
                   /\ scraping \in [Scraped -> [at : {"none", "asked", "read", "answered"}, read : Int]]
                   /\ fresh \subseteq Passed /\ deadline \in Nat
<1>1. Rest /\ clock \in Nat
  BY TypedClocks DEF Typed, DPTypeOK
<1>2. NoPass \in [ts : Int, wall : Int]
  BY DEF NoPass
<1>3. CASE /\ at' = "idle" /\ begun' = NoPass
           /\ UNCHANGED <<commands, scraping, fresh, tails>>
  BY <1>1, <1>2, <1>3 DEF tails
<1>4. CASE Takes(prev)
  <2>1. commands' \in Seq(Command) /\ Head(commands) \in Command
    BY <1>1, <1>4, CommandTypes DEF Takes
  <2>2. CASE ~IsStop(Head(commands))
    BY <1>1, <1>2, <1>4, <2>1, <2>2 DEF Takes, tails
  <2>3. CASE IsStop(Head(commands))
    <3> DEFINE c == Head(commands)
    <3>1. TakesStop(c, prev)
      BY <1>4, <2>3 DEF Takes
    <3>2. clock + LongestWait \in Nat
      BY <1>1, WaitIsNat
    <3>3. Begins => /\ begun' \in [ts : Int, wall : Int] /\ fresh' = {}
                    /\ scraping' \in [Scraped -> [at : {"none", "asked", "read", "answered"}, read : Int]]
      BY BeginsTypes
    <3>4. c \in Command
      BY <2>1
    <3> HIDE DEF c
    <3> QED  BY <1>1, <1>2, <2>1, <3>1, <3>2, <3>3, <3>4 DEF TakesStop
  <2> QED  BY <2>2, <2>3
<1> QED  BY <1>3, <1>4

LEMMA TypedTime == ASSUME Typed, Elapses \/ Corrected PROVE Typed'
<1>1. CASE Elapses
  <2>1. clock' \in 0..MaxClock /\ HostWall' >= 0
    BY <1>1, TypedClocks, Consts DEF Elapses, HostWall
  <2> QED  BY <1>1, <2>1 DEF Elapses, Typed, DPTypeOK
<1>2. CASE Corrected
  <2>1. PICK c \in Corrections : HostWall + c >= 0 /\ offset' = offset + c /\ back' = (back \/ c < 0)
    BY <1>2 DEF Corrected
  <2>2. offset' \in Int /\ HostWall' >= 0
    BY <1>2, <2>1, TypedClocks, Consts DEF HostWall, Corrected
  <2>3. corrections' \in Nat /\ back \in BOOLEAN
    <3>1. corrections' = corrections + 1 /\ corrections \in Nat /\ back \in BOOLEAN
      BY <1>2 DEF Corrected, Typed, DPTypeOK
    <3> QED  BY <3>1
  <2>4. back' \in BOOLEAN
    BY <2>1, <2>3
  <2> QED  BY <1>2, <2>2, <2>3, <2>4 DEF Corrected, Typed, DPTypeOK
<1> QED  BY <1>1, <1>2

LEMMA TypedCaller == ASSUME Typed, AsksPatch \/ AsksStop \/ Cancels PROVE Typed'
<1>1. ASSUME NEW c \in Command, Ask(c)
      PROVE  commands' \in Seq(Command) /\ Len(commands') \in Nat
             /\ Len(commands) \in Nat
  <2>1. commands \in Seq(Command) /\ commands' = Append(commands, c)
    BY <1>1 DEF Typed, Ask
  <2> QED  BY <2>1, AppendProperties, LenProperties
<1>2. CASE AsksPatch
  <2> DEFINE c == [kind |-> "patch", wall |-> 0, at |-> 0]
  <2>1. c \in Command /\ Ask(c) /\ queued' = queued
    BY <1>2 DEF Command, AsksPatch
  <2> HIDE DEF c
  <2>2. commands' \in Seq(Command)
    BY <1>1, <2>1
  <2> QED  BY <2>1, <2>2 DEF Typed, DPTypeOK, Ask, clocks, producers, tails, HostWall
<1>3. CASE AsksStop
  <2>1. PICK k \in Stops : Ask([kind |-> k, wall |-> HostWall, at |-> clock])
    BY <1>3 DEF AsksStop
  <2> DEFINE c == [kind |-> k, wall |-> HostWall, at |-> clock]
  <2>2. c \in Command /\ Ask(c)
    BY <2>1, Consts, TypedClocks DEF Command
  <2> HIDE DEF c
  <2>3. commands' \in Seq(Command) /\ queued' \in [ahead : Nat, ticks : Nat]
    BY <1>1, <1>3, <2>2 DEF AsksStop
  <2> QED  BY <2>2, <2>3 DEF Typed, DPTypeOK, Ask, clocks, producers, tails, HostWall
<1>4. CASE Cancels
  BY <1>4 DEF Cancels, Typed, DPTypeOK, clocks, producers, HostWall
<1> QED  BY <1>2, <1>3, <1>4

LEMMA TypedStreams ==
    ASSUME Typed, NEW s \in Streamed, Serves(s) \/ FrameArrives(s)
    PROVE  Typed'
<1>1. CASE Serves(s)
  <2>1. PICK f \in Frames : flight' = [flight EXCEPT ![s] = f]
    BY <1>1 DEF Serves
  <2>2. f \in Frame
    <3> HostWall \in Int
      BY TypedClocks
    <3>1. CASE f = [NoFrame EXCEPT !.is = "rows", !.wall = HostWall]
      <4>1. f = [is |-> "rows", wall |-> HostWall]
        BY <3>1 DEF NoFrame
      <4> QED  BY <4>1 DEF Frame
    <3>2. CASE f = [NoFrame EXCEPT !.is = "empty"]
      BY <3>2 DEF NoFrame, Frame
    <3> QED  BY <3>1, <3>2 DEF Frames
  <2>3. flight' \in [Streamed -> Frame] /\ sentAt' \in [Streamed -> Nat]
    BY <1>1, <2>1, <2>2, TypedClocks DEF Serves, Typed
  <2> QED  BY <1>1, <2>3 DEF Serves, Typed, DPTypeOK, clocks, tails, HostWall
<1>2. CASE FrameArrives(s)
  <2> DEFINE a == [src |-> s, frame |-> flight[s]]
  <2>1. flight[s] \in Frame /\ NoFrame \in Frame
    BY DEF Typed, Frame, NoFrame
  <2>2. a \in Arrival
    BY <2>1 DEF Arrival
  <2>3. arrived' = Append(arrived, a) /\ arrived \in Seq(Arrival)
    BY <1>2 DEF FrameArrives, Typed
  <2> HIDE DEF a
  <2>4. arrived' \in Seq(Arrival) /\ flight' \in [Streamed -> Frame]
    BY <1>2, <2>1, <2>2, <2>3, AppendProperties DEF FrameArrives, Typed
  <2> QED  BY <1>2, <2>4 DEF FrameArrives, Typed, DPTypeOK, clocks, tails, HostWall
<1> QED  BY <1>1, <1>2

LEMMA TypedPass ==
    ASSUME Typed, TickFires \/ StagesScrapes \/ LocalPasses
                  \/ \E s \in Scraped : Scrapes(s)
    PROVE  Typed'
<1>1. CASE TickFires
  <2>1. /\ begun' \in [ts : Int, wall : Int] /\ fresh' = {}
        /\ scraping' \in [Scraped -> [at : {"none", "asked", "read", "answered"}, read : Int]]
    BY <1>1, BeginsTypes DEF TickFires
  <2>2. due' \in Nat
    BY <1>1, NextDueIsNat, TypedClocks DEF TickFires
  <2>3. queued' \in [ahead : Nat, ticks : Nat]
    <3>1. queued \in [ahead : Nat, ticks : Nat] /\ queued' = [queued EXCEPT !.ticks = @ + 1]
      BY <1>1 DEF TickFires, Typed
    <3> QED  BY <3>1
  <2>4. DOMAIN scraping' = Scraped /\ HostWall' = HostWall
    BY <1>1, <2>1 DEF TickFires, clocks, HostWall
  <2> QED  BY <1>1, <2>1, <2>2, <2>3, <2>4
           DEF TickFires, Typed, DPTypeOK, clocks, producers, tails
<1>2. CASE StagesScrapes
  <2>1. newest' \in [Passed -> [wall : Int, read : Int]] /\ fresh' \subseteq Passed
    BY <1>2 DEF StagesScrapes, Typed, DPTypeOK, Passed
  <2>2. scraping' \in [Scraped -> [at : {"none", "asked", "read", "answered"}, read : Int]]
    BY <1>2 DEF StagesScrapes, NoScrape
  <2>3. DOMAIN scraping' = Scraped /\ DOMAIN newest' = Passed /\ HostWall' = HostWall
    BY <1>2, <2>1, <2>2 DEF StagesScrapes, clocks, HostWall
  <2> QED  BY <1>2, <2>1, <2>2, <2>3
           DEF StagesScrapes, Typed, DPTypeOK, clocks, producers, tails
<1>3. CASE LocalPasses
  <2>1. newest' \in [Passed -> [wall : Int, read : Int]] /\ fresh' \subseteq Passed
    <3>1. PICK took \in SUBSET {s \in Local \cap recording : clock > newest[s].read} :
             /\ newest' = [s \in Passed |->
                  IF s \in took THEN [wall |-> HostWall, read |-> clock] ELSE newest[s]]
             /\ fresh' = fresh \cup took
      BY <1>3 DEF LocalPasses
    <3>2. took \subseteq Passed /\ fresh \subseteq Passed
      BY <3>1 DEF Typed, DPTypeOK, Passed
    <3>3. [wall |-> HostWall, read |-> clock] \in [wall : Int, read : Int]
      BY TypedClocks
    <3> QED  BY <3>1, <3>2, <3>3 DEF Typed
  <2>2. deadline' \in Nat /\ at' \in {"await", "drain"}
    BY <1>3, TypedClocks, WaitIsNat DEF LocalPasses
  <2>3. DOMAIN newest' = Passed /\ HostWall' = HostWall
    BY <1>3, <2>1 DEF LocalPasses, clocks, HostWall
  <2> QED  BY <1>3, <2>1, <2>2, <2>3
           DEF LocalPasses, Typed, DPTypeOK, clocks, producers
<1>4. ASSUME NEW s \in Scraped, Scrapes(s) PROVE Typed'
  <2>1. scraping' \in [Scraped -> [at : {"none", "asked", "read", "answered"}, read : Int]]
    <3> clock \in Int /\ NoScrape \in [at : {"none", "asked", "read", "answered"}, read : Int]
      BY TypedClocks DEF NoScrape
    <3> DEFINE S == [at : {"none", "asked", "read", "answered"}, read : Int]
    <3>1. [at |-> "read", read |-> clock] \in S
      OBVIOUS
    <3>a. NoScrape \in S
      OBVIOUS
    <3>2. scraping \in [Scraped -> S]
      BY DEF Typed
    <3>3. [scraping EXCEPT ![s].at = "answered"] \in [Scraped -> S]
      BY <3>2
    <3>4. scraping' \in [Scraped -> S]
      <4> HIDE DEF S
      <4> QED  BY <1>4, <3>1, <3>2, <3>3, <3>a DEF Scrapes
    <3> QED  BY <3>4
  <2>2. DOMAIN scraping' = Scraped /\ HostWall' = HostWall
    BY <1>4, <2>1 DEF Scrapes, clocks, HostWall
  <2> QED  BY <1>4, <2>1, <2>2 DEF Scrapes, Typed, DPTypeOK, clocks, producers, tails
<1> QED  BY <1>1, <1>2, <1>3, <1>4

LEMMA TypedDriver ==
    ASSUME Typed, DrainsFrames \/ TakesArrival \/ TakesCommand \/ EndsTick
    PROVE  Typed'
<1>1. CASE DrainsFrames \/ TakesArrival
  <2>1. TakesFrame /\ UNCHANGED <<at, tails>>
    BY <1>1 DEF DrainsFrames, TakesArrival
  <2>2. arrived' \in Seq(Arrival) /\ lastFrame' \in [Streamed -> Frame]
    BY <2>1, TakenFrameTypes
  <2>3. DOMAIN lastFrame' = Streamed /\ HostWall' = HostWall
    BY <2>1, <2>2 DEF TakesFrame, clocks, HostWall
  <2> QED  BY <2>1, <2>2, <2>3 DEF TakesFrame, Typed, DPTypeOK, clocks, producers, tails
<1>2. CASE TakesCommand
  <2>1. /\ commands' \in Seq(Command) /\ stop' \in Command \cup {NoStop}
        /\ begun' \in [ts : Int, wall : Int]
        /\ scraping' \in [Scraped -> [at : {"none", "asked", "read", "answered"}, read : Int]]
        /\ fresh' \subseteq Passed /\ deadline' \in Nat /\ ended' = ended
        /\ at' \in {"idle", "scraping", "local", "await", "grace"}
    <3> lastPass \in Int
      BY DEF Typed
    <3> QED  BY <1>2, TakesTypes DEF TakesCommand
  <2>2. DOMAIN scraping' = Scraped /\ HostWall' = HostWall
    BY <1>2, <2>1 DEF TakesCommand, clocks, HostWall
  <2> QED  BY <1>2, <2>1, <2>2 DEF TakesCommand, Typed, DPTypeOK, clocks, producers
<1>3. CASE EndsTick
  <2>0. PassStart \in Int
    BY DEF Typed, PassStart
  <2>1. /\ commands' \in Seq(Command) /\ stop' \in Command \cup {NoStop}
        /\ begun' \in [ts : Int, wall : Int]
        /\ scraping' \in [Scraped -> [at : {"none", "asked", "read", "answered"}, read : Int]]
        /\ fresh' \subseteq Passed /\ deadline' \in Nat /\ ended' = ended
        /\ at' \in {"idle", "scraping", "local", "await", "grace"}
    BY <1>3, <2>0, TakesTypes DEF EndsTick, AfterTick
  <2>2. DOMAIN scraping' = Scraped /\ HostWall' = HostWall
    BY <1>3, <2>1 DEF EndsTick, clocks, HostWall
  <2>3. PICK more \in SUBSET (LateSources \ recording) :
           /\ recording' = recording \cup more
           /\ sentAt' = [s \in Streamed |-> IF s \in more THEN clock ELSE sentAt[s]]
    BY <1>3 DEF EndsTick
  <2>4. recording' \subseteq Sources /\ sentAt' \in [Streamed -> Nat]
    BY <2>3, Consts, TypedClocks DEF Typed, DPTypeOK, Sources
  <2>5. lastPass' \in Int
    BY <1>3, <2>0 DEF EndsTick
  <2> QED  BY <1>3, <2>1, <2>2, <2>4, <2>5 DEF EndsTick, Typed, DPTypeOK, clocks
<1> QED  BY <1>1, <1>2, <1>3

LEMMA TypedStop ==
    ASSUME Typed, SleepsGrace \/ Awaits \/ EndsStop
    PROVE  Typed'
<1>1. CASE SleepsGrace
  BY <1>1 DEF SleepsGrace, Typed, DPTypeOK, clocks, producers, tails, HostWall
<1>2. CASE EndsStop
  BY <1>2 DEF EndsStop, Typed, DPTypeOK, clocks, producers, tails, HostWall
<1>3. ASSUME NEW how \in {"covered", "cancelled", "out of time"}, WaitEnds(how)
      PROVE  Typed'
  BY <1>3 DEF WaitEnds, Typed, DPTypeOK, clocks, producers, HostWall
<1>4. CASE TakesFrame /\ UNCHANGED <<at, tails>>
  <2>1. arrived' \in Seq(Arrival) /\ lastFrame' \in [Streamed -> Frame]
    BY <1>4, TakenFrameTypes
  <2>2. DOMAIN lastFrame' = Streamed /\ HostWall' = HostWall
    BY <1>4, <2>1 DEF TakesFrame, clocks, HostWall
  <2> QED  BY <1>4, <2>1, <2>2 DEF TakesFrame, Typed, DPTypeOK, clocks, producers, tails
<1> QED  BY <1>1, <1>2, <1>3, <1>4 DEF Awaits

LEMMA TypedNext == Typed /\ [DPNext]_dpvars => Typed'
<1>1. ASSUME Typed, UNCHANGED dpvars PROVE Typed'
  BY <1>1 DEF dpvars, Typed, DPTypeOK, HostWall
<1> QED  BY <1>1, TypedTime, TypedCaller, TypedStreams, TypedPass, TypedDriver, TypedStop
         DEF DPNext

\* The state is of the types the driver gives it, however its sources, its
\* commands and the clocks behave (recorder.rs: Driver).
THEOREM PassesTypes == DPSpec => []DPTypeOK
<1>1. Typed => DPTypeOK
  BY DEF Typed
<1> QED  BY <1>1, TypedInit, TypedNext, PTL DEF DPSpec

-----------------------------------------------------------------------------
(* The commands before a stop, and where the driver is.                    *)

LEMMA StopKinds ==
    ASSUME Typed
    PROVE  /\ stop # NoStop <=> stop.kind # "none"
           /\ \A c \in Command : c # NoStop /\ c.kind # "none"
                                 /\ (IsStop(c) <=> c.kind \in {"exit", "grace", "now"})
  BY DEF Typed, Command, NoStop, IsStop

LEMMA CommandAt ==
    ASSUME Typed
    PROVE  /\ DOMAIN commands = 1..Len(commands) /\ Len(commands) \in Nat
           /\ \A i \in DOMAIN commands : commands[i] \in Command
  BY LenProperties, ElementOfSeq DEF Typed

\* A stop that is taken was the last command; a patch leaves the rest.
LEMMA TakesRest ==
    ASSUME Typed, InTurn, NEW prev, Takes(prev), stop = NoStop
    PROVE  /\ \A i \in DOMAIN commands' : IsStop(commands'[i]) => i = Len(commands')
           /\ stop' # NoStop => ~StopWaits'
           /\ StopWaits' => StopWaits /\ at' = "idle" /\ Len(commands') = Len(commands) - 1
           /\ \A i \in DOMAIN commands' : i + 1 \in DOMAIN commands
                                          /\ commands'[i] = commands[i + 1]
<1> DEFINE c == Head(commands)
<1>1. /\ commands # <<>> /\ commands' = Tail(commands) /\ commands \in Seq(Command)
      /\ c \in Command /\ c = commands[1] /\ 1 \in DOMAIN commands
      /\ Len(commands') = Len(commands) - 1 /\ Len(commands) \in Nat
      /\ \A i \in DOMAIN commands' : i + 1 \in DOMAIN commands
                                     /\ commands'[i] = commands[i + 1]
  BY CommandTypes DEF Takes, Typed
<1>2. /\ commands' \in Seq(Command) /\ DOMAIN commands' = 1..Len(commands')
      /\ DOMAIN commands = 1..Len(commands)
  BY <1>1, CommandTypes, LenProperties
<1>3. \A i \in DOMAIN commands' : IsStop(commands'[i]) => i = Len(commands')
  BY <1>1, <1>2 DEF InTurn
<1>4. StopWaits' => StopWaits
  BY <1>1 DEF StopWaits
<1>5. CASE IsStop(c)
  <2>1. DOMAIN commands' = {}
    BY <1>1, <1>2, <1>5 DEF InTurn
  <2> QED  BY <1>1, <1>3, <2>1 DEF StopWaits
<1>6. CASE ~IsStop(c)
  <2>1. at' = "idle" /\ stop' = stop
    BY <1>6 DEF Takes, tails
  <2> QED  BY <1>1, <1>3, <1>4, <2>1
<1> QED  BY <1>5, <1>6

LEMMA InTurnCaller == ASSUME Typed, InTurn, AsksPatch \/ AsksStop \/ Cancels PROVE InTurn'
<1>1. ASSUME NEW c \in Command, Ask(c)
      PROVE  /\ Len(commands') = Len(commands) + 1 /\ stop' = stop /\ at' = at
             /\ \A i \in DOMAIN commands' : IsStop(commands'[i]) => i = Len(commands') /\ IsStop(c)
             /\ stop = NoStop
  <2>1. /\ commands \in Seq(Command) /\ commands' = Append(commands, c) /\ stop = NoStop
        /\ \A i \in DOMAIN commands : ~IsStop(commands[i])
        /\ stop' = stop /\ at' = at
    BY <1>1 DEF Typed, Ask, tails
  <2>2. /\ commands' \in Seq(Command) /\ Len(commands') = Len(commands) + 1
        /\ \A i \in 1..Len(commands) : commands'[i] = commands[i]
        /\ commands'[Len(commands) + 1] = c
        /\ DOMAIN commands = 1..Len(commands)
        /\ DOMAIN commands' = 1..(Len(commands) + 1) /\ Len(commands) \in Nat
    BY <2>1, AppendProperties, LenProperties
  <2> QED  BY <2>1, <2>2
<1>2. CASE AsksPatch
  <2> DEFINE c == [kind |-> "patch", wall |-> 0, at |-> 0]
  <2>1. c \in Command /\ Ask(c) /\ ~IsStop(c)
    BY <1>2 DEF Command, AsksPatch, IsStop
  <2> HIDE DEF c
  <2> QED  BY <1>1, <2>1 DEF InTurn, StopWaits
<1>3. CASE AsksStop
  <2>1. PICK k \in Stops : Ask([kind |-> k, wall |-> HostWall, at |-> clock])
    BY <1>3 DEF AsksStop
  <2> DEFINE c == [kind |-> k, wall |-> HostWall, at |-> clock]
  <2>2. c \in Command /\ Ask(c)
    BY <2>1, Consts, TypedClocks DEF Command
  <2> HIDE DEF c
  <2>3. queued'.ahead = Len(commands) /\ queued'.ticks = 0 /\ Len(commands) \in Nat
    BY <1>3, CommandAt DEF AsksStop
  <2> QED  BY <1>1, <2>2, <2>3 DEF InTurn, StopWaits
<1>4. CASE Cancels
  BY <1>4 DEF Cancels, InTurn, StopWaits
<1> QED  BY <1>2, <1>3, <1>4

LEMMA InTurnStep == ASSUME Typed, InTurn, Where, [DPNext]_dpvars PROVE InTurn'
<1>0. ASSUME UNCHANGED <<commands, stop, queued>>, at' = "idle" => at = "idle"
      PROVE  InTurn'
  <2>1. queued.ahead \in Nat /\ queued.ticks \in Nat /\ Len(commands) \in Nat
    BY CommandAt DEF Typed
  <2> QED  BY <1>0, <2>1 DEF InTurn, StopWaits
<1>1. CASE UNCHANGED dpvars
  BY <1>0, <1>1 DEF dpvars
<1>2. CASE Elapses \/ Corrected
  BY <1>0, <1>2 DEF Elapses, Corrected
<1>3. CASE AsksPatch \/ AsksStop \/ Cancels
  BY <1>3, InTurnCaller
<1>4. ASSUME NEW s \in Streamed, Serves(s) \/ FrameArrives(s) PROVE InTurn'
  BY <1>0, <1>4 DEF Serves, FrameArrives, tails
<1>5. CASE TickFires
  <2>1. /\ commands' = commands /\ stop' = stop /\ at = "idle" /\ at' = "scraping"
        /\ queued'.ticks = queued.ticks + 1 /\ queued'.ahead = queued.ahead
        /\ queued.ahead \in Nat /\ queued.ticks \in Nat /\ Len(commands) \in Nat
    BY <1>5, CommandAt DEF TickFires, Typed, tails
  <2> QED  BY <2>1 DEF InTurn, StopWaits
<1>6. CASE StagesScrapes \/ DrainsFrames \/ TakesArrival \/ SleepsGrace \/ EndsStop
  BY <1>0, <1>6 DEF StagesScrapes, DrainsFrames, TakesArrival, SleepsGrace, EndsStop,
                    TakesFrame, tails
<1>7. CASE LocalPasses
  BY <1>0, <1>7 DEF LocalPasses
<1>8. ASSUME NEW s \in Scraped, Scrapes(s) PROVE InTurn'
  BY <1>0, <1>8 DEF Scrapes, tails
<1>9. CASE Awaits
  BY <1>0, <1>9 DEF Awaits, WaitEnds, TakesFrame, tails
<1>10. ASSUME NEW prev, Takes(prev), stop = NoStop, queued' = queued,
              at \in {"idle", "drain"}
       PROVE  InTurn'
  <2>1. queued.ahead \in Nat /\ queued.ticks \in Nat /\ Len(commands) \in Nat
    BY CommandAt DEF Typed
  <2>2. /\ \A i \in DOMAIN commands' : IsStop(commands'[i]) => i = Len(commands')
        /\ stop' # NoStop => ~StopWaits'
        /\ StopWaits' => StopWaits /\ at' = "idle" /\ Len(commands') = Len(commands) - 1
    BY <1>10, TakesRest
  <2> QED  BY <1>10, <2>1, <2>2 DEF InTurn
<1>11. CASE TakesCommand
  BY <1>10, <1>11 DEF TakesCommand, Where
<1>12. CASE EndsTick
  <2>1. stop = NoStop /\ queued' = queued /\ at = "drain" /\ AfterTick(PassStart)
    BY <1>12 DEF EndsTick
  <2>2. CASE commands = <<>>
    <3> commands' = commands /\ stop' = stop
      BY <2>1, <2>2 DEF AfterTick, tails
    <3> QED  BY <2>1, <2>2 DEF InTurn, StopWaits
  <2>3. CASE commands # <<>>
    BY <1>10, <2>1, <2>3 DEF AfterTick
  <2> QED  BY <2>2, <2>3
<1> QED  BY <1>1, <1>2, <1>3, <1>4, <1>5, <1>6, <1>7, <1>8, <1>9, <1>11, <1>12 DEF DPNext

LEMMA BeginsAPass == ASSUME Typed, Begins PROVE InPass'
  BY TypedClocks DEF Begins, InPass, NoPass

LEMMA WhereStep == ASSUME Typed, Where, [DPNext]_dpvars PROVE Where'
<1>0. ASSUME UNCHANGED <<at, begun, stop>> PROVE Where'
  BY <1>0 DEF Where, InPass
<1>1. CASE UNCHANGED dpvars
  BY <1>0, <1>1 DEF dpvars
<1>2. CASE Elapses \/ Corrected
  BY <1>0, <1>2 DEF Elapses, Corrected
<1>3. CASE AsksPatch \/ AsksStop \/ Cancels
  BY <1>0, <1>3 DEF AsksPatch, AsksStop, Cancels, Ask, tails
<1>4. ASSUME NEW s \in Streamed, Serves(s) \/ FrameArrives(s) PROVE Where'
  BY <1>0, <1>4 DEF Serves, FrameArrives, tails
<1>5. CASE TickFires
  <2>1. InPass'
    BY <1>5, BeginsAPass DEF TickFires
  <2>2. stop = NoStop
    BY <1>5 DEF TickFires, Where
  <2> QED  BY <1>5, <2>1, <2>2, StopKinds DEF TickFires, Where, tails
<1>6. CASE StagesScrapes \/ SleepsGrace \/ EndsStop
  BY <1>6, StopKinds DEF StagesScrapes, SleepsGrace, EndsStop, Where, InPass, tails
<1>7. CASE LocalPasses
  BY <1>7, StopKinds DEF LocalPasses, Where, InPass
<1>8. ASSUME NEW s \in Scraped, Scrapes(s) PROVE Where'
  BY <1>0, <1>8 DEF Scrapes, tails
<1>9. CASE DrainsFrames \/ TakesArrival
  BY <1>0, <1>9 DEF DrainsFrames, TakesArrival, TakesFrame, tails
<1>10. CASE Awaits
  <2>1. CASE UNCHANGED <<at, tails>> /\ TakesFrame
    BY <1>0, <2>1 DEF TakesFrame, tails
  <2>2. ASSUME NEW how, WaitEnds(how), at = "await" PROVE Where'
    BY <2>2, StopKinds DEF WaitEnds, Where, InPass
  <2> QED  BY <1>10, <2>1, <2>2 DEF Awaits
<1>11. ASSUME NEW prev, Takes(prev), stop = NoStop PROVE Where'
  <2> DEFINE c == Head(commands)
  <2>1. c \in Command
    BY <1>11, CommandTypes DEF Takes, Typed
  <2>2. CASE ~IsStop(c)
    BY <1>11, <2>2 DEF Takes, Where, InPass, tails, NoStop
  <2>3. CASE IsStop(c)
    <3>1. TakesStop(c, prev) /\ c # NoStop /\ c.kind \in {"exit", "grace", "now"}
      BY <1>11, <2>1, <2>3, StopKinds DEF Takes
    <3> HIDE DEF c
    <3>2. Begins => InPass'
      BY BeginsAPass
    <3> QED  BY <3>1, <3>2 DEF TakesStop, Where
  <2> QED  BY <2>2, <2>3
<1>12. CASE TakesCommand
  BY <1>11, <1>12 DEF TakesCommand, Where
<1>13. CASE EndsTick
  <2>1. CASE commands = <<>>
    BY <1>13, <2>1 DEF EndsTick, AfterTick, Where, InPass, tails, NoStop
  <2>2. CASE commands # <<>>
    BY <1>11, <1>13, <2>2 DEF EndsTick, AfterTick
  <2> QED  BY <2>1, <2>2
<1> QED  BY <1>1, <1>2, <1>3, <1>4, <1>5, <1>6, <1>7, <1>8, <1>9, <1>10, <1>12, <1>13 DEF DPNext

LEMMA TurnInit == DPInit => InTurn /\ Where
  BY DEF DPInit, InTurn, StopWaits, Where, InPass, NoStop

\* A stop is taken after one tick more than there are commands before it, at
\* the most, whatever the interval and however long the ticks take
\* (recorder.rs: run).
THEOREM PassesTurns == DPSpec => []StopIsTakenInTurn
<1> DEFINE I == Typed /\ InTurn /\ Where
<1>1. DPInit => I
  BY TypedInit, TurnInit
<1>2. I /\ [DPNext]_dpvars => I'
  BY TypedNext, InTurnStep, WhereStep
<1>3. I => StopIsTakenInTurn
  <2> SUFFICES ASSUME Typed, InTurn, StopWaits PROVE queued.ticks <= queued.ahead + 1
    BY DEF StopIsTakenInTurn, StopWaits
  <2>1. Len(commands) \in Nat /\ Len(commands) >= 1
    BY CommandAt DEF StopWaits
  <2>2. queued.ahead \in Nat /\ queued.ticks \in Nat
    BY DEF Typed
  <2>3. queued.ticks + Len(commands) <= queued.ahead + 2
    BY <2>1, <2>2 DEF InTurn
  <2> QED  BY <2>1, <2>2, <2>3
<1> QED  BY <1>1, <1>2, <1>3, PTL DEF DPSpec

-----------------------------------------------------------------------------
(* What a pass read, and when a stop was asked for.                        *)

LEMMA TimesAreInts ==
    ASSUME Typed
    PROVE  /\ begun.ts \in Int /\ begun.wall \in Int /\ lastPass \in Int
           /\ \A s \in Passed : newest[s].wall \in Int /\ newest[s].read \in Int
           /\ \A s \in Scraped : scraping[s].read \in Int
           /\ \A c \in Command : c.wall \in Int /\ c.at \in Int
           /\ stop.wall \in Int /\ stop.at \in Int
           /\ fresh \subseteq Passed
<1>1. \A c \in Command : c.wall \in Int /\ c.at \in Int
  BY DEF Command
<1>2. NoStop.wall \in Int /\ NoStop.at \in Int
  BY DEF NoStop
<1>3. stop.wall \in Int /\ stop.at \in Int
  BY <1>1, <1>2 DEF Typed
<1>4. begun.ts \in Int /\ begun.wall \in Int /\ lastPass \in Int /\ fresh \subseteq Passed
  BY DEF Typed, DPTypeOK
<1>5. \A s \in Passed : newest[s].wall \in Int /\ newest[s].read \in Int
  BY DEF Typed
<1>6. \A s \in Scraped : scraping[s].read \in Int
  BY DEF Typed
<1> QED  BY <1>1, <1>3, <1>4, <1>5, <1>6

LEMMA ReachesLess ==
    ASSUME Typed, NEW w \in Int, NEW r \in Int, NEW v \in Int, NEW q \in Int,
           Reaches(w, r), v <= w, q <= r
    PROVE  Reaches(v, q)
<1> SUFFICES ASSUME NEW s \in fresh PROVE newest[s].wall >= v /\ newest[s].read >= q
  BY DEF Reaches
<1>1. newest[s].wall >= w /\ newest[s].read >= r
  BY DEF Reaches
<1>2. newest[s].wall \in Int /\ newest[s].read \in Int
  BY TimesAreInts
<1> QED  BY <1>1, <1>2

\* Time passes, and the wall clock goes forward.
LEMMA DatedStill ==
    ASSUME Typed, Dated,
           clock' \in Int, offset' \in Int, clock' >= clock, offset' >= offset,
           UNCHANGED <<begun, lastPass, scraping, fresh, newest, stop>>,
           \A c \in Command : Stopping(c)' => Stopping(c),
           stop.kind = "exit" => \/ at' = at
                                 \/ {at, at'} \subseteq {"await", "drain", "stopped"}
    PROVE  Dated'
<1>1. clock \in Nat /\ offset \in Int /\ HostWall = clock + offset
      /\ HostWall' = clock' + offset' /\ HostWall' >= HostWall /\ HostWall' \in Int
  BY TypedClocks DEF HostWall
<1>2. InPass' = InPass
  BY DEF InPass
<1>3. \A w, r : Reaches(w, r)' <=> Reaches(w, r)
  BY DEF Reaches
<1>4. (begun.ts <= clock /\ begun.wall <= HostWall /\ begun.ts >= -1)'
  BY <1>1, TimesAreInts DEF Dated
<1>5. (InPass => begun.wall <= begun.ts + offset)'
  BY <1>1, <1>2, TimesAreInts DEF Dated
<1>6. (\A s \in Scraped :
          scraping[s].at \in {"read", "answered"} => scraping[s].read >= begun.ts)'
  BY DEF Dated
<1>7. (InPass => Reaches(begun.wall, begun.ts))'
  BY <1>2, <1>3 DEF Dated, Reaches
<1>8. (~InPass /\ stop = NoStop => Reaches(lastPass, lastPass - offset))'
  <2> SUFFICES ASSUME ~InPass, stop = NoStop PROVE Reaches(lastPass, lastPass - offset)'
    BY <1>2
  <2>1. Reaches(lastPass, lastPass - offset)
    BY DEF Dated
  <2>2. Reaches(lastPass, lastPass - offset')
    BY <2>1, <1>1, TimesAreInts DEF Reaches
  <2> QED  BY <2>2, <1>3 DEF Reaches
<1>9. ASSUME NEW c \in Command, Stopping(c)'
      PROVE  /\ (c.wall <= HostWall /\ c.at <= clock)'
             /\ (InPass /\ begun.wall >= c.wall => begun.ts >= c.at)'
             /\ (~InPass /\ stop = NoStop /\ lastPass >= c.wall => Reaches(c.wall, c.at))'
  <2>1. Stopping(c)
    BY <1>9
  <2>2. /\ c.wall <= HostWall /\ c.at <= clock
        /\ InPass /\ begun.wall >= c.wall => begun.ts >= c.at
        /\ ~InPass /\ stop = NoStop /\ lastPass >= c.wall => Reaches(c.wall, c.at)
    BY <2>1 DEF Dated
  <2>3. (c.wall <= HostWall /\ c.at <= clock)'
    BY <1>1, <2>2, TimesAreInts
  <2>4. (InPass /\ begun.wall >= c.wall => begun.ts >= c.at)'
    BY <1>2, <2>2
  <2>5. (~InPass /\ stop = NoStop /\ lastPass >= c.wall => Reaches(c.wall, c.at))'
    BY <1>2, <2>2 DEF Reaches
  <2> QED  BY <2>3, <2>4, <2>5
<1>10. (stop.kind = "exit" =>
          /\ at \in {"scraping", "local"} =>
                InPass /\ begun.ts >= stop.at /\ begun.wall >= stop.wall
          /\ at \in {"await", "drain", "stopped"} => Reaches(stop.wall, stop.at))'
  BY <1>2 DEF Dated, Reaches
<1> QED  BY <1>4, <1>5, <1>6, <1>7, <1>8, <1>9, <1>10 DEF Dated

LEMMA DatedAsked ==
    ASSUME Typed, Where, Dated, AsksStop
    PROVE  Dated'
<1>1. PICK k \in Stops : Ask([kind |-> k, wall |-> HostWall, at |-> clock])
  BY DEF AsksStop
<1> DEFINE n == [kind |-> k, wall |-> HostWall, at |-> clock]
<1>2. /\ n \in Command /\ n.wall = HostWall /\ n.at = clock
      /\ UNCHANGED <<clock, offset, begun, lastPass, scraping, fresh, newest, stop, at>>
      /\ stop = NoStop /\ commands' = Append(commands, n)
  BY <1>1, Consts, TypedClocks DEF Ask, Command, clocks, tails
<1> HIDE DEF n
<1>3. \A c \in Command : Stopping(c)' => Stopping(c) \/ c = n
  <2>1. commands \in Seq(Command)
    BY DEF Typed
  <2>2. /\ \A i \in 1..Len(commands) : commands'[i] = commands[i]
        /\ commands'[Len(commands) + 1] = n
        /\ DOMAIN commands = 1..Len(commands)
        /\ DOMAIN commands' = 1..(Len(commands) + 1) /\ Len(commands) \in Nat
    BY <1>2, <2>1, AppendProperties, LenProperties
  <2> QED  BY <1>2, <2>2 DEF Stopping
<1>4. clock \in Nat /\ offset \in Int /\ HostWall = clock + offset /\ HostWall' = HostWall
  BY <1>2, TypedClocks DEF HostWall
<1>5. InPass' = InPass /\ \A w, r : Reaches(w, r)' <=> Reaches(w, r)
  BY <1>2 DEF InPass, Reaches
<1>6. InPass /\ begun.wall >= n.wall => begun.ts >= n.at
  BY <1>2, <1>4, TimesAreInts DEF Dated
<1>7. ~InPass /\ stop = NoStop /\ lastPass >= n.wall => Reaches(n.wall, n.at)
  <2> SUFFICES ASSUME ~InPass, lastPass >= n.wall PROVE Reaches(n.wall, n.at)
    OBVIOUS
  <2>1. Reaches(lastPass, lastPass - offset)
    BY <1>2 DEF Dated
  <2>2. lastPass - offset >= clock /\ lastPass - offset \in Int
    BY <1>2, <1>4, TimesAreInts
  <2> QED  BY <1>2, <1>4, <2>1, <2>2, TimesAreInts, ReachesLess
<1>8. ASSUME NEW c \in Command, Stopping(c)'
      PROVE  /\ (c.wall <= HostWall /\ c.at <= clock)'
             /\ (InPass /\ begun.wall >= c.wall => begun.ts >= c.at)'
             /\ (~InPass /\ stop = NoStop /\ lastPass >= c.wall => Reaches(c.wall, c.at))'
  <2>1. /\ c.wall <= HostWall /\ c.at <= clock
        /\ InPass /\ begun.wall >= c.wall => begun.ts >= c.at
        /\ ~InPass /\ stop = NoStop /\ lastPass >= c.wall => Reaches(c.wall, c.at)
    <3>1. CASE c = n
      BY <3>1, <1>2, <1>4, <1>6, <1>7, TimesAreInts
    <3>2. CASE Stopping(c)
      BY <3>2 DEF Dated
    <3> QED  BY <1>3, <1>8, <3>1, <3>2
  <2>2. (c.wall <= HostWall /\ c.at <= clock)'
    BY <1>2, <1>4, <2>1
  <2>3. (InPass /\ begun.wall >= c.wall => begun.ts >= c.at)'
    BY <1>2, <1>5, <2>1
  <2>4. (~InPass /\ stop = NoStop /\ lastPass >= c.wall => Reaches(c.wall, c.at))'
    BY <1>2, <1>5, <2>1 DEF Reaches
  <2> QED  BY <2>2, <2>3, <2>4
<1>9. (/\ begun.ts <= clock /\ begun.wall <= HostWall /\ begun.ts >= -1
       /\ InPass => begun.wall <= begun.ts + offset
       /\ \A s \in Scraped :
             scraping[s].at \in {"read", "answered"} => scraping[s].read >= begun.ts)'
  BY <1>2, <1>4, <1>5 DEF Dated
<1>10. (/\ InPass => Reaches(begun.wall, begun.ts)
        /\ ~InPass /\ stop = NoStop => Reaches(lastPass, lastPass - offset))'
  BY <1>2, <1>5 DEF Dated, Reaches
<1>11. stop'.kind # "exit"
  BY <1>2, StopKinds DEF NoStop
<1> QED  BY <1>8, <1>9, <1>10, <1>11 DEF Dated

\* A pass begins: at a tick, or after a stop.
LEMMA DatedBegins ==
    ASSUME Typed, Typed', Dated, Begins,
           UNCHANGED <<clock, offset>>, at' = "scraping",
           \A c \in Command : Stopping(c)' => Stopping(c),
           stop'.kind = "exit" => stop' \in Command /\ Stopping(stop')
    PROVE  Dated'
<1>1. /\ begun' = [ts |-> clock, wall |-> HostWall] /\ fresh' = {}
      /\ \A s \in Scraped : scraping'[s].at \in {"none", "asked"}
  BY DEF Begins, NoScrape
<1>2. /\ clock \in Nat /\ offset \in Int /\ HostWall \in Int
      /\ HostWall = clock + offset /\ HostWall' = HostWall
  BY TypedClocks DEF HostWall
<1>3. InPass'
  BY BeginsAPass
<1>4. \A w, r : Reaches(w, r)'
  BY <1>1 DEF Reaches
<1>5. \A c \in Command : Stopping(c) => c.wall <= HostWall /\ c.at <= clock
  BY DEF Dated
<1>6. (/\ begun.ts <= clock /\ begun.wall <= HostWall /\ begun.ts >= -1
       /\ InPass => begun.wall <= begun.ts + offset
       /\ \A s \in Scraped :
             scraping[s].at \in {"read", "answered"} => scraping[s].read >= begun.ts)'
  BY <1>1, <1>2
<1>7. \A c \in Command : Stopping(c)' =>
         /\ (c.wall <= HostWall /\ c.at <= clock)'
         /\ (InPass /\ begun.wall >= c.wall => begun.ts >= c.at)'
  BY <1>1, <1>2, <1>5, TimesAreInts
<1>8. (stop.kind = "exit" =>
          (at \in {"scraping", "local"} =>
                InPass /\ begun.ts >= stop.at /\ begun.wall >= stop.wall))'
  BY <1>1, <1>2, <1>3, <1>5, TimesAreInts
<1> QED  BY <1>3, <1>4, <1>6, <1>7, <1>8 DEF Dated, Reaches

\* A command is taken, or none: the pass that was in progress is the last.
LEMMA DatedTakes ==
    ASSUME Typed, Typed', InTurn, Where, Dated, stop = NoStop, NEW prev \in Int,
           UNCHANGED <<clock, offset, newest>>, lastPass' = prev,
           \/ InPass /\ prev = begun.wall
           \/ ~InPass /\ prev = lastPass,
           \/ Takes(prev)
           \/ /\ at' = "idle" /\ begun' = NoPass
              /\ UNCHANGED <<commands, scraping, fresh, tails>>
    PROVE  Dated'
<1>1. /\ clock \in Nat /\ offset \in Int /\ HostWall \in Int
      /\ HostWall = clock + offset /\ HostWall' = HostWall
  BY TypedClocks DEF HostWall
<1>2. Reaches(prev, prev - offset)
  <2>1. CASE ~InPass /\ prev = lastPass
    BY <2>1 DEF Dated
  <2>2. CASE InPass /\ prev = begun.wall
    <3>1. Reaches(begun.wall, begun.ts) /\ begun.wall <= begun.ts + offset
      BY <2>2 DEF Dated
    <3>2. prev - offset \in Int /\ prev - offset <= begun.ts
      BY <2>2, <3>1, <1>1, TimesAreInts
    <3> QED  BY <2>2, <3>1, <3>2, TimesAreInts, ReachesLess
  <2> QED  BY <2>1, <2>2
<1>3. ASSUME NEW c \in Command, Stopping(c), prev >= c.wall
      PROVE  Reaches(c.wall, c.at)
  <2>1. CASE ~InPass /\ prev = lastPass
    BY <1>3, <2>1 DEF Dated
  <2>2. CASE InPass /\ prev = begun.wall
    <3>1. Reaches(begun.wall, begun.ts) /\ begun.ts >= c.at
      BY <1>3, <2>2 DEF Dated
    <3> QED  BY <1>3, <2>2, <3>1, TimesAreInts, ReachesLess
  <2> QED  BY <2>1, <2>2
<1>4. /\ \A c \in Command : Stopping(c)' => Stopping(c)
      /\ stop' # NoStop => stop' \in Command /\ Stopping(stop')
  <2>1. CASE UNCHANGED <<commands, stop>>
    BY <2>1 DEF Stopping
  <2>2. CASE Takes(prev)
    <3>1. \A i \in DOMAIN commands' : i + 1 \in DOMAIN commands
                                      /\ commands'[i] = commands[i + 1]
      BY <2>2, TakesRest
    <3>2. Head(commands) \in Command /\ 1 \in DOMAIN commands
          /\ Head(commands) = commands[1]
      BY <2>2, CommandTypes DEF Takes, Typed
    <3>3. \/ stop' = stop
          \/ stop' = Head(commands) /\ IsStop(Head(commands))
      BY <2>2 DEF Takes, TakesStop, tails
    <3> QED  BY <3>1, <3>2, <3>3, StopKinds DEF Stopping, NoStop
  <2> QED  BY <2>1, <2>2 DEF tails
<1>5. CASE /\ begun' = NoPass /\ scraping' = scraping /\ fresh' \subseteq fresh
           /\ stop' = NoStop \/ stop'.kind # "exit"
              \/ (prev >= stop'.wall /\ stop' # NoStop /\ at' = "await")
  <2>1. ~InPass' /\ begun'.ts = -1 /\ begun'.wall = -1
    BY <1>5 DEF InPass, NoPass
  <2>2. \A w, r : Reaches(w, r) => Reaches(w, r)'
    BY <1>5 DEF Reaches
  <2>3. \A s \in Scraped :
           scraping'[s].at \in {"read", "answered"} => scraping'[s].read >= -1
    BY <1>5, TimesAreInts DEF Dated
  <2>4. HostWall >= 0
    BY TypedClocks
  <2>5. (/\ begun.ts <= clock /\ begun.wall <= HostWall /\ begun.ts >= -1
         /\ \A s \in Scraped :
               scraping[s].at \in {"read", "answered"} => scraping[s].read >= begun.ts)'
    BY <1>1, <2>1, <2>3, <2>4
  <2>6. (~InPass /\ stop = NoStop => Reaches(lastPass, lastPass - offset))'
    BY <1>2, <2>2 DEF Reaches
  <2>7. ASSUME NEW c \in Command, Stopping(c)'
        PROVE  (c.wall <= HostWall /\ c.at <= clock)'
               /\ (~InPass /\ stop = NoStop /\ lastPass >= c.wall => Reaches(c.wall, c.at))'
    <3>1. Stopping(c)
      BY <1>4, <2>7
    <3>2. (c.wall <= HostWall /\ c.at <= clock)'
      BY <1>1, <3>1 DEF Dated
    <3>3. lastPass' >= c.wall => Reaches(c.wall, c.at)
      BY <1>3, <3>1
    <3> QED  BY <2>2, <3>2, <3>3 DEF Reaches
  <2>8. (stop.kind = "exit" =>
          /\ at \in {"scraping", "local"} =>
                InPass /\ begun.ts >= stop.at /\ begun.wall >= stop.wall
          /\ at \in {"await", "drain", "stopped"} => Reaches(stop.wall, stop.at))'
    <3>1. stop' = NoStop => stop'.kind # "exit"
      BY DEF NoStop
    <3>2. stop' # NoStop /\ prev >= stop'.wall => Reaches(stop'.wall, stop'.at)
      BY <1>3, <1>4
    <3> QED  BY <1>5, <2>2, <3>1, <3>2 DEF Reaches
  <2> QED  BY <2>1, <2>5, <2>6, <2>7, <2>8 DEF Dated
<1>6. CASE Begins /\ at' = "scraping" /\ stop' # NoStop
  BY <1>4, <1>6, DatedBegins
<1>7. CASE Takes(prev)
  <2> DEFINE c == Head(commands)
  <2>1. c \in Command /\ c # NoStop
    BY <1>7, CommandTypes, StopKinds DEF Takes, Typed
  <2>2. CASE ~IsStop(c)
    BY <1>5, <1>7, <2>2 DEF Takes, tails
  <2>3. CASE IsStop(c)
    <3>1. TakesStop(c, prev)
      BY <1>7, <2>3 DEF Takes
    <3> HIDE DEF c
    <3>2. CASE c.kind = "exit" /\ Sampled(c, prev)
      BY <1>5, <2>1, <3>1, <3>2 DEF TakesStop, Sampled
    <3>3. CASE c.kind = "exit" /\ ~Sampled(c, prev)
      BY <1>6, <2>1, <3>1, <3>3 DEF TakesStop
    <3>4. CASE c.kind = "grace"
      BY <1>5, <2>1, <3>1, <3>4 DEF TakesStop
    <3>5. CASE c.kind = "now"
      BY <1>5, <2>1, <3>1, <3>5 DEF TakesStop
    <3> QED  BY <3>1, <3>2, <3>3, <3>4, <3>5 DEF TakesStop
  <2> QED  BY <2>2, <2>3
<1>8. CASE /\ at' = "idle" /\ begun' = NoPass
           /\ UNCHANGED <<commands, scraping, fresh, tails>>
  BY <1>5, <1>8 DEF tails
<1> QED  BY <1>7, <1>8

LEMMA DatedScrapes ==
    ASSUME Typed, Dated, NEW s \in Scraped, Scrapes(s)
    PROVE  Dated'
<1>1. /\ UNCHANGED <<clock, offset, begun, lastPass, fresh, newest, stop, at, commands>>
      /\ clock \in Nat /\ begun.ts \in Int /\ HostWall' = HostWall
  BY TypedClocks, TimesAreInts DEF Scrapes, clocks, tails, HostWall
<1>2. \A q \in Scraped :
         scraping'[q].at \in {"read", "answered"} => scraping'[q].read >= begun.ts
  <2>1. /\ begun.ts <= clock
        /\ \A q \in Scraped :
              scraping[q].at \in {"read", "answered"} => scraping[q].read >= begun.ts
    BY DEF Dated
  <2>2. scraping[s] \in [at : {"none", "asked", "read", "answered"}, read : Int]
        /\ scraping \in [Scraped -> [at : {"none", "asked", "read", "answered"}, read : Int]]
    BY DEF Typed
  <2>3. CASE scraping' = [scraping EXCEPT ![s] = [at |-> "read", read |-> clock]]
    BY <1>1, <2>1, <2>2, <2>3
  <2>4. CASE scraping[s].at = "read" /\ scraping' = [scraping EXCEPT ![s].at = "answered"]
    BY <2>1, <2>2, <2>4
  <2>5. CASE scraping' = [scraping EXCEPT ![s] = NoScrape]
    BY <2>1, <2>2, <2>5 DEF NoScrape
  <2> QED  BY <2>3, <2>4, <2>5 DEF Scrapes
<1>3. \A c \in Command : Stopping(c)' <=> Stopping(c)
  BY <1>1 DEF Stopping
<1>4. InPass' = InPass /\ \A w, r : Reaches(w, r)' <=> Reaches(w, r)
  BY <1>1 DEF InPass, Reaches
<1>5. (/\ begun.ts <= clock /\ begun.wall <= HostWall /\ begun.ts >= -1
       /\ InPass => begun.wall <= begun.ts + offset
       /\ \A q \in Scraped :
             scraping[q].at \in {"read", "answered"} => scraping[q].read >= begun.ts)'
  BY <1>1, <1>2, <1>4 DEF Dated
<1>6. (/\ InPass => Reaches(begun.wall, begun.ts)
       /\ ~InPass /\ stop = NoStop => Reaches(lastPass, lastPass - offset)
       /\ \A c \in Command : Stopping(c) =>
             /\ c.wall <= HostWall /\ c.at <= clock
             /\ InPass /\ begun.wall >= c.wall => begun.ts >= c.at
             /\ ~InPass /\ stop = NoStop /\ lastPass >= c.wall => Reaches(c.wall, c.at))'
  BY <1>1, <1>3, <1>4 DEF Dated, Reaches
<1>7. (stop.kind = "exit" =>
          /\ at \in {"scraping", "local"} =>
                InPass /\ begun.ts >= stop.at /\ begun.wall >= stop.wall
          /\ at \in {"await", "drain", "stopped"} => Reaches(stop.wall, stop.at))'
  BY <1>1, <1>4 DEF Dated, Reaches
<1> QED  BY <1>5, <1>6, <1>7 DEF Dated

\* Rows are staged in a pass, none of them older than the pass.
LEMMA DatedStages ==
    ASSUME Typed, Where, Dated, StagesScrapes \/ LocalPasses
    PROVE  Dated'
<1>1. /\ UNCHANGED <<clock, offset, begun, lastPass, stop, commands>>
      /\ HostWall' = HostWall /\ clock \in Nat /\ HostWall \in Int
  BY TypedClocks DEF StagesScrapes, LocalPasses, clocks, tails, HostWall
<1>2. ASSUME InPass PROVE Reaches(begun.wall, begun.ts)'
  <2> SUFFICES ASSUME NEW s \in fresh'
               PROVE  newest'[s].wall >= begun.wall /\ newest'[s].read >= begun.ts
    BY <1>1 DEF Reaches
  <2>1. s \in fresh => newest[s].wall >= begun.wall /\ newest[s].read >= begun.ts
    BY <1>2 DEF Dated, Reaches
  <2>2. begun.wall <= HostWall /\ begun.ts <= clock
    BY DEF Dated
  <2>3. CASE StagesScrapes
    <3> DEFINE answered == {q \in Scraped : scraping[q].at = "answered"}
    <3>1. /\ newest' = [q \in Passed |->
               IF q \in answered
               THEN [wall |-> begun.wall, read |-> scraping[q].read]
               ELSE newest[q]]
          /\ fresh' = fresh \cup answered
      BY <2>3 DEF StagesScrapes
    <3>2. \A q \in answered : q \in Passed /\ scraping[q].read >= begun.ts
      BY DEF Dated, Passed
    <3>3. fresh \subseteq Passed
      BY TimesAreInts
    <3> HIDE DEF answered
    <3>4. CASE s \in answered
      <4>1. newest'[s] = [wall |-> begun.wall, read |-> scraping[s].read]
        BY <3>1, <3>2, <3>4
      <4> QED  BY <4>1, <3>2, <3>4, TimesAreInts
    <3>5. CASE s \notin answered
      BY <2>1, <3>1, <3>3, <3>5
    <3> QED  BY <3>4, <3>5
  <2>4. CASE LocalPasses
    <3>1. PICK took \in SUBSET {q \in Local \cap recording : clock > newest[q].read} :
             /\ newest' = [q \in Passed |->
                  IF q \in took THEN [wall |-> HostWall, read |-> clock] ELSE newest[q]]
             /\ fresh' = fresh \cup took
      BY <2>4 DEF LocalPasses
    <3>2. took \subseteq Passed /\ fresh \subseteq Passed
      BY <3>1, TimesAreInts DEF Passed
    <3>3. CASE s \in took
      <4>1. newest'[s] = [wall |-> HostWall, read |-> clock]
        BY <3>1, <3>2, <3>3
      <4> QED  BY <4>1, <2>2
    <3>4. CASE s \notin took
      BY <2>1, <3>1, <3>2, <3>4
    <3> QED  BY <3>3, <3>4
  <2> QED  BY <2>3, <2>4
<1>3. InPass' = InPass
  BY <1>1 DEF InPass
<1>4. stop = NoStop => InPass
  <2>1. CASE StagesScrapes
    BY <2>1 DEF StagesScrapes, Where
  <2>2. CASE LocalPasses
    BY <2>2 DEF LocalPasses, Where
  <2> QED  BY <2>1, <2>2
<1>5. \A c \in Command : Stopping(c)' <=> Stopping(c)
  BY <1>1 DEF Stopping
<1>6. (/\ begun.ts <= clock /\ begun.wall <= HostWall /\ begun.ts >= -1
       /\ InPass => begun.wall <= begun.ts + offset)'
  BY <1>1, <1>3 DEF Dated
<1>7. (\A s \in Scraped :
         scraping[s].at \in {"read", "answered"} => scraping[s].read >= begun.ts)'
  <2>1. CASE StagesScrapes
    BY <2>1 DEF StagesScrapes, NoScrape
  <2>2. CASE LocalPasses
    BY <2>2 DEF LocalPasses, Dated
  <2> QED  BY <2>1, <2>2
<1>8. (\A c \in Command : Stopping(c) =>
         /\ c.wall <= HostWall /\ c.at <= clock
         /\ InPass /\ begun.wall >= c.wall => begun.ts >= c.at)'
  BY <1>1, <1>3, <1>5 DEF Dated
<1>9. stop.kind = "exit" =>
         InPass /\ begun.ts >= stop.at /\ begun.wall >= stop.wall
  <2>1. at \in {"scraping", "local"}
    BY DEF StagesScrapes, LocalPasses
  <2> QED  BY <2>1 DEF Dated
<1>10. stop.kind = "exit" => Reaches(stop.wall, stop.at)'
  <2> SUFFICES ASSUME stop.kind = "exit" PROVE Reaches(stop.wall, stop.at)'
    OBVIOUS
  <2>1. Reaches(begun.wall, begun.ts)'
    BY <1>2, <1>9
  <2>2. \A s \in fresh' : newest'[s].wall >= begun.wall /\ newest'[s].read >= begun.ts
    BY <1>1, <2>1 DEF Reaches
  <2>3. \A s \in fresh' : newest'[s].wall \in Int /\ newest'[s].read \in Int
    <3> Typed'
      BY TypedPass
    <3>1. fresh' \subseteq Passed /\ newest' \in [Passed -> [wall : Int, read : Int]]
      BY DEF Typed, DPTypeOK
    <3> QED  BY <3>1
  <2>4. \A s \in fresh' : newest'[s].wall >= stop.wall /\ newest'[s].read >= stop.at
    BY <1>9, <2>2, <2>3, TimesAreInts
  <2> QED  BY <1>1, <2>4 DEF Reaches
<1>11. (stop.kind = "exit" =>
          (at \in {"scraping", "local"} =>
                InPass /\ begun.ts >= stop.at /\ begun.wall >= stop.wall))'
  BY <1>1, <1>3, <1>9
<1> QED  BY <1>1, <1>2, <1>3, <1>4, <1>6, <1>7, <1>8, <1>10, <1>11 DEF Dated

LEMMA DatedStep ==
    ASSUME Typed, InTurn, Where, ~back => Dated, [DPNext]_dpvars, ~back'
    PROVE  Dated'
<1>1. Typed'
  BY TypedNext
<1>2. ~back
  BY DEF DPNext, dpvars, Elapses, Corrected, AsksPatch, AsksStop, Ask, Cancels, Serves,
         FrameArrives, TickFires, StagesScrapes, LocalPasses, DrainsFrames, EndsTick,
         Scrapes, TakesCommand, TakesArrival, SleepsGrace, Awaits, WaitEnds, EndsStop,
         TakesFrame, clocks
<1> Dated
  BY <1>2
<1>3. clock \in Nat /\ offset \in Int /\ clock' \in Nat /\ offset' \in Int
  <2>1. clock' \in 0..MaxClock /\ offset' \in Int
    BY <1>1 DEF Typed, DPTypeOK
  <2> QED  BY <2>1, TypedClocks, Consts
<1>4. ASSUME UNCHANGED <<clock, offset, begun, lastPass, scraping, fresh, newest, stop, commands>>,
             stop.kind = "exit" => \/ at' = at
                                   \/ {at, at'} \subseteq {"await", "drain", "stopped"}
      PROVE  Dated'
  <2>1. \A c \in Command : Stopping(c)' => Stopping(c)
    BY <1>4 DEF Stopping
  <2>2. clock' >= clock /\ offset' >= offset
    BY <1>3, <1>4
  <2> QED  BY <1>3, <1>4, <2>1, <2>2, DatedStill
<1>5. CASE UNCHANGED dpvars
  BY <1>4, <1>5 DEF dpvars
<1>6. CASE Elapses \/ Corrected
  <2>1. UNCHANGED <<begun, lastPass, scraping, fresh, newest, stop, commands, at>>
    BY <1>6 DEF Elapses, Corrected
  <2>2. clock' >= clock /\ offset' >= offset
    <3>1. CASE Elapses
      BY <1>3, <3>1 DEF Elapses
    <3>2. CASE Corrected
      <4>1. PICK c \in Corrections : offset' = offset + c /\ back' = (back \/ c < 0)
        BY <3>2 DEF Corrected
      <4>2. c \in Int
        BY Consts
      <4>3. ~(c < 0)
        BY <4>1
      <4> QED  BY <1>3, <3>2, <4>1, <4>2, <4>3 DEF Corrected
    <3> QED  BY <1>6, <3>1, <3>2
  <2>3. \A c \in Command : Stopping(c)' => Stopping(c)
    BY <2>1 DEF Stopping
  <2> QED  BY <1>3, <2>1, <2>2, <2>3, DatedStill
<1>7. CASE AsksPatch
  <2> DEFINE n == [kind |-> "patch", wall |-> 0, at |-> 0]
  <2>1. /\ UNCHANGED <<clock, offset, begun, lastPass, scraping, fresh, newest, stop, at>>
        /\ commands' = Append(commands, n) /\ commands \in Seq(Command) /\ n \in Command
        /\ n.kind = "patch"
    BY <1>7 DEF AsksPatch, Ask, clocks, tails, Typed, Command
  <2> HIDE DEF n
  <2>2. \A c \in Command : Stopping(c)' => Stopping(c)
    <3>1. /\ \A i \in 1..Len(commands) : commands'[i] = commands[i]
          /\ commands'[Len(commands) + 1] = n
          /\ DOMAIN commands = 1..Len(commands)
          /\ DOMAIN commands' = 1..(Len(commands) + 1) /\ Len(commands) \in Nat
      BY <2>1, AppendProperties, LenProperties
    <3> QED  BY <2>1, <3>1 DEF Stopping
  <2>3. clock' >= clock /\ offset' >= offset
    BY <1>3, <2>1
  <2> QED  BY <1>3, <2>1, <2>2, <2>3, DatedStill
<1>8. CASE AsksStop
  BY <1>8, DatedAsked
<1>9. CASE Cancels
  BY <1>4, <1>9 DEF Cancels, clocks
<1>10. ASSUME NEW s \in Streamed, Serves(s) \/ FrameArrives(s) PROVE Dated'
  BY <1>4, <1>10 DEF Serves, FrameArrives, clocks, tails
<1>11. CASE TickFires
  <2>1. stop' = NoStop /\ commands' = commands /\ stop = NoStop
    BY <1>11 DEF TickFires, Where, tails
  <2>2. \A c \in Command : Stopping(c)' => Stopping(c)
    BY <2>1 DEF Stopping
  <2> QED  BY <1>1, <1>11, <2>1, <2>2, DatedBegins DEF TickFires, clocks, NoStop
<1>12. CASE StagesScrapes \/ LocalPasses
  BY <1>12, DatedStages
<1>13. ASSUME NEW s \in Scraped, Scrapes(s) PROVE Dated'
  BY <1>13, DatedScrapes
<1>14. CASE DrainsFrames \/ TakesArrival
  BY <1>4, <1>14 DEF DrainsFrames, TakesArrival, TakesFrame, clocks, tails
<1>15. CASE Awaits
  <2>1. CASE TakesFrame /\ UNCHANGED <<at, tails>>
    BY <1>4, <2>1 DEF TakesFrame, clocks, tails
  <2>2. ASSUME NEW how, WaitEnds(how), at = "await" PROVE Dated'
    BY <1>4, <2>2 DEF WaitEnds, clocks
  <2> QED  BY <1>15, <2>1, <2>2 DEF Awaits
<1>16. CASE SleepsGrace \/ EndsStop
  BY <1>4, <1>16 DEF SleepsGrace, EndsStop, Where, clocks, tails
<1>17. CASE TakesCommand
  <2>1. ~InPass /\ stop = NoStop /\ lastPass \in Int
    BY <1>17 DEF TakesCommand, Where, Typed
  <2> QED  BY <1>1, <1>17, <2>1, DatedTakes DEF TakesCommand, clocks
<1>18. CASE EndsTick
  <2>1. InPass /\ stop = NoStop /\ begun.wall \in Int
    BY <1>18 DEF EndsTick, Where, Typed
  <2> QED  BY <1>1, <1>18, <2>1, DatedTakes DEF EndsTick, AfterTick, PassStart, clocks
<1> QED  BY <1>5, <1>6, <1>7, <1>8, <1>9, <1>10, <1>11, <1>12, <1>13, <1>14, <1>15,
            <1>16, <1>17, <1>18 DEF DPNext

-----------------------------------------------------------------------------
(* What streams bring while a stop waits for them.                         *)

LEMMA SentTypes ==
    ASSUME Typed
    PROVE  /\ \A s \in Streamed : /\ sentAt[s] \in Nat /\ flight[s] \in Frame
                                  /\ lastFrame[s] \in Frame
                                  /\ flight[s].wall \in Int /\ lastFrame[s].wall \in Int
           /\ DOMAIN arrived = 1..Len(arrived) /\ Len(arrived) \in Nat
           /\ \A i \in DOMAIN arrived : /\ arrived[i].src \in Streamed
                                        /\ arrived[i].frame \in Frame
                                        /\ arrived[i].frame.wall \in Int
<1>1. \A f \in Frame : f.wall \in Int
  BY DEF Frame
<1>2. \A a \in Arrival : a.src \in Streamed /\ a.frame \in Frame
  BY DEF Arrival
<1>3. /\ DOMAIN arrived = 1..Len(arrived) /\ Len(arrived) \in Nat
      /\ \A i \in DOMAIN arrived : arrived[i] \in Arrival
  BY LenProperties, ElementOfSeq DEF Typed
<1>4. \A s \in Streamed : sentAt[s] \in Nat /\ flight[s] \in Frame /\ lastFrame[s] \in Frame
  BY DEF Typed
<1> QED  BY <1>1, <1>2, <1>3, <1>4

LEMMA FramesAreFrames == \A f \in Frames : f # NoFrame /\ f.is \in {"rows", "empty"}
                              /\ (f.is = "rows" => f.wall = HostWall)
<1> SUFFICES ASSUME NEW f \in Frames
             PROVE  f # NoFrame /\ f.is \in {"rows", "empty"}
                    /\ (f.is = "rows" => f.wall = HostWall)
  OBVIOUS
<1>1. NoFrame.is = "none"
  BY DEF NoFrame
<1>2. CASE f = [NoFrame EXCEPT !.is = "rows", !.wall = HostWall]
  <2>1. f = [is |-> "rows", wall |-> HostWall]
    BY <1>2 DEF NoFrame
  <2> QED  BY <1>1, <2>1
<1>3. CASE f = [NoFrame EXCEPT !.is = "empty"]
  <2>1. f = [is |-> "empty", wall |-> -1]
    BY <1>3 DEF NoFrame
  <2> QED  BY <1>1, <2>1
<1> QED  BY <1>2, <1>3 DEF Frames

LEMMA OnTimeStep == ASSUME Typed, OnTime, [DPNext]_dpvars PROVE OnTime'
<1>1. clock \in Nat /\ \A s \in Streamed : sentAt[s] \in Nat
  BY TypedClocks, SentTypes
<1>2. CASE UNCHANGED <<clock, sentAt, flight, punctual, recording>>
  BY <1>2 DEF OnTime
<1>3. CASE Elapses
  <2>1. /\ clock' = clock + 1
        /\ punctual => \A s \in Streamed \cap recording :
              IF flight[s] = NoFrame THEN clock < sentAt[s] + Served
                                     ELSE clock < sentAt[s] + Delay
        /\ UNCHANGED <<sentAt, flight, punctual, recording>>
    BY <1>3 DEF Elapses
  <2> QED  BY <1>1, <2>1, Consts DEF OnTime
<1>4. ASSUME NEW s \in Streamed, Serves(s) PROVE OnTime'
  <2>1. PICK f \in Frames : flight' = [flight EXCEPT ![s] = f]
    BY <1>4 DEF Serves
  <2>2. /\ UNCHANGED <<clock, punctual, recording>> /\ sentAt' = [sentAt EXCEPT ![s] = clock]
        /\ sentAt \in [Streamed -> Nat] /\ flight \in [Streamed -> Frame]
    BY <1>4 DEF Serves, clocks, Typed
  <2>3. f # NoFrame
    BY FramesAreFrames
  <2>4. \A q \in Streamed : sentAt'[q] <= clock
    BY <1>1, <2>2 DEF OnTime
  <2>5. ASSUME punctual, NEW q \in Streamed \cap recording
        PROVE  clock <= sentAt'[q] + IF flight'[q] = NoFrame THEN Served ELSE Delay
    <3>1. CASE q = s
      BY <1>1, <2>1, <2>2, <2>3, <3>1, Consts
    <3>2. CASE q # s
      BY <2>1, <2>2, <2>5, <3>2 DEF OnTime
    <3> QED  BY <3>1, <3>2
  <2> QED  BY <2>2, <2>4, <2>5 DEF OnTime
<1>5. ASSUME NEW s \in Streamed, FrameArrives(s) PROVE OnTime'
  <2>1. /\ UNCHANGED <<clock, punctual, recording, sentAt>>
        /\ flight' = [flight EXCEPT ![s] = NoFrame] /\ flight \in [Streamed -> Frame]
        /\ flight[s] # NoFrame
    BY <1>5 DEF FrameArrives, clocks, Typed
  <2>2. ASSUME punctual, NEW q \in Streamed \cap recording
        PROVE  clock <= sentAt[q] + IF flight'[q] = NoFrame THEN Served ELSE Delay
    <3>1. CASE q = s
      <4>1. clock <= sentAt[s] + Delay
        BY <2>1, <2>2, <3>1 DEF OnTime
      <4> QED  BY <1>1, <2>1, <3>1, <4>1, Consts
    <3>2. CASE q # s
      BY <2>1, <2>2, <3>2 DEF OnTime
    <3> QED  BY <3>1, <3>2
  <2> QED  BY <2>1, <2>2 DEF OnTime
<1>6. CASE EndsTick
  <2>1. PICK more \in SUBSET (LateSources \ recording) :
           /\ recording' = recording \cup more
           /\ sentAt' = [s \in Streamed |-> IF s \in more THEN clock ELSE sentAt[s]]
    BY <1>6 DEF EndsTick
  <2>2. UNCHANGED <<clock, punctual, flight>>
    BY <1>6 DEF EndsTick, clocks
  <2>3. \A q \in Streamed : sentAt'[q] <= clock
    BY <1>1, <2>1 DEF OnTime
  <2>4. ASSUME punctual, NEW q \in Streamed \cap recording'
        PROVE  clock <= sentAt'[q] + IF flight[q] = NoFrame THEN Served ELSE Delay
    <3>1. CASE q \in more
      BY <1>1, <2>1, <3>1, Consts
    <3>2. CASE q \notin more
      BY <2>1, <2>4, <3>2 DEF OnTime
    <3> QED  BY <3>1, <3>2
  <2> QED  BY <2>2, <2>3, <2>4 DEF OnTime
<1>7. CASE \/ Corrected \/ AsksPatch \/ AsksStop \/ Cancels \/ TickFires \/ StagesScrapes
           \/ LocalPasses \/ SleepsGrace \/ EndsStop \/ TakesCommand \/ UNCHANGED dpvars
           \/ \E s \in Scraped : Scrapes(s)
  BY <1>2, <1>7 DEF Corrected, AsksPatch, AsksStop, Ask, Cancels, TickFires, StagesScrapes,
     LocalPasses, SleepsGrace, EndsStop, TakesCommand, Scrapes, dpvars, clocks, producers
<1>8. CASE DrainsFrames \/ TakesArrival \/ Awaits
  BY <1>2, <1>8 DEF DrainsFrames, TakesArrival, Awaits, WaitEnds, TakesFrame, clocks, producers
<1> QED  BY <1>3, <1>4, <1>5, <1>6, <1>7, <1>8 DEF DPNext

\* Nothing is sent, brought or taken; the wait may end.
LEMMA HeardStill ==
    ASSUME Heard, UNCHANGED <<flight, sentAt, arrived, lastFrame, recording, stop, deadline, punctual>>,
           at' = at \/ at' # "await", punctual => ended' = ended \/ ended' # "out of time"
    PROVE  Heard'
<1>1. \A s : NewestCovers(s)' <=> NewestCovers(s)
  BY DEF NewestCovers, Good, Covers
<1>2. Began' = Began
  BY DEF Began, LongestWait
<1>3. (/\ \A s \in Streamed : flight[s] # NoFrame => flight[s].is # "none"
       /\ \A i \in DOMAIN arrived : arrived[i].frame.is # "none")'
  BY DEF Heard
<1>4. (punctual => ended # "out of time")'
  BY DEF Heard
<1>5. ASSUME at' = "await", NEW s \in Streamed
      PROVE  (/\ flight[s].is = "rows" /\ sentAt[s] > Began => flight[s].wall >= stop.wall
              /\ punctual /\ s \in recording
                 /\ sentAt[s] > Began + (IF flight[s] = NoFrame THEN 0 ELSE Served)
                 => NewestCovers(s))'
  BY <1>1, <1>2, <1>5 DEF Heard
<1> QED  BY <1>3, <1>4, <1>5 DEF Heard

\* A wait that begins is later than every frame that was sent.
LEMMA HeardAnew ==
    ASSUME Typed, Heard, UNCHANGED <<flight, arrived, punctual, ended>>,
           at' = "await" => deadline' = clock + LongestWait,
           \A s \in Streamed : sentAt'[s] \in Nat /\ sentAt'[s] <= clock
    PROVE  Heard'
<1>1. at' = "await" => Began' = clock
  BY TypedClocks, WaitIsNat DEF Began, LongestWait
<1>2. /\ \A s \in Streamed : flight'[s] # NoFrame => flight'[s].is # "none"
      /\ \A i \in DOMAIN arrived' : arrived'[i].frame.is # "none"
      /\ punctual' => ended' # "out of time"
  BY DEF Heard
<1>3. ASSUME at' = "await", NEW s \in Streamed
      PROVE  ~(sentAt'[s] > Began')
             /\ ~(sentAt'[s] > Began' + (IF flight'[s] = NoFrame THEN 0 ELSE Served))
  BY <1>1, <1>3, TypedClocks, Consts
<1> QED  BY <1>2, <1>3 DEF Heard

LEMMA HeardServes ==
    ASSUME Typed, Heard, Dated, OnTime, Where, NEW s \in Streamed, Serves(s)
    PROVE  Heard'
<1>1. PICK f \in Frames : flight' = [flight EXCEPT ![s] = f]
  BY DEF Serves
<1>2. /\ sentAt' = [sentAt EXCEPT ![s] = clock] /\ flight[s] = NoFrame /\ s \in recording
      /\ UNCHANGED <<clock, arrived, lastFrame, recording, stop, deadline, punctual, ended, at>>
      /\ sentAt \in [Streamed -> Nat] /\ flight \in [Streamed -> Frame]
  BY DEF Serves, clocks, tails, Typed
<1>3. f # NoFrame /\ f.is \in {"rows", "empty"} /\ (f.is = "rows" => f.wall = HostWall)
  BY FramesAreFrames
<1>4. \A q : NewestCovers(q)' <=> NewestCovers(q)
  BY <1>2 DEF NewestCovers, Good, Covers
<1>5. Began' = Began
  BY <1>2 DEF Began, LongestWait
<1>6. (/\ \A q \in Streamed : flight[q] # NoFrame => flight[q].is # "none"
       /\ \A i \in DOMAIN arrived : arrived[i].frame.is # "none"
       /\ punctual => ended # "out of time")'
  BY <1>1, <1>2, <1>3 DEF Heard
<1>7. ASSUME at = "await", NEW q \in Streamed
      PROVE  /\ flight'[q].is = "rows" /\ sentAt'[q] > Began => flight'[q].wall >= stop.wall
             /\ punctual /\ q \in recording
                /\ sentAt'[q] > Began + (IF flight'[q] = NoFrame THEN 0 ELSE Served)
                => NewestCovers(q)
  <2>1. CASE q # s
    <3>1. flight'[q] = flight[q] /\ sentAt'[q] = sentAt[q]
      BY <1>1, <1>2, <2>1
    <3> QED  BY <1>7, <3>1 DEF Heard
  <2>2. CASE q = s
    <3>1. flight'[q] = f /\ sentAt'[q] = clock
      BY <1>1, <1>2, <2>2
    <3>2. HostWall >= stop.wall
      <4>1. stop \in Command /\ stop.kind = "exit"
        BY <1>7, StopKinds DEF Where, Typed
      <4>2. Stopping(stop) /\ HostWall \in Int /\ stop.wall \in Int
        BY <4>1, TypedClocks, TimesAreInts DEF Stopping
      <4> QED  BY <4>1, <4>2 DEF Dated
    <3>3. ASSUME punctual, clock > Began + Served
          PROVE  NewestCovers(s)
      <4>1. clock <= sentAt[s] + Served
        BY <1>2, <3>3 DEF OnTime
      <4>2. sentAt[s] > Began + 0
        BY <3>3, <4>1, TypedClocks, SentTypes, WaitIsNat, Consts DEF Began
      <4> QED  BY <1>2, <1>7, <3>3, <4>2 DEF Heard
    <3> QED  BY <1>3, <2>2, <3>1, <3>2, <3>3
  <2> QED  BY <2>1, <2>2
<1>8. ASSUME at' = "await", NEW q \in Streamed
      PROVE  (/\ flight[q].is = "rows" /\ sentAt[q] > Began => flight[q].wall >= stop.wall
              /\ punctual /\ q \in recording
                 /\ sentAt[q] > Began + (IF flight[q] = NoFrame THEN 0 ELSE Served)
                 => NewestCovers(q))'
  BY <1>2, <1>4, <1>5, <1>7, <1>8
<1> QED  BY <1>6, <1>8 DEF Heard

LEMMA HeardArrives ==
    ASSUME Typed, Heard, NEW s \in Streamed, FrameArrives(s)
    PROVE  Heard'
<1> DEFINE f == flight[s]
           a == [src |-> s, frame |-> f]
<1>1. /\ arrived' = Append(arrived, a) /\ flight[s] # NoFrame
      /\ flight' = [flight EXCEPT ![s] = NoFrame]
      /\ UNCHANGED <<sentAt, lastFrame, recording, stop, deadline, punctual, ended, at>>
      /\ flight \in [Streamed -> Frame]
  BY DEF FrameArrives, tails, Typed
<1>2. f = flight[s] /\ f \in Frame
  BY SentTypes
<1>3. flight[s].is \in {"rows", "empty"}
  BY <1>1, SentTypes DEF Heard, Frame
<1> HIDE DEF f
<1>4. a.src = s /\ a.frame = f /\ a \in Arrival
  BY <1>2 DEF Arrival
<1> HIDE DEF a
<1>5. /\ DOMAIN arrived = 1..Len(arrived) /\ Len(arrived) \in Nat
      /\ DOMAIN arrived' = 1..(Len(arrived) + 1)
      /\ \A i \in DOMAIN arrived : arrived'[i] = arrived[i]
      /\ arrived'[Len(arrived) + 1] = a
  <2> arrived \in Seq(Arrival)
    BY DEF Typed
  <2> QED  BY <1>1, <1>4, AppendProperties, LenProperties
<1>6. Began' = Began /\ \A g : Good(g)' <=> Good(g)
  BY <1>1 DEF Began, LongestWait, Good
<1>7. (/\ \A q \in Streamed : flight[q] # NoFrame => flight[q].is # "none"
       /\ \A i \in DOMAIN arrived : arrived[i].frame.is # "none"
       /\ punctual => ended # "out of time")'
  <2>1. \A q \in Streamed : flight'[q] # NoFrame => flight'[q].is # "none"
    BY <1>1 DEF Heard
  <2>2. a.frame.is # "none"
    BY <1>2, <1>3, <1>4
  <2>3. \A i \in DOMAIN arrived' : arrived'[i].frame.is # "none"
    <3>1. \A i \in DOMAIN arrived : arrived'[i].frame.is # "none"
      BY <1>5 DEF Heard
    <3>2. \A i \in DOMAIN arrived' : i \in DOMAIN arrived \/ arrived'[i] = a
      BY <1>5
    <3> QED  BY <2>2, <3>1, <3>2
  <2> QED  BY <1>1, <2>1, <2>3 DEF Heard
<1>8. ASSUME NEW q \in Streamed, q # s, NewestCovers(q) PROVE NewestCovers(q)'
  <2>1. ASSUME NEW i \in DOMAIN arrived', arrived'[i].src = q,
               \A j \in DOMAIN arrived' : j > i => arrived'[j].src # q
        PROVE  Good(arrived'[i].frame)
    <3>1. i \in DOMAIN arrived /\ arrived'[i] = arrived[i]
      BY <1>4, <1>5, <1>8, <2>1
    <3>2. \A j \in DOMAIN arrived : j > i => arrived[j].src # q
      BY <1>5, <2>1
    <3>3. Good(arrived[i].frame)
      BY <1>8, <2>1, <3>1, <3>2 DEF NewestCovers
    <3> QED  BY <3>1, <3>3
  <2>2. ASSUME \A i \in DOMAIN arrived' : arrived'[i].src # q
        PROVE  Covers(lastFrame[q])'
    <3>1. \A i \in DOMAIN arrived : arrived[i].src # q
      BY <1>5, <2>2
    <3> QED  BY <1>1, <1>8, <3>1 DEF NewestCovers, Covers
  <2> QED  BY <1>6, <2>1, <2>2 DEF NewestCovers
<1>9. ASSUME f.is = "empty" \/ f.wall >= stop.wall PROVE NewestCovers(s)'
  <2>1. Good(f)
    BY <1>2, <1>3, <1>9 DEF Good
  <2>2. ASSUME NEW i \in DOMAIN arrived', arrived'[i].src = s,
               \A j \in DOMAIN arrived' : j > i => arrived'[j].src # s
        PROVE  Good(arrived'[i].frame)
    <3>1. i = Len(arrived) + 1
      BY <1>4, <1>5, <2>2
    <3> QED  BY <1>4, <1>5, <2>1, <3>1
  <2>3. ~\A i \in DOMAIN arrived' : arrived'[i].src # s
    BY <1>4, <1>5
  <2> QED  BY <1>6, <2>2, <2>3 DEF NewestCovers
<1>10. ASSUME at = "await", NEW q \in Streamed
       PROVE  /\ flight'[q].is = "rows" /\ sentAt[q] > Began => flight'[q].wall >= stop.wall
              /\ punctual /\ q \in recording
                 /\ sentAt[q] > Began + (IF flight'[q] = NoFrame THEN 0 ELSE Served)
                 => NewestCovers(q)'
  <2>1. CASE q # s
    <3>1. flight'[q] = flight[q]
      BY <1>1, <2>1
    <3> QED  BY <1>8, <1>10, <2>1, <3>1 DEF Heard
  <2>2. CASE q = s
    <3>1. flight'[q] = NoFrame /\ NoFrame.is # "rows"
      BY <1>1, <2>2 DEF NoFrame
    <3>2. sentAt[s] > Began + 0 => sentAt[s] > Began
      BY TypedClocks, WaitIsNat, SentTypes DEF Began
    <3>3. sentAt[s] > Began => f.is = "empty" \/ f.wall >= stop.wall
      BY <1>2, <1>3, <1>10, <2>2 DEF Heard
    <3> QED  BY <1>9, <2>2, <3>1, <3>2, <3>3
  <2> QED  BY <2>1, <2>2
<1>11. ASSUME at' = "await", NEW q \in Streamed
       PROVE  (/\ flight[q].is = "rows" /\ sentAt[q] > Began => flight[q].wall >= stop.wall
               /\ punctual /\ q \in recording
                  /\ sentAt[q] > Began + (IF flight[q] = NoFrame THEN 0 ELSE Served)
                  => NewestCovers(q))'
  BY <1>1, <1>6, <1>10, <1>11
<1> QED  BY <1>7, <1>11 DEF Heard

LEMMA HeardTakes ==
    ASSUME Typed, Heard, Dated, Where, TakesFrame, at' = at, UNCHANGED tails
    PROVE  Heard'
<1> DEFINE s == Head(arrived).src
           f == Head(arrived).frame
           new == IF f.is = "rows" THEN f ELSE [f EXCEPT !.wall = HostWall]
<1>1. /\ lastFrame' = [lastFrame EXCEPT ![s] = new] /\ arrived' = Tail(arrived)
      /\ UNCHANGED <<flight, sentAt, recording, stop, deadline, punctual, ended, at>>
      /\ lastFrame \in [Streamed -> Frame]
  BY DEF TakesFrame, tails, producers, Typed
<1>2. /\ s \in Streamed /\ f \in Frame /\ s = arrived[1].src /\ f = arrived[1].frame
      /\ 1 \in DOMAIN arrived
      /\ DOMAIN arrived = 1..Len(arrived) /\ Len(arrived) \in Nat
      /\ DOMAIN arrived' = 1..(Len(arrived) - 1)
      /\ \A i \in DOMAIN arrived' : i + 1 \in DOMAIN arrived /\ arrived'[i] = arrived[i + 1]
  BY ArrivalTypes DEF TakesFrame, Typed
<1>3. f.is \in {"rows", "empty"}
  BY <1>2 DEF Heard, Frame
<1>4. new.is = f.is /\ (f.is = "rows" => new.wall = f.wall)
      /\ (f.is = "empty" => new.wall = HostWall)
  <2> HIDE DEF s, f
  <2> QED  BY <1>2 DEF Frame
<1> HIDE DEF s, f, new
<1>5. Began' = Began /\ \A g : (Good(g)' <=> Good(g)) /\ (Covers(g)' <=> Covers(g))
  BY <1>1 DEF Began, LongestWait, Good, Covers
<1>6. (/\ \A q \in Streamed : flight[q] # NoFrame => flight[q].is # "none"
       /\ \A i \in DOMAIN arrived : arrived[i].frame.is # "none"
       /\ punctual => ended # "out of time")'
  BY <1>1, <1>2 DEF Heard
<1>7. ASSUME at = "await", NEW q \in Streamed, NewestCovers(q) PROVE NewestCovers(q)'
  <2>1. ASSUME NEW i \in DOMAIN arrived', arrived'[i].src = q,
               \A j \in DOMAIN arrived' : j > i => arrived'[j].src # q
        PROVE  Good(arrived'[i].frame)
    <3>1. i + 1 \in DOMAIN arrived /\ arrived[i + 1].src = q
      BY <1>2, <2>1
    <3>2. ASSUME NEW j \in DOMAIN arrived, j > i + 1 PROVE arrived[j].src # q
      <4>1. j - 1 \in DOMAIN arrived' /\ j - 1 > i /\ arrived'[j - 1] = arrived[j]
        <5>1. j - 1 \in DOMAIN arrived' /\ j - 1 > i /\ (j - 1) + 1 = j
          BY <1>2, <2>1, <3>2
        <5> QED  BY <1>2, <5>1
      <4> QED  BY <2>1, <4>1
    <3>3. Good(arrived[i + 1].frame)
      BY <1>7, <3>1, <3>2 DEF NewestCovers
    <3> QED  BY <1>2, <3>3
  <2>2. ASSUME \A i \in DOMAIN arrived' : arrived'[i].src # q
        PROVE  Covers(lastFrame'[q])
    <3>1. ASSUME NEW j \in DOMAIN arrived, j > 1 PROVE arrived[j].src # q
      <4>1. j - 1 \in DOMAIN arrived' /\ (j - 1) + 1 = j
        BY <1>2, <3>1
      <4> QED  BY <1>2, <2>2, <4>1
    <3>2. CASE q = s
      <4>1. Good(f)
        BY <1>2, <1>7, <3>1, <3>2 DEF NewestCovers
      <4>2. HostWall >= stop.wall
        <5>1. stop \in Command /\ stop.kind = "exit"
          BY <1>7, StopKinds DEF Where, Typed
        <5>2. Stopping(stop) /\ HostWall \in Int /\ stop.wall \in Int
          BY <5>1, TypedClocks, TimesAreInts DEF Stopping
        <5> QED  BY <5>1, <5>2 DEF Dated
      <4>3. new.wall >= stop.wall
        BY <1>3, <1>4, <4>1, <4>2 DEF Good
      <4>4. new # NoFrame
        BY <1>3, <1>4 DEF NoFrame
      <4> QED  BY <1>1, <3>2, <4>3, <4>4 DEF Covers
    <3>3. CASE q # s
      <4>1. \A i \in DOMAIN arrived : arrived[i].src # q
        <5> SUFFICES ASSUME NEW i \in DOMAIN arrived PROVE arrived[i].src # q
          OBVIOUS
        <5>1. CASE i = 1
          BY <1>2, <3>3, <5>1
        <5>2. CASE i > 1
          BY <3>1, <5>2
        <5> QED  BY <1>2, <5>1, <5>2
      <4>2. Covers(lastFrame[q])
        BY <1>7, <4>1 DEF NewestCovers
      <4> QED  BY <1>1, <3>3, <4>2
    <3> QED  BY <3>2, <3>3
  <2> QED  BY <1>5, <2>1, <2>2 DEF NewestCovers
<1>8. ASSUME at' = "await", NEW q \in Streamed
      PROVE  (/\ flight[q].is = "rows" /\ sentAt[q] > Began => flight[q].wall >= stop.wall
              /\ punctual /\ q \in recording
                 /\ sentAt[q] > Began + (IF flight[q] = NoFrame THEN 0 ELSE Served)
                 => NewestCovers(q))'
  BY <1>1, <1>5, <1>7, <1>8 DEF Heard
<1> QED  BY <1>6, <1>8 DEF Heard

\* On producers that serve on time, every source is covered before the wait
\* runs out.
LEMMA InTimeIfPunctual ==
    ASSUME Typed, Heard, OnTime, punctual, at = "await", arrived = <<>>,
           clock >= deadline, Waiting # {}
    PROVE  FALSE
<1>1. PICK s \in Streamed \cap recording : ~Covers(lastFrame[s])
  BY DEF Waiting
<1>2. /\ clock \in Nat /\ deadline \in Nat /\ sentAt[s] \in Nat /\ LongestWait \in Nat
      /\ LongestWait >= Served + Timeout
  BY TypedClocks, SentTypes, WaitIsNat
<1>3. clock <= sentAt[s] + IF flight[s] = NoFrame THEN Served ELSE Delay
  BY DEF OnTime
<1>4. sentAt[s] > Began + (IF flight[s] = NoFrame THEN 0 ELSE Served)
  BY <1>2, <1>3, Consts DEF Began
<1>5. NewestCovers(s)
  BY <1>4 DEF Heard
<1>6. DOMAIN arrived = {}
  BY EmptySeq
<1> QED  BY <1>1, <1>5, <1>6 DEF NewestCovers

LEMMA HeardStep ==
    ASSUME Typed, Where, OnTime, Dated, Heard, [DPNext]_dpvars
    PROVE  Heard'
<1>1. CASE \/ Elapses \/ Corrected \/ AsksPatch \/ AsksStop \/ Cancels \/ TickFires
           \/ StagesScrapes \/ SleepsGrace \/ EndsStop \/ UNCHANGED dpvars
           \/ \E s \in Scraped : Scrapes(s)
  BY <1>1, HeardStill DEF Elapses, Corrected, AsksPatch, AsksStop, Ask, Cancels, TickFires,
     StagesScrapes, SleepsGrace, EndsStop, Scrapes, dpvars, producers, tails
<1>2. ASSUME NEW s \in Streamed, Serves(s) \/ FrameArrives(s) PROVE Heard'
  BY <1>2, HeardServes, HeardArrives
<1>3. CASE DrainsFrames \/ TakesArrival
  BY <1>3, HeardTakes DEF DrainsFrames, TakesArrival
<1>4. \A s \in Streamed : sentAt[s] \in Nat /\ sentAt[s] <= clock
  BY SentTypes DEF OnTime
<1>5. CASE LocalPasses
  BY <1>4, <1>5, HeardAnew DEF LocalPasses, producers
<1>6. ASSUME NEW prev, Takes(prev), at # "await"
      PROVE  ended' = ended /\ (at' = "await" => deadline' = clock + LongestWait)
  BY <1>6 DEF Takes, TakesStop, tails
<1>7. CASE TakesCommand
  BY <1>4, <1>6, <1>7, HeardAnew DEF TakesCommand, producers
<1>8. CASE EndsTick
  <2>1. ended' = ended /\ (at' = "await" => deadline' = clock + LongestWait)
    BY <1>6, <1>8 DEF EndsTick, AfterTick, tails
  <2>2. \A s \in Streamed : sentAt'[s] \in Nat /\ sentAt'[s] <= clock
    BY <1>4, <1>8, TypedClocks DEF EndsTick
  <2> QED  BY <1>8, <2>1, <2>2, HeardAnew DEF EndsTick
<1>9. CASE Awaits
  <2>1. CASE TakesFrame /\ UNCHANGED <<at, tails>>
    BY <2>1, HeardTakes
  <2>2. ASSUME NEW how, WaitEnds(how), punctual => how # "out of time" PROVE Heard'
    BY <2>2, HeardStill DEF WaitEnds, producers
  <2>3. CASE Waiting # {} /\ arrived = <<>> /\ clock >= deadline /\ WaitEnds("out of time")
    BY <1>9, <2>2, <2>3, InTimeIfPunctual DEF Awaits
  <2>4. CASE WaitEnds("cancelled") \/ WaitEnds("covered")
    BY <2>2, <2>4
  <2> QED  BY <1>9, <2>1, <2>3, <2>4 DEF Awaits
<1> QED  BY <1>1, <1>2, <1>3, <1>5, <1>7, <1>8, <1>9 DEF DPNext

-----------------------------------------------------------------------------
(* The invariant, and what follows from it.                                *)

LEMMA PassesInit == DPInit => DPInv
<1> SUFFICES ASSUME DPInit PROVE DPInv  OBVIOUS
<1>1. Typed /\ InTurn /\ Where
  BY TypedInit, TurnInit
<1>2. /\ clock = 0 /\ offset = 1 /\ begun = NoPass /\ stop = NoStop /\ commands = <<>>
      /\ fresh = {} /\ \A s \in Scraped : scraping[s] = NoScrape
      /\ \A s \in Streamed : sentAt[s] = 0 /\ flight[s] = NoFrame
      /\ arrived = <<>> /\ at = "idle" /\ ended = "not"
  BY DEF DPInit
<1>3. OnTime
  BY <1>2, Consts DEF OnTime
<1>4. Heard
  BY <1>2, EmptySeq DEF Heard
<1>5. \A c \in Command : ~Stopping(c)
  BY <1>2, EmptySeq DEF Stopping, NoStop
<1>6. Dated
  <2>1. begun.ts = -1 /\ begun.wall = -1 /\ HostWall = 1 /\ ~InPass /\ stop.kind = "none"
    BY <1>2 DEF NoPass, HostWall, InPass, NoStop
  <2>2. \A s \in Scraped : scraping[s].at = "none"
    <3>1. NoScrape.at = "none"
      BY DEF NoScrape
    <3> QED  BY <1>2, <3>1
  <2>3. \A w, r : Reaches(w, r)
    BY <1>2 DEF Reaches
  <2>4. begun.ts <= clock /\ begun.wall <= HostWall /\ begun.ts >= -1
    BY <1>2, <2>1
  <2> QED  BY <1>5, <2>1, <2>2, <2>3, <2>4 DEF Dated
<1> QED  BY <1>1, <1>3, <1>4, <1>6 DEF DPInv

LEMMA PassesStep == DPInv /\ [DPNext]_dpvars => DPInv'
<1> SUFFICES ASSUME DPInv, [DPNext]_dpvars PROVE DPInv'  OBVIOUS
<1>1. Typed /\ InTurn /\ Where /\ OnTime /\ (~back => Dated /\ Heard)
  BY DEF DPInv
<1>2. Typed' /\ InTurn' /\ Where' /\ OnTime'
  BY <1>1, TypedNext, InTurnStep, WhereStep, OnTimeStep
<1>3. ~back' => ~back
  BY DEF DPNext, dpvars, Elapses, Corrected, AsksPatch, AsksStop, Ask, Cancels, Serves,
         FrameArrives, TickFires, StagesScrapes, LocalPasses, DrainsFrames, EndsTick,
         Scrapes, TakesCommand, TakesArrival, SleepsGrace, Awaits, WaitEnds, EndsStop,
         TakesFrame, clocks
<1>4. ~back' => Dated' /\ Heard'
  BY <1>1, <1>3, DatedStep, HeardStep
<1> QED  BY <1>2, <1>4 DEF DPInv

LEMMA PassesAlways == DPSpec => []DPInv
  BY PassesInit, PassesStep, PTL DEF DPSpec

\* A recording that stops for a command's exit ends after the exit, for any
\* sources, interval, timeout and bound, unless the wall clock is set back:
\* what succeeded last was stamped and read after it, and the wait for
\* streams does not run out on producers that serve on time (recorder.rs:
\* finish, await_frames).
THEOREM PassesEndAtTheExit == DPSpec => []EndsAtTheExit
<1>1. DPInv => EndsAtTheExit
  <2> SUFFICES ASSUME DPInv, Ended, ~back
               PROVE  /\ \A s \in fresh : newest[s].wall >= stop.wall /\ newest[s].read >= stop.at
                      /\ punctual => ended # "out of time"
    BY DEF EndsAtTheExit
  <2>1. Dated /\ Heard /\ at = "stopped" /\ stop.kind = "exit"
    BY DEF DPInv, Ended
  <2> QED  BY <2>1 DEF Dated, Heard, Reaches
<1> QED  BY <1>1, PassesAlways, PTL

=============================================================================
