----------------------------- MODULE GroupEntry -----------------------------
(***************************************************************************)
(* One entry of a counter or gauge group under lock-free writers           *)
(* (metriken/src/group/counter.rs and group/gauge.rs).                     *)
(*                                                                         *)
(* The values are allocated whole by the first write, every entry holding  *)
(* the sentinel that reads as never written, unless an external slice,     *)
(* which starts at zero, was attached before.  `add` replaces the sentinel *)
(* and adds to anything else, in a compare-exchange loop that may also     *)
(* fail for no reason; the sentinel is a value the sum can reach.          *)
(***************************************************************************)
EXTENDS Integers

CONSTANTS Adders,           \* threads that write the entry
          Amounts,          \* what one add may add
          Modulus,          \* the width of the entry: 2^64 in the code
          MaxWrites         \* bound: writes begun

ASSUME GEAssumption ==
    /\ Modulus \in Nat \ {0, 1} /\ Amounts \subseteq 0..Modulus - 1
    /\ MaxWrites \in Nat

Unwritten == Modulus - 1
NotAllocated == -1

VARIABLES entry,            \* the entry, NotAllocated before the array is
          external,         \* the array is the caller's
          step,             \* each writer's step
          amount, current,  \* its argument and the value it last loaded
          begun,            \* writes begun
          landed,           \* the sum of the writes that took effect
          met               \* the entry held the sentinel by arithmetic

gevars == <<entry, external, step, amount, current, begun, landed, met>>

GEInit ==
    /\ entry = NotAllocated /\ external = FALSE
    /\ step = [t \in Adders |-> "idle"]
    /\ amount = [t \in Adders |-> 0]
    /\ current = [t \in Adders |-> 0]
    /\ begun = 0 /\ landed = 0 /\ met = FALSE

\* attach_external: a no-op once the array is there.
Attach ==
    /\ entry = NotAllocated
    /\ entry' = 0 /\ external' = TRUE
    /\ UNCHANGED <<step, amount, current, begun, landed, met>>

\* get_or_init, and the first load.
AddBegin(t) ==
    /\ begun < MaxWrites
    /\ step[t] = "idle"
    /\ step' = [step EXCEPT ![t] = "swap"]
    /\ \E a \in Amounts : amount' = [amount EXCEPT ![t] = a]
    /\ entry' = IF entry = NotAllocated THEN Unwritten ELSE entry
    /\ current' = [current EXCEPT ![t] = entry']
    /\ begun' = begun + 1
    /\ UNCHANGED <<external, landed, met>>

\* A variant: the sentinel is added to like any value.
SumOfAnything(c, a) == (c + a) % Modulus

\* The new value: in an external entry too, the sentinel reads as zero.
SumOf(c, a) == IF c = Unwritten THEN a ELSE (c + a) % Modulus

AddSwap(t) ==
    /\ step[t] = "swap"
    /\ entry = current[t]
    /\ entry' = SumOf(current[t], amount[t])
    /\ step' = [step EXCEPT ![t] = "idle"]
    /\ landed' = landed + amount[t]
    /\ met' = (met \/ entry' = Unwritten)
    /\ current' = [current EXCEPT ![t] = 0]
    /\ amount' = [amount EXCEPT ![t] = 0]
    /\ UNCHANGED <<external, begun>>

\* The exchange fails, because of another writer or spuriously, and the
\* value found is the next one compared.
AddRetry(t) ==
    /\ step[t] = "swap"
    /\ current' = [current EXCEPT ![t] = entry]
    /\ UNCHANGED <<entry, external, step, amount, begun, landed, met>>

GENext == Attach \/ \E t \in Adders : AddBegin(t) \/ AddSwap(t) \/ AddRetry(t)

GESpec == GEInit /\ [][GENext]_gevars

-----------------------------------------------------------------------------
GETypeOK ==
    /\ entry \in {NotAllocated} \cup 0..Modulus - 1 /\ external \in BOOLEAN
    /\ step \in [Adders -> {"idle", "swap"}]
    /\ amount \in [Adders -> 0..Modulus - 1]
    /\ current \in [Adders -> 0..Modulus - 1]
    /\ begun \in Nat /\ landed \in Nat /\ met \in BOOLEAN

\* What a reader gets: nothing before the first write took effect, and then
\* exactly the writes that did, modulo the width, however the writers
\* interleave, unless the sum itself met the sentinel: no write is lost,
\* added twice, or added to the sentinel (the docs of CounterGroup and of
\* CounterGroup::add).
ReadsTheSum ==
    ~met =>
        \/ entry = NotAllocated /\ landed = 0
        \/ entry = Unwritten /\ landed = 0 /\ ~external
        \/ entry = landed % Modulus /\ entry # Unwritten
=============================================================================
