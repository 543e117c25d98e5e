------------------------------- MODULE Registry -------------------------------
(***************************************************************************)
(* The registry of metrics (metriken-core/src/dynmetrics.rs, metrics.rs):  *)
(* a static list, then the dynamic metrics in the order of their           *)
(* addresses.  Readers hold its guard for a whole walk, and who registers  *)
(* or drops a dynamic metric waits for them.                               *)
(***************************************************************************)
EXTENDS Naturals, Sequences, FiniteSets

CONSTANTS NumStatic,        \* the static metrics
          Addresses,        \* where dynamic metrics are allocated
          MaxNames          \* bound: names ever registered

ASSUME RegistryAssumption ==
    /\ NumStatic \in Nat
    /\ Addresses \subseteq Nat /\ IsFiniteSet(Addresses)
    /\ MaxNames \in Nat

Unregistered == 0

VARIABLES
    alive,                  \* the addresses that hold a dynamic metric
    entries,                \* DynMetricsRegistry.metrics: per address a name
    names                   \* the last name registered

registryVars == <<alive, entries, names>>

RegistryInit ==
    /\ alive = {}
    /\ entries = [a \in Addresses |-> Unregistered]
    /\ names = 0

-----------------------------------------------------------------------------
\* DynPinnedMetric::register: the entry goes under the metric's address.
Register(a) ==
    /\ names < MaxNames
    /\ names' = names + 1
    /\ entries' = [entries EXCEPT ![a] = names']

\* MetricBuilder::build: allocate and register.
BuildDynamic(a) ==
    /\ a \notin alive
    /\ alive' = alive \cup {a}
    /\ Register(a)

\* register, called again on a pinned metric.
RegisterAgain(a) ==
    /\ a \in alive
    /\ Register(a)
    /\ UNCHANGED alive

\* Drop: unregister by address.
Removed(a) == [entries EXCEPT ![a] = Unregistered]

DropDynamic(a) ==
    /\ a \in alive
    /\ alive' = alive \ {a}
    /\ entries' = Removed(a)
    /\ UNCHANGED names

RegistryNext == \E a \in Addresses : BuildDynamic(a) \/ RegisterAgain(a) \/ DropDynamic(a)

\* Metrics::iter: the dynamic metrics of a walk come in the order of their
\* addresses; the n-th has n listed addresses up to its own.
Registered == {a \in Addresses : entries[a] # Unregistered}
NumRegistered == NumStatic + Cardinality(Registered)
ListedAt(n) == CHOOSE a \in Registered : Cardinality({b \in Registered : b <= a}) = n
NameAt(p) == entries[ListedAt(p - NumStatic)]
-----------------------------------------------------------------------------
RegistryTypeOK ==
    /\ alive \subseteq Addresses
    /\ entries \in [Addresses -> 0..MaxNames]
    /\ names \in 0..MaxNames
=============================================================================
