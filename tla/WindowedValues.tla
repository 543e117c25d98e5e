--------------------------- MODULE WindowedValues ---------------------------
(***************************************************************************)
(* A value and the window it was read over, written and read as a pair     *)
(* (metriken/src/window_cell.rs, windowed.rs, group/windows.rs, the        *)
(* set_with_window and load_with_window of group/counter.rs and            *)
(* group/gauge.rs, and the two histograms of histogram.rs).                *)
(*                                                                         *)
(* The window's lock is allocated by the first windowed write.  A writer   *)
(* stores the value and then the window under it; a reader that finds it   *)
(* allocated reads both under it, and one that does not reads the value    *)
(* with no lock and pairs it with no window.                               *)
(*                                                                         *)
(* kind "scalar" is WindowedLazyCounter and WindowedLazyGauge, "group" an  *)
(* entry of a windowed group, "histogram" RwLockCounterHistogram and       *)
(* "gauge_histogram" GaugeHistogram, whose plain set clears the window,    *)
(* each read by load_with_window; "exposed" is a histogram read as         *)
(* exposition does: value_with_window, then load on the value it returned. *)
(* The n-th call to get the lock writes value n and window n.              *)
(***************************************************************************)
EXTENDS Integers

CONSTANTS Callers,
          Kinds,            \* the kinds of metric considered
          MaxCalls,         \* bound: windowed writes
          MaxReads          \* bound: reads

Absent  == -1               \* never forced, or the UNWRITTEN sentinel
Zeroed  == 0                \* allocated, not yet stored to
NoWindow == 0
Nobody  == "nobody"

ASSUME WVAssumption ==
    /\ Kinds \subseteq {"scalar", "group", "histogram", "gauge_histogram", "exposed"}
    /\ Nobody \notin Callers
    /\ MaxCalls \in Nat /\ MaxReads \in Nat

Histograms == {"histogram", "gauge_histogram", "exposed"}

VARIABLES kind,             \* the metric considered
          cell,             \* the lock is allocated
          value, window,    \* the metric
          holder,           \* the writer that holds the lock
          readers,          \* the readers that hold it
          pc, arg,          \* each thread's step, and the call it makes
          seen,             \* each reader's value, window so far
          calls, reads,     \* calls begun
          done,             \* the last write that returned
          since,            \* what had returned when a read began
          got               \* the last read that returned

wvvars == <<kind, cell, value, window, holder, readers, pc, arg, seen, calls,
            reads, done, since, got>>

NoPair == [value |-> Absent, window |-> NoWindow, since |-> 0]

WVInit ==
    /\ kind \in Kinds
    /\ cell = FALSE
    /\ value = Absent /\ window = NoWindow
    /\ holder = Nobody /\ readers = {}
    /\ pc = [t \in Callers |-> "idle"]
    /\ arg = [t \in Callers |-> 0]
    /\ seen = [t \in Callers |-> [value |-> Absent, window |-> NoWindow]]
    /\ calls = 0 /\ reads = 0 /\ done = 0
    /\ since = [t \in Callers |-> 0]
    /\ got = NoPair

Go(t, from, to) == pc[t] = from /\ pc' = [pc EXCEPT ![t] = to]

-----------------------------------------------------------------------------
(* set_with_window *)

\* get_or_init: the lock, and for a histogram the buckets with it.  (A
\* group's values are allocated before, all of them unwritten.)
SetBegin(t) ==
    /\ calls < MaxCalls
    /\ Go(t, "idle", "acquire")
    /\ cell' = TRUE
    /\ value' = IF kind \in Histograms /\ ~cell THEN Zeroed ELSE value
    /\ UNCHANGED <<kind, window, holder, readers, arg, seen, calls, reads, done,
                   since, got>>

SetAcquire(t) ==
    /\ calls < MaxCalls
    /\ Go(t, "acquire", "force")
    /\ holder = Nobody /\ readers = {}
    /\ holder' = t
    /\ calls' = calls + 1
    /\ arg' = [arg EXCEPT ![t] = calls + 1]
    /\ UNCHANGED <<kind, cell, value, window, readers, seen, reads, done, since,
                   got>>

\* The store goes through the Lazy, which is initialised first.
SetForce(t) ==
    /\ Go(t, "force", "store")
    /\ value' = IF kind = "scalar" /\ value = Absent THEN Zeroed ELSE value
    /\ UNCHANGED <<kind, cell, window, holder, readers, arg, seen, calls, reads,
                   done, since, got>>

\* A variant: only the first call stores, when it initialises the value.
SetStoreOnInit(t) ==
    /\ Go(t, "store", "stamp")
    /\ value' = IF value < 1 THEN arg[t] ELSE value
    /\ UNCHANGED <<kind, cell, window, holder, readers, arg, seen, calls, reads,
                   done, since, got>>

SetStore(t) ==
    /\ Go(t, "store", "stamp")
    /\ value' = arg[t]
    /\ UNCHANGED <<kind, cell, window, holder, readers, arg, seen, calls, reads,
                   done, since, got>>

\* A variant: the guard is dropped before the window is recorded.
SetStampLate(t) ==
    \/ /\ Go(t, "stamp", "late")
       /\ holder' = Nobody
       /\ UNCHANGED <<kind, cell, value, window, readers, arg, seen, calls, reads,
                      done, since, got>>
    \/ /\ Go(t, "late", "idle")
       /\ window' = arg[t]
       /\ done' = arg[t]
       /\ UNCHANGED <<kind, cell, value, holder, readers, arg, seen, calls, reads,
                      since, got>>

\* The window, and the end of the guard.
SetStamp(t) ==
    /\ Go(t, "stamp", "idle")
    /\ window' \in {arg[t]} \cup (IF kind = "gauge_histogram" THEN {NoWindow} ELSE {})
    /\ holder' = Nobody
    /\ done' = arg[t]
    /\ UNCHANGED <<kind, cell, value, readers, arg, seen, calls, reads, since, got>>

-----------------------------------------------------------------------------
(* load_with_window, and value_with_window *)

\* Not allocated: a histogram has nothing to read, and the others read the
\* value as it is now.
BareValue == IF kind \in Histograms THEN Absent ELSE value

\* with_read: whether the lock is allocated decides how the pair is read.
ReadBegin(t) ==
    /\ reads < MaxReads
    /\ Go(t, "idle", IF cell THEN "share" ELSE "bare")
    /\ reads' = reads + 1
    /\ since' = [since EXCEPT ![t] = done]
    /\ seen' = [seen EXCEPT ![t] = [value |-> Absent, window |-> NoWindow]]
    /\ UNCHANGED <<kind, cell, value, window, holder, readers, arg, calls, done, got>>

ReadBare(t) ==
    /\ kind # "exposed"
    /\ Go(t, "bare", "idle")
    /\ got' = [value |-> BareValue, window |-> NoWindow, since |-> since[t]]
    /\ UNCHANGED <<kind, cell, value, window, holder, readers, arg, seen, calls,
                   reads, done, since>>

ReadShare(t) ==
    /\ kind # "exposed"
    /\ Go(t, "share", "value")
    /\ holder = Nobody
    /\ readers' = readers \cup {t}
    /\ UNCHANGED <<kind, cell, value, window, holder, arg, seen, calls, reads,
                   done, since, got>>

ReadValue(t) ==
    /\ Go(t, "value", "window")
    /\ seen' = [seen EXCEPT ![t].value = value]
    /\ UNCHANGED <<kind, cell, value, window, holder, readers, arg, calls, reads,
                   done, since, got>>

ReadWindow(t) ==
    /\ Go(t, "window", "idle")
    /\ readers' = readers \ {t}
    /\ got' = [value |-> seen[t].value, window |-> window, since |-> since[t]]
    /\ UNCHANGED <<kind, cell, value, window, holder, arg, seen, calls, reads,
                   done, since>>

\* value_with_window of a histogram reads the window under the lock and
\* returns the metric itself; the snapshotter then loads its buckets.
ExposeWindow(t) ==
    /\ kind = "exposed"
    /\ \/ Go(t, "share", "load") /\ holder = Nobody
          /\ seen' = [seen EXCEPT ![t].window = window]
       \/ Go(t, "bare", "load") /\ UNCHANGED seen
    /\ UNCHANGED <<kind, cell, value, window, holder, readers, arg, calls, reads,
                   done, since, got>>

ExposeLoad(t) ==
    /\ Go(t, "load", "idle")
    /\ cell => holder = Nobody
    /\ got' = [value |-> value, window |-> seen[t].window, since |-> since[t]]
    /\ UNCHANGED <<kind, cell, value, window, holder, readers, arg, seen, calls,
                   reads, done, since>>

-----------------------------------------------------------------------------
WVSet(t) ==
    \/ SetBegin(t) \/ SetAcquire(t) \/ SetForce(t) \/ SetStore(t) \/ SetStamp(t)

WVRead(t) ==
    \/ ReadBegin(t) \/ ReadBare(t) \/ ReadShare(t) \/ ReadValue(t) \/ ReadWindow(t)
    \/ ExposeWindow(t) \/ ExposeLoad(t)

WVNext == \E t \in Callers : WVSet(t) \/ WVRead(t)

WVSpec == WVInit /\ [][WVNext]_wvvars

-----------------------------------------------------------------------------
WVTypeOK ==
    /\ kind \in Kinds /\ cell \in BOOLEAN
    /\ value \in Int /\ window \in Nat
    /\ holder \in Callers \cup {Nobody} /\ readers \subseteq Callers
    /\ pc \in [Callers -> {"idle", "acquire", "force", "store", "stamp",
                           "bare", "share", "value", "window", "load"}]
    /\ arg \in [Callers -> Nat]
    /\ seen \in [Callers -> [value : Int, window : Nat]]
    /\ calls \in Nat /\ reads \in Nat /\ done \in Nat
    /\ since \in [Callers -> Nat]
    /\ got \in [value : Int, window : Nat, since : Nat]

Paired(pair) == pair.window # NoWindow => pair.value = pair.window

\* A reader never sees the value of one call with the window of another,
\* whether it found the lock allocated or raced with the write that did
\* (the doc of WindowCell and of every set_with_window).
PairedWithItsOwnWindow == kind # "exposed" => Paired(got)

\* What is read is no older than what had been written when the read began:
\* a read that found no lock cannot have missed a pair that was there.
ReadsWhatWasWritten ==
    kind # "exposed" =>
        /\ got.since > 0 => got.value >= got.since
        /\ got.since > 0 /\ kind # "gauge_histogram" => got.window >= got.since

\* The doc of Metric::value_with_window: exposition reads a histogram's
\* value and window under a single acquisition of the lock, never torn.
ExposedPairIsNotTorn == kind = "exposed" => Paired(got)
=============================================================================
