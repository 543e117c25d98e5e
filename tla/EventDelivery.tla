--------------------------- MODULE EventDelivery ---------------------------
(***************************************************************************)
(* What metriken-recorder promises of its event channel, without saying    *)
(* how (the docs of `Event`, metriken-recorder/src/recorder.rs).           *)
(*                                                                         *)
(* The caller's view is a prefix of the history of emissions: position i   *)
(* of the view is either the i-th event itself, or a note that it was      *)
(* dropped.  Nothing is read out of order, twice, or in the place of       *)
(* another event, and an event that must be delivered is never noted as    *)
(* dropped.                                                                *)
(***************************************************************************)
EXTENDS Naturals, Sequences

CONSTANT MaxEmit            \* bound: emissions considered

\* lossy: Frame, Gap, Committed.  capped: Dropped, Reconnected, Restarted,
\* ProducerChanged.  must: every other event.
Kinds == {"lossy", "capped", "must"}

VARIABLES log,              \* the kinds of the events emitted, in order
          view,             \* what the caller read: n for event n, 0 for "dropped"
          open              \* the caller still holds the receiver

vars == <<log, view, open>>

Init == log = <<>> /\ view = <<>> /\ open = TRUE

Emit(k) ==
    /\ Len(log) < MaxEmit
    /\ log' = Append(log, k)
    /\ UNCHANGED <<view, open>>

Deliver ==
    /\ open
    /\ Len(view) < Len(log)
    /\ view' = Append(view, Len(view) + 1)
    /\ UNCHANGED <<log, open>>

\* One Lagged stands for a run of m consecutive drops.
Report(m) ==
    /\ open
    /\ Len(view) + m <= Len(log)
    /\ \A i \in 1..m : log[Len(view) + i] # "must"
    /\ view' = view \o [i \in 1..m |-> 0]
    /\ UNCHANGED <<log, open>>

Close ==
    /\ open
    /\ open' = FALSE
    /\ UNCHANGED <<log, view>>

Next ==
    \/ \E k \in Kinds : Emit(k)
    \/ Deliver
    \/ \E m \in 1..Len(log) : Report(m)
    \/ Close

Spec == Init /\ [][Next]_vars
=============================================================================
