-------------------------- MODULE MCStreamedSource --------------------------
(* A streamed endpoint, with two interchangeable producer names; and, as    *)
(* parts of their own, what the probe hook says of the processes behind     *)
(* one, and the driver's passes of sources of every transport.              *)
EXTENDS StreamedSource, ProbeHook, MCDriverPasses, TLC
CONSTANTS a, b
VARIABLE part
mcvars == <<part, ssvars, phvars, dpvars>>
Symmetry == Permutations({a, b})
\* Streams that name every epoch or not the first, of one producer or with
\* another's last process, under a hook that tells epochs or does not; an
\* endpoint that is scraped and one that is refused.
MCEndpoints ==
    {[speaks |-> "stream", names |-> n, tells |-> t,
      maker |-> [p \in Lives |-> IF p = MaxLives THEN m ELSE 1]] :
        n \in {Lives, Lives \ {1}}, m \in {1, 2}, t \in BOOLEAN}
    \cup {[speaks |-> s, names |-> Lives, tells |-> TRUE, maker |-> [p \in Lives |-> 1]] :
            s \in {"metrics", "refusal"}}
MCInit ==
    /\ part \in {"rows", "hook", "passes"}
    /\ SSInit /\ PHInit /\ MCPassesInit
    /\ part = "rows" \/ (onArrival /\ procs = <<NoName>>)
    /\ part = "hook" \/ (endpoint.speaks = "refusal" /\ up)
    /\ part = "passes" \/ (recording = {"l"} /\ punctual)
MCNext ==
    \/ part = "rows"   /\ SSNext       /\ UNCHANGED <<part, phvars, dpvars>>
    \/ part = "hook"   /\ PHNext       /\ UNCHANGED <<part, ssvars, dpvars>>
    \/ part = "passes" /\ MCPassesNext /\ UNCHANGED <<part, ssvars, phvars>>
MCSpec == MCInit /\ [][MCNext]_mcvars
=============================================================================
