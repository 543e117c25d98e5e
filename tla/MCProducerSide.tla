--------------------------- MODULE MCProducerSide ---------------------------
(* What an instrumented process keeps and serves, one part at a time: the   *)
(* three ways a metric's value is shared by threads (the shards of a        *)
(* counter, a value with its window, an entry of a group), the passes that  *)
(* two subscriptions share over clocks that step, and one group's rows over *)
(* the ends of connections and processes (two occupants, two schema hashes). *)
EXTENDS ShardPool, WindowedValues, GroupEntry, StreamPasses, StreamedGroup, TLC
CONSTANTS t1, t2, t3, s1, s2, a, b
VARIABLE part
MCSteps == {-7, 9}
MCMembers == [h \in Hashes |-> IF h = 1 THEN {a} ELSE {a, b}]
MCInit ==
    /\ part \in {"shards", "windowed", "entry", "passes", "group"}
    /\ Init /\ WVInit /\ GEInit /\ SPInit /\ SGInit
    /\ part = "windowed" \/ kind = "scalar"
    /\ part = "passes" \/ sub = [s \in Subs |-> Subscribed("wide", Floor)]
MCNext ==
    /\ UNCHANGED part
    /\ \/ part = "shards"   /\ Next   /\ UNCHANGED <<wvvars, gevars, spvars, sgvars>>
       \/ part = "windowed" /\ WVNext /\ UNCHANGED <<vars, gevars, spvars, sgvars>>
       \/ part = "entry"    /\ GENext /\ UNCHANGED <<vars, wvvars, spvars, sgvars>>
       \/ part = "passes"   /\ SPNext /\ UNCHANGED <<vars, wvvars, gevars, sgvars>>
       \/ part = "group"    /\ SGNext /\ UNCHANGED <<vars, wvvars, gevars, spvars>>
MCSpec == MCInit /\ [][MCNext]_<<part, vars, wvvars, gevars, spvars, sgvars>>
MCSymmetry == Permutations({t1, t2, t3})
=============================================================================
