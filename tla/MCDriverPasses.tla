--------------------------- MODULE MCDriverPasses ---------------------------
(* The driver's passes, of a scraped and a local source or of a streamed    *)
(* one beside them.                                                        *)
EXTENDS DriverPasses
MCCorrections == {-2, 2}
MCStarting == {{"p", "l"}, {"l"}, {"q"}, {"p", "q"}}
\* Beside a streamed source: no clock corrections, no command but an exit,
\* and with a scraped one a punctual producer.
MCPassesInit ==
    /\ DPInit
    /\ {"p", "q"} \subseteq recording => punctual
MCPassesNext ==
    /\ DPNext
    /\ recording \cap Streamed # {} =>
        corrections' = 0 /\ \A i \in DOMAIN commands' : commands'[i].kind = "exit"
MCPassesSpec == MCPassesInit /\ [][MCPassesNext]_dpvars
=============================================================================
