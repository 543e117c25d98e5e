-------------------------- MODULE MCWindowedValues --------------------------
(* One writer and one reader of a histogram that is exposed.                *)
EXTENDS WindowedValues
CONSTANTS t1, t2
=============================================================================
