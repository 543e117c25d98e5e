---------------------------- MODULE MCLongBuilder ----------------------------
(* One thread whose calls overlap the builds, under Membership::Present.    *)
EXTENDS LongBuilder
CONSTANTS t1, a, b
=============================================================================
