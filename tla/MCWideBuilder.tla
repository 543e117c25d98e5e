---------------------------- MODULE MCWideBuilder ----------------------------
(* A plain counter group before a family, in one group.                     *)
EXTENDS WideBuilder
=============================================================================
