--------------------------- MODULE MCArchiveWriter ---------------------------
(* A short recording with several restatements, seals and evictions.        *)
EXTENDS ArchiveWriter
=============================================================================
