----------------------------- MODULE MCEmitter -----------------------------
(* The emitter alone, on a small channel and queue.                        *)
EXTENDS Emitter
=============================================================================
