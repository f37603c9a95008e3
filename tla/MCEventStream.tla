--------------------------- MODULE MCEventStream ---------------------------
(* Small instances of EventStream for TLC.                                 *)
EXTENDS EventStream
=============================================================================
