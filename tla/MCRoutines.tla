----------------------------- MODULE MCRoutines -----------------------------
(* Small instances of Routines for TLC.                                    *)
EXTENDS Routines
=============================================================================
