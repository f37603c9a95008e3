----------------------------- MODULE MCRestarts -----------------------------
(* Small instances of Restarts for TLC.                                    *)
EXTENDS Restarts
=============================================================================
