--------------------------- MODULE MCCopilotTurns ---------------------------
(* Small instances of CopilotTurns for TLC.                                *)
EXTENDS CopilotTurns
=============================================================================
