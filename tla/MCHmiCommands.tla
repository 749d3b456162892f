--------------------------- MODULE MCHmiCommands ---------------------------
(***************************************************************************)
(* HmiCommands for TLC: one command, one board, the clock.                 *)
(***************************************************************************)
EXTENDS HmiCommands
=============================================================================
