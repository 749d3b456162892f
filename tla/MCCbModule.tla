----------------------------- MODULE MCCbModule -----------------------------
(* Small instances of CbModule for TLC. *)
EXTENDS CbModule

CONSTANTS c1, c2

MCOne == {c1}
MCTwo == {c1, c2}
MCAll == {"AUTO", "MANUAL", "STANDBY"}
MCManual == {"MANUAL"}
=============================================================================
