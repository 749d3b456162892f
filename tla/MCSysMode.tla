------------------------------ MODULE MCSysMode ------------------------------
(***************************************************************************)
(* Small instances for TLC, of the mode machine with the fault manager:    *)
(* one severe fault, of the kind whose mark a charging board lowers, with  *)
(* a confirm and a release time.                                           *)
(***************************************************************************)
EXTENDS Cabinet

CONSTANTS b1, uFail

MCBoards == {b1}
MCOutCons == {"outCon1"}
(* A set that mixes an output contactor with a main and the precharge one:
   what a test must not leave behind. *)
MCDevTestCmds == {{"preCon", "mainCon2", "outCon1"}}
MCAnyBus == BOOLEAN

MCFaults == {uFail}
MCNoFaults == {}
MCSensorBoard == [f \in MCFaults |-> b1]
MCConTime == [f \in MCFaults |-> 1]
MCDisTime == [f \in MCFaults |-> 2]
=============================================================================
