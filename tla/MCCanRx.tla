------------------------------ MODULE MCCanRx ------------------------------
(***************************************************************************)
(* CanRx for TLC, with the same small queue as MCCanTx.                    *)
(***************************************************************************)
EXTENDS CanRx, TLC

FrameSymmetry == Permutations(Frames)
=============================================================================
