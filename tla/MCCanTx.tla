------------------------------ MODULE MCCanTx ------------------------------
(***************************************************************************)
(* CanTx for TLC: a queue of four words (three usable) shows every wrap,   *)
(* fill, overfill and drain; two interchangeable frames tell contents and  *)
(* order apart.                                                            *)
(***************************************************************************)
EXTENDS CanTx, TLC

FrameSymmetry == Permutations(Frames)
=============================================================================
