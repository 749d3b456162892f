--------------------------- MODULE MCFlashStorage ---------------------------
(***************************************************************************)
(* FlashStorage for TLC: rings of three and four records, so both wrap.    *)
(***************************************************************************)
EXTENDS FlashStorage, TLC

ValueSymmetry == Permutations(Values)
=============================================================================
