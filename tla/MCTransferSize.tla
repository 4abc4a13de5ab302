--------------------------- MODULE MCTransferSize ---------------------------
(* TransferSize for TLC.                                                   *)
EXTENDS TransferSize, TLC

Symmetry == Permutations(Worker)
=============================================================================
