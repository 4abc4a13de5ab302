---------------------------- MODULE MCCnfSharing ----------------------------
(* CnfSharing for TLC: files of up to three lines of each kind.            *)
EXTENDS CnfSharing

SmallFiles ==
    [num_vars : {2}, lines : UNION {[1 .. n -> Line] : n \in 0 .. 3}]

Symmetry == Permutations(Thread)
=============================================================================
