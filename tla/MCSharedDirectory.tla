--------------------------- MODULE MCSharedDirectory ---------------------------
(* Instance of SharedDirectory for model checking.                         *)
EXTENDS SharedDirectory, TLC

CONSTANTS l1, l2, l3, l4, l5

DirectorySymmetry == Permutations(Lines)
===============================================================================
