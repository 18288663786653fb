--------------------------- MODULE MCStorageEngine ---------------------------
(* Model checking of StorageEngine: the values for the constants.           *)
EXTENDS StorageEngine, TLC

\* Lines with the same kind of message are interchangeable.
LineSymmetry == Permutations(Lines \ EmptyMsg)
===============================================================================
