---------------------------- MODULE MCSharedEngine ----------------------------
(* Model checking of SharedEngine: the values for the constants.            *)
EXTENDS SharedEngine, TLC

\* Lines are interchangeable, and so are threads.
SharedSymmetry == Permutations(Lines) \cup Permutations(Threads)
===============================================================================
