------------------------------- MODULE MCLog -------------------------------
(***************************************************************************)
(* Small instances of Log: the time-check thread r and server threads.     *)
(***************************************************************************)
EXTENDS Log

CONSTANTS r, t1, t2

ServerThreads == Permutations(Threads \ {Reader})
=============================================================================
