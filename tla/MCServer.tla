------------------------------ MODULE MCServer ------------------------------
(***************************************************************************)
(* Small instances of Server: descriptors 4 and 5 for clients, 3 for the   *)
(* listening socket.                                                       *)
(***************************************************************************)
EXTENDS ServerSession, TLC

CONSTANTS c1, c2, w1, w2, a1

OneAddr  == [c \in Conns |-> a1]
Accounts == [c \in Conns |-> IF c = c1 THEN 11 ELSE 12]

\* The threads of the pool run the same code.
WorkerSymmetry == Permutations(Workers)
=============================================================================
