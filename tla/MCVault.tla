------------------------------ MODULE MCVault ------------------------------
(***************************************************************************)
(* A small instance of Vault: two clients, two workers, one user known.    *)
(***************************************************************************)
EXTENDS Vault, TLC

CONSTANTS c1, c2, w1, w2, anna, ben, mail, web, overlong, p, q

Entered   == {<<anna, p>>, <<anna, q>>, <<ben, p>>}
OneUser   == <<[name |-> anna, pw |-> p]>>
Symmetric == Permutations(Clients) \cup Permutations(Workers) \cup Permutations({mail, web})
=============================================================================
