--------------------------- MODULE MCConnectionPool -------------------------
(* Instances of ConnectionPool for TLC.                                     *)
EXTENDS ConnectionPool, TLC

Symmetry == Permutations(Users) \cup Permutations(Conns)
=============================================================================
