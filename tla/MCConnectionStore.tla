------------------------- MODULE MCConnectionStore -------------------------
(* Instances of ConnectionStore for TLC.                                    *)
EXTENDS ConnectionStore, TLC

Symmetry == Permutations(Nicknames) \cup Permutations(Windows)
=============================================================================
