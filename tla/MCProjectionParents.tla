------------------------ MODULE MCProjectionParents ------------------------
(* ProjectionParents on small instances.                                   *)
EXTENDS ProjectionParents, TLC

Symetrie == Permutations(Commandes) \cup Permutations(Parents) \cup Permutations(Emails)
=============================================================================
