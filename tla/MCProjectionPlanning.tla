------------------------ MODULE MCProjectionPlanning ------------------------
(* ProjectionPlanning on small instances.                                  *)
EXTENDS ProjectionPlanning, TLC

Symetrie == Permutations(Commandes) \cup Permutations(Semaines) \cup Permutations(Prenoms)
=============================================================================
