------------------------ MODULE MCRessourcesFoyer ------------------------
(* RessourcesFoyer on small instances.                                    *)
EXTENDS RessourcesFoyer, TLC

Symetrie == Permutations(Commandes) \cup Permutations(Valeurs)
===========================================================================
