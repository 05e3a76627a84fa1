----------------------- MODULE MCEnvoiEtablissement -----------------------
(* EnvoiEtablissement on small instances.                                 *)
EXTENDS EnvoiEtablissement, TLC

Symetrie == Permutations(Contrats) \cup Permutations(Saisies)
            \cup Permutations(Taches) \cup Permutations(Clics)
===========================================================================
