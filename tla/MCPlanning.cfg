\* Two requests at a time on a contract, its planning of two weeks and the
\* events of its household; four transactions in all. The run stops when
\* MAX_TX is used.
SPECIFICATION Spec
CONSTANTS
  Commandes = {c1, c2}
  Boucle = Boucle
  Semaines = {s1, s2}
  Prenoms = {a, b}
  Aucun = Aucun
  OPERATIONS = {"creer", "avenant", "corriger", "rattacher", "supprimer", "mois", "semaine"}
  MAX_TX = 4
  MAX_FOYER = 1
SYMMETRY Symetrie
INVARIANTS TypeOK SemainesGardees ProjectionFidele EffacementTenu
CHECK_DEADLOCK FALSE
