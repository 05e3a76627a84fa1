\* Two requests at a time on a household of one or two parents, two
\* transactions after its creation. The run stops when MAX_TX is used.
SPECIFICATION Spec
CONSTANTS
  Commandes = {c1, c2}
  Parents = {p1, p2}
  Emails = {a, b}
  Canaux = {EMAIL, IN_APP}
  Courriel = EMAIL
  InApp = IN_APP
  Jetons = {j1}
  Aucun = Aucun
  OPERATIONS = {"ajouter", "modifier", "activer", "desactiver", "retirer", "preferences", "desabonner", "supprimer"}
  MAX_TX = 3
SYMMETRY Symetrie
INVARIANTS TypeOK LienUnique Joignable PropagationFidele EffacementTenu
PROPERTY DernierParentGarde
CHECK_DEADLOCK FALSE
