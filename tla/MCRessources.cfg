\* Two requests in progress, three days, two saves after the creation.
SPECIFICATION Spec
CONSTANTS
  Commandes = {c1, c2}
  Valeurs = {a, b}
  Absente = Absente
  Libre = Libre
  DERNIER = 3
  MAX_TX = 3
SYMMETRY Symetrie
INVARIANTS
  TypeOK
  PartitionDuTemps
  JournalFidele
  LigneFidele
  MiroirFidele
CHECK_DEADLOCK FALSE
