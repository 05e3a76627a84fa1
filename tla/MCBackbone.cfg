SPECIFICATION Spec
CONSTANTS
  e1 = e1
  e2 = e2
  t1 = t1
  F1 = F1
  SansFoyer = SansFoyer
  Aucun = Aucun
  Evenements = {e1, e2}
  Transactions = {t1}
  Foyers = {F1}
  TxDe <- MCTxDe
  FoyerDe <- MCFoyerDe
  Refuses = {}
  Pannes = {"arret"}
  CONCURRENCE = 1
  FLUX_MAX = 3
  TAILLE_LOT = 1
  PAGES_MAX = 1
  Inapplicables = {}
  Inconnus = {e2}
  PannesConso = {"arret"}
  MAX_LIVRAISONS = 2
  TAMPON_MAX = 1
CHECK_DEADLOCK FALSE
PROPERTY Fiable
