SPECIFICATION SpecEquitable
CONSTANTS
  e1 = e1
  e2 = e2
  e3 = e3
  e4 = e4
  t1 = t1
  t2 = t2
  t3 = t3
  F1 = F1
  F2 = F2
  SansFoyer = SansFoyer
  Evenements = {e1, e2, e3, e4}
  Transactions = {t1, t2, t3}
  Foyers = {F1, F2}
  TxDe <- MCTxDe
  FoyerDe <- MCFoyerDe
  Refuses = {e1}
  Pannes = {"nats"}
  CONCURRENCE = 2
  FLUX_MAX = 4
  TAILLE_LOT = 1
  PAGES_MAX = 3
CHECK_DEADLOCK FALSE
INVARIANT OrdreParFoyer
