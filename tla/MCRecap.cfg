SPECIFICATION SpecEquitable
CONSTANTS
  i1 = i1
  i2 = i2
  Aucun = Aucun
  F1 = F1
  p1 = p1
  p2 = p2
  Repliques = {i1}
  Foyers = {F1}
  Parents = {p1, p2}
  ParentsDe <- MCUnFoyer
  HorsListe = {p2}
  Pannes = {"base", "smtp", "smtpMuet", "arret", "contrat", "abonnement"}
  MAX_ESSAIS_PARENT = 2
  COMPTE_MAX = 2
CHECK_DEADLOCK FALSE
INVARIANTS
  TypeOK
  PreuveDeMail
PROPERTIES
  JamaisRelivre
  SlotSolde
  SlotDefinitif
