SPECIFICATION SpecEquitable
CONSTANTS
  i1 = i1
  i2 = i2
  Aucun = Aucun
  F1 = F1
  p1 = p1
  p2 = p2
  Repliques = {i1, i2}
  Foyers = {F1}
  Parents = {p1}
  ParentsDe <- MCUnParent
  HorsListe = {}
  Pannes = {}
  MAX_ESSAIS_PARENT = 2
  COMPTE_MAX = 2
CHECK_DEADLOCK FALSE
PROPERTY JamaisRelivre
