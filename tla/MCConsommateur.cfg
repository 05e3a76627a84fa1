SPECIFICATION SpecEquitable
CONSTANTS
  bon = bon
  poison = poison
  inconnu = inconnu
  Aucun = Aucun
  Evenements = {bon, poison, inconnu}
  Inapplicables = {poison}
  Inconnus = {inconnu}
  PannesConso = {"base", "trace", "ackPerdu", "iterateur", "arret"}
  MAX_LIVRAISONS = 3
  POSITIONS = 2
  TAMPON_MAX = 2
CHECK_DEADLOCK FALSE
INVARIANTS
  TypeOK
  EffetUnique
  RienNeDisparait
PROPERTIES
  ToutAboutit
