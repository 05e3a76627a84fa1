\* Two contracts, two months, three edits, a request at any moment, and the
\* other services in or out of reach.
SPECIFICATION CoutSpec
CONSTANTS
  CONTRATS = {k1, k2}
  Rien = Rien
  Refus = Refus
  Inconnues = Inconnues
  Indisponible = Indisponible
  JOURS_MOIS = 3
  JOURS_SEMAINE = 2
  AUJOURDHUI = 4
  CRENEAU = 30
  MOIS_ANNEE = 12
  RENTREE = 1
  COTISATION = 2500
  FRAIS_PREMIERE = 4000
  MOIS <- LesMois
  ETABLISSEMENTS <- LesEtablissements
  FORMES <- LesFormes
  REPRISES <- LesReprises
  CHAMPS <- LesChamps
  DATES = {2, 5}
  SAISIES <- LesSaisies
  RECURRENCES <- LesRecurrences
  EXCEPTIONS <- LesExceptions
  PERIODES <- LesPeriodes
  FERIES <- LesFeries
  CALENDRIER <- LeCalendrier
  FOYERS <- LesFoyers
  FOYER_REPLI <- LeFoyerRepli
  TARIFS <- LesTarifs
  PROJETES <- LesProjetes
  PANNES = TRUE
  EDITIONS = 3
SYMMETRY Symetrie
INVARIANTS JourParJour CoutFidele 
