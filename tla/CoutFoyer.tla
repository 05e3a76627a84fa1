----------------------------- MODULE CoutFoyer -----------------------------
(***************************************************************************)
(* What a household pays for a month: the contracts, the plannings and the *)
(* calendar of svc-planification, their projection in svc-tarification and *)
(* a request for the cost (tarification/cout.service.ts), which reads its  *)
(* tables in any order and asks svc-planification for what they lack.      *)
(*                                                                         *)
(* The events come once, in order: ProjectionPlanning has what redelivery  *)
(* and reordering do.  An edit of svc-planification and its event are one  *)
(* step, which PlanningContrat refines.                                    *)
(***************************************************************************)
EXTENDS TarifMois, CalendrierOuverture, PrestationsReference

CONSTANTS
  CONTRATS,         \* contracts
  MOIS,             \* months
  ETABLISSEMENTS,   \* establishments
  FORMES,           \* contracts that may be created: mode, du, au, premiere, etab
  REPRISES,         \* what an edit of a contract may set: du, au, premiere, etab
  CHAMPS,           \* parameters of a version
  DATES,            \* dates of effect of the amendments
  SAISIES,          \* entries of each month
  RECURRENCES, EXCEPTIONS, PERIODES, FERIES, \* edits of a calendar
  CALENDRIER,       \* the first calendars
  FOYERS,           \* income histories that svc-foyer may emit
  FOYER_REPLI,      \* the income that svc-foyer tells on demand
  TARIFS, PROJETES, \* tariffs published, and those that were projected
  Inconnues,        \* the refusal of a month without income (422)
  Indisponible,     \* the refusal for a service out of reach (503)
  PANNES,           \* whether the other services may be out of reach
  EDITIONS          \* bound: edits

\* Tables contrat and contrat_version of svc-planification, and what
\* svc-tarification copies of them.
DatesEffet == DATES \cup {forme.du : forme \in FORMES}
Debuts     == {x.du : x \in FORMES \cup REPRISES}
Reprises   == [du : Int, au : Int \cup {Rien}, premiere : BOOLEAN, etab : ETABLISSEMENTS]
Formes     ==
  [mode : Modes, du : Int, au : Int \cup {Rien}, premiere : BOOLEAN, etab : ETABLISSEMENTS]
LignesContrat ==
  [mode : Modes, du : Debuts, au : {x.au : x \in FORMES \cup REPRISES}, premiere : BOOLEAN,
   etab : ETABLISSEMENTS, versions : UNION {[S -> CHAMPS] : S \in SUBSET DatesEffet}]
LignesCopie == [mode : Modes, du : Debuts, premiere : BOOLEAN]

ASSUME ConstantesCout ==
  /\ MOIS \subseteq Nat /\ PROJETES \subseteq TARIFS
  /\ FORMES \subseteq Formes /\ REPRISES \subseteq Reprises /\ DATES \subseteq Int
  /\ \A champs \in CHAMPS : VersionCorrecte(champs)
  /\ DOMAIN CALENDRIER = ETABLISSEMENTS
  /\ \A m \in MOIS : \A saisie \in SAISIES[m] : SaisieCorrecte(saisie)
  /\ EDITIONS \in Nat /\ PANNES \in BOOLEAN
  /\ Rien \notin {Inconnues, Indisponible} /\ Refus \notin {Inconnues, Indisponible}
  /\ Rien \notin LignesContrat /\ Rien \notin LignesCopie

VARIABLES
  source,     \* tables contrat and contrat_version of svc-planification
  saisies,    \* table planning_mois
  calendrier, \* the calendar of each establishment
  fil,        \* the events on their way to svc-tarification
  lu,         \* quantities that were read for the first of them
  tContrats,  \* table contrat of svc-tarification
  tPrestations,      \* table prestation_mois
  tFoyer,     \* tables foyer and foyer_version
  requete,    \* the request for a cost
  ids,        \* ids of contracts given so far
  editions,   \* edits so far
  perimes,    \* history: months that changed without an event, or whose event
              \* was rejected, since their quantities were read
  vus         \* history: what the request could see since it began

planif   == <<source, saisies, calendrier, ids>>
tarif    == <<fil, lu, tContrats, tPrestations>>
coutVars == <<planif, tarif, tFoyer, requete, editions, perimes, vus>>

Cellules == CONTRATS \X MOIS
Erreurs  == {Refus, Inconnues, Indisponible}

----------------------------------------------------------------------------
(* svc-planification.                                                      *)

SaisieDe(c, m) == IF saisies[<<c, m>>] = Rien THEN SaisieVide ELSE saisies[<<c, m>>]
FermesDe(c, m) == JoursFermes(calendrier[source[c].etab], m, source[c].mode)

\* GET prestations: an unknown contract and an entry that the domain refuses
\* are errors.
QuantitesDe(c, m) ==
  IF source[c] = Rien THEN Refus ELSE Prestations(source[c], m, SaisieDe(c, m), FermesDe(c, m))

\* Mutant: the copy forgets the first registration.
IdentiteSansPremiere(contrat) == [mode |-> contrat.mode, premiere |-> FALSE, du |-> contrat.du]

\* What svc-tarification copies of a contract.
Identite(contrat) == [mode |-> contrat.mode, premiere |-> contrat.premiere, du |-> contrat.du]

Editer ==
  /\ editions < EDITIONS
  /\ editions' = editions + 1

Emettre(e) == fil' = Append(fil, e)

\* The id of a contract is new.
EditerContrat(c, forme, champs) ==
  /\ Editer
  /\ c \notin ids
  /\ ids' = ids \cup {c}
  /\ source' = [source EXCEPT ![c] =
       [mode |-> forme.mode, du |-> forme.du, au |-> forme.au, premiere |-> forme.premiere,
        etab |-> forme.etab, versions |-> [d \in {forme.du} |-> champs]]]
  /\ Emettre([type |-> "cree", c |-> c, identite |-> Identite(forme)])
  /\ UNCHANGED <<saisies, calendrier, lu, tContrats, tPrestations, tFoyer, perimes>>

\* What svc-tarification projected for a contract may no longer hold.
Perimer(c) == perimes' = perimes \cup ({c} \X MOIS)

\* An amendment; its ContratModifie changes nothing in svc-tarification, like
\* those of a correction and of another establishment.
EditerAvenant(c, d, champs) ==
  /\ Editer
  /\ source[c] # Rien
  /\ d >= source[c].du /\ d \notin DOMAIN source[c].versions
  /\ source' = [source EXCEPT ![c].versions =
       [e \in DOMAIN @ \cup {d} |-> IF e = d THEN champs ELSE @[e]]]
  /\ Perimer(c)
  /\ UNCHANGED <<saisies, calendrier, ids, tarif, tFoyer>>

\* corrigerVersion: a version is overwritten, its date of effect stays.
EditerCorrection(c, d, champs) ==
  /\ Editer
  /\ source[c] # Rien
  /\ d \in DOMAIN source[c].versions
  /\ source' = [source EXCEPT ![c].versions[d] = champs]
  /\ Perimer(c)
  /\ UNCHANGED <<saisies, calendrier, ids, tarif, tFoyer>>

\* corrigerVersionCourante: the current version is overwritten, and so is what
\* has no version: the life of the contract, its first registration and its
\* establishment.  The dates of effect stay, even after the end of the
\* contract or before its first day.
Repris(contrat, reprise, champs) ==
  [mode |-> contrat.mode, du |-> reprise.du, au |-> reprise.au,
   premiere |-> contrat.mode # Creche /\ reprise.premiere, etab |-> reprise.etab,
   versions |-> [contrat.versions EXCEPT ![VersionCourante(contrat.versions)] = champs]]

EditerVersionCourante(c, reprise, champs) ==
  /\ Editer
  /\ source[c] # Rien
  /\ source' = [source EXCEPT ![c] = Repris(source[c], reprise, champs)]
  /\ Perimer(c)
  /\ Emettre([type |-> "modifie", c |-> c, identite |-> Identite(Repris(source[c], reprise, champs))])
  /\ UNCHANGED <<saisies, calendrier, ids, lu, tContrats, tPrestations, tFoyer>>

\* rattacherEtablissement: the days of closure of the contract are others.
EditerEtablissement(c, e) ==
  /\ Editer
  /\ source[c] # Rien
  /\ source[c].etab # e
  /\ source' = [source EXCEPT ![c].etab = e]
  /\ Perimer(c)
  /\ UNCHANGED <<saisies, calendrier, ids, tarif, tFoyer>>

\* Nothing is generated here: the domain does not look at the entry.
EditerPlanning(c, m, saisie) ==
  /\ Editer
  /\ source[c] # Rien
  /\ saisies' = [saisies EXCEPT ![<<c, m>>] = saisie]
  /\ Emettre([type |-> "planning", c |-> c, mois |-> m])
  /\ UNCHANGED <<source, calendrier, ids, lu, tContrats, tPrestations, tFoyer, perimes>>

EditerSuppression(c) ==
  /\ Editer
  /\ source[c] # Rien
  /\ source' = [source EXCEPT ![c] = Rien]
  /\ saisies' = [x \in Cellules |-> IF x[1] = c THEN Rien ELSE saisies[x]]
  /\ Emettre([type |-> "supprime", c |-> c])
  /\ UNCHANGED <<calendrier, ids, lu, tContrats, tPrestations, tFoyer, perimes>>

Retouches(cal) ==
  {RemplacerRecurrences(cal, r) : r \in RECURRENCES}
  \cup {PoserException(cal, x) : x \in EXCEPTIONS}
  \cup {CloreException(cal, x) : x \in cal.exceptions}
  \cup {SaisirPeriode(cal, p) : p \in PERIODES}
  \cup {ClorePeriode(cal, p) : p \in cal.periodes}
  \cup {RetoucherPeriode(cal, p, q) : p \in cal.periodes, q \in PERIODES}
  \cup {PoserRegimeFeries(cal, feries) : feries \in FERIES}

Rattaches(e) == {c \in CONTRATS : source[c] # Rien /\ source[c].etab = e}

\* No event that svc-tarification reads tells an edit of a calendar.
ModifierCalendrier(e) ==
  /\ Editer
  /\ \E cal \in Retouches(calendrier[e]) \ {calendrier[e]} :
       calendrier' = [calendrier EXCEPT ![e] = cal]
  /\ perimes' = perimes \cup (Rattaches(e) \X MOIS)
  /\ UNCHANGED <<source, saisies, ids, tarif, tFoyer>>

----------------------------------------------------------------------------
(* svc-tarification: the projection.                                       *)

EnTete(type) == fil # <<>> /\ Head(fil).type = type
Acquitter    == fil' = Tail(fil)

AppliquerContratCree ==
  /\ EnTete("cree")
  /\ tContrats' = [tContrats EXCEPT ![Head(fil).c] = Head(fil).identite]
  /\ Acquitter
  /\ UNCHANGED <<planif, lu, tPrestations, tFoyer, editions, perimes>>

\* appliquerContratModifie: the mode of the rows of the month, which it sets too,
\* never changes.
AppliquerContratModifie ==
  /\ EnTete("modifie")
  /\ tContrats' = [tContrats EXCEPT ![Head(fil).c] = Head(fil).identite]
  /\ Acquitter
  /\ UNCHANGED <<planif, lu, tPrestations, tFoyer, editions, perimes>>

\* appliquerPlanningModifie asks for the quantities, then writes them.
DemanderQuantites ==
  /\ EnTete("planning") /\ lu = Rien
  /\ LET e == Head(fil) IN
       /\ QuantitesDe(e.c, e.mois) # Refus
       /\ lu' = QuantitesDe(e.c, e.mois)
       /\ perimes' = perimes \ {<<e.c, e.mois>>}
  /\ UNCHANGED <<planif, fil, tContrats, tPrestations, tFoyer, editions>>

InscrireQuantites ==
  /\ EnTete("planning") /\ lu # Rien
  /\ tPrestations' = [tPrestations EXCEPT ![<<Head(fil).c, Head(fil).mois>>] = lu]
  /\ lu' = Rien
  /\ Acquitter
  /\ UNCHANGED <<planif, tContrats, tFoyer, editions, perimes>>

\* Every delivery failed: the message ends in dead_letter, the row stays.
RejeterPlanning ==
  /\ EnTete("planning") /\ lu = Rien
  /\ PANNES \/ QuantitesDe(Head(fil).c, Head(fil).mois) = Refus
  /\ perimes' = perimes \cup {<<Head(fil).c, Head(fil).mois>>}
  /\ Acquitter
  /\ UNCHANGED <<planif, lu, tContrats, tPrestations, tFoyer, editions>>

AppliquerContratSupprime ==
  /\ EnTete("supprime")
  /\ tContrats' = [tContrats EXCEPT ![Head(fil).c] = Rien]
  /\ tPrestations' = [x \in Cellules |-> IF x[1] = Head(fil).c THEN Rien ELSE tPrestations[x]]
  /\ Acquitter
  /\ UNCHANGED <<planif, lu, tFoyer, editions, perimes>>

\* The income history that svc-foyer emits replaces the projected one.
AppliquerFoyer(f) ==
  /\ Editer
  /\ tFoyer' = f
  /\ UNCHANGED <<planif, tarif, perimes>>

----------------------------------------------------------------------------
(* svc-tarification: pricing.                                              *)

MoisCourant == AUJOURDHUI \div JOURS_MOIS

\* resoudreFoyerAuMois: the version of the first of the month; the current
\* row, which has no date, speaks of no past month.
FoyerAuMois(foyer, m) ==
  IF foyer.versions = {} THEN (IF m >= MoisCourant THEN foyer.courant ELSE Rien)
  ELSE LET v == Applicable(foyer.versions, m * JOURS_MOIS) IN IF v = Rien THEN Rien ELSE v.foyer

PostePrincipal(mode) ==
  CASE mode = "CANTINE"      -> "cantineTotal"
    [] mode = "PERISCOLAIRE" -> "periMatin"
    [] OTHER                 -> "alshJourneeComplete"

TarifDans(tarifs, mode, tranche, m) ==
  Applicable({t \in tarifs : t.mode = mode /\ (mode = Creche \/ t.tranche = tranche)}, m * JOURS_MOIS)

\* The projected tariff, if it defines the mode.
TarifLocal(mode, tranche, m) ==
  LET t == TarifDans(PROJETES, mode, tranche, m) IN
  IF t # Rien /\ (mode = Creche \/ PostePrincipal(mode) \in DOMAIN t.postes) THEN t ELSE Rien

\* resoudreContexteTarif.
ResoudreTarif(mode, tranche, m) ==
  IF TarifLocal(mode, tranche, m) # Rien THEN TarifLocal(mode, tranche, m)
  ELSE TarifDans(TARIFS, mode, tranche, m)

\* The amount of one contract, or its error.
Ligne(f, m, q) ==
  CASE f = Rien /\ EstVide(q)  -> 0
    [] f = Rien /\ ~EstVide(q) -> Inconnues
    [] f # Rien /\ ResoudreTarif(q.mode, f.tranche, m) = Rien -> Indisponible
    [] OTHER -> Valoriser(q, f, ResoudreTarif(q.mode, f.tranche, m))

Somme(lignes) == MapThenSumSet(LAMBDA c : lignes[c], DOMAIN lignes)

Cout(lignes, frais) ==
  [erreur |-> Rien, lignes |-> lignes, frais |-> frais, total |-> frais + Somme(lignes)]
Erreur(code) == [erreur |-> code, lignes |-> <<>>, frais |-> 0, total |-> 0]

\* calculerCoutMois, once the contracts have their quantities: the first
\* error, in the order of the rows, is the answer.
Reponses(foyer, m, contrats, quantites) ==
  LET f       == FoyerAuMois(foyer, m)
      lignes  == [c \in DOMAIN quantites |-> Ligne(f, m, quantites[c])]
      erreurs == {lignes[c] : c \in DOMAIN lignes} \cap Erreurs
      abcm    == \E c \in DOMAIN quantites : quantites[c].mode # Creche
      frais   == IF abcm THEN FraisFixes(m, EstPremiereAnnee(m, contrats)) ELSE 0
  IN IF erreurs = {} THEN {Cout(lignes, frais)} ELSE {Erreur(e) : e \in erreurs}

\* A tariff that must be asked for, and may not come.
TarifDistant(foyer, m, quantites) ==
  LET f == FoyerAuMois(foyer, m) IN
  f # Rien /\ \E c \in DOMAIN quantites : TarifLocal(quantites[c].mode, f.tranche, m) = Rien

----------------------------------------------------------------------------
(* svc-tarification: the request.                                          *)

RequeteVide == [etape |-> "repos", mois |-> Rien, foyer |-> Rien, contrats |-> Rien,
          lignes |-> Rien, replis |-> <<>>, reponse |-> Rien]

LignesDe(m)   == [c \in {d \in CONTRATS : tPrestations[<<d, m>>] # Rien} |-> tPrestations[<<c, m>>]]
ContratsLus   == [c \in {d \in CONTRATS : tContrats[d] # Rien} |-> tContrats[c]]
FoyerFroid    == tFoyer.versions = {} /\ tFoyer.courant = Rien
FoyerComplete == [versions |-> {}, courant |-> FOYER_REPLI]

CommencerRequete(m) ==
  /\ requete = RequeteVide
  /\ requete' = [RequeteVide EXCEPT !.etape = "lectures", !.mois = m]

\* The tables are read together, in any order.
LireContrats ==
  /\ requete.etape = "lectures" /\ requete.contrats = Rien
  /\ requete' = [requete EXCEPT !.contrats = ContratsLus]

LireLignes ==
  /\ requete.etape = "lectures" /\ requete.lignes = Rien
  /\ requete' = [requete EXCEPT !.lignes = LignesDe(requete.mois)]

\* chargerFoyerContexte: svc-foyer is asked when nothing was projected.
LireFoyer ==
  /\ requete.etape = "lectures" /\ requete.foyer = Rien
  /\ requete' = [requete EXCEPT !.foyer = IF FoyerFroid THEN FoyerComplete ELSE tFoyer]

Repondre(reponse) == requete' = [RequeteVide EXCEPT !.etape = "repondu", !.mois = requete.mois, !.reponse = reponse]

FoyerHorsDAtteinte ==
  /\ PANNES /\ FoyerFroid
  /\ requete.etape = "lectures" /\ requete.foyer = Rien
  /\ Repondre(Erreur(Indisponible))

Lues ==
  /\ requete.etape = "lectures"
  /\ requete.foyer # Rien /\ requete.contrats # Rien /\ requete.lignes # Rien

\* assemblerPrestations: contracts without a row, not asked for yet.
Froids == DOMAIN requete.contrats \ (DOMAIN requete.lignes \cup DOMAIN requete.replis)

RepliPrestations(c) ==
  /\ Lues /\ c \in Froids
  /\ QuantitesDe(c, requete.mois) # Refus
  /\ requete' = [requete EXCEPT !.replis =
       [d \in DOMAIN requete.replis \cup {c} |->
          IF d = c THEN QuantitesDe(c, requete.mois) ELSE requete.replis[d]]]

\* Mutant: a contract whose quantities cannot be read is left out.
RepliManqueOmis(c) ==
  /\ Lues /\ c \in Froids
  /\ PANNES \/ QuantitesDe(c, requete.mois) = Refus
  /\ requete' = [requete EXCEPT !.contrats = [d \in DOMAIN @ \ {c} |-> @[d]]]

RepliManque(c) ==
  /\ Lues /\ c \in Froids
  /\ PANNES \/ QuantitesDe(c, requete.mois) = Refus
  /\ Repondre(Erreur(Indisponible))

\* Rows without a known contract count.
Assemblees ==
  [c \in DOMAIN requete.lignes \cup DOMAIN requete.replis |->
     IF c \in DOMAIN requete.lignes THEN requete.lignes[c] ELSE requete.replis[c]]

IdentitesDe(contrats) == {contrats[c] : c \in DOMAIN contrats}

CalculerCout ==
  /\ Lues /\ Froids = {}
  /\ \E r \in Reponses(requete.foyer, requete.mois, IdentitesDe(requete.contrats), Assemblees) : Repondre(r)

TarifHorsDAtteinte ==
  /\ PANNES /\ Lues /\ Froids = {}
  /\ TarifDistant(requete.foyer, requete.mois, Assemblees)
  /\ Repondre(Erreur(Indisponible))

Rendre ==
  /\ requete.etape = "repondu"
  /\ requete' = RequeteVide

----------------------------------------------------------------------------
(* What a request sees.                                                    *)

VuRien == [foyers |-> {}, presents |-> CONTRATS, quantites |-> [c \in CONTRATS |-> {}]]

\* The quantities of a contract, at an instant: its row, or what
\* svc-planification would tell.
QuantitesVisibles(c, m) == ({tPrestations[<<c, m>>]} \ {Rien}) \cup ({QuantitesDe(c, m)} \ {Refus})

\* What is there at this instant is added to what the request saw before.
VuMaintenant ==
  [foyers |-> vus.foyers \cup {IF FoyerFroid THEN FoyerComplete ELSE tFoyer},
   presents |-> {c \in vus.presents : tContrats[c] # Rien},
   quantites |-> [c \in CONTRATS |-> vus.quantites[c] \cup QuantitesVisibles(c, requete.mois)]]

Observer ==
  vus' = CASE requete.etape = "lectures" -> VuMaintenant
           [] requete.etape = "repondu" /\ requete'.etape = "repondu" -> vus
           [] OTHER -> VuRien

CoutInit ==
  /\ source = [c \in CONTRATS |-> Rien]
  /\ saisies = [x \in Cellules |-> Rien]
  /\ calendrier = CALENDRIER
  /\ ids = {}
  /\ fil = <<>> /\ lu = Rien
  /\ tContrats = [c \in CONTRATS |-> Rien]
  /\ tPrestations = [x \in Cellules |-> Rien]
  /\ tFoyer = [versions |-> {}, courant |-> Rien]
  /\ requete = RequeteVide
  /\ editions = 0
  /\ perimes = {}
  /\ vus = VuRien

Editions ==
  \/ \E c \in CONTRATS, forme \in FORMES, champs \in CHAMPS : EditerContrat(c, forme, champs)
  \/ \E c \in CONTRATS, d \in DATES, champs \in CHAMPS : EditerAvenant(c, d, champs)
  \/ \E c \in CONTRATS, d \in DatesEffet, champs \in CHAMPS : EditerCorrection(c, d, champs)
  \/ \E c \in CONTRATS, reprise \in REPRISES, champs \in CHAMPS : EditerVersionCourante(c, reprise, champs)
  \/ \E c \in CONTRATS, e \in ETABLISSEMENTS : EditerEtablissement(c, e)
  \/ \E c \in CONTRATS, m \in MOIS : \E saisie \in SAISIES[m] : EditerPlanning(c, m, saisie)
  \/ \E c \in CONTRATS : EditerSuppression(c)
  \/ \E e \in ETABLISSEMENTS : ModifierCalendrier(e)
  \/ \E f \in FOYERS \ {tFoyer} : AppliquerFoyer(f)

Projection ==
  \/ AppliquerContratCree
  \/ AppliquerContratModifie
  \/ DemanderQuantites
  \/ InscrireQuantites
  \/ RejeterPlanning
  \/ AppliquerContratSupprime

EtapeRequete ==
  \/ \E m \in MOIS : CommencerRequete(m)
  \/ LireContrats
  \/ LireLignes
  \/ LireFoyer
  \/ FoyerHorsDAtteinte
  \/ \E c \in CONTRATS : Lues /\ (RepliPrestations(c) \/ RepliManque(c))
  \/ CalculerCout
  \/ TarifHorsDAtteinte
  \/ Rendre

CoutNext ==
  /\ \/ Editions /\ UNCHANGED requete
     \/ Projection /\ UNCHANGED requete
     \/ EtapeRequete /\ UNCHANGED <<planif, tarif, tFoyer, editions, perimes>>
  /\ Observer

CoutSpec == CoutInit /\ [][CoutNext]_coutVars

----------------------------------------------------------------------------
(* Properties.                                                             *)

\* Whatever the amendments, the corrections, the entries and the calendar, the
\* quantities that svc-planification tells for a month are those of the
\* day-by-day reference (generation-prestations.ts, contrat-creche.ts): the
\* version in force on each day, and every entry counted once.  Hours and
\* services are reserved on the open days of the contract only; added hours and
\* real hours count on its closed days too, and an absence that is deductible
\* on any date.
JourParJour ==
  requete = RequeteVide =>
    \A c \in CONTRATS, m \in MOIS, mode \in Modes :
      source[c] # Rien =>
        LET contrat == [source[c] EXCEPT !.mode = mode]
            fermes  == JoursFermes(calendrier[contrat.etab], m, mode)
        IN Conforme(Prestations(contrat, m, SaisieDe(c, m), fermes), contrat, m, SaisieDe(c, m), fermes)

\* The fees of the month in which school begins: a contract of the school year
\* that follows is in its first year.
FraisAttendus(m, contrats) ==
  LET abcm == {c \in contrats : c.mode # Creche}
      annee == m * JOURS_MOIS .. (m + MOIS_ANNEE) * JOURS_MOIS - 1
  IN IF abcm = {} \/ m % MOIS_ANNEE # RENTREE THEN 0
     ELSE COTISATION + IF \E c \in abcm : c.premiere /\ c.du \in annee THEN FRAIS_PREMIERE ELSE 0

\* The answers to a month, from the contracts and plannings themselves.
ReponsesSource(foyer, m) ==
  LET vivants   == {c \in CONTRATS : source[c] # Rien}
      f         == FoyerAuMois(foyer, m)
      lignes    == [c \in vivants |-> Ligne(f, m, QuantitesDe(c, m))]
      erreurs   == {lignes[c] : c \in vivants} \cap Erreurs
  IN IF erreurs # {} THEN {Erreur(e) : e \in erreurs}
     ELSE {Cout(lignes, FraisAttendus(m, {source[c] : c \in vivants}))}

\* The answers to a month that nothing changes or interrupts.
ReponsesTables(foyer, m) ==
  LET lus == DOMAIN ContratsLus \cup DOMAIN LignesDe(m) IN
  Reponses(foyer, m, IdentitesDe(ContratsLus),
           [c \in lus |-> IF c \in DOMAIN LignesDe(m) THEN LignesDe(m)[c] ELSE QuantitesDe(c, m)])

Perime(c, m) == <<c, m>> \in perimes /\ tPrestations[<<c, m>>] # Rien

\* Once every event was applied, the cost of a month is what the contracts,
\* the plannings and the calendar say, through the rows that were projected or
\* the fallback: no contract is missing or counted twice, no entry is
\* forgotten.  The rows that no event refreshes (after an amendment, a
\* correction, another establishment or an edit of its calendar) or that a
\* rejected event left behind are the exceptions, and an entry that the domain
\* refuses has no cost.
CoutFidele ==
  fil = <<>> /\ requete = RequeteVide =>
    \A m \in MOIS :
      \/ \E c \in CONTRATS : Perime(c, m)
      \/ \E c \in CONTRATS : source[c] # Rien /\ QuantitesDe(c, m) = Refus
      \/ ReponsesTables(tFoyer, m) = ReponsesSource(tFoyer, m)

\* A cost that is answered leaves out no contract that was known during the
\* whole request, prices all of them with one income of the household, that of
\* an instant of the request, each with quantities of an instant of the
\* request, and adds up; however the tables change between the reads and the
\* fallbacks (coutMois, assemblerPrestations).
CoutCoherent ==
  requete.etape = "repondu" /\ requete.reponse.erreur = Rien =>
    LET lignes == requete.reponse.lignes
        m      == requete.mois
    IN /\ vus.presents \subseteq DOMAIN lignes
       /\ \E foyer \in vus.foyers : \A c \in DOMAIN lignes :
            \E q \in vus.quantites[c] : lignes[c] = Ligne(FoyerAuMois(foyer, m), m, q)
       /\ requete.reponse.total = requete.reponse.frais + Somme(lignes)
=============================================================================
