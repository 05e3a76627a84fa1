--------------------------- MODULE PrestationsMois ---------------------------
(***************************************************************************)
(* The quantities of a month (libs/planification/domain): what one contract*)
(* reserves, adds and deducts in a month, from its dated versions, what the*)
(* parents entered and the days on which its service is closed.            *)
(*                                                                         *)
(* Dates are integers, months are blocks of JOURS_MOIS days, weeks blocks  *)
(* of JOURS_SEMAINE days.  The hours of a day are a set of one-hour slots. *)
(* An entry of the month is a set of items, in which a rank tells two      *)
(* identical ones apart.                                                   *)
(***************************************************************************)
EXTENDS Integers, FiniteSets, FiniteSetsExt, SequencesExt

CONSTANTS
  JOURS_MOIS,    \* days of a month
  JOURS_SEMAINE, \* days of a week
  AUJOURDHUI,   \* the day of today
  Rien,         \* stands for null, or "not given"
  Refus          \* stands for an error of the domain

Creche == "CRECHE_PSU"
Modes  == {Creche, "CANTINE", "PERISCOLAIRE", "ALSH"}

\* PrestationsMois: the quantities of a month, by mode.
PrestationsPossibles ==
  [mode : {Creche}, annuel : Nat, mensualites : Nat, complement : Nat, reservees : Nat, deduites : Nat]
  \cup [mode : {"CANTINE"}, jours : Nat, pai : BOOLEAN]
  \cup [mode : {"PERISCOLAIRE"}, matins : Nat, soirs : Nat]
  \cup [mode : {"ALSH"}, journees : Nat, demis : Nat, repas : Nat]

ASSUME ConstantesPrestations ==
  /\ JOURS_MOIS \in Nat \ {0} /\ JOURS_SEMAINE \in Nat \ {0}
  /\ AUJOURDHUI \in Int
  /\ Rien # Refus /\ Rien \notin Int
  /\ Refus \notin PrestationsPossibles

JoursDuMois(m) == m * JOURS_MOIS .. (m + 1) * JOURS_MOIS - 1
JourSemaine(j) == j % JOURS_SEMAINE

\* Nothing was entered for the month.
SaisieVide ==
  [complement |-> 0, supplementaires |-> {}, absences |-> {}, ajustements |-> {},
   pai |-> FALSE, exceptions |-> <<>>, joursAlsh |-> {}]

\* A version of a contract has the hours and the services of each day of the
\* week; an entry has durations, which are never negative (Duree), and a date
\* for each of its items, absences excepted.
VersionCorrecte(champs) ==
  /\ champs.annuel \in Nat /\ champs.mensualites \in Nat
  /\ \A d \in 0 .. JOURS_SEMAINE - 1 : IsFiniteSet(champs.creche[d])

SaisieCorrecte(saisie) ==
  /\ saisie.complement \in Nat /\ saisie.pai \in BOOLEAN
  /\ IsFiniteSet(saisie.supplementaires) /\ IsFiniteSet(saisie.absences)
  /\ IsFiniteSet(saisie.ajustements) /\ IsFiniteSet(saisie.joursAlsh)
  /\ \A x \in saisie.supplementaires : x.date \in Int /\ x.duree \in Nat
  /\ \A x \in saisie.absences : x.date \in Int \cup {Rien} /\ x.duree \in Nat
  /\ \A a \in saisie.ajustements : a.date \in Int /\ IsFiniteSet(a.presence)
  /\ DOMAIN saisie.exceptions \subseteq Int
  /\ \A x \in saisie.joursAlsh :
       x.date \in Int /\ x = [date |-> x.date, type |-> x.type, repas |-> x.repas, rang |-> x.rang]

----------------------------------------------------------------------------
(* Segments: a version of the contract within the month.                   *)

EstDansPeriode(s, j) == s.du <= j /\ (s.au = Rien \/ j <= s.au)

\* Mutant: a version ends on the day the next one takes effect.
FinJourSuivant(versions, d) ==
  LET apres == {e \in DOMAIN versions : e > d} IN
  IF apres = {} THEN Rien ELSE Min(apres)

\* depuisSuite: a version ends the day before the next one takes effect.
FinDeVersion(versions, d) ==
  LET apres == {e \in DOMAIN versions : e > d} IN
  IF apres = {} THEN Rien ELSE Min(apres) - 1

\* Dates from the oldest to the youngest.
Chronologie(dates) ==
  [i \in 1 .. Cardinality(dates) |->
     CHOOSE d \in dates : Cardinality({e \in dates : e < d}) = i - 1]

\* resoudreVersionCourante: the version in force today, else the first.
VersionCourante(versions) ==
  LET passees == {d \in DOMAIN versions : d <= AUJOURDHUI} IN
  IF passees = {} THEN Min(DOMAIN versions) ELSE Max(passees)

\* construireSegments: a version within the life of the contract and the
\* month, or the current one and the whole contract when none meets them.
ConstruireSegments(contrat, m) ==
  LET versions == contrat.versions
      fin      == Max(JoursDuMois(m))
      Segment(d) ==
        [mode |-> contrat.mode, champs |-> versions[d],
         du |-> Max({Min(JoursDuMois(m)), contrat.du, d}),
         au |-> Min({fin} \cup ({contrat.au, FinDeVersion(versions, d)} \ {Rien}))]
      couvrants == {d \in DOMAIN versions : Segment(d).du <= Segment(d).au}
      dates     == Chronologie(couvrants)
  IN IF couvrants = {}
     THEN <<[mode |-> contrat.mode, champs |-> versions[VersionCourante(versions)],
             du |-> contrat.du, au |-> contrat.au]>>
     ELSE [i \in DOMAIN dates |-> Segment(dates[i])]

JoursActifs(s, m) == {j \in JoursDuMois(m) : EstDansPeriode(s, j)}

----------------------------------------------------------------------------
(* One segment of a creche contract (contrat-creche.ts).                   *)

HeuresDuJour(s, j) == s.champs.creche[JourSemaine(j)]

Deductibles(items) == {x \in items : x.deductible}
Duree(x)           == x.duree

\* effetAjustements: the real hours of a day that is kept, which carries no
\* other dated entry.
AjustementsDuMois(saisie, m) == {a \in saisie.ajustements : a.date \in JoursDuMois(m)}

DatesOccupees(saisie) == {x.date : x \in saisie.absences \cup saisie.supplementaires}

AjustementRefuse(s, saisie, m) ==
  \E a \in AjustementsDuMois(saisie, m) :
    \/ HeuresDuJour(s, a.date) = {}
    \/ a.date \in DatesOccupees(saisie)
    \/ \E b \in AjustementsDuMois(saisie, m) \ {a} : b.date = a.date

Extension(s, a) == Cardinality(a.presence \ HeuresDuJour(s, a.date))
Reduction(s, a) == Cardinality(HeuresDuJour(s, a.date) \ a.presence)

Durees(items)         == MapThenSumSet(Duree, items)
Extensions(s, items)  == MapThenSumSet(LAMBDA a : Extension(s, a), items)
Reductions(s, items)  == MapThenSumSet(LAMBDA a : Reduction(s, a), items)
HeuresDes(s, jours)   == MapThenSumSet(LAMBDA j : Cardinality(HeuresDuJour(s, j)), jours)

\* Outside the period an entry has no effect, absences excepted.
DansSegment(s, m, items) == {x \in items : x.date \in JoursActifs(s, m)}

CrecheVide(s) ==
  [mode |-> Creche, annuel |-> 0, mensualites |-> s.champs.mensualites,
   complement |-> 0, reservees |-> 0, deduites |-> 0]

\* genererPrestationsMois (creche); heuresMensualisees is computed again by
\* the tariff and left out here.
GenererCreche(s, m, saisie, fermes) ==
  LET ajustes   == DansSegment(s, m, saisie.ajustements)
      reservees == HeuresDes(s, JoursActifs(s, m) \ fermes)
      deduites  == Durees(Deductibles(saisie.absences)) + Reductions(s, Deductibles(ajustes))
  IN CASE JoursActifs(s, m) = {} -> CrecheVide(s)
       [] JoursActifs(s, m) # {} /\ (AjustementRefuse(s, saisie, m) \/ deduites > reservees) -> Refus
       [] OTHER ->
          [mode |-> Creche, annuel |-> s.champs.annuel, mensualites |-> s.champs.mensualites,
           complement |-> saisie.complement + Durees(DansSegment(s, m, saisie.supplementaires))
                          + Extensions(s, ajustes),
           reservees |-> reservees, deduites |-> deduites]

----------------------------------------------------------------------------
(* One segment of a school contract (inscription-abcm.ts).                 *)

\* inscriptionsEffectives: the week of the contract, unless the day has its own
\* entry; a day added to ALSH takes the formula of its week, or a full day.
InscriptionsEffectives(s, saisie, j) ==
  LET base == s.champs.abcm[JourSemaine(j)] IN
  IF j \notin DOMAIN saisie.exceptions THEN base
  ELSE LET e == saisie.exceptions[j] IN
    [services |-> (base.services \cup e.ajoute) \ e.retire,
     alsh |-> CASE "alsh" \in e.retire -> Rien
                [] "alsh" \in e.ajoute /\ base.alsh = Rien -> [type |-> "COMPLETE", repas |-> FALSE]
                [] OTHER -> base.alsh]

JoursFacturables(s, m, fermes) == JoursActifs(s, m) \ fermes

JoursDe(service, s, m, saisie, fermes) ==
  {j \in JoursFacturables(s, m, fermes) : service \in InscriptionsEffectives(s, saisie, j).services}

\* genererPrestationsAlsh: the days that were booked by their date, then those
\* of the week that are not.
SeancesAlsh(s, m, saisie, fermes) ==
  LET reserves == {x \in saisie.joursAlsh : x.date \in JoursFacturables(s, m, fermes)}
      restants == {j \in JoursFacturables(s, m, fermes) \ {x.date : x \in reserves} :
                     InscriptionsEffectives(s, saisie, j).alsh # Rien}
  IN reserves \cup
     {[date |-> j, type |-> InscriptionsEffectives(s, saisie, j).alsh.type,
       repas |-> InscriptionsEffectives(s, saisie, j).alsh.repas, rang |-> 0] : j \in restants}

CompterAlsh(seances) ==
  [mode |-> "ALSH",
   journees |-> Cardinality({x \in seances : x.type = "COMPLETE"}),
   demis    |-> Cardinality({x \in seances : x.type = "DEMI"}),
   repas    |-> Cardinality({x \in seances : x.repas})]

GenererAbcm(s, m, saisie, fermes) ==
  LET Compte(service) == Cardinality(JoursDe(service, s, m, saisie, fermes)) IN
  CASE s.mode = "CANTINE"      -> [mode |-> s.mode, jours |-> Compte("cantine"), pai |-> saisie.pai]
    [] s.mode = "PERISCOLAIRE" -> [mode |-> s.mode, matins |-> Compte("periMatin"), soirs |-> Compte("periSoir")]
    [] OTHER                   -> CompterAlsh(SeancesAlsh(s, m, saisie, fermes))

\* genererPrestationMois.
Generer(s, m, saisie, fermes) ==
  IF s.mode = Creche THEN GenererCreche(s, m, saisie, fermes) ELSE GenererAbcm(s, m, saisie, fermes)

----------------------------------------------------------------------------
(* The month of a contract whose versions share it (generation-prestations). *)

\* The segment that covers a date, or the monthly one.
Cible(segments, j, mensuel) ==
  LET couvrants == {i \in DOMAIN segments : EstDansPeriode(segments[i], j)} IN
  IF j = Rien \/ couvrants = {} THEN mensuel ELSE Min(couvrants)

\* The segment that covers the first day of the month, or the first one.
IdxMensuel(segments, m) == Cible(segments, m * JOURS_MOIS, 1)

\* Mutant: what has no date goes to every segment.
RepartirPartout(segments, saisie, mensuel, i) ==
  LET Part(items) == {x \in items : x.date = Rien \/ Cible(segments, x.date, mensuel) = i}
      Exc == {j \in DOMAIN saisie.exceptions : Cible(segments, j, mensuel) = i}
  IN [complement |-> saisie.complement,
      pai |-> saisie.pai,
      supplementaires |-> Part(saisie.supplementaires),
      absences |-> Part(saisie.absences), ajustements |-> Part(saisie.ajustements),
      exceptions |-> [j \in Exc |-> saisie.exceptions[j]], joursAlsh |-> Part(saisie.joursAlsh)]

\* repartirSaisie: dated items go to the segment of their date, what has no
\* date to the monthly segment only.
RepartirSaisie(segments, saisie, mensuel, i) ==
  LET Part(items) == {x \in items : Cible(segments, x.date, mensuel) = i}
      Exc == {j \in DOMAIN saisie.exceptions : Cible(segments, j, mensuel) = i}
  IN [complement |-> IF i = mensuel THEN saisie.complement ELSE 0,
      pai |-> i = mensuel /\ saisie.pai,
      supplementaires |-> Part(saisie.supplementaires),
      absences |-> Part(saisie.absences), ajustements |-> Part(saisie.ajustements),
      exceptions |-> [j \in Exc |-> saisie.exceptions[j]], joursAlsh |-> Part(saisie.joursAlsh)]

\* fusionnerCreche and the sums of the school modes.
Total(parts, champ) == MapThenSumSet(LAMBDA i : parts[i][champ], DOMAIN parts)

Fusionner(parts, mensuel) ==
  LET p == parts[mensuel] IN
  CASE p.mode = Creche ->
         [p EXCEPT !.complement = Total(parts, "complement"),
                   !.reservees = Total(parts, "reservees"), !.deduites = Total(parts, "deduites")]
    [] p.mode = "CANTINE" -> [p EXCEPT !.jours = Total(parts, "jours")]
    [] p.mode = "PERISCOLAIRE" ->
         [p EXCEPT !.matins = Total(parts, "matins"), !.soirs = Total(parts, "soirs")]
    [] OTHER ->
         [p EXCEPT !.journees = Total(parts, "journees"), !.demis = Total(parts, "demis"),
                   !.repas = Total(parts, "repas")]

\* genererPrestationMoisSegments: an error in any segment is an error.
GenererSegments(segments, m, saisie, fermes) ==
  LET mensuel == IdxMensuel(segments, m)
      parts   == [i \in DOMAIN segments |->
                    Generer(segments[i], m, RepartirSaisie(segments, saisie, mensuel, i), fermes)]
  IN IF Len(segments) = 1 THEN Generer(segments[1], m, saisie, fermes)
     ELSE IF \E i \in DOMAIN parts : parts[i] = Refus THEN Refus
     ELSE Fusionner(parts, mensuel)

\* prestationsMois, once its rows are read.
Prestations(contrat, m, saisie, fermes) ==
  GenererSegments(ConstruireSegments(contrat, m), m, saisie, fermes)
=============================================================================
