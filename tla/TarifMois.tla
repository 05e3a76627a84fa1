----------------------------- MODULE TarifMois -----------------------------
(***************************************************************************)
(* The price of a month (libs/tarification/domain): what a contract, then  *)
(* a household, owes for the quantities of a month, in whole centimes.     *)
(*                                                                         *)
(* A quantity of time counts slots of CRENEAU minutes; a rate is a number  *)
(* of millionths.  The code multiplies floating-point numbers, rounded to  *)
(* the centime: the model divides integers.                                *)
(***************************************************************************)
EXTENDS PrestationsMois

CONSTANTS
  CRENEAU,        \* minutes of a slot
  MOIS_ANNEE,     \* months of a year
  RENTREE,        \* the month of the year when school begins, from 0
  COTISATION,     \* yearly fee of the association
  FRAIS_PREMIERE  \* fee of the first year

ASSUME ConstantesTarif ==
  /\ CRENEAU \in Nat \ {0}
  /\ MOIS_ANNEE \in Nat \ {0} /\ RENTREE \in 0 .. MOIS_ANNEE - 1
  /\ COTISATION \in Nat /\ FRAIS_PREMIERE \in Nat

\* Math.round of a quotient.
ArrondiDiv(a, b) == (2 * a + b) \div (2 * b)

\* selectionnerVersionApplicable: the version that covers the day and began
\* last, or none.
Applicable(versions, j) ==
  LET candidats == {v \in versions : EstDansPeriode(v, j)} IN
  IF candidats = {} THEN Rien
  ELSE CHOOSE v \in candidats : \A w \in candidats : w.du <= v.du

----------------------------------------------------------------------------
(* Creche (tarif-creche-psu.ts).                                           *)

BornerRessources(r, b) ==
  CASE b.plafond # Rien /\ r > b.plafond -> b.plafond
    [] b.plancher # Rien /\ b.plancher > r /\ (b.plafond = Rien \/ r <= b.plafond) -> b.plancher
    [] OTHER -> r

\* Beyond the last level its rate applies.
Taux(b, enfants) ==
  LET niveaux == DOMAIN b.taux
      niveau  == Min({enfants, Max({0} \cup niveaux)})
  IN IF niveau \in niveaux /\ enfants >= 1 THEN b.taux[niveau] ELSE Refus

TarifHoraire(f, b) == ArrondiDiv(BornerRessources(f.ressources, b) * Taux(b, f.enfants), 1000000)

\* Hundredths of an hour.
HeuresMensualisees(p) == ArrondiDiv(100 * p.annuel, p.mensualites)

Mensualite(th, centiemes) == ArrondiDiv(th * centiemes, 100)
Duree60(th, creneaux)     == ArrondiDiv(th * creneaux * CRENEAU, 60)

\* The hours deducted exceed those of the instalment (INV-05).
DeductionExcessive(centiemes, creneaux) == 100 * creneaux * CRENEAU > 60 * centiemes

CoutCreche(th, centiemes, complement, deduites) ==
  Mensualite(th, centiemes) + Duree60(th, complement) - Duree60(th, deduites)

ValoriserCreche(p, f, b) ==
  IF Taux(b, f.enfants) = Refus \/ DeductionExcessive(HeuresMensualisees(p), p.deduites) THEN Refus
  ELSE CoutCreche(TarifHoraire(f, b), HeuresMensualisees(p), p.complement, p.deduites)

----------------------------------------------------------------------------
(* School (tarif-*-abcm.ts, grille-abcm.ts).                               *)

\* A position that the grid does not define cannot be priced, even for nothing.
ValoriserPostes(g, quantites) ==
  IF DOMAIN quantites \subseteq DOMAIN g.postes
  THEN MapThenSumSet(LAMBDA poste : g.postes[poste] * quantites[poste], DOMAIN quantites)
  ELSE Refus

PosteCantine(p) == IF p.pai THEN "cantinePartGarde" ELSE "cantineTotal"

Postes(p) ==
  CASE p.mode = "CANTINE"      -> [x \in {PosteCantine(p)} |-> p.jours]
    [] p.mode = "PERISCOLAIRE" -> [periMatin |-> p.matins, periSoir |-> p.soirs]
    [] OTHER -> [alshJourneeComplete |-> p.journees, alshDemiJournee |-> p.demis, alshRepas |-> p.repas]

\* valoriserPrestation, with the tariff of the month.
Valoriser(p, f, tarif) ==
  IF p.mode = Creche THEN ValoriserCreche(p, f, tarif) ELSE ValoriserPostes(tarif, Postes(p))

\* prestationEstVide.
EstVide(p) ==
  IF p.mode = Creche THEN p.annuel = 0 /\ p.complement = 0
  ELSE \A poste \in DOMAIN Postes(p) : Postes(p)[poste] = 0

----------------------------------------------------------------------------
(* Yearly fees (frais-fixes-abcm.ts, premiere-annee-abcm.ts).              *)

EstMoisFraisFixes(m) == m % MOIS_ANNEE = RENTREE

AnneeScolaire(j) ==
  LET m == j \div JOURS_MOIS IN
  IF m % MOIS_ANNEE >= RENTREE THEN m \div MOIS_ANNEE ELSE m \div MOIS_ANNEE - 1

EstPremiereAnnee(m, contrats) ==
  \E c \in contrats : c.mode # Creche /\ c.premiere /\ AnneeScolaire(c.du) = m \div MOIS_ANNEE

FraisFixes(m, premiere) ==
  IF ~EstMoisFraisFixes(m) THEN 0
  ELSE IF premiere THEN COTISATION + FRAIS_PREMIERE ELSE COTISATION
=============================================================================
