------------------------ MODULE PrestationsReference ------------------------
(***************************************************************************)
(* What the quantities of a month should be, stated day by day, without    *)
(* segments: each day is governed by the version in force on it, and what  *)
(* has no day by the version of the first governed day of the month.       *)
(* PrestationsMois is checked against it.                                  *)
(*                                                                         *)
(* The first day of a contract may have moved before its first version:    *)
(* the days before it are then under no version and bill nothing, unless   *)
(* the month has no other day.                                             *)
(***************************************************************************)
EXTENDS PrestationsMois

\* The days of the month within the life of the contract.
JoursDuContrat(contrat, m) ==
  {j \in JoursDuMois(m) : contrat.du <= j /\ (contrat.au = Rien \/ j <= contrat.au)}

\* Those that a version governs.
Vie(contrat, m) ==
  {j \in JoursDuContrat(contrat, m) : \E d \in DOMAIN contrat.versions : d <= j}

\* The contract, were its current version its only one.
SousVersionCourante(contrat) ==
  [contrat EXCEPT !.versions = [d \in {contrat.du} |-> @[VersionCourante(@)]]]

\* The version in force on a day.
EnVigueur(contrat, j) == Max({d \in DOMAIN contrat.versions : d <= j})

\* The version of what has no governed day.
Mensuelle(contrat, m) == EnVigueur(contrat, Min(Vie(contrat, m)))

Regissant(contrat, m, j) ==
  contrat.versions[IF j \in Vie(contrat, m) THEN EnVigueur(contrat, j) ELSE Mensuelle(contrat, m)]

\* Whether several versions share the month.
Partage(contrat, m) == Cardinality({EnVigueur(contrat, j) : j \in Vie(contrat, m)}) > 1

----------------------------------------------------------------------------
Presence(contrat, m, j) == Regissant(contrat, m, j).creche[JourSemaine(j)]

Reservees(contrat, m, jours) == MapThenSumSet(LAMBDA j : Cardinality(Presence(contrat, m, j)), jours)

Ajustes(contrat, m, saisie) == {a \in saisie.ajustements : a.date \in Vie(contrat, m)}

\* What is deducted on some dates.
DeduitesAux(contrat, m, saisie, dates) ==
  LET absences == {x \in saisie.absences : x.deductible /\ x.date \in dates}
      ajustes  == {a \in Ajustes(contrat, m, saisie) : a.deductible /\ a.date \in dates}
  IN MapThenSumSet(LAMBDA x : x.duree, absences)
     + MapThenSumSet(LAMBDA a : Cardinality(Presence(contrat, m, a.date) \ a.presence), ajustes)

Dates(saisie) == {x.date : x \in saisie.absences \cup saisie.ajustements}

\* The real hours of a day replace its reservation: the day must have one, and
\* no other dated entry.
AjustementIncompatible(contrat, m, saisie) ==
  \E a \in saisie.ajustements :
    /\ a.date \in JoursDuMois(m)
    /\ \/ Presence(contrat, m, a.date) = {}
       \/ \E x \in saisie.absences \cup saisie.supplementaires \cup (saisie.ajustements \ {a}) : x.date = a.date

\* Every hour reserved in the month bounds the deductions (INV-05).
CrecheParJour(contrat, m, saisie, fermes) ==
  LET vie       == Vie(contrat, m)
      mensuelle == contrat.versions[Mensuelle(contrat, m)]
      reservees == Reservees(contrat, m, vie \ fermes)
      deduites  == DeduitesAux(contrat, m, saisie, Dates(saisie))
      ajouts    == {x \in saisie.supplementaires : x.date \in vie}
  IN IF AjustementIncompatible(contrat, m, saisie) \/ deduites > reservees THEN Refus
     ELSE [mode |-> Creche, annuel |-> mensuelle.annuel, mensualites |-> mensuelle.mensualites,
           reservees |-> reservees, deduites |-> deduites,
           complement |-> saisie.complement + MapThenSumSet(LAMBDA x : x.duree, ajouts)
             + MapThenSumSet(LAMBDA a : Cardinality(a.presence \ Presence(contrat, m, a.date)),
                             Ajustes(contrat, m, saisie))]

\* When versions share the month, each one bounds its own deductions, those
\* without a day of the month being the first one's.
VersionExcedee(contrat, m, saisie, fermes) ==
  \E d \in {EnVigueur(contrat, j) : j \in Vie(contrat, m)} :
    LET jours  == {j \in Vie(contrat, m) : EnVigueur(contrat, j) = d}
        autres == IF d = Mensuelle(contrat, m) THEN Dates(saisie) \ Vie(contrat, m) ELSE {}
    IN DeduitesAux(contrat, m, saisie, jours \cup autres) > Reservees(contrat, m, jours \ fermes)

----------------------------------------------------------------------------
\* The week of the version of the day, corrected by the exception of the day.
Inscrit(contrat, m, saisie, j) ==
  InscriptionsEffectives([champs |-> Regissant(contrat, m, j)], saisie, j)

AbcmParJour(contrat, m, saisie, fermes) ==
  LET jours == Vie(contrat, m) \ fermes
      Compte(service) == Cardinality({j \in jours : service \in Inscrit(contrat, m, saisie, j).services})
      Places(j) ==
        LET dates == {x \in saisie.joursAlsh : x.date = j}
            place == Inscrit(contrat, m, saisie, j).alsh
        IN IF dates # {} THEN {<<j, x.type, x.repas, x.rang>> : x \in dates}
           ELSE IF place = Rien THEN {} ELSE {<<j, place.type, place.repas, 0>>}
      places == UNION {Places(j) : j \in jours}
  IN CASE contrat.mode = "CANTINE" -> [mode |-> "CANTINE", jours |-> Compte("cantine"), pai |-> saisie.pai]
       [] contrat.mode = "PERISCOLAIRE" ->
          [mode |-> "PERISCOLAIRE", matins |-> Compte("periMatin"), soirs |-> Compte("periSoir")]
       [] OTHER -> [mode |-> "ALSH",
                    journees |-> Cardinality({p \in places : p[2] = "COMPLETE"}),
                    demis    |-> Cardinality({p \in places : p[2] = "DEMI"}),
                    repas    |-> Cardinality({p \in places : p[3]})]

----------------------------------------------------------------------------
ParJour(contrat, m, saisie, fermes) ==
  IF contrat.mode = Creche THEN CrecheParJour(contrat, m, saisie, fermes)
  ELSE AbcmParJour(contrat, m, saisie, fermes)

\* Nothing to bill.
RienDu(q) == IF q.mode = Creche THEN q.annuel = 0 /\ q.complement = 0 /\ q.deduites = 0
             ELSE \A champ \in DOMAIN q \ {"mode", "pai"} : q[champ] = 0

\* The quantities of the code are those of the reference; a month shared by
\* several versions may be refused although its total is acceptable, and a
\* month of the contract without a governed day is all the current version's.
Conforme(q, contrat, m, saisie, fermes) ==
  /\ JoursDuContrat(contrat, m) = {} => RienDu(q)
  /\ JoursDuContrat(contrat, m) # {} /\ Vie(contrat, m) = {} =>
       q = ParJour(SousVersionCourante(contrat), m, saisie, fermes)
  /\ Vie(contrat, m) # {} =>
       IF contrat.mode = Creche /\ Partage(contrat, m) /\ VersionExcedee(contrat, m, saisie, fermes)
       THEN q = Refus ELSE q = ParJour(contrat, m, saisie, fermes)
=============================================================================
