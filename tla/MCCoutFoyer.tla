---------------------------- MODULE MCCoutFoyer ----------------------------
(* CoutFoyer on small instances: two months of three days, weeks of two.   *)
EXTENDS CoutFoyer

Symetrie == Permutations(CONTRATS)

LesMois == {0, 1}

\* A creche contract that began during the first month, a canteen that begins
\* with the school year, in the second one.
LesFormes ==
  {[mode |-> Creche, du |-> 1, au |-> Rien, premiere |-> FALSE, etab |-> "e1"],
   [mode |-> "CANTINE", du |-> 4, au |-> 5, premiere |-> TRUE, etab |-> "e1"]}

\* An edit that moves the first day before the first version.
LesReprises == {[du |-> 0, au |-> Rien, premiere |-> FALSE, etab |-> "e1"]}

Inscription(services, alsh) == [services |-> services, alsh |-> alsh]
SansInscription == Inscription({}, Rien)

LesChamps ==
  {[annuel |-> 60, mensualites |-> 3, creche |-> (0 :> {9, 10}) @@ (1 :> {9}),
    abcm |-> (0 :> Inscription({"cantine", "periMatin"}, [type |-> "COMPLETE", repas |-> TRUE]))
             @@ (1 :> SansInscription)],
   [annuel |-> 20, mensualites |-> 2, creche |-> (0 :> {}) @@ (1 :> {9, 10, 11}),
    abcm |-> (0 :> Inscription({"periSoir"}, Rien))
             @@ (1 :> Inscription({"cantine"}, [type |-> "DEMI", repas |-> FALSE]))]}

\* Entries without a day, with a day, on a day that is closed or outside the
\* contract, and some that the domain refuses: two for each month.
Datee(b) ==
  [SaisieVide EXCEPT
     !.complement = 1, !.pai = TRUE,
     !.absences = {[date |-> b + 1, duree |-> 1, deductible |-> TRUE]},
     !.supplementaires = {[date |-> b + 2, duree |-> 2, rang |-> 1], [date |-> b + 2, duree |-> 2, rang |-> 2]},
     !.exceptions = (b + 1) :> [ajoute |-> {"alsh", "cantine"}, retire |-> {}],
     !.joursAlsh = {[date |-> b + 2, type |-> "DEMI", repas |-> TRUE, rang |-> i] : i \in 1 .. 2}]

Ajustee(b) ==
  [SaisieVide EXCEPT
     !.absences = {[date |-> Rien, duree |-> 2, deductible |-> TRUE]},
     !.ajustements = {[date |-> b + 1, presence |-> {10, 11}, deductible |-> TRUE]},
     !.exceptions = (b + 2) :> [ajoute |-> {}, retire |-> {"cantine", "alsh"}]]

\* The same real hours twice.
Doublee(b) ==
  [SaisieVide EXCEPT
     !.ajustements = {[date |-> b + 1, presence |-> {9}, deductible |-> TRUE, rang |-> i] : i \in 1 .. 2}]

LesSaisies ==
  [m \in LesMois |-> {Datee(m * JOURS_MOIS), IF m = 0 THEN Ajustee(0) ELSE Doublee(3)}]

Semaine(services0, services1) ==
  {[regime |-> "SCOLAIRE", jour |-> 0, services |-> services0],
   [regime |-> "SCOLAIRE", jour |-> 1, services |-> services1]}

LesRecurrences == {Semaine(Modes, {Creche})}
LesExceptions  == {[jour |-> 4, type |-> "FERMETURE", services |-> Rien]}
LesPeriodes    == {[type |-> "VACANCES", du |-> 2, au |-> 3]}
LesFeries      == {{}}

\* A second establishment has no calendar yet.
LesEtablissements == {"e1", "e2"}
LeCalendrier ==
  ("e1" :> [recurrences |-> Semaine(Modes, Modes), exceptions |-> {}, feries |-> {5},
            periodes |-> {[type |-> "FERMETURE_ANNUELLE", du |-> 3, au |-> 3, connu |-> 1]}])
  @@ ("e2" :> [recurrences |-> {}, exceptions |-> {}, feries |-> {}, periodes |-> {}])

Famille(ressources) == [ressources |-> ressources, enfants |-> 1, tranche |-> "t1"]

\* An income for each month; svc-foyer tells the second one on demand.
LesFoyers ==
  {[versions |-> {[du |-> 0, au |-> 2, foyer |-> Famille(300000)],
                  [du |-> 3, au |-> Rien, foyer |-> Famille(400000)]}, courant |-> Famille(400000)]}
LeFoyerRepli == Famille(400000)

Bareme == [mode |-> Creche, du |-> 0, au |-> Rien, plancher |-> 250000, plafond |-> 350000,
           taux |-> <<619, 516>>]
Grille(du, au, prix) ==
  [mode |-> "CANTINE", tranche |-> "t1", du |-> du, au |-> au,
   postes |-> [cantineTotal |-> prix, cantinePartGarde |-> prix \div 2]]

LesProjetes == {Bareme, Grille(0, 2, 700)}
LesTarifs   == LesProjetes \cup {Grille(3, Rien, 800)}
=============================================================================
