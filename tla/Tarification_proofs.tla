------------------------ MODULE Tarification_proofs ------------------------
(***************************************************************************)
(* Theorems about svc-tarification.                                        *)
(*                                                                         *)
(* The copy (ProjectionPlanning): for any requests, renamings, erasures,   *)
(* overlaps, orders of delivery and failures, the planning keeps the weeks *)
(* that were saved, the copy is the contract when everything was applied,  *)
(* and an erased household leaves nothing.                                 *)
(*                                                                         *)
(* The cost (CoutFoyer): for any contracts, months, price lists and        *)
(* calendars, the versions of a contract share time out (depuisSuite), the *)
(* quantities of a month are those of the day-by-day reference, no month   *)
(* of creche is negative (INV-06), the answer to a request is coherent,    *)
(* whatever the tables do meanwhile, and it is what the planning says once *)
(* every event was applied.                                                *)
(***************************************************************************)
EXTENDS ProjectionPlanning, CoutFoyer, FiniteSetTheorems, WellFoundedInduction, TLAPS

----------------------------------------------------------------------------
(* The inductive invariant of the planning and of its copy.                *)

Nommes == {"creer", "avenant", "corriger", "rattacher", "renomme"}
DuContrat == {"avenant", "corriger", "rattacher", "supprimer", "mois", "semaine"}

\* What a transaction carries depends on what it does.
TxCoherente(a) ==
  LET t == tx[a] IN
  /\ t # Repos => t.op # Aucun /\ t.debut # 0 /\ t.debut <= debuts
  /\ t.op \in Nommes => t.prenom \in Prenoms
  /\ t.op = "semaine" => t.semaine \in Semaines
  /\ a = Boucle /\ t # Repos => t.evt \in foyer /\ t.op = t.evt.type
  /\ a \in Commandes => t.op \in Operations \cup {Aucun}

Types == TypeOK /\ IsFiniteSet(foyer) /\ \A a \in Acteurs : TxCoherente(a)

\* A save that nobody overtook has the month as it is; without a month no save
\* is kept.
Semaine ==
  /\ planning = Aucun => dernier = Vide
  /\ \A a \in Acteurs : tx[a].op = "semaine" /\ ~tx[a].double => tx[a].mois = planning
  /\ SemainesGardees

\* After the erasure the contract does not come back, but from a request that
\* saw none; here, nothing is left to be applied.
Erasure ==
  /\ tEfface => Efface
  /\ tEfface /\ ~tardif /\ ~orphelin =>
       /\ outbox = tFaits /\ lecture = Aucun /\ contrat = Aucun
       /\ \A a \in Acteurs : tx[a].op \notin DuContrat
  /\ EffacementTenu

Etats     == {e \in outbox : e.type # "planning"}
Plannings == {e \in outbox : e.type = "planning"}
Fins      == {e \in outbox : e.type = "supprime"}

\* The dates of the events follow the order of the commits, as long as no two
\* transactions cross: a transaction in progress that nobody overtook will
\* date its event after all the others, and its contract is the one it read.
DatesPropres ==
  /\ \A e, f \in outbox : e.le = f.le => e = f
  /\ \A e \in outbox : e.le <= debuts
  /\ \A a \in Acteurs : tx[a] # Repos /\ ~tx[a].double =>
       /\ \A e \in outbox : e.le < tx[a].debut
       /\ tx[a].op = "creer" => Fins = {}
       /\ tx[a].op \in DuContrat => contrat # Aucun
       /\ tx[a].op \in {"avenant", "rattacher"} => tx[a].prenom = contrat.prenom

\* The youngest event of the contract tells its row, its creation comes first
\* and its deletion last.
Emis ==
  /\ \A e \in outbox : e.type = "cree" => \A f \in outbox : e.le <= f.le
  /\ contrat = Aucun => outbox = {} \/ Fins # {}
  /\ contrat # Aucun =>
       /\ Fins = {}
       /\ \E e \in Etats : e.prenom = contrat.prenom /\ \A f \in Etats : f.le <= e.le
  /\ \A e \in Fins : \A f \in outbox : f.le <= e.le
  /\ planning # Aucun => contrat # Aucun /\ Plannings # {}

\* The month has the quantities of the source, once those that the last save
\* announced were asked for.
Courantes == [version |-> contrat.version, mois |-> planning]
AJour == planning # Aucun /\ ~perime
Quantifie ==
  /\ tMois # Aucun /\ AJour /\ (\A e \in Plannings : e.le <= tMois.le) => tMois.quantites = Courantes
  /\ lecture # Aucun /\ AJour /\ (\A e \in Plannings : e.le <= lecture.evt.le) =>
       lecture.quantites \in {Aucun, Courantes}

\* A save that was applied left a month at least as young.
MoisRecu ==
  /\ tMois # Aucun => \E e \in Plannings : e.le = tMois.le
  /\ \A e \in Plannings \cap tFaits : Fins \cap tFaits # {} \/ (tMois # Aucun /\ e.le <= tMois.le)

\* The rows are those of the youngest event of the contract that was applied.
IdentiteSuit ==
  ~desordre =>
    /\ tContrat = Aucun => Etats \cap tFaits = {} \/ Fins \cap tFaits # {}
    /\ tContrat # Aucun =>
         /\ Fins \cap tFaits = {}
         /\ \E e \in Etats \cap tFaits :
              /\ e.prenom = tContrat.prenom /\ e.le = tContrat.le
              /\ \A f \in Etats \cap tFaits : f.le <= e.le
    /\ tMois # Aucun => tMois.prenom = tContrat.prenom

\* The loop has one message in hand, and knows the contract it is about.
EnLecture ==
  /\ tContrat = Aucun => tMois = Aucun /\ lecture = Aucun
  /\ lecture # Aucun => lecture.prenom = tContrat.prenom
  /\ lecture # Aucun => lecture.evt \in Plannings \ tFaits

Suivi == DatesPropres /\ Emis /\ MoisRecu /\ Quantifie /\ IdentiteSuit

Inv == Types /\ Semaine /\ Erasure

InvPlanning ==
  /\ Inv
  /\ ~Efface => EnLecture
  /\ ~Efface /\ ~croise => Suivi

----------------------------------------------------------------------------
(* Types, weeks and erasure.                                               *)

\* A contract, a month, a date are what they are said to be.
LEMMA FormesPropres ==
  ASSUME Types
  PROVE  /\ contrat # Aucun =>
              contrat \in Contrats /\ contrat.prenom \in Prenoms /\ contrat.version \in Contenus
         /\ planning # Aucun => planning \in Mois
         /\ \A e \in outbox : e \in Evenements /\ e.le \in Contenus
         /\ \A e \in outbox : e.type \in {"cree", "modifie"} => e.prenom \in Prenoms
         /\ \A a \in Acteurs : tx[a] \in TxTypes /\ tx[a].debut \in Contenus
         /\ debuts \in Nat /\ MAX_TX \in Nat /\ debuts <= MAX_TX
<1>1. /\ contrat \in Contrats \cup {Aucun} /\ planning \in Mois \cup {Aucun}
      /\ outbox \subseteq Evenements /\ tx \in [Acteurs -> TxTypes]
      /\ debuts \in Contenus /\ MAX_TX \in Nat
  BY ConstantesPlanning DEF Types, TypeOK, PlanningTypeOK
<1>2. contrat # Aucun => contrat \in Contrats /\ contrat.prenom \in Prenoms /\ contrat.version \in Contenus
  BY <1>1 DEF Contrats
<1>3. \A e \in outbox : e.le \in Contenus /\ (e.type \in {"cree", "modifie"} => e.prenom \in Prenoms)
  BY <1>1 DEF Evenements
<1>4. \A a \in Acteurs : tx[a].debut \in Contenus
  BY <1>1 DEF TxTypes
<1>5. debuts \in Nat /\ debuts <= MAX_TX
  BY <1>1 DEF Contenus
<1> QED BY <1>1, <1>2, <1>3, <1>4, <1>5

\* At rest a transaction has no operation.
LEMMA AuRepos ==
  /\ Repos \in TxTypes /\ Repos.op = Aucun /\ Repos.double = FALSE /\ Repos.debut = 0
  /\ Repos.op \notin Operations \cup {"renomme", "effacement"}
<1>1. 0 \in Contenus
  BY ConstantesPlanning DEF Contenus
<1>2. Repos \in TxTypes
  BY <1>1 DEF Repos, TxTypes
<1> QED BY <1>2, ConstantesPlanning DEF Repos

\* Nothing has begun.
LEMMA InvInit == Init => Inv
<1> SUFFICES ASSUME Init PROVE Inv
  OBVIOUS
<1>1. 0 \in Contenus
  BY ConstantesPlanning DEF Contenus
<1>2. TypeOK
  <2>1. \A a \in Acteurs : tx[a] = Repos
    BY DEF Init, PlanningInit
  <2>2. tx \in [Acteurs -> TxTypes]
    BY AuRepos DEF Init, PlanningInit
  <2>3. dernier \in Mois
    BY <1>1 DEF Init, PlanningInit, Vide, Mois
  <2> QED BY <1>1, <2>2, <2>3 DEF Init, PlanningInit, TypeOK, PlanningTypeOK
<1>3. \A a \in Acteurs : tx[a] = Repos
  BY DEF Init, PlanningInit
<1>4. IsFiniteSet(foyer)
  BY FS_EmptySet DEF Init, PlanningInit
<1>5. \A a \in Acteurs : TxCoherente(a)
  <2>1. Repos.op \notin Nommes /\ Repos.op # "semaine" /\ Repos.op \in Operations \cup {Aucun}
    BY AuRepos DEF Nommes, Operations
  <2> QED BY <1>3, <2>1 DEF TxCoherente
<1>6. Semaine
  <2>1. \A a \in Acteurs : tx[a].op # "semaine"
    BY <1>3, AuRepos DEF Operations
  <2> QED BY <2>1 DEF Init, PlanningInit, Semaine, SemainesGardees
<1>7. Erasure
  BY DEF Init, PlanningInit, Erasure, EffacementTenu
<1> QED BY <1>2, <1>4, <1>5, <1>6, <1>7 DEF Inv, Types

\* A transaction that is given its date, or overtaken.
LEMMA Datee ==
  ASSUME NEW t \in TxTypes, NEW le \in Contenus
  PROVE  \E n \in TxTypes :
           /\ n = [t EXCEPT !.debut = le]
           /\ n.debut = le /\ n.op = t.op /\ n.prenom = t.prenom /\ n.mois = t.mois
           /\ n.semaine = t.semaine /\ n.evt = t.evt /\ n.double = t.double
<1> DEFINE n == [t EXCEPT !.debut = le]
<1>1. n \in TxTypes
  BY DEF TxTypes
<1>2. /\ n.debut = le /\ n.op = t.op /\ n.prenom = t.prenom /\ n.mois = t.mois
      /\ n.semaine = t.semaine /\ n.evt = t.evt /\ n.double = t.double
  BY DEF TxTypes
<1>3. n = [t EXCEPT !.debut = le]
  OBVIOUS
<1> HIDE DEF n
<1> QED BY <1>1, <1>2, <1>3

LEMMA Depassee ==
  ASSUME NEW t \in TxTypes
  PROVE  \E n \in TxTypes :
           /\ n = [t EXCEPT !.double = TRUE]
           /\ n.op = t.op /\ n.debut = t.debut /\ n.prenom = t.prenom
           /\ n.semaine = t.semaine /\ n.evt = t.evt /\ n.double = TRUE
<1> DEFINE n == [t EXCEPT !.double = TRUE]
<1>1. n \in TxTypes
  BY DEF TxTypes
<1>2. /\ n.op = t.op /\ n.debut = t.debut /\ n.prenom = t.prenom
      /\ n.semaine = t.semaine /\ n.evt = t.evt /\ n.double = TRUE
  BY DEF TxTypes
<1>3. n = [t EXCEPT !.double = TRUE]
  OBVIOUS
<1> HIDE DEF n
<1> QED BY <1>1, <1>2, <1>3

\* A transaction begins.
LEMMA Debute ==
  ASSUME Types, NEW a \in Acteurs, NEW t \in TxTypes, Debuter(a, t),
         t.op # Aucun, t.op \in Nommes => t.prenom \in Prenoms,
         t.op = "semaine" => t.semaine \in Semaines,
         a = Boucle => t.evt \in foyer /\ t.op = t.evt.type,
         a \in Commandes => t.op \in Operations, UNCHANGED copie
  PROVE  /\ Types' /\ debuts' = debuts + 1
         /\ tx[a] = Repos
         /\ tx'[a].debut = debuts + 1
         /\ tx'[a].op = t.op /\ tx'[a].prenom = t.prenom /\ tx'[a].mois = t.mois
         /\ tx'[a].double = t.double
         /\ \A d \in Acteurs \ {a} : tx'[d] = tx[d]
<1>1. /\ tx[a] = Repos /\ debuts < MAX_TX /\ debuts' = debuts + 1
      /\ tx' = [tx EXCEPT ![a] = [t EXCEPT !.debut = debuts']]
      /\ UNCHANGED <<foyer, tables, pFaits>>
  BY DEF Debuter
<1>2. debuts + 1 \in Contenus /\ debuts \in Nat /\ debuts + 1 # 0
  BY <1>1, FormesPropres DEF Contenus
<1>3. PICK n \in TxTypes :
        /\ n = [t EXCEPT !.debut = debuts + 1]
        /\ n.debut = debuts + 1 /\ n.op = t.op /\ n.prenom = t.prenom /\ n.mois = t.mois
        /\ n.semaine = t.semaine /\ n.evt = t.evt /\ n.double = t.double
  BY <1>2, Datee
<1>4. tx \in [Acteurs -> TxTypes]
  BY DEF Types, TypeOK, PlanningTypeOK
<1>5. tx' \in [Acteurs -> TxTypes] /\ tx'[a] = n /\ \A d \in Acteurs \ {a} : tx'[d] = tx[d]
  BY <1>1, <1>3, <1>4
<1>6. UNCHANGED <<foyer, contrat, planning, outbox, pFaits, dernier, perdues, croise, perime, orphelin>>
  BY <1>1 DEF tables, histoire
<1>7. TypeOK' /\ IsFiniteSet(foyer')
  BY <1>1, <1>2, <1>5, <1>6 DEF Types, TypeOK, PlanningTypeOK, copie
<1>9. \A d \in Acteurs : TxCoherente(d)'
  <2>1. ASSUME NEW d \in Acteurs \ {a} PROVE TxCoherente(d)'
    <3>1. TxCoherente(d) /\ tx'[d] = tx[d] /\ foyer' = foyer /\ debuts' = debuts + 1
      BY <1>1, <1>5, <1>6 DEF Types
    <3>2. tx[d].debut \in Nat
      BY FormesPropres DEF Contenus
    <3> QED BY <1>2, <3>1, <3>2 DEF TxCoherente
  <2>2. TxCoherente(a)'
    BY <1>1, <1>2, <1>3, <1>5, <1>6 DEF TxCoherente
  <2> QED BY <2>1, <2>2
<1> QED BY <1>1, <1>2, <1>3, <1>5, <1>7, <1>9 DEF Types

\* A transaction ends: it is at rest, and the others were overtaken.
LEMMA Termine ==
  ASSUME Types, NEW a \in Acteurs, Terminer(a), UNCHANGED <<foyer, debuts>>
  PROVE  /\ tx' \in [Acteurs -> TxTypes]
         /\ \A d \in Acteurs : TxCoherente(d)'
         /\ \A d \in Acteurs : tx'[d] # Repos =>
              /\ d # a /\ tx[d] # Repos /\ tx'[d].double
              /\ tx'[d].op = tx[d].op
         /\ \A d \in Acteurs : tx'[d].op # Aucun => tx'[d] # Repos
<1>1. ASSUME NEW d \in Acteurs
      PROVE  /\ tx'[d] \in TxTypes /\ TxCoherente(d)'
             /\ tx'[d] # Repos => d # a /\ tx[d] # Repos /\ tx'[d].double /\ tx'[d].op = tx[d].op
  <2>1. tx[d] \in TxTypes /\ TxCoherente(d)
    BY FormesPropres DEF Types
  <2>2. CASE d = a \/ tx[d] = Repos
    <3>1. tx'[d] = Repos
      BY <2>2 DEF Terminer
    <3>2. Repos.op \notin Nommes /\ Repos.op # "semaine" /\ Repos.op \in Operations \cup {Aucun}
      BY AuRepos DEF Nommes, Operations
    <3> QED BY <3>1, <3>2, AuRepos DEF TxCoherente
  <2>3. CASE d # a /\ tx[d] # Repos
    <3>1. tx'[d] = [tx[d] EXCEPT !.double = TRUE]
      BY <2>3 DEF Terminer
    <3>2. PICK n \in TxTypes :
            /\ n = [tx[d] EXCEPT !.double = TRUE]
            /\ n.op = tx[d].op /\ n.debut = tx[d].debut /\ n.prenom = tx[d].prenom
            /\ n.semaine = tx[d].semaine /\ n.evt = tx[d].evt /\ n.double = TRUE
      BY <2>1, Depassee
    <3>3. tx'[d] = n
      BY <3>1, <3>2
    <3> QED BY <2>1, <2>3, <3>2, <3>3 DEF TxCoherente
  <2> QED BY <2>2, <2>3
<1>2. tx' \in [Acteurs -> TxTypes]
  <2>1. DOMAIN tx' = Acteurs /\ tx' = [d \in Acteurs |-> tx'[d]]
    BY DEF Terminer
  <2> QED BY <1>1, <2>1
<1> QED BY <1>1, <1>2, AuRepos

\* What a commit leaves: whoever is still in progress was overtaken.
LEMMA ApresCommit ==
  ASSUME Types, NEW a \in Acteurs, Terminer(a), UNCHANGED <<foyer, debuts, copie>>,
         contrat' \in Contrats \cup {Aucun}, planning' \in Mois \cup {Aucun},
         outbox \subseteq outbox', outbox' \subseteq Evenements,
         pFaits' \subseteq foyer, dernier' \in Mois, perdues' \subseteq Semaines,
         croise' \in BOOLEAN, perime' \in BOOLEAN, orphelin' \in BOOLEAN
  PROVE  /\ Types'
         /\ \A d \in Acteurs : tx'[d].op = "semaine" /\ ~tx'[d].double => tx'[d].mois = planning'
         /\ \A d \in Acteurs : tx'[d] # Repos => tx'[d].double
<1>1. /\ tx' \in [Acteurs -> TxTypes] /\ \A d \in Acteurs : TxCoherente(d)'
      /\ \A d \in Acteurs : tx'[d] # Repos => tx'[d].double
      /\ \A d \in Acteurs : tx'[d].op # Aucun => tx'[d] # Repos
  BY Termine
<1>2. TypeOK'
  BY <1>1 DEF Types, TypeOK, PlanningTypeOK, copie
<1>3. IsFiniteSet(foyer')
  BY DEF Types
<1>4. \A d \in Acteurs : tx'[d].op = "semaine" => tx'[d].double
  BY <1>1, ConstantesPlanning DEF Operations
<1> QED BY <1>1, <1>2, <1>3, <1>4 DEF Types

\* The events a transaction emits.
LEMMA EtatEmis ==
  ASSUME Types, NEW a \in Acteurs, tx[a].prenom \in Prenoms, NEW type \in {"cree", "modifie"},
         EmettreEtat(a, type, tx[a].prenom)
  PROVE  outbox \subseteq outbox' /\ outbox' \subseteq Evenements
<1>1. tx[a].debut \in Contenus /\ outbox \subseteq Evenements
  BY FormesPropres
<1>2. [type |-> type, le |-> tx[a].debut, prenom |-> tx[a].prenom] \in Evenements
  BY <1>1 DEF Evenements
<1> QED BY <1>1, <1>2 DEF EmettreEtat

LEMMA NomEmis ==
  ASSUME Types, NEW a \in Acteurs, NEW type \in {"supprime", "planning"}, EmettreNom(a, type)
  PROVE  outbox \subseteq outbox' /\ outbox' \subseteq Evenements
<1>1. tx[a].debut \in Contenus /\ outbox \subseteq Evenements
  BY FormesPropres
<1>2. [type |-> type, le |-> tx[a].debut] \in Evenements
  BY <1>1 DEF Evenements
<1> QED BY <1>1, <1>2 DEF EmettreNom

LEMMA MoisVide == Vide \in Mois
  BY ConstantesPlanning DEF Vide, Mois, Contenus

\* An action that writes nothing but foyer, tx and debuts leaves the tables.
LEMMA Tables ==
  ASSUME UNCHANGED tables
  PROVE  UNCHANGED <<contrat, planning, outbox, dernier, perdues, croise, perime, orphelin>>
  BY DEF tables, histoire

LEMMA CopieEntiere ==
  ASSUME UNCHANGED copie
  PROVE  UNCHANGED <<tContrat, tMois, tFaits, tEfface, lecture, desordre, tardif>>
  BY DEF copie

\* svc-foyer says something more.
LEMMA InvEmission ==
  ASSUME Inv, Emission, UNCHANGED copie
  PROVE  Inv'
<1>1. /\ foyer \subseteq foyer' /\ foyer' \subseteq EvenementsFoyer /\ IsFiniteSet(foyer')
      /\ UNCHANGED <<tables, pFaits, tx, debuts>>
  <2>0. foyer \subseteq EvenementsFoyer /\ IsFiniteSet(foyer)
    BY DEF Inv, Types, TypeOK, PlanningTypeOK
  <2>1. ASSUME NEW p \in Prenoms, RenommerEnfant(p)
        PROVE  /\ foyer \subseteq foyer' /\ foyer' \subseteq EvenementsFoyer /\ IsFiniteSet(foyer')
               /\ UNCHANGED <<tables, pFaits, tx, debuts>>
    <3>1. Cardinality(foyer) \in Nat
      BY <2>0, FS_CardinalityType
    <3>2. Cardinality(foyer) + 1 \in 1 .. MAX_FOYER
      BY <2>1, <3>1, ConstantesPlanning DEF RenommerEnfant
    <3>3. [type |-> "renomme", n |-> Cardinality(foyer) + 1, prenom |-> p] \in EvenementsFoyer
      BY <3>2 DEF EvenementsFoyer
    <3>4. IsFiniteSet(foyer \cup {[type |-> "renomme", n |-> Cardinality(foyer) + 1, prenom |-> p]})
      BY <2>0, FS_AddElement
    <3> QED BY <2>0, <2>1, <3>3, <3>4 DEF RenommerEnfant
  <2>2. CASE SupprimerFoyer
    <3>1. [type |-> "effacement"] \in EvenementsFoyer
      BY DEF EvenementsFoyer
    <3>2. IsFiniteSet(foyer \cup {[type |-> "effacement"]})
      BY <2>0, FS_AddElement
    <3> QED BY <2>0, <2>2, <3>1, <3>2 DEF SupprimerFoyer
  <2> QED BY <2>1, <2>2 DEF Emission
<1>2. /\ UNCHANGED <<contrat, planning, outbox, dernier, perdues, croise, perime, orphelin>>
      /\ UNCHANGED <<tContrat, tMois, tFaits, tEfface, lecture, desordre, tardif>>
      /\ UNCHANGED <<pFaits, tx, debuts>>
  BY <1>1, Tables, CopieEntiere
<1>3. TypeOK'
  BY <1>1, <1>2 DEF Inv, Types, TypeOK, PlanningTypeOK
<1>4. \A a \in Acteurs : TxCoherente(a)'
  BY <1>1, <1>2 DEF Inv, Types, TxCoherente
<1>5. Semaine'
  BY <1>2 DEF Inv, Semaine, SemainesGardees
<1>6. Erasure'
  <2>1. Efface => Efface'
    BY <1>1 DEF Efface
  <2> QED BY <1>2, <2>1 DEF Inv, Erasure, EffacementTenu
<1> QED BY <1>1, <1>3, <1>4, <1>5, <1>6 DEF Inv, Types

\* What the loop and the requests begin.
LEMMA Commence ==
  ASSUME Types, NEW c \in Commandes, Commencer(c), UNCHANGED copie
  PROVE  /\ Types' /\ UNCHANGED <<foyer, tables, pFaits>> /\ debuts' = debuts + 1
         /\ tx[c] = Repos /\ tx'[c].debut = debuts + 1 /\ tx'[c].double = FALSE
         /\ \A d \in Acteurs \ {c} : tx'[d] = tx[d]
         /\ tx'[c].op \in Operations
         /\ tx'[c].op = "creer" => ~\E e \in outbox : e.type = "supprime"
         /\ tx'[c].op # "creer" => contrat # Aucun
         /\ tx'[c].op \in {"avenant", "rattacher"} => tx'[c].prenom = contrat.prenom
         /\ tx'[c].op = "semaine" => tx'[c].mois = planning
<1>1. PICK op \in OPERATIONS, p \in Prenoms \cup {Aucun}, s \in Semaines \cup {Aucun} :
        /\ p # Aucun <=> op \in {"creer", "corriger"}
        /\ s # Aucun <=> op = "semaine"
        /\ IF op = "creer" THEN ~\E e \in outbox : e.type = "supprime" ELSE contrat # Aucun
        /\ Debuter(c, [Repos EXCEPT !.op = op, !.semaine = s,
                                    !.prenom = IF op \in {"avenant", "rattacher"} THEN contrat.prenom ELSE p,
                                    !.mois = IF op = "semaine" THEN planning ELSE Aucun])
  BY DEF Commencer
<1>2. op \in Operations /\ c \in Acteurs /\ c # Boucle
  BY ConstantesPlanning DEF Acteurs
<1> DEFINE q == IF op \in {"avenant", "rattacher"} THEN contrat.prenom ELSE p
           m == IF op = "semaine" THEN planning ELSE Aucun
           t == [Repos EXCEPT !.op = op, !.semaine = s, !.prenom = q, !.mois = m]
<1>3. q \in Prenoms \cup {Aucun} /\ (op \in Nommes => q \in Prenoms)
  <2>1. CASE op \in {"avenant", "rattacher"}
    BY <1>1, <2>1, FormesPropres
  <2>2. CASE op \notin {"avenant", "rattacher"}
    BY <1>1, <1>2, <2>2 DEF Nommes, Operations
  <2> QED BY <2>1, <2>2
<1>4. m \in Mois \cup {Aucun}
  BY DEF Types, TypeOK, PlanningTypeOK
<1> HIDE DEF q, m
<1>6. Debuter(c, t)
  BY <1>1 DEF q, m
<1>7. op = "semaine" => s \in Semaines
  BY <1>1
<1>8. /\ op \in {"avenant", "rattacher"} => q = contrat.prenom
      /\ op = "semaine" => m = planning
  BY DEF q, m
<1>9. op \in Operations \cup {"renomme", "effacement", Aucun} /\ s \in Semaines \cup {Aucun}
  BY <1>2
<1>10. /\ t \in TxTypes /\ t.op = op /\ t.prenom = q /\ t.semaine = s /\ t.mois = m /\ t.double = FALSE
  <2>1. t \in TxTypes
    BY <1>3, <1>4, <1>9, AuRepos DEF TxTypes
  <2>2. t.op = op /\ t.prenom = q /\ t.semaine = s /\ t.mois = m
    BY AuRepos DEF TxTypes
  <2>3. t.double = Repos.double
    BY AuRepos DEF TxTypes
  <2> QED BY <2>1, <2>2, <2>3, AuRepos
<1> HIDE DEF t
<1>11. op # Aucun
  BY <1>2, ConstantesPlanning
<1>12. /\ Types' /\ debuts' = debuts + 1 /\ tx[c] = Repos /\ tx'[c].debut = debuts + 1
       /\ tx'[c].op = t.op /\ tx'[c].prenom = t.prenom /\ tx'[c].mois = t.mois
       /\ tx'[c].double = t.double
       /\ \A d \in Acteurs \ {c} : tx'[d] = tx[d]
  BY <1>2, <1>3, <1>6, <1>7, <1>10, <1>11, Debute
<1>13. UNCHANGED <<foyer, tables, pFaits>>
  BY <1>6 DEF Debuter
<1> QED BY <1>1, <1>2, <1>8, <1>10, <1>12, <1>13

LEMMA Recoit ==
  ASSUME Types, NEW e \in foyer, Recevoir(e), UNCHANGED copie
  PROVE  /\ Types' /\ UNCHANGED <<foyer, tables, pFaits>> /\ debuts' = debuts + 1
         /\ tx[Boucle] = Repos /\ tx'[Boucle].debut = debuts + 1 /\ tx'[Boucle].double = FALSE
         /\ \A d \in Acteurs \ {Boucle} : tx'[d] = tx[d]
         /\ tx'[Boucle].op \in {"renomme", "effacement"}
<1>1. Debuter(Boucle, [Repos EXCEPT !.op = e.type, !.evt = e,
                                    !.prenom = IF e.type = "renomme" THEN e.prenom ELSE Aucun])
  BY DEF Recevoir
<1> DEFINE q == IF e.type = "renomme" THEN e.prenom ELSE Aucun
           t == [Repos EXCEPT !.op = e.type, !.evt = e, !.prenom = q]
<1>2. /\ e \in EvenementsFoyer /\ e.type \in {"renomme", "effacement"}
      /\ q \in Prenoms \cup {Aucun} /\ (e.type = "renomme" => q \in Prenoms)
  <2>1. e \in EvenementsFoyer
    BY DEF Types, TypeOK, PlanningTypeOK
  <2>2. /\ e.type \in {"renomme", "effacement"} /\ (e.type = "renomme" => e.prenom \in Prenoms)
    BY <2>1 DEF EvenementsFoyer
  <2> QED BY <2>1, <2>2
<1> HIDE DEF q
<1>4. Debuter(Boucle, t)
  BY <1>1 DEF q
<1>6. t \in TxTypes /\ t.op = e.type /\ t.prenom = q /\ t.evt = e /\ t.double = FALSE
  <2>1. t \in TxTypes
    BY <1>2, AuRepos DEF TxTypes
  <2>2. t.op = e.type /\ t.prenom = q /\ t.evt = e
    BY AuRepos DEF TxTypes
  <2>3. t.double = Repos.double
    BY AuRepos DEF TxTypes
  <2> QED BY <2>1, <2>2, <2>3, AuRepos
<1> HIDE DEF t
<1>7. /\ t.op # Aucun /\ (t.op \in Nommes => t.prenom \in Prenoms) /\ t.op # "semaine"
      /\ Boucle \in Acteurs /\ Boucle \notin Commandes
  BY <1>2, <1>6, ConstantesPlanning DEF Nommes, Acteurs
<1>8. /\ Types' /\ debuts' = debuts + 1 /\ tx[Boucle] = Repos /\ tx'[Boucle].debut = debuts + 1
      /\ tx'[Boucle].op = t.op /\ tx'[Boucle].double = t.double
      /\ \A d \in Acteurs \ {Boucle} : tx'[d] = tx[d]
  BY <1>4, <1>6, <1>7, Debute
<1>9. UNCHANGED <<foyer, tables, pFaits>>
  BY <1>4 DEF Debuter
<1> QED BY <1>2, <1>6, <1>8, <1>9

\* A rollback.
LEMMA Annule ==
  ASSUME Types, NEW a \in Acteurs, Annuler(a), UNCHANGED copie
  PROVE  /\ Types' /\ UNCHANGED <<foyer, tables, pFaits, debuts>>
         /\ tx'[a] = Repos /\ \A d \in Acteurs \ {a} : tx'[d] = tx[d]
<1>1. /\ tx' = [tx EXCEPT ![a] = Repos] /\ UNCHANGED <<foyer, tables, pFaits, debuts>>
      /\ tx \in [Acteurs -> TxTypes]
  BY DEF Annuler, Types, TypeOK, PlanningTypeOK
<1>2. tx' \in [Acteurs -> TxTypes] /\ tx'[a] = Repos /\ \A d \in Acteurs \ {a} : tx'[d] = tx[d]
  BY <1>1, AuRepos
<1>3. /\ UNCHANGED <<contrat, planning, outbox, dernier, perdues, croise, perime, orphelin>>
      /\ UNCHANGED <<tContrat, tMois, tFaits, tEfface, lecture, desordre, tardif>>
  BY <1>1, Tables, CopieEntiere
<1>4. TypeOK' /\ IsFiniteSet(foyer')
  BY <1>1, <1>2, <1>3 DEF Types, TypeOK, PlanningTypeOK
<1>5. \A d \in Acteurs : TxCoherente(d)'
  <2>1. TxCoherente(a)'
    <3>1. Repos.op \notin Nommes /\ Repos.op # "semaine" /\ Repos.op \in Operations \cup {Aucun}
      BY AuRepos DEF Nommes, Operations
    <3> QED BY <1>2, <3>1 DEF TxCoherente
  <2>2. ASSUME NEW d \in Acteurs \ {a} PROVE TxCoherente(d)'
    BY <1>1, <1>2 DEF Types, TxCoherente
  <2> QED BY <2>1, <2>2
<1> QED BY <1>1, <1>2, <1>4, <1>5 DEF Types

\* A transaction that begins, or that is given up, keeps the rest.
LEMMA InvDebut ==
  ASSUME Inv, Types', UNCHANGED <<foyer, tables, pFaits, copie>>, NEW a \in Acteurs,
         \A d \in Acteurs \ {a} : tx'[d] = tx[d],
         tx'[a].op = "semaine" => tx'[a].mois = planning,
         tx'[a].op \in DuContrat => contrat # Aucun
  PROVE  Inv'
<1>1. /\ UNCHANGED <<contrat, planning, outbox, dernier, perdues, croise, perime, orphelin>>
      /\ UNCHANGED <<tContrat, tMois, tFaits, tEfface, lecture, desordre, tardif>>
      /\ UNCHANGED <<foyer, pFaits>>
  BY Tables, CopieEntiere
<1>2. Semaine'
  BY <1>1 DEF Inv, Semaine, SemainesGardees
<1>3. Erasure'
  BY <1>1 DEF Inv, Erasure, EffacementTenu, Efface
<1> QED BY <1>2, <1>3 DEF Inv

\* What a commit may do to what the erasure left.
Sage(a) ==
  /\ Efface /\ contrat = Aucun => contrat' = Aucun \/ orphelin'
  /\ Efface /\ contrat = Aucun => outbox' = outbox \/ tx[a].op \in DuContrat \/ orphelin'
  /\ planning' \in {planning, Aucun} \/ contrat # Aucun
  /\ (\E e \in pFaits' : e.type = "effacement") =>
       (\E e \in pFaits : e.type = "effacement") \/ (contrat' = Aucun /\ planning' = Aucun)
  /\ orphelin => orphelin'

\* A commit.
LEMMA InvCommit ==
  ASSUME Inv, NEW a \in Acteurs, Terminer(a), UNCHANGED <<foyer, debuts, copie>>,
         contrat' \in Contrats \cup {Aucun}, planning' \in Mois \cup {Aucun},
         outbox \subseteq outbox', outbox' \subseteq Evenements,
         pFaits' \subseteq foyer, dernier' \in Mois, perdues' \subseteq Semaines,
         croise' \in BOOLEAN, perime' \in BOOLEAN, orphelin' \in BOOLEAN,
         planning' = Aucun => dernier' = Vide, SemainesGardees', Sage(a)
  PROVE  Inv'
<1>0. UNCHANGED <<tContrat, tMois, tFaits, tEfface, lecture, desordre, tardif>>
  BY CopieEntiere
<1>1. /\ Types'
      /\ \A d \in Acteurs : tx'[d].op = "semaine" /\ ~tx'[d].double => tx'[d].mois = planning'
      /\ \A d \in Acteurs : tx'[d] # Repos => tx[d] # Repos /\ tx'[d].op = tx[d].op
      /\ \A d \in Acteurs : tx'[d].op # Aucun => tx'[d] # Repos
  BY ApresCommit, Termine DEF Inv
<1>2. Semaine'
  BY <1>1 DEF Semaine
<1>3. Erasure'
  <2>1. Efface' <=> Efface
    BY DEF Efface
  <2>2. tEfface' => Efface'
    BY <1>0, <2>1 DEF Inv, Erasure
  <2>3. ASSUME tEfface', ~tardif', ~orphelin'
        PROVE  /\ outbox' = tFaits' /\ lecture' = Aucun /\ contrat' = Aucun
               /\ \A d \in Acteurs : tx'[d].op \notin DuContrat
    <3>1. /\ Efface /\ tEfface /\ ~tardif /\ ~orphelin
          /\ outbox = tFaits /\ lecture = Aucun /\ contrat = Aucun
          /\ \A d \in Acteurs : tx[d].op \notin DuContrat
      BY <1>0, <2>3 DEF Inv, Erasure, Sage
    <3>2. outbox' = outbox /\ contrat' = Aucun
      BY <2>3, <3>1 DEF Sage
    <3>3. \A d \in Acteurs : tx'[d].op \notin DuContrat
      BY <1>1, <3>1, ConstantesPlanning DEF DuContrat, Operations
    <3> QED BY <1>0, <3>1, <3>2, <3>3
  <2>4. EffacementTenu'
    <3>1. ASSUME \E e \in pFaits' : e.type = "effacement", ~orphelin'
          PROVE  contrat' = Aucun /\ planning' = Aucun
      <4>1. CASE \E e \in pFaits : e.type = "effacement"
        <5>1. Efface
          BY <4>1 DEF Inv, Types, TypeOK, PlanningTypeOK, Efface
        <5>2. contrat = Aucun /\ planning = Aucun
          BY <3>1, <4>1 DEF Inv, Erasure, EffacementTenu, Sage
        <5> QED BY <3>1, <5>1, <5>2 DEF Sage
      <4> QED BY <3>1, <4>1 DEF Sage
    <3>2. tEfface' /\ ~tardif' /\ ~orphelin' => tContrat' = Aucun /\ tMois' = Aucun
      BY <1>0 DEF Inv, Erasure, EffacementTenu, Sage
    <3> QED BY <3>1, <3>2 DEF EffacementTenu
  <2> QED BY <2>2, <2>3, <2>4 DEF Erasure
<1> QED BY <1>1, <1>2, <1>3 DEF Inv

\* The tables as they are typed.
LEMMA TablesTypees ==
  ASSUME Types
  PROVE  /\ contrat \in Contrats \cup {Aucun} /\ planning \in Mois \cup {Aucun}
         /\ outbox \subseteq Evenements /\ pFaits \subseteq foyer
         /\ dernier \in Mois /\ perdues \subseteq Semaines
         /\ croise \in BOOLEAN /\ perime \in BOOLEAN /\ orphelin \in BOOLEAN
         /\ \A a \in Acteurs : tx[a].double \in BOOLEAN
<1>1. tx \in [Acteurs -> TxTypes]
  BY DEF Types, TypeOK, PlanningTypeOK
<1>2. \A a \in Acteurs : tx[a].double \in BOOLEAN
  BY <1>1 DEF TxTypes
<1> QED BY <1>2 DEF Types, TypeOK, PlanningTypeOK

\* The parameters of a request that commits.
LEMMA Parametres ==
  ASSUME Types, NEW a \in Acteurs
  PROVE  /\ tx[a].op \in Nommes => tx[a].prenom \in Prenoms
         /\ tx[a].op = "semaine" => tx[a].semaine \in Semaines
         /\ tx[a].debut \in Contenus
         /\ tx[a].op = "semaine" => tx[a].mois \in Mois \cup {Aucun}
<1>1. TxCoherente(a) /\ tx[a] \in TxTypes
  BY FormesPropres DEF Types
<1> QED BY <1>1 DEF TxCoherente, TxTypes

LEMMA InvCreerContrat ==
  ASSUME Inv, NEW c \in Commandes, CreerContrat(c), UNCHANGED copie
  PROVE  Inv'
<1>1. c \in Acteurs /\ Types
  BY DEF Acteurs, Inv
<1>2. /\ tx[c].op = "creer" /\ Terminer(c)
      /\ UNCHANGED <<foyer, planning, pFaits, debuts, dernier, perdues, perime>>
  BY DEF CreerContrat
<1>3. tx[c].prenom \in Prenoms /\ tx[c].debut \in Contenus
  BY <1>1, <1>2, Parametres DEF Nommes
<1>4. /\ contrat' \in Contrats \cup {Aucun} /\ croise' \in BOOLEAN /\ orphelin' \in BOOLEAN
      /\ outbox \subseteq outbox' /\ outbox' \subseteq Evenements
      /\ orphelin => orphelin'
      /\ Efface /\ contrat = Aucun => orphelin'
  <2>1. CASE contrat = Aucun
    <3>1. /\ contrat' = [prenom |-> tx[c].prenom, version |-> tx[c].debut]
          /\ EmettreEtat(c, "cree", tx[c].prenom) /\ Croiser(c) /\ orphelin' = (orphelin \/ Efface)
      BY <2>1 DEF CreerContrat
    <3>2. contrat' \in Contrats
      BY <1>3, <3>1 DEF Contrats
    <3>3. outbox \subseteq outbox' /\ outbox' \subseteq Evenements
      BY <1>1, <1>3, <3>1, EtatEmis
    <3>4. croise' \in BOOLEAN /\ orphelin' \in BOOLEAN
      BY <3>1 DEF Croiser
    <3> QED BY <3>1, <3>2, <3>3, <3>4
  <2>2. CASE contrat # Aucun
    <3>1. UNCHANGED <<contrat, outbox, croise, orphelin>>
      BY <2>2 DEF CreerContrat
    <3> QED BY <1>1, <2>2, <3>1, TablesTypees
  <2> QED BY <2>1, <2>2
<1>5. SemainesGardees' /\ (planning' = Aucun => dernier' = Vide)
  BY <1>2 DEF Inv, Semaine, SemainesGardees
<1>6. Sage(c)
  BY <1>2, <1>4 DEF Sage
<1>7. /\ planning' \in Mois \cup {Aucun} /\ pFaits' \subseteq foyer /\ dernier' \in Mois
      /\ perdues' \subseteq Semaines /\ perime' \in BOOLEAN
  BY <1>1, <1>2, TablesTypees
<1> QED BY <1>1, <1>2, <1>4, <1>5, <1>6, <1>7, InvCommit

LEMMA InvAvenant ==
  ASSUME Inv, NEW c \in Commandes, CreerAvenant(c) \/ CorrigerVersionCourante(c), UNCHANGED copie
  PROVE  Inv'
<1>1. c \in Acteurs /\ Types
  BY DEF Acteurs, Inv
<1>2. /\ tx[c].op \in {"avenant", "corriger"} /\ Terminer(c) /\ contrat # Aucun
      /\ contrat' \in {[contrat EXCEPT !.version = tx[c].debut],
                       [prenom |-> tx[c].prenom, version |-> tx[c].debut]}
      /\ EmettreEtat(c, "modifie", tx[c].prenom) /\ Croiser(c) /\ perime' = TRUE
      /\ UNCHANGED <<foyer, planning, pFaits, debuts, dernier, perdues, orphelin>>
  BY DEF CreerAvenant, CorrigerVersionCourante
<1>3. tx[c].prenom \in Prenoms /\ tx[c].debut \in Contenus
  BY <1>1, <1>2, Parametres DEF Nommes
<1>4. contrat' \in Contrats
  <2>1. contrat \in Contrats
    BY <1>1, <1>2, TablesTypees
  <2>2. [contrat EXCEPT !.version = tx[c].debut] \in Contrats
    BY <1>3, <2>1 DEF Contrats
  <2>3. [prenom |-> tx[c].prenom, version |-> tx[c].debut] \in Contrats
    BY <1>3 DEF Contrats
  <2> QED BY <1>2, <2>2, <2>3
<1>5. outbox \subseteq outbox' /\ outbox' \subseteq Evenements
  BY <1>1, <1>2, <1>3, EtatEmis
<1>6. SemainesGardees' /\ (planning' = Aucun => dernier' = Vide)
  BY <1>2 DEF Inv, Semaine, SemainesGardees
<1>7. Sage(c)
  BY <1>2 DEF Sage
<1>8. /\ planning' \in Mois \cup {Aucun} /\ pFaits' \subseteq foyer /\ dernier' \in Mois
      /\ perdues' \subseteq Semaines /\ perime' \in BOOLEAN /\ orphelin' \in BOOLEAN
  BY <1>1, <1>2, TablesTypees
<1>9. croise' \in BOOLEAN
  BY <1>2 DEF Croiser
<1> QED BY <1>1, <1>2, <1>4, <1>5, <1>6, <1>7, <1>8, <1>9, InvCommit

LEMMA InvRattacher ==
  ASSUME Inv, NEW c \in Commandes, Rattacher(c), UNCHANGED copie
  PROVE  Inv'
<1>1. c \in Acteurs /\ Types
  BY DEF Acteurs, Inv
<1>2. /\ tx[c].op = "rattacher" /\ Terminer(c)
      /\ EmettreEtat(c, "modifie", tx[c].prenom) /\ Croiser(c)
      /\ UNCHANGED <<foyer, contrat, planning, pFaits, debuts, dernier, perdues, perime, orphelin>>
  BY DEF Rattacher
<1>3. outbox \subseteq outbox' /\ outbox' \subseteq Evenements
  <2>1. tx[c].prenom \in Prenoms
    BY <1>1, <1>2, Parametres DEF Nommes
  <2> QED BY <1>1, <1>2, <2>1, EtatEmis
<1>4. SemainesGardees' /\ (planning' = Aucun => dernier' = Vide)
  BY <1>2 DEF Inv, Semaine, SemainesGardees
<1>5. Sage(c)
  BY <1>2 DEF Sage, DuContrat
<1>6. /\ contrat' \in Contrats \cup {Aucun} /\ planning' \in Mois \cup {Aucun}
      /\ pFaits' \subseteq foyer /\ dernier' \in Mois
      /\ perdues' \subseteq Semaines /\ perime' \in BOOLEAN /\ orphelin' \in BOOLEAN
  BY <1>1, <1>2, TablesTypees
<1>7. croise' \in BOOLEAN
  BY <1>2 DEF Croiser
<1> QED BY <1>1, <1>2, <1>3, <1>4, <1>5, <1>6, <1>7, InvCommit

LEMMA InvSupprimer ==
  ASSUME Inv, NEW c \in Commandes, SupprimerContrat(c), UNCHANGED copie
  PROVE  Inv'
<1>1. c \in Acteurs /\ Types
  BY DEF Acteurs, Inv
<1>2. /\ tx[c].op = "supprimer" /\ Terminer(c)
      /\ EmettreNom(c, "supprime") /\ Croiser(c)
      /\ contrat' = Aucun /\ planning' = Aucun /\ dernier' = Vide
      /\ UNCHANGED <<foyer, pFaits, debuts, perdues, perime, orphelin>>
  BY DEF SupprimerContrat
<1>3. outbox \subseteq outbox' /\ outbox' \subseteq Evenements
  BY <1>1, <1>2, NomEmis
<1>4. SemainesGardees' /\ (planning' = Aucun => dernier' = Vide)
  BY <1>2 DEF SemainesGardees
<1>5. Sage(c)
  BY <1>2 DEF Sage, DuContrat
<1>6. /\ pFaits' \subseteq foyer /\ dernier' \in Mois
      /\ perdues' \subseteq Semaines /\ perime' \in BOOLEAN /\ orphelin' \in BOOLEAN
  BY <1>1, <1>2, TablesTypees, MoisVide
<1>7. croise' \in BOOLEAN
  BY <1>2 DEF Croiser
<1> QED BY <1>1, <1>2, <1>3, <1>4, <1>5, <1>6, <1>7, InvCommit

\* Both saves, from what they write.
LEMMA InvUpsert ==
  ASSUME Inv, NEW c \in Commandes, NEW mois \in Mois, UpsertPlanningMois(c, mois), UNCHANGED copie,
         dernier' \in Mois, perdues' \subseteq Semaines,
         \A s \in Semaines \ perdues' : mois[s] = dernier'[s]
  PROVE  Inv'
<1>1. c \in Acteurs /\ Types
  BY DEF Acteurs, Inv
<1>2. /\ contrat # Aucun /\ planning' = mois /\ Terminer(c)
      /\ EmettreNom(c, "planning") /\ Croiser(c) /\ perime' = FALSE
      /\ UNCHANGED <<foyer, contrat, pFaits, debuts, orphelin>>
  BY DEF UpsertPlanningMois
<1>3. outbox \subseteq outbox' /\ outbox' \subseteq Evenements
  BY <1>1, <1>2, NomEmis
<1>4. SemainesGardees' /\ planning' # Aucun
  BY <1>2, ConstantesPlanning DEF SemainesGardees
<1>5. Sage(c)
  BY <1>2 DEF Sage
<1>6. /\ contrat' \in Contrats \cup {Aucun} /\ pFaits' \subseteq foyer
      /\ perime' \in BOOLEAN /\ orphelin' \in BOOLEAN
  BY <1>1, <1>2, TablesTypees
<1>7. croise' \in BOOLEAN
  BY <1>2 DEF Croiser
<1> QED BY <1>1, <1>2, <1>3, <1>4, <1>5, <1>6, <1>7, InvCommit

LEMMA InvEcrirePlanning ==
  ASSUME Inv, NEW c \in Commandes, EcrirePlanning(c), UNCHANGED copie
  PROVE  Inv'
<1> DEFINE mois == [s \in Semaines |-> tx[c].debut]
<1>1. c \in Acteurs /\ Types
  BY DEF Acteurs, Inv
<1>2. mois \in Mois
  BY <1>1, Parametres DEF Mois
<1>3. UpsertPlanningMois(c, mois) /\ dernier' = mois /\ perdues' = perdues
  BY DEF EcrirePlanning
<1> HIDE DEF mois
<1> QED BY <1>1, <1>2, <1>3, InvUpsert, TablesTypees

\* The merge: the week has its content, the others have what was read.
LEMMA Fusion ==
  ASSUME NEW m \in Mois \cup {Aucun}, NEW s \in Semaines, NEW n \in Contenus
  PROVE  /\ FusionnerSemaine(m, s, n) \in Mois
         /\ FusionnerSemaine(m, s, n)[s] = n
         /\ \A w \in Semaines \ {s} : FusionnerSemaine(m, s, n)[w] = IF m = Aucun THEN Vide[w] ELSE m[w]
<1> DEFINE base == IF m = Aucun THEN Vide ELSE m
<1>1. base \in Mois
  BY MoisVide
<1>2. FusionnerSemaine(m, s, n) = [base EXCEPT ![s] = n]
  BY DEF FusionnerSemaine
<1>3. \A w \in Semaines : base[w] = IF m = Aucun THEN Vide[w] ELSE m[w]
  OBVIOUS
<1> HIDE DEF base
<1> QED BY <1>1, <1>2, <1>3 DEF Mois

LEMMA InvEcrireSemaine ==
  ASSUME Inv, NEW c \in Commandes, EcrireSemaine(c), UNCHANGED copie
  PROVE  Inv'
<1> DEFINE s == tx[c].semaine
           mois == FusionnerSemaine(tx[c].mois, s, tx[c].debut)
<1>1. c \in Acteurs /\ Types /\ tx[c].op = "semaine"
  BY DEF Acteurs, Inv, EcrireSemaine
<1>2. s \in Semaines /\ tx[c].debut \in Contenus /\ tx[c].mois \in Mois \cup {Aucun}
  BY <1>1, Parametres
<1>3. /\ UpsertPlanningMois(c, mois)
      /\ dernier' = [dernier EXCEPT ![s] = tx[c].debut]
      /\ perdues' = IF tx[c].double THEN perdues \cup (Semaines \ {s}) ELSE perdues
  BY DEF EcrireSemaine
<1>4. /\ mois \in Mois /\ mois[s] = tx[c].debut
      /\ \A w \in Semaines \ {s} : mois[w] = IF tx[c].mois = Aucun THEN Vide[w] ELSE tx[c].mois[w]
  BY <1>2, Fusion
<1> HIDE DEF s, mois
<1>5. dernier \in Mois /\ perdues \subseteq Semaines
  BY <1>1, TablesTypees
<1>6. /\ dernier' \in Mois /\ dernier'[s] = tx[c].debut
      /\ \A w \in Semaines \ {s} : dernier'[w] = dernier[w]
  BY <1>2, <1>3, <1>5 DEF Mois
<1>7. perdues' \subseteq Semaines
  BY <1>3, <1>5
<1>8. \A w \in Semaines \ perdues' : mois[w] = dernier'[w]
  <2>1. CASE tx[c].double
    BY <1>2, <1>3, <1>4, <1>6, <2>1
  <2>2. CASE ~tx[c].double
    <3>1. tx[c].mois = planning
      BY <1>1, <2>2 DEF Inv, Semaine
    <3>2. ASSUME NEW w \in Semaines \ perdues, w # s
          PROVE  mois[w] = dernier[w]
      <4>1. CASE planning = Aucun
        BY <1>4, <3>1, <3>2, <4>1 DEF Inv, Semaine
      <4>2. CASE planning # Aucun
        BY <1>4, <3>1, <3>2, <4>2 DEF Inv, Semaine, SemainesGardees
      <4> QED BY <4>1, <4>2
    <3> QED BY <1>2, <1>3, <1>4, <1>6, <2>2, <3>2
  <2> QED BY <2>1, <2>2
<1> QED BY <1>3, <1>4, <1>6, <1>7, <1>8, InvUpsert

LEMMA InvEnfantModifie ==
  ASSUME Inv, EnfantModifie, UNCHANGED copie
  PROVE  Inv'
<1>1. Boucle \in Acteurs /\ Types
  BY DEF Acteurs, Inv
<1>2. /\ tx[Boucle].op = "renomme" /\ MarquerTraite /\ Terminer(Boucle)
      /\ UNCHANGED <<foyer, planning, debuts, dernier, perdues, perime, orphelin>>
  BY DEF EnfantModifie
<1>3. tx[Boucle].evt \in foyer /\ tx[Boucle].evt.type = "renomme" /\ tx[Boucle].prenom \in Prenoms
  <2>1. TxCoherente(Boucle)
    BY <1>1 DEF Types
  <2>2. tx[Boucle] # Repos
    BY <1>2, AuRepos
  <2> QED BY <1>2, <2>1, <2>2 DEF TxCoherente, Nommes
<1>4. /\ contrat' \in Contrats \cup {Aucun} /\ croise' \in BOOLEAN
      /\ outbox \subseteq outbox' /\ outbox' \subseteq Evenements
      /\ contrat = Aucun => contrat' = Aucun /\ outbox' = outbox
  <2>1. CASE contrat # Aucun /\ contrat.prenom # tx[Boucle].prenom
    <3>1. /\ contrat' = [contrat EXCEPT !.prenom = tx[Boucle].prenom]
          /\ EmettreEtat(Boucle, "modifie", tx[Boucle].prenom) /\ Croiser(Boucle)
      BY <2>1 DEF EnfantModifie
    <3>2. contrat \in Contrats
      BY <1>1, <2>1, TablesTypees
    <3>3. contrat' \in Contrats
      BY <1>3, <3>1, <3>2 DEF Contrats
    <3>4. outbox \subseteq outbox' /\ outbox' \subseteq Evenements
      BY <1>1, <1>3, <3>1, EtatEmis
    <3>5. croise' \in BOOLEAN
      BY <3>1 DEF Croiser
    <3> QED BY <2>1, <3>3, <3>4, <3>5
  <2>2. CASE ~(contrat # Aucun /\ contrat.prenom # tx[Boucle].prenom)
    <3>1. UNCHANGED <<contrat, outbox, croise>>
      BY <2>2 DEF EnfantModifie
    <3> QED BY <1>1, <3>1, TablesTypees
  <2> QED BY <2>1, <2>2
<1>5. SemainesGardees' /\ (planning' = Aucun => dernier' = Vide)
  BY <1>2 DEF Inv, Semaine, SemainesGardees
<1>6. pFaits' = pFaits \cup {tx[Boucle].evt}
  BY <1>2 DEF MarquerTraite
<1>7. Sage(Boucle)
  <2>1. (\E e \in pFaits' : e.type = "effacement") => \E e \in pFaits : e.type = "effacement"
    BY <1>3, <1>6
  <2> QED BY <1>2, <1>4, <2>1 DEF Sage
<1>8. pFaits' \subseteq foyer
  BY <1>1, <1>3, <1>6, TablesTypees
<1>9. /\ planning' \in Mois \cup {Aucun} /\ dernier' \in Mois
      /\ perdues' \subseteq Semaines /\ perime' \in BOOLEAN /\ orphelin' \in BOOLEAN
  BY <1>1, <1>2, TablesTypees
<1> QED BY <1>1, <1>2, <1>4, <1>5, <1>7, <1>8, <1>9, InvCommit

LEMMA InvFoyerSupprime ==
  ASSUME Inv, FoyerSupprime, UNCHANGED copie
  PROVE  Inv'
<1>1. Boucle \in Acteurs /\ Types
  BY DEF Acteurs, Inv
<1>2. /\ tx[Boucle].op = "effacement" /\ MarquerTraite /\ Terminer(Boucle)
      /\ contrat' = Aucun /\ planning' = Aucun /\ dernier' = Vide
      /\ UNCHANGED <<foyer, outbox, debuts, perdues, croise, perime, orphelin>>
  BY DEF FoyerSupprime
<1>3. tx[Boucle].evt \in foyer
  <2>1. TxCoherente(Boucle) /\ tx[Boucle] # Repos
    BY <1>1, <1>2, AuRepos DEF Types
  <2> QED BY <2>1 DEF TxCoherente
<1>4. SemainesGardees' /\ (planning' = Aucun => dernier' = Vide)
  BY <1>2 DEF SemainesGardees
<1>5. Sage(Boucle)
  BY <1>2 DEF Sage
<1>6. pFaits' \subseteq foyer
  BY <1>1, <1>2, <1>3, TablesTypees DEF MarquerTraite
<1>7. /\ outbox' \subseteq Evenements /\ dernier' \in Mois /\ croise' \in BOOLEAN
      /\ perdues' \subseteq Semaines /\ perime' \in BOOLEAN /\ orphelin' \in BOOLEAN
  BY <1>1, <1>2, TablesTypees, MoisVide
<1> QED BY <1>1, <1>2, <1>4, <1>5, <1>6, <1>7, InvCommit

\* The source.
LEMMA InvSource ==
  ASSUME Inv, PlanningNext, UNCHANGED copie
  PROVE  Inv'
<1>1. CASE Emission
  BY <1>1, InvEmission
<1>2. ASSUME NEW c \in Commandes, Requete(c) PROVE Inv'
  <2>0. Types /\ c \in Acteurs
    BY DEF Inv, Acteurs
  <2>1. CASE Commencer(c)
    <3>1. /\ Types' /\ UNCHANGED <<foyer, tables, pFaits>>
          /\ \A d \in Acteurs \ {c} : tx'[d] = tx[d]
          /\ tx'[c].op # "creer" => contrat # Aucun
          /\ tx'[c].op = "semaine" => tx'[c].mois = planning
      BY <2>0, <2>1, Commence
    <3> QED BY <2>0, <3>1, InvDebut DEF DuContrat
  <2>2. CASE Annuler(c)
    <3>1. /\ Types' /\ UNCHANGED <<foyer, tables, pFaits, debuts>>
          /\ tx'[c] = Repos /\ \A d \in Acteurs \ {c} : tx'[d] = tx[d]
      BY <2>0, <2>2, Annule
    <3>2. tx'[c].op \notin DuContrat /\ tx'[c].op # "semaine"
      BY <3>1, AuRepos DEF DuContrat, Operations
    <3> QED BY <2>0, <3>1, <3>2, InvDebut
  <2> QED BY <1>2, <2>1, <2>2, InvCreerContrat, InvAvenant, InvRattacher, InvSupprimer,
             InvEcrirePlanning, InvEcrireSemaine DEF Requete
<1>3. CASE Ecoute
  <2>0. Types /\ Boucle \in Acteurs
    BY DEF Inv, Acteurs
  <2>1. ASSUME NEW e \in foyer, Recevoir(e) PROVE Inv'
    <3>1. /\ Types' /\ UNCHANGED <<foyer, tables, pFaits>>
          /\ \A d \in Acteurs \ {Boucle} : tx'[d] = tx[d]
          /\ tx'[Boucle].op \in {"renomme", "effacement"}
      BY <2>0, <2>1, Recoit
    <3> QED BY <2>0, <3>1, InvDebut DEF DuContrat
  <2>2. CASE Annuler(Boucle)
    <3>1. /\ Types' /\ UNCHANGED <<foyer, tables, pFaits, debuts>>
          /\ tx'[Boucle] = Repos /\ \A d \in Acteurs \ {Boucle} : tx'[d] = tx[d]
      BY <2>0, <2>2, Annule
    <3>2. tx'[Boucle].op \notin DuContrat /\ tx'[Boucle].op # "semaine"
      BY <3>1, AuRepos DEF DuContrat, Operations
    <3> QED BY <2>0, <3>1, <3>2, InvDebut
  <2> QED BY <1>3, <2>1, <2>2, InvEnfantModifie, InvFoyerSupprime DEF Ecoute
<1> QED BY <1>1, <1>2, <1>3 DEF PlanningNext

\* The copy, one step at a time.
LEMMA InvProjection ==
  ASSUME Inv, UNCHANGED planningVars, NEW e \in outbox \ tFaits,
         tContrat' \in Identites \cup {Aucun}, tMois' \in Lignes \cup {Aucun},
         tFaits' \in {tFaits, tFaits \cup {e}}, UNCHANGED <<tEfface, tardif>>,
         lecture' \in Lectures \cup {Aucun}, lecture' # Aucun => lecture'.evt \in outbox,
         desordre' \in BOOLEAN
  PROVE  Inv'
<1>1. /\ UNCHANGED <<foyer, contrat, planning, outbox, dernier, perdues, croise, perime, orphelin>>
      /\ UNCHANGED <<pFaits, tx, debuts>>
  BY Tables DEF planningVars
<1>2. Types'
  <2>1. TypeOK'
    BY <1>1 DEF Inv, Types, TypeOK, PlanningTypeOK
  <2>2. \A a \in Acteurs : TxCoherente(a)'
    BY <1>1 DEF Inv, Types, TxCoherente
  <2> QED BY <1>1, <2>1, <2>2 DEF Inv, Types
<1>3. Semaine'
  BY <1>1 DEF Inv, Semaine, SemainesGardees
<1>4. ~(tEfface /\ ~tardif /\ ~orphelin)
  BY DEF Inv, Erasure
<1>5. Erasure'
  <2>1. (tEfface' => Efface') /\ ~(tEfface' /\ ~tardif' /\ ~orphelin')
    BY <1>1, <1>4 DEF Inv, Erasure, Efface
  <2>2. (\E f \in pFaits' : f.type = "effacement") /\ ~orphelin' => contrat' = Aucun /\ planning' = Aucun
    BY <1>1 DEF Inv, Erasure, EffacementTenu
  <2> QED BY <2>1, <2>2 DEF Erasure, EffacementTenu
<1> QED BY <1>2, <1>3, <1>5 DEF Inv

LEMMA CopieTypee ==
  ASSUME Types
  PROVE  /\ tContrat \in Identites \cup {Aucun} /\ tMois \in Lignes \cup {Aucun}
         /\ tFaits \subseteq outbox /\ lecture \in Lectures \cup {Aucun}
         /\ lecture # Aucun => lecture.evt \in outbox /\ lecture \in Lectures
         /\ desordre \in BOOLEAN /\ tEfface \in BOOLEAN /\ tardif \in BOOLEAN
         /\ tContrat # Aucun => tContrat.prenom \in Prenoms /\ tContrat.le \in Contenus
         /\ tMois # Aucun => tMois.le \in Contenus
         /\ lecture # Aucun => lecture.prenom \in Prenoms
  BY DEF Types, TypeOK, Identites, Lignes, Lectures

LEMMA IdentiteTypee ==
  ASSUME Types, NEW e \in outbox, e.type \in {"cree", "modifie"}
  PROVE  IdentiteDe(e) \in Identites
<1>1. e.le \in Contenus /\ e.prenom \in Prenoms
  BY FormesPropres
<1>2. tContrat # Aucun => tContrat \in Identites
  BY CopieTypee
<1>3. [le |-> e.le, prenom |-> e.prenom] \in Identites
  BY <1>1 DEF Identites
<1> QED BY <1>2, <1>3 DEF IdentiteDe, Recent

LEMMA InvProjeterContrat ==
  ASSUME Inv, NEW e \in outbox, ContratCree(e) \/ ContratModifie(e) \/ ContratSupprime(e)
  PROVE  Inv'
<1>1. Types
  BY DEF Inv
<1>2. /\ lecture = Aucun /\ e \in outbox \ tFaits /\ tFaits' = tFaits \cup {e}
      /\ desordre' = (desordre \/ Depasse(e)) /\ UNCHANGED <<planningVars, tEfface, lecture, tardif>>
  BY DEF ContratCree, ContratModifie, ContratSupprime, Traiter
<1>3. desordre' \in BOOLEAN /\ lecture' = Aucun
  BY <1>2
<1>4. tContrat' \in Identites \cup {Aucun} /\ tMois' \in Lignes \cup {Aucun}
  <2>1. CASE ContratCree(e)
    BY <1>1, <2>1, IdentiteTypee, CopieTypee DEF ContratCree
  <2>2. CASE ContratModifie(e)
    <3>1. e.prenom \in Prenoms /\ tMois \in Lignes \cup {Aucun}
      BY <1>1, <2>2, FormesPropres, CopieTypee DEF ContratModifie
    <3>2. tMois # Aucun => [tMois EXCEPT !.prenom = e.prenom] \in Lignes
      BY <3>1 DEF Lignes
    <3>3. Realigner(tMois, e.prenom) \in Lignes \cup {Aucun}
      BY <3>2 DEF Realigner
    <3> QED BY <1>1, <2>2, <3>3, IdentiteTypee DEF ContratModifie
  <2>3. CASE ContratSupprime(e)
    BY <2>3 DEF ContratSupprime
  <2> QED BY <2>1, <2>2, <2>3
<1> QED BY <1>2, <1>3, <1>4, InvProjection

\* What svc-planification answers.
LEMMA ReponseTypee ==
  ASSUME Types, DemanderPrestations
  PROVE  /\ lecture # Aucun /\ contrat # Aucun
         /\ [version |-> contrat.version, mois |-> planning] \in Quantites
         /\ lecture' = [lecture EXCEPT !.quantites = [version |-> contrat.version, mois |-> planning]]
         /\ lecture' \in Lectures /\ lecture'.evt = lecture.evt
         /\ lecture'.prenom = lecture.prenom
         /\ lecture'.quantites = [version |-> contrat.version, mois |-> planning]
         /\ lecture.quantites = Aucun
<1>1. lecture # Aucun /\ contrat # Aucun /\ lecture.quantites = Aucun
  BY DEF DemanderPrestations, Reponse
<1> DEFINE q == [version |-> contrat.version, mois |-> planning]
<1>2. q \in Quantites
  BY <1>1, FormesPropres, TablesTypees DEF Quantites
<1>3. lecture' = [lecture EXCEPT !.quantites = q]
  BY <1>1 DEF DemanderPrestations
<1> HIDE DEF q
<1>4. lecture \in Lectures
  BY <1>1, CopieTypee
<1>5. PICK l \in Lectures : /\ l = [lecture EXCEPT !.quantites = q]
                            /\ l.evt = lecture.evt /\ l.prenom = lecture.prenom /\ l.quantites = q
  <2> DEFINE l == [lecture EXCEPT !.quantites = q]
  <2>1. l \in Lectures
    BY <1>2, <1>4 DEF Lectures
  <2>2. l.evt = lecture.evt /\ l.prenom = lecture.prenom /\ l.quantites = q
    BY <1>4 DEF Lectures
  <2>3. l = [lecture EXCEPT !.quantites = q]
    OBVIOUS
  <2> HIDE DEF l
  <2> QED BY <2>1, <2>2, <2>3
<1> QED BY <1>1, <1>2, <1>3, <1>5 DEF q

LEMMA InvProjeterPlanning ==
  ASSUME Inv, ProjeterPlanning
  PROVE  Inv'
<1>1. Types
  BY DEF Inv
<1>2. ASSUME NEW e \in outbox, LireIdentite(e) PROVE Inv'
  <2>1. /\ e \in outbox \ tFaits /\ tContrat # Aucun
        /\ lecture' = [evt |-> e, prenom |-> tContrat.prenom, quantites |-> Aucun]
        /\ UNCHANGED <<planningVars, tContrat, tMois, tFaits, tEfface, desordre, tardif>>
    BY <1>2 DEF LireIdentite
  <2>2. e \in Evenements /\ tContrat.prenom \in Prenoms
    BY <1>1, <2>1, CopieTypee, FormesPropres
  <2>3. lecture' \in Lectures /\ lecture'.evt = e
    BY <2>1, <2>2 DEF Lectures
  <2>4. /\ tContrat' \in Identites \cup {Aucun} /\ tMois' \in Lignes \cup {Aucun}
        /\ desordre' \in BOOLEAN
    BY <1>1, <2>1, CopieTypee
  <2> QED BY <2>1, <2>3, <2>4, InvProjection
<1>3. CASE lecture # Aucun /\ (DemanderPrestations \/ RendreMessage)
  <2>1. UNCHANGED <<planningVars, tContrat, tMois, tFaits, tEfface, desordre, tardif>>
    BY <1>3 DEF DemanderPrestations, RendreMessage
  <2>2. lecture' \in Lectures \cup {Aucun} /\ (lecture' # Aucun => lecture'.evt \in outbox)
    <3>1. CASE DemanderPrestations
      BY <1>1, <1>3, <3>1, ReponseTypee, CopieTypee
    <3>2. CASE RendreMessage
      BY <3>2 DEF RendreMessage
    <3> QED BY <1>3, <3>1, <3>2
  <2>3. /\ UNCHANGED <<foyer, contrat, planning, outbox, dernier, perdues, croise, perime, orphelin>>
        /\ UNCHANGED <<pFaits, tx, debuts>>
    BY <2>1, Tables DEF planningVars
  <2>4. TypeOK'
    BY <2>1, <2>2, <2>3 DEF Inv, Types, TypeOK, PlanningTypeOK
  <2>5. \A a \in Acteurs : TxCoherente(a)'
    BY <2>3 DEF Inv, Types, TxCoherente
  <2>6. Semaine'
    BY <2>3 DEF Inv, Semaine, SemainesGardees
  <2>7. Erasure'
    BY <1>3, <2>1, <2>3 DEF Inv, Erasure, EffacementTenu, Efface
  <2> QED BY <2>3, <2>4, <2>5, <2>6, <2>7 DEF Inv, Types
<1>4. CASE InscrirePrestations
  <2>1. /\ lecture # Aucun /\ lecture.quantites # Aucun
        /\ lecture.evt \in outbox \ tFaits /\ tFaits' = tFaits \cup {lecture.evt}
        /\ tMois' = IF Recent(tMois, lecture.evt.le)
                    THEN [le |-> lecture.evt.le, prenom |-> lecture.prenom, quantites |-> lecture.quantites]
                    ELSE tMois
        /\ lecture' = Aucun
        /\ UNCHANGED <<planningVars, tContrat, tEfface, desordre, tardif>>
    BY <1>4 DEF InscrirePrestations, Traiter
  <2>2. lecture \in Lectures /\ lecture.evt.le \in Contenus
    BY <1>1, <2>1, CopieTypee, FormesPropres
  <2>3. lecture.prenom \in Prenoms /\ lecture.quantites \in Quantites
    BY <2>1, <2>2 DEF Lectures
  <2>4. [le |-> lecture.evt.le, prenom |-> lecture.prenom, quantites |-> lecture.quantites] \in Lignes
    BY <2>2, <2>3 DEF Lignes
  <2>5. tMois' \in Lignes \cup {Aucun}
    BY <1>1, <2>1, <2>4, CopieTypee
  <2>6. tContrat' \in Identites \cup {Aucun} /\ desordre' \in BOOLEAN
    BY <1>1, <2>1, CopieTypee
  <2> QED BY <2>1, <2>5, <2>6, InvProjection
<1>5. lecture # Aucun \/ ~(DemanderPrestations \/ RendreMessage)
  BY DEF DemanderPrestations, RendreMessage
<1> QED BY <1>2, <1>3, <1>4, <1>5 DEF ProjeterPlanning

\* The erasure: if the source had nothing more to say, nothing remains.
LEMMA InvEffacerFoyer ==
  ASSUME Inv, EffacerFoyer
  PROVE  Inv'
<1>1. /\ Efface /\ tEfface' = TRUE /\ tContrat' = Aucun /\ tMois' = Aucun /\ tardif' = Attendu
      /\ UNCHANGED <<planningVars, tFaits, lecture, desordre>>
  BY DEF EffacerFoyer, SansLeMois
<1>2. /\ UNCHANGED <<foyer, contrat, planning, outbox, dernier, perdues, croise, perime, orphelin>>
      /\ UNCHANGED <<pFaits, tx, debuts>>
  BY <1>1, Tables DEF planningVars
<1>3. Types'
  <2>1. tardif' \in BOOLEAN
    BY <1>1 DEF Attendu
  <2>2. TypeOK'
    BY <1>1, <1>2, <2>1 DEF Inv, Types, TypeOK, PlanningTypeOK
  <2>3. \A a \in Acteurs : TxCoherente(a)'
    BY <1>2 DEF Inv, Types, TxCoherente
  <2> QED BY <1>2, <2>2, <2>3 DEF Inv, Types
<1>4. Semaine'
  BY <1>2 DEF Inv, Semaine, SemainesGardees
<1>5. Erasure'
  <2>1. ASSUME ~tardif'
        PROVE  /\ outbox' = tFaits' /\ lecture' = Aucun /\ contrat' = Aucun
               /\ \A a \in Acteurs : tx'[a].op \notin DuContrat
    <3>1. outbox = tFaits /\ lecture = Aucun /\ contrat = Aucun /\ \A a \in Acteurs : tx[a] = Repos
      BY <1>1, <2>1 DEF Attendu
    <3>2. \A a \in Acteurs : tx'[a].op \notin DuContrat
      BY <1>2, <3>1, AuRepos DEF DuContrat, Operations
    <3> QED BY <1>1, <1>2, <3>1, <3>2
  <2>2. Efface'
    BY <1>1, <1>2 DEF Efface
  <2>3. EffacementTenu'
    BY <1>1, <1>2 DEF Inv, Erasure, EffacementTenu
  <2> QED BY <2>1, <2>2, <2>3 DEF Erasure
<1> QED BY <1>3, <1>4, <1>5 DEF Inv

LEMMA InvNext == Inv /\ [Next]_vars => Inv'
<1> SUFFICES ASSUME Inv, [Next]_vars PROVE Inv'
  OBVIOUS
<1>1. CASE UNCHANGED vars
  <2>1. UNCHANGED <<planningVars, copie>>
    BY <1>1 DEF vars
  <2>2. /\ UNCHANGED <<foyer, contrat, planning, outbox, dernier, perdues, croise, perime, orphelin>>
        /\ UNCHANGED <<pFaits, tx, debuts>>
        /\ UNCHANGED <<tContrat, tMois, tFaits, tEfface, lecture, desordre, tardif>>
    BY <2>1, Tables, CopieEntiere DEF planningVars
  <2>3. Types'
    <3>1. TypeOK'
      BY <2>2 DEF Inv, Types, TypeOK, PlanningTypeOK
    <3> QED BY <2>2, <3>1 DEF Inv, Types, TxCoherente
  <2>4. Semaine'
    BY <2>2 DEF Inv, Semaine, SemainesGardees
  <2>5. Erasure'
    BY <2>2 DEF Inv, Erasure, EffacementTenu, Efface
  <2> QED BY <2>3, <2>4, <2>5 DEF Inv
<1>2. CASE Source
  BY <1>2, InvSource DEF Source
<1>3. CASE ProjeterContrat
  BY <1>3, InvProjeterContrat DEF ProjeterContrat
<1>4. CASE ProjeterPlanning
  BY <1>4, InvProjeterPlanning
<1>5. CASE EffacerFoyer
  BY <1>5, InvEffacerFoyer
<1> QED BY <1>1, <1>2, <1>3, <1>4, <1>5 DEF Next

\* Types of the contract, its planning, the transactions and the copy.
THEOREM TypeCorrect == Spec => []TypeOK
<1>1. Inv => TypeOK
  BY DEF Inv, Types
<1> QED BY <1>1, InvInit, InvNext, PTL DEF Spec

\* A week keeps its last committed save (SemainesGardees), in every history of
\* requests, renamings and erasures.
THEOREM SemainesTenues == Spec => []SemainesGardees
<1>1. Inv => SemainesGardees
  BY DEF Inv, Semaine
<1> QED BY <1>1, InvInit, InvNext, PTL DEF Spec

\* Nothing is left of an erased household (EffacementTenu).
THEOREM ContratEfface == Spec => []EffacementTenu
<1>1. Inv => EffacementTenu
  BY DEF Inv, Erasure
<1> QED BY <1>1, InvInit, InvNext, PTL DEF Spec

----------------------------------------------------------------------------
(* The copy follows, as long as no two transactions crossed.               *)

\* An event of the outbox, field by field.
LEMMA EtatDate ==
  ASSUME Types, NEW a \in Acteurs, NEW p \in Prenoms, NEW type \in {"cree", "modifie"},
         EmettreEtat(a, type, p)
  PROVE  \E n \in Evenements : outbox' = outbox \cup {n} /\ n.type = type /\ n.le = tx[a].debut /\ n.prenom = p
<1>1. [type |-> type, le |-> tx[a].debut, prenom |-> p] \in Evenements
  BY FormesPropres DEF Evenements
<1> QED BY <1>1 DEF EmettreEtat

LEMMA NomDate ==
  ASSUME Types, NEW a \in Acteurs, NEW type \in {"supprime", "planning"}, EmettreNom(a, type)
  PROVE  \E n \in Evenements : outbox' = outbox \cup {n} /\ n.type = type /\ n.le = tx[a].debut
<1>1. [type |-> type, le |-> tx[a].debut] \in Evenements
  BY FormesPropres DEF Evenements
<1> QED BY <1>1 DEF EmettreNom

\* A step that emits nothing and leaves the contract and its month.
LEMMA SuiviMuet ==
  ASSUME Suivi, UNCHANGED <<contrat, planning, outbox, perime, copie>>, DatesPropres'
  PROVE  Suivi'
<1>0. UNCHANGED <<tContrat, tMois, tFaits, tEfface, lecture, desordre, tardif>>
  BY CopieEntiere
<1>1. Emis'
  BY DEF Suivi, Emis, Etats, Plannings, Fins
<1>2. MoisRecu' /\ IdentiteSuit'
  BY <1>0 DEF Suivi, MoisRecu, IdentiteSuit, Etats, Plannings, Fins
<1>3. Quantifie'
  BY <1>0 DEF Suivi, Quantifie, AJour, Courantes, Plannings
<1> QED BY <1>1, <1>2, <1>3 DEF Suivi

\* What a transaction that nobody overtook will date.
LEMMA AuBout ==
  ASSUME Types, DatesPropres, NEW a \in Acteurs, tx[a].op # Aucun, ~tx[a].double
  PROVE  /\ \A e \in outbox : e.le < tx[a].debut
         /\ tx[a].debut <= debuts
         /\ tx[a].op = "creer" => Fins = {}
         /\ tx[a].op \in DuContrat => contrat # Aucun
         /\ tx[a].op \in {"avenant", "rattacher"} => tx[a].prenom = contrat.prenom
<1>1. tx[a] # Repos
  BY AuRepos
<1>2. TxCoherente(a)
  BY DEF Types
<1> QED BY <1>1, <1>2 DEF DatesPropres, TxCoherente

\* A commit that emits n, the youngest event.
LEMMA SuiviEmis ==
  ASSUME Types, EnLecture, Suivi, NEW a \in Acteurs, tx[a].op # Aucun, ~tx[a].double,
         Terminer(a), UNCHANGED <<foyer, debuts, copie>>,
         NEW n \in Evenements, outbox' = outbox \cup {n}, n.le = tx[a].debut,
         AJour' => \/ n.type = "planning"
                   \/ AJour /\ planning' = planning /\ contrat'.version = contrat.version,
         Emis'
  PROVE  Suivi'
<1>0. /\ UNCHANGED <<tContrat, tMois, tFaits, tEfface, lecture, desordre, tardif>>
      /\ tFaits \subseteq outbox /\ (lecture # Aucun => lecture.evt \in outbox)
      /\ tMois # Aucun => tMois.le \in Contenus
  BY CopieEntiere, CopieTypee
<1>1. /\ \A e \in outbox : e.le < n.le /\ e.le \in Nat
      /\ n.le \in Nat /\ n.le <= debuts
  BY AuBout, FormesPropres DEF Suivi, Contenus
<1>2. n \notin outbox /\ n \notin tFaits
  BY <1>0, <1>1
<1>3. DatesPropres'
  <2>1. \A d \in Acteurs : tx'[d] # Repos => tx'[d].double
    BY Termine
  <2>2. \A e, f \in outbox' : e.le = f.le => e = f
    <3> SUFFICES ASSUME NEW e \in outbox', NEW f \in outbox', e.le = f.le PROVE e = f
      OBVIOUS
    <3>1. CASE e \in outbox /\ f \in outbox
      BY <3>1 DEF Suivi, DatesPropres
    <3>2. CASE e = n /\ f \in outbox
      BY <1>1, <3>2
    <3>3. CASE f = n /\ e \in outbox
      BY <1>1, <3>3
    <3> QED BY <3>1, <3>2, <3>3
  <2>3. \A e \in outbox' : e.le <= debuts'
    BY <1>1 DEF Suivi, DatesPropres
  <2> QED BY <2>1, <2>2, <2>3 DEF DatesPropres
<1>4. /\ Etats' \cap tFaits = Etats \cap tFaits /\ Plannings' \cap tFaits = Plannings \cap tFaits
      /\ Fins' \cap tFaits = Fins \cap tFaits
      /\ Plannings \subseteq Plannings' /\ Plannings \subseteq outbox
      /\ Plannings' = IF n.type = "planning" THEN Plannings \cup {n} ELSE Plannings
  BY <1>2 DEF Etats, Plannings, Fins
<1>5. MoisRecu'
  BY <1>0, <1>4 DEF Suivi, MoisRecu
<1>6. IdentiteSuit'
  <2>1. ~desordre =>
          /\ tContrat = Aucun => Etats' \cap tFaits = {} \/ Fins' \cap tFaits # {}
          /\ tContrat # Aucun =>
               /\ Fins' \cap tFaits = {}
               /\ \E e \in Etats' \cap tFaits :
                    /\ e.prenom = tContrat.prenom /\ e.le = tContrat.le
                    /\ \A f \in Etats' \cap tFaits : f.le <= e.le
          /\ tMois # Aucun => tMois.prenom = tContrat.prenom
    BY <1>4 DEF Suivi, IdentiteSuit
  <2> QED BY <1>0, <2>1 DEF IdentiteSuit
<1>7. Quantifie'
  <2>1. CASE n.type = "planning"
    <3>1. n \in Plannings'
      BY <1>4, <2>1
    <3>2. tMois # Aucun => tMois.le < n.le /\ tMois.le \in Nat
      BY <1>0, <1>1, <1>4 DEF Suivi, MoisRecu, Contenus
    <3>3. lecture # Aucun => lecture.evt.le < n.le /\ lecture.evt.le \in Nat
      BY <1>0, <1>1
    <3>4. /\ tMois # Aucun => ~(\A e \in Plannings' : e.le <= tMois.le)
          /\ lecture # Aucun => ~(\A e \in Plannings' : e.le <= lecture.evt.le)
      BY <1>1, <3>1, <3>2, <3>3
    <3> QED BY <1>0, <3>4 DEF Quantifie
  <2>2. CASE n.type # "planning"
    <3>1. AJour' => AJour /\ Courantes' = Courantes
      BY <2>2 DEF Courantes
    <3>2. Plannings' = Plannings
      BY <1>4, <2>2
    <3> QED BY <1>0, <3>1, <3>2 DEF Suivi, Quantifie
  <2> QED BY <2>1, <2>2
<1> QED BY <1>3, <1>5, <1>6, <1>7 DEF Suivi

\* The events of a commit, by type.
LEMMA Sortes ==
  ASSUME NEW n, outbox' = outbox \cup {n}
  PROVE  /\ Etats' = IF n.type # "planning" THEN Etats \cup {n} ELSE Etats
         /\ Plannings' = IF n.type = "planning" THEN Plannings \cup {n} ELSE Plannings
         /\ Fins' = IF n.type = "supprime" THEN Fins \cup {n} ELSE Fins
  BY DEF Etats, Plannings, Fins

\* A version, a link or a first name: the youngest event tells the row.
LEMMA EmisModifie ==
  ASSUME Types, Emis, contrat # Aucun, contrat' # Aucun, planning' = planning,
         NEW n \in Evenements, outbox' = outbox \cup {n}, n.type = "modifie",
         n.prenom = contrat'.prenom, \A e \in outbox : e.le < n.le
  PROVE  Emis'
<1>1. Etats' = Etats \cup {n} /\ Plannings' = Plannings /\ Fins' = Fins /\ Fins = {}
  BY Sortes DEF Emis
<1>2. \A e \in outbox' : e.le \in Nat /\ e.le <= n.le
  <2>1. n.le \in Nat
    BY DEF Evenements, Contenus
  <2> QED BY <2>1, FormesPropres DEF Contenus
<1>3. \A e \in outbox' : e.type = "cree" => \A f \in outbox' : e.le <= f.le
  BY <1>2 DEF Emis
<1>4. \E e \in Etats' : e.prenom = contrat'.prenom /\ \A f \in Etats' : f.le <= e.le
  <2>1. n \in Etats' /\ Etats' \subseteq outbox'
    BY <1>1 DEF Etats
  <2> QED BY <1>2, <2>1
<1> QED BY <1>1, <1>3, <1>4 DEF Emis

LEMMA EmisCree ==
  ASSUME Types, Emis, contrat = Aucun, Fins = {}, planning' = planning, contrat' # Aucun,
         NEW n \in Evenements, outbox' = outbox \cup {n}, n.type = "cree",
         n.prenom = contrat'.prenom
  PROVE  Emis'
<1>1. outbox = {} /\ outbox' = {n} /\ planning = Aucun
  BY DEF Emis
<1>2. Etats' = {n} /\ Fins' = {}
  BY <1>1 DEF Etats, Fins
<1>3. n.le \in Nat
  BY DEF Evenements, Contenus
<1> QED BY <1>1, <1>2, <1>3 DEF Emis

LEMMA EmisSupprime ==
  ASSUME Types, Emis, contrat' = Aucun, planning' = Aucun, contrat # Aucun,
         NEW n \in Evenements, outbox' = outbox \cup {n}, n.type = "supprime",
         \A e \in outbox : e.le < n.le
  PROVE  Emis'
<1>1. Fins' = {n}
  BY Sortes DEF Emis
<1>2. \A e \in outbox' : e.le \in Nat /\ e.le <= n.le
  <2>1. n.le \in Nat
    BY DEF Evenements, Contenus
  <2> QED BY <2>1, FormesPropres DEF Contenus
<1>3. \A e \in outbox' : e.type = "cree" => \A f \in outbox' : e.le <= f.le
  BY <1>2 DEF Emis
<1> QED BY <1>1, <1>2, <1>3 DEF Emis

LEMMA EmisPlanning ==
  ASSUME Types, Emis, contrat' = contrat, contrat # Aucun,
         NEW n \in Evenements, outbox' = outbox \cup {n}, n.type = "planning",
         \A e \in outbox : e.le < n.le
  PROVE  Emis'
<1>1. Etats' = Etats /\ Fins' = Fins /\ Fins = {} /\ Plannings' # {}
  BY Sortes DEF Emis
<1>2. \A e \in outbox' : e.le \in Nat /\ e.le <= n.le
  <2>1. n.le \in Nat
    BY DEF Evenements, Contenus
  <2> QED BY <2>1, FormesPropres DEF Contenus
<1>3. \A e \in outbox' : e.type = "cree" => \A f \in outbox' : e.le <= f.le
  BY <1>2 DEF Emis
<1> QED BY <1>1, <1>3 DEF Emis

\* The commits, as long as no two transactions crossed.
LEMMA SuiviCreerContrat ==
  ASSUME Types, EnLecture, Suivi, NEW c \in Commandes, CreerContrat(c), UNCHANGED copie, ~croise'
  PROVE  Suivi'
<1>1. /\ c \in Acteurs /\ tx[c].op = "creer" /\ tx[c].op # Aucun /\ Terminer(c)
      /\ UNCHANGED <<foyer, planning, pFaits, debuts, dernier, perdues, perime>>
  BY ConstantesPlanning DEF Acteurs, CreerContrat, Operations
<1>2. CASE contrat = Aucun
  <2>1. /\ contrat' = [prenom |-> tx[c].prenom, version |-> tx[c].debut]
        /\ EmettreEtat(c, "cree", tx[c].prenom) /\ ~tx[c].double
    BY <1>2 DEF CreerContrat, Croiser
  <2>2. tx[c].prenom \in Prenoms /\ tx[c].debut \in Contenus
    BY <1>1, Parametres DEF Nommes
  <2>3. contrat' \in Contrats /\ contrat'.prenom = tx[c].prenom
    BY <2>1, <2>2 DEF Contrats
  <2>4. contrat' # Aucun
    BY <2>3, ConstantesPlanning
  <2>5. PICK n \in Evenements : /\ outbox' = outbox \cup {n} /\ n.type = "cree"
                                /\ n.le = tx[c].debut /\ n.prenom = tx[c].prenom
    BY <1>1, <2>1, <2>2, EtatDate
  <2>6. Fins = {}
    BY <1>1, <2>1, AuBout DEF Suivi
  <2>7. Emis'
    BY <1>1, <1>2, <2>3, <2>4, <2>5, <2>6, EmisCree DEF Suivi
  <2>8. ~AJour'
    BY <1>1, <1>2 DEF Suivi, Emis, AJour
  <2> QED BY <1>1, <2>1, <2>5, <2>7, <2>8, SuiviEmis
<1>3. CASE contrat # Aucun
  <2>1. UNCHANGED <<contrat, outbox, croise, orphelin>>
    BY <1>3 DEF CreerContrat
  <2>2. DatesPropres'
    BY <1>1, <2>1, Termine DEF Suivi, DatesPropres
  <2> QED BY <1>1, <2>1, <2>2, SuiviMuet
<1> QED BY <1>2, <1>3

LEMMA SuiviAvenant ==
  ASSUME Types, EnLecture, Suivi, NEW c \in Commandes,
         CreerAvenant(c) \/ CorrigerVersionCourante(c), UNCHANGED copie, ~croise'
  PROVE  Suivi'
<1>1. /\ c \in Acteurs /\ tx[c].op \in {"avenant", "corriger"} /\ Terminer(c) /\ contrat # Aucun
      /\ EmettreEtat(c, "modifie", tx[c].prenom) /\ ~tx[c].double /\ perime' = TRUE
      /\ UNCHANGED <<foyer, planning, pFaits, debuts, dernier, perdues, orphelin>>
  BY DEF Acteurs, CreerAvenant, CorrigerVersionCourante, Croiser
<1>2. tx[c].op # Aucun
  BY <1>1, ConstantesPlanning DEF Operations
<1>3. tx[c].prenom \in Prenoms /\ tx[c].debut \in Contenus /\ contrat \in Contrats
  BY <1>1, Parametres, FormesPropres DEF Nommes
<1>4. contrat' \in Contrats /\ contrat'.prenom = tx[c].prenom
  <2>1. CASE CreerAvenant(c)
    <3>1. contrat' = [contrat EXCEPT !.version = tx[c].debut] /\ tx[c].op = "avenant"
      BY <2>1 DEF CreerAvenant
    <3>2. tx[c].prenom = contrat.prenom
      BY <1>1, <1>2, <3>1, AuBout DEF Suivi
    <3> QED BY <1>3, <3>1, <3>2 DEF Contrats
  <2>2. CASE CorrigerVersionCourante(c)
    BY <1>3, <2>2 DEF CorrigerVersionCourante, Contrats
  <2> QED BY <2>1, <2>2
<1>5. contrat' # Aucun
  BY <1>4, ConstantesPlanning
<1>6. PICK n \in Evenements : /\ outbox' = outbox \cup {n} /\ n.type = "modifie"
                              /\ n.le = tx[c].debut /\ n.prenom = tx[c].prenom
  BY <1>1, <1>3, EtatDate
<1>7. \A e \in outbox : e.le < n.le
  BY <1>1, <1>2, <1>6, AuBout DEF Suivi
<1>8. Emis'
  BY <1>1, <1>4, <1>5, <1>6, <1>7, EmisModifie DEF Suivi
<1>9. ~AJour'
  BY <1>1 DEF AJour
<1> QED BY <1>1, <1>2, <1>6, <1>8, <1>9, SuiviEmis

LEMMA SuiviRattacher ==
  ASSUME Types, EnLecture, Suivi, NEW c \in Commandes, Rattacher(c), UNCHANGED copie, ~croise'
  PROVE  Suivi'
<1>1. /\ c \in Acteurs /\ tx[c].op = "rattacher" /\ Terminer(c)
      /\ EmettreEtat(c, "modifie", tx[c].prenom) /\ ~tx[c].double
      /\ UNCHANGED <<foyer, contrat, planning, pFaits, debuts, dernier, perdues, perime, orphelin>>
  BY DEF Acteurs, Rattacher, Croiser
<1>2. tx[c].op # Aucun
  BY <1>1, ConstantesPlanning DEF Operations
<1>3. tx[c].prenom \in Prenoms
  BY <1>1, Parametres DEF Nommes
<1>4. contrat # Aucun /\ tx[c].prenom = contrat.prenom /\ \A e \in outbox : e.le < tx[c].debut
  BY <1>1, <1>2, AuBout DEF Suivi, DuContrat
<1>5. PICK n \in Evenements : /\ outbox' = outbox \cup {n} /\ n.type = "modifie"
                              /\ n.le = tx[c].debut /\ n.prenom = tx[c].prenom
  BY <1>1, <1>3, EtatDate
<1>6. Emis'
  BY <1>1, <1>4, <1>5, EmisModifie DEF Suivi
<1>7. AJour' => AJour /\ planning' = planning /\ contrat'.version = contrat.version
  BY <1>1 DEF AJour
<1> QED BY <1>1, <1>2, <1>5, <1>6, <1>7, SuiviEmis

LEMMA SuiviSupprimer ==
  ASSUME Types, EnLecture, Suivi, NEW c \in Commandes, SupprimerContrat(c), UNCHANGED copie, ~croise'
  PROVE  Suivi'
<1>1. /\ c \in Acteurs /\ tx[c].op = "supprimer" /\ Terminer(c)
      /\ EmettreNom(c, "supprime") /\ ~tx[c].double
      /\ contrat' = Aucun /\ planning' = Aucun
      /\ UNCHANGED <<foyer, pFaits, debuts, perdues, perime, orphelin>>
  BY DEF Acteurs, SupprimerContrat, Croiser
<1>2. tx[c].op # Aucun
  BY <1>1, ConstantesPlanning DEF Operations
<1>3. contrat # Aucun /\ \A e \in outbox : e.le < tx[c].debut
  BY <1>1, <1>2, AuBout DEF Suivi, DuContrat
<1>4. PICK n \in Evenements : outbox' = outbox \cup {n} /\ n.type = "supprime" /\ n.le = tx[c].debut
  BY <1>1, NomDate
<1>5. Emis'
  BY <1>1, <1>3, <1>4, EmisSupprime DEF Suivi
<1>6. ~AJour'
  BY <1>1 DEF AJour
<1> QED BY <1>1, <1>2, <1>4, <1>5, <1>6, SuiviEmis

LEMMA SuiviEcrire ==
  ASSUME Types, EnLecture, Suivi, NEW c \in Commandes, EcrirePlanning(c) \/ EcrireSemaine(c),
         UNCHANGED copie, ~croise'
  PROVE  Suivi'
<1>1. /\ c \in Acteurs /\ tx[c].op \in {"mois", "semaine"} /\ Terminer(c)
      /\ EmettreNom(c, "planning") /\ ~tx[c].double /\ contrat # Aucun
      /\ UNCHANGED <<foyer, contrat, pFaits, debuts, orphelin>>
  BY DEF Acteurs, EcrirePlanning, EcrireSemaine, UpsertPlanningMois, Croiser
<1>2. tx[c].op # Aucun
  BY <1>1, ConstantesPlanning DEF Operations
<1>3. \A e \in outbox : e.le < tx[c].debut
  BY <1>1, <1>2, AuBout DEF Suivi
<1>4. PICK n \in Evenements : outbox' = outbox \cup {n} /\ n.type = "planning" /\ n.le = tx[c].debut
  BY <1>1, NomDate
<1>5. Emis'
  BY <1>1, <1>3, <1>4, EmisPlanning DEF Suivi
<1> QED BY <1>1, <1>2, <1>4, <1>5, SuiviEmis

LEMMA SuiviEnfantModifie ==
  ASSUME Types, EnLecture, Suivi, EnfantModifie, UNCHANGED copie, ~croise'
  PROVE  Suivi'
<1>1. /\ Boucle \in Acteurs /\ tx[Boucle].op = "renomme" /\ tx[Boucle].op # Aucun /\ Terminer(Boucle)
      /\ UNCHANGED <<foyer, planning, debuts, dernier, perdues, perime, orphelin>>
  BY ConstantesPlanning DEF Acteurs, EnfantModifie
<1>2. CASE contrat # Aucun /\ contrat.prenom # tx[Boucle].prenom
  <2>1. /\ contrat' = [contrat EXCEPT !.prenom = tx[Boucle].prenom]
        /\ EmettreEtat(Boucle, "modifie", tx[Boucle].prenom) /\ ~tx[Boucle].double
    BY <1>2 DEF EnfantModifie, Croiser
  <2>2. tx[Boucle].prenom \in Prenoms /\ contrat \in Contrats
    BY <1>1, <1>2, Parametres, FormesPropres DEF Nommes
  <2>3. /\ contrat' \in Contrats /\ contrat'.prenom = tx[Boucle].prenom
        /\ contrat'.version = contrat.version
    BY <2>1, <2>2 DEF Contrats
  <2>4. contrat' # Aucun
    BY <2>3, ConstantesPlanning
  <2>5. PICK n \in Evenements : /\ outbox' = outbox \cup {n} /\ n.type = "modifie"
                                /\ n.le = tx[Boucle].debut /\ n.prenom = tx[Boucle].prenom
    BY <1>1, <2>1, <2>2, EtatDate
  <2>6. \A e \in outbox : e.le < n.le
    BY <1>1, <2>1, <2>5, AuBout DEF Suivi
  <2>7. Emis'
    BY <1>1, <1>2, <2>3, <2>4, <2>5, <2>6, EmisModifie DEF Suivi
  <2>8. AJour' => AJour /\ planning' = planning /\ contrat'.version = contrat.version
    BY <1>1, <2>3 DEF AJour
  <2> QED BY <1>1, <2>1, <2>5, <2>7, <2>8, SuiviEmis
<1>3. CASE ~(contrat # Aucun /\ contrat.prenom # tx[Boucle].prenom)
  <2>1. UNCHANGED <<contrat, outbox, croise>>
    BY <1>3 DEF EnfantModifie
  <2>2. DatesPropres'
    BY <1>1, <2>1, Termine DEF Suivi, DatesPropres
  <2> QED BY <1>1, <2>1, <2>2, SuiviMuet
<1> QED BY <1>2, <1>3

\* The begin of a transaction dates it after every event.
LEMMA DatesDebut ==
  ASSUME Types, DatesPropres, NEW a \in Acteurs, UNCHANGED <<contrat, outbox>>,
         debuts' = debuts + 1, tx'[a].debut = debuts + 1,
         \A d \in Acteurs \ {a} : tx'[d] = tx[d],
         tx'[a].op = "creer" => Fins = {},
         tx'[a].op \in DuContrat => contrat # Aucun,
         tx'[a].op \in {"avenant", "rattacher"} => tx'[a].prenom = contrat.prenom
  PROVE  DatesPropres'
<1>1. \A e \in outbox : e.le \in Nat /\ e.le <= debuts /\ e.le < debuts + 1 /\ e.le <= debuts + 1
  <2>1. debuts \in Nat /\ \A e \in outbox : e.le \in Nat /\ e.le <= debuts
    BY FormesPropres DEF DatesPropres, Contenus
  <2> QED BY <2>1
<1>2. Fins' = Fins
  BY DEF Fins
<1>3. ASSUME NEW d \in Acteurs, tx'[d] # Repos, ~tx'[d].double
      PROVE  /\ \A e \in outbox : e.le < tx'[d].debut
             /\ tx'[d].op = "creer" => Fins = {}
             /\ tx'[d].op \in DuContrat => contrat # Aucun
             /\ tx'[d].op \in {"avenant", "rattacher"} => tx'[d].prenom = contrat.prenom
  <2>1. CASE d = a
    BY <1>1, <2>1
  <2>2. CASE d # a
    <3>1. tx'[d] = tx[d]
      BY <2>2
    <3> QED BY <1>3, <3>1 DEF DatesPropres
  <2> QED BY <2>1, <2>2
<1>4. \A e, f \in outbox : e.le = f.le => e = f
  BY DEF DatesPropres
<1> QED BY <1>1, <1>2, <1>3, <1>4 DEF DatesPropres

\* The source follows.
LEMMA SuiviSource ==
  ASSUME Types, EnLecture, Suivi, PlanningNext, UNCHANGED copie, ~croise', ~Efface'
  PROVE  Suivi'
<1>1. CASE Emission
  <2>1. UNCHANGED <<tables, pFaits, tx, debuts>>
    BY <1>1 DEF Emission, RenommerEnfant, SupprimerFoyer
  <2>2. UNCHANGED <<contrat, planning, outbox, perime, tx, debuts>>
    BY <2>1, Tables
  <2>3. DatesPropres'
    BY <2>2 DEF Suivi, DatesPropres, Fins
  <2> QED BY <2>2, <2>3, SuiviMuet
<1>2. ASSUME NEW a \in Acteurs, Annuler(a) PROVE Suivi'
  <2>1. /\ UNCHANGED <<foyer, tables, pFaits, debuts>>
        /\ tx'[a] = Repos /\ \A d \in Acteurs \ {a} : tx'[d] = tx[d]
    BY <1>2, Annule
  <2>2. UNCHANGED <<contrat, planning, outbox, perime, debuts>>
    BY <2>1, Tables
  <2>3. DatesPropres'
    BY <2>1, <2>2 DEF Suivi, DatesPropres, Fins
  <2> QED BY <2>2, <2>3, SuiviMuet
<1>3. ASSUME NEW c \in Commandes, Requete(c) PROVE Suivi'
  <2>1. CASE Commencer(c)
    <3>1. c \in Acteurs
      BY DEF Acteurs
    <3>2. /\ UNCHANGED tables /\ debuts' = debuts + 1 /\ tx'[c].debut = debuts + 1
          /\ \A d \in Acteurs \ {c} : tx'[d] = tx[d]
          /\ tx'[c].op = "creer" => ~\E e \in outbox : e.type = "supprime"
          /\ tx'[c].op # "creer" => contrat # Aucun
          /\ tx'[c].op \in {"avenant", "rattacher"} => tx'[c].prenom = contrat.prenom
      BY <2>1, Commence
    <3>3. UNCHANGED <<contrat, planning, outbox, perime>>
      BY <3>2, Tables
    <3>4. /\ tx'[c].op = "creer" => Fins = {}
          /\ tx'[c].op \in DuContrat => contrat # Aucun
      BY <3>2 DEF Fins, DuContrat
    <3>5. DatesPropres'
      BY <3>1, <3>2, <3>3, <3>4, DatesDebut DEF Suivi
    <3> QED BY <3>3, <3>5, SuiviMuet
  <2>2. CASE Annuler(c)
    BY <1>2, <2>2 DEF Acteurs
  <2> QED BY <1>3, <2>1, <2>2, SuiviCreerContrat, SuiviAvenant, SuiviRattacher, SuiviSupprimer,
             SuiviEcrire DEF Requete
<1>4. CASE Ecoute
  <2>1. ASSUME NEW e \in foyer, Recevoir(e) PROVE Suivi'
    <3>1. Boucle \in Acteurs
      BY DEF Acteurs
    <3>2. /\ UNCHANGED tables /\ debuts' = debuts + 1 /\ tx'[Boucle].debut = debuts + 1
          /\ \A d \in Acteurs \ {Boucle} : tx'[d] = tx[d]
          /\ tx'[Boucle].op \in {"renomme", "effacement"}
      BY <2>1, Recoit
    <3>3. UNCHANGED <<contrat, planning, outbox, perime>>
      BY <3>2, Tables
    <3>4. DatesPropres'
      BY <3>1, <3>2, <3>3, DatesDebut DEF Suivi, DuContrat
    <3> QED BY <3>3, <3>4, SuiviMuet
  <2>2. CASE Annuler(Boucle)
    BY <1>2, <2>2 DEF Acteurs
  <2>3. ~FoyerSupprime
    <3> SUFFICES ASSUME FoyerSupprime PROVE FALSE
      OBVIOUS
    <3>1. tx[Boucle].op = "effacement" /\ Boucle \in Acteurs /\ foyer' = foyer
      BY DEF FoyerSupprime, Acteurs
    <3>2. TxCoherente(Boucle) /\ tx[Boucle] # Repos
      BY <3>1, AuRepos DEF Types
    <3>3. tx[Boucle].evt \in foyer' /\ tx[Boucle].evt.type = "effacement"
      BY <3>1, <3>2 DEF TxCoherente
    <3> QED BY <3>3 DEF Efface
  <2> QED BY <1>4, <2>1, <2>2, <2>3, SuiviEnfantModifie DEF Ecoute
<1> QED BY <1>1, <1>3, <1>4 DEF PlanningNext

\* And the loop of the copy keeps its message in hand.
LEMMA LectureSource ==
  ASSUME Types, EnLecture, outbox \subseteq outbox', UNCHANGED copie
  PROVE  EnLecture'
<1>1. UNCHANGED <<tContrat, tMois, tFaits, tEfface, lecture, desordre, tardif>>
  BY CopieEntiere
<1>2. Plannings \subseteq Plannings'
  BY DEF Plannings
<1> QED BY <1>1, <1>2 DEF EnLecture

\* What the source emits stays, and no crossing is forgotten.
LEMMA SourceCroit ==
  ASSUME Types, PlanningNext
  PROVE  outbox \subseteq outbox' /\ (croise => croise') /\ (Efface => Efface')
<1>1. CASE Emission
  <2>1. UNCHANGED tables /\ foyer \subseteq foyer'
    BY <1>1 DEF Emission, RenommerEnfant, SupprimerFoyer
  <2>2. Efface => Efface'
    BY <2>1 DEF Efface
  <2> QED BY <2>1, <2>2, Tables
<1>2. ASSUME NEW a \in Acteurs, Annuler(a) \/ UNCHANGED <<foyer, tables, pFaits>>
      PROVE  UNCHANGED <<outbox, croise, foyer>>
  <2>1. UNCHANGED <<foyer, tables>>
    BY <1>2 DEF Annuler
  <2> QED BY <2>1, Tables
<1>3. ASSUME NEW c \in Commandes, Requete(c)
      PROVE  outbox \subseteq outbox' /\ (croise => croise') /\ foyer' = foyer
  <2>1. CASE Commencer(c) \/ Annuler(c)
    <3>1. Annuler(c) \/ UNCHANGED <<foyer, tables, pFaits>>
      BY <2>1 DEF Commencer, Debuter
    <3> QED BY <1>2, <3>1 DEF Acteurs
  <2> QED BY <1>3, <2>1 DEF Requete, CreerContrat, CreerAvenant, CorrigerVersionCourante, Rattacher,
             SupprimerContrat, EcrirePlanning, EcrireSemaine, UpsertPlanningMois,
             EmettreEtat, EmettreNom, Croiser
<1>4. CASE Ecoute
  <2>1. ASSUME NEW e \in foyer, Recevoir(e) PROVE UNCHANGED <<outbox, croise, foyer>>
    <3>1. UNCHANGED <<foyer, tables, pFaits>>
      BY <2>1 DEF Recevoir, Debuter
    <3> QED BY <1>2, <3>1 DEF Acteurs
  <2>2. ASSUME Annuler(Boucle) PROVE UNCHANGED <<outbox, croise, foyer>>
    BY <1>2, <2>2 DEF Acteurs
  <2>3. ASSUME EnfantModifie PROVE outbox \subseteq outbox' /\ (croise => croise') /\ foyer' = foyer
    BY <2>3 DEF EnfantModifie, EmettreEtat, Croiser
  <2>4. ASSUME FoyerSupprime PROVE UNCHANGED <<outbox, croise, foyer>>
    BY <2>4 DEF FoyerSupprime
  <2>5. outbox \subseteq outbox' /\ (croise => croise') /\ foyer' = foyer
    BY <1>4, <2>1, <2>2, <2>3, <2>4 DEF Ecoute
  <2> QED BY <2>5 DEF Efface
<1> QED BY <1>1, <1>3, <1>4 DEF PlanningNext, Efface

\* The copy, one step at a time: the source does not move.
LEMMA SourceImmobile ==
  ASSUME UNCHANGED planningVars
  PROVE  /\ UNCHANGED <<contrat, planning, outbox, perime, croise, foyer, tx, debuts>>
         /\ Etats' = Etats /\ Plannings' = Plannings /\ Fins' = Fins
         /\ Courantes' = Courantes /\ AJour' = AJour
         /\ DatesPropres => DatesPropres'
         /\ Emis => Emis'
<1>1. UNCHANGED <<contrat, planning, outbox, perime, croise, foyer, tx, debuts>>
  BY Tables DEF planningVars
<1>2. /\ Etats' = Etats /\ Plannings' = Plannings /\ Fins' = Fins
      /\ Courantes' = Courantes /\ AJour' = AJour
  BY <1>1 DEF Etats, Plannings, Fins, Courantes, AJour
<1> QED BY <1>1, <1>2 DEF DatesPropres, Emis

LEMMA EnOrdre ==
  ASSUME Types
  PROVE  /\ \A e \in outbox : e.le \in Nat
         /\ Etats \subseteq outbox /\ Plannings \subseteq outbox /\ Fins \subseteq Etats
         /\ tFaits \subseteq outbox
         /\ tMois # Aucun => tMois.le \in Nat
         /\ tContrat # Aucun => tContrat.le \in Nat
  BY FormesPropres, CopieTypee DEF Contenus, Etats, Plannings, Fins

\* An event of the contract that no younger one preceded: no deletion was
\* applied, and the row takes what it says.
LEMMA DansLOrdre ==
  ASSUME Types, DatesPropres, Emis, IdentiteSuit, ~desordre,
         NEW e \in Etats, e \notin tFaits, e.type # "supprime", ~Depasse(e)
  PROVE  /\ \A f \in Etats \cap tFaits : f.le <= e.le
         /\ Fins \cap tFaits = {}
         /\ IdentiteDe(e) = [le |-> e.le, prenom |-> e.prenom]
<1>1. \A f \in Etats \cap tFaits : f.le <= e.le
  BY EnOrdre DEF Depasse, Etats
<1>2. Fins \cap tFaits = {}
  <2> SUFFICES ASSUME NEW f \in Fins \cap tFaits PROVE FALSE
    OBVIOUS
  <2>1. e.le <= f.le /\ f.le <= e.le /\ f.le \in Nat /\ e.le \in Nat
    BY <1>1, EnOrdre DEF Emis
  <2>2. e.le = f.le
    BY <2>1
  <2> QED BY <2>2, EnOrdre DEF DatesPropres
<1>3. tContrat # Aucun => tContrat.le <= e.le
  BY <1>1 DEF IdentiteSuit
<1> QED BY <1>1, <1>2, <1>3 DEF IdentiteDe, Recent

\* A creation applied in order comes first.
LEMMA DAbord ==
  ASSUME Types, DatesPropres, Emis, IdentiteSuit, ~desordre,
         NEW e \in Etats, e \notin tFaits, e.type = "cree", ~Depasse(e)
  PROVE  Etats \cap tFaits = {} /\ tContrat = Aucun
<1>1. ASSUME NEW f \in Etats \cap tFaits PROVE FALSE
  <2>1. f.le <= e.le /\ e.le <= f.le /\ e.le \in Nat /\ f.le \in Nat
    BY DansLOrdre, EnOrdre DEF Emis
  <2>2. e.le = f.le
    BY <2>1
  <2> QED BY <2>2, EnOrdre DEF DatesPropres
<1> QED BY <1>1 DEF IdentiteSuit

\* The three events of the contract.
LEMMA SuiviContrat ==
  ASSUME Types, EnLecture, Suivi, NEW e \in outbox,
         ContratCree(e) \/ ContratModifie(e) \/ ContratSupprime(e)
  PROVE  Suivi'
<1>1. /\ e \in Etats /\ e \notin tFaits /\ tFaits' = tFaits \cup {e} /\ lecture = Aucun
      /\ desordre' = (desordre \/ Depasse(e)) /\ UNCHANGED <<planningVars, tEfface, lecture, tardif>>
  BY DEF ContratCree, ContratModifie, ContratSupprime, Traiter, Etats
<1>2. /\ Etats' = Etats /\ Plannings' = Plannings /\ Fins' = Fins
      /\ Courantes' = Courantes /\ AJour' = AJour
      /\ DatesPropres' /\ Emis'
  BY <1>1, SourceImmobile DEF Suivi
<1>3. Plannings \cap tFaits' = Plannings \cap tFaits /\ Fins \cap tFaits \subseteq Fins \cap tFaits'
  BY <1>1 DEF Etats, Plannings
<1>4. Etats \cap tFaits' = (Etats \cap tFaits) \cup {e}
  BY <1>1
<1>5. DatesPropres /\ Emis /\ IdentiteSuit /\ MoisRecu /\ Quantifie
  BY DEF Suivi
<1>6. CASE ContratCree(e)
  <2>1. tContrat' = IdentiteDe(e) /\ tMois' = tMois /\ e.type = "cree"
    BY <1>6 DEF ContratCree
  <2>2. MoisRecu' /\ Quantifie'
    BY <1>1, <1>2, <1>3, <1>5, <2>1 DEF MoisRecu, Quantifie
  <2>3. ASSUME ~desordre'
        PROVE  /\ tContrat' # Aucun /\ tMois' = Aucun
               /\ Fins \cap tFaits' = {}
               /\ e.prenom = tContrat'.prenom /\ e.le = tContrat'.le
               /\ \A f \in Etats \cap tFaits' : f.le <= e.le
    <3>1. ~desordre /\ ~Depasse(e)
      BY <1>1, <2>3
    <3>2. /\ \A f \in Etats \cap tFaits : f.le <= e.le
          /\ Fins \cap tFaits = {}
          /\ IdentiteDe(e) = [le |-> e.le, prenom |-> e.prenom]
          /\ tContrat = Aucun
      BY <1>1, <1>5, <2>1, <3>1, DansLOrdre, DAbord
    <3>3. IdentiteDe(e) # Aucun
      BY <2>1, IdentiteTypee, ConstantesProjection
    <3>4. tMois = Aucun
      BY <3>2 DEF EnLecture
    <3>5. Fins \cap tFaits' = {}
      BY <1>1, <2>1, <3>2 DEF Fins
    <3>6. \A f \in Etats \cap tFaits' : f.le <= e.le
      BY <1>4, <3>2, EnOrdre
    <3> QED BY <2>1, <3>2, <3>3, <3>4, <3>5, <3>6
  <2>4. IdentiteSuit'
    BY <1>2, <1>4, <2>3 DEF IdentiteSuit
  <2> QED BY <1>2, <2>2, <2>4 DEF Suivi
<1>7. CASE ContratModifie(e)
  <2>1. tContrat' = IdentiteDe(e) /\ tMois' = Realigner(tMois, e.prenom) /\ e.type = "modifie"
    BY <1>7 DEF ContratModifie
  <2>2. /\ tMois' # Aucun <=> tMois # Aucun
        /\ tMois # Aucun => /\ tMois'.le = tMois.le /\ tMois'.quantites = tMois.quantites
                            /\ tMois'.prenom = e.prenom
    <3>1. CASE tMois = Aucun
      BY <2>1, <3>1 DEF Realigner
    <3>2. CASE tMois # Aucun
      <4>1. tMois \in Lignes /\ e.prenom \in Prenoms
        BY <2>1, <3>2, CopieTypee, FormesPropres
      <4>2. tMois' = [tMois EXCEPT !.prenom = e.prenom]
        BY <2>1, <3>2 DEF Realigner
      <4>3. tMois' \in Lignes
        BY <4>1, <4>2 DEF Lignes
      <4>4. /\ tMois'.le = tMois.le /\ tMois'.quantites = tMois.quantites
            /\ tMois'.prenom = e.prenom
        BY <4>1, <4>2 DEF Lignes
      <4>5. tMois' # Aucun
        BY <4>3, ConstantesProjection
      <4> QED BY <3>2, <4>4, <4>5
    <3> QED BY <3>1, <3>2
  <2>3. MoisRecu'
    BY <1>2, <1>3, <1>5, <2>2 DEF MoisRecu
  <2>4. Quantifie'
    BY <1>1, <1>2, <1>5, <2>2 DEF Quantifie
  <2>5. ASSUME ~desordre'
        PROVE  /\ tContrat' # Aucun
               /\ Fins \cap tFaits' = {}
               /\ e.prenom = tContrat'.prenom /\ e.le = tContrat'.le
               /\ \A f \in Etats \cap tFaits' : f.le <= e.le
    <3>1. ~desordre /\ ~Depasse(e)
      BY <1>1, <2>5
    <3>2. /\ \A f \in Etats \cap tFaits : f.le <= e.le
          /\ Fins \cap tFaits = {}
          /\ IdentiteDe(e) = [le |-> e.le, prenom |-> e.prenom]
      BY <1>1, <1>5, <2>1, <3>1, DansLOrdre
    <3>3. IdentiteDe(e) # Aucun
      BY <2>1, IdentiteTypee, ConstantesProjection
    <3>4. Fins \cap tFaits' = {}
      BY <1>1, <2>1, <3>2 DEF Fins
    <3>5. \A f \in Etats \cap tFaits' : f.le <= e.le
      BY <1>4, <3>2, EnOrdre
    <3> QED BY <2>1, <3>2, <3>3, <3>4, <3>5
  <2>6. IdentiteSuit'
    <3>1. ~desordre' => (tMois' # Aucun => tMois'.prenom = tContrat'.prenom)
      BY <2>2, <2>5
    <3> QED BY <1>2, <1>4, <2>5, <3>1 DEF IdentiteSuit
  <2> QED BY <1>2, <2>3, <2>4, <2>6 DEF Suivi
<1>8. CASE ContratSupprime(e)
  <2>1. tContrat' = Aucun /\ tMois' = Aucun /\ e \in Fins
    BY <1>8 DEF ContratSupprime, Fins
  <2>2. Fins \cap tFaits' # {}
    BY <1>1, <2>1
  <2>3. MoisRecu' /\ IdentiteSuit'
    BY <1>2, <2>1, <2>2 DEF MoisRecu, IdentiteSuit
  <2>4. Quantifie'
    BY <1>1, <2>1 DEF Quantifie
  <2> QED BY <1>2, <2>3, <2>4 DEF Suivi
<1> QED BY <1>6, <1>7, <1>8

LEMMA LectureContrat ==
  ASSUME Types, EnLecture, NEW e \in outbox,
         ContratCree(e) \/ ContratModifie(e) \/ ContratSupprime(e)
  PROVE  EnLecture'
<1>1. lecture' = Aucun
  BY DEF ContratCree, ContratModifie, ContratSupprime
<1>2. CASE ContratCree(e) \/ ContratModifie(e)
  <2>1. tContrat' = IdentiteDe(e) /\ e.type \in {"cree", "modifie"}
    BY <1>2 DEF ContratCree, ContratModifie
  <2>2. tContrat' # Aucun
    BY <2>1, IdentiteTypee, ConstantesProjection
  <2> QED BY <1>1, <2>2 DEF EnLecture
<1>3. CASE ContratSupprime(e)
  BY <1>1, <1>3 DEF ContratSupprime, EnLecture
<1> QED BY <1>2, <1>3

\* The planning: read, asked for, given back, written.
LEMMA SuiviPlanning ==
  ASSUME Types, EnLecture, ProjeterPlanning
  PROVE  EnLecture' /\ (Suivi => Suivi')
<1>1. ASSUME NEW e \in outbox, LireIdentite(e) PROVE EnLecture' /\ (Suivi => Suivi')
  <2>1. /\ e \in outbox \ tFaits /\ e.type = "planning" /\ tContrat # Aucun
        /\ lecture' = [evt |-> e, prenom |-> tContrat.prenom, quantites |-> Aucun]
        /\ UNCHANGED <<planningVars, tContrat, tMois, tFaits, tEfface, desordre, tardif>>
    BY <1>1 DEF LireIdentite
  <2>2. lecture'.evt = e /\ lecture'.prenom = tContrat.prenom /\ lecture'.quantites = Aucun
    BY <2>1
  <2>3. e \in Plannings \ tFaits
    BY <2>1 DEF Plannings
  <2>4. EnLecture'
    BY <2>1, <2>2, <2>3, SourceImmobile DEF EnLecture
  <2>5. ASSUME Suivi PROVE Suivi'
    <3>1. DatesPropres' /\ Emis' /\ MoisRecu' /\ IdentiteSuit'
      BY <2>1, <2>5, SourceImmobile DEF Suivi, MoisRecu, IdentiteSuit
    <3>2. Quantifie'
      BY <2>1, <2>2, <2>5, SourceImmobile DEF Suivi, Quantifie
    <3> QED BY <3>1, <3>2 DEF Suivi
  <2> QED BY <2>4, <2>5
<1>2. CASE DemanderPrestations
  <2>1. /\ lecture # Aucun /\ lecture'.evt = lecture.evt /\ lecture'.prenom = lecture.prenom
        /\ lecture'.quantites = Courantes
        /\ UNCHANGED <<planningVars, tContrat, tMois, tFaits, tEfface, desordre, tardif>>
    <3>1. UNCHANGED <<planningVars, tContrat, tMois, tFaits, tEfface, desordre, tardif>>
      BY <1>2 DEF DemanderPrestations
    <3> QED BY <1>2, <3>1, ReponseTypee DEF Courantes
  <2>2. EnLecture'
    BY <2>1, SourceImmobile DEF EnLecture
  <2>3. ASSUME Suivi PROVE Suivi'
    <3>1. DatesPropres' /\ Emis' /\ MoisRecu' /\ IdentiteSuit'
      BY <2>1, <2>3, SourceImmobile DEF Suivi, MoisRecu, IdentiteSuit
    <3>2. Quantifie'
      BY <2>1, <2>3, SourceImmobile DEF Suivi, Quantifie
    <3> QED BY <3>1, <3>2 DEF Suivi
  <2> QED BY <2>2, <2>3
<1>3. CASE RendreMessage
  <2>1. /\ lecture # Aucun /\ lecture' = Aucun
        /\ UNCHANGED <<planningVars, tContrat, tMois, tFaits, tEfface, desordre, tardif>>
    BY <1>3 DEF RendreMessage
  <2>2. EnLecture'
    BY <2>1 DEF EnLecture
  <2>3. ASSUME Suivi PROVE Suivi'
    <3>1. DatesPropres' /\ Emis' /\ MoisRecu' /\ IdentiteSuit'
      BY <2>1, <2>3, SourceImmobile DEF Suivi, MoisRecu, IdentiteSuit
    <3>2. Quantifie'
      BY <2>1, <2>3, SourceImmobile DEF Suivi, Quantifie
    <3> QED BY <3>1, <3>2 DEF Suivi
  <2> QED BY <2>2, <2>3
<1>4. CASE InscrirePrestations
  <2> DEFINE e == lecture.evt
             n == [le |-> e.le, prenom |-> lecture.prenom, quantites |-> lecture.quantites]
  <2>1. /\ lecture # Aucun /\ lecture.quantites # Aucun /\ lecture' = Aucun
        /\ tFaits' = tFaits \cup {e}
        /\ tMois' = IF Recent(tMois, e.le) THEN n ELSE tMois
        /\ UNCHANGED <<planningVars, tContrat, tEfface, desordre, tardif>>
    BY <1>4 DEF InscrirePrestations, Traiter
  <2>2. n.le = e.le /\ n.prenom = lecture.prenom /\ n.quantites = lecture.quantites
    OBVIOUS
  <2>3. /\ e \in Plannings /\ e \notin tFaits /\ tContrat # Aucun
        /\ lecture.prenom = tContrat.prenom /\ e.le \in Nat
    BY <2>1, EnOrdre DEF EnLecture
  <2>4. n # Aucun
    <3>1. lecture \in Lectures
      BY <2>1, CopieTypee
    <3>2. lecture.prenom \in Prenoms /\ lecture.quantites \in Quantites /\ e.le \in Contenus
      BY <2>1, <3>1 DEF Lectures, Evenements
    <3>3. n \in Lignes
      BY <3>2 DEF Lignes
    <3> QED BY <3>3, ConstantesProjection
  <2> HIDE DEF n, e
  <2>5. EnLecture'
    BY <2>1, <2>3 DEF EnLecture
  <2>6. ASSUME Suivi PROVE Suivi'
    <3>0. DatesPropres /\ Emis /\ MoisRecu /\ IdentiteSuit /\ Quantifie
      BY <2>6 DEF Suivi
    <3>1. DatesPropres' /\ Emis'
      BY <2>1, <3>0, SourceImmobile
    <3>2. /\ Plannings' = Plannings /\ Fins' = Fins /\ Etats' = Etats
          /\ Courantes' = Courantes /\ AJour' = AJour
      BY <2>1, SourceImmobile
    <3>3. /\ Plannings \cap tFaits' = (Plannings \cap tFaits) \cup {e}
          /\ Etats \cap tFaits' = Etats \cap tFaits /\ Fins \cap tFaits' = Fins \cap tFaits
      BY <2>1, <2>3 DEF Plannings, Etats, Fins
    <3>4. /\ tMois' # Aucun /\ e.le <= tMois'.le
          /\ tMois # Aucun => tMois.le <= tMois'.le
      BY <2>1, <2>2, <2>3, <2>4, EnOrdre DEF Recent
    <3>5. MoisRecu'
      <4>1. \E p \in Plannings : p.le = tMois'.le
        BY <2>1, <2>2, <2>3, <3>0 DEF Recent, MoisRecu
      <4>2. ASSUME NEW p \in Plannings \cap tFaits' 
            PROVE  Fins \cap tFaits # {} \/ p.le <= tMois'.le
        <5>1. CASE p = e
          BY <3>4, <5>1
        <5>2. CASE p # e
          <6>1. Fins \cap tFaits # {} \/ (tMois # Aucun /\ p.le <= tMois.le)
            BY <3>0, <3>3, <4>2, <5>2 DEF MoisRecu
          <6>2. CASE tMois # Aucun /\ p.le <= tMois.le
            <7>1. p.le \in Nat /\ tMois.le \in Nat /\ tMois.le <= tMois'.le
              BY <3>4, <6>2, EnOrdre
            <7>2. tMois'.le \in Nat
              BY <4>1, EnOrdre
            <7> QED BY <6>2, <7>1, <7>2
          <6> QED BY <6>1, <6>2
        <5> QED BY <5>1, <5>2
      <4> QED BY <3>2, <3>3, <3>4, <4>1, <4>2 DEF MoisRecu
    <3>6. IdentiteSuit'
      <4>1. tMois' # Aucun /\ ~desordre => tMois'.prenom = tContrat.prenom
        BY <2>1, <2>2, <2>3, <3>0 DEF Recent, IdentiteSuit
      <4> QED BY <2>1, <3>0, <3>2, <3>3, <4>1 DEF IdentiteSuit
    <3>7. Quantifie'
      <4>1. ASSUME AJour, \A p \in Plannings : p.le <= tMois'.le PROVE tMois'.quantites = Courantes
        <5>1. CASE Recent(tMois, e.le)
          BY <2>1, <2>2, <3>0, <4>1, <5>1 DEF Quantifie, e
        <5>2. CASE ~Recent(tMois, e.le)
          BY <2>1, <3>0, <4>1, <5>2 DEF Quantifie, Recent
        <5> QED BY <5>1, <5>2
      <4> QED BY <2>1, <3>2, <4>1 DEF Quantifie
    <3> QED BY <3>1, <3>5, <3>6, <3>7 DEF Suivi
  <2> QED BY <2>5, <2>6
<1> QED BY <1>1, <1>2, <1>3, <1>4 DEF ProjeterPlanning

LEMMA InvPlanningInit == Init => InvPlanning
<1> SUFFICES ASSUME Init PROVE InvPlanning
  OBVIOUS
<1>1. Inv
  BY InvInit
<1>2. /\ contrat = Aucun /\ planning = Aucun /\ outbox = {} /\ debuts = 0
      /\ tContrat = Aucun /\ tMois = Aucun /\ lecture = Aucun /\ tFaits = {}
      /\ \A a \in Acteurs : tx[a] = Repos
  BY DEF Init, PlanningInit
<1>3. EnLecture
  BY <1>2 DEF EnLecture
<1>4. DatesPropres /\ Emis
  BY <1>2 DEF DatesPropres, Emis
<1>5. MoisRecu /\ Quantifie /\ IdentiteSuit
  BY <1>2 DEF MoisRecu, Quantifie, IdentiteSuit
<1> QED BY <1>1, <1>3, <1>4, <1>5 DEF InvPlanning, Suivi

LEMMA InvPlanningNext == InvPlanning /\ [Next]_vars => InvPlanning'
<1> SUFFICES ASSUME InvPlanning, [Next]_vars PROVE InvPlanning'
  OBVIOUS
<1>1. Inv' /\ Types
  BY InvNext DEF InvPlanning, Inv
<1>2. ASSUME UNCHANGED planningVars, EnLecture => EnLecture', EnLecture /\ Suivi => Suivi'
      PROVE  InvPlanning'
  <2>1. croise' = croise /\ (Efface' <=> Efface)
    BY <1>2, SourceImmobile DEF Efface
  <2> QED BY <1>1, <1>2, <2>1 DEF InvPlanning
<1>3. CASE UNCHANGED vars
  <2>1. UNCHANGED <<planningVars, tContrat, tMois, tFaits, tEfface, lecture, desordre, tardif>>
    BY <1>3, CopieEntiere DEF vars
  <2>2. EnLecture => EnLecture'
    BY <2>1, SourceImmobile DEF EnLecture
  <2>3. Suivi => Suivi'
    BY <2>1, SourceImmobile DEF Suivi, MoisRecu, Quantifie, IdentiteSuit
  <2> QED BY <1>2, <2>1, <2>2, <2>3
<1>4. CASE Source
  <2>1. PlanningNext /\ UNCHANGED copie
    BY <1>4 DEF Source
  <2>2. outbox \subseteq outbox' /\ (croise => croise') /\ (Efface => Efface')
    BY <1>1, <2>1, SourceCroit
  <2>3. ~Efface' => EnLecture'
    BY <1>1, <2>1, <2>2, LectureSource DEF InvPlanning
  <2>4. ~Efface' /\ ~croise' => Suivi'
    BY <1>1, <2>1, <2>2, SuiviSource DEF InvPlanning
  <2> QED BY <1>1, <2>3, <2>4 DEF InvPlanning
<1>5. ASSUME NEW e \in outbox, ContratCree(e) \/ ContratModifie(e) \/ ContratSupprime(e)
      PROVE  InvPlanning'
  <2>1. UNCHANGED planningVars
    BY <1>5 DEF ContratCree, ContratModifie, ContratSupprime
  <2>2. EnLecture => EnLecture'
    BY <1>1, <1>5, LectureContrat
  <2>3. EnLecture /\ Suivi => Suivi'
    BY <1>1, <1>5, SuiviContrat
  <2> QED BY <1>2, <2>1, <2>2, <2>3
<1>6. CASE ProjeterPlanning
  <2>1. UNCHANGED planningVars
    BY <1>6 DEF ProjeterPlanning, LireIdentite, DemanderPrestations, RendreMessage, InscrirePrestations
  <2>2. (EnLecture => EnLecture') /\ (EnLecture /\ Suivi => Suivi')
    BY <1>1, <1>6, SuiviPlanning
  <2> QED BY <1>2, <2>1, <2>2
<1>7. CASE EffacerFoyer
  <2>1. Efface /\ UNCHANGED planningVars
    BY <1>7 DEF EffacerFoyer
  <2>2. Efface'
    BY <2>1, SourceImmobile DEF Efface
  <2> QED BY <1>1, <2>2 DEF InvPlanning
<1> QED BY <1>3, <1>4, <1>5, <1>6, <1>7 DEF Next, ProjeterContrat

\* Everything was applied: the copy is the contract.
LEMMA FidelePlanning == InvPlanning => ProjectionFidele
<1> SUFFICES ASSUME InvPlanning, Applique, ~Efface, ~croise, ~desordre
             PROVE  IdentiteFidele /\ MoisFidele
  BY DEF ProjectionFidele
<1>1. /\ Types /\ EnLecture /\ DatesPropres /\ Emis /\ MoisRecu /\ Quantifie /\ IdentiteSuit
  BY DEF InvPlanning, Inv, Suivi
<1>2. Etats \subseteq tFaits /\ (contrat # Aucun => outbox = tFaits)
  BY <1>1, EnOrdre DEF Applique, Etats
<1>3. CASE contrat = Aucun
  <2>1. tContrat = Aucun
    <3>1. CASE outbox = {}
      BY <1>1, <3>1 DEF IdentiteSuit, Etats
    <3>2. CASE Fins # {}
      BY <1>1, <1>2, <3>2, EnOrdre DEF IdentiteSuit
    <3> QED BY <1>1, <1>3, <3>1, <3>2 DEF Emis
  <2>2. tMois = Aucun /\ planning = Aucun
    BY <1>1, <1>3, <2>1 DEF EnLecture, Emis
  <2> QED BY <1>3, <2>1, <2>2 DEF IdentiteFidele, MoisFidele
<1>4. CASE contrat # Aucun
  <2>1. outbox = tFaits /\ Fins = {} /\ Etats \cap tFaits = Etats
    BY <1>1, <1>2, <1>4 DEF Emis
  <2>2. PICK e \in Etats : e.prenom = contrat.prenom /\ \A f \in Etats : f.le <= e.le
    BY <1>1, <1>4 DEF Emis
  <2>3. tContrat # Aucun
    BY <1>1, <2>1, <2>2 DEF IdentiteSuit
  <2>4. PICK g \in Etats : g.prenom = tContrat.prenom /\ \A f \in Etats : f.le <= g.le
    BY <1>1, <2>1, <2>3 DEF IdentiteSuit
  <2>5. e = g
    <3>1. e.le <= g.le /\ g.le <= e.le /\ e.le \in Nat /\ g.le \in Nat /\ e \in outbox /\ g \in outbox
      BY <1>1, <2>2, <2>4, EnOrdre
    <3>2. e.le = g.le
      BY <3>1
    <3> QED BY <1>1, <3>1, <3>2 DEF DatesPropres
  <2>6. IdentiteFidele
    BY <1>4, <2>2, <2>3, <2>4, <2>5 DEF IdentiteFidele
  <2>7. ASSUME planning # Aucun
        PROVE  /\ tMois # Aucun /\ tMois.prenom = contrat.prenom
               /\ ~perime => tMois.quantites = Courantes
    <3>1. Plannings # {} /\ Plannings \cap tFaits = Plannings /\ Fins \cap tFaits = {}
      BY <1>1, <2>1, <2>7, EnOrdre DEF Emis
    <3>2. tMois # Aucun /\ \A p \in Plannings : p.le <= tMois.le
      BY <1>1, <3>1 DEF MoisRecu
    <3>3. tMois.prenom = contrat.prenom
      BY <1>1, <2>2, <2>4, <2>5, <3>2 DEF IdentiteSuit
    <3>4. ~perime => tMois.quantites = Courantes
      BY <1>1, <2>7, <3>2 DEF Quantifie, AJour
    <3> QED BY <3>2, <3>3, <3>4
  <2>8. MoisFidele
    BY <1>4, <2>7 DEF MoisFidele, Courantes
  <2> QED BY <2>6, <2>8
<1> QED BY <1>3, <1>4

\* When everything was applied svc-tarification has the contract and the month
\* of svc-planification, in any order of delivery and with any failures, but
\* for the two races that ProjectionFidele names.
THEOREM PlanningFidele == Spec => []ProjectionFidele
  BY InvPlanningInit, InvPlanningNext, FidelePlanning, PTL DEF Spec

----------------------------------------------------------------------------
(* Versions (depuisSuite).                                                 *)

\* The version that takes effect on d is in force on day j.
EnForce(versions, d, j) ==
  d <= j /\ (FinDeVersion(versions, d) = Rien \/ j <= FinDeVersion(versions, d))

\* A finite set of integers that is not empty has a least element: the element
\* below which the set of smaller ones is minimal for inclusion.
LEMMA PlusPetit ==
  ASSUME NEW S \in SUBSET Int, S # {}, IsFiniteSet(S)
  PROVE  \E x \in S : \A y \in S : x <= y
<1> DEFINE Sous(x) == {y \in S : y < x}
           T == {Sous(x) : x \in S}
<1>1. T \subseteq FiniteSubsetsOf(S) /\ T # {}
  <2>1. ASSUME NEW x \in S PROVE Sous(x) \in FiniteSubsetsOf(S)
    <3>1. Sous(x) \in SUBSET S
      OBVIOUS
    <3>2. IsFiniteSet(Sous(x))
      BY <3>1, FS_Subset
    <3> QED BY <3>1, <3>2 DEF FiniteSubsetsOf
  <2> HIDE DEF Sous
  <2>2. T # {}
    OBVIOUS
  <2> QED BY <2>1, <2>2
<1>2. PICK t \in T : \A u \in T : ~(<<u, t>> \in StrictSubsetOrdering(S))
  BY <1>1, FS_StrictSubsetOrderingWellFounded, WFMin
<1>3. PICK x \in S : t = Sous(x)
  BY <1>2
<1>4. ASSUME NEW y \in S, y < x PROVE FALSE
  <2>1. Sous(y) \in T /\ Sous(y) \subseteq Sous(x) /\ y \in Sous(x) /\ y \notin Sous(y)
    <3>1. x \in Int /\ y \in Int
      OBVIOUS
    <3>2. \A z \in S : z < y => z < x
      BY <1>4, <3>1
    <3>3. Sous(y) \subseteq Sous(x) /\ y \in Sous(x) /\ y \notin Sous(y)
      <4>1. Sous(y) \subseteq Sous(x)
        BY <3>2
      <4>2. y \in Sous(x)
        BY <1>4
      <4>3. y \notin Sous(y)
        BY <3>1
      <4> QED BY <4>1, <4>2, <4>3
    <3>4. Sous(y) \in T
      <4> HIDE DEF Sous
      <4> QED OBVIOUS
    <3> QED BY <3>3, <3>4
  <2>2. <<Sous(y), Sous(x)>> \in StrictSubsetOrdering(S)
    BY <2>1 DEF StrictSubsetOrdering
  <2> QED BY <1>2, <1>3, <2>1, <2>2
<1> QED BY <1>4

LEMMA MinDEntiers ==
  ASSUME NEW S \in SUBSET Int, S # {}, IsFiniteSet(S)
  PROVE  Min(S) \in S /\ \A y \in S : Min(S) <= y
BY PlusPetit DEF Min

\* It also has a greatest one.
LEMMA PlusGrand ==
  ASSUME NEW S \in SUBSET Int, S # {}, IsFiniteSet(S)
  PROVE  \E x \in S : \A y \in S : y <= x
<1> DEFINE T == {-x : x \in S}
<1>1. T \in SUBSET Int /\ T # {}
  <2>1. PICK x \in S : TRUE
    OBVIOUS
  <2>2. -x \in T
    BY <2>1
  <2>3. \A y \in S : -y \in Int
    OBVIOUS
  <2> QED BY <2>2, <2>3
<1>2. IsFiniteSet(T)
  <2> DEFINE f == [x \in S |-> -x]
  <2>1. f \in Surjection(S, T)
    BY DEF Surjection
  <2> QED BY <2>1, FS_Surjection
<1>3. PICK t \in T : \A u \in T : t <= u
  BY <1>1, <1>2, PlusPetit
<1>4. PICK x \in S : t = -x
  BY <1>3
<1>5. \A y \in S : -x <= -y
  BY <1>3, <1>4
<1> QED BY <1>5

LEMMA FinAvantLaSuivante ==
  ASSUME NEW versions, DOMAIN versions \in SUBSET Int, IsFiniteSet(DOMAIN versions),
         NEW d \in DOMAIN versions, NEW e \in DOMAIN versions, d < e
  PROVE  FinDeVersion(versions, d) \in Int /\ FinDeVersion(versions, d) < e
<1> DEFINE apres == {f \in DOMAIN versions : f > d}
<1>1. apres \in SUBSET Int /\ e \in apres /\ IsFiniteSet(apres)
  BY FS_Subset
<1>2. Min(apres) \in Int /\ Min(apres) <= e
  BY <1>1, MinDEntiers
<1>3. FinDeVersion(versions, d) = Min(apres) - 1
  BY <1>1 DEF FinDeVersion
<1> QED BY <1>1, <1>2, <1>3

\* On each day from the first date of effect on, one version of the contract is
\* in force, and only one: the last that took effect (depuisSuite, which
\* construireSegments cuts at the bounds of the month and of the contract).
THEOREM UneVersionParJour ==
  ASSUME NEW versions, DOMAIN versions \in SUBSET Int, IsFiniteSet(DOMAIN versions),
         NEW j \in Int, \E d \in DOMAIN versions : d <= j
  PROVE  \E d \in DOMAIN versions :
           /\ EnForce(versions, d, j)
           /\ \A e \in DOMAIN versions : EnForce(versions, e, j) => e = d
           /\ \A e \in DOMAIN versions : e <= j => e <= d
<1> DEFINE avant == {d \in DOMAIN versions : d <= j}
<1>1. PICK d \in avant : \A e \in avant : e <= d
  <2>1. avant \in SUBSET Int /\ avant # {} /\ IsFiniteSet(avant)
    BY FS_Subset
  <2> QED BY <2>1, PlusGrand
<1>2. EnForce(versions, d, j)
  <2> DEFINE apres == {e \in DOMAIN versions : e > d}
  <2>1. CASE apres = {}
    BY <1>1, <2>1 DEF EnForce, FinDeVersion
  <2>2. CASE apres # {}
    <3>1. Min(apres) \in apres
      <4>1. apres \in SUBSET Int /\ IsFiniteSet(apres)
        BY FS_Subset
      <4> QED BY <2>2, <4>1, MinDEntiers
    <3>2. j < Min(apres) /\ Min(apres) \in Int
      BY <1>1, <3>1
    <3>3. FinDeVersion(versions, d) = Min(apres) - 1
      BY <2>2 DEF FinDeVersion
    <3> QED BY <1>1, <3>2, <3>3 DEF EnForce
  <2> QED BY <2>1, <2>2
<1>3. ASSUME NEW e \in DOMAIN versions, EnForce(versions, e, j)
      PROVE  e = d
  <2>1. e <= d
    BY <1>1, <1>3 DEF EnForce
  <2>2. ~(e < d)
    <3>1. SUFFICES ASSUME e < d PROVE FALSE
      OBVIOUS
    <3>2. FinDeVersion(versions, e) \in Int /\ FinDeVersion(versions, e) < d
      BY <1>1, <3>1, FinAvantLaSuivante
    <3>3. FinDeVersion(versions, e) # Rien
      BY <3>2, ConstantesPrestations
    <3>4. j <= FinDeVersion(versions, e)
      BY <1>3, <3>3 DEF EnForce
    <3> QED BY <1>1, <3>2, <3>4
  <2>3. e \in Int /\ d \in Int
    BY <1>1
  <2> QED BY <2>1, <2>2, <2>3
<1> QED BY <1>1, <1>2, <1>3

----------------------------------------------------------------------------
(* Sums over a finite set, as MapThenSumSet computes them: the elements in *)
(* the order of CHOOSE.                                                    *)

SommeSur(w, S) == MapThenSumSet(LAMBDA x : w[x], S)
Elu(s)      == CHOOSE x \in s : TRUE

\* Among sets of elements of S there is one that includes no other.
LEMMA PlusPetitEnsemble ==
  ASSUME NEW S, IsFiniteSet(S), NEW B \in SUBSET (SUBSET S), B # {}
  PROVE  \E A \in B : \A C \in B : C \subseteq A => C = A
<1>1. B \subseteq FiniteSubsetsOf(S)
  BY FS_Subset DEF FiniteSubsetsOf
<1>2. PICK A \in B : \A C \in B : ~(<<C, A>> \in StrictSubsetOrdering(S))
  BY <1>1, FS_StrictSubsetOrderingWellFounded, WFMin
<1>3. ASSUME NEW C \in B, C \subseteq A, C # A PROVE FALSE
  <2>1. <<C, A>> \in StrictSubsetOrdering(S)
    BY <1>3 DEF StrictSubsetOrdering
  <2> QED BY <1>2, <2>1
<1> QED BY <1>3

\* A natural number that is the least of its kind.
LEMMA PlusPetitNaturel ==
  ASSUME NEW T \in SUBSET Nat, T # {}
  PROVE  \E n \in T : \A k \in T : n <= k
<1>1. PICK t \in T : TRUE
  OBVIOUS
<1>2. T \cap (0 .. t) \in SUBSET Int /\ T \cap (0 .. t) # {} /\ IsFiniteSet(T \cap (0 .. t))
  <2>1. IsFiniteSet(0 .. t)
    BY FS_Interval
  <2> QED BY <2>1, FS_Subset
<1>3. PICK n \in T \cap (0 .. t) : \A k \in T \cap (0 .. t) : n <= k
  BY <1>2, PlusPetit
<1> QED BY <1>3

\* The recursive function of the fold, and its domain cut by cardinality.
Couche(S, n) == {s \in SUBSET S : Cardinality(s) <= n}
Calcule(w, D, f) ==
  f = [s \in D |-> IF s = {} THEN 0 ELSE w[Elu(s)] + f[s \ {Elu(s)}]]
Pas(w, S) == CHOOSE f : Calcule(w, SUBSET S, f)

LEMMA SommeParPas == ASSUME NEW w, NEW S PROVE SommeSur(w, S) = Pas(w, S)[S]
BY DEF SommeSur, Pas, Calcule, Elu, MapThenSumSet, MapThenFoldSet

LEMMA EluDans == ASSUME NEW s, s # {} PROVE Elu(s) \in s
BY DEF Elu

LEMMA CarteSansElu ==
  ASSUME NEW s, IsFiniteSet(s), s # {}
  PROVE  Cardinality(s \ {Elu(s)}) = Cardinality(s) - 1 /\ Cardinality(s) \in Nat
BY EluDans, FS_RemoveElement, FS_CardinalityType

\* The recursion of the fold has a solution: layer by layer, by cardinality.
LEMMA CoucheCalculee ==
  ASSUME NEW w, NEW S, IsFiniteSet(S), NEW n \in Nat
  PROVE  \E f : Calcule(w, Couche(S, n), f)
<1> DEFINE T == {k \in Nat : ~ \E f : Calcule(w, Couche(S, k), f)}
<1>1. SUFFICES ASSUME T # {} PROVE FALSE
  OBVIOUS
<1>2. PICK k \in T : \A i \in T : k <= i
  <2>1. T \in SUBSET Nat
    OBVIOUS
  <2> HIDE DEF T
  <2> QED BY <1>1, <2>1, PlusPetitNaturel
<1>3. \A s \in SUBSET S : IsFiniteSet(s) /\ Cardinality(s) \in Nat
  BY FS_Subset, FS_CardinalityType
<1>4. CASE k = 0
  <2>1. \A s \in Couche(S, 0) : s = {}
    <3>1. \A s \in Couche(S, 0) : s \in SUBSET S /\ Cardinality(s) = 0
      BY <1>3 DEF Couche
    <3> QED BY <1>3, <3>1, FS_EmptySet
  <2> DEFINE f == [s \in Couche(S, 0) |-> 0]
  <2>2. Calcule(w, Couche(S, 0), f)
    BY <2>1 DEF Calcule
  <2> QED BY <1>2, <1>4, <2>2
<1>5. CASE k # 0
  <2>1. k - 1 \in Nat /\ k - 1 \notin T
    BY <1>2, <1>5
  <2>2. PICK g : Calcule(w, Couche(S, k - 1), g)
    BY <2>1
  <2> DEFINE D == Couche(S, k)
             f == [s \in D |-> IF s = {} THEN 0 ELSE w[Elu(s)] + g[s \ {Elu(s)}]]
  <2>3. ASSUME NEW s \in D, s # {}
        PROVE  s \ {Elu(s)} \in Couche(S, k - 1)
    BY <1>3, <2>3, CarteSansElu DEF Couche
  <2>4. Couche(S, k - 1) \subseteq D
    BY <1>3 DEF Couche
  <2>5. ASSUME NEW s \in Couche(S, k - 1) PROVE f[s] = g[s]
    <3>1. s \in D
      BY <2>4
    <3> HIDE DEF D
    <3>2. f[s] = IF s = {} THEN 0 ELSE w[Elu(s)] + g[s \ {Elu(s)}]
      BY <3>1
    <3> HIDE DEF f
    <3>3. g[s] = IF s = {} THEN 0 ELSE w[Elu(s)] + g[s \ {Elu(s)}]
      BY <2>2 DEF Calcule
    <3> QED BY <3>2, <3>3
  <2>6. Calcule(w, D, f)
    <3>1. \A s \in D : s # {} => f[s \ {Elu(s)}] = g[s \ {Elu(s)}]
      BY <2>3, <2>5
    <3> QED BY <3>1 DEF Calcule
  <2>7. \E h : Calcule(w, Couche(S, k), h)
    BY <2>6
  <2> QED BY <1>2, <2>7
<1> QED BY <1>4, <1>5

LEMMA PasCalcule ==
  ASSUME NEW w, NEW S, IsFiniteSet(S)
  PROVE  Calcule(w, SUBSET S, Pas(w, S))
<1>1. Cardinality(S) \in Nat
  BY FS_CardinalityType
<1>2. Couche(S, Cardinality(S)) = SUBSET S
  <2>1. \A T \in SUBSET S : Cardinality(T) <= Cardinality(S)
    BY FS_Subset
  <2> QED BY <2>1 DEF Couche
<1>3. \E f : Calcule(w, SUBSET S, f)
  <2>1. \E f : Calcule(w, Couche(S, Cardinality(S)), f)
    BY <1>1, CoucheCalculee
  <2> QED BY <1>2, <2>1
<1> QED BY <1>3 DEF Pas

\* The value at a set does not depend on the set in which it is computed.
LEMMA PasLocal ==
  ASSUME NEW w, NEW S, IsFiniteSet(S), NEW T \in SUBSET S
  PROVE  Pas(w, S)[T] = Pas(w, T)[T]
<1> DEFINE f == Pas(w, S)
           g == Pas(w, T)
           B == {s \in SUBSET T : f[s] # g[s]}
<1>1. SUFFICES ASSUME B # {} PROVE FALSE
  OBVIOUS
<1>2. IsFiniteSet(T)
  BY FS_Subset
<1>3. PICK A \in B : \A C \in B : C \subseteq A => C = A
  <2>1. B \in SUBSET (SUBSET T)
    OBVIOUS
  <2> HIDE DEF B
  <2> QED BY <1>1, <1>2, <2>1, PlusPetitEnsemble
<1>4. Calcule(w, SUBSET S, f) /\ Calcule(w, SUBSET T, g)
  BY <1>2, PasCalcule
<1> HIDE DEF f, g
<1>5. /\ f[A] = IF A = {} THEN 0 ELSE w[Elu(A)] + f[A \ {Elu(A)}]
      /\ g[A] = IF A = {} THEN 0 ELSE w[Elu(A)] + g[A \ {Elu(A)}]
  <2>1. A \in SUBSET S /\ A \in SUBSET T
    BY <1>3
  <2> QED BY <1>4, <2>1 DEF Calcule
<1>6. A # {}
  BY <1>3, <1>5
<1>7. f[A \ {Elu(A)}] = g[A \ {Elu(A)}]
  BY <1>3, <1>6, EluDans
<1> QED BY <1>3, <1>5, <1>7

LEMMA SommeVide == ASSUME NEW w PROVE SommeSur(w, {}) = 0
<1>1. Calcule(w, SUBSET {}, Pas(w, {}))
  BY FS_EmptySet, PasCalcule
<1>2. {} \in SUBSET {}
  OBVIOUS
<1>3. Pas(w, {})[{}] = 0
  BY <1>1, <1>2 DEF Calcule
<1> QED BY <1>3, SommeParPas

LEMMA SommeSansElu ==
  ASSUME NEW w, NEW S, IsFiniteSet(S), S # {}
  PROVE  SommeSur(w, S) = w[Elu(S)] + SommeSur(w, S \ {Elu(S)})
<1>1. Calcule(w, SUBSET S, Pas(w, S))
  BY PasCalcule
<1>2. S \in SUBSET S /\ S \ {Elu(S)} \in SUBSET S
  OBVIOUS
<1>3. Pas(w, S)[S] = w[Elu(S)] + Pas(w, S)[S \ {Elu(S)}]
  BY <1>1, <1>2 DEF Calcule
<1>4. Pas(w, S)[S \ {Elu(S)}] = Pas(w, S \ {Elu(S)})[S \ {Elu(S)}]
  BY <1>2, PasLocal
<1> QED BY <1>3, <1>4, SommeParPas

LEMMA SommeNaturelle ==
  ASSUME NEW w, NEW S, IsFiniteSet(S), \A x \in S : w[x] \in Nat
  PROVE  SommeSur(w, S) \in Nat
<1> DEFINE B == {s \in SUBSET S : SommeSur(w, s) \notin Nat}
<1>1. SUFFICES ASSUME B # {} PROVE FALSE
  OBVIOUS
<1>2. PICK A \in B : \A C \in B : C \subseteq A => C = A
  <2>1. B \in SUBSET (SUBSET S)
    OBVIOUS
  <2> HIDE DEF B
  <2> QED BY <1>1, <2>1, PlusPetitEnsemble
<1>3. A # {}
  <2>1. SommeSur(w, A) \notin Nat
    BY <1>2
  <2> QED BY <2>1, SommeVide
<1>4. Elu(A) \in A /\ IsFiniteSet(A)
  BY <1>2, <1>3, EluDans, FS_Subset
<1>5. SommeSur(w, A \ {Elu(A)}) \in Nat
  BY <1>2, <1>4
<1>6. SommeSur(w, A) = w[Elu(A)] + SommeSur(w, A \ {Elu(A)})
  BY <1>3, <1>4, SommeSansElu
<1>7. w[Elu(A)] \in Nat
  BY <1>2, <1>4
<1> QED BY <1>2, <1>5, <1>6, <1>7

\* Any element may come first.
LEMMA SommeSans ==
  ASSUME NEW w, NEW S, IsFiniteSet(S), \A x \in S : w[x] \in Nat, NEW x \in S
  PROVE  SommeSur(w, S) = w[x] + SommeSur(w, S \ {x})
<1> DEFINE B == {s \in SUBSET S : \E y \in s : SommeSur(w, s) # w[y] + SommeSur(w, s \ {y})}
<1>1. SUFFICES ASSUME B # {} PROVE FALSE
  OBVIOUS
<1>2. PICK A \in B : \A C \in B : C \subseteq A => C = A
  <2>1. B \in SUBSET (SUBSET S)
    OBVIOUS
  <2> HIDE DEF B
  <2> QED BY <1>1, <2>1, PlusPetitEnsemble
<1>3. PICK y \in A : SommeSur(w, A) # w[y] + SommeSur(w, A \ {y})
  BY <1>2
<1> DEFINE e == Elu(A)
<1>4. e \in A /\ IsFiniteSet(A) /\ A \in SUBSET S
  BY <1>2, <1>3, EluDans, FS_Subset
<1>5. SommeSur(w, A) = w[e] + SommeSur(w, A \ {e})
  BY <1>3, <1>4, SommeSansElu
<1>6. e # y
  BY <1>3, <1>5
<1> HIDE DEF e
<1>7. \A s \in SUBSET A : s # A => \A z \in s : SommeSur(w, s) = w[z] + SommeSur(w, s \ {z})
  <2>1. \A s \in SUBSET A : s # A => s \in SUBSET S /\ s \notin B
    BY <1>2, <1>4
  <2> QED BY <2>1
<1>8. SommeSur(w, A \ {e}) = w[y] + SommeSur(w, (A \ {e}) \ {y})
  BY <1>4, <1>6, <1>7
<1>9. SommeSur(w, A \ {y}) = w[e] + SommeSur(w, (A \ {y}) \ {e})
  BY <1>4, <1>6, <1>7
<1>10. (A \ {y}) \ {e} = (A \ {e}) \ {y}
  OBVIOUS
<1>11. SommeSur(w, (A \ {e}) \ {y}) \in Nat /\ w[e] \in Nat /\ w[y] \in Nat
  <2>1. IsFiniteSet((A \ {e}) \ {y}) /\ (A \ {e}) \ {y} \subseteq S
    BY <1>4, FS_Subset
  <2>2. SommeSur(w, (A \ {e}) \ {y}) \in Nat
    BY <2>1, SommeNaturelle
  <2> QED BY <1>4, <2>2
<1>12. SommeSur(w, A \ {y}) = w[e] + SommeSur(w, (A \ {e}) \ {y})
  BY <1>9, <1>10
<1>13. SommeSur(w, A) = w[y] + SommeSur(w, A \ {y})
  BY <1>5, <1>8, <1>11, <1>12
<1> QED BY <1>3, <1>13

\* The sum of a disjoint union.
LEMMA SommeUnion ==
  ASSUME NEW w, NEW S, NEW T, IsFiniteSet(S), IsFiniteSet(T), S \cap T = {},
         \A x \in S \cup T : w[x] \in Nat
  PROVE  SommeSur(w, S \cup T) = SommeSur(w, S) + SommeSur(w, T)
<1> DEFINE B == {s \in SUBSET S : SommeSur(w, s \cup T) # SommeSur(w, s) + SommeSur(w, T)}
<1>1. SUFFICES ASSUME B # {} PROVE FALSE
  <2>1. S \in SUBSET S
    OBVIOUS
  <2> QED BY <2>1
<1>2. PICK A \in B : \A C \in B : C \subseteq A => C = A
  <2>1. B \in SUBSET (SUBSET S)
    OBVIOUS
  <2> HIDE DEF B
  <2> QED BY <1>1, <2>1, PlusPetitEnsemble
<1>3. SommeSur(w, T) \in Nat
  BY SommeNaturelle
<1>4. A # {}
  <2>1. SUFFICES ASSUME A = {} PROVE FALSE
    OBVIOUS
  <2>2. A \cup T = T /\ SommeSur(w, A) = 0
    BY <2>1, SommeVide
  <2>3. SommeSur(w, A \cup T) # SommeSur(w, A) + SommeSur(w, T)
    BY <1>2
  <2>4. SommeSur(w, A \cup T) = SommeSur(w, T)
    BY <2>2
  <2>5. SommeSur(w, T) # SommeSur(w, A) + SommeSur(w, T)
    BY <2>3, <2>4
  <2> QED BY <1>3, <2>2, <2>5
<1>5. PICK e \in A : TRUE
  BY <1>4
<1>6. IsFiniteSet(A) /\ IsFiniteSet(A \ {e}) /\ IsFiniteSet(A \cup T) /\ e \notin T
  BY <1>2, <1>5, FS_Subset, FS_Union
<1>7. SommeSur(w, A) = w[e] + SommeSur(w, A \ {e})
  BY <1>2, <1>5, <1>6, SommeSans
<1>8. SommeSur(w, A \cup T) = w[e] + SommeSur(w, (A \ {e}) \cup T)
  <2>1. (A \cup T) \ {e} = (A \ {e}) \cup T
    BY <1>6
  <2>2. \A x \in A \cup T : w[x] \in Nat
    BY <1>2
  <2>3. SommeSur(w, A \cup T) = w[e] + SommeSur(w, (A \cup T) \ {e})
    BY <1>5, <1>6, <2>2, SommeSans
  <2> QED BY <2>1, <2>3
<1>9. SommeSur(w, (A \ {e}) \cup T) = SommeSur(w, A \ {e}) + SommeSur(w, T)
  BY <1>2, <1>5
<1>10. w[e] \in Nat /\ SommeSur(w, A \ {e}) \in Nat
  <2>1. \A x \in A \ {e} : w[x] \in Nat
    BY <1>2
  <2>2. SommeSur(w, A \ {e}) \in Nat
    BY <1>6, <2>1, SommeNaturelle
  <2> QED BY <1>2, <1>5, <2>2
<1> QED BY <1>2, <1>3, <1>7, <1>8, <1>9, <1>10

\* A sum depends on the values over its set only.
LEMMA SommeEgale ==
  ASSUME NEW v, NEW w, NEW S, IsFiniteSet(S), \A x \in S : v[x] = w[x]
  PROVE  SommeSur(v, S) = SommeSur(w, S)
<1> DEFINE B == {s \in SUBSET S : SommeSur(v, s) # SommeSur(w, s)}
<1>1. SUFFICES ASSUME B # {} PROVE FALSE
  OBVIOUS
<1>2. PICK A \in B : \A C \in B : C \subseteq A => C = A
  <2>1. B \in SUBSET (SUBSET S)
    OBVIOUS
  <2> HIDE DEF B
  <2> QED BY <1>1, <2>1, PlusPetitEnsemble
<1>3. A # {}
  BY <1>2, SommeVide
<1>4. Elu(A) \in A /\ IsFiniteSet(A)
  BY <1>2, <1>3, EluDans, FS_Subset
<1>5. SommeSur(v, A \ {Elu(A)}) = SommeSur(w, A \ {Elu(A)})
  BY <1>2, <1>4
<1>6. /\ SommeSur(v, A) = v[Elu(A)] + SommeSur(v, A \ {Elu(A)})
      /\ SommeSur(w, A) = w[Elu(A)] + SommeSur(w, A \ {Elu(A)})
  BY <1>3, <1>4, SommeSansElu
<1>7. v[Elu(A)] = w[Elu(A)]
  BY <1>2, <1>4
<1> QED BY <1>2, <1>5, <1>6, <1>7

LEMMA SommeCroissante ==
  ASSUME NEW v, NEW w, NEW S, IsFiniteSet(S),
         \A x \in S : v[x] \in Nat /\ w[x] \in Nat /\ v[x] <= w[x]
  PROVE  SommeSur(v, S) <= SommeSur(w, S)
<1> DEFINE B == {s \in SUBSET S : ~(SommeSur(v, s) <= SommeSur(w, s))}
<1>1. SUFFICES ASSUME B # {} PROVE FALSE
  OBVIOUS
<1>2. PICK A \in B : \A C \in B : C \subseteq A => C = A
  <2>1. B \in SUBSET (SUBSET S)
    OBVIOUS
  <2> HIDE DEF B
  <2> QED BY <1>1, <2>1, PlusPetitEnsemble
<1>3. A # {}
  <2>1. SUFFICES ASSUME A = {} PROVE FALSE
    OBVIOUS
  <2>2. SommeSur(v, A) = 0 /\ SommeSur(w, A) = 0
    BY <2>1, SommeVide
  <2>3. ~(SommeSur(v, A) <= SommeSur(w, A))
    BY <1>2
  <2> QED BY <2>2, <2>3
<1>4. Elu(A) \in A /\ IsFiniteSet(A) /\ IsFiniteSet(A \ {Elu(A)}) /\ A \in SUBSET S
  BY <1>2, <1>3, EluDans, FS_Subset
<1>5. SommeSur(v, A \ {Elu(A)}) <= SommeSur(w, A \ {Elu(A)})
  BY <1>2, <1>4
<1>6. /\ SommeSur(v, A) = v[Elu(A)] + SommeSur(v, A \ {Elu(A)})
      /\ SommeSur(w, A) = w[Elu(A)] + SommeSur(w, A \ {Elu(A)})
  BY <1>3, <1>4, SommeSansElu
<1>7. /\ v[Elu(A)] \in Nat /\ w[Elu(A)] \in Nat /\ v[Elu(A)] <= w[Elu(A)]
      /\ SommeSur(v, A \ {Elu(A)}) \in Nat /\ SommeSur(w, A \ {Elu(A)}) \in Nat
  <2>1. \A x \in A \ {Elu(A)} : v[x] \in Nat /\ w[x] \in Nat
    BY <1>4
  <2>2. SommeSur(v, A \ {Elu(A)}) \in Nat /\ SommeSur(w, A \ {Elu(A)}) \in Nat
    BY <1>4, <2>1, SommeNaturelle
  <2> QED BY <1>4, <2>2
<1>8. SommeSur(v, A) <= SommeSur(w, A)
  BY <1>5, <1>6, <1>7
<1> QED BY <1>2, <1>8

\* The sum of a set is the sum over the parts that share it.
LEMMA SommeParParts ==
  ASSUME NEW w, NEW I, IsFiniteSet(I), NEW P,
         \A i \in I : IsFiniteSet(P[i]) /\ \A x \in P[i] : w[x] \in Nat,
         \A i, k \in I : i # k => P[i] \cap P[k] = {}
  PROVE  /\ IsFiniteSet(UNION {P[i] : i \in I})
         /\ SommeSur([i \in I |-> SommeSur(w, P[i])], I) = SommeSur(w, UNION {P[i] : i \in I})
<1> DEFINE v    == [i \in I |-> SommeSur(w, P[i])]
           U(s) == UNION {P[i] : i \in s}
           B    == {s \in SUBSET I : ~(IsFiniteSet(U(s)) /\ SommeSur(v, s) = SommeSur(w, U(s)))}
<1>1. SUFFICES ASSUME B # {} PROVE FALSE
  <2>1. I \in SUBSET I
    OBVIOUS
  <2> HIDE DEF v, U
  <2>2. I \notin B => IsFiniteSet(U(I)) /\ SommeSur(v, I) = SommeSur(w, U(I))
    BY <2>1
  <2> HIDE DEF B
  <2>3. SUFFICES IsFiniteSet(U(I)) /\ SommeSur(v, I) = SommeSur(w, U(I))
    BY DEF v, U
  <2> QED BY <2>2
<1>2. PICK A \in B : \A C \in B : C \subseteq A => C = A
  <2>1. B \in SUBSET (SUBSET I)
    OBVIOUS
  <2> HIDE DEF B
  <2> QED BY <1>1, <2>1, PlusPetitEnsemble
<1>3. A # {}
  <2>1. SUFFICES ASSUME A = {} PROVE FALSE
    OBVIOUS
  <2>2. U(A) = {}
    BY <2>1
  <2>3. IsFiniteSet(U(A)) /\ SommeSur(v, A) = SommeSur(w, U(A))
    <3> HIDE DEF U, v
    <3> QED BY <2>1, <2>2, FS_EmptySet, SommeVide
  <2> HIDE DEF U, v
  <2> QED BY <1>2, <2>3
<1>4. PICK e \in A : TRUE
  BY <1>3
<1>5. A \in SUBSET I /\ IsFiniteSet(A) /\ A \ {e} \in SUBSET I
  BY <1>2, FS_Subset
<1>6. IsFiniteSet(U(A \ {e})) /\ SommeSur(v, A \ {e}) = SommeSur(w, U(A \ {e}))
  <2>1. A \ {e} \notin B
    BY <1>2, <1>4
  <2> HIDE DEF U, v
  <2> QED BY <1>5, <2>1
<1>7. U(A) = U(A \ {e}) \cup P[e] /\ U(A \ {e}) \cap P[e] = {}
  <2>1. \A x \in U(A) : x \in U(A \ {e}) \/ x \in P[e]
    OBVIOUS
  <2>2. \A x \in U(A \ {e}) : x \in U(A)
    OBVIOUS
  <2>3. \A x \in P[e] : x \in U(A)
    BY <1>4
  <2>4. \A x \in U(A \ {e}) : x \notin P[e]
    BY <1>4, <1>5
  <2> HIDE DEF U
  <2> QED BY <2>1, <2>2, <2>3, <2>4
<1>8. \A x \in U(A \ {e}) \cup P[e] : w[x] \in Nat
  BY <1>4, <1>5
<1>9. IsFiniteSet(P[e])
  BY <1>4, <1>5
<1>10. SommeSur(w, U(A)) = SommeSur(w, U(A \ {e})) + SommeSur(w, P[e])
  <2> HIDE DEF U
  <2>1. SommeSur(w, U(A \ {e}) \cup P[e]) = SommeSur(w, U(A \ {e})) + SommeSur(w, P[e])
    BY <1>6, <1>7, <1>8, <1>9, SommeUnion
  <2> QED BY <1>7, <2>1
<1>11. IsFiniteSet(U(A))
  <2> HIDE DEF U
  <2>1. IsFiniteSet(U(A \ {e}) \cup P[e])
    BY <1>6, <1>9, FS_Union
  <2> QED BY <1>7, <2>1
<1>12. \A i \in I : v[i] = SommeSur(w, P[i]) /\ v[i] \in Nat
  BY SommeNaturelle
<1>13. SommeSur(v, A) = v[e] + SommeSur(v, A \ {e})
  <2>1. \A i \in A : v[i] \in Nat
    BY <1>5, <1>12
  <2> HIDE DEF v
  <2> QED BY <1>4, <1>5, <2>1, SommeSans
<1>14. SommeSur(w, U(A \ {e})) \in Nat /\ SommeSur(w, P[e]) \in Nat
  <2>1. \A x \in U(A \ {e}) : w[x] \in Nat
    BY <1>8
  <2>2. \A x \in P[e] : w[x] \in Nat
    BY <1>8
  <2> HIDE DEF U
  <2> QED BY <1>6, <1>9, <2>1, <2>2, SommeNaturelle
<1>15. v[e] = SommeSur(w, P[e])
  BY <1>4, <1>5, <1>12
<1> HIDE DEF U, v
<1>16. SommeSur(v, A) = SommeSur(w, U(A))
  BY <1>6, <1>10, <1>13, <1>14, <1>15
<1> QED BY <1>2, <1>11, <1>16

\* Counting is a sum, too.
LEMMA SommeDeUns ==
  ASSUME NEW w, NEW S, IsFiniteSet(S), \A x \in S : w[x] = 1
  PROVE  SommeSur(w, S) = Cardinality(S)
<1> DEFINE B == {s \in SUBSET S : SommeSur(w, s) # Cardinality(s)}
<1>1. SUFFICES ASSUME B # {} PROVE FALSE
  OBVIOUS
<1>2. PICK A \in B : \A C \in B : C \subseteq A => C = A
  <2>1. B \in SUBSET (SUBSET S)
    OBVIOUS
  <2> HIDE DEF B
  <2> QED BY <1>1, <2>1, PlusPetitEnsemble
<1>3. A # {}
  <2>1. Cardinality({}) = 0
    BY FS_EmptySet
  <2> QED BY <1>2, <2>1, SommeVide
<1>4. Elu(A) \in A /\ IsFiniteSet(A) /\ A \in SUBSET S
  BY <1>2, <1>3, EluDans, FS_Subset
<1>5. SommeSur(w, A \ {Elu(A)}) = Cardinality(A \ {Elu(A)})
  BY <1>2, <1>4
<1>6. SommeSur(w, A) = w[Elu(A)] + SommeSur(w, A \ {Elu(A)})
  BY <1>3, <1>4, SommeSansElu
<1>7. Cardinality(A \ {Elu(A)}) = Cardinality(A) - 1 /\ Cardinality(A) \in Nat
  BY <1>3, <1>4, CarteSansElu
<1>8. w[Elu(A)] = 1
  BY <1>4
<1>9. SommeSur(w, A) = Cardinality(A)
  BY <1>5, <1>6, <1>7, <1>8
<1> QED BY <1>2, <1>9

LEMMA CompteParParts ==
  ASSUME NEW I, IsFiniteSet(I), NEW P, \A i \in I : IsFiniteSet(P[i]),
         \A i, k \in I : i # k => P[i] \cap P[k] = {}
  PROVE  SommeSur([i \in I |-> Cardinality(P[i])], I) = Cardinality(UNION {P[i] : i \in I})
<1> DEFINE U == UNION {P[i] : i \in I}
           w == [x \in U |-> 1]
           v == [i \in I |-> SommeSur(w, P[i])]
           c == [i \in I |-> Cardinality(P[i])]
<1>1. \A i \in I : \A x \in P[i] : x \in U /\ w[x] = 1
  OBVIOUS
<1>2. \A x \in U : w[x] = 1
  OBVIOUS
<1> HIDE DEF w
<1>3. IsFiniteSet(U) /\ SommeSur(v, I) = SommeSur(w, U)
  <2>1. \A i \in I : IsFiniteSet(P[i]) /\ \A x \in P[i] : w[x] \in Nat
    BY <1>1
  <2> QED BY <2>1, SommeParParts
<1>4. SommeSur(w, U) = Cardinality(U)
  <2> HIDE DEF U
  <2> QED BY <1>2, <1>3, SommeDeUns
<1>5. \A i \in I : v[i] = c[i]
  <2> SUFFICES ASSUME NEW i \in I PROVE SommeSur(w, P[i]) = Cardinality(P[i])
    OBVIOUS
  <2> QED BY <1>1, SommeDeUns
<1>6. SommeSur(v, I) = SommeSur(c, I)
  <2> HIDE DEF v, c
  <2> QED BY <1>5, SommeEgale
<1> QED BY <1>3, <1>4, <1>6

LEMMA SommeNulle ==
  ASSUME NEW w, NEW S, IsFiniteSet(S), \A x \in S : w[x] = 0
  PROVE  SommeSur(w, S) = 0
<1> DEFINE B == {s \in SUBSET S : SommeSur(w, s) # 0}
<1>1. SUFFICES ASSUME B # {} PROVE FALSE
  OBVIOUS
<1>2. PICK A \in B : \A C \in B : C \subseteq A => C = A
  <2>1. B \in SUBSET (SUBSET S)
    OBVIOUS
  <2> HIDE DEF B
  <2> QED BY <1>1, <2>1, PlusPetitEnsemble
<1>3. A # {}
  <2>1. SommeSur(w, A) # 0
    BY <1>2
  <2> QED BY <2>1, SommeVide
<1>4. A \in SUBSET S /\ IsFiniteSet(A) /\ Elu(A) \in A
  BY <1>2, <1>3, EluDans, FS_Subset
<1>5. SommeSur(w, A \ {Elu(A)}) = 0
  BY <1>2, <1>4
<1>6. SommeSur(w, A) = w[Elu(A)] + SommeSur(w, A \ {Elu(A)})
  BY <1>3, <1>4, SommeSansElu
<1> QED BY <1>2, <1>4, <1>5, <1>6

\* One term only is not zero.
LEMMA SommeSeule ==
  ASSUME NEW w, NEW S, IsFiniteSet(S), NEW k \in S, w[k] \in Nat,
         \A x \in S \ {k} : w[x] = 0
  PROVE  SommeSur(w, S) = w[k]
<1>1. \A x \in S : w[x] \in Nat
  OBVIOUS
<1>2. SommeSur(w, S) = w[k] + SommeSur(w, S \ {k})
  BY <1>1, SommeSans
<1>3. SommeSur(w, S \ {k}) = 0
  BY SommeNulle, FS_Subset
<1> QED BY <1>2, <1>3

\* The sum of two weights.
LEMMA SommePlus ==
  ASSUME NEW u, NEW v, NEW w, NEW S, IsFiniteSet(S),
         \A x \in S : u[x] \in Nat /\ v[x] \in Nat /\ w[x] = u[x] + v[x]
  PROVE  SommeSur(w, S) = SommeSur(u, S) + SommeSur(v, S)
<1> DEFINE B == {s \in SUBSET S : SommeSur(w, s) # SommeSur(u, s) + SommeSur(v, s)}
<1>1. SUFFICES ASSUME B # {} PROVE FALSE
  OBVIOUS
<1>2. PICK A \in B : \A C \in B : C \subseteq A => C = A
  <2>1. B \in SUBSET (SUBSET S)
    OBVIOUS
  <2> HIDE DEF B
  <2> QED BY <1>1, <2>1, PlusPetitEnsemble
<1>3. A # {}
  <2>1. SUFFICES ASSUME A = {} PROVE FALSE
    OBVIOUS
  <2>2. SommeSur(u, A) = 0 /\ SommeSur(v, A) = 0 /\ SommeSur(w, A) = 0
    BY <2>1, SommeVide
  <2>3. SommeSur(w, A) # SommeSur(u, A) + SommeSur(v, A)
    BY <1>2
  <2> QED BY <2>2, <2>3
<1> DEFINE e == Elu(A)
<1>4. A \in SUBSET S /\ IsFiniteSet(A) /\ e \in A
  BY <1>2, <1>3, EluDans, FS_Subset
<1>5. /\ SommeSur(w, A) = w[e] + SommeSur(w, A \ {e})
      /\ SommeSur(u, A) = u[e] + SommeSur(u, A \ {e})
      /\ SommeSur(v, A) = v[e] + SommeSur(v, A \ {e})
  BY <1>3, <1>4, SommeSansElu
<1> HIDE DEF e
<1>6. SommeSur(w, A \ {e}) = SommeSur(u, A \ {e}) + SommeSur(v, A \ {e})
  BY <1>2, <1>4
<1>7. SommeSur(u, A \ {e}) \in Nat /\ SommeSur(v, A \ {e}) \in Nat
  <2>1. IsFiniteSet(A \ {e}) /\ \A x \in A \ {e} : u[x] \in Nat /\ v[x] \in Nat
    BY <1>4, FS_Subset
  <2> QED BY <2>1, SommeNaturelle
<1>8. u[e] \in Nat /\ v[e] \in Nat /\ w[e] = u[e] + v[e]
  BY <1>4
<1>9. SommeSur(w, A) = SommeSur(u, A) + SommeSur(v, A)
  BY <1>5, <1>6, <1>7, <1>8
<1> QED BY <1>2, <1>9

Reunion(P, I) == UNION {P[i] : i \in I}

LEMMA SommeReunion ==
  ASSUME NEW w, NEW I, IsFiniteSet(I), NEW P,
         \A i \in I : IsFiniteSet(P[i]) /\ \A x \in P[i] : w[x] \in Nat,
         \A i, h \in I : i # h => P[i] \cap P[h] = {},
         NEW v, \A i \in I : v[i] = SommeSur(w, P[i])
  PROVE  SommeSur(v, I) = SommeSur(w, Reunion(P, I))
<1> DEFINE u == [i \in I |-> SommeSur(w, P[i])]
<1>1. IsFiniteSet(UNION {P[i] : i \in I}) /\ SommeSur(u, I) = SommeSur(w, UNION {P[i] : i \in I})
  BY SommeParParts
<1>2. \A i \in I : v[i] = u[i]
  OBVIOUS
<1> HIDE DEF u
<1>3. SommeSur(v, I) = SommeSur(u, I)
  BY <1>2, SommeEgale
<1> QED BY <1>1, <1>3 DEF Reunion

\* A sum by parts, as it is used: the parts make X, v has the sum of each.
LEMMA SommeDesParts ==
  ASSUME NEW w, NEW I, IsFiniteSet(I), NEW X, IsFiniteSet(X), \A x \in X : w[x] \in Nat,
         NEW P, \A i \in I : P[i] \in SUBSET X,
         \A x \in X : \E i \in I : x \in P[i] /\ \A h \in I : x \in P[h] => h = i,
         NEW v, \A i \in I : v[i] = SommeSur(w, P[i])
  PROVE  SommeSur(v, I) = SommeSur(w, X) /\ \A i \in I : v[i] \in Nat
<1>1. Reunion(P, I) = X
  BY DEF Reunion
<1>2. \A i, h \in I : i # h => P[i] \cap P[h] = {}
  OBVIOUS
<1>3. \A i \in I : IsFiniteSet(P[i]) /\ \A x \in P[i] : w[x] \in Nat
  BY FS_Subset
<1>4. SommeSur(v, I) = SommeSur(w, Reunion(P, I))
  BY <1>2, <1>3, SommeReunion
<1>5. \A i \in I : SommeSur(w, P[i]) \in Nat
  BY <1>3, SommeNaturelle
<1> QED BY <1>1, <1>4, <1>5

LEMMA CompteDesParts ==
  ASSUME NEW I, IsFiniteSet(I), NEW X, IsFiniteSet(X),
         NEW P, \A i \in I : P[i] \in SUBSET X,
         \A x \in X : \E i \in I : x \in P[i] /\ \A h \in I : x \in P[h] => h = i,
         NEW v, \A i \in I : v[i] = Cardinality(P[i])
  PROVE  SommeSur(v, I) = Cardinality(X) /\ \A i \in I : v[i] \in Nat
<1>1. UNION {P[i] : i \in I} = X
  OBVIOUS
<1>2. \A i, h \in I : i # h => P[i] \cap P[h] = {}
  OBVIOUS
<1>3. \A i \in I : IsFiniteSet(P[i])
  BY FS_Subset
<1> DEFINE u == [i \in I |-> Cardinality(P[i])]
<1>4. SommeSur(u, I) = Cardinality(UNION {P[i] : i \in I})
  BY <1>2, <1>3, CompteParParts
<1>5. \A i \in I : v[i] = u[i] /\ u[i] = Cardinality(P[i])
  OBVIOUS
<1> HIDE DEF u
<1>6. SommeSur(v, I) = SommeSur(u, I)
  BY <1>5, SommeEgale
<1>7. \A i \in I : Cardinality(P[i]) \in Nat
  BY <1>3, FS_CardinalityType
<1> QED BY <1>1, <1>4, <1>5, <1>6, <1>7

----------------------------------------------------------------------------
(* The segments of a month (construireSegments): one per version in force  *)
(* on some day of the month within the life of the contract.               *)

ContratCorrect(fiche) ==
  /\ fiche.mode \in Modes /\ fiche.du \in Int /\ fiche.au \in Int \cup {Rien}
  /\ DOMAIN fiche.versions \in SUBSET Int /\ IsFiniteSet(DOMAIN fiche.versions)
  /\ DOMAIN fiche.versions # {}
  /\ \A d \in DOMAIN fiche.versions : VersionCorrecte(fiche.versions[d])

SegmentDe(fiche, m, d) ==
  [mode |-> fiche.mode, champs |-> fiche.versions[d],
   du |-> Max({Min(JoursDuMois(m)), fiche.du, d}),
   au |-> Min({Max(JoursDuMois(m))} \cup ({fiche.au, FinDeVersion(fiche.versions, d)} \ {Rien}))]

Couvrants(fiche, m) ==
  {d \in DOMAIN fiche.versions : SegmentDe(fiche, m, d).du <= SegmentDe(fiche, m, d).au}

\* The days of the month that a version governs.
JoursSous(fiche, m, d) == {j \in Vie(fiche, m) : EnVigueur(fiche, j) = d}

LEMMA MaxDEntiers ==
  ASSUME NEW S \in SUBSET Int, S # {}, IsFiniteSet(S)
  PROVE  Max(S) \in S /\ \A y \in S : y <= Max(S)
BY PlusGrand DEF Max

LEMMA BornesDuMois ==
  ASSUME NEW m \in Int
  PROVE  /\ IsFiniteSet(JoursDuMois(m)) /\ JoursDuMois(m) \in SUBSET Int
         /\ m * JOURS_MOIS \in JoursDuMois(m)
         /\ Min(JoursDuMois(m)) = m * JOURS_MOIS
         /\ Max(JoursDuMois(m)) \in JoursDuMois(m)
         /\ \A j \in Int : j \in JoursDuMois(m)
              <=> Min(JoursDuMois(m)) <= j /\ j <= Max(JoursDuMois(m))
<1> DEFINE a == m * JOURS_MOIS
           b == (m + 1) * JOURS_MOIS - 1
<1>1. a \in Int /\ b \in Int /\ a <= b
  <2>1. JOURS_MOIS \in Nat \ {0}
    BY ConstantesPrestations
  <2>2. a \in Int /\ (m + 1) * JOURS_MOIS \in Int
    BY <2>1
  <2>3. (m + 1) * JOURS_MOIS = a + JOURS_MOIS
    BY <2>1
  <2> HIDE DEF a
  <2> QED BY <2>1, <2>2, <2>3
<1>2. JoursDuMois(m) = a .. b
  BY DEF JoursDuMois
<1> HIDE DEF a, b
<1>3. IsFiniteSet(a .. b) /\ a .. b \in SUBSET Int /\ a \in a .. b /\ b \in a .. b
  BY <1>1, FS_Interval
<1>4. /\ Min(a .. b) \in a .. b /\ Max(a .. b) \in a .. b
      /\ \A j \in a .. b : Min(a .. b) <= j /\ j <= Max(a .. b)
  BY <1>3, MinDEntiers, MaxDEntiers
<1>5. Min(a .. b) = a /\ Max(a .. b) = b
  BY <1>1, <1>3, <1>4
<1>6. \A j \in Int : j \in a .. b <=> a <= j /\ j <= b
  BY <1>1
<1>7. a = m * JOURS_MOIS
  BY DEF a
<1> QED BY <1>2, <1>3, <1>5, <1>6, <1>7

LEMMA VieFinie ==
  ASSUME NEW fiche, NEW m \in Int
  PROVE  IsFiniteSet(Vie(fiche, m)) /\ Vie(fiche, m) \in SUBSET Int
BY BornesDuMois, FS_Subset DEF Vie, JoursDuContrat

\* The version in force on a governed day is the one whose period has the day.
LEMMA VigueurDuJour ==
  ASSUME NEW fiche, ContratCorrect(fiche), NEW j \in Int, \E e \in DOMAIN fiche.versions : e <= j,
         NEW d \in DOMAIN fiche.versions
  PROVE  /\ EnVigueur(fiche, j) \in DOMAIN fiche.versions
         /\ EnForce(fiche.versions, d, j) <=> EnVigueur(fiche, j) = d
<1> DEFINE avant == {e \in DOMAIN fiche.versions : e <= j}
<1>1. /\ DOMAIN fiche.versions \in SUBSET Int /\ IsFiniteSet(DOMAIN fiche.versions)
      /\ \E e \in DOMAIN fiche.versions : e <= j
  BY DEF ContratCorrect
<1>2. avant \in SUBSET Int /\ avant # {} /\ IsFiniteSet(avant)
  BY <1>1, FS_Subset
<1>3. Max(avant) \in avant /\ \A e \in avant : e <= Max(avant)
  <2> HIDE DEF avant
  <2> QED BY <1>2, MaxDEntiers
<1>4. EnVigueur(fiche, j) = Max(avant)
  BY DEF EnVigueur
<1>5. PICK e \in DOMAIN fiche.versions :
        /\ EnForce(fiche.versions, e, j)
        /\ \A f \in DOMAIN fiche.versions : EnForce(fiche.versions, f, j) => f = e
        /\ \A f \in DOMAIN fiche.versions : f <= j => f <= e
  BY <1>1, UneVersionParJour
<1>6. e \in avant
  BY <1>5 DEF EnForce
<1>7. Max(avant) = e
  <2>1. Max(avant) \in DOMAIN fiche.versions /\ Max(avant) <= j
    BY <1>3
  <2>2. Max(avant) <= e /\ e <= Max(avant)
    BY <1>3, <1>5, <1>6, <2>1
  <2> HIDE DEF avant
  <2> QED BY <1>1, <2>1, <2>2
<1> QED BY <1>4, <1>5, <1>7

LEMMA SegmentDuJour ==
  ASSUME NEW fiche, ContratCorrect(fiche), NEW m \in Int, NEW d \in DOMAIN fiche.versions
  PROVE  /\ SegmentDe(fiche, m, d).du \in Int /\ SegmentDe(fiche, m, d).au \in Int
         /\ SegmentDe(fiche, m, d).du \in JoursDuMois(m) \/ SegmentDe(fiche, m, d).du > SegmentDe(fiche, m, d).au
         /\ \A j \in Int : EstDansPeriode(SegmentDe(fiche, m, d), j) <=> j \in JoursSous(fiche, m, d)
<1> DEFINE a == Min(JoursDuMois(m))
           b == Max(JoursDuMois(m))
           f == FinDeVersion(fiche.versions, d)
           G == {a, fiche.du, d}
           H == {b} \cup ({fiche.au, f} \ {Rien})
<1>1. /\ DOMAIN fiche.versions \in SUBSET Int /\ IsFiniteSet(DOMAIN fiche.versions)
      /\ fiche.du \in Int /\ fiche.au \in Int \cup {Rien} /\ d \in Int
  BY DEF ContratCorrect
<1>2. a \in Int /\ b \in Int /\ \A j \in Int : j \in JoursDuMois(m) <=> a <= j /\ j <= b
  BY BornesDuMois
<1>3. f \in Int \cup {Rien}
  <2> DEFINE apres == {e \in DOMAIN fiche.versions : e > d}
  <2>1. apres \in SUBSET Int /\ IsFiniteSet(apres)
    BY <1>1, FS_Subset
  <2>2. apres # {} => Min(apres) \in Int
    <3> HIDE DEF apres
    <3> QED BY <2>1, MinDEntiers
  <2> QED BY <2>2 DEF FinDeVersion
<1>4. G \in SUBSET Int /\ G # {} /\ IsFiniteSet(G)
  <2> HIDE DEF a
  <2>1. G = ({a} \cup {fiche.du}) \cup {d}
    OBVIOUS
  <2>2. IsFiniteSet(G)
    <3>1. IsFiniteSet({a})
      BY FS_Singleton
    <3>2. IsFiniteSet({a} \cup {fiche.du})
      BY <3>1, FS_AddElement
    <3>3. IsFiniteSet(({a} \cup {fiche.du}) \cup {d})
      BY <3>2, FS_AddElement
    <3> QED BY <2>1, <3>3
  <2> QED BY <1>1, <1>2, <2>2
<1>5. H \in SUBSET Int /\ H # {} /\ IsFiniteSet(H)
  <2> HIDE DEF b, f
  <2>1. IsFiniteSet({fiche.au, f})
    <3>1. {fiche.au, f} = ({} \cup {fiche.au}) \cup {f}
      OBVIOUS
    <3> QED BY <3>1, FS_EmptySet, FS_AddElement
  <2>2. IsFiniteSet(H)
    <3>1. IsFiniteSet({fiche.au, f} \ {Rien})
      BY <2>1, FS_Subset
    <3> QED BY <3>1, FS_Singleton, FS_Union
  <2> QED BY <1>1, <1>2, <1>3, <2>2
<1>6. SegmentDe(fiche, m, d).du = Max(G) /\ SegmentDe(fiche, m, d).au = Min(H)
  BY DEF SegmentDe
<1>7. /\ Max(G) \in G /\ \A x \in G : x <= Max(G)
      /\ Min(H) \in H /\ \A x \in H : Min(H) <= x
  <2> HIDE DEF G, H
  <2> QED BY <1>4, <1>5, MinDEntiers, MaxDEntiers
<1>8. Max(G) \in Int /\ Min(H) \in Int
  <2> HIDE DEF G, H
  <2> QED BY <1>4, <1>5, <1>7
<1>9. \A j \in Int : Max(G) <= j <=> a <= j /\ fiche.du <= j /\ d <= j
  <2>1. a \in G /\ fiche.du \in G /\ d \in G
    OBVIOUS
  <2>2. Max(G) = a \/ Max(G) = fiche.du \/ Max(G) = d
    BY <1>7
  <2> HIDE DEF G, a
  <2> QED BY <1>1, <1>2, <1>7, <1>8, <2>1, <2>2
<1>10. \A j \in Int : j <= Min(H) <=>
         /\ j <= b /\ (fiche.au = Rien \/ j <= fiche.au) /\ (f = Rien \/ j <= f)
  <2>1. b \in H /\ (fiche.au # Rien => fiche.au \in H) /\ (f # Rien => f \in H)
    OBVIOUS
  <2>2. \/ Min(H) = b
        \/ Min(H) = fiche.au /\ fiche.au # Rien
        \/ Min(H) = f /\ f # Rien
    BY <1>7
  <2> HIDE DEF H, b, f
  <2> QED BY <1>1, <1>2, <1>3, <1>7, <1>8, <2>1, <2>2
<1>11. Rien \notin Int
  BY ConstantesPrestations
<1>12. Max(G) \in JoursDuMois(m) \/ Max(G) > Min(H)
  <2>1. a \in G /\ b \in H
    OBVIOUS
  <2> HIDE DEF a, b, G, H
  <2>2. a <= Max(G) /\ Min(H) <= b
    BY <1>7, <2>1
  <2> QED BY <1>2, <1>8, <2>2
<1>13. ASSUME NEW j \in Int
       PROVE  EstDansPeriode(SegmentDe(fiche, m, d), j) <=> j \in JoursSous(fiche, m, d)
  <2>1. EstDansPeriode(SegmentDe(fiche, m, d), j) <=> Max(G) <= j /\ j <= Min(H)
    <3> HIDE DEF G, H
    <3> QED BY <1>6, <1>8, <1>11 DEF EstDansPeriode
  <2>2. Max(G) <= j /\ j <= Min(H)
          <=> j \in Vie(fiche, m) /\ EnForce(fiche.versions, d, j)
    <3>1. j \in Vie(fiche, m)
            <=> /\ a <= j /\ j <= b /\ fiche.du <= j /\ (fiche.au = Rien \/ j <= fiche.au)
                /\ \E e \in DOMAIN fiche.versions : e <= j
      BY <1>2 DEF Vie, JoursDuContrat
    <3>2. EnForce(fiche.versions, d, j) <=> d <= j /\ (f = Rien \/ j <= f)
      BY DEF EnForce
    <3> HIDE DEF a, b, f, G, H
    <3> QED BY <1>9, <1>10, <3>1, <3>2
  <2>3. j \in Vie(fiche, m) => (EnForce(fiche.versions, d, j) <=> EnVigueur(fiche, j) = d)
    <3>1. j \in Vie(fiche, m) => \E e \in DOMAIN fiche.versions : e <= j
      BY DEF Vie
    <3> QED BY <3>1, VigueurDuJour
  <2> QED BY <2>1, <2>2, <2>3 DEF JoursSous
<1> QED BY <1>6, <1>8, <1>12, <1>13

\* The versions that have a segment are those in force on some day of the
\* month.
LEMMA CouvrantsEnVigueur ==
  ASSUME NEW fiche, ContratCorrect(fiche), NEW m \in Int
  PROVE  /\ Couvrants(fiche, m) = {EnVigueur(fiche, j) : j \in Vie(fiche, m)}
         /\ Couvrants(fiche, m) \in SUBSET Int /\ IsFiniteSet(Couvrants(fiche, m))
         /\ \A d \in Couvrants(fiche, m) :
              d \in DOMAIN fiche.versions /\ JoursSous(fiche, m, d) # {}
<1>1. DOMAIN fiche.versions \in SUBSET Int /\ IsFiniteSet(DOMAIN fiche.versions)
  BY DEF ContratCorrect
<1>2. Couvrants(fiche, m) \subseteq DOMAIN fiche.versions
  BY DEF Couvrants
<1>3. ASSUME NEW d \in Couvrants(fiche, m) PROVE JoursSous(fiche, m, d) # {}
  <2>1. d \in DOMAIN fiche.versions /\ SegmentDe(fiche, m, d).du <= SegmentDe(fiche, m, d).au
    BY DEF Couvrants
  <2>2. EstDansPeriode(SegmentDe(fiche, m, d), SegmentDe(fiche, m, d).du)
    BY <2>1, SegmentDuJour DEF EstDansPeriode
  <2> QED BY <2>1, <2>2, SegmentDuJour
<1>4. ASSUME NEW j \in Vie(fiche, m) PROVE EnVigueur(fiche, j) \in Couvrants(fiche, m)
  <2> DEFINE d == EnVigueur(fiche, j)
  <2>1. j \in Int /\ \E e \in DOMAIN fiche.versions : e <= j
    BY VieFinie DEF Vie
  <2>2. d \in DOMAIN fiche.versions
    <3>1. PICK e \in DOMAIN fiche.versions : e <= j
      BY <2>1
    <3> QED BY <2>1, <3>1, VigueurDuJour
  <2>3. j \in JoursSous(fiche, m, d)
    BY DEF JoursSous
  <2> HIDE DEF d
  <2>4. EstDansPeriode(SegmentDe(fiche, m, d), j)
    BY <2>1, <2>2, <2>3, SegmentDuJour
  <2>5. SegmentDe(fiche, m, d).du \in Int /\ SegmentDe(fiche, m, d).au \in Int
    BY <2>2, SegmentDuJour
  <2>6. SegmentDe(fiche, m, d).du <= SegmentDe(fiche, m, d).au
    BY <2>1, <2>4, <2>5, ConstantesPrestations DEF EstDansPeriode
  <2>7. d \in Couvrants(fiche, m)
    BY <2>2, <2>6 DEF Couvrants
  <2> QED BY <2>7 DEF d
<1>5. Couvrants(fiche, m) = {EnVigueur(fiche, j) : j \in Vie(fiche, m)}
  <2>1. \A d \in Couvrants(fiche, m) : \E j \in Vie(fiche, m) : EnVigueur(fiche, j) = d
    BY <1>3 DEF JoursSous
  <2> QED BY <1>4, <2>1
<1>6. IsFiniteSet(Couvrants(fiche, m))
  BY <1>1, <1>2, FS_Subset
<1> QED BY <1>1, <1>2, <1>3, <1>5, <1>6

----------------------------------------------------------------------------
(* The order of the segments, and which of them takes an item.             *)

\* Each date has its place, and the places follow the dates.
LEMMA ChronologieOrdonne ==
  ASSUME NEW D \in SUBSET Int, IsFiniteSet(D)
  PROVE  /\ Cardinality(D) \in Nat
         /\ DOMAIN Chronologie(D) = 1 .. Cardinality(D)
         /\ \A i \in 1 .. Cardinality(D) :
              /\ Chronologie(D)[i] \in D
              /\ Cardinality({e \in D : e < Chronologie(D)[i]}) = i - 1
         /\ \A d \in D : \E i \in 1 .. Cardinality(D) : Chronologie(D)[i] = d
<1> DEFINE n == Cardinality(D)
           A(d) == {e \in D : e < d}
           r == [d \in D |-> Cardinality(A(d)) + 1]
<1>1. n \in Nat
  BY FS_CardinalityType
<1>2. ASSUME NEW d \in D
      PROVE  IsFiniteSet(A(d)) /\ Cardinality(A(d)) \in Nat /\ Cardinality(A(d)) < n
  <2>1. A(d) \in SUBSET D /\ d \notin A(d)
    OBVIOUS
  <2>2. IsFiniteSet(A(d)) /\ Cardinality(A(d)) <= n /\ Cardinality(A(d)) # n
    <3> HIDE DEF A
    <3> QED BY <2>1, FS_Subset
  <2>3. Cardinality(A(d)) \in Nat
    <3> HIDE DEF A
    <3> QED BY <2>2, FS_CardinalityType
  <2> HIDE DEF A, n
  <2> QED BY <1>1, <2>2, <2>3
<1>3. ASSUME NEW d \in D, NEW e \in D, d < e
      PROVE  Cardinality(A(d)) < Cardinality(A(e))
  <2>1. A(d) \in SUBSET A(e) /\ d \in A(e) /\ d \notin A(d)
    <3>1. d \in Int /\ e \in Int /\ d < e
      BY <1>3
    <3>2. \A x \in D : x \in Int
      OBVIOUS
    <3>3. \A x \in D : x < d => x < e
      BY <3>1, <3>2
    <3>4. A(d) \subseteq A(e)
      BY <3>3
    <3>5. d \in A(e) /\ ~(d < d)
      BY <3>1
    <3> QED BY <3>4, <3>5
  <2>2. Cardinality(A(d)) <= Cardinality(A(e)) /\ Cardinality(A(d)) # Cardinality(A(e))
    <3>1. IsFiniteSet(A(e))
      BY <1>2
    <3> HIDE DEF A
    <3> QED BY <2>1, <3>1, FS_Subset
  <2>3. Cardinality(A(d)) \in Nat /\ Cardinality(A(e)) \in Nat
    BY <1>2
  <2> HIDE DEF A
  <2> QED BY <2>2, <2>3
<1>4. r \in Injection(D, 1 .. n)
  <2>1. \A d \in D : r[d] \in 1 .. n
    <3> SUFFICES ASSUME NEW d \in D PROVE Cardinality(A(d)) + 1 \in 1 .. n
      OBVIOUS
    <3>1. Cardinality(A(d)) \in Nat /\ Cardinality(A(d)) < n
      BY <1>2
    <3> HIDE DEF A, n
    <3> QED BY <1>1, <3>1
  <2>2. \A d, e \in D : r[d] = r[e] => d = e
    <3> SUFFICES ASSUME NEW d \in D, NEW e \in D,
                        Cardinality(A(d)) + 1 = Cardinality(A(e)) + 1
                 PROVE  d = e
      OBVIOUS
    <3>1. /\ Cardinality(A(d)) \in Nat /\ Cardinality(A(e)) \in Nat
          /\ d < e => Cardinality(A(d)) < Cardinality(A(e))
          /\ e < d => Cardinality(A(e)) < Cardinality(A(d))
      BY <1>2, <1>3
    <3>2. d \in Int /\ e \in Int
      OBVIOUS
    <3> HIDE DEF A
    <3> QED BY <3>1, <3>2
  <2>3. r \in [D -> 1 .. n]
    BY <2>1
  <2> HIDE DEF r
  <2> QED BY <2>2, <2>3 DEF Injection, IsInjective
<1>5. r \in Surjection(D, 1 .. n)
  <2>1. IsFiniteSet(1 .. n) /\ Cardinality(1 .. n) = n
    BY <1>1, FS_Interval
  <2> HIDE DEF r, n
  <2>2. Cardinality(D) = Cardinality(1 .. n)
    BY <2>1 DEF n
  <2> QED BY <1>4, <2>1, <2>2, FS_Injection
<1>6. ASSUME NEW i \in 1 .. n
      PROVE  Chronologie(D)[i] \in D /\ Cardinality(A(Chronologie(D)[i])) = i - 1
  <2>1. \E d \in D : r[d] = i
    <3> HIDE DEF r, n
    <3> QED BY <1>5 DEF Surjection
  <2>2. PICK d \in D : Cardinality(A(d)) + 1 = i
    BY <2>1
  <2>3. Cardinality(A(d)) \in Nat
    BY <1>2
  <2>4. Cardinality(A(d)) = i - 1
    <3> HIDE DEF A
    <3> QED BY <2>2, <2>3
  <2>5. Chronologie(D)[i] = CHOOSE x \in D : Cardinality(A(x)) = i - 1
    BY DEF Chronologie
  <2> HIDE DEF A
  <2> QED BY <2>4, <2>5
<1>7. ASSUME NEW d \in D PROVE \E i \in 1 .. n : Chronologie(D)[i] = d
  <2>1. PICK i \in 1 .. n : r[d] = i
    <3> HIDE DEF r, n
    <3> QED BY <1>4 DEF Injection, IsInjective
  <2>2. Chronologie(D)[i] \in D /\ Cardinality(A(Chronologie(D)[i])) = i - 1
    BY <1>6
  <2>3. r[d] = Cardinality(A(d)) + 1 /\ r[Chronologie(D)[i]] = Cardinality(A(Chronologie(D)[i])) + 1
    BY <2>2
  <2>4. r[Chronologie(D)[i]] = i
    <3> HIDE DEF A, r, n
    <3> QED BY <1>1, <2>2, <2>3
  <2>5. Chronologie(D)[i] = d
    <3> HIDE DEF A, r
    <3> QED BY <1>4, <2>1, <2>2, <2>4 DEF Injection, IsInjective
  <2> QED BY <2>5
<1>8. DOMAIN Chronologie(D) = 1 .. n
  BY DEF Chronologie
<1> HIDE DEF r
<1> QED BY <1>1, <1>6, <1>7, <1>8

\* An item is of the version in force on its date, or of the monthly one.
EstDe(fiche, m, d, date) ==
  IF date \in Vie(fiche, m) THEN EnVigueur(fiche, date) = d ELSE d = Mensuelle(fiche, m)

LEMMA SegmentsDuMois ==
  ASSUME NEW fiche, ContratCorrect(fiche), NEW m \in Int, Vie(fiche, m) # {}
  PROVE  LET segments == ConstruireSegments(fiche, m)
             dates    == Chronologie(Couvrants(fiche, m))
             n        == Cardinality(Couvrants(fiche, m))
             mensuel  == IdxMensuel(segments, m)
         IN /\ n \in Nat \ {0} /\ Len(segments) = n /\ DOMAIN segments = 1 .. n
            /\ \A i \in 1 .. n :
                 dates[i] \in Couvrants(fiche, m) /\ segments[i] = SegmentDe(fiche, m, dates[i])
            /\ \A i, k \in 1 .. n : dates[i] = dates[k] => i = k
            /\ \A d \in Couvrants(fiche, m) : \E i \in 1 .. n : dates[i] = d
            /\ mensuel \in 1 .. n /\ dates[mensuel] = Mensuelle(fiche, m)
            /\ \A i \in 1 .. n : \A j \in Int \cup {Rien} :
                 Cible(segments, j, mensuel) = i <=> EstDe(fiche, m, dates[i], j)
<1> DEFINE segments == ConstruireSegments(fiche, m)
           D        == Couvrants(fiche, m)
           dates    == Chronologie(D)
           n        == Cardinality(D)
           mensuel  == IdxMensuel(segments, m)
<1>1. /\ D \in SUBSET Int /\ IsFiniteSet(D)
      /\ \A d \in D : d \in DOMAIN fiche.versions /\ JoursSous(fiche, m, d) # {}
      /\ \A j \in Vie(fiche, m) : EnVigueur(fiche, j) \in D
      /\ D # {}
  BY CouvrantsEnVigueur
<1>2. Vie(fiche, m) \in SUBSET Int /\ IsFiniteSet(Vie(fiche, m))
  BY VieFinie
<1> HIDE DEF D
<1>3. /\ n \in Nat /\ DOMAIN dates = 1 .. n
      /\ \A i \in 1 .. n : dates[i] \in D /\ Cardinality({e \in D : e < dates[i]}) = i - 1
      /\ \A d \in D : \E i \in 1 .. n : dates[i] = d
  BY <1>1, ChronologieOrdonne
<1>4. n # 0
  BY <1>1, FS_EmptySet
<1>5. segments = [i \in 1 .. n |-> SegmentDe(fiche, m, dates[i])]
  <2>1. segments = [i \in DOMAIN dates |-> SegmentDe(fiche, m, dates[i])]
    <3>1. Couvrants(fiche, m) # {}
      BY <1>1 DEF D
    <3> QED BY <3>1 DEF ConstruireSegments, SegmentDe, Couvrants, D
  <2> HIDE DEF segments, dates
  <2> QED BY <1>3, <2>1
<1>6. \A i, k \in 1 .. n : dates[i] = dates[k] => i = k
  <2> HIDE DEF dates, n
  <2> SUFFICES ASSUME NEW i \in 1 .. n, NEW k \in 1 .. n, dates[i] = dates[k] PROVE i = k
    OBVIOUS
  <2>1. i - 1 = k - 1
    BY <1>3
  <2> QED BY <1>3, <2>1
<1> HIDE DEF dates, n, segments
<1>7. Len(segments) = n /\ DOMAIN segments = 1 .. n
  BY <1>3, <1>5
<1>8. ASSUME NEW i \in 1 .. n, NEW j \in Int
      PROVE  EstDansPeriode(segments[i], j) <=> j \in JoursSous(fiche, m, dates[i])
  <2>1. dates[i] \in DOMAIN fiche.versions /\ segments[i] = SegmentDe(fiche, m, dates[i])
    BY <1>1, <1>3, <1>5
  <2> QED BY <2>1, SegmentDuJour
\* The segments that cover a day: one within the life of the contract, none out of it.
<1>9. ASSUME NEW j \in Int, NEW k \in 1 .. n
      PROVE  /\ j \notin Vie(fiche, m) => Cible(segments, j, k) = k
             /\ j \in Vie(fiche, m) =>
                  /\ Cible(segments, j, k) \in 1 .. n
                  /\ dates[Cible(segments, j, k)] = EnVigueur(fiche, j)
  <2> DEFINE couvrants == {i \in DOMAIN segments : EstDansPeriode(segments[i], j)}
  <2>1. couvrants = {i \in 1 .. n : j \in JoursSous(fiche, m, dates[i])}
    BY <1>7, <1>8
  <2>2. j # Rien
    BY ConstantesPrestations
  <2>3. Cible(segments, j, k) = IF couvrants = {} THEN k ELSE Min(couvrants)
    BY <2>2 DEF Cible
  <2>4. CASE j \notin Vie(fiche, m)
    <3>1. couvrants = {}
      BY <2>1, <2>4 DEF JoursSous
    <3> QED BY <2>3, <2>4, <3>1
  <2>5. CASE j \in Vie(fiche, m)
    <3>1. PICK i \in 1 .. n : dates[i] = EnVigueur(fiche, j)
      BY <1>1, <1>3, <2>5
    <3>2. couvrants = {i}
      BY <1>6, <2>1, <2>5, <3>1 DEF JoursSous
    <3>3. Min({i}) = i
      <4>1. i \in Int
        BY <1>3
      <4> QED BY <4>1 DEF Min
    <3> QED BY <2>3, <2>5, <3>1, <3>2, <3>3
  <2> QED BY <2>4, <2>5
<1>10. mensuel \in 1 .. n /\ dates[mensuel] = Mensuelle(fiche, m)
  <2> DEFINE f == m * JOURS_MOIS
             p == Min(Vie(fiche, m))
  <2>1. f \in Int /\ f \in JoursDuMois(m) /\ \A j \in JoursDuMois(m) : f <= j
    BY BornesDuMois
  <2>2. p \in Vie(fiche, m) /\ \A j \in Vie(fiche, m) : p <= j
    BY <1>2, MinDEntiers
  <2>3. mensuel = Cible(segments, f, 1)
    BY DEF IdxMensuel
  <2>4. Mensuelle(fiche, m) = EnVigueur(fiche, p)
    BY DEF Mensuelle
  <2>5. 1 \in 1 .. n
    BY <1>3, <1>4
  <2> HIDE DEF f, p, mensuel
  <2>6. CASE f \in Vie(fiche, m)
    <3>1. p = f
      <4>1. f <= p /\ p <= f
        BY <2>1, <2>2, <2>6 DEF Vie, JoursDuContrat
      <4> QED BY <1>2, <2>1, <2>2, <4>1
    <3> QED BY <1>9, <2>1, <2>3, <2>4, <2>5, <2>6, <3>1
  <2>7. CASE f \notin Vie(fiche, m)
    <3>1. mensuel = 1
      BY <1>9, <2>1, <2>3, <2>5, <2>7
    <3>2. PICK i \in 1 .. n : dates[i] = EnVigueur(fiche, p)
      BY <1>1, <1>3, <2>2
    <3>3. PICK j \in JoursSous(fiche, m, dates[1]) : TRUE
      BY <1>1, <1>3, <2>5
    <3>4. j \in Vie(fiche, m) /\ EnVigueur(fiche, j) = dates[1] /\ p <= j
      BY <2>2, <3>3 DEF JoursSous
    <3>5. ~(dates[i] > dates[1])
      <4>1. ContratCorrect(fiche)
        OBVIOUS
      <4>2. p \in Int /\ j \in Int /\ \E e \in DOMAIN fiche.versions : e <= p
        BY <1>2, <2>2, <3>4 DEF Vie
      <4> DEFINE avant(k) == {e \in DOMAIN fiche.versions : e <= k}
      <4>3. avant(p) \subseteq avant(j)
        <5>1. \A e \in DOMAIN fiche.versions : e \in Int
          BY <4>1 DEF ContratCorrect
        <5> QED BY <3>4, <4>2, <5>1
      <4>4. avant(p) # {} /\ avant(p) \in SUBSET Int /\ IsFiniteSet(avant(p))
        BY <4>1, <4>2, FS_Subset DEF ContratCorrect
      <4>5. avant(j) # {} /\ avant(j) \in SUBSET Int /\ IsFiniteSet(avant(j))
        <5>1. avant(j) \in SUBSET Int /\ IsFiniteSet(avant(j))
          BY <4>1, FS_Subset DEF ContratCorrect
        <5> HIDE DEF avant
        <5> QED BY <4>3, <4>4, <5>1
      <4>6. dates[i] = Max(avant(p)) /\ dates[1] = Max(avant(j))
        BY <3>2, <3>4 DEF EnVigueur
      <4> HIDE DEF avant
      <4>7. Max(avant(p)) \in avant(p) /\ \A y \in avant(j) : y <= Max(avant(j))
        BY <4>4, <4>5, MaxDEntiers
      <4>8. dates[i] <= dates[1] /\ dates[i] \in Int /\ dates[1] \in Int
        BY <1>1, <1>3, <2>5, <4>3, <4>6, <4>7
      <4> QED BY <4>8
    <3>6. ~(dates[i] < dates[1])
      <4>1. IsFiniteSet({e \in D : e < dates[1]}) /\ Cardinality({e \in D : e < dates[1]}) = 0
        BY <1>1, <1>3, <2>5, FS_Subset
      <4>2. {e \in D : e < dates[1]} = {}
        BY <4>1, FS_EmptySet
      <4> QED BY <1>3, <4>2
    <3>7. dates[i] = dates[1]
      <4>1. dates[i] \in Int /\ dates[1] \in Int
        BY <1>1, <1>3, <2>5
      <4> QED BY <3>5, <3>6, <4>1
    <3> QED BY <2>4, <2>5, <3>1, <3>2, <3>7
  <2> QED BY <2>6, <2>7
<1> HIDE DEF mensuel
<1>11. ASSUME NEW i \in 1 .. n, NEW j \in Int \cup {Rien}
       PROVE  Cible(segments, j, mensuel) = i <=> EstDe(fiche, m, dates[i], j)
  <2>1. CASE j = Rien
    <3>1. Cible(segments, j, mensuel) = mensuel
      BY <2>1 DEF Cible
    <3>2. j \notin Vie(fiche, m)
      BY <1>2, <2>1, ConstantesPrestations
    <3> QED BY <1>6, <1>10, <3>1, <3>2 DEF EstDe
  <2>2. CASE j # Rien
    <3>1. j \in Int
      BY <2>2
    <3> QED BY <1>6, <1>9, <1>10, <3>1 DEF EstDe
  <2> QED BY <2>1, <2>2
<1>12. \A i \in 1 .. n : dates[i] \in D /\ segments[i] = SegmentDe(fiche, m, dates[i])
  BY <1>3, <1>5
<1>13. /\ n \in Nat \ {0} /\ Len(segments) = n /\ DOMAIN segments = 1 .. n
       /\ \A i \in 1 .. n : dates[i] \in D /\ segments[i] = SegmentDe(fiche, m, dates[i])
       /\ \A i, k \in 1 .. n : dates[i] = dates[k] => i = k
       /\ \A d \in D : \E i \in 1 .. n : dates[i] = d
       /\ mensuel \in 1 .. n /\ dates[mensuel] = Mensuelle(fiche, m)
       /\ \A i \in 1 .. n : \A j \in Int \cup {Rien} :
            Cible(segments, j, mensuel) = i <=> EstDe(fiche, m, dates[i], j)
  BY <1>3, <1>4, <1>6, <1>7, <1>10, <1>11, <1>12
<1> QED BY <1>13 DEF segments, D, dates, n, mensuel

----------------------------------------------------------------------------
(* The month by parts: what each segment takes of the entry, and what the  *)
(* parts make together.                                                    *)

\* The versions of the month, from the oldest; the k-th is the monthly one.
Enumeration(fiche, m, I, k, dates) ==
  /\ IsFiniteSet(I) /\ k \in I /\ dates[k] = Mensuelle(fiche, m)
  /\ \A i \in I : dates[i] \in Couvrants(fiche, m)
  /\ \A i, h \in I : dates[i] = dates[h] => i = h
  /\ \A d \in Couvrants(fiche, m) : \E i \in I : dates[i] = d

\* The days on which the contract can be billed.
JoursOuverts(fiche, m, fermes) == Vie(fiche, m) \ fermes

\* What a version takes of an entry.
PriseDe(fiche, m, d, items) == {x \in items : EstDe(fiche, m, d, x.date)}

EstPart(fiche, m, saisie, d, p) ==
  /\ p.complement = (IF d = Mensuelle(fiche, m) THEN saisie.complement ELSE 0)
  /\ p.pai = (d = Mensuelle(fiche, m) /\ saisie.pai)
  /\ p.supplementaires = PriseDe(fiche, m, d, saisie.supplementaires)
  /\ p.absences = PriseDe(fiche, m, d, saisie.absences)
  /\ p.ajustements = PriseDe(fiche, m, d, saisie.ajustements)
  /\ DOMAIN p.exceptions = {j \in DOMAIN saisie.exceptions : EstDe(fiche, m, d, j)}
  /\ \A j \in DOMAIN p.exceptions : p.exceptions[j] = saisie.exceptions[j]
  /\ p.joursAlsh = PriseDe(fiche, m, d, saisie.joursAlsh)

\* Each date has one version.
EstSeul(fiche, m, I, dates, i, j) ==
  EstDe(fiche, m, dates[i], j) /\ \A h \in I : EstDe(fiche, m, dates[h], j) => h = i

LEMMA UneVersion ==
  ASSUME NEW fiche, ContratCorrect(fiche), NEW m \in Int, Vie(fiche, m) # {},
         NEW I, NEW k, NEW dates, Enumeration(fiche, m, I, k, dates), NEW j
  PROVE  \E i \in I : EstSeul(fiche, m, I, dates, i, j)
<1>1. CASE j \in Vie(fiche, m)
  <2>1. EnVigueur(fiche, j) \in Couvrants(fiche, m)
    BY <1>1, CouvrantsEnVigueur
  <2> QED BY <1>1, <2>1 DEF Enumeration, EstDe, EstSeul
<1>2. CASE j \notin Vie(fiche, m)
  BY <1>2 DEF Enumeration, EstDe, EstSeul
<1> QED BY <1>1, <1>2

\* repartirSaisie gives each version its part.
LEMMA PartDuSegment ==
  ASSUME NEW fiche, NEW m, NEW saisie, SaisieCorrecte(saisie),
         NEW segments, NEW mensuel, NEW i, NEW d, (i = mensuel) <=> (d = Mensuelle(fiche, m)),
         \A j \in Int \cup {Rien} : Cible(segments, j, mensuel) = i <=> EstDe(fiche, m, d, j)
  PROVE  EstPart(fiche, m, saisie, d, RepartirSaisie(segments, saisie, mensuel, i))
<1> DEFINE p == RepartirSaisie(segments, saisie, mensuel, i)
           Part(items) == {x \in items : Cible(segments, x.date, mensuel) = i}
           Exc == {j \in DOMAIN saisie.exceptions : Cible(segments, j, mensuel) = i}
<1>1. /\ p.complement = (IF i = mensuel THEN saisie.complement ELSE 0)
      /\ p.pai = (i = mensuel /\ saisie.pai)
      /\ p.supplementaires = Part(saisie.supplementaires)
      /\ p.absences = Part(saisie.absences) /\ p.ajustements = Part(saisie.ajustements)
      /\ p.exceptions = [j \in Exc |-> saisie.exceptions[j]]
      /\ p.joursAlsh = Part(saisie.joursAlsh)
  BY DEF RepartirSaisie
<1>2. ASSUME NEW items, \A x \in items : x.date \in Int \cup {Rien}
      PROVE  Part(items) = PriseDe(fiche, m, d, items)
  BY <1>2 DEF PriseDe
<1>3. Exc = {j \in DOMAIN saisie.exceptions : EstDe(fiche, m, d, j)}
  BY DEF SaisieCorrecte
<1>4. /\ \A x \in saisie.supplementaires : x.date \in Int \cup {Rien}
      /\ \A x \in saisie.absences : x.date \in Int \cup {Rien}
      /\ \A x \in saisie.ajustements : x.date \in Int \cup {Rien}
      /\ \A x \in saisie.joursAlsh : x.date \in Int \cup {Rien}
  BY DEF SaisieCorrecte
<1>5. /\ p.supplementaires = PriseDe(fiche, m, d, saisie.supplementaires)
      /\ p.absences = PriseDe(fiche, m, d, saisie.absences)
      /\ p.ajustements = PriseDe(fiche, m, d, saisie.ajustements)
      /\ p.joursAlsh = PriseDe(fiche, m, d, saisie.joursAlsh)
  BY <1>1, <1>2, <1>4
<1>6. /\ DOMAIN p.exceptions = {j \in DOMAIN saisie.exceptions : EstDe(fiche, m, d, j)}
      /\ \A j \in DOMAIN p.exceptions : p.exceptions[j] = saisie.exceptions[j]
  <2> HIDE DEF p
  <2> QED BY <1>1, <1>3
<1>7. /\ p.complement = (IF d = Mensuelle(fiche, m) THEN saisie.complement ELSE 0)
      /\ p.pai = (d = Mensuelle(fiche, m) /\ saisie.pai)
  <2> HIDE DEF p
  <2> QED BY <1>1
<1> HIDE DEF p
<1>8. EstPart(fiche, m, saisie, d, p)
  BY <1>5, <1>6, <1>7 DEF EstPart
<1> QED BY <1>8 DEF p

\* genererPrestationMoisSegments, once each segment has its part.
Rassemblees(n, q, k) ==
  IF n = 1 THEN q[1] ELSE IF \E i \in 1 .. n : q[i] = Refus THEN Refus ELSE Fusionner(q, k)

MoisDecoupe(fiche, m, saisie, fermes, n, k, dates, parts, q) ==
  /\ n \in Nat \ {0} /\ Enumeration(fiche, m, 1 .. n, k, dates)
  /\ \A i \in 1 .. n : EstPart(fiche, m, saisie, dates[i], parts[i])
  /\ DOMAIN q = 1 .. n
  /\ \A i \in 1 .. n : q[i] = Generer(SegmentDe(fiche, m, dates[i]), m, parts[i], fermes)
  /\ Prestations(fiche, m, saisie, fermes) = Rassemblees(n, q, k)

LEMMA MoisEnParts ==
  ASSUME NEW fiche, ContratCorrect(fiche), NEW m \in Int, Vie(fiche, m) # {},
         NEW saisie, SaisieCorrecte(saisie), NEW fermes
  PROVE  \E n, k, dates, parts, q : MoisDecoupe(fiche, m, saisie, fermes, n, k, dates, parts, q)
<1> DEFINE segments == ConstruireSegments(fiche, m)
           dates    == Chronologie(Couvrants(fiche, m))
           n        == Cardinality(Couvrants(fiche, m))
           k        == IdxMensuel(segments, m)
<1>1. /\ n \in Nat \ {0} /\ Len(segments) = n /\ DOMAIN segments = 1 .. n
      /\ \A i \in 1 .. n :
           dates[i] \in Couvrants(fiche, m) /\ segments[i] = SegmentDe(fiche, m, dates[i])
      /\ \A i, h \in 1 .. n : dates[i] = dates[h] => i = h
      /\ \A d \in Couvrants(fiche, m) : \E i \in 1 .. n : dates[i] = d
      /\ k \in 1 .. n /\ dates[k] = Mensuelle(fiche, m)
      /\ \A i \in 1 .. n : \A j \in Int \cup {Rien} :
           Cible(segments, j, k) = i <=> EstDe(fiche, m, dates[i], j)
  BY SegmentsDuMois
<1>2. Prestations(fiche, m, saisie, fermes) = GenererSegments(segments, m, saisie, fermes)
  BY DEF Prestations
<1> DEFINE r == [i \in 1 .. n |-> RepartirSaisie(segments, saisie, k, i)]
           parts == IF n = 1 THEN [i \in 1 .. n |-> saisie] ELSE r
           Q(i) == Generer(SegmentDe(fiche, m, dates[i]), m, parts[i], fermes)
           q == [i \in 1 .. n |-> Q(i)]
<1>3. ASSUME n # 1 PROVE GenererSegments(segments, m, saisie, fermes) =
        IF \E i \in 1 .. n : q[i] = Refus THEN Refus ELSE Fusionner(q, k)
  <2> DEFINE g == [i \in DOMAIN segments |->
                    Generer(segments[i], m, RepartirSaisie(segments, saisie, k, i), fermes)]
  <2>1. GenererSegments(segments, m, saisie, fermes) =
        IF Len(segments) = 1 THEN Generer(segments[1], m, saisie, fermes)
        ELSE IF \E i \in DOMAIN g : g[i] = Refus THEN Refus ELSE Fusionner(g, k)
    BY DEF GenererSegments
  <2> HIDE DEF segments, dates, n, k
  <2>2. g = q /\ DOMAIN g = 1 .. n
    BY <1>1, <1>3
  <2> HIDE DEF g, q
  <2> QED BY <1>1, <1>3, <2>1, <2>2
<1>4. ASSUME n = 1 PROVE GenererSegments(segments, m, saisie, fermes) = q[1]
  <2>1. GenererSegments(segments, m, saisie, fermes) = Generer(segments[1], m, saisie, fermes)
    <3> HIDE DEF segments, n
    <3> QED BY <1>1, <1>4 DEF GenererSegments
  <2> HIDE DEF segments, dates, n, k
  <2>2. 1 \in 1 .. n
    BY <1>4
  <2> QED BY <1>1, <1>4, <2>1, <2>2
<1>5. n \in Nat \ {0} /\ Enumeration(fiche, m, 1 .. n, k, dates)
  <2> HIDE DEF segments, dates, n, k
  <2>1. IsFiniteSet(1 .. n)
    BY <1>1, FS_Interval
  <2> QED BY <1>1, <2>1 DEF Enumeration
<1> HIDE DEF segments, dates, n, k
<1>6. ASSUME NEW i \in 1 .. n PROVE EstPart(fiche, m, saisie, dates[i], parts[i])
  <2>1. (i = k) <=> (dates[i] = Mensuelle(fiche, m))
    BY <1>1
  <2>2. CASE n # 1
    <3>1. EstPart(fiche, m, saisie, dates[i], RepartirSaisie(segments, saisie, k, i))
      BY <1>1, <2>1, PartDuSegment
    <3> QED BY <2>2, <3>1
  <2>3. CASE n = 1
    <3>1. i = 1 /\ k = 1 /\ parts[i] = saisie
      BY <1>1, <2>3
    <3>2. \A j : EstDe(fiche, m, dates[i], j)
      <4>1. \A h \in 1 .. n : h = i
        BY <2>3
      <4>2. \A j : \E h \in 1 .. n : EstSeul(fiche, m, 1 .. n, dates, h, j)
        BY <1>5, UneVersion
      <4> QED BY <4>1, <4>2 DEF EstSeul
    <3>3. dates[i] = Mensuelle(fiche, m)
      BY <2>1, <3>1
    <3>4. saisie.pai = (TRUE /\ saisie.pai)
      BY DEF SaisieCorrecte
    <3>5. saisie.supplementaires = PriseDe(fiche, m, dates[i], saisie.supplementaires)
      BY <3>2 DEF PriseDe
    <3>6. saisie.absences = PriseDe(fiche, m, dates[i], saisie.absences)
      BY <3>2 DEF PriseDe
    <3>7. saisie.ajustements = PriseDe(fiche, m, dates[i], saisie.ajustements)
      BY <3>2 DEF PriseDe
    <3>8. saisie.joursAlsh = PriseDe(fiche, m, dates[i], saisie.joursAlsh)
      BY <3>2 DEF PriseDe
    <3>9. DOMAIN saisie.exceptions = {j \in DOMAIN saisie.exceptions : EstDe(fiche, m, dates[i], j)}
      BY <3>2
    <3>10. EstPart(fiche, m, saisie, dates[i], saisie)
      BY <3>3, <3>4, <3>5, <3>6, <3>7, <3>8, <3>9 DEF EstPart
    <3> QED BY <3>1, <3>10
  <2> QED BY <2>2, <2>3
<1> HIDE DEF parts
<1>7. Prestations(fiche, m, saisie, fermes) =
        IF n = 1 THEN q[1]
        ELSE IF \E i \in 1 .. n : q[i] = Refus THEN Refus ELSE Fusionner(q, k)
  <2> HIDE DEF q
  <2> QED BY <1>2, <1>3, <1>4
<1>8. DOMAIN q = 1 .. n /\ \A i \in 1 .. n : q[i] = Generer(SegmentDe(fiche, m, dates[i]), m, parts[i], fermes)
  OBVIOUS
<1> HIDE DEF q
<1>9. MoisDecoupe(fiche, m, saisie, fermes, n, k, dates, parts, q)
  BY <1>5, <1>6, <1>7, <1>8 DEF MoisDecoupe, Rassemblees
<1> QED BY <1>9

----------------------------------------------------------------------------
(* The creche, version by version.                                         *)

DureeDe(X)            == [x \in X |-> x.duree]
HeuresDe(fiche, m)    == [j \in Int |-> Cardinality(Presence(fiche, m, j))]
ReduitDe(fiche, m, X) == [a \in X |-> Cardinality(Presence(fiche, m, a.date) \ a.presence)]
EtenduDe(fiche, m, X) == [a \in X |-> Cardinality(a.presence \ Presence(fiche, m, a.date))]

\* The hours that are given up, and those that are added, as the reference
\* counts them.
ReduitParJour(fiche, m, S) ==
  MapThenSumSet(LAMBDA a : Cardinality(Presence(fiche, m, a.date) \ a.presence), S)
AjouteParJour(fiche, m, S) ==
  MapThenSumSet(LAMBDA a : Cardinality(a.presence \ Presence(fiche, m, a.date)), S)

AjoutsDe(fiche, m, saisie) == {x \in saisie.supplementaires : x.date \in Vie(fiche, m)}

ReservesSous(fiche, m, fermes, d) == SommeSur(HeuresDe(fiche, m), JoursSous(fiche, m, d) \ fermes)

DeduitsSous(fiche, m, saisie, d) ==
  SommeSur(DureeDe(saisie.absences), PriseDe(fiche, m, d, Deductibles(saisie.absences)))
  + SommeSur(ReduitDe(fiche, m, saisie.ajustements),
             PriseDe(fiche, m, d, Deductibles(Ajustes(fiche, m, saisie))))

AjoutsSous(fiche, m, saisie, d) ==
  (IF d = Mensuelle(fiche, m) THEN saisie.complement ELSE 0)
  + SommeSur(DureeDe(saisie.supplementaires), PriseDe(fiche, m, d, AjoutsDe(fiche, m, saisie)))
  + SommeSur(EtenduDe(fiche, m, saisie.ajustements), PriseDe(fiche, m, d, Ajustes(fiche, m, saisie)))

IncompatibleSous(fiche, m, saisie, d) ==
  \E a \in saisie.ajustements :
    /\ a.date \in JoursDuMois(m) /\ EstDe(fiche, m, d, a.date)
    /\ \/ Presence(fiche, m, a.date) = {}
       \/ \E x \in saisie.absences \cup saisie.supplementaires \cup (saisie.ajustements \ {a}) : x.date = a.date

LEMMA DureesSommees ==
  ASSUME NEW X, NEW S \in SUBSET X, IsFiniteSet(S)
  PROVE  /\ Durees(S) = SommeSur(DureeDe(X), S)
         /\ MapThenSumSet(LAMBDA x : x.duree, S) = SommeSur(DureeDe(X), S)
<1> DEFINE w == [x \in S |-> x.duree]
<1>1. Durees(S) = SommeSur(w, S)
  BY DEF Durees, SommeSur, Duree, MapThenSumSet, MapThenFoldSet
<1>2. MapThenSumSet(LAMBDA x : x.duree, S) = SommeSur(w, S)
  BY DEF SommeSur, MapThenSumSet, MapThenFoldSet
<1>3. \A x \in S : w[x] = DureeDe(X)[x]
  BY DEF DureeDe
<1> HIDE DEF w
<1>4. SommeSur(w, S) = SommeSur(DureeDe(X), S)
  BY <1>3, SommeEgale
<1> QED BY <1>1, <1>2, <1>4

LEMMA HeuresSommees ==
  ASSUME NEW fiche, NEW m, NEW S \in SUBSET Int, IsFiniteSet(S)
  PROVE  /\ Reservees(fiche, m, S) = SommeSur(HeuresDe(fiche, m), S)
         /\ \A s : (\A j \in S : HeuresDuJour(s, j) = Presence(fiche, m, j))
              => HeuresDes(s, S) = SommeSur(HeuresDe(fiche, m), S)
<1> DEFINE w == [j \in S |-> Cardinality(Presence(fiche, m, j))]
<1>1. Reservees(fiche, m, S) = SommeSur(w, S)
  BY DEF Reservees, SommeSur, MapThenSumSet, MapThenFoldSet
<1>2. \A j \in S : w[j] = HeuresDe(fiche, m)[j]
  BY DEF HeuresDe
<1>3. SommeSur(w, S) = SommeSur(HeuresDe(fiche, m), S)
  <2> HIDE DEF w
  <2> QED BY <1>2, SommeEgale
<1>4. ASSUME NEW s, \A j \in S : HeuresDuJour(s, j) = Presence(fiche, m, j)
      PROVE  HeuresDes(s, S) = SommeSur(HeuresDe(fiche, m), S)
  <2> DEFINE v == [j \in S |-> Cardinality(HeuresDuJour(s, j))]
  <2>1. HeuresDes(s, S) = SommeSur(v, S)
    BY DEF HeuresDes, SommeSur, MapThenSumSet, MapThenFoldSet
  <2>2. \A j \in S : v[j] = w[j]
    BY <1>4
  <2> HIDE DEF v, w
  <2>3. SommeSur(v, S) = SommeSur(w, S)
    BY <2>2, SommeEgale
  <2> QED BY <1>3, <2>1, <2>3
<1> QED BY <1>1, <1>3, <1>4

LEMMA AjustementsSommes ==
  ASSUME NEW fiche, NEW m, NEW X, NEW S \in SUBSET X, IsFiniteSet(S)
  PROVE  /\ ReduitParJour(fiche, m, S) = SommeSur(ReduitDe(fiche, m, X), S)
         /\ AjouteParJour(fiche, m, S) = SommeSur(EtenduDe(fiche, m, X), S)
<1> DEFINE r == [a \in S |-> Cardinality(Presence(fiche, m, a.date) \ a.presence)]
           e == [a \in S |-> Cardinality(a.presence \ Presence(fiche, m, a.date))]
<1>1. ReduitParJour(fiche, m, S) = SommeSur(r, S)
  BY DEF ReduitParJour, SommeSur, MapThenSumSet, MapThenFoldSet
<1>2. AjouteParJour(fiche, m, S) = SommeSur(e, S)
  BY DEF AjouteParJour, SommeSur, MapThenSumSet, MapThenFoldSet
<1>3. \A a \in S : r[a] = ReduitDe(fiche, m, X)[a] /\ e[a] = EtenduDe(fiche, m, X)[a]
  BY DEF ReduitDe, EtenduDe
<1> HIDE DEF r, e
<1>4. SommeSur(r, S) = SommeSur(ReduitDe(fiche, m, X), S)
  BY <1>3, SommeEgale
<1>5. SommeSur(e, S) = SommeSur(EtenduDe(fiche, m, X), S)
  BY <1>3, SommeEgale
<1> QED BY <1>1, <1>2, <1>4, <1>5

LEMMA AjustementsDuSegment ==
  ASSUME NEW fiche, NEW m, NEW X, NEW S \in SUBSET X, IsFiniteSet(S), NEW s,
         \A a \in S : HeuresDuJour(s, a.date) = Presence(fiche, m, a.date)
  PROVE  /\ Reductions(s, S) = SommeSur(ReduitDe(fiche, m, X), S)
         /\ Extensions(s, S) = SommeSur(EtenduDe(fiche, m, X), S)
<1> DEFINE u == [a \in S |-> Reduction(s, a)]
           v == [a \in S |-> Extension(s, a)]
<1>1. Reductions(s, S) = SommeSur(u, S)
  BY DEF Reductions, SommeSur, MapThenSumSet, MapThenFoldSet
<1>2. Extensions(s, S) = SommeSur(v, S)
  BY DEF Extensions, SommeSur, MapThenSumSet, MapThenFoldSet
<1>3. \A a \in S : u[a] = ReduitDe(fiche, m, X)[a] /\ v[a] = EtenduDe(fiche, m, X)[a]
  BY DEF Reduction, Extension, ReduitDe, EtenduDe
<1> HIDE DEF u, v
<1>4. SommeSur(u, S) = SommeSur(ReduitDe(fiche, m, X), S)
  BY <1>3, SommeEgale
<1>5. SommeSur(v, S) = SommeSur(EtenduDe(fiche, m, X), S)
  BY <1>3, SommeEgale
<1> QED BY <1>1, <1>2, <1>4, <1>5

\* The days that a segment has, and their version.
LEMMA JoursDuSegment ==
  ASSUME NEW fiche, ContratCorrect(fiche), NEW m \in Int, NEW d \in Couvrants(fiche, m)
  PROVE  /\ JoursActifs(SegmentDe(fiche, m, d), m) = JoursSous(fiche, m, d)
         /\ JoursSous(fiche, m, d) # {}
         /\ \A j : EstDe(fiche, m, d, j) => fiche.versions[d] = Regissant(fiche, m, j)
         /\ \A j : j \in JoursSous(fiche, m, d) <=> j \in Vie(fiche, m) /\ EstDe(fiche, m, d, j)
<1>1. d \in DOMAIN fiche.versions /\ JoursSous(fiche, m, d) # {}
  BY CouvrantsEnVigueur
<1>2. \A j \in JoursDuMois(m) : EstDansPeriode(SegmentDe(fiche, m, d), j) <=> j \in JoursSous(fiche, m, d)
  BY <1>1, SegmentDuJour, BornesDuMois
<1>3. JoursSous(fiche, m, d) \subseteq JoursDuMois(m)
  BY DEF JoursSous, Vie, JoursDuContrat
<1>4. JoursActifs(SegmentDe(fiche, m, d), m) = JoursSous(fiche, m, d)
  BY <1>2, <1>3 DEF JoursActifs
<1>5. \A j : EstDe(fiche, m, d, j) => fiche.versions[d] = Regissant(fiche, m, j)
  BY DEF EstDe, Regissant
<1>6. \A j : j \in JoursSous(fiche, m, d) <=> j \in Vie(fiche, m) /\ EstDe(fiche, m, d, j)
  BY DEF EstDe, JoursSous
<1> QED BY <1>1, <1>4, <1>5, <1>6

\* genererPrestationsMois of the creche, on one segment.
LEMMA CrecheDuSegment ==
  ASSUME NEW fiche, ContratCorrect(fiche), NEW m \in Int, fiche.mode = Creche,
         NEW saisie, SaisieCorrecte(saisie), NEW fermes,
         NEW d \in Couvrants(fiche, m), NEW p, EstPart(fiche, m, saisie, d, p)
  PROVE  Generer(SegmentDe(fiche, m, d), m, p, fermes) =
           IF IncompatibleSous(fiche, m, saisie, d)
                \/ DeduitsSous(fiche, m, saisie, d) > ReservesSous(fiche, m, fermes, d) THEN Refus
           ELSE [mode |-> Creche, annuel |-> fiche.versions[d].annuel,
                 mensualites |-> fiche.versions[d].mensualites,
                 complement |-> AjoutsSous(fiche, m, saisie, d),
                 reservees |-> ReservesSous(fiche, m, fermes, d),
                 deduites |-> DeduitsSous(fiche, m, saisie, d)]
<1> DEFINE s == SegmentDe(fiche, m, d)
<1>1. s.mode = Creche /\ s.champs = fiche.versions[d]
  BY DEF SegmentDe
<1>2. /\ JoursActifs(s, m) = JoursSous(fiche, m, d) /\ JoursSous(fiche, m, d) # {}
      /\ \A j : EstDe(fiche, m, d, j) => fiche.versions[d] = Regissant(fiche, m, j)
      /\ \A j : j \in JoursSous(fiche, m, d) <=> j \in Vie(fiche, m) /\ EstDe(fiche, m, d, j)
  BY JoursDuSegment
<1> HIDE DEF s
<1>3. \A j : EstDe(fiche, m, d, j) => HeuresDuJour(s, j) = Presence(fiche, m, j)
  BY <1>1, <1>2 DEF HeuresDuJour, Presence
<1>4. DansSegment(s, m, p.ajustements) = PriseDe(fiche, m, d, Ajustes(fiche, m, saisie))
  BY <1>2 DEF DansSegment, EstPart, PriseDe, Ajustes
<1>5. DansSegment(s, m, p.supplementaires) = PriseDe(fiche, m, d, AjoutsDe(fiche, m, saisie))
  BY <1>2 DEF DansSegment, EstPart, PriseDe, AjoutsDe
<1>6. Deductibles(p.absences) = PriseDe(fiche, m, d, Deductibles(saisie.absences))
  BY DEF EstPart, PriseDe, Deductibles
<1>7. Deductibles(PriseDe(fiche, m, d, Ajustes(fiche, m, saisie)))
        = PriseDe(fiche, m, d, Deductibles(Ajustes(fiche, m, saisie)))
  BY DEF PriseDe, Deductibles
<1>8. /\ PriseDe(fiche, m, d, Ajustes(fiche, m, saisie)) \in SUBSET saisie.ajustements
      /\ PriseDe(fiche, m, d, Deductibles(Ajustes(fiche, m, saisie))) \in SUBSET saisie.ajustements
      /\ PriseDe(fiche, m, d, AjoutsDe(fiche, m, saisie)) \in SUBSET saisie.supplementaires
      /\ PriseDe(fiche, m, d, Deductibles(saisie.absences)) \in SUBSET saisie.absences
  BY DEF PriseDe, Ajustes, AjoutsDe, Deductibles
<1>9. /\ IsFiniteSet(PriseDe(fiche, m, d, Ajustes(fiche, m, saisie)))
      /\ IsFiniteSet(PriseDe(fiche, m, d, Deductibles(Ajustes(fiche, m, saisie))))
      /\ IsFiniteSet(PriseDe(fiche, m, d, AjoutsDe(fiche, m, saisie)))
      /\ IsFiniteSet(PriseDe(fiche, m, d, Deductibles(saisie.absences)))
  BY <1>8, FS_Subset DEF SaisieCorrecte
<1>10. JoursSous(fiche, m, d) \ fermes \in SUBSET Int /\ IsFiniteSet(JoursSous(fiche, m, d) \ fermes)
  <2>1. JoursSous(fiche, m, d) \ fermes \in SUBSET Vie(fiche, m)
    BY DEF JoursSous
  <2> QED BY <2>1, VieFinie, FS_Subset
<1>11. HeuresDes(s, JoursSous(fiche, m, d) \ fermes) = ReservesSous(fiche, m, fermes, d)
  <2>1. \A j \in JoursSous(fiche, m, d) \ fermes : HeuresDuJour(s, j) = Presence(fiche, m, j)
    BY <1>2, <1>3
  <2> QED BY <1>10, <2>1, HeuresSommees DEF ReservesSous
<1>12. Durees(PriseDe(fiche, m, d, Deductibles(saisie.absences)))
         + Reductions(s, PriseDe(fiche, m, d, Deductibles(Ajustes(fiche, m, saisie))))
         = DeduitsSous(fiche, m, saisie, d)
  <2>1. \A a \in PriseDe(fiche, m, d, Deductibles(Ajustes(fiche, m, saisie))) :
          HeuresDuJour(s, a.date) = Presence(fiche, m, a.date)
    BY <1>3 DEF PriseDe
  <2>2. Reductions(s, PriseDe(fiche, m, d, Deductibles(Ajustes(fiche, m, saisie))))
          = SommeSur(ReduitDe(fiche, m, saisie.ajustements),
                     PriseDe(fiche, m, d, Deductibles(Ajustes(fiche, m, saisie))))
    BY <1>8, <1>9, <2>1, AjustementsDuSegment
  <2>3. Durees(PriseDe(fiche, m, d, Deductibles(saisie.absences)))
          = SommeSur(DureeDe(saisie.absences), PriseDe(fiche, m, d, Deductibles(saisie.absences)))
    BY <1>8, <1>9, DureesSommees
  <2> QED BY <2>2, <2>3 DEF DeduitsSous
<1>13. p.complement + Durees(PriseDe(fiche, m, d, AjoutsDe(fiche, m, saisie)))
         + Extensions(s, PriseDe(fiche, m, d, Ajustes(fiche, m, saisie)))
         = AjoutsSous(fiche, m, saisie, d)
  <2>1. \A a \in PriseDe(fiche, m, d, Ajustes(fiche, m, saisie)) :
          HeuresDuJour(s, a.date) = Presence(fiche, m, a.date)
    BY <1>3 DEF PriseDe
  <2>2. Extensions(s, PriseDe(fiche, m, d, Ajustes(fiche, m, saisie)))
          = SommeSur(EtenduDe(fiche, m, saisie.ajustements), PriseDe(fiche, m, d, Ajustes(fiche, m, saisie)))
    BY <1>8, <1>9, <2>1, AjustementsDuSegment
  <2>3. Durees(PriseDe(fiche, m, d, AjoutsDe(fiche, m, saisie)))
          = SommeSur(DureeDe(saisie.supplementaires), PriseDe(fiche, m, d, AjoutsDe(fiche, m, saisie)))
    BY <1>8, <1>9, DureesSommees
  <2>4. p.complement = IF d = Mensuelle(fiche, m) THEN saisie.complement ELSE 0
    BY DEF EstPart
  <2> QED BY <2>2, <2>3, <2>4 DEF AjoutsSous
<1>14. AjustementRefuse(s, p, m) <=> IncompatibleSous(fiche, m, saisie, d)
  <2>1. \A a : a \in AjustementsDuMois(p, m)
          <=> a \in saisie.ajustements /\ a.date \in JoursDuMois(m) /\ EstDe(fiche, m, d, a.date)
    BY DEF AjustementsDuMois, EstPart, PriseDe
  <2>2. \A j : EstDe(fiche, m, d, j)
          => (j \in DatesOccupees(p) <=> \E x \in saisie.absences \cup saisie.supplementaires : x.date = j)
    BY DEF DatesOccupees, EstPart, PriseDe
  <2>3. ASSUME NEW a \in saisie.ajustements, a.date \in JoursDuMois(m), EstDe(fiche, m, d, a.date)
        PROVE  (\E b \in AjustementsDuMois(p, m) \ {a} : b.date = a.date)
                 <=> \E b \in saisie.ajustements \ {a} : b.date = a.date
    BY <2>1, <2>3
  <2>4. ASSUME NEW a \in saisie.ajustements, a.date \in JoursDuMois(m), EstDe(fiche, m, d, a.date)
        PROVE  (\/ HeuresDuJour(s, a.date) = {}
                \/ a.date \in DatesOccupees(p)
                \/ \E b \in AjustementsDuMois(p, m) \ {a} : b.date = a.date)
               <=> \/ Presence(fiche, m, a.date) = {}
                   \/ \E x \in saisie.absences \cup saisie.supplementaires \cup (saisie.ajustements \ {a}) :
                        x.date = a.date
    <3>1. HeuresDuJour(s, a.date) = Presence(fiche, m, a.date)
      BY <1>3, <2>4
    <3>2. a.date \in DatesOccupees(p)
            <=> \E x \in saisie.absences \cup saisie.supplementaires : x.date = a.date
      BY <2>2, <2>4
    <3>3. (\E b \in AjustementsDuMois(p, m) \ {a} : b.date = a.date)
            <=> \E b \in saisie.ajustements \ {a} : b.date = a.date
      BY <2>3, <2>4
    <3> QED BY <3>1, <3>2, <3>3
  <2> QED BY <2>1, <2>4 DEF AjustementRefuse, IncompatibleSous
<1> DEFINE reservees == HeuresDes(s, JoursActifs(s, m) \ fermes)
           deduites  == Durees(Deductibles(p.absences)) + Reductions(s, Deductibles(DansSegment(s, m, p.ajustements)))
           ajouts    == p.complement + Durees(DansSegment(s, m, p.supplementaires))
                          + Extensions(s, DansSegment(s, m, p.ajustements))
<1>15. Generer(s, m, p, fermes) =
         IF AjustementRefuse(s, p, m) \/ deduites > reservees THEN Refus
         ELSE [mode |-> Creche, annuel |-> s.champs.annuel, mensualites |-> s.champs.mensualites,
               complement |-> ajouts, reservees |-> reservees, deduites |-> deduites]
  <2>1. Generer(s, m, p, fermes) = GenererCreche(s, m, p, fermes)
    BY <1>1 DEF Generer
  <2>2. JoursActifs(s, m) # {}
    BY <1>2
  <2> QED BY <2>1, <2>2 DEF GenererCreche
<1>16. reservees = ReservesSous(fiche, m, fermes, d)
  BY <1>2, <1>11
<1>17. deduites = DeduitsSous(fiche, m, saisie, d)
  BY <1>4, <1>6, <1>7, <1>12
<1>18. ajouts = AjoutsSous(fiche, m, saisie, d)
  BY <1>4, <1>5, <1>13
<1> HIDE DEF reservees, deduites, ajouts
<1>19. Generer(s, m, p, fermes) =
         IF IncompatibleSous(fiche, m, saisie, d)
              \/ DeduitsSous(fiche, m, saisie, d) > ReservesSous(fiche, m, fermes, d) THEN Refus
         ELSE [mode |-> Creche, annuel |-> fiche.versions[d].annuel,
               mensualites |-> fiche.versions[d].mensualites,
               complement |-> AjoutsSous(fiche, m, saisie, d),
               reservees |-> ReservesSous(fiche, m, fermes, d),
               deduites |-> DeduitsSous(fiche, m, saisie, d)]
  BY <1>1, <1>14, <1>15, <1>16, <1>17, <1>18
<1> QED BY <1>19 DEF s

\* The quantities of a version are naturals.
LEMMA PresenceFinie ==
  ASSUME NEW fiche, ContratCorrect(fiche), NEW m \in Int, Vie(fiche, m) # {}, NEW j \in Int
  PROVE  IsFiniteSet(Presence(fiche, m, j))
<1>1. /\ \A i \in Vie(fiche, m) : EnVigueur(fiche, i) \in Couvrants(fiche, m)
      /\ \A d \in Couvrants(fiche, m) : d \in DOMAIN fiche.versions
  BY CouvrantsEnVigueur
<1>2. Mensuelle(fiche, m) \in Couvrants(fiche, m)
  <2>1. Min(Vie(fiche, m)) \in Vie(fiche, m)
    BY VieFinie, MinDEntiers
  <2> QED BY <1>1, <2>1 DEF Mensuelle
<1>3. \E d \in DOMAIN fiche.versions : Regissant(fiche, m, j) = fiche.versions[d]
  BY <1>1, <1>2 DEF Regissant
<1>4. VersionCorrecte(Regissant(fiche, m, j))
  BY <1>3 DEF ContratCorrect
<1>5. JourSemaine(j) \in 0 .. JOURS_SEMAINE - 1
  BY ConstantesPrestations DEF JourSemaine
<1> QED BY <1>4, <1>5 DEF VersionCorrecte, Presence

LEMMA QuantitesNaturelles ==
  ASSUME NEW fiche, ContratCorrect(fiche), NEW m \in Int, Vie(fiche, m) # {},
         NEW saisie, SaisieCorrecte(saisie)
  PROVE  /\ \A j \in Int : HeuresDe(fiche, m)[j] \in Nat
         /\ \A x \in saisie.absences : DureeDe(saisie.absences)[x] \in Nat
         /\ \A x \in saisie.supplementaires : DureeDe(saisie.supplementaires)[x] \in Nat
         /\ \A a \in saisie.ajustements : /\ ReduitDe(fiche, m, saisie.ajustements)[a] \in Nat
                                          /\ EtenduDe(fiche, m, saisie.ajustements)[a] \in Nat
<1>1. \A j \in Int : HeuresDe(fiche, m)[j] \in Nat
  BY PresenceFinie, FS_CardinalityType DEF HeuresDe
<1>2. \A x \in saisie.absences : DureeDe(saisie.absences)[x] \in Nat
  BY DEF DureeDe, SaisieCorrecte
<1>3. \A x \in saisie.supplementaires : DureeDe(saisie.supplementaires)[x] \in Nat
  BY DEF DureeDe, SaisieCorrecte
<1>4. ASSUME NEW a \in saisie.ajustements
      PROVE  /\ ReduitDe(fiche, m, saisie.ajustements)[a] \in Nat
             /\ EtenduDe(fiche, m, saisie.ajustements)[a] \in Nat
  <2>1. a.date \in Int /\ IsFiniteSet(a.presence)
    BY DEF SaisieCorrecte
  <2>2. IsFiniteSet(Presence(fiche, m, a.date))
    BY <2>1, PresenceFinie
  <2>3. IsFiniteSet(Presence(fiche, m, a.date) \ a.presence) /\ IsFiniteSet(a.presence \ Presence(fiche, m, a.date))
    BY <2>1, <2>2, FS_Subset
  <2> QED BY <2>3, FS_CardinalityType DEF ReduitDe, EtenduDe
<1> QED BY <1>1, <1>2, <1>3, <1>4

\* The versions share out what they take.
LEMMA SommePrise ==
  ASSUME NEW fiche, ContratCorrect(fiche), NEW m \in Int, Vie(fiche, m) # {},
         NEW I, NEW k, NEW dates, Enumeration(fiche, m, I, k, dates),
         NEW X, IsFiniteSet(X), NEW w, \A x \in X : w[x] \in Nat,
         NEW v, \A i \in I : v[i] = SommeSur(w, PriseDe(fiche, m, dates[i], X))
  PROVE  SommeSur(v, I) = SommeSur(w, X) /\ \A i \in I : v[i] \in Nat
<1> DEFINE P == [i \in I |-> PriseDe(fiche, m, dates[i], X)]
<1>1. \A i \in I : P[i] = {x \in X : EstDe(fiche, m, dates[i], x.date)}
  BY DEF PriseDe
<1>2. \A i \in I : v[i] = SommeSur(w, P[i])
  OBVIOUS
<1> HIDE DEF P
<1>3. \A x \in X : \E i \in I : x \in P[i] /\ \A h \in I : x \in P[h] => h = i
  <2> TAKE x \in X
  <2>1. PICK i \in I : EstSeul(fiche, m, I, dates, i, x.date)
    BY UneVersion
  <2> QED BY <1>1, <2>1 DEF EstSeul
<1>4. IsFiniteSet(I) /\ \A i \in I : P[i] \in SUBSET X
  BY <1>1 DEF Enumeration
<1> QED BY <1>2, <1>3, <1>4, SommeDesParts

LEMMA TotalReserve ==
  ASSUME NEW fiche, ContratCorrect(fiche), NEW m \in Int, Vie(fiche, m) # {}, NEW fermes,
         NEW I, NEW k, NEW dates, Enumeration(fiche, m, I, k, dates),
         NEW v, \A i \in I : v[i] = ReservesSous(fiche, m, fermes, dates[i])
  PROVE  /\ SommeSur(v, I) = Reservees(fiche, m, JoursOuverts(fiche, m, fermes))
         /\ \A i \in I : v[i] \in Nat
<1> DEFINE w == HeuresDe(fiche, m)
           X == Vie(fiche, m) \ fermes
           P == [i \in I |-> JoursSous(fiche, m, dates[i]) \ fermes]
<1>1. X \in SUBSET Int /\ IsFiniteSet(X)
  BY VieFinie, FS_Subset
<1>2. ASSUME NEW i \in I PROVE P[i] = {j \in X : EstDe(fiche, m, dates[i], j)}
  <2>1. \A j : j \in JoursSous(fiche, m, dates[i]) <=> j \in Vie(fiche, m) /\ EstDe(fiche, m, dates[i], j)
    BY DEF JoursSous, EstDe
  <2> QED BY <2>1
<1>3. \A i \in I : v[i] = SommeSur(w, P[i])
  BY DEF ReservesSous
<1>4. \A j \in X : w[j] \in Nat
  BY <1>1, PresenceFinie, FS_CardinalityType DEF HeuresDe
<1>5. Reservees(fiche, m, X) = SommeSur(w, X)
  BY <1>1, HeuresSommees
<1> HIDE DEF P, w, X
<1>6. \A j \in X : \E i \in I : j \in P[i] /\ \A h \in I : j \in P[h] => h = i
  <2> TAKE j \in X
  <2>1. PICK i \in I : EstSeul(fiche, m, I, dates, i, j)
    BY UneVersion
  <2> QED BY <1>2, <2>1 DEF EstSeul
<1>7. IsFiniteSet(I) /\ \A i \in I : P[i] \in SUBSET X
  BY <1>2 DEF Enumeration
<1>8. IsFiniteSet(X)
  BY <1>1
<1>9. SommeSur(v, I) = SommeSur(w, X) /\ \A i \in I : v[i] \in Nat
  BY <1>3, <1>4, <1>6, <1>7, <1>8, SommeDesParts
<1> QED BY <1>5, <1>9 DEF X, JoursOuverts

LEMMA TotalDeduit ==
  ASSUME NEW fiche, ContratCorrect(fiche), NEW m \in Int, Vie(fiche, m) # {},
         NEW saisie, SaisieCorrecte(saisie),
         NEW I, NEW k, NEW dates, Enumeration(fiche, m, I, k, dates),
         NEW w, \A i \in I : w[i] = DeduitsSous(fiche, m, saisie, dates[i])
  PROVE  /\ SommeSur(w, I) = DeduitesAux(fiche, m, saisie, Dates(saisie))
         /\ \A i \in I : w[i] \in Nat
<1> DEFINE A == Deductibles(saisie.absences)
           B == Deductibles(Ajustes(fiche, m, saisie))
           a == DureeDe(saisie.absences)
           b == ReduitDe(fiche, m, saisie.ajustements)
           u == [i \in I |-> SommeSur(a, PriseDe(fiche, m, dates[i], A))]
           v == [i \in I |-> SommeSur(b, PriseDe(fiche, m, dates[i], B))]
<1>1. A \in SUBSET saisie.absences /\ B \in SUBSET saisie.ajustements
  BY DEF Deductibles, Ajustes
<1>2. IsFiniteSet(A) /\ IsFiniteSet(B)
  BY <1>1, FS_Subset DEF SaisieCorrecte
<1>3. (\A x \in A : a[x] \in Nat) /\ \A x \in B : b[x] \in Nat
  BY <1>1, QuantitesNaturelles
<1>4. \A i \in I : w[i] = u[i] + v[i]
  BY DEF DeduitsSous
<1>5. DeduitesAux(fiche, m, saisie, Dates(saisie)) = SommeSur(a, A) + SommeSur(b, B)
  <2> DEFINE A2 == {x \in saisie.absences : x.deductible /\ x.date \in Dates(saisie)}
             B2 == {x \in Ajustes(fiche, m, saisie) : x.deductible /\ x.date \in Dates(saisie)}
  <2>1. A2 = A /\ B2 = B
    BY DEF Dates, Deductibles, Ajustes
  <2>2. DeduitesAux(fiche, m, saisie, Dates(saisie)) =
          MapThenSumSet(LAMBDA x : x.duree, A2) + ReduitParJour(fiche, m, B2)
    BY DEF DeduitesAux, ReduitParJour
  <2> HIDE DEF A2, B2, A, B
  <2>3. A2 \in SUBSET saisie.absences /\ IsFiniteSet(A2) /\ B2 \in SUBSET saisie.ajustements /\ IsFiniteSet(B2)
    BY <1>1, <1>2, <2>1
  <2>4. MapThenSumSet(LAMBDA x : x.duree, A2) = SommeSur(a, A2)
    BY <2>3, DureesSommees
  <2>5. ReduitParJour(fiche, m, B2) = SommeSur(b, B2)
    BY <2>3, AjustementsSommes
  <2> HIDE DEF a, b
  <2>6. DeduitesAux(fiche, m, saisie, Dates(saisie)) = SommeSur(a, A2) + SommeSur(b, B2)
    BY <2>2, <2>4, <2>5
  <2> QED BY <2>1, <2>6
<1>6. \A i \in I : u[i] = SommeSur(a, PriseDe(fiche, m, dates[i], A))
  OBVIOUS
<1>7. \A i \in I : v[i] = SommeSur(b, PriseDe(fiche, m, dates[i], B))
  OBVIOUS
<1> HIDE DEF A, B, a, b, u, v
<1>8. SommeSur(u, I) = SommeSur(a, A) /\ \A i \in I : u[i] \in Nat
  BY <1>2, <1>3, <1>6, SommePrise
<1>9. SommeSur(v, I) = SommeSur(b, B) /\ \A i \in I : v[i] \in Nat
  BY <1>2, <1>3, <1>7, SommePrise
<1>10. IsFiniteSet(I)
  BY DEF Enumeration
<1>11. \A i \in I : u[i] \in Nat /\ v[i] \in Nat /\ w[i] = u[i] + v[i]
  BY <1>4, <1>8, <1>9
<1>12. SommeSur(w, I) = SommeSur(u, I) + SommeSur(v, I)
  BY <1>10, <1>11, SommePlus
<1>13. \A i \in I : w[i] \in Nat
  BY <1>11
<1> QED BY <1>5, <1>8, <1>9, <1>12, <1>13

\* The hours added in a month, as the reference counts them.
ComplementParJour(fiche, m, saisie) ==
  saisie.complement + MapThenSumSet(LAMBDA x : x.duree, AjoutsDe(fiche, m, saisie))
  + AjouteParJour(fiche, m, Ajustes(fiche, m, saisie))

LEMMA TotalAjoute ==
  ASSUME NEW fiche, ContratCorrect(fiche), NEW m \in Int, Vie(fiche, m) # {},
         NEW saisie, SaisieCorrecte(saisie),
         NEW I, NEW k, NEW dates, Enumeration(fiche, m, I, k, dates),
         NEW w, \A i \in I : w[i] = AjoutsSous(fiche, m, saisie, dates[i])
  PROVE  /\ SommeSur(w, I) = ComplementParJour(fiche, m, saisie)
         /\ \A i \in I : w[i] \in Nat
<1> DEFINE A == AjoutsDe(fiche, m, saisie)
           B == Ajustes(fiche, m, saisie)
           a == DureeDe(saisie.supplementaires)
           b == EtenduDe(fiche, m, saisie.ajustements)
           c == [i \in I |-> IF dates[i] = Mensuelle(fiche, m) THEN saisie.complement ELSE 0]
           u == [i \in I |-> SommeSur(a, PriseDe(fiche, m, dates[i], A))]
           v == [i \in I |-> SommeSur(b, PriseDe(fiche, m, dates[i], B))]
           t == [i \in I |-> c[i] + u[i]]
<1>1. A \in SUBSET saisie.supplementaires /\ B \in SUBSET saisie.ajustements
  BY DEF AjoutsDe, Ajustes
<1>2. IsFiniteSet(A) /\ IsFiniteSet(B)
  BY <1>1, FS_Subset DEF SaisieCorrecte
<1>3. (\A x \in A : a[x] \in Nat) /\ \A x \in B : b[x] \in Nat
  BY <1>1, QuantitesNaturelles
<1>4. \A i \in I : w[i] = t[i] + v[i] /\ t[i] = c[i] + u[i]
  BY DEF AjoutsSous
<1>5. ComplementParJour(fiche, m, saisie) = saisie.complement + SommeSur(a, A) + SommeSur(b, B)
  <2>1. ComplementParJour(fiche, m, saisie) =
          saisie.complement + MapThenSumSet(LAMBDA x : x.duree, A) + AjouteParJour(fiche, m, B)
    BY DEF ComplementParJour
  <2> HIDE DEF A, B
  <2>2. MapThenSumSet(LAMBDA x : x.duree, A) = SommeSur(a, A)
    BY <1>1, <1>2, DureesSommees
  <2>3. AjouteParJour(fiche, m, B) = SommeSur(b, B)
    BY <1>1, <1>2, AjustementsSommes
  <2> HIDE DEF a, b
  <2> QED BY <2>1, <2>2, <2>3
<1>6. /\ c[k] = saisie.complement /\ saisie.complement \in Nat
      /\ \A i \in I : c[i] \in Nat /\ (i # k => c[i] = 0)
  BY DEF Enumeration, SaisieCorrecte
<1>7. \A i \in I : u[i] = SommeSur(a, PriseDe(fiche, m, dates[i], A))
  OBVIOUS
<1>8. \A i \in I : v[i] = SommeSur(b, PriseDe(fiche, m, dates[i], B))
  OBVIOUS
<1> HIDE DEF A, B, a, b, c, t, u, v
<1>9. SommeSur(u, I) = SommeSur(a, A) /\ \A i \in I : u[i] \in Nat
  BY <1>2, <1>3, <1>7, SommePrise
<1>10. SommeSur(v, I) = SommeSur(b, B) /\ \A i \in I : v[i] \in Nat
  BY <1>2, <1>3, <1>8, SommePrise
<1>11. IsFiniteSet(I) /\ k \in I
  BY DEF Enumeration
<1>12. SommeSur(c, I) = saisie.complement
  BY <1>6, <1>11, SommeSeule
<1>13. \A i \in I : c[i] \in Nat /\ u[i] \in Nat /\ t[i] = c[i] + u[i]
  BY <1>4, <1>6, <1>9
<1>14. SommeSur(t, I) = SommeSur(c, I) + SommeSur(u, I)
  BY <1>11, <1>13, SommePlus
<1>15. \A i \in I : t[i] \in Nat /\ v[i] \in Nat /\ w[i] = t[i] + v[i]
  BY <1>4, <1>10, <1>13
<1>16. SommeSur(w, I) = SommeSur(t, I) + SommeSur(v, I)
  BY <1>11, <1>15, SommePlus
<1>17. \A i \in I : w[i] \in Nat
  BY <1>15
<1>18. SommeSur(w, I) = ComplementParJour(fiche, m, saisie)
  BY <1>5, <1>9, <1>10, <1>12, <1>14, <1>16
<1> QED BY <1>17, <1>18

LEMMA DeduitesParVersion ==
  ASSUME NEW fiche, ContratCorrect(fiche), NEW m \in Int, Vie(fiche, m) # {},
         NEW saisie, SaisieCorrecte(saisie), NEW fermes, NEW d \in Couvrants(fiche, m),
         NEW autres, autres = IF d = Mensuelle(fiche, m) THEN Dates(saisie) \ Vie(fiche, m) ELSE {}
  PROVE  /\ DeduitesAux(fiche, m, saisie, JoursSous(fiche, m, d) \cup autres) = DeduitsSous(fiche, m, saisie, d)
         /\ Reservees(fiche, m, JoursSous(fiche, m, d) \ fermes) = ReservesSous(fiche, m, fermes, d)
<1> DEFINE J == JoursSous(fiche, m, d) \cup autres
           A == {x \in saisie.absences : x.deductible /\ x.date \in J}
           B == {x \in Ajustes(fiche, m, saisie) : x.deductible /\ x.date \in J}
<1>1. \A j \in Dates(saisie) : j \in J <=> EstDe(fiche, m, d, j)
  BY DEF JoursSous, EstDe
<1> HIDE DEF J
<1>2. A = PriseDe(fiche, m, d, Deductibles(saisie.absences))
  BY <1>1 DEF Dates, PriseDe, Deductibles
<1>3. B = PriseDe(fiche, m, d, Deductibles(Ajustes(fiche, m, saisie)))
  BY <1>1 DEF Dates, PriseDe, Deductibles, Ajustes
<1>4. A \in SUBSET saisie.absences /\ B \in SUBSET saisie.ajustements
  BY DEF Ajustes
<1>5. DeduitesAux(fiche, m, saisie, J) = MapThenSumSet(LAMBDA x : x.duree, A) + ReduitParJour(fiche, m, B)
  BY DEF DeduitesAux, ReduitParJour
<1> HIDE DEF A, B
<1>6. IsFiniteSet(A) /\ IsFiniteSet(B)
  BY <1>4, FS_Subset DEF SaisieCorrecte
<1>7. MapThenSumSet(LAMBDA x : x.duree, A) = SommeSur(DureeDe(saisie.absences), A)
  BY <1>4, <1>6, DureesSommees
<1>8. ReduitParJour(fiche, m, B) = SommeSur(ReduitDe(fiche, m, saisie.ajustements), B)
  BY <1>4, <1>6, AjustementsSommes
<1>9. DeduitesAux(fiche, m, saisie, J) = DeduitsSous(fiche, m, saisie, d)
  BY <1>2, <1>3, <1>5, <1>7, <1>8 DEF DeduitsSous
<1>10. Reservees(fiche, m, JoursSous(fiche, m, d) \ fermes) = ReservesSous(fiche, m, fermes, d)
  <2>1. JoursSous(fiche, m, d) \ fermes \in SUBSET Vie(fiche, m)
    BY DEF JoursSous
  <2>2. JoursSous(fiche, m, d) \ fermes \in SUBSET Int /\ IsFiniteSet(JoursSous(fiche, m, d) \ fermes)
    BY <2>1, VieFinie, FS_Subset
  <2> QED BY <2>2, HeuresSommees DEF ReservesSous
<1> QED BY <1>9, <1>10 DEF J

\* A version deducts more than it reserves when one of the segments does.
LEMMA ExcesDuneVersion ==
  ASSUME NEW fiche, ContratCorrect(fiche), NEW m \in Int, Vie(fiche, m) # {},
         NEW saisie, SaisieCorrecte(saisie), NEW fermes,
         NEW I, NEW k, NEW dates, Enumeration(fiche, m, I, k, dates)
  PROVE  VersionExcedee(fiche, m, saisie, fermes)
           <=> \E i \in I : DeduitsSous(fiche, m, saisie, dates[i]) > ReservesSous(fiche, m, fermes, dates[i])
<1> DEFINE Exces(d) == DeduitsSous(fiche, m, saisie, d) > ReservesSous(fiche, m, fermes, d)
           autres(d) == IF d = Mensuelle(fiche, m) THEN Dates(saisie) \ Vie(fiche, m) ELSE {}
           Aux(d) == DeduitesAux(fiche, m, saisie, JoursSous(fiche, m, d) \cup autres(d))
                       > Reservees(fiche, m, JoursSous(fiche, m, d) \ fermes)
           Brut(d) == LET jours == {j \in Vie(fiche, m) : EnVigueur(fiche, j) = d}
                      IN DeduitesAux(fiche, m, saisie, jours \cup autres(d))
                           > Reservees(fiche, m, jours \ fermes)
<1>1. Couvrants(fiche, m) = {EnVigueur(fiche, j) : j \in Vie(fiche, m)}
  BY CouvrantsEnVigueur
<1>2. VersionExcedee(fiche, m, saisie, fermes)
        <=> \E d \in {EnVigueur(fiche, j) : j \in Vie(fiche, m)} : Brut(d)
  BY DEF VersionExcedee
<1>3. ASSUME NEW d \in Couvrants(fiche, m) PROVE Brut(d) <=> Exces(d)
  <2>1. Brut(d) <=> Aux(d)
    BY DEF JoursSous
  <2> DEFINE a == autres(d)
  <2>2. a = IF d = Mensuelle(fiche, m) THEN Dates(saisie) \ Vie(fiche, m) ELSE {}
    OBVIOUS
  <2>3. Aux(d) <=> DeduitesAux(fiche, m, saisie, JoursSous(fiche, m, d) \cup a)
                     > Reservees(fiche, m, JoursSous(fiche, m, d) \ fermes)
    OBVIOUS
  <2> HIDE DEF a, Aux
  <2>4. /\ DeduitesAux(fiche, m, saisie, JoursSous(fiche, m, d) \cup a) = DeduitsSous(fiche, m, saisie, d)
        /\ Reservees(fiche, m, JoursSous(fiche, m, d) \ fermes) = ReservesSous(fiche, m, fermes, d)
    BY <2>2, DeduitesParVersion
  <2> QED BY <2>1, <2>3, <2>4
<1> HIDE DEF Brut, Exces
<1>4. VersionExcedee(fiche, m, saisie, fermes) <=> \E d \in Couvrants(fiche, m) : Exces(d)
  BY <1>1, <1>2, <1>3
<1>5. (\E d \in Couvrants(fiche, m) : Exces(d)) <=> \E i \in I : Exces(dates[i])
  BY DEF Enumeration
<1> QED BY <1>4, <1>5 DEF Exces

\* An incompatible adjustment is so under its version.
LEMMA IncompatibleParVersion ==
  ASSUME NEW fiche, ContratCorrect(fiche), NEW m \in Int, Vie(fiche, m) # {}, NEW saisie,
         NEW I, NEW k, NEW dates, Enumeration(fiche, m, I, k, dates)
  PROVE  AjustementIncompatible(fiche, m, saisie) <=> \E i \in I : IncompatibleSous(fiche, m, saisie, dates[i])
<1>1. ASSUME AjustementIncompatible(fiche, m, saisie)
      PROVE  \E i \in I : IncompatibleSous(fiche, m, saisie, dates[i])
  <2>1. PICK a \in saisie.ajustements :
          /\ a.date \in JoursDuMois(m)
          /\ \/ Presence(fiche, m, a.date) = {}
             \/ \E x \in saisie.absences \cup saisie.supplementaires \cup (saisie.ajustements \ {a}) : x.date = a.date
    BY <1>1 DEF AjustementIncompatible
  <2>2. PICK i \in I : EstSeul(fiche, m, I, dates, i, a.date)
    BY UneVersion
  <2>3. IncompatibleSous(fiche, m, saisie, dates[i])
    BY <2>1, <2>2 DEF IncompatibleSous, EstSeul
  <2> QED BY <2>3
<1>2. ASSUME NEW i \in I, IncompatibleSous(fiche, m, saisie, dates[i])
      PROVE  AjustementIncompatible(fiche, m, saisie)
  BY <1>2 DEF IncompatibleSous, AjustementIncompatible
<1> QED BY <1>1, <1>2

\* A month that no two versions share has one segment.
LEMMA UneSeule ==
  ASSUME NEW fiche, ContratCorrect(fiche), NEW m \in Int,
         NEW I, NEW k, NEW dates, Enumeration(fiche, m, I, k, dates), ~Partage(fiche, m)
  PROVE  I = {k}
<1> DEFINE D == Couvrants(fiche, m)
<1>1. IsFiniteSet(D) /\ D = {EnVigueur(fiche, j) : j \in Vie(fiche, m)}
  BY CouvrantsEnVigueur
<1>2. ~(Cardinality(D) > 1)
  BY <1>1 DEF Partage
<1> HIDE DEF D
<1>3. dates[k] \in D /\ \A i \in I : dates[i] \in D
  BY DEF Enumeration, D
<1>4. /\ IsFiniteSet(D \ {dates[k]}) /\ Cardinality(D \ {dates[k]}) = Cardinality(D) - 1
      /\ Cardinality(D) \in Nat
  BY <1>1, <1>3, FS_RemoveElement, FS_CardinalityType
<1>5. Cardinality(D \ {dates[k]}) \in Nat
  BY <1>4, FS_CardinalityType
<1>6. Cardinality(D \ {dates[k]}) = 0
  BY <1>2, <1>4, <1>5
<1>7. D \ {dates[k]} = {}
  BY <1>4, <1>6, FS_EmptySet
<1>8. \A i \in I : dates[i] = dates[k]
  BY <1>3, <1>7
<1> QED BY <1>8 DEF Enumeration

\* The quantities of the parts add up.
LEMMA TotalDeplie ==
  ASSUME NEW q, NEW champ
  PROVE  Total(q, champ) = SommeSur([i \in DOMAIN q |-> q[i][champ]], DOMAIN q)
BY DEF Total, SommeSur, MapThenSumSet, MapThenFoldSet

ColonneDe(q, I, champ, v) == DOMAIN q = I /\ \A i \in I : v[i] = q[i][champ]

LEMMA TotalSomme ==
  ASSUME NEW q, NEW I, IsFiniteSet(I), NEW champ, NEW v, ColonneDe(q, I, champ, v)
  PROVE  Total(q, champ) = SommeSur(v, I)
<1> DEFINE u == [i \in DOMAIN q |-> q[i][champ]]
<1>1. Total(q, champ) = SommeSur(u, DOMAIN q)
  BY TotalDeplie
<1>2. DOMAIN q = I /\ \A i \in I : u[i] = v[i]
  BY DEF ColonneDe
<1> HIDE DEF u
<1> QED BY <1>1, <1>2, SommeEgale

LEMMA FusionnerCreche ==
  ASSUME NEW q, NEW k, q[k].mode = Creche
  PROVE  Fusionner(q, k) = [q[k] EXCEPT !.complement = Total(q, "complement"),
                              !.reservees = Total(q, "reservees"), !.deduites = Total(q, "deduites")]
BY DEF Fusionner, Creche

UneCreche(an, me, ajo, res, ded) ==
  [mode |-> Creche, annuel |-> an, mensualites |-> me, complement |-> ajo, reservees |-> res, deduites |-> ded]

\* The months of the segments, field by field.
TableDeCreches(n, q, an, me, ajo, res, ded) ==
  /\ n \in Nat \ {0} /\ DOMAIN q = 1 .. n
  /\ \A i \in 1 .. n : q[i] = UneCreche(an[i], me[i], ajo[i], res[i], ded[i])
  /\ \A i \in 1 .. n : an[i] \in Nat /\ me[i] \in Nat /\ ajo[i] \in Nat /\ res[i] \in Nat /\ ded[i] \in Nat

LEMMA CrechePossible ==
  ASSUME NEW an \in Nat, NEW me \in Nat, NEW ajo \in Nat, NEW res \in Nat, NEW ded \in Nat
  PROVE  UneCreche(an, me, ajo, res, ded) \in PrestationsPossibles
BY DEF UneCreche, PrestationsPossibles

LEMMA FusionDeCreche ==
  ASSUME NEW n, NEW q, NEW an, NEW me, NEW ajo, NEW res, NEW ded, 
         TableDeCreches(n, q, an, me, ajo, res, ded), NEW k \in 1 .. n,
         NEW mois, mois = Rassemblees(n, q, k)
  PROVE  mois = UneCreche(an[k], me[k], SommeSur(ajo, 1 .. n), SommeSur(res, 1 .. n), SommeSur(ded, 1 .. n))
<1>0. /\ n \in Nat \ {0} /\ DOMAIN q = 1 .. n
      /\ \A i \in 1 .. n : q[i] = UneCreche(an[i], me[i], ajo[i], res[i], ded[i])
      /\ \A i \in 1 .. n : an[i] \in Nat /\ me[i] \in Nat /\ ajo[i] \in Nat /\ res[i] \in Nat /\ ded[i] \in Nat
  BY DEF TableDeCreches
<1>1. IsFiniteSet(1 .. n)
  <2>1. 1 \in Int /\ n \in Int
    BY <1>0
  <2> QED BY <2>1, FS_Interval
<1>2. \A i \in 1 .. n : q[i] = [mode |-> Creche, annuel |-> an[i], mensualites |-> me[i],
                                complement |-> ajo[i], reservees |-> res[i], deduites |-> ded[i]]
  BY <1>0 DEF UneCreche
<1>3. \A i \in 1 .. n : q[i] \in PrestationsPossibles
  <2> SUFFICES ASSUME NEW i \in 1 .. n PROVE q[i] \in PrestationsPossibles
    OBVIOUS
  <2>1. q[i] = UneCreche(an[i], me[i], ajo[i], res[i], ded[i])
    BY <1>0
  <2>2. an[i] \in Nat /\ me[i] \in Nat /\ ajo[i] \in Nat /\ res[i] \in Nat /\ ded[i] \in Nat
    BY <1>0
  <2>3. UneCreche(an[i], me[i], ajo[i], res[i], ded[i]) \in PrestationsPossibles
    BY <2>2, CrechePossible
  <2> QED BY <2>1, <2>3
<1>4. ~ \E i \in 1 .. n : q[i] = Refus
  BY <1>3, ConstantesPrestations
<1>5. /\ \A i \in 1 .. n : /\ q[i].complement = ajo[i] /\ q[i].reservees = res[i] /\ q[i].deduites = ded[i]
      /\ DOMAIN q = 1 .. n
  BY <1>0, <1>2
<1>6. CASE n = 1
  <2>1. k = 1 /\ 1 .. n = {1}
    BY <1>0, <1>6
  <2>2. SommeSur(ajo, {1}) = ajo[1] /\ SommeSur(res, {1}) = res[1] /\ SommeSur(ded, {1}) = ded[1]
    <3>1. IsFiniteSet({1}) /\ 1 \in {1} /\ {1} \ {1} = {}
      BY FS_Singleton
    <3>2. ajo[1] \in Nat /\ res[1] \in Nat /\ ded[1] \in Nat
      BY <1>0, <2>1
    <3> QED BY <3>1, <3>2, SommeSeule
  <2>3. q[1] = UneCreche(an[1], me[1], ajo[1], res[1], ded[1])
    BY <1>0, <2>1
  <2>4. mois = q[1]
    BY <1>6, <2>1 DEF Rassemblees
  <2> QED BY <2>1, <2>2, <2>3, <2>4
<1>7. CASE n # 1
  <2> DEFINE I == 1 .. n
             a == Total(q, "complement")
             b == Total(q, "reservees")
             c == Total(q, "deduites")
  <2>1. DOMAIN q = I /\ IsFiniteSet(I) /\ k \in I
    BY <1>0, <1>1, <1>5
  <2>2. /\ ColonneDe(q, I, "complement", ajo)
        /\ ColonneDe(q, I, "reservees", res)
        /\ ColonneDe(q, I, "deduites", ded)
    BY <1>0, <1>5 DEF ColonneDe
  <2> HIDE DEF I
  <2>3. a = SommeSur(ajo, I)
    BY <2>1, <2>2, TotalSomme
  <2>4. b = SommeSur(res, I)
    BY <2>1, <2>2, TotalSomme
  <2>5. c = SommeSur(ded, I)
    BY <2>1, <2>2, TotalSomme
  <2>6. Fusionner(q, k) = [q[k] EXCEPT !.complement = a, !.reservees = b, !.deduites = c]
    <3>1. q[k].mode = Creche
      BY <1>0, <1>2
    <3> QED BY <3>1, FusionnerCreche
  <2> HIDE DEF a, b, c
  <2>7. [q[k] EXCEPT !.complement = a, !.reservees = b, !.deduites = c]
          = [mode |-> Creche, annuel |-> an[k], mensualites |-> me[k],
             complement |-> a, reservees |-> b, deduites |-> c]
    <3> DEFINE r == q[k]
    <3>1. /\ r \in [mode : {Creche}, annuel : Nat, mensualites : Nat, complement : Nat,
                     reservees : Nat, deduites : Nat]
          /\ r.annuel = an[k] /\ r.mensualites = me[k]
      BY <1>0, <1>2
    <3> HIDE DEF r
    <3>2. [r EXCEPT !.complement = a, !.reservees = b, !.deduites = c]
            = [mode |-> Creche, annuel |-> r.annuel, mensualites |-> r.mensualites,
               complement |-> a, reservees |-> b, deduites |-> c]
      <4>1. DOMAIN r = {"mode", "annuel", "mensualites", "complement", "reservees", "deduites"}
        BY <3>1
      <4>2. [r EXCEPT !.complement = a, !.reservees = b, !.deduites = c]
              = [x \in {"mode", "annuel", "mensualites", "complement", "reservees", "deduites"} |->
                   CASE x = "complement" -> a [] x = "reservees" -> b [] x = "deduites" -> c [] OTHER -> r[x]]
        BY <4>1
      <4>3. r.mode = Creche
        BY <3>1
      <4> QED BY <4>2, <4>3
    <3> QED BY <3>1, <3>2 DEF r
  <2>8. Fusionner(q, k) = UneCreche(an[k], me[k], a, b, c)
    BY <2>6, <2>7 DEF UneCreche
  <2>9. mois = Fusionner(q, k)
    BY <1>4, <1>7 DEF Rassemblees
  <2> QED BY <2>3, <2>4, <2>5, <2>8, <2>9 DEF I
<1> QED BY <1>6, <1>7

\* The month of a creche contract is refused when an adjustment is incompatible
\* or when a version deducts more than it reserves; its quantities are else
\* those of its days.
LEMMA MoisDeCreche ==
  ASSUME NEW fiche, ContratCorrect(fiche), fiche.mode = Creche, NEW m \in Int, Vie(fiche, m) # {},
         NEW saisie, SaisieCorrecte(saisie), NEW fermes
  PROVE  LET mensuelle == fiche.versions[Mensuelle(fiche, m)]
             reservees == Reservees(fiche, m, Vie(fiche, m) \ fermes)
             deduites  == DeduitesAux(fiche, m, saisie, Dates(saisie))
             refuse    == AjustementIncompatible(fiche, m, saisie) \/ VersionExcedee(fiche, m, saisie, fermes)
         IN /\ refuse => Prestations(fiche, m, saisie, fermes) = Refus
            /\ ~refuse =>
                 /\ ~(deduites > reservees)
                 /\ Prestations(fiche, m, saisie, fermes) =
                      UneCreche(mensuelle.annuel, mensuelle.mensualites,
                                ComplementParJour(fiche, m, saisie), reservees, deduites)
            /\ ~Partage(fiche, m) /\ VersionExcedee(fiche, m, saisie, fermes) => deduites > reservees
<1> DEFINE mensuelle == fiche.versions[Mensuelle(fiche, m)]
           reservees == Reservees(fiche, m, Vie(fiche, m) \ fermes)
           deduites  == DeduitesAux(fiche, m, saisie, Dates(saisie))
           refuse    == AjustementIncompatible(fiche, m, saisie) \/ VersionExcedee(fiche, m, saisie, fermes)
           mois      == Prestations(fiche, m, saisie, fermes)
<1>1. PICK n, k, dates, parts, q : MoisDecoupe(fiche, m, saisie, fermes, n, k, dates, parts, q)
  BY MoisEnParts
<1> DEFINE I == 1 .. n
           res == [i \in I |-> ReservesSous(fiche, m, fermes, dates[i])]
           ded == [i \in I |-> DeduitsSous(fiche, m, saisie, dates[i])]
           ajo == [i \in I |-> AjoutsSous(fiche, m, saisie, dates[i])]
           an  == [i \in I |-> fiche.versions[dates[i]].annuel]
           me  == [i \in I |-> fiche.versions[dates[i]].mensualites]
           inc(i) == IncompatibleSous(fiche, m, saisie, dates[i])
           rec(i) == UneCreche(an[i], me[i], ajo[i], res[i], ded[i])
<1>0. /\ n \in Nat \ {0} /\ Enumeration(fiche, m, I, k, dates) /\ DOMAIN q = I
      /\ \A i \in I : EstPart(fiche, m, saisie, dates[i], parts[i])
      /\ \A i \in I : q[i] = Generer(SegmentDe(fiche, m, dates[i]), m, parts[i], fermes)
      /\ mois = Rassemblees(n, q, k)
  BY <1>1 DEF MoisDecoupe
<1>2. \A i \in I : dates[i] \in Couvrants(fiche, m)
  BY <1>0 DEF Enumeration
<1>3. ASSUME NEW i \in I
      PROVE  q[i] = IF inc(i) \/ ded[i] > res[i] THEN Refus ELSE rec(i)
  <2>1. q[i] = Generer(SegmentDe(fiche, m, dates[i]), m, parts[i], fermes)
    BY <1>0
  <2>2. EstPart(fiche, m, saisie, dates[i], parts[i])
    BY <1>0
  <2>3. Generer(SegmentDe(fiche, m, dates[i]), m, parts[i], fermes) =
          IF inc(i) \/ DeduitsSous(fiche, m, saisie, dates[i]) > ReservesSous(fiche, m, fermes, dates[i]) THEN Refus
          ELSE [mode |-> Creche, annuel |-> fiche.versions[dates[i]].annuel,
                mensualites |-> fiche.versions[dates[i]].mensualites,
                complement |-> AjoutsSous(fiche, m, saisie, dates[i]),
                reservees |-> ReservesSous(fiche, m, fermes, dates[i]),
                deduites |-> DeduitsSous(fiche, m, saisie, dates[i])]
    BY <1>2, <2>2, CrecheDuSegment
  <2> QED BY <2>1, <2>3 DEF UneCreche
<1>4. /\ \A i \in I : res[i] = ReservesSous(fiche, m, fermes, dates[i])
      /\ \A i \in I : ded[i] = DeduitsSous(fiche, m, saisie, dates[i])
      /\ \A i \in I : ajo[i] = AjoutsSous(fiche, m, saisie, dates[i])
      /\ k \in I /\ an[k] = mensuelle.annuel /\ me[k] = mensuelle.mensualites
  BY <1>0 DEF Enumeration
<1>5. \A i \in I : an[i] \in Nat /\ me[i] \in Nat
  <2> SUFFICES ASSUME NEW i \in I PROVE an[i] \in Nat /\ me[i] \in Nat
    OBVIOUS
  <2>1. dates[i] \in DOMAIN fiche.versions
    BY <1>2, CouvrantsEnVigueur
  <2>2. VersionCorrecte(fiche.versions[dates[i]])
    BY <2>1 DEF ContratCorrect
  <2> QED BY <2>2 DEF VersionCorrecte
<1>6. Enumeration(fiche, m, I, k, dates) /\ reservees = Reservees(fiche, m, JoursOuverts(fiche, m, fermes))
  BY <1>0 DEF JoursOuverts
<1>7. I = 1 .. n /\ IsFiniteSet(I)
  BY <1>0 DEF Enumeration
<1> HIDE DEF I, res, ded, ajo, an, me, mois, reservees
<1>8. SommeSur(res, I) = reservees /\ \A i \in I : res[i] \in Nat
  BY <1>4, <1>6, TotalReserve
<1>9. SommeSur(ded, I) = deduites /\ \A i \in I : ded[i] \in Nat
  BY <1>4, <1>6, TotalDeduit
<1>10. SommeSur(ajo, I) = ComplementParJour(fiche, m, saisie) /\ \A i \in I : ajo[i] \in Nat
  BY <1>4, <1>6, TotalAjoute
<1>11. VersionExcedee(fiche, m, saisie, fermes) <=> \E i \in I : ded[i] > res[i]
  <2>1. VersionExcedee(fiche, m, saisie, fermes)
          <=> \E i \in I : DeduitsSous(fiche, m, saisie, dates[i]) > ReservesSous(fiche, m, fermes, dates[i])
    BY <1>6, ExcesDuneVersion
  <2> QED BY <1>4, <2>1
<1>12. AjustementIncompatible(fiche, m, saisie) <=> \E i \in I : inc(i)
  BY <1>6, IncompatibleParVersion
<1> HIDE DEF inc, deduites, mensuelle, rec
<1>13. ASSUME refuse PROVE mois = Refus
  <2>1. PICK i \in I : inc(i) \/ ded[i] > res[i]
    BY <1>11, <1>12, <1>13
  <2>2. q[i] = Refus
    BY <1>3, <2>1
  <2>3. n = 1 => i = 1
    BY <1>7
  <2> QED BY <1>0, <1>7, <2>2, <2>3 DEF Rassemblees
<1>14. ASSUME ~refuse
       PROVE  /\ ~(deduites > reservees)
              /\ mois = UneCreche(mensuelle.annuel, mensuelle.mensualites,
                                ComplementParJour(fiche, m, saisie), reservees, deduites)
  <2>1. \A i \in I : ~inc(i) /\ ~(ded[i] > res[i])
    BY <1>11, <1>12, <1>14
  <2>2. \A i \in I : q[i] = rec(i)
    BY <1>3, <2>1
  <2>3. \A i \in I : ded[i] \in Nat /\ res[i] \in Nat /\ ded[i] <= res[i]
    BY <1>8, <1>9, <2>1
  <2>4. SommeSur(ded, I) <= SommeSur(res, I)
    BY <1>7, <2>3, SommeCroissante
  <2>5. SommeSur(ded, I) \in Nat /\ SommeSur(res, I) \in Nat
    BY <1>7, <2>3, SommeNaturelle
  <2>6. ~(deduites > reservees)
    BY <1>8, <1>9, <2>4, <2>5
  <2>7. \A i \in I : q[i] = UneCreche(an[i], me[i], ajo[i], res[i], ded[i])
    BY <2>2 DEF rec
  <2>8. \A i \in I : an[i] \in Nat /\ me[i] \in Nat /\ ajo[i] \in Nat /\ res[i] \in Nat /\ ded[i] \in Nat
    BY <1>5, <1>8, <1>9, <1>10
  <2>9. mois = UneCreche(an[k], me[k], SommeSur(ajo, I), SommeSur(res, I), SommeSur(ded, I))
    <3>1. TableDeCreches(n, q, an, me, ajo, res, ded)
      BY <1>0, <1>7, <2>7, <2>8 DEF TableDeCreches
    <3>2. k \in 1 .. n /\ mois = Rassemblees(n, q, k)
      BY <1>0, <1>4, <1>7
    <3>3. mois = UneCreche(an[k], me[k], SommeSur(ajo, 1 .. n), SommeSur(res, 1 .. n), SommeSur(ded, 1 .. n))
      BY <3>1, <3>2, FusionDeCreche
    <3> QED BY <1>7, <3>3
  <2>10. mois = UneCreche(mensuelle.annuel, mensuelle.mensualites, ComplementParJour(fiche, m, saisie), reservees, deduites)
    BY <1>4, <1>8, <1>9, <1>10, <2>9
  <2> QED BY <2>6, <2>10
<1>15. ASSUME ~Partage(fiche, m), VersionExcedee(fiche, m, saisie, fermes) PROVE deduites > reservees
  <2>1. I = {k}
    BY <1>6, <1>15, UneSeule
  <2>2. ded[k] > res[k]
    BY <1>11, <1>15, <2>1
  <2>3. k \in I /\ I \ {k} = {}
    BY <2>1
  <2>4. SommeSur(ded, I) = ded[k]
    BY <1>7, <1>9, <2>3, SommeSeule
  <2>5. SommeSur(res, I) = res[k]
    BY <1>7, <1>8, <2>3, SommeSeule
  <2> QED BY <1>8, <1>9, <2>2, <2>4, <2>5
<1> HIDE DEF refuse
<1>16. /\ refuse => mois = Refus
       /\ ~refuse =>
            /\ ~(deduites > reservees)
            /\ mois = UneCreche(mensuelle.annuel, mensuelle.mensualites,
                                ComplementParJour(fiche, m, saisie), reservees, deduites)
       /\ ~Partage(fiche, m) /\ VersionExcedee(fiche, m, saisie, fermes) => deduites > reservees
  BY <1>13, <1>14, <1>15
<1> QED BY <1>16 DEF refuse, mois, reservees, deduites, mensuelle

\* The month of the creche is that of the reference.
LEMMA CrecheConforme ==
  ASSUME NEW fiche, ContratCorrect(fiche), fiche.mode = Creche, NEW m \in Int, Vie(fiche, m) # {},
         NEW saisie, SaisieCorrecte(saisie), NEW fermes
  PROVE  Conforme(Prestations(fiche, m, saisie, fermes), fiche, m, saisie, fermes)
<1> DEFINE mensuelle == fiche.versions[Mensuelle(fiche, m)]
           reservees == Reservees(fiche, m, Vie(fiche, m) \ fermes)
           deduites  == DeduitesAux(fiche, m, saisie, Dates(saisie))
           incompatible == AjustementIncompatible(fiche, m, saisie)
           excede    == VersionExcedee(fiche, m, saisie, fermes)
           mois      == Prestations(fiche, m, saisie, fermes)
           attendu    == UneCreche(mensuelle.annuel, mensuelle.mensualites,
                                ComplementParJour(fiche, m, saisie), reservees, deduites)
<1>1. /\ incompatible \/ excede => mois = Refus
      /\ ~(incompatible \/ excede) => ~(deduites > reservees) /\ mois = attendu
      /\ ~Partage(fiche, m) /\ excede => deduites > reservees
  BY MoisDeCreche
<1>2. ParJour(fiche, m, saisie, fermes) = IF incompatible \/ deduites > reservees THEN Refus ELSE attendu
  <2>1. ParJour(fiche, m, saisie, fermes) = CrecheParJour(fiche, m, saisie, fermes)
    BY DEF ParJour
  <2>2. CrecheParJour(fiche, m, saisie, fermes) = IF incompatible \/ deduites > reservees THEN Refus ELSE attendu
    BY DEF CrecheParJour, ComplementParJour, AjoutsDe, AjouteParJour, UneCreche
  <2> QED BY <2>1, <2>2
<1>3. Conforme(mois, fiche, m, saisie, fermes)
        <=> IF Partage(fiche, m) /\ excede THEN mois = Refus ELSE mois = ParJour(fiche, m, saisie, fermes)
  <2>1. JoursDuContrat(fiche, m) # {}
    BY DEF Vie
  <2> HIDE DEF mois
  <2> QED BY <2>1 DEF Conforme
<1> HIDE DEF mois, attendu, incompatible, excede, deduites, reservees
<1>4. IF Partage(fiche, m) /\ excede THEN mois = Refus ELSE mois = ParJour(fiche, m, saisie, fermes)
  BY <1>1, <1>2
<1> QED BY <1>3, <1>4 DEF mois

----------------------------------------------------------------------------
(* The school services, version by version.                                *)

InscritsA(fiche, m, saisie, fermes, service) ==
  {j \in JoursOuverts(fiche, m, fermes) : service \in Inscrit(fiche, m, saisie, j).services}

InscritsSous(fiche, m, saisie, fermes, service, d) ==
  {j \in InscritsA(fiche, m, saisie, fermes, service) : EstDe(fiche, m, d, j)}

LEMMA JoursOuvertsFinis ==
  ASSUME NEW fiche, NEW m \in Int, NEW fermes
  PROVE  IsFiniteSet(JoursOuverts(fiche, m, fermes)) /\ JoursOuverts(fiche, m, fermes) \in SUBSET Int
<1>1. JoursOuverts(fiche, m, fermes) \in SUBSET Vie(fiche, m)
  BY DEF JoursOuverts
<1> QED BY <1>1, VieFinie, FS_Subset

LEMMA JoursFacturablesSous ==
  ASSUME NEW fiche, ContratCorrect(fiche), NEW m \in Int, NEW fermes, NEW d \in Couvrants(fiche, m)
  PROVE  \A j : j \in JoursFacturables(SegmentDe(fiche, m, d), m, fermes)
                  <=> j \in JoursOuverts(fiche, m, fermes) /\ EstDe(fiche, m, d, j)
<1>1. JoursActifs(SegmentDe(fiche, m, d), m) = JoursSous(fiche, m, d)
  BY JoursDuSegment
<1>2. \A j : j \in JoursSous(fiche, m, d) <=> j \in Vie(fiche, m) /\ EstDe(fiche, m, d, j)
  BY JoursDuSegment
<1> QED BY <1>1, <1>2 DEF JoursFacturables, JoursOuverts

\* A segment sees the registrations of its days.
LEMMA InscriptionsDuSegment ==
  ASSUME NEW fiche, ContratCorrect(fiche), NEW m \in Int, NEW saisie, NEW d \in Couvrants(fiche, m),
         NEW p, EstPart(fiche, m, saisie, d, p), NEW j, EstDe(fiche, m, d, j)
  PROVE  InscriptionsEffectives(SegmentDe(fiche, m, d), p, j) = Inscrit(fiche, m, saisie, j)
<1> DEFINE s == SegmentDe(fiche, m, d)
           t == [champs |-> Regissant(fiche, m, j)]
<1>1. s.champs = Regissant(fiche, m, j)
  <2>1. s.champs = fiche.versions[d]
    BY DEF SegmentDe
  <2>2. fiche.versions[d] = Regissant(fiche, m, j)
    BY JoursDuSegment
  <2> QED BY <2>1, <2>2
<1>2. t.champs = Regissant(fiche, m, j)
  OBVIOUS
<1>3. s.champs = t.champs
  BY <1>1, <1>2
<1>4. j \in DOMAIN p.exceptions <=> j \in DOMAIN saisie.exceptions
  BY DEF EstPart
<1>5. j \in DOMAIN p.exceptions => p.exceptions[j] = saisie.exceptions[j]
  BY DEF EstPart
<1>6. Inscrit(fiche, m, saisie, j) = InscriptionsEffectives(t, saisie, j)
  BY DEF Inscrit
<1> HIDE DEF s, t
<1>7. InscriptionsEffectives(s, p, j) = InscriptionsEffectives(t, saisie, j)
  BY <1>3, <1>4, <1>5 DEF InscriptionsEffectives
<1> QED BY <1>6, <1>7 DEF s

LEMMA JoursDuService ==
  ASSUME NEW fiche, ContratCorrect(fiche), NEW m \in Int, NEW saisie, NEW fermes,
         NEW d \in Couvrants(fiche, m), NEW p, EstPart(fiche, m, saisie, d, p), NEW service
  PROVE  JoursDe(service, SegmentDe(fiche, m, d), m, p, fermes)
           = InscritsSous(fiche, m, saisie, fermes, service, d)
<1> DEFINE s == SegmentDe(fiche, m, d)
<1>1. \A j : j \in JoursFacturables(s, m, fermes)
               <=> j \in JoursOuverts(fiche, m, fermes) /\ EstDe(fiche, m, d, j)
  BY JoursFacturablesSous
<1>2. \A j : EstDe(fiche, m, d, j) => InscriptionsEffectives(s, p, j) = Inscrit(fiche, m, saisie, j)
  BY InscriptionsDuSegment
<1> HIDE DEF s
<1>3. \A j : j \in JoursDe(service, s, m, p, fermes)
               <=> j \in InscritsSous(fiche, m, saisie, fermes, service, d)
  BY <1>1, <1>2 DEF JoursDe, InscritsSous, InscritsA
<1>4. JoursDe(service, s, m, p, fermes) \subseteq JoursFacturables(s, m, fermes)
  BY DEF JoursDe
<1>5. JoursDe(service, s, m, p, fermes) = InscritsSous(fiche, m, saisie, fermes, service, d)
  BY <1>3
<1> QED BY <1>5 DEF s

\* v has the number of days that each version takes.
CompteLesInscrits(fiche, m, saisie, fermes, service, dates, I, v) ==
  \A i \in I : v[i] = Cardinality(InscritsSous(fiche, m, saisie, fermes, service, dates[i]))

LEMMA CompteInscrits ==
  ASSUME NEW fiche, ContratCorrect(fiche), NEW m \in Int, Vie(fiche, m) # {}, NEW saisie, NEW fermes,
         NEW I, NEW k, NEW dates, Enumeration(fiche, m, I, k, dates), NEW service,
         NEW v, CompteLesInscrits(fiche, m, saisie, fermes, service, dates, I, v)
  PROVE  /\ SommeSur(v, I) = Cardinality(InscritsA(fiche, m, saisie, fermes, service))
         /\ \A i \in I : v[i] \in Nat
<1> DEFINE X == InscritsA(fiche, m, saisie, fermes, service)
           P == [i \in I |-> InscritsSous(fiche, m, saisie, fermes, service, dates[i])]
<1>1. IsFiniteSet(X)
  <2>1. X \in SUBSET JoursOuverts(fiche, m, fermes)
    BY DEF InscritsA
  <2> HIDE DEF X
  <2> QED BY <2>1, JoursOuvertsFinis, FS_Subset
<1>2. \A i \in I : P[i] = {j \in X : EstDe(fiche, m, dates[i], j)}
  BY DEF InscritsSous
<1>3. \A i \in I : v[i] = Cardinality(P[i])
  BY DEF CompteLesInscrits
<1> HIDE DEF P, X
<1>4. \A j \in X : \E i \in I : j \in P[i] /\ \A h \in I : j \in P[h] => h = i
  <2> TAKE j \in X
  <2>1. PICK i \in I : EstSeul(fiche, m, I, dates, i, j)
    BY UneVersion
  <2> QED BY <1>2, <2>1 DEF EstSeul
<1>5. IsFiniteSet(I) /\ \A i \in I : P[i] \in SUBSET X
  BY <1>2 DEF Enumeration
<1>6. SommeSur(v, I) = Cardinality(X) /\ \A i \in I : v[i] \in Nat
  BY <1>1, <1>3, <1>4, <1>5, CompteDesParts
<1> QED BY <1>6 DEF X

----------------------------------------------------------------------------
(* The days at ALSH.                                                       *)

Triplet(x)         == <<x.date, x.type, x.repas, x.rang>>
SeanceDe(j, place) == [date |-> j, type |-> place.type, repas |-> place.repas, rang |-> 0]
EnSeance(t)        == [date |-> t[1], type |-> t[2], repas |-> t[3], rang |-> t[4]]

\* What a day at ALSH counts for.
ComptePour(champ, type, repas) ==
  CASE champ = "journees" -> type = "COMPLETE" [] champ = "demis" -> type = "DEMI" [] OTHER -> repas

PlacesDu(fiche, m, saisie, j) ==
  LET dates == {x \in saisie.joursAlsh : x.date = j}
      place == Inscrit(fiche, m, saisie, j).alsh
  IN IF dates # {} THEN {<<j, x.type, x.repas, x.rang>> : x \in dates}
     ELSE IF place = Rien THEN {} ELSE {<<j, place.type, place.repas, 0>>}

PlacesOuvertes(fiche, m, saisie, fermes) ==
  UNION {PlacesDu(fiche, m, saisie, j) : j \in JoursOuverts(fiche, m, fermes)}

PlacesA(fiche, m, saisie, fermes, champ) ==
  {t \in PlacesOuvertes(fiche, m, saisie, fermes) : ComptePour(champ, t[2], t[3])}

PlacesSous(fiche, m, saisie, fermes, champ, d) ==
  {t \in PlacesA(fiche, m, saisie, fermes, champ) : EstDe(fiche, m, d, t[1])}

LEMMA PlacesDuJour ==
  ASSUME NEW fiche, NEW m, NEW saisie, NEW j, NEW t
  PROVE  t \in PlacesDu(fiche, m, saisie, j)
           <=> \/ \E x \in saisie.joursAlsh : x.date = j /\ t = Triplet(x)
               \/ /\ ~ \E x \in saisie.joursAlsh : x.date = j
                  /\ Inscrit(fiche, m, saisie, j).alsh # Rien
                  /\ t = Triplet(SeanceDe(j, Inscrit(fiche, m, saisie, j).alsh))
<1> DEFINE dates == {x \in saisie.joursAlsh : x.date = j}
           place == Inscrit(fiche, m, saisie, j).alsh
<1>1. PlacesDu(fiche, m, saisie, j) =
        IF dates # {} THEN {<<j, x.type, x.repas, x.rang>> : x \in dates}
        ELSE IF place = Rien THEN {} ELSE {<<j, place.type, place.repas, 0>>}
  BY DEF PlacesDu
<1>2. Triplet(SeanceDe(j, place)) = <<j, place.type, place.repas, 0>>
  BY DEF Triplet, SeanceDe
<1>3. \A x \in dates : Triplet(x) = <<j, x.type, x.repas, x.rang>>
  BY DEF Triplet
<1>4. \A x : x \in dates <=> x \in saisie.joursAlsh /\ x.date = j
  OBVIOUS
<1> HIDE DEF dates, place
<1>5. CASE dates # {}
  <2>1. t \in PlacesDu(fiche, m, saisie, j) <=> \E x \in dates : t = <<j, x.type, x.repas, x.rang>>
    BY <1>1, <1>5
  <2>2. t \in PlacesDu(fiche, m, saisie, j) <=> \E x \in dates : t = Triplet(x)
    BY <1>3, <2>1
  <2> QED BY <1>4, <1>5, <2>2
<1>6. CASE dates = {}
  <2>1. t \in PlacesDu(fiche, m, saisie, j) <=> place # Rien /\ t = Triplet(SeanceDe(j, place))
    BY <1>1, <1>2, <1>6
  <2> QED BY <1>4, <1>6, <2>1 DEF place
<1> QED BY <1>5, <1>6

LEMMA ImageFinie ==
  ASSUME NEW S, IsFiniteSet(S), NEW T, NEW f \in [S -> T], \A t \in T : \E s \in S : f[s] = t
  PROVE  IsFiniteSet(T)
<1>1. f \in Surjection(S, T)
  BY DEF Surjection
<1> QED BY <1>1, FS_Surjection

LEMMA MemeCompte ==
  ASSUME NEW S, NEW T, IsFiniteSet(T), NEW f \in [T -> S],
         \A t, u \in T : f[t] = f[u] => t = u, \A s \in S : \E t \in T : f[t] = s
  PROVE  Cardinality(S) = Cardinality(T)
<1>1. f \in Bijection(T, S)
  BY DEF Bijection, Injection, Surjection, IsInjective
<1>2. ExistsBijection(T, S)
  BY <1>1 DEF ExistsBijection
<1> QED BY <1>2, FS_Bijection

LEMMA SeanceDuTriplet ==
  ASSUME NEW t
  PROVE  /\ \A x : t = Triplet(x) => t[1] = x.date /\ t[2] = x.type /\ t[3] = x.repas
         /\ \A x : t = Triplet(x) => EnSeance(t) = [date |-> x.date, type |-> x.type, repas |-> x.repas, rang |-> x.rang]
         /\ \A x : t = Triplet(x) => Triplet(EnSeance(t)) = t
         /\ EnSeance(t).date = t[1] /\ EnSeance(t).type = t[2] /\ EnSeance(t).repas = t[3]
         /\ \A j, place : t = Triplet(SeanceDe(j, place)) => EnSeance(t) = SeanceDe(j, place)
BY DEF Triplet, EnSeance, SeanceDe

LEMMA PlacesFinies ==
  ASSUME NEW fiche, NEW m \in Int, NEW saisie, SaisieCorrecte(saisie), NEW fermes
  PROVE  IsFiniteSet(PlacesOuvertes(fiche, m, saisie, fermes))
<1> DEFINE S == saisie.joursAlsh
           J == JoursOuverts(fiche, m, fermes)
           f == [x \in S |-> Triplet(x)]
           g == [j \in J |-> Triplet(SeanceDe(j, Inscrit(fiche, m, saisie, j).alsh))]
           F == {f[x] : x \in S}
           G == {g[j] : j \in J}
<1>1. IsFiniteSet(S) /\ IsFiniteSet(J)
  BY JoursOuvertsFinis DEF SaisieCorrecte
<1>2. \A x \in S : f[x] = Triplet(x)
  OBVIOUS
<1>3. \A j \in J : g[j] = Triplet(SeanceDe(j, Inscrit(fiche, m, saisie, j).alsh))
  OBVIOUS
<1>4. f \in [S -> F] /\ \A t \in F : \E x \in S : f[x] = t
  OBVIOUS
<1>5. g \in [J -> G] /\ \A t \in G : \E j \in J : g[j] = t
  OBVIOUS
<1>6. \A x \in S : f[x] \in F
  OBVIOUS
<1>7. \A j \in J : g[j] \in G
  OBVIOUS
<1> HIDE DEF f, g, F, G, J
<1>8. IsFiniteSet(F) /\ IsFiniteSet(G)
  BY <1>1, <1>4, <1>5, ImageFinie
<1>9. ASSUME NEW t \in PlacesOuvertes(fiche, m, saisie, fermes) PROVE t \in F \cup G
  <2>1. PICK j \in J : t \in PlacesDu(fiche, m, saisie, j)
    BY DEF PlacesOuvertes, J
  <2>2. \/ \E x \in saisie.joursAlsh : t = Triplet(x)
        \/ t = Triplet(SeanceDe(j, Inscrit(fiche, m, saisie, j).alsh))
    BY <2>1, PlacesDuJour
  <2> QED BY <1>2, <1>3, <1>6, <1>7, <2>2
<1>10. IsFiniteSet(F \cup G)
  BY <1>8, FS_Union
<1> QED BY <1>9, <1>10, FS_Subset

\* The places of a segment.
EstSeanceDe(fiche, m, saisie, fermes, d, x) ==
  /\ Triplet(x) \in PlacesOuvertes(fiche, m, saisie, fermes)
  /\ EstDe(fiche, m, d, x.date) /\ x = EnSeance(Triplet(x))

LEMMA SeancesDuSegment ==
  ASSUME NEW fiche, ContratCorrect(fiche), NEW m \in Int, NEW saisie, SaisieCorrecte(saisie), NEW fermes,
         NEW d \in Couvrants(fiche, m), NEW p, EstPart(fiche, m, saisie, d, p), NEW x
  PROVE  x \in SeancesAlsh(SegmentDe(fiche, m, d), m, p, fermes)
           <=> EstSeanceDe(fiche, m, saisie, fermes, d, x)
<1> DEFINE s == SegmentDe(fiche, m, d)
           J == JoursOuverts(fiche, m, fermes)
           reserves == {y \in p.joursAlsh : y.date \in JoursFacturables(s, m, fermes)}
           restants == {j \in JoursFacturables(s, m, fermes) \ {y.date : y \in reserves} :
                          InscriptionsEffectives(s, p, j).alsh # Rien}
           place(j) == Inscrit(fiche, m, saisie, j).alsh
           Reserve(j) == \E y \in saisie.joursAlsh : y.date = j
<1>1. \A j : j \in JoursFacturables(s, m, fermes) <=> j \in J /\ EstDe(fiche, m, d, j)
  BY JoursFacturablesSous
<1>2. \A j : EstDe(fiche, m, d, j) => InscriptionsEffectives(s, p, j) = Inscrit(fiche, m, saisie, j)
  BY InscriptionsDuSegment
<1>3. \A y : y \in p.joursAlsh <=> y \in saisie.joursAlsh /\ EstDe(fiche, m, d, y.date)
  BY DEF EstPart, PriseDe
<1> HIDE DEF s, J
<1>4. \A y : y \in reserves <=> y \in saisie.joursAlsh /\ y.date \in J /\ EstDe(fiche, m, d, y.date)
  BY <1>1, <1>3
<1>5. \A j : j \in restants <=> j \in J /\ EstDe(fiche, m, d, j) /\ ~Reserve(j) /\ place(j) # Rien
  <2> HIDE DEF reserves
  <2>1. \A j : j \in restants <=> /\ j \in JoursFacturables(s, m, fermes)
                                  /\ ~ \E y \in reserves : y.date = j
                                  /\ InscriptionsEffectives(s, p, j).alsh # Rien
    OBVIOUS
  <2> QED BY <1>1, <1>2, <1>4, <2>1
<1>6. x \in SeancesAlsh(s, m, p, fermes)
        <=> x \in reserves \/ \E j \in restants : x = SeanceDe(j, InscriptionsEffectives(s, p, j).alsh)
  BY DEF SeancesAlsh, SeanceDe
<1> HIDE DEF reserves, restants
<1>7. x \in SeancesAlsh(s, m, p, fermes)
        <=> x \in reserves \/ \E j \in restants : x = SeanceDe(j, place(j))
  BY <1>2, <1>5, <1>6
<1>8. \A y \in saisie.joursAlsh : y = EnSeance(Triplet(y))
  <2> TAKE y \in saisie.joursAlsh
  <2>1. y = [date |-> y.date, type |-> y.type, repas |-> y.repas, rang |-> y.rang]
    BY DEF SaisieCorrecte
  <2>2. EnSeance(Triplet(y)) = [date |-> y.date, type |-> y.type, repas |-> y.repas, rang |-> y.rang]
    BY SeanceDuTriplet
  <2> QED BY <2>1, <2>2
<1>9. \A j : SeanceDe(j, place(j)) = EnSeance(Triplet(SeanceDe(j, place(j)))) /\ SeanceDe(j, place(j)).date = j
  <2> HIDE DEF place
  <2>1. \A j : EnSeance(Triplet(SeanceDe(j, place(j)))) = SeanceDe(j, place(j))
    BY SeanceDuTriplet
  <2>2. \A j : SeanceDe(j, place(j)).date = j
    BY DEF SeanceDe
  <2> QED BY <2>1, <2>2
<1>10. \A t, j : t \in PlacesDu(fiche, m, saisie, j)
           <=> \/ \E y \in saisie.joursAlsh : y.date = j /\ t = Triplet(y)
               \/ ~Reserve(j) /\ place(j) # Rien /\ t = Triplet(SeanceDe(j, place(j)))
  BY PlacesDuJour
<1>11. \A t : t \in PlacesOuvertes(fiche, m, saisie, fermes) <=> \E j \in J : t \in PlacesDu(fiche, m, saisie, j)
  BY DEF PlacesOuvertes, J
<1> HIDE DEF place, Reserve
<1>12. ASSUME x \in reserves
       PROVE  /\ Triplet(x) \in PlacesOuvertes(fiche, m, saisie, fermes)
              /\ EstDe(fiche, m, d, x.date) /\ x = EnSeance(Triplet(x))
  <2>1. x \in saisie.joursAlsh /\ x.date \in J /\ EstDe(fiche, m, d, x.date)
    BY <1>4, <1>12
  <2>2. Triplet(x) \in PlacesDu(fiche, m, saisie, x.date)
    BY <1>10, <2>1
  <2> QED BY <1>8, <1>11, <2>1, <2>2
<1>13. ASSUME NEW j \in restants, x = SeanceDe(j, place(j))
       PROVE  /\ Triplet(x) \in PlacesOuvertes(fiche, m, saisie, fermes)
              /\ EstDe(fiche, m, d, x.date) /\ x = EnSeance(Triplet(x))
  <2>1. j \in J /\ EstDe(fiche, m, d, j) /\ ~Reserve(j) /\ place(j) # Rien
    BY <1>5
  <2>2. Triplet(x) \in PlacesDu(fiche, m, saisie, j)
    BY <1>10, <1>13, <2>1
  <2> QED BY <1>9, <1>11, <1>13, <2>1, <2>2
<1>14. ASSUME Triplet(x) \in PlacesOuvertes(fiche, m, saisie, fermes),
              EstDe(fiche, m, d, x.date), x = EnSeance(Triplet(x))
       PROVE  x \in reserves \/ \E j \in restants : x = SeanceDe(j, place(j))
  <2>1. PICK j \in J : Triplet(x) \in PlacesDu(fiche, m, saisie, j)
    BY <1>11, <1>14
  <2>2. CASE \E y \in saisie.joursAlsh : y.date = j /\ Triplet(x) = Triplet(y)
    <3>1. PICK y \in saisie.joursAlsh : y.date = j /\ Triplet(x) = Triplet(y)
      BY <2>2
    <3>2. x = y
      BY <1>8, <1>14, <3>1
    <3> QED BY <1>4, <1>14, <3>1, <3>2
  <2>3. CASE ~Reserve(j) /\ place(j) # Rien /\ Triplet(x) = Triplet(SeanceDe(j, place(j)))
    <3>1. x = SeanceDe(j, place(j))
      BY <1>9, <1>14, <2>3
    <3> QED BY <1>5, <1>9, <1>14, <2>3, <3>1
  <2> QED BY <1>10, <2>1, <2>2, <2>3
<1>15. x \in SeancesAlsh(s, m, p, fermes)
         <=> /\ Triplet(x) \in PlacesOuvertes(fiche, m, saisie, fermes)
             /\ EstDe(fiche, m, d, x.date) /\ x = EnSeance(Triplet(x))
  BY <1>7, <1>12, <1>13, <1>14
<1> QED BY <1>15 DEF s, EstSeanceDe

LEMMA TripletPlace ==
  ASSUME NEW fiche, NEW m, NEW saisie, NEW fermes, NEW t \in PlacesOuvertes(fiche, m, saisie, fermes)
  PROVE  Triplet(EnSeance(t)) = t
<1>1. PICK j \in JoursOuverts(fiche, m, fermes) : t \in PlacesDu(fiche, m, saisie, j)
  BY DEF PlacesOuvertes
<1>2. \/ \E x \in saisie.joursAlsh : t = Triplet(x)
      \/ t = Triplet(SeanceDe(j, Inscrit(fiche, m, saisie, j).alsh))
  BY <1>1, PlacesDuJour
<1> QED BY <1>2, SeanceDuTriplet

LEMMA ComptePlacesSous ==
  ASSUME NEW fiche, ContratCorrect(fiche), NEW m \in Int, NEW saisie, SaisieCorrecte(saisie), NEW fermes,
         NEW d \in Couvrants(fiche, m), NEW p, EstPart(fiche, m, saisie, d, p), NEW champ
  PROVE  Cardinality({x \in SeancesAlsh(SegmentDe(fiche, m, d), m, p, fermes) : ComptePour(champ, x.type, x.repas)})
           = Cardinality(PlacesSous(fiche, m, saisie, fermes, champ, d))
<1> DEFINE A == SeancesAlsh(SegmentDe(fiche, m, d), m, p, fermes)
           S == {x \in A : ComptePour(champ, x.type, x.repas)}
           T == PlacesSous(fiche, m, saisie, fermes, champ, d)
           O == PlacesOuvertes(fiche, m, saisie, fermes)
           f == [t \in T |-> EnSeance(t)]
<1>1. \A x : x \in A <=> Triplet(x) \in O /\ EstDe(fiche, m, d, x.date) /\ x = EnSeance(Triplet(x))
  <2>1. \A x : x \in A <=> EstSeanceDe(fiche, m, saisie, fermes, d, x)
    BY SeancesDuSegment
  <2> QED BY <2>1 DEF EstSeanceDe
<1>2. \A t : t \in T <=> t \in O /\ ComptePour(champ, t[2], t[3]) /\ EstDe(fiche, m, d, t[1])
  BY DEF PlacesSous, PlacesA
<1>3. IsFiniteSet(T)
  <2>1. IsFiniteSet(O)
    BY PlacesFinies
  <2>2. T \in SUBSET O
    BY <1>2
  <2> HIDE DEF T, O
  <2> QED BY <2>1, <2>2, FS_Subset
<1>4. \A t \in O : Triplet(EnSeance(t)) = t
  BY TripletPlace
<1>5. \A t : EnSeance(t).date = t[1] /\ EnSeance(t).type = t[2] /\ EnSeance(t).repas = t[3]
  BY SeanceDuTriplet
<1>6. \A x : Triplet(x)[1] = x.date /\ Triplet(x)[2] = x.type /\ Triplet(x)[3] = x.repas
  BY DEF Triplet
<1>7. \A x : x \in S <=> x \in A /\ ComptePour(champ, x.type, x.repas)
  OBVIOUS
<1>8. (\A t \in T : f[t] = EnSeance(t)) /\ DOMAIN f = T /\ f = [t \in T |-> f[t]]
  OBVIOUS
<1> HIDE DEF A, S, T, O, f
<1>9. \A t \in T : EnSeance(t) \in S
  BY <1>1, <1>2, <1>4, <1>5, <1>7
<1>10. f \in [T -> S]
  BY <1>8, <1>9
<1>11. \A t, u \in T : f[t] = f[u] => t = u
  BY <1>2, <1>4, <1>8
<1>12. \A x \in S : \E t \in T : f[t] = x
  <2> TAKE x \in S
  <2>1. Triplet(x) \in T
    BY <1>1, <1>2, <1>6, <1>7
  <2>2. f[Triplet(x)] = x
    BY <1>1, <1>7, <1>8, <2>1
  <2> QED BY <2>1, <2>2
<1>13. Cardinality(S) = Cardinality(T)
  BY <1>3, <1>10, <1>11, <1>12, MemeCompte
<1> QED BY <1>13 DEF S, A, T

LEMMA ComptePlaces ==
  ASSUME NEW fiche, ContratCorrect(fiche), NEW m \in Int, Vie(fiche, m) # {},
         NEW saisie, SaisieCorrecte(saisie), NEW fermes,
         NEW I, NEW k, NEW dates, Enumeration(fiche, m, I, k, dates), NEW champ,
         NEW v, \A i \in I : v[i] = Cardinality(PlacesSous(fiche, m, saisie, fermes, champ, dates[i]))
  PROVE  /\ SommeSur(v, I) = Cardinality(PlacesA(fiche, m, saisie, fermes, champ))
         /\ \A i \in I : v[i] \in Nat
<1> DEFINE X == PlacesA(fiche, m, saisie, fermes, champ)
           P == [i \in I |-> PlacesSous(fiche, m, saisie, fermes, champ, dates[i])]
<1>1. IsFiniteSet(X)
  <2>1. X \in SUBSET PlacesOuvertes(fiche, m, saisie, fermes)
    BY DEF PlacesA
  <2> HIDE DEF X
  <2> QED BY <2>1, PlacesFinies, FS_Subset
<1>2. \A i \in I : P[i] = {t \in X : EstDe(fiche, m, dates[i], t[1])}
  BY DEF PlacesSous
<1>3. \A i \in I : v[i] = Cardinality(P[i])
  OBVIOUS
<1> HIDE DEF P, X
<1>4. \A t \in X : \E i \in I : t \in P[i] /\ \A h \in I : t \in P[h] => h = i
  <2> TAKE t \in X
  <2>1. PICK i \in I : EstSeul(fiche, m, I, dates, i, t[1])
    BY UneVersion
  <2> QED BY <1>2, <2>1 DEF EstSeul
<1>5. IsFiniteSet(I) /\ \A i \in I : P[i] \in SUBSET X
  BY <1>2 DEF Enumeration
<1>6. SommeSur(v, I) = Cardinality(X) /\ \A i \in I : v[i] \in Nat
  BY <1>1, <1>3, <1>4, <1>5, CompteDesParts
<1> QED BY <1>6 DEF X

----------------------------------------------------------------------------
(* The month of a school service.                                          *)

UneCantine(jours, pai)          == [mode |-> "CANTINE", jours |-> jours, pai |-> pai]
UnPeri(matins, soirs)           == [mode |-> "PERISCOLAIRE", matins |-> matins, soirs |-> soirs]
UnAlsh(journees, demis, repas)  == [mode |-> "ALSH", journees |-> journees, demis |-> demis, repas |-> repas]

LEMMA AbcmDuSegment ==
  ASSUME NEW fiche, ContratCorrect(fiche), NEW m \in Int, NEW saisie, SaisieCorrecte(saisie), NEW fermes,
         NEW d \in Couvrants(fiche, m), NEW p, EstPart(fiche, m, saisie, d, p), NEW q,
         q = Generer(SegmentDe(fiche, m, d), m, p, fermes)
  PROVE  /\ fiche.mode = "CANTINE" =>
              q = UneCantine(Cardinality(InscritsSous(fiche, m, saisie, fermes, "cantine", d)), p.pai)
         /\ fiche.mode = "PERISCOLAIRE" =>
              q = UnPeri(Cardinality(InscritsSous(fiche, m, saisie, fermes, "periMatin", d)),
                         Cardinality(InscritsSous(fiche, m, saisie, fermes, "periSoir", d)))
         /\ fiche.mode = "ALSH" =>
              q = UnAlsh(Cardinality(PlacesSous(fiche, m, saisie, fermes, "journees", d)),
                         Cardinality(PlacesSous(fiche, m, saisie, fermes, "demis", d)),
                         Cardinality(PlacesSous(fiche, m, saisie, fermes, "repas", d)))
<1> DEFINE s == SegmentDe(fiche, m, d)
           A == SeancesAlsh(s, m, p, fermes)
           C(service) == Cardinality(JoursDe(service, s, m, p, fermes))
<1>1. s.mode = fiche.mode
  BY DEF SegmentDe
<1>2. \A service : C(service) = Cardinality(InscritsSous(fiche, m, saisie, fermes, service, d))
  BY JoursDuService
<1>3. \A champ : Cardinality({x \in A : ComptePour(champ, x.type, x.repas)})
                   = Cardinality(PlacesSous(fiche, m, saisie, fermes, champ, d))
  BY ComptePlacesSous
<1> HIDE DEF s
<1>4. fiche.mode # Creche => q = GenererAbcm(s, m, p, fermes)
  BY <1>1 DEF Generer, s
<1>5. fiche.mode = "CANTINE" => q = UneCantine(C("cantine"), p.pai)
  BY <1>1, <1>4 DEF GenererAbcm, UneCantine, Creche
<1>6. fiche.mode = "PERISCOLAIRE" => q = UnPeri(C("periMatin"), C("periSoir"))
  BY <1>1, <1>4 DEF GenererAbcm, UnPeri, Creche
<1>7. fiche.mode = "ALSH" => q = CompterAlsh(A)
  BY <1>1, <1>4 DEF GenererAbcm, Creche
<1> HIDE DEF A, C
<1>8. CompterAlsh(A) = UnAlsh(Cardinality({x \in A : ComptePour("journees", x.type, x.repas)}),
                              Cardinality({x \in A : ComptePour("demis", x.type, x.repas)}),
                              Cardinality({x \in A : ComptePour("repas", x.type, x.repas)}))
  <2>1. {x \in A : x.type = "COMPLETE"} = {x \in A : ComptePour("journees", x.type, x.repas)}
    BY DEF ComptePour
  <2>2. {x \in A : x.type = "DEMI"} = {x \in A : ComptePour("demis", x.type, x.repas)}
    BY DEF ComptePour
  <2>3. {x \in A : x.repas} = {x \in A : ComptePour("repas", x.type, x.repas)}
    BY DEF ComptePour
  <2> QED BY <2>1, <2>2, <2>3 DEF CompterAlsh, UnAlsh
<1> QED BY <1>2, <1>3, <1>5, <1>6, <1>7, <1>8

LEMMA PossibleAbcm ==
  ASSUME NEW a \in Nat, NEW b \in Nat, NEW c \in Nat
  PROVE  /\ \A pai \in BOOLEAN : UneCantine(a, pai) # Refus
         /\ UnPeri(a, b) # Refus /\ UnAlsh(a, b, c) # Refus
<1>1. \A pai \in BOOLEAN : UneCantine(a, pai) \in PrestationsPossibles
  BY DEF UneCantine, PrestationsPossibles
<1>2. UnPeri(a, b) \in PrestationsPossibles
  BY DEF UnPeri, PrestationsPossibles
<1>3. UnAlsh(a, b, c) \in PrestationsPossibles
  BY DEF UnAlsh, PrestationsPossibles
<1> QED BY <1>1, <1>2, <1>3, ConstantesPrestations

\* The months of the segments, none refused.
TableDeMois(n, q, k) == n \in Nat \ {0} /\ DOMAIN q = 1 .. n /\ k \in 1 .. n /\ \A i \in 1 .. n : q[i] # Refus

LEMMA Rassembler ==
  ASSUME NEW n, NEW q, NEW k, TableDeMois(n, q, k)
  PROVE  /\ IsFiniteSet(DOMAIN q) /\ k \in DOMAIN q
         /\ n = 1 => DOMAIN q = {k} /\ Rassemblees(n, q, k) = q[k]
         /\ n # 1 => Rassemblees(n, q, k) = Fusionner(q, k)
<1>1. n \in Nat \ {0} /\ DOMAIN q = 1 .. n /\ k \in 1 .. n /\ \A i \in 1 .. n : q[i] # Refus
  BY DEF TableDeMois
<1>2. IsFiniteSet(1 .. n)
  <2>1. 1 \in Int /\ n \in Int
    BY <1>1
  <2> QED BY <2>1, FS_Interval
<1>3. n = 1 => k = 1 /\ 1 .. n = {1}
  BY <1>1
<1> QED BY <1>1, <1>2, <1>3 DEF Rassemblees

\* Of a single segment, the sum is its quantity; of several, what fusion adds.
LEMMA QuantiteSeule ==
  ASSUME NEW q, NEW k, DOMAIN q = {k}, NEW v, v[k] \in Nat
  PROVE  SommeSur(v, DOMAIN q) = v[k]
<1>1. IsFiniteSet({k}) /\ k \in {k} /\ {k} \ {k} = {}
  BY FS_Singleton
<1>2. SommeSur(v, {k}) = v[k]
  BY <1>1, SommeSeule
<1> QED BY <1>2

LEMMA FusionDeCantine ==
  ASSUME NEW n, NEW q, NEW k, TableDeMois(n, q, k), NEW a, NEW pai,
         \A i \in DOMAIN q : a[i] \in Nat /\ q[i] = UneCantine(a[i], pai[i])
  PROVE  Rassemblees(n, q, k) = UneCantine(SommeSur(a, DOMAIN q), pai[k])
<1> DEFINE D == DOMAIN q
<1>1. IsFiniteSet(D) /\ k \in D
  BY Rassembler
<1>2. q[k] = UneCantine(a[k], pai[k]) /\ a[k] \in Nat
  BY <1>1
<1>3. CASE n = 1
  <2>1. D = {k} /\ Rassemblees(n, q, k) = q[k]
    BY <1>3, Rassembler
  <2>2. SommeSur(a, D) = a[k]
    BY <1>2, <2>1, QuantiteSeule
  <2> QED BY <1>2, <2>1, <2>2
<1>4. CASE n # 1
  <2>1. Rassemblees(n, q, k) = Fusionner(q, k)
    BY <1>4, Rassembler
  <2>2. ColonneDe(q, D, "jours", a)
    BY DEF ColonneDe, UneCantine
  <2> DEFINE t == Total(q, "jours")
  <2> HIDE DEF D
  <2>3. t = SommeSur(a, D)
    BY <1>1, <2>2, TotalSomme
  <2>4. q[k].mode = "CANTINE"
    BY <1>2 DEF UneCantine
  <2>5. Fusionner(q, k) = [q[k] EXCEPT !.jours = t]
    BY <2>4 DEF Fusionner, Creche
  <2> HIDE DEF t
  <2>6. [q[k] EXCEPT !.jours = t] = UneCantine(t, pai[k])
    <3> DEFINE r == q[k]
               p == pai[k]
    <3>1. r = [mode |-> "CANTINE", jours |-> a[k], pai |-> p]
      BY <1>2 DEF UneCantine
    <3> HIDE DEF r, p
    <3>2. DOMAIN r = {"mode", "jours", "pai"} /\ r.mode = "CANTINE" /\ r.pai = p
      BY <3>1
    <3>3. [r EXCEPT !.jours = t] = [x \in {"mode", "jours", "pai"} |-> IF x = "jours" THEN t ELSE r[x]]
      BY <3>2
    <3>4. [r EXCEPT !.jours = t] = [mode |-> "CANTINE", jours |-> t, pai |-> p]
      BY <3>2, <3>3
    <3> QED BY <3>4 DEF r, p, UneCantine
  <2> QED BY <2>1, <2>3, <2>5, <2>6 DEF D
<1> QED BY <1>3, <1>4

LEMMA FusionDePeri ==
  ASSUME NEW n, NEW q, NEW k, TableDeMois(n, q, k), NEW a, NEW b,
         \A i \in DOMAIN q : a[i] \in Nat /\ b[i] \in Nat /\ q[i] = UnPeri(a[i], b[i])
  PROVE  Rassemblees(n, q, k) = UnPeri(SommeSur(a, DOMAIN q), SommeSur(b, DOMAIN q))
<1> DEFINE D == DOMAIN q
<1>1. IsFiniteSet(D) /\ k \in D
  BY Rassembler
<1>2. q[k] = UnPeri(a[k], b[k]) /\ a[k] \in Nat /\ b[k] \in Nat
  BY <1>1
<1>3. CASE n = 1
  <2>1. D = {k} /\ Rassemblees(n, q, k) = q[k]
    BY <1>3, Rassembler
  <2>2. SommeSur(a, D) = a[k]
    BY <1>2, <2>1, QuantiteSeule
  <2>3. SommeSur(b, D) = b[k]
    BY <1>2, <2>1, QuantiteSeule
  <2> QED BY <1>2, <2>1, <2>2, <2>3
<1>4. CASE n # 1
  <2>1. Rassemblees(n, q, k) = Fusionner(q, k)
    BY <1>4, Rassembler
  <2>2. ColonneDe(q, D, "matins", a) /\ ColonneDe(q, D, "soirs", b)
    BY DEF ColonneDe, UnPeri
  <2> DEFINE t == Total(q, "matins")
             u == Total(q, "soirs")
  <2> HIDE DEF D
  <2>3. t = SommeSur(a, D)
    BY <1>1, <2>2, TotalSomme
  <2>4. u = SommeSur(b, D)
    BY <1>1, <2>2, TotalSomme
  <2>5. q[k].mode = "PERISCOLAIRE"
    BY <1>2 DEF UnPeri
  <2>6. Fusionner(q, k) = [q[k] EXCEPT !.matins = t, !.soirs = u]
    BY <2>5 DEF Fusionner, Creche
  <2> HIDE DEF t, u
  <2>7. [q[k] EXCEPT !.matins = t, !.soirs = u] = UnPeri(t, u)
    <3> DEFINE r == q[k]
    <3>1. r = [mode |-> "PERISCOLAIRE", matins |-> a[k], soirs |-> b[k]]
      BY <1>2 DEF UnPeri
    <3> HIDE DEF r
    <3>2. DOMAIN r = {"mode", "matins", "soirs"} /\ r.mode = "PERISCOLAIRE"
      BY <3>1
    <3>3. [r EXCEPT !.matins = t, !.soirs = u]
            = [x \in {"mode", "matins", "soirs"} |-> CASE x = "matins" -> t [] x = "soirs" -> u [] OTHER -> r[x]]
      BY <3>2
    <3>4. [r EXCEPT !.matins = t, !.soirs = u] = [mode |-> "PERISCOLAIRE", matins |-> t, soirs |-> u]
      BY <3>2, <3>3
    <3> QED BY <3>4 DEF r, UnPeri
  <2> QED BY <2>1, <2>3, <2>4, <2>6, <2>7 DEF D
<1> QED BY <1>3, <1>4

LEMMA FusionDAlsh ==
  ASSUME NEW n, NEW q, NEW k, TableDeMois(n, q, k), NEW a, NEW b, NEW c,
         \A i \in DOMAIN q : a[i] \in Nat /\ b[i] \in Nat /\ c[i] \in Nat /\ q[i] = UnAlsh(a[i], b[i], c[i])
  PROVE  Rassemblees(n, q, k)
           = UnAlsh(SommeSur(a, DOMAIN q), SommeSur(b, DOMAIN q), SommeSur(c, DOMAIN q))
<1> DEFINE D == DOMAIN q
<1>1. IsFiniteSet(D) /\ k \in D
  BY Rassembler
<1>2. q[k] = UnAlsh(a[k], b[k], c[k]) /\ a[k] \in Nat /\ b[k] \in Nat /\ c[k] \in Nat
  BY <1>1
<1>3. CASE n = 1
  <2>1. D = {k} /\ Rassemblees(n, q, k) = q[k]
    BY <1>3, Rassembler
  <2>2. SommeSur(a, D) = a[k]
    BY <1>2, <2>1, QuantiteSeule
  <2>3. SommeSur(b, D) = b[k]
    BY <1>2, <2>1, QuantiteSeule
  <2>4. SommeSur(c, D) = c[k]
    BY <1>2, <2>1, QuantiteSeule
  <2> QED BY <1>2, <2>1, <2>2, <2>3, <2>4
<1>4. CASE n # 1
  <2>1. Rassemblees(n, q, k) = Fusionner(q, k)
    BY <1>4, Rassembler
  <2>2. ColonneDe(q, D, "journees", a) /\ ColonneDe(q, D, "demis", b) /\ ColonneDe(q, D, "repas", c)
    BY DEF ColonneDe, UnAlsh
  <2> DEFINE t == Total(q, "journees")
             u == Total(q, "demis")
             w == Total(q, "repas")
  <2> HIDE DEF D
  <2>3. t = SommeSur(a, D)
    BY <1>1, <2>2, TotalSomme
  <2>4. u = SommeSur(b, D)
    BY <1>1, <2>2, TotalSomme
  <2>5. w = SommeSur(c, D)
    BY <1>1, <2>2, TotalSomme
  <2>6. q[k].mode = "ALSH"
    BY <1>2 DEF UnAlsh
  <2>7. Fusionner(q, k) = [q[k] EXCEPT !.journees = t, !.demis = u, !.repas = w]
    BY <2>6 DEF Fusionner, Creche
  <2> HIDE DEF t, u, w
  <2>8. [q[k] EXCEPT !.journees = t, !.demis = u, !.repas = w] = UnAlsh(t, u, w)
    <3> DEFINE r == q[k]
    <3>1. r = [mode |-> "ALSH", journees |-> a[k], demis |-> b[k], repas |-> c[k]]
      BY <1>2 DEF UnAlsh
    <3> HIDE DEF r
    <3>2. DOMAIN r = {"mode", "journees", "demis", "repas"} /\ r.mode = "ALSH"
      BY <3>1
    <3>3. [r EXCEPT !.journees = t, !.demis = u, !.repas = w]
            = [x \in {"mode", "journees", "demis", "repas"} |->
                 CASE x = "journees" -> t [] x = "demis" -> u [] x = "repas" -> w [] OTHER -> r[x]]
      BY <3>2
    <3>4. [r EXCEPT !.journees = t, !.demis = u, !.repas = w]
            = [mode |-> "ALSH", journees |-> t, demis |-> u, repas |-> w]
      BY <3>2, <3>3
    <3> QED BY <3>4 DEF r, UnAlsh
  <2> QED BY <2>1, <2>3, <2>4, <2>5, <2>7, <2>8 DEF D
<1> QED BY <1>3, <1>4

\* What the reference counts.
LEMMA ReferenceAbcm ==
  ASSUME NEW fiche, NEW m, NEW saisie, NEW fermes, NEW r, r = AbcmParJour(fiche, m, saisie, fermes)
  PROVE  /\ fiche.mode = "CANTINE" =>
              r = UneCantine(Cardinality(InscritsA(fiche, m, saisie, fermes, "cantine")), saisie.pai)
         /\ fiche.mode = "PERISCOLAIRE" =>
              r = UnPeri(Cardinality(InscritsA(fiche, m, saisie, fermes, "periMatin")),
                         Cardinality(InscritsA(fiche, m, saisie, fermes, "periSoir")))
         /\ fiche.mode = "ALSH" =>
              r = UnAlsh(Cardinality(PlacesA(fiche, m, saisie, fermes, "journees")),
                         Cardinality(PlacesA(fiche, m, saisie, fermes, "demis")),
                         Cardinality(PlacesA(fiche, m, saisie, fermes, "repas")))
<1> DEFINE jours == Vie(fiche, m) \ fermes
           C(service) == Cardinality({j \in jours : service \in Inscrit(fiche, m, saisie, j).services})
           places == UNION {PlacesDu(fiche, m, saisie, j) : j \in jours}
           alsh == [mode |-> "ALSH",
                    journees |-> Cardinality({p \in places : p[2] = "COMPLETE"}),
                    demis    |-> Cardinality({p \in places : p[2] = "DEMI"}),
                    repas    |-> Cardinality({p \in places : p[3]})]
<1>1. \A service : C(service) = Cardinality(InscritsA(fiche, m, saisie, fermes, service))
  BY DEF InscritsA, JoursOuverts
<1>2. fiche.mode = "CANTINE" => r = UneCantine(C("cantine"), saisie.pai)
  BY DEF AbcmParJour, UneCantine
<1>3. fiche.mode = "PERISCOLAIRE" => r = UnPeri(C("periMatin"), C("periSoir"))
  BY DEF AbcmParJour, UnPeri
<1>4. fiche.mode = "ALSH" => r = alsh
  BY DEF AbcmParJour, PlacesDu
<1>5. places = PlacesOuvertes(fiche, m, saisie, fermes)
  BY DEF PlacesOuvertes, JoursOuverts
<1> HIDE DEF places, C
<1>6. alsh = UnAlsh(Cardinality(PlacesA(fiche, m, saisie, fermes, "journees")),
                    Cardinality(PlacesA(fiche, m, saisie, fermes, "demis")),
                    Cardinality(PlacesA(fiche, m, saisie, fermes, "repas")))
  <2>1. {p \in places : p[2] = "COMPLETE"} = PlacesA(fiche, m, saisie, fermes, "journees")
    BY <1>5 DEF PlacesA, ComptePour
  <2>2. {p \in places : p[2] = "DEMI"} = PlacesA(fiche, m, saisie, fermes, "demis")
    BY <1>5 DEF PlacesA, ComptePour
  <2>3. {p \in places : p[3]} = PlacesA(fiche, m, saisie, fermes, "repas")
    BY <1>5 DEF PlacesA, ComptePour
  <2> QED BY <2>1, <2>2, <2>3 DEF UnAlsh
<1> QED BY <1>1, <1>2, <1>3, <1>4, <1>6

\* The month of a school service is that of the reference.
LEMMA MoisDAbcm ==
  ASSUME NEW fiche, ContratCorrect(fiche), fiche.mode # Creche, NEW m \in Int, Vie(fiche, m) # {},
         NEW saisie, SaisieCorrecte(saisie), NEW fermes
  PROVE  Prestations(fiche, m, saisie, fermes) = AbcmParJour(fiche, m, saisie, fermes)
<1> DEFINE mois == Prestations(fiche, m, saisie, fermes)
           r    == AbcmParJour(fiche, m, saisie, fermes)
<1>1. PICK n, k, dates, parts, q : MoisDecoupe(fiche, m, saisie, fermes, n, k, dates, parts, q)
  BY MoisEnParts
<1> DEFINE I == 1 .. n
           C(service, i) == Cardinality(InscritsSous(fiche, m, saisie, fermes, service, dates[i]))
           P(champ, i)   == Cardinality(PlacesSous(fiche, m, saisie, fermes, champ, dates[i]))
           cj == [i \in I |-> C("cantine", i)]
           pm == [i \in I |-> C("periMatin", i)]
           ps == [i \in I |-> C("periSoir", i)]
           aj == [i \in I |-> P("journees", i)]
           ad == [i \in I |-> P("demis", i)]
           ar == [i \in I |-> P("repas", i)]
           pai == [i \in I |-> parts[i].pai]
<1>2. /\ n \in Nat \ {0} /\ Enumeration(fiche, m, I, k, dates) /\ DOMAIN q = I
      /\ \A i \in I : EstPart(fiche, m, saisie, dates[i], parts[i])
      /\ \A i \in I : q[i] = Generer(SegmentDe(fiche, m, dates[i]), m, parts[i], fermes)
      /\ mois = Rassemblees(n, q, k)
  BY <1>1 DEF MoisDecoupe
<1>3. k \in I /\ dates[k] = Mensuelle(fiche, m) /\ \A i \in I : dates[i] \in Couvrants(fiche, m)
  BY <1>2 DEF Enumeration
<1>4. /\ \A i \in I : cj[i] = Cardinality(InscritsSous(fiche, m, saisie, fermes, "cantine", dates[i]))
      /\ \A i \in I : pm[i] = Cardinality(InscritsSous(fiche, m, saisie, fermes, "periMatin", dates[i]))
      /\ \A i \in I : ps[i] = Cardinality(InscritsSous(fiche, m, saisie, fermes, "periSoir", dates[i]))
      /\ \A i \in I : aj[i] = Cardinality(PlacesSous(fiche, m, saisie, fermes, "journees", dates[i]))
      /\ \A i \in I : ad[i] = Cardinality(PlacesSous(fiche, m, saisie, fermes, "demis", dates[i]))
      /\ \A i \in I : ar[i] = Cardinality(PlacesSous(fiche, m, saisie, fermes, "repas", dates[i]))
      /\ \A i \in I : pai[i] = parts[i].pai
  OBVIOUS
<1>5. \A i \in I : parts[i].pai = (dates[i] = Mensuelle(fiche, m) /\ saisie.pai)
  BY <1>2 DEF EstPart
<1>6. (\A i \in I : pai[i] \in BOOLEAN) /\ pai[k] = saisie.pai
  <2>1. saisie.pai \in BOOLEAN
    BY DEF SaisieCorrecte
  <2> HIDE DEF pai, I
  <2> QED BY <1>3, <1>4, <1>5, <2>1
<1>7. I = 1 .. n
  OBVIOUS
<1> HIDE DEF I, cj, pm, ps, aj, ad, ar, pai, mois, r
<1>8. ASSUME NEW i \in I
      PROVE  /\ fiche.mode = "CANTINE" => q[i] = UneCantine(cj[i], pai[i])
             /\ fiche.mode = "PERISCOLAIRE" => q[i] = UnPeri(pm[i], ps[i])
             /\ fiche.mode = "ALSH" => q[i] = UnAlsh(aj[i], ad[i], ar[i])
  <2>1. dates[i] \in Couvrants(fiche, m) /\ EstPart(fiche, m, saisie, dates[i], parts[i])
    BY <1>2, <1>3
  <2>2. q[i] = Generer(SegmentDe(fiche, m, dates[i]), m, parts[i], fermes)
    BY <1>2
  <2>3. /\ fiche.mode = "CANTINE" =>
             q[i] = UneCantine(Cardinality(InscritsSous(fiche, m, saisie, fermes, "cantine", dates[i])), parts[i].pai)
        /\ fiche.mode = "PERISCOLAIRE" =>
             q[i] = UnPeri(Cardinality(InscritsSous(fiche, m, saisie, fermes, "periMatin", dates[i])),
                           Cardinality(InscritsSous(fiche, m, saisie, fermes, "periSoir", dates[i])))
        /\ fiche.mode = "ALSH" =>
             q[i] = UnAlsh(Cardinality(PlacesSous(fiche, m, saisie, fermes, "journees", dates[i])),
                           Cardinality(PlacesSous(fiche, m, saisie, fermes, "demis", dates[i])),
                           Cardinality(PlacesSous(fiche, m, saisie, fermes, "repas", dates[i])))
    BY <2>1, <2>2, AbcmDuSegment
  <2> QED BY <1>4, <2>3
<1>9. Enumeration(fiche, m, I, k, dates)
  BY <1>2
<1>10. /\ SommeSur(cj, I) = Cardinality(InscritsA(fiche, m, saisie, fermes, "cantine"))
       /\ \A i \in I : cj[i] \in Nat
  <2>1. CompteLesInscrits(fiche, m, saisie, fermes, "cantine", dates, I, cj)
    BY <1>4 DEF CompteLesInscrits
  <2> QED BY <1>9, <2>1, CompteInscrits
<1>11. /\ SommeSur(pm, I) = Cardinality(InscritsA(fiche, m, saisie, fermes, "periMatin"))
       /\ \A i \in I : pm[i] \in Nat
  <2>1. CompteLesInscrits(fiche, m, saisie, fermes, "periMatin", dates, I, pm)
    BY <1>4 DEF CompteLesInscrits
  <2> QED BY <1>9, <2>1, CompteInscrits
<1>12. /\ SommeSur(ps, I) = Cardinality(InscritsA(fiche, m, saisie, fermes, "periSoir"))
       /\ \A i \in I : ps[i] \in Nat
  <2>1. CompteLesInscrits(fiche, m, saisie, fermes, "periSoir", dates, I, ps)
    BY <1>4 DEF CompteLesInscrits
  <2> QED BY <1>9, <2>1, CompteInscrits
<1>13. /\ SommeSur(aj, I) = Cardinality(PlacesA(fiche, m, saisie, fermes, "journees"))
       /\ \A i \in I : aj[i] \in Nat
  BY <1>4, <1>9, ComptePlaces
<1>14. /\ SommeSur(ad, I) = Cardinality(PlacesA(fiche, m, saisie, fermes, "demis"))
       /\ \A i \in I : ad[i] \in Nat
  BY <1>4, <1>9, ComptePlaces
<1>15. /\ SommeSur(ar, I) = Cardinality(PlacesA(fiche, m, saisie, fermes, "repas"))
       /\ \A i \in I : ar[i] \in Nat
  BY <1>4, <1>9, ComptePlaces
<1>16. /\ fiche.mode = "CANTINE" =>
            r = UneCantine(Cardinality(InscritsA(fiche, m, saisie, fermes, "cantine")), saisie.pai)
       /\ fiche.mode = "PERISCOLAIRE" =>
            r = UnPeri(Cardinality(InscritsA(fiche, m, saisie, fermes, "periMatin")),
                       Cardinality(InscritsA(fiche, m, saisie, fermes, "periSoir")))
       /\ fiche.mode = "ALSH" =>
            r = UnAlsh(Cardinality(PlacesA(fiche, m, saisie, fermes, "journees")),
                       Cardinality(PlacesA(fiche, m, saisie, fermes, "demis")),
                       Cardinality(PlacesA(fiche, m, saisie, fermes, "repas")))
  BY ReferenceAbcm DEF r
<1>17. CASE fiche.mode = "CANTINE"
  <2>1. \A i \in DOMAIN q : cj[i] \in Nat /\ q[i] = UneCantine(cj[i], pai[i])
    BY <1>2, <1>8, <1>10, <1>17
  <2>2. \A i \in I : q[i] # Refus
    BY <1>2, <1>6, <2>1, PossibleAbcm
  <2>3. TableDeMois(n, q, k)
    BY <1>2, <1>3, <1>7, <2>2 DEF TableDeMois
  <2>4. Rassemblees(n, q, k) = UneCantine(SommeSur(cj, DOMAIN q), pai[k])
    BY <2>1, <2>3, FusionDeCantine
  <2> QED BY <1>2, <1>6, <1>10, <1>16, <1>17, <2>4 DEF mois, r
<1>18. CASE fiche.mode = "PERISCOLAIRE"
  <2>1. \A i \in DOMAIN q : pm[i] \in Nat /\ ps[i] \in Nat /\ q[i] = UnPeri(pm[i], ps[i])
    BY <1>2, <1>8, <1>11, <1>12, <1>18
  <2>2. \A i \in I : q[i] # Refus
    BY <1>2, <2>1, PossibleAbcm
  <2>3. TableDeMois(n, q, k)
    BY <1>2, <1>3, <1>7, <2>2 DEF TableDeMois
  <2>4. Rassemblees(n, q, k) = UnPeri(SommeSur(pm, DOMAIN q), SommeSur(ps, DOMAIN q))
    BY <2>1, <2>3, FusionDePeri
  <2> QED BY <1>2, <1>11, <1>12, <1>16, <1>18, <2>4 DEF mois, r
<1>19. CASE fiche.mode = "ALSH"
  <2>1. \A i \in DOMAIN q : aj[i] \in Nat /\ ad[i] \in Nat /\ ar[i] \in Nat /\ q[i] = UnAlsh(aj[i], ad[i], ar[i])
    BY <1>2, <1>8, <1>13, <1>14, <1>15, <1>19
  <2>2. \A i \in I : q[i] # Refus
    BY <1>2, <2>1, PossibleAbcm
  <2>3. TableDeMois(n, q, k)
    BY <1>2, <1>3, <1>7, <2>2 DEF TableDeMois
  <2>4. Rassemblees(n, q, k) = UnAlsh(SommeSur(aj, DOMAIN q), SommeSur(ad, DOMAIN q), SommeSur(ar, DOMAIN q))
    BY <2>1, <2>3, FusionDAlsh
  <2> QED BY <1>2, <1>13, <1>14, <1>15, <1>16, <1>19, <2>4 DEF mois, r
<1>20. fiche.mode \in {"CANTINE", "PERISCOLAIRE", "ALSH"}
  BY DEF ContratCorrect, Modes
<1> QED BY <1>17, <1>18, <1>19, <1>20

\* A month without a governed day: the current version and the whole contract.
SegmentCourant(fiche) ==
  [mode |-> fiche.mode, champs |-> fiche.versions[VersionCourante(fiche.versions)],
   du |-> fiche.du, au |-> fiche.au]

LEMMA SegmentSeul ==
  ASSUME NEW fiche, ContratCorrect(fiche), NEW m \in Int, Vie(fiche, m) = {}, NEW saisie, NEW fermes
  PROVE  /\ Prestations(fiche, m, saisie, fermes) = Generer(SegmentCourant(fiche), m, saisie, fermes)
         /\ JoursActifs(SegmentCourant(fiche), m) = JoursDuContrat(fiche, m)
<1> DEFINE segments == ConstruireSegments(fiche, m)
           s == SegmentCourant(fiche)
           mois == Prestations(fiche, m, saisie, fermes)
<1>1. Couvrants(fiche, m) = {}
  <2>1. Couvrants(fiche, m) = {EnVigueur(fiche, j) : j \in Vie(fiche, m)}
    BY CouvrantsEnVigueur
  <2> QED BY <2>1
<1>2. segments = <<s>>
  <2>1. segments = IF Couvrants(fiche, m) = {} THEN <<s>>
                   ELSE [i \in DOMAIN Chronologie(Couvrants(fiche, m)) |->
                           SegmentDe(fiche, m, Chronologie(Couvrants(fiche, m))[i])]
    BY DEF ConstruireSegments, Couvrants, SegmentDe, SegmentCourant
  <2> QED BY <1>1, <2>1
<1>3. JoursActifs(s, m) = JoursDuContrat(fiche, m)
  BY DEF JoursActifs, EstDansPeriode, JoursDuContrat, SegmentCourant
<1> HIDE DEF s
<1>4. mois = Generer(s, m, saisie, fermes)
  <2>1. Len(segments) = 1 /\ segments[1] = s
    BY <1>2
  <2>2. mois = GenererSegments(segments, m, saisie, fermes)
    BY DEF Prestations
  <2> HIDE DEF segments, mois
  <2> QED BY <2>1, <2>2 DEF GenererSegments
<1> QED BY <1>3, <1>4 DEF s

\* A contract without a day in the month has nothing to bill.
LEMMA MoisSansJour ==
  ASSUME NEW fiche, ContratCorrect(fiche), NEW m \in Int, JoursDuContrat(fiche, m) = {},
         NEW saisie, NEW fermes
  PROVE  RienDu(Prestations(fiche, m, saisie, fermes))
<1> DEFINE s == SegmentCourant(fiche)
           mois == Prestations(fiche, m, saisie, fermes)
<1>1. Vie(fiche, m) = {}
  BY DEF Vie
<1>3. JoursActifs(s, m) = {}
  BY <1>1, SegmentSeul
<1>4. s.mode = fiche.mode
  BY DEF SegmentCourant
<1> HIDE DEF s
<1>5. mois = Generer(s, m, saisie, fermes)
  BY <1>1, SegmentSeul DEF s
<1> HIDE DEF mois
<1>6. CASE fiche.mode = Creche
  <2>1. mois = CrecheVide(s)
    BY <1>3, <1>4, <1>5, <1>6 DEF Generer, GenererCreche
  <2> QED BY <2>1 DEF RienDu, CrecheVide, mois
<1>7. CASE fiche.mode # Creche
  <2>1. mois = GenererAbcm(s, m, saisie, fermes)
    BY <1>4, <1>5, <1>7 DEF Generer
  <2>2. JoursFacturables(s, m, fermes) = {}
    BY <1>3 DEF JoursFacturables
  <2>3. \A service : JoursDe(service, s, m, saisie, fermes) = {}
    BY <2>2 DEF JoursDe
  <2>4. SeancesAlsh(s, m, saisie, fermes) = {}
    BY <2>2 DEF SeancesAlsh
  <2>5. Cardinality({}) = 0
    BY FS_EmptySet
  <2>6. CompterAlsh({}) = UnAlsh(0, 0, 0)
    <3>1. /\ {x \in {} : x.type = "COMPLETE"} = {} /\ {x \in {} : x.type = "DEMI"} = {}
          /\ {x \in {} : x.repas} = {}
      OBVIOUS
    <3> QED BY <2>5, <3>1 DEF CompterAlsh, UnAlsh
  <2>7. \/ \E pai : mois = UneCantine(0, pai)
        \/ mois = UnPeri(0, 0)
        \/ mois = UnAlsh(0, 0, 0)
    <3>1. CASE s.mode = "CANTINE"
      <4>1. mois = UneCantine(0, saisie.pai)
        BY <2>1, <2>3, <2>5, <3>1 DEF GenererAbcm, UneCantine
      <4> QED BY <4>1
    <3>2. CASE s.mode = "PERISCOLAIRE"
      <4>1. mois = UnPeri(0, 0)
        BY <2>1, <2>3, <2>5, <3>2 DEF GenererAbcm, UnPeri
      <4> QED BY <4>1
    <3>3. CASE s.mode \notin {"CANTINE", "PERISCOLAIRE"}
      <4>1. mois = CompterAlsh(SeancesAlsh(s, m, saisie, fermes))
        BY <2>1, <3>3 DEF GenererAbcm
      <4> QED BY <2>4, <2>6, <4>1
    <3> QED BY <3>1, <3>2, <3>3
  <2>8. RienDu(mois)
    <3>1. \A pai : RienDu(UneCantine(0, pai))
      BY DEF RienDu, UneCantine, Creche
    <3>2. RienDu(UnPeri(0, 0)) /\ RienDu(UnAlsh(0, 0, 0))
      BY DEF RienDu, UnPeri, UnAlsh, Creche
    <3> QED BY <2>7, <3>1, <3>2
  <2> QED BY <2>8 DEF mois
<1> QED BY <1>6, <1>7

\* The sums of a segment over a set, as sums of a function.
LEMMA SommesDuSegment ==
  ASSUME NEW s, NEW X, NEW S \in SUBSET X
  PROVE  /\ HeuresDes(s, S) = SommeSur([j \in S |-> Cardinality(HeuresDuJour(s, j))], S)
         /\ Reductions(s, S) = SommeSur([a \in S |-> Reduction(s, a)], S)
         /\ Extensions(s, S) = SommeSur([a \in S |-> Extension(s, a)], S)
<1> DEFINE h == [j \in S |-> Cardinality(HeuresDuJour(s, j))]
           u == [a \in S |-> Reduction(s, a)]
           v == [a \in S |-> Extension(s, a)]
<1>1. HeuresDes(s, S) = SommeSur(h, S)
  BY DEF HeuresDes, SommeSur, MapThenSumSet, MapThenFoldSet
<1>2. Reductions(s, S) = SommeSur(u, S)
  BY DEF Reductions, SommeSur, MapThenSumSet, MapThenFoldSet
<1>3. Extensions(s, S) = SommeSur(v, S)
  BY DEF Extensions, SommeSur, MapThenSumSet, MapThenFoldSet
<1> QED BY <1>1, <1>2, <1>3

\* A segment is its mode, its parameters and its days of the month.
LEMMA SommesSelonChamps ==
  ASSUME NEW s, NEW t, s.champs = t.champs, NEW S, IsFiniteSet(S)
  PROVE  /\ HeuresDes(s, S) = HeuresDes(t, S)
         /\ Reductions(s, S) = Reductions(t, S) /\ Extensions(s, S) = Extensions(t, S)
<1> DEFINE h(z) == [j \in S |-> Cardinality(HeuresDuJour(z, j))]
           u(z) == [a \in S |-> Reduction(z, a)]
           v(z) == [a \in S |-> Extension(z, a)]
<1>1. \A j : HeuresDuJour(s, j) = HeuresDuJour(t, j)
  BY DEF HeuresDuJour
<1>2. h(s) = h(t) /\ u(s) = u(t) /\ v(s) = v(t)
  BY <1>1 DEF Reduction, Extension
<1>3. /\ HeuresDes(s, S) = SommeSur(h(s), S) /\ HeuresDes(t, S) = SommeSur(h(t), S)
      /\ Reductions(s, S) = SommeSur(u(s), S) /\ Reductions(t, S) = SommeSur(u(t), S)
      /\ Extensions(s, S) = SommeSur(v(s), S) /\ Extensions(t, S) = SommeSur(v(t), S)
  BY SommesDuSegment
<1> HIDE DEF h, u, v
<1> QED BY <1>2, <1>3

LEMMA MemeSegment ==
  ASSUME NEW s, NEW t, s.mode = t.mode, s.champs = t.champs, NEW m \in Int,
         JoursActifs(s, m) = JoursActifs(t, m), NEW saisie, SaisieCorrecte(saisie), NEW fermes
  PROVE  Generer(s, m, saisie, fermes) = Generer(t, m, saisie, fermes)
<1> DEFINE J == JoursActifs(t, m)
           A == DansSegment(t, m, saisie.ajustements)
<1>1. IsFiniteSet(J \ fermes) /\ IsFiniteSet(A) /\ IsFiniteSet(Deductibles(A))
  BY BornesDuMois, FS_Subset DEF JoursActifs, DansSegment, Deductibles, SaisieCorrecte
<1>2. DansSegment(s, m, saisie.ajustements) = A
      /\ DansSegment(s, m, saisie.supplementaires) = DansSegment(t, m, saisie.supplementaires)
  BY DEF DansSegment
<1>3. /\ HeuresDes(s, J \ fermes) = HeuresDes(t, J \ fermes)
      /\ Reductions(s, Deductibles(A)) = Reductions(t, Deductibles(A))
      /\ Extensions(s, A) = Extensions(t, A)
  <2> HIDE DEF J, A
  <2> QED BY <1>1, SommesSelonChamps
<1>4. AjustementRefuse(s, saisie, m) <=> AjustementRefuse(t, saisie, m)
  <2>1. \A j : HeuresDuJour(s, j) = HeuresDuJour(t, j)
    BY DEF HeuresDuJour
  <2> QED BY <2>1 DEF AjustementRefuse
<1>5. CrecheVide(s) = CrecheVide(t)
  BY DEF CrecheVide
<1>6. GenererCreche(s, m, saisie, fermes) = GenererCreche(t, m, saisie, fermes)
  BY <1>2, <1>3, <1>4, <1>5 DEF GenererCreche
<1>7. GenererAbcm(s, m, saisie, fermes) = GenererAbcm(t, m, saisie, fermes)
  <2>1. \A j : InscriptionsEffectives(s, saisie, j) = InscriptionsEffectives(t, saisie, j)
    BY DEF InscriptionsEffectives
  <2>2. JoursFacturables(s, m, fermes) = JoursFacturables(t, m, fermes)
    BY DEF JoursFacturables
  <2>3. \A service : JoursDe(service, s, m, saisie, fermes) = JoursDe(service, t, m, saisie, fermes)
    BY <2>1, <2>2 DEF JoursDe
  <2>4. SeancesAlsh(s, m, saisie, fermes) = SeancesAlsh(t, m, saisie, fermes)
    BY <2>1, <2>2 DEF SeancesAlsh
  <2> QED BY <2>3, <2>4 DEF GenererAbcm
<1> QED BY <1>6, <1>7 DEF Generer

\* Under its current version alone, the contract has the same segment.
LEMMA MoisSousVersionCourante ==
  ASSUME NEW fiche, ContratCorrect(fiche), NEW m \in Int, Vie(fiche, m) = {},
         JoursDuContrat(fiche, m) # {}, NEW saisie, SaisieCorrecte(saisie), NEW fermes
  PROVE  Prestations(fiche, m, saisie, fermes)
           = ParJour(SousVersionCourante(fiche), m, saisie, fermes)
<1> DEFINE f == SousVersionCourante(fiche)
           c == VersionCourante(fiche.versions)
           d == fiche.du
           s == SegmentCourant(fiche)
           t == SegmentDe(f, m, d)
<1>1. c \in DOMAIN fiche.versions
  <2> DEFINE passees == {e \in DOMAIN fiche.versions : e <= AUJOURDHUI}
  <2>1. /\ DOMAIN fiche.versions \in SUBSET Int /\ IsFiniteSet(DOMAIN fiche.versions)
        /\ DOMAIN fiche.versions # {}
    BY DEF ContratCorrect
  <2>2. Min(DOMAIN fiche.versions) \in DOMAIN fiche.versions
    BY <2>1, MinDEntiers
  <2>3. passees \in SUBSET Int /\ IsFiniteSet(passees)
    BY <2>1, FS_Subset
  <2>4. passees # {} => Max(passees) \in DOMAIN fiche.versions
    <3>1. passees # {} => Max(passees) \in passees
      <4> HIDE DEF passees
      <4> QED BY <2>3, MaxDEntiers
    <3> QED BY <3>1
  <2> QED BY <2>2, <2>4 DEF VersionCourante
<1>2. /\ f.mode = fiche.mode /\ f.du = d /\ f.au = fiche.au
      /\ DOMAIN f.versions = {d} /\ f.versions[d] = fiche.versions[c]
  <2>1. ContratCorrect(fiche)
    OBVIOUS
  <2> QED BY DEF SousVersionCourante
<1>3. ContratCorrect(f)
  <2>1. f.mode \in Modes /\ f.du \in Int /\ f.au \in Int \cup {Rien}
    BY <1>2 DEF ContratCorrect
  <2>2. DOMAIN f.versions \in SUBSET Int /\ IsFiniteSet(DOMAIN f.versions) /\ DOMAIN f.versions # {}
    <3>1. DOMAIN f.versions = {d} /\ d \in Int
      BY <1>2 DEF ContratCorrect
    <3> QED BY <3>1, FS_Singleton
  <2>3. \A e \in DOMAIN f.versions : VersionCorrecte(f.versions[e])
    BY <1>1, <1>2 DEF ContratCorrect
  <2> HIDE DEF f
  <2> QED BY <2>1, <2>2, <2>3 DEF ContratCorrect
<1> HIDE DEF f
<1>4. Vie(f, m) = JoursDuContrat(fiche, m) /\ Vie(f, m) # {}
  <2>1. JoursDuContrat(f, m) = JoursDuContrat(fiche, m)
    BY <1>2 DEF JoursDuContrat
  <2>2. \A j \in JoursDuContrat(f, m) : d <= j
    BY <1>2 DEF JoursDuContrat
  <2> QED BY <1>2, <2>1, <2>2 DEF Vie
<1>5. \A j \in Vie(f, m) : EnVigueur(f, j) = d
  BY <1>2, <1>3, CouvrantsEnVigueur
<1>6. Couvrants(f, m) = {d}
  BY <1>3, <1>4, <1>5, CouvrantsEnVigueur
<1>7. Prestations(f, m, saisie, fermes) = ParJour(f, m, saisie, fermes)
  <2>1. CASE f.mode = Creche
    <3>1. Conforme(Prestations(f, m, saisie, fermes), f, m, saisie, fermes)
      BY <1>3, <1>4, <2>1, CrecheConforme
    <3>2. JoursDuContrat(f, m) # {}
      BY <1>4 DEF Vie
    <3>3. ~Partage(f, m)
      <4>1. {EnVigueur(f, j) : j \in Vie(f, m)} = {d}
        BY <1>4, <1>5
      <4>2. Cardinality({d}) = 1
        BY FS_Singleton
      <4> QED BY <4>1, <4>2 DEF Partage
    <3> DEFINE mois == Prestations(f, m, saisie, fermes)
    <3> HIDE DEF mois
    <3>4. Conforme(mois, f, m, saisie, fermes) => mois = ParJour(f, m, saisie, fermes)
      BY <1>4, <3>2, <3>3 DEF Conforme
    <3> QED BY <3>1, <3>4 DEF mois
  <2>2. CASE f.mode # Creche
    BY <1>3, <1>4, <2>2, MoisDAbcm DEF ParJour
  <2> QED BY <2>1, <2>2
<1>8. Prestations(f, m, saisie, fermes) = Generer(t, m, saisie, fermes)
  <2> DEFINE segments == ConstruireSegments(f, m)
             dates    == Chronologie(Couvrants(f, m))
  <2>1. Cardinality(Couvrants(f, m)) = 1
    BY <1>6, FS_Singleton
  <2> HIDE DEF segments, dates
  <2>2. /\ Len(segments) = Cardinality(Couvrants(f, m))
        /\ \A i \in 1 .. Cardinality(Couvrants(f, m)) :
             dates[i] \in Couvrants(f, m) /\ segments[i] = SegmentDe(f, m, dates[i])
    BY <1>3, <1>4, SegmentsDuMois DEF segments, dates
  <2>3. Len(segments) = 1 /\ segments[1] = t
    BY <1>6, <2>1, <2>2
  <2> HIDE DEF t
  <2> QED BY <2>3 DEF Prestations, GenererSegments, segments
<1>9. JoursActifs(t, m) = JoursActifs(s, m)
  <2>1. JoursActifs(t, m) = JoursSous(f, m, d)
    BY <1>3, <1>6, JoursDuSegment
  <2>2. JoursSous(f, m, d) = Vie(f, m)
    BY <1>5 DEF JoursSous
  <2> QED BY <1>4, <2>1, <2>2, SegmentSeul
<1>10. s.mode = t.mode /\ s.champs = t.champs
  BY <1>2 DEF SegmentCourant, SegmentDe
<1> HIDE DEF s, t
<1>11. Generer(s, m, saisie, fermes) = Generer(t, m, saisie, fermes)
  BY <1>9, <1>10, MemeSegment
<1>12. Prestations(fiche, m, saisie, fermes) = Generer(s, m, saisie, fermes)
  BY SegmentSeul DEF s
<1> QED BY <1>7, <1>8, <1>11, <1>12 DEF f

\* For every contract, entry and calendar, the quantities of a month are those
\* of the day-by-day reference: genererPrestationMoisSegments, which cuts the
\* month at the amendments and adds up the segments, counts each day under the
\* version in force on it and each entry once; it reserves on the open days of
\* the contract only, adds on any of its days, and deducts the absences of any
\* date.  The contract may begin before its first version
\* (corrigerVersionCourante): a month of it that no version governs is the
\* current version's.
THEOREM MoisJourParJour ==
  ASSUME NEW fiche, ContratCorrect(fiche), NEW m \in Int,
         NEW saisie, SaisieCorrecte(saisie), NEW fermes
  PROVE  Conforme(Prestations(fiche, m, saisie, fermes), fiche, m, saisie, fermes)
<1> DEFINE mois == Prestations(fiche, m, saisie, fermes)
<1>0. Vie(fiche, m) # {} => JoursDuContrat(fiche, m) # {}
  BY DEF Vie
<1>1. CASE JoursDuContrat(fiche, m) = {}
  <2>1. RienDu(mois)
    BY <1>1, MoisSansJour
  <2> HIDE DEF mois
  <2>2. Conforme(mois, fiche, m, saisie, fermes)
    BY <1>0, <1>1, <2>1 DEF Conforme
  <2> QED BY <2>2 DEF mois
<1>2. CASE JoursDuContrat(fiche, m) # {} /\ Vie(fiche, m) = {}
  <2>1. mois = ParJour(SousVersionCourante(fiche), m, saisie, fermes)
    BY <1>2, MoisSousVersionCourante
  <2> HIDE DEF mois
  <2>2. Conforme(mois, fiche, m, saisie, fermes)
    BY <1>2, <2>1 DEF Conforme
  <2> QED BY <2>2 DEF mois
<1>3. CASE Vie(fiche, m) # {} /\ fiche.mode = Creche
  BY <1>3, CrecheConforme
<1>4. CASE Vie(fiche, m) # {} /\ fiche.mode # Creche
  <2>1. mois = AbcmParJour(fiche, m, saisie, fermes)
    BY <1>4, MoisDAbcm
  <2>2. ParJour(fiche, m, saisie, fermes) = AbcmParJour(fiche, m, saisie, fermes)
    BY <1>4 DEF ParJour
  <2> HIDE DEF mois
  <2>3. Conforme(mois, fiche, m, saisie, fermes) <=> mois = ParJour(fiche, m, saisie, fermes)
    BY <1>0, <1>4 DEF Conforme
  <2>4. Conforme(mois, fiche, m, saisie, fermes)
    BY <2>1, <2>2, <2>3
  <2> QED BY <2>4 DEF mois
<1> QED BY <1>1, <1>2, <1>3, <1>4

----------------------------------------------------------------------------
(* Prices: the credit of the deductions, rounded, never exceeds the        *)
(* instalment, rounded.  The tariff checks the hours (INV-05); each of the *)
(* three lines is rounded to the centime on its own.                       *)

\* Rounding is monotone: a quotient that is not greater is not rounded higher.
LEMMA ArrondiMonotone ==
  ASSUME NEW x \in Nat, NEW y \in Nat, 100 * x <= 60 * y
  PROVE  ArrondiDiv(x, 60) <= ArrondiDiv(y, 100)
<1> DEFINE p == (2 * x + 60) \div 120
           q == (2 * y + 100) \div 200
<1>1. p \in Int /\ q \in Int
  OBVIOUS
<1>2. 120 * p <= 2 * x + 60
  OBVIOUS
<1>3. 2 * y + 100 < 200 * (q + 1)
  OBVIOUS
<1>4. p < q + 1
  BY <1>1, <1>2, <1>3
<1> QED BY <1>1, <1>4 DEF ArrondiDiv

LEMMA ArrondiNaturel ==
  ASSUME NEW a \in Nat, NEW b \in Nat \ {0}
  PROVE  ArrondiDiv(a, b) \in Nat
<1>1. 2 * a + b \in Nat /\ 2 * b \in Nat /\ 2 * b > 0
  OBVIOUS
<1>2. \A n \in Nat, d \in Nat : d > 0 => n \div d \in Nat
  OBVIOUS
<1> QED BY <1>1, <1>2 DEF ArrondiDiv

LEMMA ProduitMonotone ==
  ASSUME NEW a \in Nat, NEW b \in Nat, NEW c \in Nat, a <= b
  PROVE  c * a <= c * b
<1>1. PICK d \in Nat : b = a + d
  <2>1. b - a \in Nat /\ b = a + (b - a)
    OBVIOUS
  <2> QED BY <2>1
<1>2. c * b = c * a + c * d
  BY <1>1
<1>3. c * d \in Nat /\ c * a \in Nat
  BY <1>1
<1> QED BY <1>2, <1>3

\* The three lines of a month never add up to a negative amount, for any
\* hourly rate: INV-06 follows from INV-05 in spite of the rounding of each
\* line (TarifCrechePsu.calculerCoutMois).
THEOREM CoutPositif ==
  ASSUME NEW th \in Nat, NEW centiemes \in Nat, NEW complement \in Nat, NEW deduites \in Nat,
         ~DeductionExcessive(centiemes, deduites)
  PROVE  CoutCreche(th, centiemes, complement, deduites) \in Nat
<1> DEFINE x == th * deduites * CRENEAU
           y == th * centiemes
<1>0. CRENEAU \in Nat
  BY ConstantesTarif
<1>1. x \in Nat /\ y \in Nat /\ deduites * CRENEAU \in Nat
  BY <1>0
<1>2. 100 * x <= 60 * y
  <2>1. 100 * (deduites * CRENEAU) <= 60 * centiemes
    BY <1>0, <1>1 DEF DeductionExcessive
  <2>2. th * (100 * (deduites * CRENEAU)) <= th * (60 * centiemes)
    BY <1>1, <2>1, ProduitMonotone
  <2>3. th * (100 * (deduites * CRENEAU)) = 100 * x /\ th * (60 * centiemes) = 60 * y
    BY <1>0
  <2> QED BY <2>2, <2>3
<1>3. Duree60(th, deduites) <= Mensualite(th, centiemes)
  BY <1>1, <1>2, ArrondiMonotone DEF Duree60, Mensualite
<1>4. th * complement * CRENEAU \in Nat
  BY <1>0
<1>5. /\ Duree60(th, complement) \in Nat /\ Duree60(th, deduites) \in Nat
      /\ Mensualite(th, centiemes) \in Nat
  BY <1>1, <1>4, ArrondiNaturel DEF Duree60, Mensualite
<1> QED BY <1>3, <1>5 DEF CoutCreche

\* A price list of creche, as svc-referentiel publishes them.
Baremes ==
  [plafond : Nat \cup {Rien}, plancher : Nat \cup {Rien},
   taux : UNION {[niveaux -> Nat] : niveaux \in SUBSET Nat}]

LEMMA RessourcesBornees ==
  ASSUME NEW r \in Nat, NEW b \in Baremes
  PROVE  BornerRessources(r, b) \in Nat
BY DEF BornerRessources, Baremes

LEMMA TauxNaturel ==
  ASSUME NEW b \in Baremes, NEW enfants \in Nat, Taux(b, enfants) # Refus
  PROVE  Taux(b, enfants) \in Nat
<1>1. PICK niveaux \in SUBSET Nat : b.taux \in [niveaux -> Nat]
  BY DEF Baremes
<1> QED BY <1>1 DEF Taux

\* Whatever the household, the price list and the hours, the month of a creche
\* contract is refused or priced with a natural number of centimes: never a
\* negative one (valoriserCreche, INV-05 and INV-06).
THEOREM CrecheRefuseeOuDue ==
  ASSUME NEW f \in [ressources : Nat, enfants : Nat], NEW b \in Baremes,
         NEW p \in [annuel : Nat, mensualites : Nat \ {0}, complement : Nat, deduites : Nat]
  PROVE  ValoriserCreche(p, f, b) \in Nat \cup {Refus}
<1>1. CASE Taux(b, f.enfants) = Refus \/ DeductionExcessive(HeuresMensualisees(p), p.deduites)
  BY <1>1 DEF ValoriserCreche
<1>2. CASE ~(Taux(b, f.enfants) = Refus \/ DeductionExcessive(HeuresMensualisees(p), p.deduites))
  <2> DEFINE assiette == BornerRessources(f.ressources, b)
             taux     == Taux(b, f.enfants)
  <2>1. assiette \in Nat /\ taux \in Nat
    BY <1>2, RessourcesBornees, TauxNaturel
  <2>2. TarifHoraire(f, b) \in Nat
    <3>1. assiette * taux \in Nat
      BY <2>1
    <3> HIDE DEF assiette, taux
    <3>2. ArrondiDiv(assiette * taux, 1000000) \in Nat
      BY <3>1, ArrondiNaturel
    <3> USE DEF assiette, taux
    <3> QED BY <3>2 DEF TarifHoraire
  <2>3. HeuresMensualisees(p) \in Nat
    <3>1. 100 * p.annuel \in Nat /\ p.mensualites \in Nat \ {0}
      OBVIOUS
    <3> QED BY <3>1, ArrondiNaturel DEF HeuresMensualisees
  <2>4. p.complement \in Nat /\ p.deduites \in Nat
    OBVIOUS
  <2>5. CoutCreche(TarifHoraire(f, b), HeuresMensualisees(p), p.complement, p.deduites) \in Nat
    BY <1>2, <2>2, <2>3, <2>4, CoutPositif
  <2> QED BY <1>2, <2>5 DEF ValoriserCreche
<1> QED BY <1>1, <1>2

----------------------------------------------------------------------------
(* The request: what it holds was there to be seen since it began.         *)

Vu == [foyers |-> vus.foyers, presents |-> vus.presents, quantites |-> vus.quantites]

\* The request and what it could see keep their shape.
FormesCout ==
  /\ requete = [etape |-> requete.etape, mois |-> requete.mois, foyer |-> requete.foyer,
                contrats |-> requete.contrats, lignes |-> requete.lignes,
                replis |-> requete.replis, reponse |-> requete.reponse]
  /\ vus = Vu
  /\ vus.quantites = [c \in CONTRATS |-> vus.quantites[c]]
  /\ vus.presents \subseteq CONTRATS

\* A function from contracts to quantities that were there to be seen.
Visibles(quantites) ==
  \A c \in DOMAIN quantites : c \in CONTRATS /\ quantites[c] \in vus.quantites[c]

\* While its tables are read and its fallbacks asked for.
LecturesVues ==
  requete.etape = "lectures" =>
    /\ requete.foyer # Rien => requete.foyer \in vus.foyers
    /\ requete.contrats # Rien =>
         vus.presents \subseteq DOMAIN requete.contrats /\ DOMAIN requete.contrats \subseteq CONTRATS
    /\ requete.lignes # Rien => Visibles(requete.lignes)
    /\ Visibles(requete.replis)

InvCout == FormesCout /\ LecturesVues /\ CoutCoherent

\* What was seen stays seen, what is there now is added, and a contract that
\* is there now and always was stays present.
LEMMA VuGrandit ==
  ASSUME FormesCout, Observer, requete.etape = "lectures"
  PROVE  /\ vus' = VuMaintenant
         /\ vus'.foyers = vus.foyers \cup {IF FoyerFroid THEN FoyerComplete ELSE tFoyer}
         /\ vus'.presents = {c \in vus.presents : tContrats[c] # Rien}
         /\ vus'.quantites = [c \in CONTRATS |->
              vus.quantites[c] \cup QuantitesVisibles(c, requete.mois)]
<1>1. vus' = VuMaintenant
  BY DEF Observer
<1> QED BY <1>1 DEF VuMaintenant

LEMMA FormesVues ==
  ASSUME FormesCout, Observer
  PROVE  (/\ vus = Vu
          /\ vus.quantites = [c \in CONTRATS |-> vus.quantites[c]]
          /\ vus.presents \subseteq CONTRATS)'
<1>1. CASE requete.etape = "lectures"
  <2>1. vus' = VuMaintenant /\ vus'.quantites = [c \in CONTRATS |->
          vus.quantites[c] \cup QuantitesVisibles(c, requete.mois)]
    BY <1>1, VuGrandit
  <2>2. (vus = Vu)'
    BY <2>1 DEF Vu, VuMaintenant
  <2>3. (vus.quantites = [c \in CONTRATS |-> vus.quantites[c]])'
    BY <2>1
  <2>4. (vus.presents \subseteq CONTRATS)'
    BY <1>1, VuGrandit DEF FormesCout
  <2> QED BY <2>2, <2>3, <2>4
<1>2. CASE requete.etape = "repondu" /\ requete'.etape = "repondu"
  <2>1. vus' = vus
    BY <1>2 DEF Observer
  <2> QED BY <2>1 DEF FormesCout, Vu
<1>3. CASE requete.etape # "lectures" /\ ~(requete.etape = "repondu" /\ requete'.etape = "repondu")
  <2>1. vus' = VuRien
    BY <1>3 DEF Observer
  <2> QED BY <2>1 DEF VuRien, Vu
<1> QED BY <1>1, <1>2, <1>3

LEMMA VisiblesResteVisible ==
  ASSUME FormesCout, Observer, requete.etape = "lectures", NEW q, Visibles(q)
  PROVE  \A c \in DOMAIN q : c \in CONTRATS /\ q[c] \in vus'.quantites[c]
BY VuGrandit DEF Visibles

\* A step that leaves the request as it is.
LEMMA SansRequete ==
  ASSUME InvCout, Observer, UNCHANGED requete
  PROVE  InvCout'
<1> USE DEF InvCout
<1>1. FormesCout'
  BY FormesVues DEF FormesCout
<1>2. LecturesVues'
  <2> SUFFICES ASSUME requete.etape = "lectures"
               PROVE  LecturesVues'
    BY DEF LecturesVues
  <2>1. vus.foyers \subseteq vus'.foyers /\ vus'.presents \subseteq vus.presents
    BY VuGrandit
  <2>2. requete.lignes # Rien => Visibles(requete.lignes)'
    BY VisiblesResteVisible DEF LecturesVues, Visibles
  <2>3. Visibles(requete.replis)'
    BY VisiblesResteVisible DEF LecturesVues, Visibles
  <2> QED BY <2>1, <2>2, <2>3 DEF LecturesVues
<1>3. CoutCoherent'
  <2>1. CASE requete.etape = "repondu"
    <3>1. vus' = vus
      BY <2>1 DEF Observer
    <3> QED BY <3>1 DEF CoutCoherent
  <2>2. CASE requete.etape # "repondu"
    BY <2>2 DEF CoutCoherent
  <2> QED BY <2>1, <2>2
<1> QED BY <1>1, <1>2, <1>3

\* A read of the request, or a fallback: its record is rebuilt with fields r.
LEMMA UneLecture ==
  ASSUME InvCout, Observer, requete.etape = "lectures",
         NEW r, requete' = r,
         r = [etape |-> "lectures", mois |-> requete.mois, foyer |-> r.foyer,
              contrats |-> r.contrats, lignes |-> r.lignes, replis |-> r.replis,
              reponse |-> requete.reponse],
         \/ r.foyer = requete.foyer
         \/ r.foyer = IF FoyerFroid THEN FoyerComplete ELSE tFoyer,
         r.contrats = requete.contrats \/ r.contrats = ContratsLus,
         r.lignes = requete.lignes \/ r.lignes = LignesDe(requete.mois),
         \/ r.replis = requete.replis
         \/ \E c \in CONTRATS :
              /\ QuantitesDe(c, requete.mois) # Refus
              /\ r.replis = [d \in DOMAIN requete.replis \cup {c} |->
                  IF d = c THEN QuantitesDe(c, requete.mois) ELSE requete.replis[d]]
  PROVE  InvCout'
<1> USE DEF InvCout
<1>0. requete'.etape = "lectures" /\ requete' = r
  OBVIOUS
<1>1. FormesCout'
  BY <1>0, FormesVues DEF FormesCout
<1>2. requete'.foyer # Rien => requete'.foyer \in vus'.foyers
  BY VuGrandit DEF LecturesVues
<1>3. requete'.contrats # Rien =>
        vus'.presents \subseteq DOMAIN requete'.contrats /\ DOMAIN requete'.contrats \subseteq CONTRATS
  <2>1. vus'.presents = {c \in vus.presents : tContrats[c] # Rien}
    BY VuGrandit
  <2>2. vus.presents \subseteq CONTRATS
    BY DEF FormesCout
  <2>3. CASE r.contrats = requete.contrats
    BY <1>0, <2>1, <2>3 DEF LecturesVues
  <2>4. CASE r.contrats = ContratsLus
    BY <1>0, <2>1, <2>2, <2>4 DEF ContratsLus
  <2> QED BY <2>3, <2>4
<1>4. requete'.lignes # Rien => Visibles(requete.lignes)'
  <2>1. CASE r.lignes = requete.lignes
    BY <1>0, <2>1, VisiblesResteVisible DEF LecturesVues, Visibles
  <2>2. CASE r.lignes = LignesDe(requete.mois)
    <3>1. \A c \in DOMAIN LignesDe(requete.mois) :
            c \in CONTRATS /\ LignesDe(requete.mois)[c] \in QuantitesVisibles(c, requete.mois)
      BY DEF LignesDe, QuantitesVisibles
    <3> QED BY <1>0, <2>2, <3>1, VuGrandit DEF Visibles
  <2> QED BY <2>1, <2>2
<1>5. Visibles(requete.replis)'
  <2>1. \A c \in DOMAIN requete.replis : c \in CONTRATS /\ requete.replis[c] \in vus'.quantites[c]
    BY VisiblesResteVisible DEF LecturesVues
  <2>2. CASE r.replis = requete.replis
    BY <1>0, <2>1, <2>2 DEF Visibles
  <2>3. ASSUME NEW c \in CONTRATS, QuantitesDe(c, requete.mois) # Refus,
               r.replis = [d \in DOMAIN requete.replis \cup {c} |->
                  IF d = c THEN QuantitesDe(c, requete.mois) ELSE requete.replis[d]]
        PROVE  Visibles(requete.replis)'
    <3>1. QuantitesDe(c, requete.mois) \in vus'.quantites[c]
      BY <2>3, VuGrandit DEF QuantitesVisibles
    <3>2. \A d \in DOMAIN r.replis : d \in CONTRATS /\ r.replis[d] \in vus'.quantites[d]
      BY <2>1, <2>3, <3>1
    <3> QED BY <1>0, <3>2 DEF Visibles
  <2> QED BY <2>2, <2>3
<1>6. LecturesVues'
  BY <1>2, <1>3, <1>4, <1>5 DEF LecturesVues
<1>7. CoutCoherent'
  BY <1>0 DEF CoutCoherent
<1> QED BY <1>1, <1>6, <1>7

\* The first error, or the amounts of every contract with one income.
LEMMA UneReponse ==
  ASSUME NEW revenus, NEW m, NEW contrats, NEW q, NEW r \in Reponses(revenus, m, contrats, q),
         r.erreur = Rien
  PROVE  /\ r.lignes = [c \in DOMAIN q |-> Ligne(FoyerAuMois(revenus, m), m, q[c])]
         /\ r.total = r.frais + Somme(r.lignes)
<1> DEFINE f       == FoyerAuMois(revenus, m)
           lignes  == [c \in DOMAIN q |-> Ligne(f, m, q[c])]
           erreurs == {lignes[c] : c \in DOMAIN lignes} \cap Erreurs
<1>1. PICK frais : r \in IF erreurs = {} THEN {Cout(lignes, frais)} ELSE {Erreur(e) : e \in erreurs}
  BY DEF Reponses
<1> HIDE DEF lignes
<1>2. r \notin {Erreur(e) : e \in erreurs}
  BY ConstantesCout, ConstantesPrestations DEF Erreur, Erreurs
<1>3. r = Cout(lignes, frais)
  BY <1>1, <1>2
<1>4. r.lignes = lignes /\ r.frais = frais /\ r.total = frais + Somme(lignes)
  BY <1>3 DEF Cout
<1> QED BY <1>4 DEF lignes

\* An answer, coherent by what was read.
LEMMA ReponseCoherente ==
  ASSUME InvCout, Observer, CalculerCout
  PROVE  InvCout'
<1> USE DEF InvCout
<1>1. PICK r \in Reponses(requete.foyer, requete.mois, IdentitesDe(requete.contrats), Assemblees) :
        Repondre(r)
  BY DEF CalculerCout
<1>2. /\ requete'.etape = "repondu" /\ requete'.reponse = r /\ requete'.mois = requete.mois
      /\ FormesCout'
  BY <1>1, FormesVues DEF Repondre, RequeteVide, FormesCout
<1>3. requete.etape = "lectures" /\ Lues /\ Froids = {}
  BY DEF CalculerCout, Lues
<1>4. LecturesVues'
  BY <1>2 DEF LecturesVues
<1>5. ASSUME r.erreur = Rien
      PROVE  CoutCoherent'
  <2>1. /\ r.lignes = [c \in DOMAIN Assemblees |->
                          Ligne(FoyerAuMois(requete.foyer, requete.mois), requete.mois, Assemblees[c])]
        /\ r.total = r.frais + Somme(r.lignes)
    BY <1>5, UneReponse
  <2>2. requete.foyer \in vus'.foyers
    BY <1>3, VuGrandit DEF LecturesVues, Lues
  <2>3. vus'.presents \subseteq DOMAIN Assemblees
    <3>1. vus'.presents \subseteq DOMAIN requete.contrats
      BY <1>3, VuGrandit DEF LecturesVues, Lues
    <3> QED BY <1>3, <3>1 DEF Froids, Assemblees
  <2>4. \A c \in DOMAIN Assemblees : Assemblees[c] \in vus'.quantites[c]
    <3>1. Visibles(requete.lignes) /\ Visibles(requete.replis)
      BY <1>3 DEF LecturesVues, Lues
    <3>2. /\ \A c \in DOMAIN requete.lignes : requete.lignes[c] \in vus'.quantites[c]
          /\ \A c \in DOMAIN requete.replis : requete.replis[c] \in vus'.quantites[c]
      BY <1>3, <3>1, VisiblesResteVisible
    <3> QED BY <3>2 DEF Assemblees
  <2> HIDE DEF InvCout
  <2>5. \E revenus \in vus'.foyers : \A c \in DOMAIN r.lignes :
          \E q \in vus'.quantites[c] : r.lignes[c] = Ligne(FoyerAuMois(revenus, requete.mois), requete.mois, q)
    BY <2>1, <2>2, <2>4
  <2>6. vus'.presents \subseteq DOMAIN r.lignes
    BY <2>1, <2>3
  <2> QED BY <1>2, <2>1, <2>5, <2>6 DEF CoutCoherent
<1>6. ASSUME r.erreur # Rien
      PROVE  CoutCoherent'
  BY <1>2, <1>6 DEF CoutCoherent
<1> QED BY <1>2, <1>4, <1>5, <1>6

\* The other answers are errors.
LEMMA ReponseErreur ==
  ASSUME InvCout, Observer, NEW code \in Erreurs, Repondre(Erreur(code))
  PROVE  InvCout'
<1>1. requete'.etape = "repondu" /\ requete'.reponse.erreur = code /\ FormesCout'
  BY FormesVues DEF InvCout, FormesCout, Repondre, RequeteVide, Erreur
<1>2. code # Rien
  BY ConstantesCout, ConstantesPrestations DEF Erreurs
<1> QED BY <1>1, <1>2 DEF InvCout, LecturesVues, CoutCoherent

LEMMA RequeteCoherente ==
  ASSUME InvCout, Observer, EtapeRequete
  PROVE  InvCout'
<1>1. ASSUME NEW m \in MOIS, CommencerRequete(m)
      PROVE  InvCout'
  <2>1. requete' = [RequeteVide EXCEPT !.etape = "lectures", !.mois = m] /\ requete = RequeteVide
    BY <1>1 DEF CommencerRequete
  <2>2. FormesCout'
    BY <2>1, FormesVues DEF InvCout, FormesCout, RequeteVide
  <2>3. LecturesVues' /\ CoutCoherent'
    BY <2>1 DEF RequeteVide, LecturesVues, CoutCoherent, Visibles
  <2> QED BY <2>2, <2>3 DEF InvCout
<1>2. CASE LireContrats
  <2>1. requete' = [requete EXCEPT !.contrats = ContratsLus] /\ requete.etape = "lectures"
    BY <1>2 DEF LireContrats
  <2> QED BY <2>1, UneLecture DEF InvCout, FormesCout
<1>3. CASE LireLignes
  <2>1. requete' = [requete EXCEPT !.lignes = LignesDe(requete.mois)] /\ requete.etape = "lectures"
    BY <1>3 DEF LireLignes
  <2> QED BY <2>1, UneLecture DEF InvCout, FormesCout
<1>4. CASE LireFoyer
  <2>1. /\ requete' = [requete EXCEPT !.foyer = IF FoyerFroid THEN FoyerComplete ELSE tFoyer]
        /\ requete.etape = "lectures"
    BY <1>4 DEF LireFoyer
  <2> QED BY <2>1, UneLecture DEF InvCout, FormesCout
<1>5. CASE FoyerHorsDAtteinte
  BY <1>5, ReponseErreur DEF FoyerHorsDAtteinte, Erreurs
<1>6. ASSUME NEW c \in CONTRATS, RepliPrestations(c)
      PROVE  InvCout'
  <2>1. /\ requete' = [requete EXCEPT !.replis = [d \in DOMAIN requete.replis \cup {c} |->
                         IF d = c THEN QuantitesDe(c, requete.mois) ELSE requete.replis[d]]]
        /\ requete.etape = "lectures"
        /\ QuantitesDe(c, requete.mois) # Refus
    BY <1>6 DEF RepliPrestations, Lues
  <2> DEFINE suite == [d \in DOMAIN requete.replis \cup {c} |->
                         IF d = c THEN QuantitesDe(c, requete.mois) ELSE requete.replis[d]]
             r     == [requete EXCEPT !.replis = suite]
  <2> HIDE DEF suite
  <2>2. /\ r = [etape |-> "lectures", mois |-> requete.mois, foyer |-> requete.foyer,
                contrats |-> requete.contrats, lignes |-> requete.lignes, replis |-> suite,
                reponse |-> requete.reponse]
        /\ requete' = r
    BY <2>1 DEF InvCout, FormesCout, suite
  <2>3. /\ r.foyer = requete.foyer /\ r.contrats = requete.contrats
        /\ r.lignes = requete.lignes /\ r.replis = suite
    BY <2>2
  <2> HIDE DEF r
  <2> QED BY <2>1, <2>2, <2>3, UneLecture DEF suite
<1>7. ASSUME NEW c \in CONTRATS, RepliManque(c)
      PROVE  InvCout'
  BY <1>7, ReponseErreur DEF RepliManque, Erreurs
<1>8. CASE CalculerCout
  BY <1>8, ReponseCoherente
<1>9. CASE TarifHorsDAtteinte
  BY <1>9, ReponseErreur DEF TarifHorsDAtteinte, Erreurs
<1>10. CASE Rendre
  <2>1. requete' = RequeteVide
    BY <1>10 DEF Rendre
  <2>2. FormesCout'
    BY <2>1, FormesVues DEF InvCout, FormesCout, RequeteVide
  <2>3. LecturesVues' /\ CoutCoherent'
    BY <2>1 DEF RequeteVide, LecturesVues, CoutCoherent
  <2> QED BY <2>2, <2>3 DEF InvCout
<1> QED BY <1>1, <1>2, <1>3, <1>4, <1>5, <1>6, <1>7, <1>8, <1>9, <1>10 DEF EtapeRequete

LEMMA InvCoutInit ==
  CoutInit => InvCout
<1> SUFFICES ASSUME CoutInit PROVE InvCout
  OBVIOUS
<1>1. FormesCout
  BY DEF CoutInit, FormesCout, RequeteVide, Vu, VuRien
<1>2. LecturesVues /\ CoutCoherent
  BY DEF CoutInit, RequeteVide, LecturesVues, CoutCoherent
<1> QED BY <1>1, <1>2 DEF InvCout

LEMMA InvCoutNext ==
  InvCout /\ [CoutNext]_coutVars => InvCout'
<1> SUFFICES ASSUME InvCout, [CoutNext]_coutVars PROVE InvCout'
  OBVIOUS
<1>1. CASE UNCHANGED coutVars
  BY <1>1 DEF coutVars, InvCout, FormesCout, Vu, LecturesVues, Visibles, CoutCoherent
<1>2. CASE CoutNext /\ UNCHANGED requete
  <2>1. Observer
    BY <1>2 DEF CoutNext
  <2> QED BY <1>2, <2>1, SansRequete
<1>3. CASE EtapeRequete /\ Observer
  BY <1>3, RequeteCoherente
<1> QED BY <1>1, <1>2, <1>3 DEF CoutNext

\* A cost that is answered leaves out no contract that was known during the
\* whole request, prices all of them with one income of the household, each
\* with quantities of an instant of the request, and adds up, however the
\* tables change between the reads and the fallbacks (coutMois,
\* assemblerPrestations).
THEOREM CoutsCoherents ==
  CoutSpec => []CoutCoherent
<1>1. InvCout => CoutCoherent
  BY DEF InvCout
<1> QED BY InvCoutInit, InvCoutNext, <1>1, PTL DEF CoutSpec

----------------------------------------------------------------------------
(* The mode of the quantities, and the fees of the school year.            *)

\* The quantities of a segment have its mode.
LEMMA ModeGenere ==
  ASSUME NEW s, NEW m, NEW saisie, NEW fermes, s.mode \in Modes,
         Generer(s, m, saisie, fermes) # Refus
  PROVE  /\ "mode" \in DOMAIN Generer(s, m, saisie, fermes)
         /\ Generer(s, m, saisie, fermes).mode = s.mode
<1>1. CASE s.mode = Creche
  <2>1. Generer(s, m, saisie, fermes) = GenererCreche(s, m, saisie, fermes)
    BY <1>1 DEF Generer
  <2>2. \E a, b, c, d, e :
          GenererCreche(s, m, saisie, fermes) \in
          {Refus, CrecheVide(s), [mode |-> Creche, annuel |-> a, mensualites |-> b,
             complement |-> c, reservees |-> d, deduites |-> e]}
    BY DEF GenererCreche
  <2> QED BY <1>1, <2>1, <2>2 DEF CrecheVide
<1>2. CASE s.mode # Creche
  <2>1. Generer(s, m, saisie, fermes) = GenererAbcm(s, m, saisie, fermes)
    BY <1>2 DEF Generer
  <2>2. CASE s.mode = "CANTINE"
    BY <2>1, <2>2 DEF GenererAbcm
  <2>3. CASE s.mode = "PERISCOLAIRE"
    BY <2>1, <2>3 DEF GenererAbcm
  <2>4. CASE s.mode = "ALSH"
    BY <2>1, <2>4 DEF GenererAbcm, CompterAlsh
  <2> QED BY <1>2, <2>2, <2>3, <2>4 DEF Modes
<1> QED BY <1>1, <1>2

\* Merging the segments keeps the mode of the monthly one.
LEMMA ModeFusionne ==
  ASSUME NEW parts, NEW k, "mode" \in DOMAIN parts[k], parts[k].mode \in Modes
  PROVE  Fusionner(parts, k).mode = parts[k].mode
<1> DEFINE p == parts[k]
<1>1. CASE p.mode = Creche
  BY <1>1 DEF Fusionner
<1>2. CASE p.mode = "CANTINE"
  BY <1>2 DEF Fusionner, Creche
<1>3. CASE p.mode = "PERISCOLAIRE"
  BY <1>3 DEF Fusionner, Creche
<1>4. CASE p.mode = "ALSH"
  BY <1>4 DEF Fusionner, Creche
<1> QED BY <1>1, <1>2, <1>3, <1>4 DEF Modes

\* The quantities of a month have the mode of their contract, whichever of its
\* versions share the month.
LEMMA ModeDesQuantites ==
  ASSUME NEW fiche, fiche.mode \in Modes,
         IsFiniteSet(DOMAIN fiche.versions),
         NEW m \in Int, NEW saisie, NEW fermes,
         Prestations(fiche, m, saisie, fermes) # Refus
  PROVE  Prestations(fiche, m, saisie, fermes).mode = fiche.mode
<1> DEFINE segments == ConstruireSegments(fiche, m)
           mensuel  == IdxMensuel(segments, m)
           part(i)  == Generer(segments[i], m, RepartirSaisie(segments, saisie, mensuel, i), fermes)
           parts    == [i \in DOMAIN segments |-> part(i)]
<1>1. \E n \in Nat \ {0} : DOMAIN segments = 1 .. n /\ \A i \in 1 .. n : segments[i].mode = fiche.mode
  <2> DEFINE versions == fiche.versions
             fin      == Max(JoursDuMois(m))
             Segment(d) ==
               [mode |-> fiche.mode, champs |-> versions[d],
                du |-> Max({Min(JoursDuMois(m)), fiche.du, d}),
                au |-> Min({fin} \cup ({fiche.au, FinDeVersion(versions, d)} \ {Rien}))]
             seul == [mode |-> fiche.mode, champs |-> versions[VersionCourante(versions)],
                      du |-> fiche.du, au |-> fiche.au]
             couvrants == {d \in DOMAIN versions : Segment(d).du <= Segment(d).au}
             dates     == Chronologie(couvrants)
  <2>1. segments = IF couvrants = {} THEN <<seul>> ELSE [i \in DOMAIN dates |-> Segment(dates[i])]
    BY DEF ConstruireSegments
  <2>2. seul.mode = fiche.mode /\ \A d : Segment(d).mode = fiche.mode
    OBVIOUS
  <2>3. couvrants \subseteq DOMAIN versions
    OBVIOUS
  <2> HIDE DEF segments, couvrants, Segment, seul, dates
  <2>4. CASE couvrants = {}
    <3>1. segments = <<seul>>
      BY <2>1, <2>4
    <3>2. DOMAIN segments = 1 .. 1 /\ segments[1] = seul
      BY <3>1
    <3> QED BY <2>2, <3>2
  <2>5. CASE couvrants # {}
    <3>1. IsFiniteSet(couvrants)
      BY <2>3, FS_Subset
    <3>2. Cardinality(couvrants) \in Nat \ {0}
      BY <2>5, <3>1, FS_CardinalityType, FS_EmptySet
    <3>3. DOMAIN dates = 1 .. Cardinality(couvrants)
      BY DEF dates, Chronologie, Cardinality, Cardinality
    <3>4. segments = [i \in DOMAIN dates |-> Segment(dates[i])]
      BY <2>1, <2>5
    <3> QED BY <2>2, <3>2, <3>3, <3>4
  <2> QED BY <2>4, <2>5
<1>2. mensuel \in DOMAIN segments
  <2>1. PICK n \in Nat \ {0} : DOMAIN segments = 1 .. n
    BY <1>1
  <2>2. DOMAIN segments \in SUBSET Int /\ IsFiniteSet(DOMAIN segments) /\ 1 \in DOMAIN segments
    <3>1. 1 \in Int /\ n \in Int
      BY <2>1
    <3>2. IsFiniteSet(1 .. n)
      BY <3>1, FS_Interval
    <3>3. 1 .. n \in SUBSET Int /\ 1 \in 1 .. n
      BY <2>1
    <3> HIDE DEF segments
    <3> QED BY <2>1, <3>2, <3>3
  <2> HIDE DEF segments
  <2>3. \A T \in SUBSET DOMAIN segments : T # {} => Min(T) \in DOMAIN segments
    BY <2>2, FS_Subset, MinDEntiers
  <2> QED BY <2>2, <2>3 DEF IdxMensuel, Cible
<1> HIDE DEF segments, mensuel
<1>3. Prestations(fiche, m, saisie, fermes) =
        IF Len(segments) = 1 THEN Generer(segments[1], m, saisie, fermes)
        ELSE IF \E i \in DOMAIN parts : parts[i] = Refus THEN Refus ELSE Fusionner(parts, mensuel)
  BY DEF Prestations, GenererSegments, segments, mensuel
<1>4. CASE Len(segments) = 1
  <2>1. segments[1].mode = fiche.mode
    BY <1>1
  <2> QED BY <1>3, <1>4, <2>1, ModeGenere
<1>5. CASE Len(segments) # 1
  <2>1. Prestations(fiche, m, saisie, fermes) = Fusionner(parts, mensuel)
    BY <1>3, <1>5
  <2>2. part(mensuel) # Refus
    BY <1>2, <1>3, <1>5
  <2>3. segments[mensuel].mode = fiche.mode
    BY <1>1, <1>2
  <2>4. "mode" \in DOMAIN part(mensuel) /\ part(mensuel).mode = fiche.mode
    BY <2>2, <2>3, ModeGenere
  <2>5. parts[mensuel] = part(mensuel)
    BY <1>2
  <2> HIDE DEF parts, part
  <2> QED BY <2>1, <2>4, <2>5, ModeFusionne
<1> QED BY <1>4, <1>5

\* A multiple within less than one period of a number.
LEMMA Multiple ==
  ASSUME NEW a \in Nat \ {0}, NEW k \in Int
  PROVE  /\ a * k > -a => k >= 0
         /\ a * k < a => k <= 0
         /\ a * k > 0 => k >= 1
         /\ a * k < 2 * a => k <= 1
<1>1. ASSUME NEW i \in Int, NEW j \in Int, i <= j PROVE a * i <= a * j
  <2>1. PICK d \in Nat : j = i + d
    <3>1. j - i \in Nat /\ j = i + (j - i)
      BY <1>1
    <3> QED BY <3>1
  <2>2. a * j = a * i + a * d
    BY <2>1
  <2>3. a * d \in Nat /\ a * i \in Int
    BY <2>1
  <2> QED BY <2>2, <2>3
<1>2. a * (-1) = -a /\ a * 1 = a /\ a * 0 = 0 /\ a * 2 = 2 * a
  OBVIOUS
<1>3. a * k \in Int
  OBVIOUS
<1>4. k <= -1 => a * k <= -a
  BY <1>1, <1>2
<1>5. k >= 1 => a <= a * k
  BY <1>1, <1>2
<1>6. k <= 0 => a * k <= 0
  BY <1>1, <1>2
<1>7. k >= 2 => 2 * a <= a * k
  BY <1>1, <1>2
<1> HIDE DEF Min
<1> QED BY <1>2, <1>3, <1>4, <1>5, <1>6, <1>7

\* Products of integers.
LEMMA Distribue ==
  ASSUME NEW a \in Int, NEW b \in Int, NEW c \in Int
  PROVE  /\ a * (b - c) = a * b - a * c /\ a * (b + c) = a * b + a * c
         /\ a * b \in Int /\ a * c \in Int /\ a * b = b * a
  OBVIOUS

\* A date is at or after the first day of a month when its month is.
LEMMA Bloc ==
  ASSUME NEW J \in Nat \ {0}, NEW du \in Int, NEW n \in Int, NEW x \in Int,
         J * x <= du, du < J * x + J
  PROVE  n <= x <=> J * n <= du
<1>1. J * (x - n) = J * x - J * n /\ J * x \in Int /\ J * n \in Int
  BY Distribue
<1>2. ASSUME n <= x PROVE J * n <= du
  <2>1. PICK d \in Nat : x - n = d
    BY <1>2
  <2>2. J * d \in Nat
    BY <2>1
  <2> QED BY <1>1, <2>1, <2>2
<1>3. ASSUME n > x PROVE J * n > du
  <2>1. PICK d \in Nat : n = (x + 1) + d
    <3>1. n - (x + 1) \in Nat /\ n = (x + 1) + (n - (x + 1))
      BY <1>3
    <3> QED BY <3>1
  <2>2. J * n = J * (x + 1) + J * d /\ J * (x + 1) = J * x + J
    BY <2>1
  <2>3. J * d \in Nat
    BY <2>1
  <2> QED BY <1>1, <2>2, <2>3
<1> QED BY <1>1, <1>2, <1>3

\* A first year that begins in the school year of a month of yearly fees is one
\* that begins in the year that follows (premiere-annee-abcm.ts).
LEMMA AnneeDesFrais ==
  ASSUME NEW m \in Nat, NEW du \in Int, EstMoisFraisFixes(m)
  PROVE  AnneeScolaire(du) = m \div MOIS_ANNEE
           <=> du \in m * JOURS_MOIS .. (m + MOIS_ANNEE) * JOURS_MOIS - 1
<1> DEFINE a == MOIS_ANNEE
           J == JOURS_MOIS
           R == RENTREE
           x == du \div J
           y == x \div a
           r == x % a
           q == m \div a
<1>0. a \in Nat \ {0} /\ J \in Nat \ {0} /\ R \in Nat /\ R < a
  BY ConstantesPrestations, ConstantesTarif
<1>1. x \in Int /\ J * x <= du /\ du < J * x + J
  BY <1>0
<1>2. y \in Int /\ r \in Nat /\ r < a /\ x = a * y + r
  BY <1>0, <1>1
<1>3. q \in Int /\ m = a * q + R
  BY <1>0 DEF EstMoisFraisFixes
<1>4. AnneeScolaire(du) = IF r >= R THEN y ELSE y - 1
  BY DEF AnneeScolaire
<1>5. m * J = J * m /\ (m + a) * J = J * (m + a) /\ J * m \in Int /\ J * (m + a) \in Int
  BY <1>0
<1>6. du \in m * J .. (m + a) * J - 1 <=> m <= x /\ x < m + a
  <2>1. m + a \in Int
    BY <1>0
  <2> HIDE DEF x, J, a
  <2>2. m <= x <=> J * m <= du
    BY <1>0, <1>1, Bloc
  <2>3. m + a <= x <=> J * (m + a) <= du
    BY <1>0, <1>1, <2>1, Bloc
  <2> QED BY <1>1, <1>5, <2>1, <2>2, <2>3
<1>7. m <= x /\ x < m + a <=> AnneeScolaire(du) = q
  <2> DEFINE k == y - q
  <2>1. k \in Int /\ y = q + k /\ a * y = a * q + a * k /\ a * k \in Int /\ a * q \in Int /\ a * y \in Int
    BY <1>0, <1>2, <1>3
  <2>2. x - m = a * k + (r - R)
    BY <1>0, <1>2, <1>3, <2>1
  <2>3. k <= -1 => a * k <= -a
    BY <1>0, <2>1, Multiple
  <2>4. k >= 1 => a * k >= a
    BY <1>0, <2>1, Multiple
  <2>5. k >= 2 => a * k >= 2 * a
    BY <1>0, <2>1, Multiple
  <2>6. (k = 0 => a * k = 0) /\ (k = 1 => a * k = a) /\ (k <= 0 => a * k <= 0)
    BY <1>0, <2>1, Multiple
  <2> HIDE DEF k, x, y, r, q
  <2> QED BY <1>0, <1>1, <1>2, <1>3, <1>4, <2>1, <2>2, <2>3, <2>4, <2>5, <2>6
<1> QED BY <1>6, <1>7

----------------------------------------------------------------------------
(* The cost of a month at rest.  The queue holds what the copy still has   *)
(* to hear of a contract: the last message that tells what it is tells it  *)
(* right, its deletion comes last, and a row is that of the planning       *)
(* unless a planning of its month is on the way or the row is out of date. *)

Messages ==
  [type : {"cree"}, c : CONTRATS, identite : LignesCopie]
    \cup [type : {"modifie"}, c : CONTRATS, identite : LignesCopie]
    \cup [type : {"planning"}, c : CONTRATS, mois : MOIS]
    \cup [type : {"supprime"}, c : CONTRATS]

EnFil(type, c) == \E i \in DOMAIN fil : fil[i].type = type /\ fil[i].c = c
EstPlanning(e, c, m) == e.type = "planning" /\ e.c = c /\ e.mois = m
PlanningAttendu(c, m)  == \E i \in DOMAIN fil : EstPlanning(fil[i], c, m)

TypesCout ==
  /\ source \in [CONTRATS -> LignesContrat \cup {Rien}]
  /\ \A c \in CONTRATS : source[c] # Rien => IsFiniteSet(DOMAIN source[c].versions)
  /\ saisies = [x \in Cellules |-> saisies[x]]
  /\ tContrats \in [CONTRATS -> LignesCopie \cup {Rien}]
  /\ tPrestations = [x \in Cellules |-> tPrestations[x]]
  /\ DOMAIN calendrier = ETABLISSEMENTS
  /\ fil \in Seq(Messages)

FilOrdonne ==
  /\ \A i \in DOMAIN fil : fil[i].c \in ids
  /\ \A i, j \in DOMAIN fil : fil[i].type = "cree" /\ fil[j].c = fil[i].c => i <= j
  /\ \A i, j \in DOMAIN fil : fil[i].type = "supprime" /\ fil[j].c = fil[i].c => j <= i
  /\ lu # Rien => fil # <<>> /\ fil[1].type = "planning"

\* A message that tells what a contract is, and the last of those.
Identifie(e, c)   == e.type \in {"cree", "modifie"} /\ e.c = c
IdentifieEnDernier(i, c) ==
  Identifie(fil[i], c) /\ \A j \in DOMAIN fil : Identifie(fil[j], c) => j <= i

\* What svc-tarification has, or will have, of a contract.
Copiee(c) ==
  source[c] # Rien =>
    /\ c \in ids /\ ~EnFil("supprime", c)
    /\ tContrats[c] = Identite(source[c]) \/ \E i \in DOMAIN fil : Identifie(fil[i], c)
    /\ \A i \in DOMAIN fil : IdentifieEnDernier(i, c) => fil[i].identite = Identite(source[c])

Muet(c) ==
  /\ tContrats[c] = Rien
  /\ \A m \in MOIS : tPrestations[<<c, m>>] = Rien
  /\ \A i \in DOMAIN fil : fil[i].c # c

Oublie(c) == source[c] = Rien => Muet(c) \/ EnFil("supprime", c)

Ecrite(c, m) ==
  source[c] # Rien /\ <<c, m>> \notin perimes =>
    /\ tPrestations[<<c, m>>] # Rien /\ ~PlanningAttendu(c, m) => tPrestations[<<c, m>>] = QuantitesDe(c, m)
    /\ lu # Rien /\ EstPlanning(fil[1], c, m)
         /\ (\A i \in DOMAIN fil : EstPlanning(fil[i], c, m) => i = 1) => lu = QuantitesDe(c, m)

InvFil ==
  /\ TypesCout /\ FilOrdonne
  /\ \A c \in CONTRATS : Copiee(c) /\ Oublie(c) /\ \A m \in MOIS : Ecrite(c, m)

\* At rest, what svc-tarification knows of the contracts is what they are, and
\* each row is that of the planning, the fallback giving the others.
LEMMA TablesAuRepos ==
  ASSUME InvFil, fil = <<>>, NEW m \in MOIS, \A c \in CONTRATS : ~Perime(c, m)
  PROVE  LET V == {c \in CONTRATS : source[c] # Rien} IN
         /\ IdentitesDe(ContratsLus) = {Identite(source[c]) : c \in V}
         /\ [c \in DOMAIN ContratsLus \cup DOMAIN LignesDe(m) |->
               IF c \in DOMAIN LignesDe(m) THEN LignesDe(m)[c] ELSE QuantitesDe(c, m)]
            = [c \in V |-> QuantitesDe(c, m)]
<1> DEFINE V == {c \in CONTRATS : source[c] # Rien}
<1>1. DOMAIN fil = {}
  OBVIOUS
<1>2. \A c \in V : tContrats[c] = Identite(source[c])
  BY <1>1 DEF InvFil, Copiee
<1>3. \A c \in CONTRATS \ V : tContrats[c] = Rien /\ tPrestations[<<c, m>>] = Rien
  BY <1>1 DEF InvFil, Oublie, Muet, EnFil
<1>4. \A c \in V : Identite(source[c]) # Rien
  <2>1. ASSUME NEW c \in V PROVE Identite(source[c]) \in LignesCopie
    <3>1. source[c] \in LignesContrat
      BY DEF InvFil, TypesCout
    <3> QED BY <3>1 DEF Identite, LignesContrat, LignesCopie
  <2> QED BY <2>1, ConstantesCout
<1>5. DOMAIN ContratsLus = V /\ \A c \in V : ContratsLus[c] = Identite(source[c])
  BY <1>2, <1>3, <1>4 DEF ContratsLus
<1>6. \A c \in V : tPrestations[<<c, m>>] # Rien => tPrestations[<<c, m>>] = QuantitesDe(c, m)
  BY <1>1 DEF InvFil, Ecrite, PlanningAttendu, Perime
<1>7. /\ DOMAIN LignesDe(m) \subseteq V
      /\ \A c \in DOMAIN LignesDe(m) : LignesDe(m)[c] = QuantitesDe(c, m)
  BY <1>3, <1>6 DEF LignesDe
<1>8. IdentitesDe(ContratsLus) = {Identite(source[c]) : c \in V}
  BY <1>5 DEF IdentitesDe
<1>9. DOMAIN ContratsLus \cup DOMAIN LignesDe(m) = V
  BY <1>5, <1>7
<1> HIDE DEF V
<1>10. [c \in DOMAIN ContratsLus \cup DOMAIN LignesDe(m) |->
          IF c \in DOMAIN LignesDe(m) THEN LignesDe(m)[c] ELSE QuantitesDe(c, m)]
       = [c \in V |-> QuantitesDe(c, m)]
  BY <1>7, <1>9
<1> QED BY <1>8, <1>10 DEF V

\* The fees that the copy yields are those of the contracts.
LEMMA FraisDesCopies ==
  ASSUME TypesCout, NEW m \in MOIS,
         \A c \in CONTRATS : source[c] # Rien => QuantitesDe(c, m) # Refus
  PROVE  LET V         == {c \in CONTRATS : source[c] # Rien}
             quantites == [c \in V |-> QuantitesDe(c, m)]
             abcm      == \E c \in DOMAIN quantites : quantites[c].mode # Creche
         IN (IF abcm THEN FraisFixes(m, EstPremiereAnnee(m, {Identite(source[c]) : c \in V})) ELSE 0)
            = FraisAttendus(m, {source[c] : c \in V})
<1> DEFINE V == {c \in CONTRATS : source[c] # Rien}
           quantites == [c \in V |-> QuantitesDe(c, m)]
           abcm      == \E c \in DOMAIN quantites : quantites[c].mode # Creche
           copies    == {Identite(source[c]) : c \in V}
           ecoles    == {x \in {source[c] : c \in V} : x.mode # Creche}
           annee     == m * JOURS_MOIS .. (m + MOIS_ANNEE) * JOURS_MOIS - 1
<1>1. \A c \in V : source[c].mode \in Modes /\ source[c].du \in Int /\ IsFiniteSet(DOMAIN source[c].versions)
  <2>1. ASSUME NEW c \in V PROVE source[c].mode \in Modes /\ source[c].du \in Int
    <3>1. source[c] \in LignesContrat
      BY DEF TypesCout
    <3>2. Debuts \subseteq Int
      BY ConstantesCout DEF Debuts, Formes, Reprises
    <3> QED BY <3>1, <3>2 DEF LignesContrat
  <2>2. \A c \in V : IsFiniteSet(DOMAIN source[c].versions)
    BY DEF TypesCout
  <2> HIDE DEF V
  <2> QED BY <2>1, <2>2
<1>2. m \in Nat
  BY ConstantesCout
<1>3. \A c \in V : QuantitesDe(c, m).mode = source[c].mode
  <2>1. ASSUME NEW c \in V PROVE QuantitesDe(c, m).mode = source[c].mode
    <3>1. QuantitesDe(c, m) = Prestations(source[c], m, SaisieDe(c, m), FermesDe(c, m))
      BY DEF QuantitesDe
    <3>2. QuantitesDe(c, m) # Refus
      OBVIOUS
    <3>3. source[c].mode \in Modes /\ IsFiniteSet(DOMAIN source[c].versions) /\ m \in Int
      BY <1>1, <1>2
    <3> HIDE DEF V
    <3> QED BY <3>1, <3>2, <3>3, ModeDesQuantites
  <2> QED BY <2>1
<1>4. abcm <=> ecoles # {}
  <2>1. abcm <=> \E c \in V : source[c].mode # Creche
    BY <1>3
  <2> QED BY <2>1
<1>5. EstMoisFraisFixes(m) => (EstPremiereAnnee(m, copies) <=> \E x \in ecoles : x.premiere /\ x.du \in annee)
  <2> SUFFICES ASSUME EstMoisFraisFixes(m)
               PROVE  EstPremiereAnnee(m, copies) <=> \E x \in ecoles : x.premiere /\ x.du \in annee
    OBVIOUS
  <2>1. EstPremiereAnnee(m, copies) <=>
          \E c \in V : /\ Identite(source[c]).mode # Creche /\ Identite(source[c]).premiere
                       /\ AnneeScolaire(Identite(source[c]).du) = m \div MOIS_ANNEE
    BY DEF EstPremiereAnnee
  <2>2. \A c \in V : AnneeScolaire(source[c].du) = m \div MOIS_ANNEE <=> source[c].du \in annee
    <3>1. ASSUME NEW du \in Int PROVE AnneeScolaire(du) = m \div MOIS_ANNEE <=> du \in annee
      BY <1>2, AnneeDesFrais
    <3>2. \A c \in V : source[c].du \in Int
      BY <1>1
    <3> HIDE DEF V, annee
    <3> QED BY <3>1, <3>2
  <2>3. \A c \in V : /\ Identite(source[c]).mode = source[c].mode
                     /\ Identite(source[c]).premiere = source[c].premiere
                     /\ Identite(source[c]).du = source[c].du
    BY DEF Identite
  <2>4. (\E x \in ecoles : x.premiere /\ x.du \in annee) <=>
          \E c \in V : source[c].mode # Creche /\ source[c].premiere /\ source[c].du \in annee
    OBVIOUS
  <2> HIDE DEF V, annee, ecoles, copies
  <2> QED BY <2>1, <2>2, <2>3, <2>4
<1>6. FraisFixes(m, EstPremiereAnnee(m, copies)) =
        IF ~EstMoisFraisFixes(m) THEN 0
        ELSE IF EstPremiereAnnee(m, copies) THEN COTISATION + FRAIS_PREMIERE ELSE COTISATION
  BY DEF FraisFixes
<1>7. FraisAttendus(m, {source[c] : c \in V}) =
        IF ecoles = {} \/ ~EstMoisFraisFixes(m) THEN 0
        ELSE COTISATION + IF \E x \in ecoles : x.premiere /\ x.du \in annee THEN FRAIS_PREMIERE ELSE 0
  BY DEF FraisAttendus, EstMoisFraisFixes
<1>8. COTISATION + 0 = COTISATION
  BY ConstantesTarif
<1> HIDE DEF ecoles, annee, copies
<1>9. (IF abcm THEN FraisFixes(m, EstPremiereAnnee(m, copies)) ELSE 0)
        = FraisAttendus(m, {source[c] : c \in V})
  <2> HIDE DEF abcm, V
  <2> QED BY <1>4, <1>5, <1>6, <1>7, <1>8
<1> QED BY <1>9 DEF copies

\* At rest, the tables give the answers of the source.
LEMMA FideleAuRepos ==
  ASSUME InvFil
  PROVE  CoutFidele
<1> SUFFICES ASSUME fil = <<>>, NEW m \in MOIS,
                    \A c \in CONTRATS : ~Perime(c, m),
                    \A c \in CONTRATS : source[c] # Rien => QuantitesDe(c, m) # Refus
             PROVE  ReponsesTables(tFoyer, m) = ReponsesSource(tFoyer, m)
  BY DEF CoutFidele
<1> DEFINE V         == {c \in CONTRATS : source[c] # Rien}
           quantites == [c \in V |-> QuantitesDe(c, m)]
           copies    == {Identite(source[c]) : c \in V}
           f         == FoyerAuMois(tFoyer, m)
           lignes    == [c \in V |-> Ligne(f, m, QuantitesDe(c, m))]
           erreurs   == {lignes[c] : c \in V} \cap Erreurs
           abcm      == \E c \in DOMAIN quantites : quantites[c].mode # Creche
           frais     == IF abcm THEN FraisFixes(m, EstPremiereAnnee(m, copies)) ELSE 0
<1>1. ReponsesTables(tFoyer, m) = Reponses(tFoyer, m, copies, quantites)
  BY TablesAuRepos DEF ReponsesTables
<1>2. [c \in DOMAIN quantites |-> Ligne(f, m, quantites[c])] = lignes
  OBVIOUS
<1>3. Reponses(tFoyer, m, copies, quantites) =
        IF erreurs = {} THEN {Cout(lignes, frais)} ELSE {Erreur(e) : e \in erreurs}
  <2> DEFINE l == [c \in DOMAIN quantites |-> Ligne(f, m, quantites[c])]
             x == {l[c] : c \in DOMAIN l} \cap Erreurs
  <2>1. Reponses(tFoyer, m, copies, quantites) =
          IF x = {} THEN {Cout(l, frais)} ELSE {Erreur(e) : e \in x}
    BY DEF Reponses
  <2>2. l = lignes /\ x = erreurs
    <3>1. l = lignes
      BY <1>2
    <3>2. DOMAIN lignes = V
      OBVIOUS
    <3> HIDE DEF l, lignes
    <3> QED BY <3>1, <3>2
  <2> HIDE DEF l, x, lignes, erreurs, frais
  <2> QED BY <2>1, <2>2
<1>4. frais = FraisAttendus(m, {source[c] : c \in V})
  BY FraisDesCopies DEF InvFil
<1>5. ReponsesSource(tFoyer, m) =
        IF erreurs # {} THEN {Erreur(e) : e \in erreurs}
        ELSE {Cout(lignes, FraisAttendus(m, {source[c] : c \in V}))}
  BY DEF ReponsesSource
<1> HIDE DEF lignes, erreurs, frais, V
<1> QED BY <1>1, <1>3, <1>4, <1>5

----------------------------------------------------------------------------
(* The queue, one message more or one message less.                        *)

LEMMA MessageAjoute ==
  ASSUME TypesCout, NEW e \in Messages, fil' = Append(fil, e)
  PROVE  /\ fil' \in Seq(Messages) /\ DOMAIN fil \subseteq Nat
         /\ \A i \in DOMAIN fil : i \in DOMAIN fil' /\ fil'[i] = fil[i]
         /\ \A i \in DOMAIN fil' : \/ i \in DOMAIN fil /\ fil'[i] = fil[i]
                                   \/ fil'[i] = e /\ \A j \in DOMAIN fil' : j <= i
         /\ \E i \in DOMAIN fil' : fil'[i] = e /\ \A j \in DOMAIN fil : j < i
         /\ fil # <<>> => fil' # <<>> /\ 1 \in DOMAIN fil
<1>1. fil \in Seq(Messages)
  BY DEF TypesCout
<1>2. PICK n \in Nat : n = Len(fil)
  BY <1>1
<1>3. DOMAIN fil = 1 .. n /\ DOMAIN fil' = 1 .. n + 1 /\ fil' \in Seq(Messages)
  BY <1>1, <1>2
<1>4. fil'[n + 1] = e /\ \A i \in 1 .. n : fil'[i] = fil[i]
  BY <1>1, <1>2
<1>5. fil # <<>> => fil' # <<>> /\ n >= 1
  BY <1>1, <1>2
<1> QED BY <1>3, <1>4, <1>5

LEMMA MessageRetire ==
  ASSUME TypesCout, fil # <<>>, fil' = Tail(fil)
  PROVE  /\ fil' \in Seq(Messages) /\ DOMAIN fil \subseteq Nat \ {0} /\ DOMAIN fil' \subseteq Nat
         /\ 1 \in DOMAIN fil /\ Head(fil) = fil[1] /\ fil[1] \in Messages
         /\ \A i \in DOMAIN fil' : i + 1 \in DOMAIN fil /\ fil'[i] = fil[i + 1]
         /\ \A i \in DOMAIN fil : i # 1 => i - 1 \in DOMAIN fil' /\ fil'[i - 1] = fil[i]
<1>1. fil \in Seq(Messages)
  BY DEF TypesCout
<1>2. PICK n \in Nat : n = Len(fil) /\ n >= 1
  BY <1>1
<1>3. DOMAIN fil = 1 .. n /\ DOMAIN fil' = 1 .. n - 1 /\ fil' \in Seq(Messages)
  BY <1>1, <1>2
<1>4. \A i \in 1 .. n - 1 : fil'[i] = fil[i + 1]
  BY <1>1, <1>2
<1>5. Head(fil) = fil[1] /\ fil[1] \in Messages
  BY <1>1, <1>2
<1> QED BY <1>2, <1>3, <1>4, <1>5

LEMMA OrdreAjoute ==
  ASSUME TypesCout, FilOrdonne, NEW e \in Messages, fil' = Append(fil, e), lu' = lu,
         ids \subseteq ids', e.c \in ids', ~EnFil("supprime", e.c),
         e.type = "cree" => \A i \in DOMAIN fil : fil[i].c # e.c
  PROVE  FilOrdonne'
<1>1. \A i \in DOMAIN fil' : fil'[i].c \in ids'
  BY MessageAjoute DEF FilOrdonne
<1>2. ASSUME NEW i \in DOMAIN fil', NEW j \in DOMAIN fil', fil'[i].type = "cree", fil'[j].c = fil'[i].c
      PROVE  i <= j
  BY <1>2, MessageAjoute DEF FilOrdonne
<1>3. ASSUME NEW i \in DOMAIN fil', NEW j \in DOMAIN fil', fil'[i].type = "supprime", fil'[j].c = fil'[i].c
      PROVE  j <= i
  BY <1>3, MessageAjoute DEF FilOrdonne, EnFil
<1>4. lu' # Rien => fil' # <<>> /\ fil'[1].type = "planning"
  BY MessageAjoute DEF FilOrdonne
<1> QED BY <1>1, <1>2, <1>3, <1>4 DEF FilOrdonne

LEMMA OrdreRetire ==
  ASSUME TypesCout, FilOrdonne, fil # <<>>, fil' = Tail(fil), lu' = Rien, ids' = ids
  PROVE  FilOrdonne'
<1>1. \A i \in DOMAIN fil' : fil'[i].c \in ids'
  BY MessageRetire DEF FilOrdonne
<1>2. ASSUME NEW i \in DOMAIN fil', NEW j \in DOMAIN fil', fil'[i].type = "cree", fil'[j].c = fil'[i].c
      PROVE  i <= j
  <2>1. i + 1 <= j + 1 /\ i \in Nat /\ j \in Nat
    BY <1>2, MessageRetire DEF FilOrdonne
  <2> QED BY <2>1
<1>3. ASSUME NEW i \in DOMAIN fil', NEW j \in DOMAIN fil', fil'[i].type = "supprime", fil'[j].c = fil'[i].c
      PROVE  j <= i
  <2>1. j + 1 <= i + 1 /\ i \in Nat /\ j \in Nat
    BY <1>3, MessageRetire DEF FilOrdonne
  <2> QED BY <2>1
<1> QED BY <1>1, <1>2, <1>3 DEF FilOrdonne

\* The quantities of a month depend on its contract, its entry and its calendar.
LEMMA QuantitesLocales ==
  ASSUME NEW c, NEW m, source'[c] = source[c], saisies'[<<c, m>>] = saisies[<<c, m>>],
         source[c] # Rien => calendrier'[source[c].etab] = calendrier[source[c].etab]
  PROVE  QuantitesDe(c, m)' = QuantitesDe(c, m)
BY DEF QuantitesDe, SaisieDe, FermesDe

\* A contract that a new message leaves as it is, or only announces a month of.
LEMMA CopieAjoutee ==
  ASSUME InvFil, NEW e \in Messages, fil' = Append(fil, e), NEW c \in CONTRATS,
         source'[c] = source[c], ids \subseteq ids', tContrats' = tContrats,
         tPrestations' = tPrestations,
         e.c = c => e.type = "planning" /\ source[c] # Rien
  PROVE  Copiee(c)' /\ Oublie(c)'
<1>1. Copiee(c) /\ Oublie(c) /\ TypesCout
  BY DEF InvFil
<1>2. \A i \in DOMAIN fil' : fil'[i].c = c => fil'[i].type = "planning" \/ (i \in DOMAIN fil /\ fil'[i] = fil[i])
  BY <1>1, MessageAjoute
<1>3. \A i \in DOMAIN fil : i \in DOMAIN fil' /\ fil'[i] = fil[i]
  BY <1>1, MessageAjoute
<1>4. Copiee(c)'
  <2> SUFFICES ASSUME source[c] # Rien
               PROVE  (/\ c \in ids /\ ~EnFil("supprime", c)
                       /\ \/ tContrats[c] = Identite(source[c])
                          \/ \E i \in DOMAIN fil : Identifie(fil[i], c)
                       /\ \A i \in DOMAIN fil : IdentifieEnDernier(i, c) =>
                            fil[i].identite = Identite(source[c]))'
    BY DEF Copiee
  <2>1. c \in ids' /\ ~EnFil("supprime", c)'
    BY <1>1, <1>2 DEF Copiee, EnFil
  <2>2. \/ tContrats'[c] = Identite(source[c])
        \/ \E i \in DOMAIN fil' : Identifie(fil'[i], c)
    BY <1>1, <1>3 DEF Copiee
  <2>3. ASSUME NEW i \in DOMAIN fil', IdentifieEnDernier(i, c)'
        PROVE  fil'[i].identite = Identite(source[c])
    <3>1. i \in DOMAIN fil /\ fil'[i] = fil[i]
      BY <1>2, <2>3 DEF IdentifieEnDernier, Identifie
    <3>2. IdentifieEnDernier(i, c)
      BY <1>3, <2>3, <3>1 DEF IdentifieEnDernier
    <3> QED BY <1>1, <3>1, <3>2 DEF Copiee
  <2>4. Identite(source[c])' = Identite(source[c])
    BY DEF Identite
  <2> QED BY <2>1, <2>2, <2>3, <2>4
<1>5. Oublie(c)'
  <2> SUFFICES ASSUME source[c] = Rien PROVE (Muet(c) \/ EnFil("supprime", c))'
    BY DEF Oublie
  <2>1. CASE Muet(c)
    <3>1. \A i \in DOMAIN fil' : fil'[i].c # c
      BY <1>1, <2>1, MessageAjoute DEF Muet
    <3> QED BY <2>1, <3>1 DEF Muet
  <2>2. CASE EnFil("supprime", c)
    BY <1>3, <2>2 DEF EnFil
  <2> QED BY <1>1, <2>1, <2>2 DEF Oublie
<1> QED BY <1>4, <1>5

\* A contract that the message applied is not about, or only its month.
LEMMA CopieRetiree ==
  ASSUME InvFil, fil # <<>>, fil' = Tail(fil), NEW c \in CONTRATS,
         source' = source, ids' = ids, tContrats'[c] = tContrats[c],
         fil[1].c = c => fil[1].type = "planning",
         fil[1].c # c => \A m \in MOIS : tPrestations'[<<c, m>>] = tPrestations[<<c, m>>]
  PROVE  Copiee(c)' /\ Oublie(c)'
<1>1. Copiee(c) /\ Oublie(c) /\ TypesCout
  BY DEF InvFil
<1>2. \A i \in DOMAIN fil' : \E j \in DOMAIN fil : fil'[i] = fil[j]
  BY <1>1, MessageRetire
<1>3. \A i \in DOMAIN fil : fil[i].c = c /\ fil[i].type # "planning" =>
        \E j \in DOMAIN fil' : fil'[j] = fil[i]
  BY <1>1, MessageRetire
<1>4. Copiee(c)'
  <2> SUFFICES ASSUME source[c] # Rien
               PROVE  /\ c \in ids' /\ ~EnFil("supprime", c)'
                      /\ \/ tContrats'[c] = Identite(source[c])
                         \/ \E i \in DOMAIN fil' : Identifie(fil'[i], c)
                      /\ \A i \in DOMAIN fil' : IdentifieEnDernier(i, c)' =>
                           fil'[i].identite = Identite(source[c])
    BY DEF Copiee
  <2>1. c \in ids' /\ ~EnFil("supprime", c)'
    BY <1>1, <1>2 DEF Copiee, EnFil
  <2>2. \/ tContrats'[c] = Identite(source[c])
        \/ \E i \in DOMAIN fil' : Identifie(fil'[i], c)
    BY <1>1, <1>3 DEF Copiee, Identifie
  <2>3. ASSUME NEW i \in DOMAIN fil', IdentifieEnDernier(i, c)'
        PROVE  fil'[i].identite = Identite(source[c])
    <3>1. i + 1 \in DOMAIN fil /\ fil'[i] = fil[i + 1] /\ i \in Nat
      BY <1>1, MessageRetire
    <3>2. ASSUME NEW j \in DOMAIN fil, Identifie(fil[j], c) PROVE j <= i + 1
      <4>1. j # 1
        BY <3>2 DEF Identifie
      <4>2. j - 1 \in DOMAIN fil' /\ fil'[j - 1] = fil[j] /\ j \in Nat
        BY <1>1, <4>1, MessageRetire
      <4>3. j - 1 <= i
        BY <2>3, <3>2, <4>2 DEF IdentifieEnDernier
      <4> QED BY <3>1, <4>2, <4>3
    <3>3. IdentifieEnDernier(i + 1, c)
      BY <2>3, <3>1, <3>2 DEF IdentifieEnDernier
    <3> QED BY <1>1, <3>1, <3>3 DEF Copiee
  <2> QED BY <2>1, <2>2, <2>3
<1>5. Oublie(c)'
  <2> SUFFICES ASSUME source[c] = Rien PROVE (Muet(c) \/ EnFil("supprime", c))'
    BY DEF Oublie
  <2>1. CASE Muet(c)
    <3>1. fil[1].c # c
      BY <1>1, <2>1, MessageRetire DEF Muet
    <3>2. \A i \in DOMAIN fil' : fil'[i].c # c
      BY <1>2, <2>1 DEF Muet
    <3> QED BY <2>1, <3>1, <3>2 DEF Muet
  <2>2. CASE EnFil("supprime", c)
    BY <1>3, <2>2 DEF EnFil
  <2> QED BY <1>1, <2>1, <2>2 DEF Oublie
<1> QED BY <1>4, <1>5

\* A row that a new message leaves as it is, or announces.
LEMMA LigneAjoutee ==
  ASSUME InvFil, NEW e \in Messages, fil' = Append(fil, e), NEW c \in CONTRATS, NEW m \in MOIS,
         source'[c] = source[c], calendrier' = calendrier, lu' = lu,
         tPrestations' = tPrestations, perimes \subseteq perimes',
         EstPlanning(e, c, m) \/ saisies'[<<c, m>>] = saisies[<<c, m>>]
  PROVE  Ecrite(c, m)'
<1>1. Ecrite(c, m) /\ TypesCout /\ FilOrdonne
  BY DEF InvFil
<1> SUFFICES ASSUME source[c] # Rien, <<c, m>> \notin perimes'
             PROVE  (/\ tPrestations[<<c, m>>] # Rien /\ ~PlanningAttendu(c, m) =>
                          tPrestations[<<c, m>>] = QuantitesDe(c, m)
                     /\ lu # Rien /\ EstPlanning(fil[1], c, m)
                          /\ (\A i \in DOMAIN fil : EstPlanning(fil[i], c, m) => i = 1) =>
                          lu = QuantitesDe(c, m))'
  BY DEF Ecrite
<1>2. ~EstPlanning(e, c, m) => QuantitesDe(c, m)' = QuantitesDe(c, m)
  BY QuantitesLocales
<1>3. ASSUME tPrestations[<<c, m>>] # Rien, ~PlanningAttendu(c, m)'
      PROVE  tPrestations[<<c, m>>] = QuantitesDe(c, m)'
  <2>1. ~EstPlanning(e, c, m) /\ ~PlanningAttendu(c, m)
    BY <1>1, <1>3, MessageAjoute DEF PlanningAttendu
  <2> QED BY <1>1, <1>2, <1>3, <2>1 DEF Ecrite
<1>4. ASSUME lu # Rien, EstPlanning(fil'[1], c, m),
             \A i \in DOMAIN fil' : EstPlanning(fil'[i], c, m) => i = 1
      PROVE  lu = QuantitesDe(c, m)'
  <2>1. 1 \in DOMAIN fil /\ fil'[1] = fil[1]
    BY <1>1, <1>4, MessageAjoute DEF FilOrdonne
  <2>2. \A i \in DOMAIN fil : EstPlanning(fil[i], c, m) => i = 1
    BY <1>1, <1>4, MessageAjoute
  <2>3. ~EstPlanning(e, c, m)
    BY <1>1, <1>4, <2>1, MessageAjoute
  <2> QED BY <1>1, <1>2, <1>4, <2>1, <2>2, <2>3 DEF Ecrite
<1> QED BY <1>3, <1>4

\* A row that the message applied is not about.
LEMMA LigneRetiree ==
  ASSUME InvFil, fil # <<>>, fil' = Tail(fil), NEW c \in CONTRATS, NEW m \in MOIS,
         UNCHANGED planif, lu' = Rien, ~EstPlanning(fil[1], c, m),
         tPrestations'[<<c, m>>] = tPrestations[<<c, m>>],
         <<c, m>> \in perimes => <<c, m>> \in perimes'
  PROVE  Ecrite(c, m)'
<1>1. Ecrite(c, m) /\ TypesCout
  BY DEF InvFil
<1>2. QuantitesDe(c, m)' = QuantitesDe(c, m) /\ source' = source
  BY QuantitesLocales DEF planif
<1>3. PlanningAttendu(c, m) => PlanningAttendu(c, m)'
  BY <1>1, MessageRetire DEF PlanningAttendu
<1> QED BY <1>1, <1>2, <1>3 DEF Ecrite

----------------------------------------------------------------------------
(* The invariant of the queue is kept by every step.                       *)

LEMMA CreationSuit ==
  ASSUME InvFil, NEW c \in CONTRATS, NEW forme \in FORMES, NEW champs \in CHAMPS,
         EditerContrat(c, forme, champs)
  PROVE  InvFil'
<1> DEFINE k == [mode |-> forme.mode, du |-> forme.du, au |-> forme.au, premiere |-> forme.premiere,
                 etab |-> forme.etab, versions |-> [d \in {forme.du} |-> champs]]
           e == [type |-> "cree", c |-> c, identite |-> Identite(forme)]
<1>1. TypesCout /\ FilOrdonne /\ \A d \in CONTRATS : Copiee(d) /\ Oublie(d)
  BY DEF InvFil
<1>2. /\ c \notin ids /\ ids' = ids \cup {c} /\ source' = [source EXCEPT ![c] = k]
      /\ fil' = Append(fil, e)
      /\ UNCHANGED <<saisies, calendrier, lu, tContrats, tPrestations, tFoyer, perimes>>
  BY DEF EditerContrat, Emettre
<1>3. k \in LignesContrat /\ IsFiniteSet(DOMAIN k.versions) /\ k # Rien /\ Identite(k) = Identite(forme)
  <2>1. forme \in Formes /\ forme.du \in Debuts /\ {forme.du} \in SUBSET DatesEffet
    BY ConstantesCout DEF DatesEffet, Debuts
  <2>2. k.versions \in [{forme.du} -> CHAMPS] /\ DOMAIN k.versions = {forme.du}
    OBVIOUS
  <2>3. k.versions \in UNION {[S -> CHAMPS] : S \in SUBSET DatesEffet}
    BY <2>1, <2>2
  <2>4. /\ k.mode \in Modes /\ k.au \in {x.au : x \in FORMES \cup REPRISES}
        /\ k.premiere \in BOOLEAN /\ k.etab \in ETABLISSEMENTS
    BY <2>1 DEF Formes
  <2>5. k \in LignesContrat
    BY <2>1, <2>3, <2>4 DEF LignesContrat
  <2>6. IsFiniteSet(DOMAIN k.versions)
    BY <2>2, FS_Singleton
  <2>7. k # Rien
    BY <2>5, ConstantesCout
  <2> QED BY <2>5, <2>6, <2>7 DEF Identite
<1> HIDE DEF k
<1>4. e \in Messages
  <2>1. Identite(k) \in LignesCopie
    BY <1>3 DEF Identite, LignesContrat, LignesCopie
  <2> QED BY <1>3, <2>1 DEF Messages
<1>5. source[c] = Rien /\ Muet(c) /\ ~EnFil("supprime", c)
  BY <1>1, <1>2 DEF Copiee, Oublie, EnFil, FilOrdonne
<1>6. source'[c] = k /\ \A d \in CONTRATS : d # c => source'[d] = source[d]
  BY <1>1, <1>2 DEF TypesCout
<1>7. TypesCout'
  <2>1. source' \in [CONTRATS -> LignesContrat \cup {Rien}]
    BY <1>1, <1>2, <1>3 DEF TypesCout
  <2>2. \A d \in CONTRATS : source'[d] # Rien => IsFiniteSet(DOMAIN source'[d].versions)
    BY <1>1, <1>3, <1>6 DEF TypesCout
  <2> HIDE DEF e
  <2> QED BY <1>1, <1>2, <1>4, <2>1, <2>2, MessageAjoute DEF TypesCout
<1> USE DEF e
<1>8. e.c = c /\ e.type = "cree" /\ e.identite = Identite(k)
  BY <1>3
<1> HIDE DEF e
<1>9. FilOrdonne'
  BY <1>1, <1>2, <1>4, <1>5, <1>8, OrdreAjoute DEF Muet
<1>10. ASSUME NEW d \in CONTRATS PROVE Copiee(d)' /\ Oublie(d)' /\ \A m \in MOIS : Ecrite(d, m)'
  <2>1. CASE d # c
    <3>1. source'[d] = source[d] /\ e.c # d
      BY <1>6, <1>8, <2>1
    <3>2. Copiee(d)' /\ Oublie(d)'
      BY <1>2, <1>4, <3>1, CopieAjoutee
    <3>3. \A m \in MOIS : Ecrite(d, m)'
      BY <1>2, <1>4, <3>1, LigneAjoutee
    <3> QED BY <3>2, <3>3
  <2>2. CASE d = c
    <3>1. \A i \in DOMAIN fil' : fil'[i].c = c => fil'[i] = e
      BY <1>1, <1>2, <1>4, <1>5, MessageAjoute DEF Muet
    <3>2. \E i \in DOMAIN fil' : fil'[i] = e
      BY <1>1, <1>2, <1>4, MessageAjoute
    <3>3. Copiee(c)'
      BY <1>2, <1>6, <1>8, <3>1, <3>2 DEF Copiee, EnFil, Identifie, IdentifieEnDernier, Identite
    <3>4. Oublie(c)'
      BY <1>3, <1>6 DEF Oublie
    <3>5. \A m \in MOIS : tPrestations'[<<c, m>>] = Rien
      BY <1>2, <1>5 DEF Muet
    <3>6. lu' # Rien => fil'[1].c # c
      <4>1. fil # <<>> => fil'[1] = fil[1] /\ 1 \in DOMAIN fil
        BY <1>1, <1>2, <1>4, MessageAjoute
      <4> QED BY <1>1, <1>2, <1>5, <4>1 DEF FilOrdonne, Muet
    <3>7. \A m \in MOIS : Ecrite(c, m)'
      BY <3>5, <3>6 DEF Ecrite, EstPlanning
    <3> QED BY <2>2, <3>3, <3>4, <3>7
  <2> QED BY <2>1, <2>2
<1> QED BY <1>7, <1>9, <1>10 DEF InvFil

\* An edit of a contract that svc-tarification does not copy, and that leaves
\* its rows out of date.
LEMMA RetoucheSuit ==
  ASSUME InvFil, NEW c \in CONTRATS, NEW k \in LignesContrat, source[c] # Rien,
         source' = [source EXCEPT ![c] = k], IsFiniteSet(DOMAIN k.versions),
         Identite(k) = Identite(source[c]), Perimer(c),
         UNCHANGED <<saisies, calendrier, ids, tarif, tFoyer>>
  PROVE  InvFil'
<1>1. TypesCout /\ FilOrdonne /\ \A x \in CONTRATS : Copiee(x) /\ Oublie(x) /\ \A m \in MOIS : Ecrite(x, m)
  BY DEF InvFil
<1>2. k # Rien /\ perimes' = perimes \cup ({c} \X MOIS)
  BY ConstantesCout DEF Perimer
<1>3. source'[c] = k /\ \A x \in CONTRATS : x # c => source'[x] = source[x]
  BY <1>1 DEF TypesCout
<1>4. TypesCout'
  <2>1. source' \in [CONTRATS -> LignesContrat \cup {Rien}]
    BY <1>1 DEF TypesCout
  <2>2. \A x \in CONTRATS : source'[x] # Rien => IsFiniteSet(DOMAIN source'[x].versions)
    BY <1>1, <1>3 DEF TypesCout
  <2> QED BY <1>1, <2>1, <2>2 DEF TypesCout, tarif
<1>5. FilOrdonne'
  BY <1>1 DEF FilOrdonne, tarif
<1>6. ASSUME NEW x \in CONTRATS PROVE Copiee(x)' /\ Oublie(x)' /\ \A m \in MOIS : Ecrite(x, m)'
  <2>1. source'[x] # Rien => source[x] # Rien /\ Identite(source'[x]) = Identite(source[x])
    BY <1>3
  <2>2. source'[x] = Rien => source[x] = Rien
    BY <1>2, <1>3
  <2>3. Copiee(x)'
    BY <1>1, <2>1 DEF Copiee, EnFil, IdentifieEnDernier, tarif
  <2>4. Oublie(x)'
    BY <1>1, <2>2 DEF Oublie, Muet, EnFil, tarif
  <2>5. ASSUME NEW m \in MOIS PROVE Ecrite(x, m)'
    <3>1. CASE x = c
      BY <1>2, <3>1 DEF Ecrite
    <3>2. CASE x # c
      <4>1. QuantitesDe(x, m)' = QuantitesDe(x, m)
        BY <1>3, <3>2, QuantitesLocales
      <4> QED BY <1>1, <1>2, <1>3, <3>2, <4>1 DEF Ecrite, PlanningAttendu, tarif
    <3> QED BY <3>1, <3>2
  <2> QED BY <2>3, <2>4, <2>5
<1> QED BY <1>4, <1>5, <1>6 DEF InvFil

LEMMA AvenantSuit ==
  ASSUME InvFil, NEW c \in CONTRATS, NEW d \in DATES, NEW champs \in CHAMPS, EditerAvenant(c, d, champs)
  PROVE  InvFil'
<1> DEFINE v == [e \in DOMAIN source[c].versions \cup {d} |->
                   IF e = d THEN champs ELSE source[c].versions[e]]
           k == [source[c] EXCEPT !.versions = v]
<1>1. /\ source[c] # Rien /\ source' = [source EXCEPT ![c] = k] /\ Perimer(c)
      /\ UNCHANGED <<saisies, calendrier, ids, tarif, tFoyer>>
  BY DEF EditerAvenant
<1>2. source[c] \in LignesContrat /\ IsFiniteSet(DOMAIN source[c].versions)
  BY <1>1 DEF InvFil, TypesCout
<1>3. PICK S \in SUBSET DatesEffet : source[c].versions \in [S -> CHAMPS]
  BY <1>2 DEF LignesContrat
<1>4. DOMAIN v = S \cup {d} /\ S \cup {d} \in SUBSET DatesEffet /\ v \in [S \cup {d} -> CHAMPS]
  BY <1>3 DEF DatesEffet
<1>5. v \in UNION {[T -> CHAMPS] : T \in SUBSET DatesEffet}
  BY <1>4
<1>6. IsFiniteSet(S)
  BY <1>2, <1>3
<1> HIDE DEF v
<1>7. IsFiniteSet(DOMAIN v)
  BY <1>4, <1>6, FS_AddElement
<1>8. k \in LignesContrat /\ k.versions = v
  BY <1>2, <1>5 DEF LignesContrat
<1>9. k.mode = source[c].mode /\ k.premiere = source[c].premiere /\ k.du = source[c].du
  BY <1>2 DEF LignesContrat
<1>10. Identite(k) = Identite(source[c])
  BY <1>9 DEF Identite
<1> HIDE DEF k
<1> QED BY <1>1, <1>7, <1>8, <1>10, RetoucheSuit

LEMMA CorrectionSuit ==
  ASSUME InvFil, NEW c \in CONTRATS, NEW d, NEW champs \in CHAMPS, EditerCorrection(c, d, champs)
  PROVE  InvFil'
<1> DEFINE v == [source[c].versions EXCEPT ![d] = champs]
           k == [source[c] EXCEPT !.versions = v]
<1>1. /\ source[c] # Rien /\ source' = [source EXCEPT ![c] = k] /\ Perimer(c)
      /\ UNCHANGED <<saisies, calendrier, ids, tarif, tFoyer>>
  BY DEF EditerCorrection
<1>2. source[c] \in LignesContrat /\ IsFiniteSet(DOMAIN source[c].versions)
  BY <1>1 DEF InvFil, TypesCout
<1>3. PICK S \in SUBSET DatesEffet : source[c].versions \in [S -> CHAMPS]
  BY <1>2 DEF LignesContrat
<1>4. v \in [S -> CHAMPS] /\ DOMAIN v = DOMAIN source[c].versions
  BY <1>3
<1> HIDE DEF v
<1>5. k \in LignesContrat /\ k.versions = v
  BY <1>2, <1>4 DEF LignesContrat
<1>6. k.mode = source[c].mode /\ k.premiere = source[c].premiere /\ k.du = source[c].du
  BY <1>2 DEF LignesContrat
<1>7. Identite(k) = Identite(source[c])
  BY <1>6 DEF Identite
<1> HIDE DEF k
<1> QED BY <1>1, <1>2, <1>4, <1>5, <1>7, RetoucheSuit

LEMMA EtablissementSuit ==
  ASSUME InvFil, NEW c \in CONTRATS, NEW e \in ETABLISSEMENTS, EditerEtablissement(c, e)
  PROVE  InvFil'
<1> DEFINE k == [source[c] EXCEPT !.etab = e]
<1>1. /\ source[c] # Rien /\ source' = [source EXCEPT ![c] = k] /\ Perimer(c)
      /\ UNCHANGED <<saisies, calendrier, ids, tarif, tFoyer>>
  BY DEF EditerEtablissement
<1>2. source[c] \in LignesContrat /\ IsFiniteSet(DOMAIN source[c].versions)
  BY <1>1 DEF InvFil, TypesCout
<1>3. k \in LignesContrat /\ k.versions = source[c].versions
  BY <1>2 DEF LignesContrat
<1>4. k.mode = source[c].mode /\ k.premiere = source[c].premiere /\ k.du = source[c].du
  BY <1>2 DEF LignesContrat
<1>5. Identite(k) = Identite(source[c])
  BY <1>4 DEF Identite
<1> HIDE DEF k
<1> QED BY <1>1, <1>2, <1>3, <1>5, RetoucheSuit

\* What a correction of the current version makes of a contract.
LEMMA ReprisCorrect ==
  ASSUME NEW fiche \in LignesContrat, NEW reprise \in REPRISES, NEW champs \in CHAMPS
  PROVE  LET k == Repris(fiche, reprise, champs) IN
         /\ k \in LignesContrat /\ k # Rien /\ DOMAIN k.versions = DOMAIN fiche.versions
         /\ Identite(k) \in LignesCopie
<1> DEFINE k == Repris(fiche, reprise, champs)
           v == [fiche.versions EXCEPT ![VersionCourante(fiche.versions)] = champs]
<1>1. PICK S \in SUBSET DatesEffet : fiche.versions \in [S -> CHAMPS]
  BY DEF LignesContrat
<1>2. v \in [S -> CHAMPS] /\ DOMAIN v = DOMAIN fiche.versions
  BY <1>1
<1>3. v \in UNION {[T -> CHAMPS] : T \in SUBSET DatesEffet}
  BY <1>2
<1>4. reprise \in Reprises /\ fiche.mode \in Modes /\ reprise.du \in Debuts
  BY ConstantesCout DEF LignesContrat, Debuts
<1>5. reprise.au \in {x.au : x \in FORMES \cup REPRISES}
  OBVIOUS
<1>6. (fiche.mode # Creche /\ reprise.premiere) \in BOOLEAN /\ reprise.etab \in ETABLISSEMENTS
  BY <1>4 DEF Reprises
<1>7. k = [mode |-> fiche.mode, du |-> reprise.du, au |-> reprise.au,
           premiere |-> (fiche.mode # Creche /\ reprise.premiere), etab |-> reprise.etab,
           versions |-> v]
  BY DEF Repris
<1> HIDE DEF v
<1>8. k \in LignesContrat /\ k.versions = v
  <2> HIDE DEF k
  <2> QED BY <1>3, <1>4, <1>5, <1>6, <1>7 DEF LignesContrat
<1> HIDE DEF k
<1>9. k # Rien
  BY <1>8, ConstantesCout
<1>10. Identite(k) \in LignesCopie
  BY <1>8 DEF Identite, LignesContrat, LignesCopie
<1> QED BY <1>2, <1>8, <1>9, <1>10 DEF k

LEMMA VersionCouranteSuit ==
  ASSUME InvFil, NEW c \in CONTRATS, NEW reprise \in REPRISES, NEW champs \in CHAMPS,
         EditerVersionCourante(c, reprise, champs)
  PROVE  InvFil'
<1> DEFINE k == Repris(source[c], reprise, champs)
           e == [type |-> "modifie", c |-> c, identite |-> Identite(k)]
<1>1. TypesCout /\ FilOrdonne /\ \A x \in CONTRATS : Copiee(x) /\ Oublie(x)
  BY DEF InvFil
<1>2. /\ source[c] # Rien /\ source' = [source EXCEPT ![c] = k]
      /\ perimes' = perimes \cup ({c} \X MOIS) /\ fil' = Append(fil, e)
      /\ UNCHANGED <<saisies, calendrier, ids, lu, tContrats, tPrestations, tFoyer>>
  BY DEF EditerVersionCourante, Perimer, Emettre
<1>3. source[c] \in LignesContrat /\ IsFiniteSet(DOMAIN source[c].versions)
  BY <1>1, <1>2 DEF TypesCout
<1>4. k \in LignesContrat /\ k # Rien /\ IsFiniteSet(DOMAIN k.versions) /\ Identite(k) \in LignesCopie
  BY <1>3, ReprisCorrect
<1> HIDE DEF k
<1>5. e \in Messages /\ e.type = "modifie" /\ e.c = c /\ e.identite = Identite(k)
  BY <1>4 DEF Messages
<1> HIDE DEF e
<1>6. source'[c] = k /\ \A x \in CONTRATS : x # c => source'[x] = source[x]
  BY <1>1, <1>2 DEF TypesCout
<1>7. TypesCout'
  <2>1. source' \in [CONTRATS -> LignesContrat \cup {Rien}]
    BY <1>1, <1>2, <1>4 DEF TypesCout
  <2>2. \A x \in CONTRATS : source'[x] # Rien => IsFiniteSet(DOMAIN source'[x].versions)
    BY <1>1, <1>4, <1>6 DEF TypesCout
  <2> QED BY <1>1, <1>2, <1>5, <2>1, <2>2, MessageAjoute DEF TypesCout
<1>8. c \in ids /\ ~EnFil("supprime", c)
  BY <1>1, <1>2 DEF Copiee
<1>9. FilOrdonne'
  BY <1>1, <1>2, <1>5, <1>8, OrdreAjoute
<1>10. ASSUME NEW x \in CONTRATS PROVE Copiee(x)' /\ Oublie(x)' /\ \A m \in MOIS : Ecrite(x, m)'
  <2>1. CASE x # c
    <3>1. source'[x] = source[x] /\ e.c # x
      BY <1>5, <1>6, <2>1
    <3>2. Copiee(x)' /\ Oublie(x)'
      BY <1>2, <1>5, <3>1, CopieAjoutee
    <3>3. \A m \in MOIS : Ecrite(x, m)'
      BY <1>2, <1>5, <3>1, LigneAjoutee
    <3> QED BY <3>2, <3>3
  <2>2. CASE x = c
    <3>1. PICK n \in DOMAIN fil' : fil'[n] = e /\ \A j \in DOMAIN fil : j < n /\ j \in Nat
      BY <1>1, <1>2, <1>5, MessageAjoute
    <3>2. \A i \in DOMAIN fil' : (i \in DOMAIN fil /\ fil'[i] = fil[i]) \/ fil'[i] = e
      BY <1>1, <1>2, <1>5, MessageAjoute
    <3>3. n \in Nat
      <4>1. fil' \in Seq(Messages)
        BY <1>7 DEF TypesCout
      <4> QED BY <4>1
    <3>4. Identifie(fil'[n], c)
      BY <1>5, <3>1 DEF Identifie
    <3>5. ASSUME NEW i \in DOMAIN fil', IdentifieEnDernier(i, c)' PROVE fil'[i] = e
      <4>1. n <= i
        BY <3>4, <3>5 DEF IdentifieEnDernier
      <4> QED BY <3>1, <3>2, <3>3, <4>1
    <3>6. ~EnFil("supprime", c)'
      BY <1>5, <1>8, <3>2 DEF EnFil
    <3>7. source'[c] = k /\ ids' = ids
      BY <1>2, <1>6
    <3>8. Copiee(c)'
      BY <1>5, <1>8, <3>4, <3>5, <3>6, <3>7 DEF Copiee, Identite
    <3>9. Oublie(c)'
      BY <1>4, <3>7 DEF Oublie
    <3>10. \A m \in MOIS : Ecrite(c, m)'
      BY <1>2 DEF Ecrite
    <3> QED BY <2>2, <3>8, <3>9, <3>10
  <2> QED BY <2>1, <2>2
<1> QED BY <1>7, <1>9, <1>10 DEF InvFil

LEMMA SaisieSuit ==
  ASSUME InvFil, NEW c \in CONTRATS, NEW m \in MOIS, NEW saisie, EditerPlanning(c, m, saisie)
  PROVE  InvFil'
<1> DEFINE e == [type |-> "planning", c |-> c, mois |-> m]
<1>1. TypesCout /\ FilOrdonne /\ \A x \in CONTRATS : Copiee(x)
  BY DEF InvFil
<1>2. /\ source[c] # Rien /\ saisies' = [saisies EXCEPT ![<<c, m>>] = saisie]
      /\ fil' = Append(fil, e)
      /\ UNCHANGED <<source, calendrier, ids, lu, tContrats, tPrestations, tFoyer, perimes>>
  BY DEF EditerPlanning, Emettre
<1>3. e \in Messages /\ e.c = c /\ e.type = "planning" /\ EstPlanning(e, c, m)
  BY DEF Messages, EstPlanning
<1> HIDE DEF e
<1>4. TypesCout'
  <2>1. saisies' = [x \in Cellules |-> saisies'[x]]
    BY <1>1, <1>2 DEF TypesCout
  <2> QED BY <1>1, <1>2, <1>3, <2>1, MessageAjoute DEF TypesCout
<1>5. FilOrdonne'
  BY <1>1, <1>2, <1>3, OrdreAjoute DEF Copiee
<1>6. \A x \in CONTRATS : Copiee(x)' /\ Oublie(x)'
  BY <1>2, <1>3, CopieAjoutee
<1>7. ASSUME NEW x \in CONTRATS, NEW n \in MOIS PROVE Ecrite(x, n)'
  <2>1. EstPlanning(e, x, n) \/ saisies'[<<x, n>>] = saisies[<<x, n>>]
    <3>1. <<x, n>> \in Cellules
      BY DEF Cellules
    <3>2. x # c \/ n # m => saisies'[<<x, n>>] = saisies[<<x, n>>]
      BY <1>1, <1>2, <3>1 DEF TypesCout
    <3> QED BY <1>3, <3>2
  <2> QED BY <1>2, <1>3, <2>1, LigneAjoutee
<1> QED BY <1>4, <1>5, <1>6, <1>7 DEF InvFil

LEMMA SuppressionSuit ==
  ASSUME InvFil, NEW c \in CONTRATS, EditerSuppression(c)
  PROVE  InvFil'
<1> DEFINE e == [type |-> "supprime", c |-> c]
<1>1. TypesCout /\ FilOrdonne /\ \A x \in CONTRATS : Copiee(x)
  BY DEF InvFil
<1>2. /\ source[c] # Rien /\ source' = [source EXCEPT ![c] = Rien]
      /\ saisies' = [x \in Cellules |-> IF x[1] = c THEN Rien ELSE saisies[x]]
      /\ fil' = Append(fil, e)
      /\ UNCHANGED <<calendrier, ids, lu, tContrats, tPrestations, tFoyer, perimes>>
  BY DEF EditerSuppression, Emettre
<1>3. e \in Messages /\ e.c = c /\ e.type = "supprime"
  BY DEF Messages
<1> HIDE DEF e
<1>4. source'[c] = Rien /\ \A x \in CONTRATS : x # c => source'[x] = source[x]
  BY <1>1, <1>2 DEF TypesCout
<1>5. TypesCout'
  <2>1. source' \in [CONTRATS -> LignesContrat \cup {Rien}]
    BY <1>1, <1>2 DEF TypesCout
  <2>2. \A x \in CONTRATS : source'[x] # Rien => IsFiniteSet(DOMAIN source'[x].versions)
    BY <1>1, <1>4 DEF TypesCout
  <2>3. saisies' = [x \in Cellules |-> saisies'[x]]
    BY <1>2
  <2> QED BY <1>1, <1>2, <1>3, <2>1, <2>2, <2>3, MessageAjoute DEF TypesCout
<1>6. FilOrdonne'
  BY <1>1, <1>2, <1>3, OrdreAjoute DEF Copiee
<1>7. ASSUME NEW x \in CONTRATS PROVE Copiee(x)' /\ Oublie(x)' /\ \A m \in MOIS : Ecrite(x, m)'
  <2>1. CASE x # c
    <3>1. source'[x] = source[x] /\ e.c # x
      BY <1>3, <1>4, <2>1
    <3>2. Copiee(x)' /\ Oublie(x)'
      BY <1>2, <1>3, <3>1, CopieAjoutee
    <3>3. ASSUME NEW m \in MOIS PROVE Ecrite(x, m)'
      <4>1. saisies'[<<x, m>>] = saisies[<<x, m>>]
        BY <1>2, <2>1 DEF Cellules
      <4> QED BY <1>2, <1>3, <3>1, <4>1, LigneAjoutee
    <3> QED BY <3>2, <3>3
  <2>2. CASE x = c
    <3>1. EnFil("supprime", c)'
      BY <1>1, <1>2, <1>3, MessageAjoute DEF EnFil
    <3> QED BY <1>4, <2>2, <3>1 DEF Copiee, Oublie, Ecrite
  <2> QED BY <2>1, <2>2
<1> QED BY <1>5, <1>6, <1>7 DEF InvFil

LEMMA CalendrierSuit ==
  ASSUME InvFil, NEW e \in ETABLISSEMENTS, ModifierCalendrier(e)
  PROVE  InvFil'
<1>1. TypesCout /\ FilOrdonne /\ \A c \in CONTRATS : \A m \in MOIS : Ecrite(c, m)
  BY DEF InvFil
<1>2. PICK cal : calendrier' = [calendrier EXCEPT ![e] = cal]
  BY DEF ModifierCalendrier
<1>3. perimes' = perimes \cup (Rattaches(e) \X MOIS) /\ UNCHANGED <<source, saisies, ids, tarif, tFoyer>>
  BY DEF ModifierCalendrier
<1>4. TypesCout' /\ FilOrdonne'
  BY <1>1, <1>2, <1>3 DEF TypesCout, FilOrdonne, tarif
<1>5. \A c \in CONTRATS : Copiee(c)' /\ Oublie(c)'
  BY <1>3 DEF InvFil, Copiee, Oublie, Muet, EnFil, IdentifieEnDernier, tarif
<1>6. ASSUME NEW c \in CONTRATS, NEW m \in MOIS PROVE Ecrite(c, m)'
  <2>1. CASE c \in Rattaches(e)
    BY <1>3, <2>1 DEF Ecrite
  <2>2. CASE source[c] = Rien
    BY <1>3, <2>2 DEF Ecrite
  <2>3. CASE source[c] # Rien /\ source[c].etab # e
    <3>1. source[c].etab \in ETABLISSEMENTS
      BY <1>1, <2>3 DEF TypesCout, LignesContrat
    <3>2. calendrier'[source[c].etab] = calendrier[source[c].etab]
      BY <1>1, <1>2, <2>3, <3>1 DEF TypesCout
    <3>3. QuantitesDe(c, m)' = QuantitesDe(c, m)
      BY <1>3, <3>2, QuantitesLocales
    <3> QED BY <1>1, <1>3, <3>3 DEF Ecrite, PlanningAttendu, tarif
  <2> QED BY <2>1, <2>2, <2>3 DEF Rattaches
<1> QED BY <1>4, <1>5, <1>6 DEF InvFil

\* A message that tells what a contract is, applied.
LEMMA IdentiteRecue ==
  ASSUME InvFil, AppliquerContratCree \/ AppliquerContratModifie
  PROVE  InvFil'
<1> DEFINE h == fil[1]
<1>1. TypesCout /\ FilOrdonne /\ \A x \in CONTRATS : Copiee(x) /\ Oublie(x)
  BY DEF InvFil
<1>2. /\ fil # <<>> /\ fil' = Tail(fil) /\ h.type \in {"cree", "modifie"} /\ h \in Messages
      /\ tContrats' = [tContrats EXCEPT ![h.c] = h.identite]
      /\ UNCHANGED <<planif, lu, tPrestations, tFoyer, editions, perimes>>
  BY <1>1, MessageRetire DEF AppliquerContratCree, AppliquerContratModifie, EnTete, Acquitter
<1>3. h.c \in CONTRATS /\ h.identite \in LignesCopie /\ 1 \in DOMAIN fil
  BY <1>1, <1>2, MessageRetire DEF Messages
<1>4. lu = Rien
  BY <1>1, <1>2 DEF FilOrdonne
<1>5. TypesCout'
  <2>1. tContrats' \in [CONTRATS -> LignesCopie \cup {Rien}]
    BY <1>1, <1>2, <1>3 DEF TypesCout
  <2>2. fil' \in Seq(Messages)
    BY <1>1, <1>2, MessageRetire
  <2> HIDE DEF h
  <2> QED BY <1>1, <1>2, <2>1, <2>2 DEF TypesCout, planif
<1>6. FilOrdonne'
  BY <1>1, <1>2, <1>4, OrdreRetire DEF planif
<1>7. ASSUME NEW x \in CONTRATS PROVE Copiee(x)' /\ Oublie(x)'
  <2>1. CASE x # h.c
    <3>1. tContrats'[x] = tContrats[x]
      BY <1>1, <1>2, <2>1 DEF TypesCout
    <3> QED BY <1>2, <2>1, <3>1, CopieRetiree DEF planif
  <2>2. CASE x = h.c
    <3>1. \A i \in DOMAIN fil' : \E j \in DOMAIN fil : fil'[i] = fil[j]
      BY <1>1, <1>2, MessageRetire
    <3>2. tContrats'[x] = h.identite /\ Identifie(h, x)
      BY <1>1, <1>2, <2>2 DEF TypesCout, Identifie
    <3>3. ASSUME source[x] # Rien
          PROVE  /\ \/ tContrats'[x] = Identite(source[x])
                    \/ \E i \in DOMAIN fil' : Identifie(fil'[i], x)
                 /\ \A i \in DOMAIN fil' : IdentifieEnDernier(i, x)' => fil'[i].identite = Identite(source[x])
      <4>1. CASE IdentifieEnDernier(1, x)
        <5>1. h.identite = Identite(source[x])
          BY <1>1, <1>3, <3>3, <4>1 DEF Copiee
        <5>2. ASSUME NEW i \in DOMAIN fil' PROVE ~Identifie(fil'[i], x)
          <6>1. i + 1 \in DOMAIN fil /\ fil'[i] = fil[i + 1] /\ i + 1 \in Nat \ {0} /\ i \in Nat /\ i # 0
            <7>1. fil' \in Seq(Messages)
              BY <1>5 DEF TypesCout
            <7> QED BY <1>1, <1>2, <7>1, MessageRetire
          <6> QED BY <4>1, <6>1 DEF IdentifieEnDernier
        <5> QED BY <3>2, <5>1, <5>2 DEF IdentifieEnDernier
      <4>2. CASE ~IdentifieEnDernier(1, x)
        <5>1. PICK j \in DOMAIN fil : Identifie(fil[j], x) /\ ~(j <= 1)
          BY <3>2, <4>2 DEF IdentifieEnDernier
        <5>2. j - 1 \in DOMAIN fil' /\ fil'[j - 1] = fil[j] /\ j \in Nat
          BY <1>1, <1>2, <5>1, MessageRetire
        <5>3. ASSUME NEW i \in DOMAIN fil', IdentifieEnDernier(i, x)'
              PROVE  fil'[i].identite = Identite(source[x])
          <6>1. i + 1 \in DOMAIN fil /\ fil'[i] = fil[i + 1] /\ i \in Nat
            BY <1>1, <1>2, MessageRetire
          <6>2. ASSUME NEW n \in DOMAIN fil, Identifie(fil[n], x) PROVE n <= i + 1
            <7>1. CASE n = 1
              BY <6>1, <7>1
            <7>2. CASE n # 1
              <8>1. n - 1 \in DOMAIN fil' /\ fil'[n - 1] = fil[n] /\ n \in Nat
                BY <1>1, <1>2, <7>2, MessageRetire
              <8>2. n - 1 <= i
                BY <5>3, <6>2, <8>1 DEF IdentifieEnDernier
              <8> QED BY <6>1, <8>1, <8>2
            <7> QED BY <7>1, <7>2
          <6>3. IdentifieEnDernier(i + 1, x)
            BY <5>3, <6>1, <6>2 DEF IdentifieEnDernier
          <6> QED BY <1>1, <3>3, <6>1, <6>3 DEF Copiee
        <5> QED BY <5>1, <5>2, <5>3
      <4> QED BY <4>1, <4>2
    <3>4. Copiee(x)'
      BY <1>1, <1>2, <3>1, <3>3 DEF Copiee, EnFil, planif
    <3>5. ~Muet(x)
      BY <1>3, <2>2 DEF Muet
    <3>6. EnFil("supprime", x) => EnFil("supprime", x)'
      BY <1>1, <1>2, MessageRetire DEF EnFil
    <3>7. Oublie(x)'
      BY <1>1, <1>2, <3>5, <3>6 DEF Oublie, planif
    <3> QED BY <3>4, <3>7
  <2> QED BY <2>1, <2>2
<1>8. \A x \in CONTRATS, m \in MOIS : Ecrite(x, m)'
  <2>1. \A x \in CONTRATS, m \in MOIS : ~EstPlanning(h, x, m)
    BY <1>2 DEF EstPlanning
  <2> HIDE DEF InvFil
  <2> QED BY <1>2, <1>4, <2>1, LigneRetiree
<1> QED BY <1>5, <1>6, <1>7, <1>8 DEF InvFil

LEMMA QuantitesDemandees ==
  ASSUME InvFil, DemanderQuantites
  PROVE  InvFil'
<1> DEFINE h == fil[1]
<1>1. TypesCout /\ FilOrdonne /\ fil # <<>>
  BY DEF InvFil, DemanderQuantites, EnTete
<1>2. Head(fil) = h /\ 1 \in DOMAIN fil /\ h \in Messages
  <2>1. fil \in Seq(Messages)
    BY <1>1 DEF TypesCout
  <2> QED BY <1>1, <2>1
<1>3. /\ h.type = "planning" /\ lu' = QuantitesDe(h.c, h.mois)
      /\ perimes' = perimes \ {<<h.c, h.mois>>}
      /\ UNCHANGED <<planif, fil, tContrats, tPrestations, tFoyer, editions>>
  BY <1>2 DEF DemanderQuantites, EnTete
<1> HIDE DEF h
<1>4. TypesCout'
  BY <1>1, <1>3 DEF TypesCout, planif
<1>5. FilOrdonne'
  BY <1>1, <1>3 DEF FilOrdonne, planif, h
<1>6. \A c \in CONTRATS : Copiee(c)' /\ Oublie(c)'
  BY <1>3 DEF InvFil, Copiee, Oublie, Muet, EnFil, IdentifieEnDernier, planif
<1>7. ASSUME NEW c \in CONTRATS, NEW m \in MOIS PROVE Ecrite(c, m)'
  <2>1. QuantitesDe(c, m)' = QuantitesDe(c, m) /\ source' = source
    BY <1>3, QuantitesLocales DEF planif
  <2>2. Ecrite(c, m)
    BY DEF InvFil
  <2>3. CASE EstPlanning(h, c, m)
    <3>1. PlanningAttendu(c, m)' /\ h.c = c /\ h.mois = m
      BY <1>2, <1>3, <2>3 DEF PlanningAttendu, EstPlanning, h
    <3>2. lu' = QuantitesDe(c, m)'
      BY <1>3, <2>1, <3>1
    <3> QED BY <3>1, <3>2 DEF Ecrite
  <2>4. CASE ~EstPlanning(h, c, m)
    <3>1. <<c, m>> \in perimes' <=> <<c, m>> \in perimes
      BY <1>3, <2>4 DEF EstPlanning
    <3>2. ~EstPlanning(fil'[1], c, m) /\ (PlanningAttendu(c, m)' <=> PlanningAttendu(c, m))
      BY <1>3, <2>4 DEF PlanningAttendu, h
    <3> QED BY <1>3, <2>1, <2>2, <3>1, <3>2 DEF Ecrite
  <2> QED BY <2>3, <2>4
<1> QED BY <1>4, <1>5, <1>6, <1>7 DEF InvFil

LEMMA QuantitesInscrites ==
  ASSUME InvFil, InscrireQuantites
  PROVE  InvFil'
<1> DEFINE h == fil[1]
<1>1. TypesCout /\ FilOrdonne
  BY DEF InvFil
<1>2. /\ fil # <<>> /\ fil' = Tail(fil) /\ h.type = "planning" /\ h \in Messages /\ 1 \in DOMAIN fil
      /\ lu # Rien /\ lu' = Rien
      /\ tPrestations' = [tPrestations EXCEPT ![<<h.c, h.mois>>] = lu]
      /\ UNCHANGED <<planif, tContrats, tFoyer, editions, perimes>>
  BY <1>1, MessageRetire DEF InscrireQuantites, EnTete, Acquitter
<1> HIDE DEF h
<1>3. \A x \in Cellules : x # <<h.c, h.mois>> => tPrestations'[x] = tPrestations[x]
  BY <1>1, <1>2 DEF TypesCout
<1>4. TypesCout'
  <2>1. tPrestations' = [x \in Cellules |-> tPrestations'[x]]
    BY <1>1, <1>2 DEF TypesCout
  <2>2. fil' \in Seq(Messages)
    BY <1>1, <1>2, MessageRetire
  <2> QED BY <1>1, <1>2, <2>1, <2>2 DEF TypesCout, planif
<1>5. FilOrdonne'
  BY <1>1, <1>2, OrdreRetire DEF planif
<1>6. ASSUME NEW c \in CONTRATS PROVE Copiee(c)' /\ Oublie(c)'
  <2>1. fil[1].c # c => \A m \in MOIS : tPrestations'[<<c, m>>] = tPrestations[<<c, m>>]
    BY <1>3 DEF Cellules, h
  <2>2. source' = source /\ ids' = ids /\ tContrats' = tContrats /\ fil[1].type = "planning"
    BY <1>2 DEF planif, h
  <2> QED BY <1>2, <2>1, <2>2, CopieRetiree
<1>7. ASSUME NEW c \in CONTRATS, NEW m \in MOIS PROVE Ecrite(c, m)'
  <2>1. <<c, m>> \in Cellules
    BY DEF Cellules
  <2>2. CASE EstPlanning(h, c, m)
    <3>1. QuantitesDe(c, m)' = QuantitesDe(c, m) /\ source' = source
      BY <1>2, QuantitesLocales DEF planif
    <3>2. tPrestations'[<<c, m>>] = lu
      BY <1>1, <1>2, <2>1, <2>2 DEF TypesCout, EstPlanning
    <3>3. ~PlanningAttendu(c, m)' => \A i \in DOMAIN fil : EstPlanning(fil[i], c, m) => i = 1
      BY <1>1, <1>2, MessageRetire DEF PlanningAttendu
    <3>4. Ecrite(c, m)
      BY DEF InvFil
    <3>5. source[c] # Rien /\ <<c, m>> \notin perimes /\ ~PlanningAttendu(c, m)' => lu = QuantitesDe(c, m)
      BY <1>2, <2>2, <3>3, <3>4 DEF Ecrite, h
    <3> QED BY <1>2, <3>1, <3>2, <3>5 DEF Ecrite
  <2>3. CASE ~EstPlanning(h, c, m)
    <3>1. tPrestations'[<<c, m>>] = tPrestations[<<c, m>>]
      BY <1>2, <1>3, <2>1, <2>3 DEF EstPlanning
    <3> QED BY <1>2, <2>3, <3>1, LigneRetiree DEF h
  <2> QED BY <2>2, <2>3
<1> QED BY <1>4, <1>5, <1>6, <1>7 DEF InvFil

LEMMA PlanningRejete ==
  ASSUME InvFil, RejeterPlanning
  PROVE  InvFil'
<1> DEFINE h == fil[1]
<1>1. TypesCout /\ FilOrdonne
  BY DEF InvFil
<1>2. /\ fil # <<>> /\ fil' = Tail(fil) /\ h.type = "planning"
      /\ lu = Rien /\ perimes' = perimes \cup {<<h.c, h.mois>>}
      /\ UNCHANGED <<planif, lu, tContrats, tPrestations, tFoyer, editions>>
  BY <1>1, MessageRetire DEF RejeterPlanning, EnTete, Acquitter
<1> HIDE DEF h
<1>3. TypesCout'
  <2>1. fil' \in Seq(Messages)
    BY <1>1, <1>2, MessageRetire
  <2> QED BY <1>1, <1>2, <2>1 DEF TypesCout, planif
<1>4. FilOrdonne'
  BY <1>1, <1>2, OrdreRetire DEF planif
<1>5. \A c \in CONTRATS : Copiee(c)' /\ Oublie(c)'
  BY <1>2, CopieRetiree DEF planif, h
<1>6. ASSUME NEW c \in CONTRATS, NEW m \in MOIS PROVE Ecrite(c, m)'
  <2>1. CASE EstPlanning(h, c, m)
    BY <1>2, <2>1 DEF Ecrite, EstPlanning
  <2>2. CASE ~EstPlanning(h, c, m)
    BY <1>2, <2>2, LigneRetiree DEF h
  <2> QED BY <2>1, <2>2
<1> QED BY <1>3, <1>4, <1>5, <1>6 DEF InvFil

LEMMA SuppressionRecue ==
  ASSUME InvFil, AppliquerContratSupprime
  PROVE  InvFil'
<1> DEFINE h == fil[1]
<1>1. TypesCout /\ FilOrdonne /\ \A x \in CONTRATS : Copiee(x) /\ Oublie(x)
  BY DEF InvFil
<1>2. /\ fil # <<>> /\ fil' = Tail(fil) /\ h.type = "supprime" /\ h \in Messages /\ 1 \in DOMAIN fil
      /\ tContrats' = [tContrats EXCEPT ![h.c] = Rien]
      /\ tPrestations' = [x \in Cellules |-> IF x[1] = h.c THEN Rien ELSE tPrestations[x]]
      /\ UNCHANGED <<planif, lu, tFoyer, editions, perimes>>
  BY <1>1, MessageRetire DEF AppliquerContratSupprime, EnTete, Acquitter
<1>3. h.c \in CONTRATS
  BY <1>2 DEF Messages
<1> HIDE DEF h
<1>4. lu = Rien
  BY <1>1, <1>2 DEF FilOrdonne, h
<1>5. TypesCout'
  <2>1. tContrats' \in [CONTRATS -> LignesCopie \cup {Rien}]
    BY <1>1, <1>2 DEF TypesCout
  <2>2. tPrestations' = [x \in Cellules |-> tPrestations'[x]]
    BY <1>2
  <2>3. fil' \in Seq(Messages)
    BY <1>1, <1>2, MessageRetire
  <2> QED BY <1>1, <1>2, <2>1, <2>2, <2>3 DEF TypesCout, planif
<1>6. FilOrdonne'
  BY <1>1, <1>2, <1>4, OrdreRetire DEF planif
<1>7. ASSUME NEW x \in CONTRATS PROVE Copiee(x)' /\ Oublie(x)' /\ \A m \in MOIS : Ecrite(x, m)'
  <2>1. CASE x # h.c
    <3>1. tContrats'[x] = tContrats[x] /\ \A m \in MOIS : tPrestations'[<<x, m>>] = tPrestations[<<x, m>>]
      BY <1>1, <1>2, <2>1 DEF TypesCout, Cellules
    <3>2. Copiee(x)' /\ Oublie(x)'
      BY <1>2, <2>1, <3>1, CopieRetiree DEF planif, h
    <3>3. \A m \in MOIS : ~EstPlanning(h, x, m)
      BY <1>2 DEF EstPlanning
    <3>4. \A m \in MOIS : Ecrite(x, m)'
      BY <1>2, <1>4, <3>1, <3>3, LigneRetiree DEF h
    <3> QED BY <3>2, <3>4
  <2>2. CASE x = h.c
    <3>1. source[x] = Rien
      BY <1>1, <1>2, <2>2 DEF Copiee, EnFil, h
    <3>2. tContrats'[x] = Rien /\ \A m \in MOIS : tPrestations'[<<x, m>>] = Rien
      BY <1>1, <1>2, <2>2 DEF TypesCout, Cellules
    <3>3. \A i \in DOMAIN fil' : fil'[i].c # x
      <4>1. \A i \in DOMAIN fil : fil[i].c = x => i <= 1
        BY <1>1, <1>2, <2>2 DEF FilOrdonne, h
      <4>2. ASSUME NEW i \in DOMAIN fil', fil'[i].c = x PROVE FALSE
        <5>1. i + 1 \in DOMAIN fil /\ fil[i + 1].c = x /\ i + 1 \in Nat \ {0} /\ i \in Nat
          BY <1>1, <1>2, <4>2, MessageRetire
        <5>2. i \in DOMAIN fil' /\ DOMAIN fil' \subseteq Nat \ {0}
          <6>1. fil' \in Seq(Messages)
            BY <1>1, <1>2, MessageRetire
          <6> QED BY <6>1
        <5> QED BY <4>1, <5>1, <5>2
      <4> QED BY <4>2
    <3>4. source' = source
      BY <1>2 DEF planif
    <3> QED BY <3>1, <3>2, <3>3, <3>4 DEF Copiee, Oublie, Muet, Ecrite
  <2> QED BY <2>1, <2>2
<1> QED BY <1>5, <1>6, <1>7 DEF InvFil

\* Neither the request nor the income of the household touches the queue.
LEMMA FilIntact ==
  ASSUME InvFil, UNCHANGED <<planif, tarif, perimes>>
  PROVE  InvFil'
<1>1. TypesCout' /\ FilOrdonne'
  BY DEF InvFil, TypesCout, FilOrdonne, planif, tarif
<1>2. \A c \in CONTRATS : Copiee(c)' /\ Oublie(c)'
  BY DEF InvFil, Copiee, Oublie, Muet, EnFil, IdentifieEnDernier, planif, tarif
<1>3. ASSUME NEW c \in CONTRATS, NEW m \in MOIS PROVE Ecrite(c, m)'
  <2>1. QuantitesDe(c, m)' = QuantitesDe(c, m)
    BY QuantitesLocales DEF planif
  <2> QED BY <2>1 DEF InvFil, Ecrite, PlanningAttendu, planif, tarif
<1> QED BY <1>1, <1>2, <1>3 DEF InvFil

LEMMA InvFilInit == CoutInit => InvFil
<1> SUFFICES ASSUME CoutInit PROVE InvFil
  OBVIOUS
<1>1. fil = <<>> /\ fil \in Seq(Messages) /\ DOMAIN fil = {}
  BY DEF CoutInit
<1>2. TypesCout /\ FilOrdonne
  BY <1>1, ConstantesCout DEF CoutInit, TypesCout, FilOrdonne
<1>3. \A c \in CONTRATS : Copiee(c) /\ Oublie(c) /\ \A m \in MOIS : Ecrite(c, m)
  BY <1>1 DEF CoutInit, Copiee, Oublie, Muet, Ecrite, Cellules
<1> QED BY <1>2, <1>3 DEF InvFil

LEMMA InvFilNext == InvFil /\ [CoutNext]_coutVars => InvFil'
<1> SUFFICES ASSUME InvFil, [CoutNext]_coutVars PROVE InvFil'
  OBVIOUS
<1>1. CASE Editions
  <2>1. ASSUME NEW f, AppliquerFoyer(f) PROVE InvFil'
    BY <2>1, FilIntact DEF AppliquerFoyer
  <2> QED BY <1>1, <2>1, CreationSuit, AvenantSuit, CorrectionSuit, VersionCouranteSuit, EtablissementSuit,
         SaisieSuit, SuppressionSuit, CalendrierSuit DEF Editions
<1>2. CASE Projection
  BY <1>2, IdentiteRecue, QuantitesDemandees, QuantitesInscrites, PlanningRejete, SuppressionRecue
  DEF Projection
<1>3. CASE UNCHANGED <<planif, tarif, perimes>>
  BY <1>3, FilIntact
<1>4. UNCHANGED coutVars => UNCHANGED <<planif, tarif, perimes>>
  BY DEF coutVars
<1> QED BY <1>1, <1>2, <1>3, <1>4 DEF CoutNext

\* Once every event was applied, the cost of a month is what the contracts,
\* the plannings and the calendars say, through the rows that were projected or
\* the fallback: no contract is missing or counted twice, and the fees are
\* those of the school year (projection.service.ts, coutMois,
\* premiere-annee-abcm.ts).  The exceptions are the months with a row that no
\* event refreshed, after an amendment, a correction, another establishment or
\* an edit of its calendar, or whose event was rejected.
THEOREM CoutEstFidele == CoutSpec => []CoutFidele
BY InvFilInit, InvFilNext, FideleAuRepos, PTL DEF CoutSpec

----------------------------------------------------------------------------
(* The quantities are right in every state: the contracts and the entries  *)
(* that the edits leave are well formed.                                   *)

Tenus ==
  /\ \A c \in CONTRATS : source[c] # Rien => DOMAIN source[c].versions # {}
  /\ \A c \in CONTRATS, m \in MOIS : saisies[<<c, m>>] = Rien \/ SaisieCorrecte(saisies[<<c, m>>])

LEMMA TenusInit == CoutInit => Tenus
BY DEF CoutInit, Tenus, Cellules

LEMMA TenusIntacts ==
  ASSUME Tenus, UNCHANGED <<source, saisies>>
  PROVE  Tenus'
BY DEF Tenus

LEMMA TenusCreation ==
  ASSUME InvFil, Tenus, NEW c \in CONTRATS, NEW forme \in FORMES, NEW champs \in CHAMPS,
         EditerContrat(c, forme, champs)
  PROVE  Tenus'
<1> DEFINE k == [mode |-> forme.mode, du |-> forme.du, au |-> forme.au, premiere |-> forme.premiere,
                 etab |-> forme.etab, versions |-> [d \in {forme.du} |-> champs]]
<1>1. source' = [source EXCEPT ![c] = k] /\ saisies' = saisies
  BY DEF EditerContrat
<1>2. DOMAIN k.versions # {}
  OBVIOUS
<1>3. DOMAIN source = CONTRATS
  BY DEF InvFil, TypesCout
<1> HIDE DEF k
<1>4. source'[c] = k /\ \A x \in CONTRATS : x # c => source'[x] = source[x]
  BY <1>1, <1>3
<1> QED BY <1>1, <1>2, <1>4 DEF Tenus

\* A contract that keeps a version.
LEMMA TenusRetouche ==
  ASSUME InvFil, Tenus, NEW c \in CONTRATS, NEW k, source' = [source EXCEPT ![c] = k],
         DOMAIN k.versions # {}, saisies' = saisies
  PROVE  Tenus'
<1>1. source'[c] = k /\ \A x \in CONTRATS : x # c => source'[x] = source[x]
  BY DEF InvFil, TypesCout
<1> QED BY <1>1 DEF Tenus

LEMMA TenusAvenant ==
  ASSUME InvFil, Tenus, NEW c \in CONTRATS, NEW d \in DATES, NEW champs \in CHAMPS, EditerAvenant(c, d, champs)
  PROVE  Tenus'
<1> DEFINE v == [e \in DOMAIN source[c].versions \cup {d} |->
                   IF e = d THEN champs ELSE source[c].versions[e]]
           k == [source[c] EXCEPT !.versions = v]
<1>1. source[c] # Rien /\ source' = [source EXCEPT ![c] = k] /\ saisies' = saisies
  BY DEF EditerAvenant
<1>2. source[c] \in LignesContrat
  BY <1>1 DEF InvFil, TypesCout
<1>3. DOMAIN v # {}
  OBVIOUS
<1> HIDE DEF v
<1>4. k.versions = v
  BY <1>2 DEF LignesContrat
<1> HIDE DEF k
<1> QED BY <1>1, <1>3, <1>4, TenusRetouche

LEMMA TenusCorrection ==
  ASSUME InvFil, Tenus, NEW c \in CONTRATS, NEW d, NEW champs \in CHAMPS, EditerCorrection(c, d, champs)
  PROVE  Tenus'
<1> DEFINE v == [source[c].versions EXCEPT ![d] = champs]
           k == [source[c] EXCEPT !.versions = v]
<1>1. source[c] # Rien /\ source' = [source EXCEPT ![c] = k] /\ saisies' = saisies
  BY DEF EditerCorrection
<1>2. source[c] \in LignesContrat
  BY <1>1 DEF InvFil, TypesCout
<1>3. DOMAIN v # {}
  BY <1>1 DEF Tenus
<1> HIDE DEF v
<1>4. k.versions = v
  BY <1>2 DEF LignesContrat
<1> HIDE DEF k
<1> QED BY <1>1, <1>3, <1>4, TenusRetouche

LEMMA TenusVersionCourante ==
  ASSUME InvFil, Tenus, NEW c \in CONTRATS, NEW reprise \in REPRISES, NEW champs \in CHAMPS,
         EditerVersionCourante(c, reprise, champs)
  PROVE  Tenus'
<1> DEFINE k == Repris(source[c], reprise, champs)
<1>1. source[c] # Rien /\ source' = [source EXCEPT ![c] = k] /\ saisies' = saisies
  BY DEF EditerVersionCourante
<1>2. source[c] \in LignesContrat
  BY <1>1 DEF InvFil, TypesCout
<1>3. DOMAIN k.versions = DOMAIN source[c].versions
  BY <1>2, ReprisCorrect
<1>4. DOMAIN source[c].versions # {}
  BY <1>1 DEF Tenus
<1> HIDE DEF k
<1> QED BY <1>1, <1>3, <1>4, TenusRetouche

LEMMA TenusEtablissement ==
  ASSUME InvFil, Tenus, NEW c \in CONTRATS, NEW e \in ETABLISSEMENTS, EditerEtablissement(c, e)
  PROVE  Tenus'
<1> DEFINE k == [source[c] EXCEPT !.etab = e]
<1>1. source[c] # Rien /\ source' = [source EXCEPT ![c] = k] /\ saisies' = saisies
  BY DEF EditerEtablissement
<1>2. source[c] \in LignesContrat
  BY <1>1 DEF InvFil, TypesCout
<1>3. k.versions = source[c].versions
  BY <1>2 DEF LignesContrat
<1>4. DOMAIN source[c].versions # {}
  BY <1>1 DEF Tenus
<1> HIDE DEF k
<1> QED BY <1>1, <1>3, <1>4, TenusRetouche

LEMMA TenusSaisie ==
  ASSUME InvFil, Tenus, NEW c \in CONTRATS, NEW m \in MOIS, NEW saisie \in SAISIES[m], EditerPlanning(c, m, saisie)
  PROVE  Tenus'
<1>1. source' = source /\ saisies' = [saisies EXCEPT ![<<c, m>>] = saisie]
  BY DEF EditerPlanning
<1>2. SaisieCorrecte(saisie)
  BY ConstantesCout
<1>3. DOMAIN saisies = Cellules
  BY DEF InvFil, TypesCout
<1>4. \A x \in CONTRATS, h \in MOIS :
        saisies'[<<x, h>>] = saisie \/ saisies'[<<x, h>>] = saisies[<<x, h>>]
  BY <1>1, <1>3 DEF Cellules
<1> QED BY <1>1, <1>2, <1>4 DEF Tenus

LEMMA TenusSuppression ==
  ASSUME InvFil, Tenus, NEW c \in CONTRATS, EditerSuppression(c)
  PROVE  Tenus'
<1>1. /\ source' = [source EXCEPT ![c] = Rien]
      /\ saisies' = [x \in Cellules |-> IF x[1] = c THEN Rien ELSE saisies[x]]
  BY DEF EditerSuppression
<1>2. DOMAIN source = CONTRATS
  BY DEF InvFil, TypesCout
<1>3. \A x \in CONTRATS : source'[x] = Rien \/ source'[x] = source[x]
  BY <1>1, <1>2
<1>4. \A x \in CONTRATS, h \in MOIS :
        saisies'[<<x, h>>] = Rien \/ saisies'[<<x, h>>] = saisies[<<x, h>>]
  BY <1>1 DEF Cellules
<1> QED BY <1>3, <1>4 DEF Tenus

LEMMA TenusNext == InvFil /\ Tenus /\ [CoutNext]_coutVars => Tenus'
<1> SUFFICES ASSUME InvFil, Tenus, [CoutNext]_coutVars PROVE Tenus'
  OBVIOUS
<1>1. CASE Editions
  <2>1. ASSUME NEW f, AppliquerFoyer(f) PROVE Tenus'
    BY <2>1, TenusIntacts DEF AppliquerFoyer, planif
  <2>2. ASSUME NEW e \in ETABLISSEMENTS, ModifierCalendrier(e) PROVE Tenus'
    BY <2>2, TenusIntacts DEF ModifierCalendrier
  <2> QED BY <1>1, <2>1, <2>2, TenusCreation, TenusAvenant, TenusCorrection, TenusVersionCourante,
         TenusEtablissement, TenusSaisie, TenusSuppression DEF Editions
<1>2. CASE Projection
  <2>1. UNCHANGED <<source, saisies>>
    BY <1>2 DEF Projection, AppliquerContratCree, AppliquerContratModifie, DemanderQuantites,
         InscrireQuantites, RejeterPlanning, AppliquerContratSupprime, planif
  <2> QED BY <2>1, TenusIntacts
<1>3. CASE UNCHANGED <<planif, tarif, perimes>>
  BY <1>3, TenusIntacts DEF planif
<1>4. UNCHANGED coutVars => UNCHANGED <<planif, tarif, perimes>>
  BY DEF coutVars
<1> QED BY <1>1, <1>2, <1>3, <1>4 DEF CoutNext

\* A contract of the table is well formed, under any mode.
LEMMA ContratsCorrects ==
  ASSUME InvFil, Tenus, NEW c \in CONTRATS, source[c] # Rien, NEW mode \in Modes
  PROVE  ContratCorrect([source[c] EXCEPT !.mode = mode])
<1> DEFINE k == source[c]
           fiche == [k EXCEPT !.mode = mode]
<1>1. k \in LignesContrat /\ IsFiniteSet(DOMAIN k.versions) /\ DOMAIN k.versions # {}
  BY DEF InvFil, TypesCout, Tenus
<1> HIDE DEF k
<1>2. fiche.mode = mode /\ fiche.du = k.du /\ fiche.au = k.au /\ fiche.versions = k.versions
  BY <1>1 DEF LignesContrat
<1>3. /\ DatesEffet \in SUBSET Int /\ Debuts \in SUBSET Int
      /\ \A x \in FORMES \cup REPRISES : x.au \in Int \cup {Rien}
  BY ConstantesCout DEF DatesEffet, Debuts, Formes, Reprises
<1>4. PICK S \in SUBSET DatesEffet : k.versions \in [S -> CHAMPS]
  BY <1>1 DEF LignesContrat
<1>5. k.du \in Int /\ k.au \in Int \cup {Rien}
  BY <1>1, <1>3 DEF LignesContrat
<1>6. \A d \in DOMAIN k.versions : VersionCorrecte(k.versions[d])
  BY <1>4, ConstantesCout
<1> HIDE DEF fiche
<1>7. ContratCorrect(fiche)
  BY <1>1, <1>2, <1>3, <1>4, <1>5, <1>6 DEF ContratCorrect
<1> QED BY <1>7 DEF fiche, k

LEMMA SaisieDuMois ==
  ASSUME Tenus, NEW c \in CONTRATS, NEW m \in MOIS
  PROVE  SaisieCorrecte(SaisieDe(c, m))
<1>1. SaisieCorrecte(SaisieVide)
  BY FS_EmptySet DEF SaisieVide, SaisieCorrecte
<1> QED BY <1>1 DEF Tenus, SaisieDe

LEMMA QuantitesJustes == InvFil /\ Tenus => JourParJour
<1> SUFFICES ASSUME InvFil, Tenus, NEW c \in CONTRATS, NEW m \in MOIS, NEW mode \in Modes, source[c] # Rien
             PROVE  LET fiche   == [source[c] EXCEPT !.mode = mode]
                        fermes  == JoursFermes(calendrier[fiche.etab], m, mode)
                    IN Conforme(Prestations(fiche, m, SaisieDe(c, m), fermes), fiche, m, SaisieDe(c, m), fermes)
  BY DEF JourParJour
<1> DEFINE fiche   == [source[c] EXCEPT !.mode = mode]
           fermes  == JoursFermes(calendrier[fiche.etab], m, mode)
           saisie  == SaisieDe(c, m)
<1>1. ContratCorrect(fiche) /\ SaisieCorrecte(saisie) /\ m \in Int
  BY ContratsCorrects, SaisieDuMois, ConstantesCout
<1> HIDE DEF fiche, fermes, saisie
<1>2. Conforme(Prestations(fiche, m, saisie, fermes), fiche, m, saisie, fermes)
  BY <1>1, MoisJourParJour
<1> QED BY <1>2 DEF fiche, fermes, saisie

\* Whatever the amendments, the corrections (those that move the first day of
\* the contract too), the entries, the establishment and its calendar, the
\* quantities that svc-planification tells for a month are those of the
\* day-by-day reference (prestationsMois, generation-prestations.ts).
THEOREM JourParJourTenu == CoutSpec => []JourParJour
BY InvFilInit, InvFilNext, TenusInit, TenusNext, QuantitesJustes, PTL DEF CoutSpec
=============================================================================
