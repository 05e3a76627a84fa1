-------------------------- MODULE PlanningContrat --------------------------
(***************************************************************************)
(* One contract of svc-planification and its planning of one month: the    *)
(* requests (planification/planification.service.ts), the projection of    *)
(* the FOYER stream (consumers/projection.service.ts) and the events they  *)
(* leave in the outbox.                                                    *)
(*                                                                         *)
(* Every request is a transaction at READ COMMITTED that reads without     *)
(* locking: Commencer dates it and reads, Valider writes and commits.      *)
(***************************************************************************)
EXTENDS Naturals, FiniteSets

CONSTANTS
  Commandes,  \* requests that may be in progress at the same time
  Boucle,     \* the loop of svc-planification on the FOYER stream
  Semaines,   \* weeks of the month
  Prenoms,    \* first names that the child may be given
  Aucun,      \* stands for "no row"
  OPERATIONS, \* the requests of the run, a subset of Operations
  MAX_TX,     \* bound: transactions begun
  MAX_FOYER   \* bound: events of svc-foyer

Operations == {"creer", "avenant", "corriger", "rattacher", "supprimer", "mois", "semaine"}

Acteurs  == Commandes \cup {Boucle}
Contenus == 0 .. MAX_TX  \* the transaction that wrote it; 0 is an empty week
Contrats == [prenom : Prenoms, version : Contenus]
Mois     == [Semaines -> Contenus]

EvenementsFoyer ==
  [type : {"renomme"}, n : 1 .. MAX_FOYER, prenom : Prenoms] \cup [type : {"effacement"}]
Evenements ==
  [type : {"cree", "modifie"}, le : Contenus, prenom : Prenoms]
  \cup [type : {"supprime", "planning"}, le : Contenus]

\* Aucun is none of the values it stands beside.
ASSUME ConstantesPlanning ==
  /\ Boucle \notin Commandes
  /\ OPERATIONS \subseteq Operations
  /\ MAX_TX \in Nat /\ MAX_FOYER \in Nat
  /\ Aucun \notin Operations \cup {"renomme", "effacement"} \cup Semaines \cup Prenoms
  /\ Aucun \notin Contrats \cup Mois \cup EvenementsFoyer

VARIABLES
  foyer,    \* the events of svc-foyer on this child and household
  contrat,  \* table contrat: [prenom, version] or Aucun
  planning, \* table planning_mois: the content of each week, or Aucun
  outbox,   \* events of the committed transactions
  pFaits,   \* table processed_event of svc-planification
  tx,       \* the transaction of each request and of the loop
  debuts,   \* transactions begun so far
  dernier,  \* history: the last committed save of each week
  perdues,  \* history: weeks a save may have put back to what it had read
            \* before another transaction committed
  croise,   \* history: a transaction committed over another one that
            \* committed since it began
  perime,   \* history: the contract was amended, the planning not saved since
  orphelin  \* history: the contract was created after the erasure was emitted

histoire     == <<dernier, perdues, croise, perime, orphelin>>
tables       == <<contrat, planning, outbox, histoire>>
planningVars == <<foyer, tables, pFaits, tx, debuts>>

TxTypes ==
  [op : Operations \cup {"renomme", "effacement", Aucun}, debut : Contenus,
   prenom : Prenoms \cup {Aucun}, semaine : Semaines \cup {Aucun},
   mois : Mois \cup {Aucun},
   evt : EvenementsFoyer \cup {Aucun}, double : BOOLEAN]

PlanningTypeOK ==
  /\ foyer \subseteq EvenementsFoyer
  /\ contrat \in Contrats \cup {Aucun}
  /\ planning \in Mois \cup {Aucun}
  /\ outbox \subseteq Evenements
  /\ pFaits \subseteq foyer
  /\ tx \in [Acteurs -> TxTypes]
  /\ debuts \in Contenus
  /\ dernier \in Mois
  /\ perdues \subseteq Semaines
  /\ croise \in BOOLEAN /\ perime \in BOOLEAN /\ orphelin \in BOOLEAN

Repos == [op |-> Aucun, debut |-> 0, prenom |-> Aucun, semaine |-> Aucun,
          mois |-> Aucun, evt |-> Aucun, double |-> FALSE]
Vide  == [s \in Semaines |-> 0]
Efface == \E e \in foyer : e.type = "effacement"

PlanningInit ==
  /\ foyer = {}
  /\ contrat = Aucun /\ planning = Aucun
  /\ outbox = {} /\ pFaits = {}
  /\ tx = [a \in Acteurs |-> Repos]
  /\ debuts = 0
  /\ dernier = Vide /\ perdues = {}
  /\ croise = FALSE /\ perime = FALSE /\ orphelin = FALSE

----------------------------------------------------------------------------
(* svc-foyer, as far as svc-planification hears of it.                     *)

RenommerEnfant(p) ==
  /\ ~Efface
  /\ Cardinality(foyer) < MAX_FOYER
  /\ foyer' = foyer \cup {[type |-> "renomme", n |-> Cardinality(foyer) + 1, prenom |-> p]}
  /\ UNCHANGED <<tables, pFaits, tx, debuts>>

SupprimerFoyer ==
  /\ ~Efface
  /\ Cardinality(foyer) < MAX_FOYER
  /\ foyer' = foyer \cup {[type |-> "effacement"]}
  /\ UNCHANGED <<tables, pFaits, tx, debuts>>

----------------------------------------------------------------------------
(* Transactions.                                                           *)

Debuter(a, t) ==
  /\ tx[a] = Repos
  /\ debuts < MAX_TX
  /\ debuts' = debuts + 1
  /\ tx' = [tx EXCEPT ![a] = [t EXCEPT !.debut = debuts']]
  /\ UNCHANGED <<foyer, tables, pFaits>>

\* A request, its parameters and what it reads and uses after: the first name
\* that its event will carry, the month. Without a contract only creerContrat
\* goes on, and the id that it is given was never used by another contract.
Commencer(c) ==
  \E op \in OPERATIONS, p \in Prenoms \cup {Aucun}, s \in Semaines \cup {Aucun} :
    /\ p # Aucun <=> op \in {"creer", "corriger"}
    /\ s # Aucun <=> op = "semaine"
    /\ IF op = "creer" THEN ~\E e \in outbox : e.type = "supprime" ELSE contrat # Aucun
    /\ Debuter(c, [Repos EXCEPT !.op = op, !.semaine = s,
                                !.prenom = IF op \in {"avenant", "rattacher"} THEN contrat.prenom ELSE p,
                                !.mois = IF op = "semaine" THEN planning ELSE Aucun])

\* The loop takes an event of svc-foyer that it has not applied, in any order.
Recevoir(e) ==
  /\ e \in foyer \ pFaits
  /\ Debuter(Boucle, [Repos EXCEPT !.op = e.type, !.evt = e,
                                   !.prenom = IF e.type = "renomme" THEN e.prenom ELSE Aucun])

\* An error, a refusal or a stop: everything is rolled back.
Annuler(a) ==
  /\ tx[a] # Repos
  /\ tx' = [tx EXCEPT ![a] = Repos]
  /\ UNCHANGED <<foyer, tables, pFaits, debuts>>

\* The end of a transaction; the others in progress have been overtaken.
Terminer(a) ==
  tx' = [d \in Acteurs |-> IF d = a \/ tx[d] = Repos THEN Repos
                           ELSE [tx[d] EXCEPT !.double = TRUE]]

\* Events are dated by the BEGIN of their transaction (outbox.occurred_at).
EmettreEtat(a, type, p) == outbox' = outbox \cup {[type |-> type, le |-> tx[a].debut, prenom |-> p]}
EmettreNom(a, type)     == outbox' = outbox \cup {[type |-> type, le |-> tx[a].debut]}

\* A transaction that read before another one committed is about to commit.
Croiser(a) == croise' = (croise \/ tx[a].double)

----------------------------------------------------------------------------
(* The requests on the contract.                                           *)

\* creerContrat: the replay of a POST meets the primary key and does nothing.
CreerContrat(c) ==
  /\ tx[c].op = "creer"
  /\ IF contrat = Aucun
     THEN /\ contrat' = [prenom |-> tx[c].prenom, version |-> tx[c].debut]
          /\ EmettreEtat(c, "cree", tx[c].prenom)
          /\ Croiser(c)
          /\ orphelin' = (orphelin \/ Efface)
     ELSE UNCHANGED <<contrat, outbox, croise, orphelin>>
  /\ Terminer(c)
  /\ UNCHANGED <<foyer, planning, pFaits, debuts, dernier, perdues, perime>>

\* creerAvenant, corrigerVersion: the new parameters are written, the event
\* carries the row as it was read, and no PlanningModifie goes with it.
CreerAvenant(c) ==
  /\ tx[c].op = "avenant"
  /\ contrat # Aucun
  /\ contrat' = [contrat EXCEPT !.version = tx[c].debut]
  /\ EmettreEtat(c, "modifie", tx[c].prenom)
  /\ Croiser(c)
  /\ perime' = TRUE
  /\ Terminer(c)
  /\ UNCHANGED <<foyer, planning, pFaits, debuts, dernier, perdues, orphelin>>

\* corrigerVersionCourante: the first name too; the row is read again after
\* its own UPDATE.
CorrigerVersionCourante(c) ==
  /\ tx[c].op = "corriger"
  /\ contrat # Aucun
  /\ contrat' = [prenom |-> tx[c].prenom, version |-> tx[c].debut]
  /\ EmettreEtat(c, "modifie", tx[c].prenom)
  /\ Croiser(c)
  /\ perime' = TRUE
  /\ Terminer(c)
  /\ UNCHANGED <<foyer, planning, pFaits, debuts, dernier, perdues, orphelin>>

\* rattacherEtablissement, rattacherEnfant: a link that this model leaves out;
\* the event carries the row as it was read, were it deleted meanwhile.
Rattacher(c) ==
  /\ tx[c].op = "rattacher"
  /\ EmettreEtat(c, "modifie", tx[c].prenom)
  /\ Croiser(c)
  /\ Terminer(c)
  /\ UNCHANGED <<foyer, contrat, planning, pFaits, debuts, dernier, perdues, perime, orphelin>>

SupprimerContrat(c) ==
  /\ tx[c].op = "supprimer"
  /\ contrat' = Aucun /\ planning' = Aucun
  /\ dernier' = Vide
  /\ EmettreNom(c, "supprime")
  /\ Croiser(c)
  /\ Terminer(c)
  /\ UNCHANGED <<foyer, pFaits, debuts, perdues, perime, orphelin>>

----------------------------------------------------------------------------
(* The planning of the month.                                              *)

\* upsertPlanningMois; the foreign key refuses it once the contract is gone.
UpsertPlanningMois(c, mois) ==
  /\ contrat # Aucun
  /\ planning' = mois
  /\ EmettreNom(c, "planning")
  /\ Croiser(c)
  /\ perime' = FALSE
  /\ Terminer(c)
  /\ UNCHANGED <<foyer, contrat, pFaits, debuts, orphelin>>

\* ecrirePlanning replaces the month.
EcrirePlanning(c) ==
  /\ tx[c].op = "mois"
  /\ UpsertPlanningMois(c, [s \in Semaines |-> tx[c].debut])
  /\ dernier' = [s \in Semaines |-> tx[c].debut]
  /\ UNCHANGED perdues

\* Mutant: the month is written with nothing but the week.
SemaineSeule(mois, s, contenu) == [Vide EXCEPT ![s] = contenu]

\* fusionnerSemaineDansMois: the other weeks of the month that was read.
FusionnerSemaine(mois, s, contenu) ==
  [(IF mois = Aucun THEN Vide ELSE mois) EXCEPT ![s] = contenu]

\* ecrireSemaine: the month read at the start, without a lock, is merged.
EcrireSemaine(c) ==
  LET s == tx[c].semaine IN
  /\ tx[c].op = "semaine"
  /\ UpsertPlanningMois(c, FusionnerSemaine(tx[c].mois, s, tx[c].debut))
  /\ dernier' = [dernier EXCEPT ![s] = tx[c].debut]
  /\ perdues' = IF tx[c].double THEN perdues \cup (Semaines \ {s}) ELSE perdues

----------------------------------------------------------------------------
(* The FOYER stream, one message at a time, each applied once.             *)

MarquerTraite == pFaits' = pFaits \cup {tx[Boucle].evt}

\* appliquerEnfantModifie: an unguarded UPDATE that tells svc-tarification the
\* row it wrote, if it had another name.
EnfantModifie ==
  LET t == tx[Boucle] IN
  /\ t.op = "renomme"
  /\ MarquerTraite
  /\ IF contrat # Aucun /\ contrat.prenom # t.prenom
     THEN /\ contrat' = [contrat EXCEPT !.prenom = t.prenom]
          /\ EmettreEtat(Boucle, "modifie", t.prenom)
          /\ Croiser(Boucle)
     ELSE UNCHANGED <<contrat, outbox, croise>>
  /\ Terminer(Boucle)
  /\ UNCHANGED <<foyer, planning, debuts, dernier, perdues, perime, orphelin>>

\* appliquerFoyerSupprime: the planning goes with the contract (ON DELETE
\* cascade), and nothing is emitted.
FoyerSupprime ==
  /\ tx[Boucle].op = "effacement"
  /\ MarquerTraite
  /\ contrat' = Aucun /\ planning' = Aucun
  /\ dernier' = Vide
  /\ Terminer(Boucle)
  /\ UNCHANGED <<foyer, outbox, debuts, perdues, croise, perime, orphelin>>

----------------------------------------------------------------------------
Emission ==
  \/ \E p \in Prenoms : RenommerEnfant(p)
  \/ SupprimerFoyer

Requete(c) ==
  \/ Commencer(c) \/ Annuler(c)
  \/ CreerContrat(c) \/ CreerAvenant(c) \/ CorrigerVersionCourante(c)
  \/ Rattacher(c) \/ SupprimerContrat(c)
  \/ EcrirePlanning(c) \/ EcrireSemaine(c)

Ecoute ==
  \/ \E e \in foyer : Recevoir(e)
  \/ Annuler(Boucle)
  \/ EnfantModifie
  \/ FoyerSupprime

PlanningNext ==
  \/ Emission
  \/ \E c \in Commandes : Requete(c)
  \/ Ecoute

----------------------------------------------------------------------------
(* Properties of the planning.                                             *)

\* A week keeps its last committed save, whatever was saved of the other weeks
\* of the month since, unless one of these saves overlapped another
\* transaction (ecrireSemaine, which reads the month without locking it).
SemainesGardees ==
  planning # Aucun => \A s \in Semaines \ perdues : planning[s] = dernier[s]
=============================================================================
