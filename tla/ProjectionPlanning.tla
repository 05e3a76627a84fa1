------------------------- MODULE ProjectionPlanning -------------------------
(***************************************************************************)
(* What svc-tarification keeps of the contract and of the month of         *)
(* PlanningContrat: the identity of the contract and the quantities that   *)
(* the costs are computed from (svc-tarification,                          *)
(* consumers/projection.service.ts).                                       *)
(*                                                                         *)
(* The loop of the stream PLANIFICATION handles one message at a time, in  *)
(* any order because of redeliveries; PlanningModifie reads the contract,  *)
(* asks svc-planification for the quantities, then writes.  The loop of    *)
(* the stream FOYER may erase the household in between.                    *)
(***************************************************************************)
EXTENDS PlanningContrat

Quantites == [version : Contenus, mois : Mois \cup {Aucun}]
Identites == [le : Contenus, prenom : Prenoms]
Lignes    == [le : Contenus, prenom : Prenoms, quantites : Quantites]
Lectures  == [evt : Evenements, prenom : Prenoms, quantites : Quantites \cup {Aucun}]

ASSUME ConstantesProjection == Aucun \notin Quantites \cup Identites \cup Lignes \cup Lectures

VARIABLES
  tContrat,  \* table contrat of svc-tarification: [le, prenom] or Aucun
  tMois,     \* table prestation_mois: [le, prenom, quantites] or Aucun
  tFaits,    \* table processed_event of svc-tarification
  tEfface,   \* FoyerSupprime was applied
  lecture,   \* the PlanningModifie in hand: [evt, prenom, quantites] or Aucun
  desordre,  \* history: an event of the contract applied after a younger one
  tardif     \* history: the source had more to say when the household was
             \* erased here

copie == <<tContrat, tMois, tFaits, tEfface, lecture, desordre, tardif>>
vars  == <<planningVars, copie>>

TypeOK ==
  /\ PlanningTypeOK
  /\ tContrat \in Identites \cup {Aucun}
  /\ tMois \in Lignes \cup {Aucun}
  /\ tFaits \subseteq outbox
  /\ lecture \in Lectures \cup {Aucun}
  /\ lecture # Aucun => lecture.evt \in outbox
  /\ tEfface \in BOOLEAN /\ desordre \in BOOLEAN /\ tardif \in BOOLEAN

Init ==
  /\ PlanningInit
  /\ tContrat = Aucun /\ tMois = Aucun
  /\ tFaits = {} /\ tEfface = FALSE /\ lecture = Aucun
  /\ desordre = FALSE /\ tardif = FALSE

----------------------------------------------------------------------------
(* The stream PLANIFICATION.                                               *)

\* marquerTraite: e was not applied yet, and no other message is in hand.
Traiter(e) ==
  /\ e \in outbox \ tFaits
  /\ tFaits' = tFaits \cup {e}

\* The row is absent or not younger than the event.
Recent(ligne, le) == ligne = Aucun \/ ligne.le <= le

\* A younger event of the contract was applied before e.
Depasse(e) == \E f \in tFaits : f.type # "planning" /\ f.le > e.le

IdentiteDe(e) == IF Recent(tContrat, e.le) THEN [le |-> e.le, prenom |-> e.prenom] ELSE tContrat

\* appliquerContratCree.
ContratCree(e) ==
  /\ lecture = Aucun
  /\ e.type = "cree"
  /\ Traiter(e)
  /\ tContrat' = IdentiteDe(e)
  /\ desordre' = (desordre \/ Depasse(e))
  /\ UNCHANGED <<planningVars, tMois, tEfface, lecture, tardif>>

\* Mutant: the months keep their identity until the next PlanningModifie.
SansRealigner(m, p) == m

\* The identity of the months that are already projected, without any guard.
Realigner(m, p) == IF m = Aucun THEN Aucun ELSE [m EXCEPT !.prenom = p]

\* appliquerContratModifie.
ContratModifie(e) ==
  /\ lecture = Aucun
  /\ e.type = "modifie"
  /\ Traiter(e)
  /\ tContrat' = IdentiteDe(e)
  /\ tMois' = Realigner(tMois, e.prenom)
  /\ desordre' = (desordre \/ Depasse(e))
  /\ UNCHANGED <<planningVars, tEfface, lecture, tardif>>

\* appliquerContratSupprime.
ContratSupprime(e) ==
  /\ lecture = Aucun
  /\ e.type = "supprime"
  /\ Traiter(e)
  /\ tContrat' = Aucun /\ tMois' = Aucun
  /\ desordre' = (desordre \/ Depasse(e))
  /\ UNCHANGED <<planningVars, tEfface, lecture, tardif>>

\* appliquerPlanningModifie reads the identity; an unknown contract is a NAK.
LireIdentite(e) ==
  /\ lecture = Aucun
  /\ e \in outbox \ tFaits /\ e.type = "planning"
  /\ tContrat # Aucun
  /\ lecture' = [evt |-> e, prenom |-> tContrat.prenom, quantites |-> Aucun]
  /\ UNCHANGED <<planningVars, tContrat, tMois, tFaits, tEfface, desordre, tardif>>

\* Mutant: a contract that svc-planification does not find has no quantities.
ReponseSansContrat == lecture.quantites = Aucun

\* svc-planification answers: 404 without the contract.
Reponse == lecture.quantites = Aucun /\ contrat # Aucun

\* prestationsMois, through HTTP: the versions and the planning of this moment.
DemanderPrestations ==
  /\ lecture # Aucun
  /\ Reponse
  /\ lecture' = [lecture EXCEPT !.quantites =
       [version |-> IF contrat = Aucun THEN Aucun ELSE contrat.version, mois |-> planning]]
  /\ UNCHANGED <<planningVars, tContrat, tMois, tFaits, tEfface, desordre, tardif>>

\* No answer, an error, a stop: the message comes back.
RendreMessage ==
  /\ lecture # Aucun
  /\ lecture' = Aucun
  /\ UNCHANGED <<planningVars, tContrat, tMois, tFaits, tEfface, desordre, tardif>>

\* The transaction of appliquerPlanningModifie writes what was read before it.
InscrirePrestations ==
  /\ lecture # Aucun /\ lecture.quantites # Aucun
  /\ Traiter(lecture.evt)
  /\ tMois' = IF Recent(tMois, lecture.evt.le)
              THEN [le |-> lecture.evt.le, prenom |-> lecture.prenom, quantites |-> lecture.quantites]
              ELSE tMois
  /\ lecture' = Aucun
  /\ UNCHANGED <<planningVars, tContrat, tEfface, desordre, tardif>>

----------------------------------------------------------------------------
(* The stream FOYER.                                                       *)

\* Mutant: prestation_mois is left out of the hand-written cascade.
MoisOublie(m) == m

\* The months of the household.
SansLeMois(m) == Aucun

\* Something is still to be applied here, or to be emitted.
Attendu ==
  \/ outbox # tFaits \/ lecture # Aucun
  \/ contrat # Aucun
  \/ \E a \in Acteurs : tx[a] # Repos

\* appliquerFoyerSupprime: table by table, in one transaction.
EffacerFoyer ==
  /\ Efface /\ ~tEfface
  /\ tEfface' = TRUE
  /\ tContrat' = Aucun /\ tMois' = SansLeMois(tMois)
  /\ tardif' = Attendu
  /\ UNCHANGED <<planningVars, tFaits, lecture, desordre>>

----------------------------------------------------------------------------
ProjeterContrat == \E e \in outbox : ContratCree(e) \/ ContratModifie(e) \/ ContratSupprime(e)

ProjeterPlanning ==
  \/ \E e \in outbox : LireIdentite(e)
  \/ DemanderPrestations
  \/ RendreMessage
  \/ InscrirePrestations

Source == PlanningNext /\ UNCHANGED copie

Next ==
  \/ Source
  \/ ProjeterContrat
  \/ ProjeterPlanning
  \/ EffacerFoyer

Spec == Init /\ [][Next]_vars

----------------------------------------------------------------------------
(* Properties.                                                             *)

\* Everything emitted was applied; the planning of a deleted contract, which
\* no projection can apply, ends in the dead letters.
Applique ==
  /\ lecture = Aucun
  /\ \A e \in outbox \ tFaits : e.type = "planning" /\ contrat = Aucun

\* The month here has the name of the contract and the quantities that
\* svc-planification computes, whatever the order and the failures of the
\* deliveries, but for the quantities of a contract amended since the planning
\* was saved (creerAvenant announces the amendment, not the months).
MoisFidele ==
  /\ contrat = Aucun => tMois = Aucun
  /\ planning # Aucun =>
       /\ tMois # Aucun
       /\ tMois.prenom = contrat.prenom
       /\ ~perime => tMois.quantites = [version |-> contrat.version, mois |-> planning]

\* The identity here is that of the contract.
IdentiteFidele ==
  IF contrat = Aucun THEN tContrat = Aucun
  ELSE tContrat # Aucun /\ tContrat.prenom = contrat.prenom

\* When everything was applied, svc-tarification has the contract and the
\* month of svc-planification, unless two transactions crossed or an event of
\* the contract was applied after a younger one.
ProjectionFidele == Applique /\ ~Efface /\ ~croise /\ ~desordre => IdentiteFidele /\ MoisFidele

\* Once FoyerSupprime was applied, nothing is left of the household: in
\* svc-planification unless a contract was created after the erasure was
\* emitted, in svc-tarification unless, moreover, the source had more to say
\* when it was applied or the quantities of the month were being read.
EffacementTenu ==
  /\ (\E e \in pFaits : e.type = "effacement") /\ ~orphelin => contrat = Aucun /\ planning = Aucun
  /\ tEfface /\ ~tardif /\ ~orphelin => tContrat = Aucun /\ tMois = Aucun
=============================================================================
