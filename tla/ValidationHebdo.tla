--------------------------- MODULE ValidationHebdo ---------------------------
(***************************************************************************)
(* The weekly validation of svc-notifications for one household and one    *)
(* week (validation/validation.service.ts): a tick freezes the planning of *)
(* each contract (notifier), a parent validates it (valider), which emits  *)
(* SemaineValidee with what changed in between.  The planning belongs to   *)
(* svc-planification and is read over HTTP, with a degraded answer.        *)
(*                                                                         *)
(* A week is taken within one month: relire makes one call.                *)
(***************************************************************************)
EXTENDS Naturals, Sequences

CONSTANTS
  Contrats,   \* contracts of the household
  Saisies,    \* contents of the week of a contract
  Taches,     \* ticks and validations that may be in progress at once
  Aucun,      \* stands for "no row", "no value"
  MAX_MODIFS  \* bound: changes of the planning

ASSUME ConstantesValidation ==
  /\ Aucun \notin Contrats \cup Saisies
  /\ MAX_MODIFS \in Nat

VARIABLES
  planning, \* what svc-planification answers
  modifs,   \* changes so far
  contrats, \* table contrat of svc-notifications: the contracts it knows
  notif,    \* table notification_hebdo: [statut, snapshot, delta] or Aucun
  evts,     \* the SemaineValidee of each contract, in the order of the outbox
  tache     \* local state of each tick or validation

validationVars == <<planning, modifs, contrats, notif, evts, tache>>

Deltas   == [avant : Saisies, apres : Saisies]
Verdicts == [statut : {"VALIDEE", "VALIDEE_AVEC_MODIFS"}, delta : Deltas \cup {Aucun}]
Lignes   == [statut : {"A_VALIDER", "VALIDEE", "VALIDEE_AVEC_MODIFS"},
             snapshot : Saisies, delta : Deltas \cup {Aucun}]
Locaux   == [pc : {"repos", "inserer", "calculer", "transiter"},
             k : Contrats \cup {Aucun}, lu : Saisies \cup {Aucun}, verdict : Verdicts \cup {Aucun}]

ASSUME AucunHorsLignes == Aucun \notin Lignes

ValidationTypeOK ==
  /\ planning \in [Contrats -> Saisies]
  /\ modifs \in 0 .. MAX_MODIFS
  /\ contrats \subseteq Contrats
  /\ notif \in [Contrats -> Lignes \cup {Aucun}]
  /\ evts \in [Contrats -> Seq(Verdicts)]
  /\ tache \in [Taches -> Locaux]

Libre == [pc |-> "repos", k |-> Aucun, lu |-> Aucun, verdict |-> Aucun]

ValidationInit ==
  /\ planning \in [Contrats -> Saisies]
  /\ modifs = 0
  /\ contrats = Contrats
  /\ notif = [k \in Contrats |-> Aucun]
  /\ evts = [k \in Contrats |-> <<>>]
  /\ tache = [t \in Taches |-> Libre]

----------------------------------------------------------------------------
\* The parents change the planning, in svc-planification.
ModifierPlanning(k) ==
  /\ modifs < MAX_MODIFS
  /\ modifs' = modifs + 1
  /\ \E s \in Saisies \ {planning[k]} : planning' = [planning EXCEPT ![k] = s]
  /\ UNCHANGED <<contrats, notif, evts, tache>>

\* notifier reads the week; a degraded answer leaves it to the next tick.
LireSemaine(t, k) ==
  /\ tache[t].pc = "repos"
  /\ k \in contrats
  /\ tache' = [tache EXCEPT ![t] = [Libre EXCEPT !.pc = "inserer", !.k = k, !.lu = planning[k]]]
  /\ UNCHANGED <<planning, modifs, contrats, notif, evts>>

\* INSERT ... ON CONFLICT DO NOTHING.
Inserer(t) ==
  LET k == tache[t].k IN
  /\ tache[t].pc = "inserer"
  /\ tache' = [tache EXCEPT ![t] = Libre]
  /\ notif' = IF notif[k] # Aucun THEN notif
              ELSE [notif EXCEPT ![k] = [statut |-> "A_VALIDER", snapshot |-> tache[t].lu,
                                         delta |-> Aucun]]
  /\ UNCHANGED <<planning, modifs, contrats, evts>>

AValider(k) == notif[k] # Aucun /\ notif[k].statut = "A_VALIDER"

\* valider reads the line; any other status is answered as it is.
LireLigne(t, k) ==
  /\ tache[t].pc = "repos"
  /\ AValider(k)
  /\ tache' = [tache EXCEPT ![t] = [Libre EXCEPT !.pc = "calculer", !.k = k, !.lu = notif[k].snapshot]]
  /\ UNCHANGED <<planning, modifs, contrats, notif, evts>>

\* calculer, calculerDelta: lue is the week as read again, or the snapshot
\* when the answer is degraded.
Verdict(snapshot, lue) ==
  IF lue = snapshot THEN [statut |-> "VALIDEE", delta |-> Aucun]
  ELSE [statut |-> "VALIDEE_AVEC_MODIFS", delta |-> [avant |-> snapshot, apres |-> lue]]

\* Mutant: a degraded answer is taken for an empty week.
CalculerSansRepli(t) ==
  /\ tache[t].pc = "calculer"
  /\ \E lue \in {planning[tache[t].k], Aucun} :
       tache' = [tache EXCEPT ![t].pc = "transiter", ![t].verdict = Verdict(tache[t].lu, lue)]
  /\ UNCHANGED <<planning, modifs, contrats, notif, evts>>

\* The week is read again, or the snapshot stands for it.
Calculer(t) ==
  /\ tache[t].pc = "calculer"
  /\ \E lue \in {planning[tache[t].k], tache[t].lu} :
       tache' = [tache EXCEPT ![t].pc = "transiter", ![t].verdict = Verdict(tache[t].lu, lue)]
  /\ UNCHANGED <<planning, modifs, contrats, notif, evts>>

\* Mutant: the UPDATE does not ask for A_VALIDER.
GagnerToujours(k) == notif[k] # Aucun

\* The compare-and-set of the UPDATE.
Gagner(k) == AValider(k)

\* The transition and its event, or the course is lost and the line is read.
Transiter(t) ==
  LET k == tache[t].k
      v == tache[t].verdict
  IN /\ tache[t].pc = "transiter"
     /\ tache' = [tache EXCEPT ![t] = Libre]
     /\ IF Gagner(k)
        THEN /\ notif' = [notif EXCEPT ![k].statut = v.statut, ![k].delta = v.delta]
             /\ evts' = [evts EXCEPT ![k] = Append(@, v)]
        ELSE UNCHANGED <<notif, evts>>
     /\ UNCHANGED <<planning, modifs, contrats>>

Tache(t) == Inserer(t) \/ Calculer(t) \/ Transiter(t)

ValidationNext ==
  \/ \E k \in Contrats : ModifierPlanning(k)
  \/ \E t \in Taches, k \in Contrats : LireSemaine(t, k) \/ LireLigne(t, k)
  \/ \E t \in Taches : Tache(t)

ValidationSpec == ValidationInit /\ [][ValidationNext]_validationVars

----------------------------------------------------------------------------
\* A week that awaits its validation has published nothing; a validated one
\* has published exactly one event, the verdict that its line still shows,
\* whatever validations race (valider).
VerdictUnique ==
  \A k \in Contrats : notif[k] # Aucun =>
    evts[k] = IF notif[k].statut = "A_VALIDER" THEN <<>>
              ELSE <<[statut |-> notif[k].statut, delta |-> notif[k].delta]>>
=============================================================================
