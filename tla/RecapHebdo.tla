----------------------------- MODULE RecapHebdo -----------------------------
(***************************************************************************)
(* The Tuesday reminder of svc-notifications: the ticks of SchedulerHebdo  *)
(* over the slots of one target week (envoi_recap_hebdo, one per           *)
(* household) and the ledger of deliveries (envoi_recap_parent, one line   *)
(* per parent).  A tick reads a slot, mails its parents one by one, writes *)
(* each outcome, and settles the slot; every await is a step, and between  *)
(* two of them the process may stop, the database or the mail server may   *)
(* fail, a projection may change the recipients, and the clock moves on.   *)
(***************************************************************************)
EXTENDS Naturals, FiniteSets

CONSTANTS
  Repliques,          \* running instances of svc-notifications
  Foyers,             \* households
  Parents,            \* parents; each belongs to one household
  ParentsDe,          \* [Foyers -> SUBSET Parents]
  HorsListe,          \* parents whose mail is neutralised (dry run)
  Aucun,              \* stands for "no household (or parent) in hand"
  Pannes,             \* see PannesRecap
  MAX_ESSAIS_PARENT,  \* attempts per parent
  COMPTE_MAX          \* bound: where the history counters saturate

\* "base": a query fails, or a write commits and its reply is lost.  "smtp": the mailer throws, nothing is delivered.
\* "smtpMuet": the mailer throws although the mail was delivered.
\* "arret": an instance stops.  "contrat", "abonnement": the projections
\* change while the scheduler runs.
PannesRecap == {"base", "smtp", "smtpMuet", "arret", "contrat", "abonnement"}

ASSUME ConstantesRecap ==
  /\ ParentsDe \in [Foyers -> SUBSET Parents]
  /\ \A f, g \in Foyers : f # g => ParentsDe[f] \cap ParentsDe[g] = {}
  /\ HorsListe \subseteq Parents
  /\ Pannes \subseteq PannesRecap
  /\ MAX_ESSAIS_PARENT \in Nat \ {0}
  /\ COMPTE_MAX \in Nat \ {0}

VARIABLES
  moment,     \* "creation": Tuesday after the hour; "fenetre": until Sunday;
              \* "close": the target week has begun
  contrats,   \* projected: households with a contract active in the week
  abonnes,    \* projected: active parents with the e-mail preference on
  slot,       \* envoi_recap_hebdo.statut
  livraison,  \* envoi_recap_parent: statut and essais of each parent
  cartes,     \* notification: parents with an in-app card for the week
  mails,      \* mails each parent received (history)
  signaux,    \* "abandoned" alerts emitted for each household (history)
  fideles,    \* parents whose subscription and contract were never
              \* interrupted so far (history)
  etape,      \* per instance: where declencher is
  instant,    \* per instance: the clock read when the tick began
  reste,      \* per instance: slots of the phase still to handle
  vusActifs,  \* per instance: contratsActifs as read by traiterEnvois
  foyer,      \* per instance: household in hand
  aServir,    \* per instance: recipients still to handle
  vue,        \* per instance: the ledger as read for this slot
  cible,      \* per instance: recipient in hand
  echec,      \* per instance: echecCePassage
  reel,       \* per instance: auMoinsUnReel
  muet        \* per instance: the slot in hand was settled by an UPDATE of
              \* which the reply was lost (history)

projVars  == <<contrats, abonnes>>
baseVars  == <<slot, livraison, cartes>>
histVars  == <<mails, signaux, fideles>>
localVars == <<instant, reste, vusActifs, foyer, aServir, vue, cible, echec, reel, muet>>
vars      == <<moment, projVars, baseVars, histVars, etape, localVars>>

Aboutis    == {"ENVOYE", "DRY_RUN"}
NonTermines == {"A_ENVOYER", "ECHEC"}
Terminaux  == Aboutis \cup {"ABANDONNE"}
Slots      == NonTermines \cup Terminaux \cup {"absent"}
Livraisons == [statut : {"absent", "ECHEC"} \cup Aboutis, essais : Nat]
Moments    == {"creation", "fenetre", "close"}
Etapes == {"repos", "balayage", "abandon", "contrats", "reservation", "lecture",
           "actifs", "slot", "vide", "destinataires", "registre", "repli", "parent", "journal",
           "journalEchec", "inapp", "abouti", "echecSlot"}

TypeOK ==
  /\ moment \in Moments
  /\ contrats \subseteq Foyers
  /\ abonnes \subseteq Parents
  /\ slot \in [Foyers -> Slots]
  /\ livraison \in [Parents -> Livraisons]
  /\ cartes \subseteq Parents
  /\ mails \in [Parents -> 0 .. COMPTE_MAX]
  /\ signaux \in [Foyers -> 0 .. COMPTE_MAX]
  /\ fideles \subseteq Parents
  /\ etape \in [Repliques -> Etapes]
  /\ instant \in [Repliques -> Moments]
  /\ reste \in [Repliques -> SUBSET Foyers]
  /\ vusActifs \in [Repliques -> SUBSET Foyers]
  /\ foyer \in [Repliques -> Foyers \cup {Aucun}]
  /\ aServir \in [Repliques -> SUBSET Parents]
  /\ vue \in [Repliques -> [Parents -> Livraisons]]
  /\ cible \in [Repliques -> Parents \cup {Aucun}]
  /\ echec \in [Repliques -> BOOLEAN]
  /\ reel \in [Repliques -> BOOLEAN]
  /\ muet \in [Repliques -> BOOLEAN]

\* A parent needs nothing more: delivered, or given up after the last attempt.
Livre(l) == l.statut \in Aboutis
Plafonne(l) == l.essais >= MAX_ESSAIS_PARENT

\* Mutant: the recipients already delivered are not skipped.
SoldeSansLivre(l) == Plafonne(l)

Solde(l) == Livre(l) \/ Plafonne(l)

\* Mutant: a neutralised mail is recorded as sent.
IssueOptimiste(dryRun) == "ENVOYE"

Issue(dryRun) == IF dryRun THEN "DRY_RUN" ELSE "ENVOYE"

RegistreVide == [p \in Parents |-> [statut |-> "absent", essais |-> 0]]

Compter(n) == IF n < COMPTE_MAX THEN n + 1 ELSE n

Init ==
  /\ moment = "creation"
  /\ contrats = Foyers
  /\ abonnes = Parents
  /\ slot = [f \in Foyers |-> "absent"]
  /\ livraison = RegistreVide
  /\ cartes = {}
  /\ mails = [p \in Parents |-> 0]
  /\ signaux = [f \in Foyers |-> 0]
  /\ fideles = Parents
  /\ etape = [r \in Repliques |-> "repos"]
  /\ instant = [r \in Repliques |-> "creation"]
  /\ reste = [r \in Repliques |-> {}]
  /\ vusActifs = [r \in Repliques |-> {}]
  /\ foyer = [r \in Repliques |-> Aucun]
  /\ aServir = [r \in Repliques |-> {}]
  /\ vue = [r \in Repliques |-> RegistreVide]
  /\ cible = [r \in Repliques |-> Aucun]
  /\ echec = [r \in Repliques |-> FALSE]
  /\ reel = [r \in Repliques |-> FALSE]
  /\ muet = [r \in Repliques |-> FALSE]

----------------------------------------------------------------------------
(* The environment: the clock, and the projections the scheduler reads.    *)

AvancerHorloge ==
  /\ moment # "close"
  /\ moment' = IF moment = "creation" THEN "fenetre" ELSE "close"
  /\ UNCHANGED <<projVars, baseVars, histVars, etape, localVars>>

\* A contract of the household ends, or one begins.
ChangerContrat(f) ==
  /\ "contrat" \in Pannes
  /\ contrats' = IF f \in contrats THEN contrats \ {f} ELSE contrats \cup {f}
  /\ fideles' = fideles \ ParentsDe[f]
  /\ UNCHANGED <<moment, abonnes, baseVars, mails, signaux, etape, localVars>>

\* A parent leaves or opts out, or a parent joins or opts in.
ChangerAbonnement(p) ==
  /\ "abonnement" \in Pannes
  /\ abonnes' = IF p \in abonnes THEN abonnes \ {p} ELSE abonnes \cup {p}
  /\ fideles' = fideles \ {p}
  /\ UNCHANGED <<moment, contrats, baseVars, mails, signaux, etape, localVars>>

----------------------------------------------------------------------------
(* A tick of instance r.                                                   *)

Aller(r, e) == etape' = [etape EXCEPT ![r] = e]

\* The locals of envoyerRecapFoyer disappear when it returns or throws.
OublierSlot(r) ==
  /\ foyer' = [foyer EXCEPT ![r] = Aucun]
  /\ aServir' = [aServir EXCEPT ![r] = {}]
  /\ vue' = [vue EXCEPT ![r] = RegistreVide]
  /\ cible' = [cible EXCEPT ![r] = Aucun]
  /\ echec' = [echec EXCEPT ![r] = FALSE]
  /\ reel' = [reel EXCEPT ![r] = FALSE]
  /\ muet' = [muet EXCEPT ![r] = FALSE]

\* And those of declencher at the end of a tick, or with the process.
Oublier(r) ==
  /\ Aller(r, "repos")
  /\ instant' = [instant EXCEPT ![r] = "creation"]
  /\ reste' = [reste EXCEPT ![r] = {}]
  /\ vusActifs' = [vusActifs EXCEPT ![r] = {}]
  /\ OublierSlot(r)

\* declencher: enCours is free, and the clock is read once for the tick.
Declencher(r) ==
  /\ etape[r] = "repos"
  /\ instant' = [instant EXCEPT ![r] = moment]
  /\ Aller(r, "balayage")
  /\ UNCHANGED <<moment, projVars, baseVars, histVars, reste, vusActifs,
                 foyer, muet, aServir, vue, cible, echec, reel>>

\* Mutant: the slots of a past week are not swept.
BalayerSansAbandon(r) ==
  /\ etape[r] = "balayage"
  /\ Aller(r, CASE instant[r] = "close"    -> "abandon"
                [] instant[r] = "creation" -> "contrats"
                [] OTHER                   -> "lecture")
  /\ UNCHANGED <<moment, projVars, baseVars, histVars, localVars>>

\* abandonnerSlotsExpirees reads the slots whose week is past (none before the
\* window closes); then the gates estFenetreEnvoi and estJourCreation.
Balayer(r) ==
  /\ etape[r] = "balayage"
  /\ \/ /\ instant[r] = "close"
        /\ reste' = [reste EXCEPT ![r] = {f \in Foyers : slot[f] \in NonTermines}]
        /\ Aller(r, "abandon")
     \/ /\ instant[r] # "close"
        /\ Aller(r, IF instant[r] = "creation" THEN "contrats" ELSE "lecture")
        /\ UNCHANGED reste
  /\ UNCHANGED <<moment, projVars, baseVars, histVars, instant, vusActifs,
                 foyer, muet, aServir, vue, cible, echec, reel>>

\* marquerAbandonne: a compare-and-set, and one alert per effective transition.
Abandonner(r, f) ==
  /\ etape[r] = "abandon"
  /\ f \in reste[r]
  /\ reste' = [reste EXCEPT ![r] = @ \ {f}]
  /\ \/ /\ slot[f] \in NonTermines
        /\ slot' = [slot EXCEPT ![f] = "ABANDONNE"]
        /\ signaux' = [signaux EXCEPT ![f] = Compter(@)]
     \/ /\ slot[f] \notin NonTermines
        /\ UNCHANGED <<slot, signaux>>
  /\ UNCHANGED <<moment, projVars, livraison, cartes, mails, fideles, etape,
                 instant, vusActifs, foyer, muet, aServir, vue, cible, echec, reel>>

\* The transition commits and the alert is never emitted: the reply is lost and
\* the tick is dropped, or the instance stops before the log and the counter.
AbandonnerMuet(r, f) ==
  /\ Pannes \cap {"base", "arret"} # {}
  /\ etape[r] = "abandon"
  /\ f \in reste[r]
  /\ slot[f] \in NonTermines
  /\ slot' = [slot EXCEPT ![f] = "ABANDONNE"]
  /\ Oublier(r)
  /\ UNCHANGED <<moment, projVars, livraison, cartes, histVars>>

\* creerNotifications: the households with an active contract.
LireContrats(r) ==
  /\ etape[r] = "contrats"
  /\ reste' = [reste EXCEPT ![r] = contrats]
  /\ Aller(r, "reservation")
  /\ UNCHANGED <<moment, projVars, baseVars, histVars, instant, vusActifs,
                 foyer, muet, aServir, vue, cible, echec, reel>>

\* reserver: insert A_ENVOYER, on conflict do nothing.
Reserver(r, f) ==
  /\ etape[r] = "reservation"
  /\ f \in reste[r]
  /\ reste' = [reste EXCEPT ![r] = @ \ {f}]
  /\ slot' = [slot EXCEPT ![f] = IF @ = "absent" THEN "A_ENVOYER" ELSE @]
  /\ UNCHANGED <<moment, projVars, livraison, cartes, histVars, etape, instant,
                 vusActifs, foyer, muet, aServir, vue, cible, echec, reel>>

FinReservation(r) ==
  /\ etape[r] = "reservation"
  /\ reste[r] = {}
  /\ Aller(r, "lecture")
  /\ UNCHANGED <<moment, projVars, baseVars, histVars, localVars>>

\* Mutant: every reserved slot is retried, whatever its status.
LireTousLesSlots(r) ==
  /\ etape[r] = "lecture"
  /\ reste' = [reste EXCEPT ![r] = {f \in Foyers : slot[f] # "absent"}]
  /\ Aller(r, "actifs")
  /\ UNCHANGED <<moment, projVars, baseVars, histVars, instant, vusActifs,
                 foyer, muet, aServir, vue, cible, echec, reel>>

\* traiterEnvois: aRetenter, the slots still to send.
LireSlots(r) ==
  /\ etape[r] = "lecture"
  /\ reste' = [reste EXCEPT ![r] = {f \in Foyers : slot[f] \in NonTermines}]
  /\ Aller(r, "actifs")
  /\ UNCHANGED <<moment, projVars, baseVars, histVars, instant, vusActifs,
                 foyer, muet, aServir, vue, cible, echec, reel>>

\* Then contratsActifs, grouped by household.
LireActifs(r) ==
  /\ etape[r] = "actifs"
  /\ vusActifs' = [vusActifs EXCEPT ![r] = contrats]
  /\ Aller(r, "slot")
  /\ UNCHANGED <<moment, projVars, baseVars, histVars, instant, reste,
                 foyer, muet, aServir, vue, cible, echec, reel>>

\* The next slot of the loop; without contract it is closed without a mail.
PrendreSlot(r, f) ==
  /\ etape[r] = "slot"
  /\ f \in reste[r]
  /\ reste' = [reste EXCEPT ![r] = @ \ {f}]
  /\ foyer' = [foyer EXCEPT ![r] = f]
  /\ Aller(r, IF f \in vusActifs[r] THEN "destinataires" ELSE "vide")
  /\ UNCHANGED <<moment, projVars, baseVars, histVars, instant, vusActifs,
                 aServir, vue, cible, echec, reel, muet>>

\* The loop over the slots, or the sweep, is over.
FinDeTick(r) ==
  /\ etape[r] \in {"slot", "abandon"}
  /\ reste[r] = {}
  /\ Oublier(r)
  /\ UNCHANGED <<moment, projVars, baseVars, histVars>>

----------------------------------------------------------------------------
(* One slot: envoyerRecapFoyer and envoyerParParent.                        *)

\* The UPDATE of marquerAbouti and marquerEchec: statut <> ENVOYE.
Basculer(r, issue) ==
  slot' = [slot EXCEPT ![foyer[r]] = IF @ = "ENVOYE" THEN @ ELSE issue]

Aboutir(r, issue) ==
  /\ Basculer(r, issue)
  /\ Aller(r, "slot")
  /\ OublierSlot(r)
  /\ UNCHANGED <<moment, projVars, livraison, cartes, histVars,
                 instant, reste, vusActifs>>

CloturerVide(r) == etape[r] = "vide" /\ Aboutir(r, "ENVOYE")

\* destinatairesActifs.
LireDestinataires(r) ==
  /\ etape[r] = "destinataires"
  /\ LET dest == abonnes \cap ParentsDe[foyer[r]] IN
       /\ aServir' = [aServir EXCEPT ![r] = dest]
       /\ Aller(r, IF dest = {} THEN "repli" ELSE "registre")
  /\ UNCHANGED <<moment, projVars, baseVars, histVars, instant, reste,
                 vusActifs, foyer, muet, vue, cible, echec, reel>>

\* livraisonsParFoyerSemaine: the ledger of the household, read once.
LireRegistre(r) ==
  /\ etape[r] = "registre"
  /\ vue' = [vue EXCEPT ![r] = livraison]
  /\ Aller(r, "parent")
  /\ UNCHANGED <<moment, projVars, baseVars, histVars, instant, reste,
                 vusActifs, foyer, muet, aServir, cible, echec, reel>>

\* envoyerRepli: nobody to reach, one mail to the fallback address.
EnvoyerRepli(r) ==
  /\ etape[r] = "repli"
  /\ \E dryRun \in BOOLEAN : reel' = [reel EXCEPT ![r] = ~dryRun]
  /\ Aller(r, "inapp")
  /\ UNCHANGED <<moment, projVars, baseVars, histVars, instant, reste,
                 vusActifs, foyer, muet, aServir, vue, cible, echec>>

Retirer(r, p) == aServir' = [aServir EXCEPT ![r] = @ \ {p}]

\* A recipient already delivered according to the ledger as read, or one who
\* used up its attempts: no mail.
Sauter(r, p) ==
  /\ etape[r] = "parent"
  /\ p \in aServir[r]
  /\ Solde(vue[r][p])
  /\ Retirer(r, p)
  /\ reel' = [reel EXCEPT ![r] = @ \/ vue[r][p].statut = "ENVOYE"]
  /\ UNCHANGED <<moment, projVars, baseVars, histVars, etape, instant, reste,
                 vusActifs, foyer, muet, vue, cible, echec>>

AEnvoyer(r, p) ==
  /\ etape[r] = "parent"
  /\ p \in aServir[r]
  /\ ~Solde(vue[r][p])

\* mailer.envoyer resolves: delivered, or neutralised by the guard.
Envoyer(r, p) ==
  /\ AEnvoyer(r, p)
  /\ cible' = [cible EXCEPT ![r] = p]
  /\ reel' = [reel EXCEPT ![r] = @ \/ p \notin HorsListe]
  /\ mails' = IF p \in HorsListe THEN mails ELSE [mails EXCEPT ![p] = Compter(@)]
  /\ Aller(r, "journal")
  /\ UNCHANGED <<moment, projVars, baseVars, signaux, fideles, instant, reste,
                 vusActifs, foyer, muet, aServir, vue, echec>>

\* mailer.envoyer throws, with or without a delivery.
EnvoyerEchec(r, p) ==
  /\ AEnvoyer(r, p)
  /\ cible' = [cible EXCEPT ![r] = p]
  /\ \/ "smtp" \in Pannes /\ UNCHANGED mails
     \/ /\ "smtpMuet" \in Pannes
        /\ p \notin HorsListe
        /\ mails' = [mails EXCEPT ![p] = Compter(@)]
  /\ Aller(r, "journalEchec")
  /\ UNCHANGED <<moment, projVars, baseVars, signaux, fideles, instant, reste,
                 vusActifs, foyer, muet, aServir, vue, echec, reel>>

\* marquerParentAbouti: upsert unless the line is ENVOYE or DRY_RUN.
Livrer(r) ==
  livraison' = [livraison EXCEPT ![cible[r]] =
                  IF Livre(@) THEN @
                  ELSE [@ EXCEPT !.statut = Issue(cible[r] \in HorsListe)]]

Journaliser(r) ==
  /\ etape[r] = "journal"
  /\ Livrer(r)
  /\ Retirer(r, cible[r])
  /\ cible' = [cible EXCEPT ![r] = Aucun]
  /\ Aller(r, "parent")
  /\ UNCHANGED <<moment, projVars, slot, cartes, histVars, instant, reste,
                 vusActifs, foyer, muet, vue, echec, reel>>

\* marquerParentAbouti throws, committed or not: the catch of the send treats
\* it as a failure.
JournaliserPerdu(r) ==
  /\ "base" \in Pannes
  /\ etape[r] = "journal"
  /\ Livrer(r) \/ UNCHANGED livraison
  /\ Aller(r, "journalEchec")
  /\ UNCHANGED <<moment, projVars, slot, cartes, histVars, localVars>>

\* Mutant: the upsert of a failure has no compare-and-set.
ManquerSansGarde(r) ==
  livraison' = [livraison EXCEPT ![cible[r]] =
                  [statut |-> "ECHEC", essais |-> @.essais + 1]]

\* Mutant: the last attempt writes a status the ledger does not have.
ManquerAbandon(r) ==
  livraison' = [livraison EXCEPT ![cible[r]] =
                  IF Livre(@) THEN @
                  ELSE [statut |-> "ABANDONNE", essais |-> @.essais + 1]]

\* marquerParentEchec: same guard, one attempt more.
Manquer(r) ==
  livraison' = [livraison EXCEPT ![cible[r]] =
                  IF Livre(@) THEN @
                  ELSE [statut |-> "ECHEC", essais |-> @.essais + 1]]

\* The failure of one recipient does not stop the loop.
JournaliserEchec(r) ==
  /\ etape[r] = "journalEchec"
  /\ Manquer(r)
  /\ echec' = [echec EXCEPT ![r] = TRUE]
  /\ Retirer(r, cible[r])
  /\ cible' = [cible EXCEPT ![r] = Aucun]
  /\ Aller(r, "parent")
  /\ UNCHANGED <<moment, projVars, slot, cartes, histVars, instant, reste,
                 vusActifs, foyer, muet, vue, reel>>

\* Mutant: the failure of a recipient is logged and forgotten.
FinDestinatairesSansEchec(r) ==
  /\ etape[r] = "parent"
  /\ aServir[r] = {}
  /\ Aller(r, "inapp")
  /\ UNCHANGED <<moment, projVars, baseVars, histVars, localVars>>

\* After the loop: throw if a recipient failed in this pass.
FinDestinataires(r) ==
  /\ etape[r] = "parent"
  /\ aServir[r] = {}
  /\ Aller(r, IF echec[r] THEN "echecSlot" ELSE "inapp")
  /\ UNCHANGED <<moment, projVars, baseVars, histVars, localVars>>

\* creerNotificationsInApp: one card per parent and week (on conflict do
\* nothing), for those with the in-app preference; each insertion best effort.
CreerCartes(r) ==
  /\ etape[r] = "inapp"
  /\ \E S \in SUBSET ParentsDe[foyer[r]] : cartes' = cartes \cup S
  /\ Aller(r, "abouti")
  /\ UNCHANGED <<moment, projVars, slot, livraison, histVars, localVars>>

MarquerAbouti(r) == etape[r] = "abouti" /\ Aboutir(r, Issue(~reel[r]))

\* Something in envoyerRecapFoyer threw and nothing was written: the catch of
\* traiterEnvois.
Lever(r) ==
  /\ \/ "base" \in Pannes
        /\ etape[r] \in {"vide", "destinataires", "registre", "journalEchec",
                       "inapp", "abouti"}
     \/ "smtp" \in Pannes /\ etape[r] = "repli"
  /\ Aller(r, "echecSlot")
  /\ UNCHANGED <<moment, projVars, baseVars, histVars, localVars>>

\* marquerAbouti throws although its UPDATE committed: the same catch, over a
\* slot already settled.
LeverAbouti(r) ==
  /\ "base" \in Pannes
  /\ \/ etape[r] = "vide" /\ Basculer(r, "ENVOYE")
     \/ etape[r] = "abouti" /\ Basculer(r, Issue(~reel[r]))
  /\ muet' = [muet EXCEPT ![r] = TRUE]
  /\ Aller(r, "echecSlot")
  /\ UNCHANGED <<moment, projVars, livraison, cartes, histVars, instant, reste,
                 vusActifs, foyer, aServir, vue, cible, echec, reel>>

\* marquerParentEchec throws although its upsert committed.
LeverManque(r) ==
  /\ "base" \in Pannes
  /\ etape[r] = "journalEchec"
  /\ Manquer(r)
  /\ Aller(r, "echecSlot")
  /\ UNCHANGED <<moment, projVars, slot, cartes, histVars, localVars>>

\* marquerEchec: compare-and-set on statut <> ENVOYE.
MarquerEchec(r) == etape[r] = "echecSlot" /\ Aboutir(r, "ECHEC")

\* marquerEchec throws, which traiterEnvois does not catch, although its UPDATE
\* committed: the tick is dropped.
MarquerEchecMuet(r) ==
  /\ "base" \in Pannes
  /\ etape[r] = "echecSlot"
  /\ Basculer(r, "ECHEC")
  /\ Oublier(r)
  /\ UNCHANGED <<moment, projVars, livraison, cartes, histVars>>

\* A query outside that try fails: the tick is dropped until the next one.
Interrompre(r) ==
  /\ "base" \in Pannes
  /\ etape[r] \in {"balayage", "abandon", "contrats", "reservation",
                   "lecture", "actifs", "echecSlot"}
  /\ Oublier(r)
  /\ UNCHANGED <<moment, projVars, baseVars, histVars>>

\* The instance stops and starts again.
Redemarrer(r) ==
  /\ "arret" \in Pannes
  /\ etape[r] # "repos"
  /\ Oublier(r)
  /\ UNCHANGED <<moment, projVars, baseVars, histVars>>

----------------------------------------------------------------------------
TraiterSlot(r) ==
  \/ CloturerVide(r)
  \/ LireDestinataires(r)
  \/ LireRegistre(r)
  \/ EnvoyerRepli(r)
  \/ \E p \in Parents : Sauter(r, p) \/ Envoyer(r, p) \/ EnvoyerEchec(r, p)
  \/ Journaliser(r)
  \/ JournaliserPerdu(r)
  \/ JournaliserEchec(r)
  \/ FinDestinataires(r)
  \/ CreerCartes(r)
  \/ MarquerAbouti(r)
  \/ Lever(r)
  \/ LeverAbouti(r)
  \/ LeverManque(r)
  \/ MarquerEchec(r)
  \/ MarquerEchecMuet(r)

Tick(r) ==
  \/ Declencher(r)
  \/ Balayer(r)
  \/ LireContrats(r)
  \/ FinReservation(r)
  \/ LireSlots(r)
  \/ LireActifs(r)
  \/ \E f \in Foyers :
       Abandonner(r, f) \/ AbandonnerMuet(r, f) \/ Reserver(r, f) \/ PrendreSlot(r, f)
  \/ TraiterSlot(r)
  \/ FinDeTick(r)
  \/ Interrompre(r)

Environnement ==
  \/ AvancerHorloge
  \/ \E f \in Foyers : ChangerContrat(f)
  \/ \E p \in Parents : ChangerAbonnement(p)
  \/ \E r \in Repliques : Redemarrer(r)

Next == (\E r \in Repliques : Tick(r)) \/ Environnement

\* setInterval ticks for ever, and time passes.
Equite ==
  /\ \A r \in Repliques : WF_vars(Tick(r))
  /\ WF_vars(AvancerHorloge)

Spec == Init /\ [][Next]_vars
SpecEquitable == Spec /\ Equite

----------------------------------------------------------------------------
(* Properties.                                                             *)

\* The compare-and-sets of EnvoiRecapService protect a sent slot from every
\* later write, of this instance or of another: ENVOYE is final.
EnvoyeDefinitif ==
  [][\A f \in Foyers : slot[f] = "ENVOYE" => slot'[f] = "ENVOYE"]_vars

\* The ledger never takes back a delivery, and never forgets an attempt.
LivraisonDefinitive ==
  [][\A p \in Parents :
       /\ Livre(livraison[p]) => livraison'[p] = livraison[p]
       /\ livraison'[p].essais >= livraison[p].essais]_vars

\* What was achieved is kept, whatever several instances write late.
AcquisDefinitif == EnvoyeDefinitif /\ LivraisonDefinitive

\* A line of the ledger that says ENVOYE is the trace of a real mail.
PreuveDeMail ==
  \A p \in Parents : livraison[p].statut = "ENVOYE" => mails[p] > 0

\* One instance: a parent whose delivery is in the ledger is not mailed again,
\* however often the failure of another parent replays the slot (H9).
JamaisRelivre ==
  [][\A p \in Parents : Livre(livraison[p]) => mails'[p] = mails[p]]_vars

\* One instance: the attempts towards an address stay within the cap.
EssaisBornes == \A p \in Parents : livraison[p].essais <= MAX_ESSAIS_PARENT

\* One instance: a slot is never declared settled, nor a card created, while a
\* parent who was to be reached all along is neither delivered nor given up.
Reste(f) == {p \in fideles \cap ParentsDe[f] : ~Solde(livraison[p])}
SlotSolde ==
  [][\A f \in Foyers :
       /\ slot[f] \in NonTermines /\ slot'[f] \in Aboutis => Reste(f) = {}
       /\ ParentsDe[f] \cap (cartes' \ cartes) # {} => Reste(f) = {}]_vars

\* One instance: a sent or an abandoned slot is final and is not reported again,
\* tick after tick and whatever reply is lost.  A DRY_RUN slot goes back to be
\* sent only in the catch of the very marquerAbouti whose reply was lost:
\* marquerEchec spares ENVOYE and nothing else, although its comment says that
\* "un ECHEC ne peut jamais ecraser un envoi deja abouti".
Definitif(f) ==
  \/ slot[f] \in {"ENVOYE", "ABANDONNE"}
  \/ slot[f] = "DRY_RUN" /\ \A r \in Repliques : ~(muet[r] /\ foyer[r] = f)

SlotDefinitif ==
  [][\A f \in Foyers :
       /\ Definitif(f) => slot'[f] = slot[f]
       /\ slot[f] \in Terminaux => signaux'[f] = signaux[f]]_vars

\* A step of r that fails.  A tick that ends by itself is no failure.
Panne(r) ==
  /\ \/ Redemarrer(r) \/ Interrompre(r) \/ Lever(r) \/ LeverAbouti(r) \/ LeverManque(r)
     \/ MarquerEchecMuet(r) \/ \E f \in Foyers : AbandonnerMuet(r, f)
  /\ ~FinDeTick(r)

\* An outage ends.
Stabilise == <>[][\A r \in Repliques : ~Panne(r)]_vars

\* A reserved slot does not stay pending: it is sent, or abandoned once the
\* window has closed (the alert can still be lost, see AbandonnerMuet).
SlotAboutit ==
  Stabilise => \A f \in Foyers : slot[f] # "absent" ~> slot[f] \in Terminaux
=============================================================================
