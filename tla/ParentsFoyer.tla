---------------------------- MODULE ParentsFoyer ----------------------------
(***************************************************************************)
(* The parents of one household, their channels of notification and the    *)
(* unsubscription links, in svc-foyer (foyer/foyer.service.ts,             *)
(* desabonnement.service.ts, preferences.util.ts).                         *)
(*                                                                         *)
(* Requests run as transactions at READ COMMITTED: a statement sees what   *)
(* was committed when it starts and the writes of its own transaction; a   *)
(* row that was written or read FOR UPDATE makes the others wait.  Events  *)
(* are dated by the BEGIN of their transaction (outbox.occurred_at).       *)
(***************************************************************************)
EXTENDS Naturals, FiniteSets

CONSTANTS
  Commandes,  \* requests that may be in progress at the same time
  Parents,    \* ids of parents (bound: as many as rows in the whole run)
  Emails,     \* e-mail addresses
  Canaux,     \* EMAIL, IN_APP: the channels of VALIDATION_HEBDO
  Courriel,   \* the channel of the e-mails, the one the links close
  Jetons,     \* unsubscription links (bound)
  Aucun,      \* stands for "no row", "no parameter"
  OPERATIONS, \* the requests of the run, a subset of Operations
  MAX_TX      \* bound: transactions begun

Operations == {"ajouter", "modifier", "activer", "desactiver", "retirer",
               "preferences", "desabonner", "supprimer"}

Lignes == [email : Emails, actif : BOOLEAN]
Liens  == [p : Parents, canal : Canaux, libre : BOOLEAN]

ASSUME ConstantesParents ==
  /\ Courriel \in Canaux
  /\ Aucun \notin Parents \cup Emails \cup Jetons \cup Operations \cup Lignes \cup Liens
  /\ OPERATIONS \subseteq Operations
  /\ MAX_TX \in Nat \ {0}

VARIABLES
  vivant,   \* the row foyer exists
  parents,  \* table parent: [email, actif] or Aucun
  prefs,    \* table preference_notification: the active channels of a parent
  jetons,   \* table desabonnement_token: [p, canal, libre] or Aucun
  outbox,   \* events of the committed transactions
  tx,       \* the transaction of each request
  debuts,   \* transactions begun so far
  usages,   \* history: how many times each link was consumed
  croises   \* history: parents written by two overlapping transactions, one
            \* of which may have gone by what the other was about to change

donnees   == <<vivant, parents, prefs, jetons, outbox, usages, croises>>
foyerVars == <<donnees, tx, debuts>>

Existe(p) == parents[p] # Aucun
Actif(p)  == Existe(p) /\ parents[p].actif
Actifs    == {p \in Parents : Actif(p)}

Dates == 1 .. MAX_TX
Evenements ==
  [type : {"etat"}, le : Dates, p : Parents, email : Emails, actif : BOOLEAN]
  \cup [type : {"retrait"}, le : Dates, p : Parents]
  \cup [type : {"preferences"}, le : Dates, p : Parents, canaux : SUBSET Canaux]
  \cup [type : {"effacement"}, le : Dates, ids : SUBSET Parents]

Phases == {"repos", "lire", "garde", "ecrire", "relire", "valider"}

TxTypes ==
  [pc : Phases, op : Operations \cup {Aucun}, debut : 0 .. MAX_TX,
   p : Parents \cup {Aucun}, email : Emails \cup {Aucun}, jeton : Jetons \cup {Aucun},
   oui : SUBSET Canaux, non : SUBSET Canaux, effectives : SUBSET Canaux,
   vus : SUBSET Parents, tenus : SUBSET Parents]

FoyerTypeOK ==
  /\ vivant \in BOOLEAN
  /\ parents \in [Parents -> Lignes \cup {Aucun}]
  /\ prefs \in [Parents -> SUBSET Canaux]
  /\ jetons \in [Jetons -> Liens \cup {Aucun}]
  /\ outbox \subseteq Evenements
  /\ tx \in [Commandes -> TxTypes]
  /\ debuts \in 0 .. MAX_TX
  /\ usages \in [Jetons -> Nat]
  /\ croises \subseteq Parents

Etat(le, p, l) == [type |-> "etat", le |-> le, p |-> p, email |-> l.email, actif |-> l.actif]
Preferences(le, p, c) == [type |-> "preferences", le |-> le, p |-> p, canaux |-> c]

Repos == [pc |-> "repos", op |-> Aucun, debut |-> 0, p |-> Aucun, email |-> Aucun,
          jeton |-> Aucun, oui |-> {}, non |-> {}, effectives |-> {},
          vus |-> {}, tenus |-> {}]

\* creer: the household and its parents, all channels consented, one commit.
FoyerInit ==
  /\ vivant = TRUE
  /\ \E ps \in SUBSET Parents, e \in [Parents -> Emails] :
       /\ ps # {} /\ \A p, q \in ps : e[p] = e[q] => p = q
       /\ parents = [p \in Parents |-> IF p \in ps THEN [email |-> e[p], actif |-> TRUE]
                                       ELSE Aucun]
       /\ prefs = [p \in Parents |-> IF p \in ps THEN Canaux ELSE {}]
       /\ outbox = UNION {{Etat(1, p, parents[p]), Preferences(1, p, Canaux)} : p \in ps}
  /\ jetons = [j \in Jetons |-> Aucun]
  /\ tx = [c \in Commandes |-> Repos]
  /\ debuts = 1
  /\ usages = [j \in Jetons |-> 0]
  /\ croises = {}

----------------------------------------------------------------------------
(* Transactions and row locks.                                             *)

\* Rows of preference_notification that c has written and not committed.
CanauxTenus(c, p) ==
  IF tx[c].pc \in {"relire", "valider"} /\ tx[c].p = p THEN tx[c].oui \cup tx[c].non ELSE {}

\* A row parent is free for c.
LigneLibre(c, p) == \A d \in Commandes \ {c} : p \notin tx[d].tenus

\* The rows that c is about to upsert, and its link, are free.
CanauxLibres(c) ==
  \A d \in Commandes \ {c} :
    /\ CanauxTenus(d, tx[c].p) \cap (tx[c].oui \cup tx[c].non) = {}
    /\ tx[c].jeton # Aucun /\ tx[d].jeton = tx[c].jeton => tx[d].pc \notin {"relire", "valider"}

\* An event on p younger than c is already there.
Double(c, p) == \E e \in outbox : e.type # "effacement" /\ e.p = p /\ e.le > tx[c].debut

\* Another transaction on the channels of p is past its first read.
Chevauche(c, p) == \E d \in Commandes \ {c} : tx[d].pc # "repos" /\ tx[d].p = p

\* What a request is given. An unsubscription finds its parent in the link.
Demande(op, p, e, j, oui, non) ==
  [pc |-> IF op \in {"modifier", "activer"} THEN "ecrire" ELSE "lire", op |-> op, debut |-> 0,
   p |-> p, email |-> e, jeton |-> j, oui |-> oui, non |-> non,
   effectives |-> {}, vus |-> {}, tenus |-> {}]

Demandes ==
  {d \in {Demande("ajouter", Aucun, e, Aucun, {}, {}) : e \in Emails}
       \cup {Demande("modifier", p, e, Aucun, {}, {}) : p \in Parents, e \in Emails}
       \cup {Demande(op, p, Aucun, Aucun, {}, {}) : op \in {"activer", "desactiver", "retirer"}, p \in Parents}
       \cup {Demande("preferences", p, Aucun, Aucun, oui, non) :
               p \in Parents, oui \in SUBSET Canaux, non \in SUBSET Canaux}
       \cup {Demande("desabonner", Aucun, Aucun, j, {}, {}) : j \in Jetons}
       \cup {Demande("supprimer", Aucun, Aucun, Aucun, {}, {})} :
     d.op \in OPERATIONS /\ d.oui \cap d.non = {} /\ (d.op = "preferences" => d.oui \cup d.non # {})}

\* A request begins: an id that was never drawn, a link never sent are refused.
Commencer(c) ==
  /\ tx[c].pc = "repos"
  /\ debuts < MAX_TX
  /\ debuts' = debuts + 1
  /\ \E d \in Demandes : tx' = [tx EXCEPT ![c] = [d EXCEPT !.debut = debuts']]
  /\ UNCHANGED donnees

Terminer(c) == tx' = [tx EXCEPT ![c] = Repos]

----------------------------------------------------------------------------
(* Parents.                                                                *)

\* ajouterParent reads the household, then the inactive rows of this e-mail:
\* one of them is reactivated, else a new id is drawn.
LireInactifs(c) ==
  LET inactifs == {p \in Parents : Existe(p) /\ ~Actif(p) /\ parents[p].email = tx[c].email}
      neufs    == {p \in Parents : ~Existe(p) /\ \A d \in Commandes : tx[d].p # p}
  IN /\ tx[c].pc = "lire" /\ tx[c].op = "ajouter"
     /\ vivant
     /\ \E p \in IF inactifs # {} THEN inactifs ELSE neufs :
          tx' = [tx EXCEPT ![c].pc = "ecrire", ![c].p = p]
     /\ UNCHANGED <<donnees, debuts>>

\* Mutant: the fields that the request does not give are written all the same.
LigneDuDto(c) ==
  [email |-> tx[c].email, actif |-> tx[c].op \in {"ajouter", "modifier", "activer"}]

\* What the UPDATE or INSERT of c leaves in the row of its parent.
LigneEcrite(c) ==
  LET t == tx[c] IN
  CASE t.op = "ajouter"    -> [email |-> t.email, actif |-> TRUE]
    [] t.op = "modifier"   -> [parents[t.p] EXCEPT !.email = t.email]
    [] t.op = "activer"    -> [parents[t.p] EXCEPT !.actif = TRUE]
    [] OTHER               -> [parents[t.p] EXCEPT !.actif = FALSE]

\* parent_email_par_foyer_actif_idx: one active row per e-mail.
Doublon(c) ==
  LigneEcrite(c).actif /\ \E q \in Actifs \ {tx[c].p} : parents[q].email = LigneEcrite(c).email

\* Writes the row of the parent, the event and commits.
EcrireParent(c) ==
  LET t == tx[c] IN
  /\ t.pc = "ecrire" /\ t.op \in {"ajouter", "modifier", "activer", "desactiver", "retirer"}
  /\ vivant
  /\ t.op # "ajouter" => Existe(t.p)
  /\ LigneLibre(c, t.p)
  /\ ~Doublon(c)
  /\ parents' = [parents EXCEPT ![t.p] = LigneEcrite(c)]
  /\ prefs' = IF Existe(t.p) THEN prefs ELSE [prefs EXCEPT ![t.p] = Canaux]
  /\ outbox' = outbox \cup
       (IF t.op = "retirer" THEN {[type |-> "retrait", le |-> t.debut, p |-> t.p]}
        ELSE {Etat(t.debut, t.p, LigneEcrite(c))})
       \cup (IF t.op = "ajouter" THEN {Preferences(t.debut, t.p, prefs'[t.p])} ELSE {})
  /\ croises' = IF Double(c, t.p) THEN croises \cup {t.p} ELSE croises
  /\ Terminer(c)
  /\ UNCHANGED <<vivant, jetons, usages, debuts>>

\* gardeDernierParentActif, the snapshot of the statement.
LireActifs(c) ==
  /\ tx[c].pc = "lire" /\ tx[c].op \in {"desactiver", "retirer"}
  /\ tx' = [tx EXCEPT ![c].pc = "garde", ![c].vus = Actifs]
  /\ UNCHANGED <<donnees, debuts>>

\* Mutant: the rows are read and not locked.
RelireSansVerrou(c) ==
  /\ tx[c].pc = "garde"
  /\ tx[c].vus # {tx[c].p}
  /\ tx' = [tx EXCEPT ![c].pc = "ecrire"]
  /\ UNCHANGED <<donnees, debuts>>

\* FOR UPDATE: waits for the rows of the snapshot and evaluates them again;
\* goes on unless the parent is the only one left.
VerrouillerActifs(c) ==
  LET restants == tx[c].vus \cap Actifs IN
  /\ tx[c].pc = "garde"
  /\ \A p \in tx[c].vus : LigneLibre(c, p)
  /\ restants # {tx[c].p}
  /\ tx' = [tx EXCEPT ![c].pc = "ecrire", ![c].vus = restants, ![c].tenus = restants]
  /\ UNCHANGED <<donnees, debuts>>

----------------------------------------------------------------------------
(* Preferences and unsubscription links.                                   *)

\* emettreJeton: the link of the e-mail of a reminder to parent p.
EmettreJeton(j, p) ==
  /\ Existe(p)
  /\ jetons[j] = Aucun
  /\ jetons' = [jetons EXCEPT ![j] = [p |-> p, canal |-> Courriel, libre |-> TRUE]]
  /\ UNCHANGED <<vivant, parents, prefs, outbox, usages, croises, tx, debuts>>

Utilisable(j) == jetons[j] # Aucun /\ jetons[j].libre

\* majPreferences: parentDuFoyer.
LireParent(c) ==
  /\ tx[c].pc = "lire" /\ tx[c].op = "preferences"
  /\ Existe(tx[c].p)
  /\ tx' = [tx EXCEPT ![c].pc = "ecrire"]
  /\ UNCHANGED <<donnees, debuts>>

\* consommer: the link is usable and a channel would remain.
LireJeton(c) ==
  LET j == tx[c].jeton IN
  /\ tx[c].pc = "lire" /\ tx[c].op = "desabonner"
  /\ Utilisable(j)
  /\ prefs[jetons[j].p] \ {jetons[j].canal} # {}
  /\ tx' = [tx EXCEPT ![c].pc = "ecrire", ![c].p = jetons[j].p,
                      ![c].non = {jetons[j].canal}]
  /\ UNCHANGED <<donnees, debuts>>

\* Mutant: the UPDATE of the link does not ask for utilise_le IS NULL.
PrendreToujours(c) == TRUE

\* The UPDATE of the link finds it still unused.
Prendre(c) == tx[c].jeton # Aucun => Utilisable(tx[c].jeton)

\* Takes the link, if any, and upserts the rows of the chosen channels.
EcrireCanaux(c) ==
  /\ tx[c].pc = "ecrire" /\ tx[c].op \in {"preferences", "desabonner"}
  /\ Existe(tx[c].p)
  /\ CanauxLibres(c)
  /\ Prendre(c)
  /\ tx' = [tx EXCEPT ![c].pc = "relire"]
  /\ UNCHANGED <<donnees, debuts>>

\* Mutant: only the rows of the request are looked at.
EffectivesDuDto(c) == (Canaux \ tx[c].non) \cup tx[c].oui

\* preferencesEffectives, read again after the upserts.
Effectives(c) == (prefs[tx[c].p] \ tx[c].non) \cup tx[c].oui

\* "Au moins un canal doit rester actif": checked by the screen only, the
\* link has checked it before.
RelireCanaux(c) ==
  /\ tx[c].pc = "relire"
  /\ tx[c].op = "preferences" => Effectives(c) # {}
  /\ tx' = [tx EXCEPT ![c].pc = "valider", ![c].effectives = Effectives(c)]
  /\ UNCHANGED <<donnees, debuts>>

\* COMMIT of the rows, of the link and of the event, the state as re-read.
ValiderCanaux(c) ==
  LET t == tx[c]
  IN /\ t.pc = "valider"
     /\ prefs' = [prefs EXCEPT ![t.p] = (@ \ t.non) \cup t.oui]
     /\ outbox' = outbox \cup {Preferences(t.debut, t.p, t.effectives)}
     /\ croises' = IF Chevauche(c, t.p) \/ Double(c, t.p) THEN croises \cup {t.p} ELSE croises
     /\ IF t.jeton = Aucun THEN UNCHANGED <<jetons, usages>>
        ELSE /\ jetons' = [jetons EXCEPT ![t.jeton].libre = FALSE]
             /\ usages' = [usages EXCEPT ![t.jeton] = @ + 1]
     /\ Terminer(c)
     /\ UNCHANGED <<vivant, parents, debuts>>

----------------------------------------------------------------------------
(* supprimerFoyer, refusals.                                               *)

\* The ids of the parents, active or not, read before the DELETE.
LireIds(c) ==
  /\ tx[c].pc = "lire" /\ tx[c].op = "supprimer"
  /\ tx' = [tx EXCEPT ![c].pc = "ecrire", ![c].vus = {p \in Parents : Existe(p)}]
  /\ UNCHANGED <<donnees, debuts>>

\* The DELETE waits for every row it cascades to.
Effacer(c) ==
  /\ tx[c].pc = "ecrire" /\ tx[c].op = "supprimer"
  /\ vivant
  /\ \A d \in Commandes \ {c} : tx[d].tenus = {} /\ tx[d].pc \notin {"relire", "valider"}
  /\ vivant' = FALSE
  /\ parents' = [p \in Parents |-> Aucun]
  /\ prefs' = [p \in Parents |-> {}]
  /\ jetons' = [j \in Jetons |-> Aucun]
  /\ outbox' = outbox \cup {[type |-> "effacement", le |-> tx[c].debut, ids |-> tx[c].vus]}
  /\ Terminer(c)
  /\ UNCHANGED <<usages, croises, debuts>>

\* 404, 409 and 400: the transaction is rolled back. A link may have expired
\* whenever it is read.
Refus(c) ==
  LET t == tx[c] IN
  \/ t.pc # "repos" /\ ~vivant
  \/ /\ t.pc = "lire" /\ t.op = "preferences" /\ ~Existe(t.p)
  \/ t.pc = "lire" /\ t.op = "desabonner"
  \/ /\ t.pc = "garde"
     /\ \A p \in t.vus : LigneLibre(c, p)
     /\ t.vus \cap Actifs = {t.p}
  \/ /\ t.pc = "ecrire" /\ t.op \in {"modifier", "activer", "desactiver", "retirer"}
     /\ ~Existe(t.p)
  \/ /\ t.pc = "ecrire" /\ t.op \in {"ajouter", "modifier", "activer"}
     /\ t.op = "ajouter" \/ Existe(t.p)
     /\ Doublon(c)
  \/ t.pc = "ecrire" /\ t.op = "desabonner" /\ CanauxLibres(c) /\ ~Prendre(c)
  \/ t.pc = "relire" /\ t.op = "preferences" /\ Effectives(c) = {}

Refuser(c) ==
  /\ Refus(c)
  /\ Terminer(c)
  /\ UNCHANGED <<donnees, debuts>>

Requete(c) ==
  \/ Commencer(c)
  \/ LireInactifs(c)
  \/ EcrireParent(c)
  \/ LireActifs(c)
  \/ VerrouillerActifs(c)
  \/ LireParent(c)
  \/ LireJeton(c)
  \/ EcrireCanaux(c)
  \/ RelireCanaux(c)
  \/ ValiderCanaux(c)
  \/ LireIds(c)
  \/ Effacer(c)
  \/ Refuser(c)

FoyerNext ==
  \/ \E c \in Commandes : Requete(c)
  \/ \E j \in Jetons, p \in Parents : EmettreJeton(j, p)

FoyerSpec == FoyerInit /\ [][FoyerNext]_foyerVars

----------------------------------------------------------------------------
(* Properties.                                                             *)

\* The guard of a withdrawal found no active parent to lock.
GardeSansObjet(c) ==
  tx[c].pc = "ecrire" /\ tx[c].op \in {"desactiver", "retirer"} /\ tx[c].vus = {}

\* "Au moins un parent actif par foyer": once a household has an active
\* parent, no overlapping withdrawals leave it without one, but for a
\* withdrawal whose guard had nothing to lock: its parent may be reactivated,
\* and become the last one, before the UPDATE (gardeDernierParentActif).
DernierParentGarde ==
  [][vivant' /\ Actifs # {} /\ (\A c \in Commandes : ~GardeSansObjet(c)) => Actifs' # {}]_foyerVars

\* A link is consumed at most once, whatever is replayed (consommer).
LienUnique == \A j \in Jetons : usages[j] <= 1

\* "On ne peut jamais se rendre injoignable pour une notification de
\* service" (preferences.util.ts), but for overlapping requests on the channels
\* of one parent: each reads as active the channel the other is about to close.
Joignable == \A p \in Parents : Existe(p) => prefs[p] # {} \/ p \in croises
=============================================================================
