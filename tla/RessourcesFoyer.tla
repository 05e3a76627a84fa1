--------------------------- MODULE RessourcesFoyer ---------------------------
(***************************************************************************)
(* The dated versions of the income of one household, saved by svc-foyer   *)
(* (foyer/foyer.service.ts: mettreAJour, materialiserFins,                 *)
(* rafraichirEtEmettre, supprimerFoyer) and mirrored by svc-tarification   *)
(* (consumers/projection.service.ts: appliquerFoyerVersion).               *)
(*                                                                         *)
(* Transactions run at READ COMMITTED: a statement sees what was committed *)
(* when it starts, plus the writes of its own transaction.  The date of an *)
(* outbox row, occurred_at, is that of the BEGIN of its transaction.       *)
(*                                                                         *)
(* A version is named by its date of effect: foyer_version is unique on    *)
(* (foyer_id, date_effet), and a correction keeps the id of the row.       *)
(***************************************************************************)
EXTENDS Naturals, Sequences

CONSTANTS
  Commandes,   \* the requests that may be in progress at the same time
  Valeurs,     \* incomes
  Absente,     \* stands for "no version at this date"
  Libre,       \* stands for "the row foyer is not locked"
  DERNIER,     \* bound: days are 1 .. DERNIER
  MAX_TX       \* bound: transactions begun

Jours  == 1 .. DERNIER
Infini == DERNIER + 1            \* date_fin IS NULL: the version in force
Fins   == Jours \cup {Infini}

Versions   == [valeur : Valeurs, fin : Fins]
Projetees  == [valeur : Valeurs, fin : Fins, le : 1 .. MAX_TX]
Evenements == [type : {"version"}, le : 1 .. MAX_TX, jour : Jours,
               valeur : Valeurs, fin : Fins]
              \cup [type : {"effacement"}, le : 1 .. MAX_TX]

ASSUME ConstantesRessources ==
  /\ DERNIER \in Nat \ {0} /\ MAX_TX \in Nat \ {0}
  /\ Absente \notin Versions \cup Projetees \cup Valeurs
  /\ Libre \notin Commandes

VARIABLES
  vivant,     \* svc-foyer: the row foyer exists
  courante,   \* svc-foyer: the income in the row foyer
  versions,   \* svc-foyer: foyer_version, what is committed
  journal,    \* svc-foyer: correction_journal
  outbox,     \* svc-foyer: events of the committed transactions
  verrou,     \* svc-foyer: who holds the row foyer FOR UPDATE
  tx,         \* svc-foyer: the transaction of each request
  debuts,     \* clock: transactions begun so far
  jour,       \* clock: today
  bareme,     \* svc-foyer: first day for which brackets are projected
  traites,    \* svc-tarification: processed_event
  miroir,     \* svc-tarification: foyer_version
  jourLigne,  \* history: the day of the last write of the row foyer
  croise,     \* history: a transaction committed after a younger one
  depasse     \* history: a version was projected after the erasure

foyerVars  == <<vivant, courante, versions, journal, outbox, jourLigne, croise>>
txVars     == <<verrou, tx, debuts>>
horloge    == <<jour, bareme>>
miroirVars == <<traites, miroir, depasse>>
vars       == <<foyerVars, txVars, horloge, miroirVars>>

Presentes(s) == {d \in Jours : s[d] # Absente}

Suites == [Jours -> Versions \cup {Absente}]

TxTypes ==
  [pc : {"repos", "verrou", "saisie", "calcul", "validation"},
   debut : 0 .. MAX_TX, jour : Jours, valeur : Valeurs \cup {Absente},
   avant : Valeurs \cup {Absente}, suite : Suites, ecrits : SUBSET Jours]

TypeOK ==
  /\ vivant \in BOOLEAN
  /\ courante \in Valeurs
  /\ versions \in Suites
  /\ journal \in Seq([jour : Jours, avant : Valeurs, apres : Valeurs])
  /\ outbox \subseteq Evenements
  /\ verrou \in Commandes \cup {Libre}
  /\ tx \in [Commandes -> TxTypes]
  /\ debuts \in 0 .. MAX_TX
  /\ jour \in Jours /\ jourLigne \in Jours /\ bareme \in Jours
  /\ traites \subseteq outbox
  /\ miroir \in [Jours -> Projetees \cup {Absente}]
  /\ croise \in BOOLEAN /\ depasse \in BOOLEAN

----------------------------------------------------------------------------
(* materialiserFins and versionApplicable.                                 *)

\* Mutant: the eve of the eve.
FinDeuxFois(presentes, d) ==
  LET suivantes == {e \in presentes : e > d}
  IN IF suivantes = {} THEN Infini
     ELSE (CHOOSE e \in suivantes : \A f \in suivantes : e <= f) - 2

\* cloreVersionPrecedente: the eve of the next date of effect, none if last.
Fin(presentes, d) ==
  LET suivantes == {e \in presentes : e > d}
  IN IF suivantes = {} THEN Infini
     ELSE (CHOOSE e \in suivantes : \A f \in suivantes : e <= f) - 1

\* Mutant: only the version that precedes the one just written is closed, as
\* if the history were always extended at its end.
MaterialiserLaVeille(s, d) ==
  [e \in Jours |->
     IF s[e] = Absente THEN Absente
     ELSE IF e < d THEN [s[e] EXCEPT !.fin = IF @ = Infini THEN d - 1 ELSE @]
     ELSE s[e]]

\* Every end is computed again: a retroactive version goes in the middle.
MaterialiserFins(s, d) ==
  [e \in Jours |->
     IF s[e] = Absente THEN Absente
     ELSE [s[e] EXCEPT !.fin = Fin(Presentes(s), e)]]

\* The version in force at date d; the first one also stands for the past.
VersionApplicable(s, d) ==
  LET passees == {e \in Presentes(s) : e <= d}
  IN IF passees # {}
     THEN s[CHOOSE e \in passees : \A f \in passees : f <= e]
     ELSE s[CHOOSE e \in Presentes(s) : \A f \in Presentes(s) : e <= f]

----------------------------------------------------------------------------
(* svc-foyer.                                                              *)

Repos == [pc |-> "repos", debut |-> 0, jour |-> 1, valeur |-> Absente,
          avant |-> Absente, suite |-> [d \in Jours |-> Absente], ecrits |-> {}]

EvenementsDe(le, s) ==
  {[type |-> "version", le |-> le, jour |-> d, valeur |-> s[d].valeur, fin |-> s[d].fin] :
     d \in Presentes(s)}

\* creer: the household and its first version, one transaction.
Creer(d, v) ==
  LET s == MaterialiserFins([e \in Jours |->
             IF e = d THEN [valeur |-> v, fin |-> Infini] ELSE Absente], d)
  IN /\ versions = s
     /\ outbox = EvenementsDe(1, s)
     /\ courante = v

Init ==
  /\ bareme \in Jours
  /\ \E d \in bareme .. DERNIER, v \in Valeurs : Creer(d, v)
  /\ vivant = TRUE
  /\ journal = <<>>
  /\ verrou = Libre
  /\ tx = [c \in Commandes |-> Repos]
  /\ debuts = 1
  /\ jour = 1 /\ jourLigne = 1
  /\ traites = {}
  /\ miroir = [d \in Jours |-> Absente]
  /\ croise = FALSE /\ depasse = FALSE

\* A request begins: mettreAJour of income v at date d, or supprimerFoyer
\* (valeur Absente).
Commencer(c) ==
  /\ tx[c].pc = "repos"
  /\ debuts < MAX_TX
  /\ debuts' = debuts + 1
  /\ \E d \in Jours, v \in Valeurs \cup {Absente} :
       /\ v = Absente => d = 1
       /\ tx' = [tx EXCEPT ![c] = [Repos EXCEPT !.pc = "verrou", !.jour = d,
                                                !.debut = debuts', !.valeur = v]]
  /\ UNCHANGED <<foyerVars, verrou, horloge, miroirVars>>

\* 404: the statement that waited for the row finds that it is gone.
Introuvable(c) ==
  /\ tx[c].pc = "verrou"
  /\ ~vivant
  /\ tx' = [tx EXCEPT ![c] = Repos]
  /\ UNCHANGED <<foyerVars, verrou, debuts, horloge, miroirVars>>

\* Mutant: SELECT without FOR UPDATE.
VerrouillerSansVerrou(c) ==
  /\ tx[c].pc = "verrou" /\ tx[c].valeur # Absente
  /\ vivant
  /\ tx' = [tx EXCEPT ![c].pc = "saisie"]
  /\ UNCHANGED <<foyerVars, verrou, debuts, horloge, miroirVars>>

\* mettreAJour: SELECT ... FROM foyer FOR UPDATE.
Verrouiller(c) ==
  /\ tx[c].pc = "verrou" /\ tx[c].valeur # Absente
  /\ vivant /\ verrou = Libre
  /\ verrou' = c
  /\ tx' = [tx EXCEPT ![c].pc = "saisie"]
  /\ UNCHANGED <<foyerVars, debuts, horloge, miroirVars>>

\* Reads the version of this date, if any: the save is then a correction.
Saisir(c) ==
  /\ tx[c].pc = "saisie"
  /\ tx' = [tx EXCEPT ![c].pc = "calcul",
                      ![c].avant = IF versions[tx[c].jour] = Absente THEN Absente
                                   ELSE versions[tx[c].jour].valeur]
  /\ UNCHANGED <<foyerVars, verrou, debuts, horloge, miroirVars>>

\* Upserts the version, then materialiserFins over what the transaction sees:
\* it writes its own row and those whose end has moved.
Calculer(c) ==
  LET t   == tx[c]
      lue == [versions EXCEPT ![t.jour] =
                [valeur |-> t.valeur, fin |-> IF @ = Absente THEN Infini ELSE @.fin]]
      s   == MaterialiserFins(lue, t.jour)
  IN /\ t.pc = "calcul"
     /\ tx' = [tx EXCEPT ![c].pc = "validation", ![c].suite = s,
                         ![c].ecrits = {t.jour} \cup {d \in Jours : s[d] # lue[d]}]
     /\ UNCHANGED <<foyerVars, verrou, debuts, horloge, miroirVars>>

Terminer(c) ==
  /\ tx' = [tx EXCEPT ![c] = Repos]
  /\ verrou' = IF verrou = c THEN Libre ELSE verrou

\* trancheDepuisBareme finds brackets for the date of every version.
Couverte(s) == \A d \in Presentes(s) : d >= bareme

\* Mutant: the row takes the income just saved, whatever its date.
LigneSaisie(c) == tx[c].valeur

\* The income of the version in force today.
LigneCourante(c) == VersionApplicable(tx[c].suite, jour).valeur

\* Mutant: only the rows that were written are emitted, not the history.
EmettreEcrits(c) == {e \in EvenementsDe(tx[c].debut, tx[c].suite) : e.jour = tx[c].jour}

\* One event per version, all dated by the beginning of the transaction.
Emettre(c) == EvenementsDe(tx[c].debut, tx[c].suite)

\* rafraichirEtEmettre, then COMMIT: rows, correction, row foyer and events.
Valider(c) ==
  LET t == tx[c] IN
  /\ t.pc = "validation"
  /\ Couverte(t.suite)
  /\ versions' = [d \in Jours |-> IF d \in t.ecrits THEN t.suite[d] ELSE versions[d]]
  /\ journal' = IF t.avant = Absente THEN journal
                ELSE Append(journal, [jour |-> t.jour, avant |-> t.avant, apres |-> t.valeur])
  /\ courante' = LigneCourante(c) /\ jourLigne' = jour
  /\ outbox' = outbox \cup Emettre(c)
  /\ croise' = (croise \/ \E e \in outbox : e.le > t.debut)
  /\ Terminer(c)
  /\ UNCHANGED <<vivant, debuts, horloge, miroirVars>>

\* 503: no bracket applies at some date of effect, all is rolled back.
Refuser(c) ==
  /\ tx[c].pc = "validation"
  /\ ~Couverte(tx[c].suite)
  /\ Terminer(c)
  /\ UNCHANGED <<foyerVars, debuts, horloge, miroirVars>>

\* supprimerFoyer: the DELETE waits for the row, cascades, emits, commits.
Effacer(c) ==
  /\ tx[c].pc = "verrou" /\ tx[c].valeur = Absente
  /\ vivant /\ verrou = Libre
  /\ vivant' = FALSE
  /\ versions' = [d \in Jours |-> Absente]
  /\ journal' = <<>>
  /\ outbox' = outbox \cup {[type |-> "effacement", le |-> tx[c].debut]}
  /\ croise' = (croise \/ \E e \in outbox : e.le > tx[c].debut)
  /\ Terminer(c)
  /\ UNCHANGED <<courante, jourLigne, debuts, horloge, miroirVars>>

JourSuivant ==
  /\ jour < DERNIER
  /\ jour' = jour + 1
  /\ UNCHANGED <<foyerVars, txVars, bareme, miroirVars>>

\* The stream REFERENTIEL brings older brackets.
ProjeterBareme ==
  /\ bareme > 1
  /\ bareme' = bareme - 1
  /\ UNCHANGED <<foyerVars, txVars, jour, miroirVars>>

----------------------------------------------------------------------------
(* svc-tarification: events at most once, in any order (redeliveries).     *)

\* setWhere: occurred_at of the row is null or <= that of the event.
Recente(e) == miroir[e.jour] = Absente \/ miroir[e.jour].le <= e.le

ProjeterVersion(e) ==
  /\ e \in outbox \ traites
  /\ e.type = "version"
  /\ traites' = traites \cup {e}
  /\ miroir' = IF Recente(e)
               THEN [miroir EXCEPT ![e.jour] =
                       [valeur |-> e.valeur, fin |-> e.fin, le |-> e.le]]
               ELSE miroir
  /\ depasse' = (depasse \/ \E f \in traites : f.type = "effacement")
  /\ UNCHANGED <<foyerVars, txVars, horloge>>

ProjeterEffacement(e) ==
  /\ e \in outbox \ traites
  /\ e.type = "effacement"
  /\ traites' = traites \cup {e}
  /\ miroir' = [d \in Jours |-> Absente]
  /\ UNCHANGED <<foyerVars, txVars, horloge, depasse>>

Next ==
  \/ \E c \in Commandes :
       \/ Commencer(c) \/ Introuvable(c) \/ Verrouiller(c) \/ Saisir(c)
       \/ Calculer(c) \/ Valider(c) \/ Refuser(c) \/ Effacer(c)
  \/ JourSuivant
  \/ ProjeterBareme
  \/ \E e \in outbox : ProjeterVersion(e) \/ ProjeterEffacement(e)

Spec == Init /\ [][Next]_vars

----------------------------------------------------------------------------
(* Properties.                                                             *)

Couvre(s, d, j) == s[d] # Absente /\ d <= j /\ j <= s[d].fin

\* From the first version on, each day is covered by exactly one committed
\* version, whatever saves overlap: the contiguous periods materialiserFins
\* is there to maintain (foyer.service.ts, AM-55).
PartitionDuTemps ==
  \A j \in Jours :
    (\E d \in Presentes(versions) : d <= j) =>
      \E d \in Jours : /\ Couvre(versions, d, j)
                       /\ \A e \in Jours : Couvre(versions, e, j) => e = d

\* Line j of the journal is the next correction of the date of line i.
Suivante(i, j) ==
  /\ i < j /\ journal[j].jour = journal[i].jour
  /\ \A k \in DOMAIN journal : i < k /\ k < j => journal[k].jour # journal[i].jour

\* Line i is the last correction of its date.
Derniere(i) == \A k \in DOMAIN journal : i < k => journal[k].jour # journal[i].jour

\* correction_journal tells the whole story of a date: each line starts from
\* the value the previous one left, the last one left the value in force.
JournalFidele ==
  \A i \in DOMAIN journal :
    /\ \A j \in DOMAIN journal : Suivante(i, j) => journal[j].avant = journal[i].apres
    /\ Derniere(i) => /\ versions[journal[i].jour] # Absente
                      /\ versions[journal[i].jour].valeur = journal[i].apres

\* The row foyer holds the income in force on the day it was last written;
\* nothing writes it when a version saved in advance comes into force.
LigneFidele ==
  vivant => courante = VersionApplicable(versions, jourLigne).valeur

MemeContenu ==
  \A d \in Jours :
    IF versions[d] = Absente THEN miroir[d] = Absente
    ELSE /\ miroir[d] # Absente
         /\ miroir[d].valeur = versions[d].valeur /\ miroir[d].fin = versions[d].fin

\* "Re-emettre tout garantit a tarification un miroir complet des versions"
\* (foyer.service.ts, rafraichirEtEmettre): once every event is projected,
\* in whatever order, the mirror of a household is its history.
MiroirComplet == vivant /\ traites = outbox => MemeContenu

\* The same, but for the two ways the code leaves it false: a transaction
\* that waited for the row commits events older than those of the one it
\* waited for, or a version is projected after the erasure, which must
\* otherwise leave nothing in the mirror.
MiroirFidele ==
  /\ croise \/ MiroirComplet
  /\ ~vivant /\ traites = outbox => depasse \/ MemeContenu
=============================================================================
